\* Buffers of two bytes, writes and reads that fit, fill and exceed them.
CONSTANTS
    Capacity = 2
    MaxErrors = 1
    MaxChunk = 2
    Limit = 2
    MaxBytes = 3
    MaxWrite = 3
    MaxRead = 3
SPECIFICATION Spec
INVARIANTS BytesInOrder LayersDecode
PROPERTIES ReadsReturn
CHECK_DEADLOCK FALSE
