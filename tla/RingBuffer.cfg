\* Four slots and three values: every content at every position of begin.
CONSTANTS
    Values = {v0, v1, v2}
    N = 4
    Default = v0
SPECIFICATION Spec
PROPERTIES ImplementsQueue
