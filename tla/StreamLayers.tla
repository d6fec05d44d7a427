---------------------------- MODULE StreamLayers ----------------------------
(***************************************************************************)
(* The layers above the buffers: http11::chunked_writer and                *)
(* http11::chunked_reader, io::limit_reader and io::readline(), each as    *)
(* the only user of its end of the stream.                                 *)
(***************************************************************************)
EXTENDS BufferedIO

CONSTANTS
    MaxChunk,   \* max_chunk_size of chunked_writer::write()
    Limit,      \* limit_reader::limit
    MaxBytes,   \* bound on the payload bytes written
    MaxWrite,   \* bound on the size of one write
    MaxRead     \* bound on the size of one read

ASSUME LayerAssumption == {MaxChunk, Limit, MaxBytes, MaxWrite, MaxRead} \subseteq Nat

VARIABLES
    layer,               \* who uses the stream: "plain", "chunked", "limit", "line"
    payload,             \* history: the bytes given to the layer that writes
    cw,                  \* chunked_writer::write(): [pc, data, amount_written]
    overrun,             \* history: subspan() was called with too large a count
    cr,                  \* the read() of the layer: [pc, n, got, err]
    current_chunk_size,
    progress,            \* limit_reader::progress
    line,                \* readline()'s line
    received,            \* history: the bytes the layer returned
    split,               \* history: the end of a chunk was read in two parts
    interrupted          \* history: an error inside the framing of a chunk

cwVars   == <<cw, overrun, payload>>
crVars   == <<cr, current_chunk_size, progress, line, received, split, interrupted>>
ioVars   == <<channel, writerVars, readerVars>>
vars     == <<layer, cwVars, crVars, ioVars>>

CR == 13
LF == 10
CRLF == <<CR, LF>>
Digit(d) == 48 + d
IsDigit(b) == b \in 48..57

\* std::to_chars().
Decimal(n) == IF n < 10 THEN <<Digit(n)>> ELSE <<Digit(n \div 10), Digit(n % 10)>>

NotWriting == [pc |-> 0, data |-> <<>>, amount_written |-> 0]

LayerInit(l) ==
    /\ layer = l
    /\ payload = <<>> /\ cw = NotWriting /\ overrun = FALSE
    /\ cr = NotReading /\ current_chunk_size = 0 /\ progress = 0
    /\ line = <<>> /\ received = <<>> /\ split = FALSE /\ interrupted = FALSE

-----------------------------------------------------------------------------
(* Writing.                                                                *)

NewBytes(n) == [i \in 1..n |-> 100 + Len(payload) + i]

\* A plain user writes bytes, or a line.
PlainWrite(n) ==
    LET d == IF layer = "line" THEN NewBytes(n) \o CRLF ELSE NewBytes(n)
    IN /\ layer # "chunked"
       /\ Len(payload) + n =< MaxBytes
       /\ Write(d)
       /\ payload' = payload \o NewBytes(n)
       /\ UNCHANGED <<layer, cw, overrun, crVars>>

\* The amount of one iteration is taken from the whole of data.
Amount(d) == Least(MaxChunk, Len(d))

\* The four writes of one iteration.
Piece(k, d, done) ==
    CASE k = 1 -> Decimal(Amount(d))
      [] k = 3 -> SubSeq(d, done + 1, done + Amount(d))
      [] OTHER -> CRLF

ChunkedWrite(n) ==
    /\ layer = "chunked"
    /\ cw.pc = 0
    /\ Len(payload) + n =< MaxBytes
    /\ Write(Piece(1, NewBytes(n), 0))
    /\ payload' = payload \o NewBytes(n)
    /\ cw' = [pc |-> 1, data |-> NewBytes(n), amount_written |-> 0]
    /\ UNCHANGED <<layer, overrun, crVars>>

\* No line break after the data of a chunk.
ChunkedWriteUnterminated ==
    LET done == IF cw.pc = 3 THEN cw.amount_written + Amount(cw.data) ELSE cw.amount_written
    IN /\ cw.pc # 0
       /\ wcall.pc = "idle"
       /\ \/ /\ wcall.err \/ cw.pc = 3
             /\ cw' = NotWriting
             /\ UNCHANGED <<ioVars, overrun>>
          \/ /\ ~wcall.err /\ cw.pc < 3
             /\ Write(Piece(cw.pc + 1, cw.data, done))
             /\ cw' = [cw EXCEPT !.pc = @ + 1]
             /\ UNCHANGED overrun
       /\ UNCHANGED <<layer, payload, crVars>>

\* A write of the parent has returned.
ChunkedWriteStep ==
    LET k == (cw.pc % 4) + 1
        done == IF cw.pc = 3 THEN cw.amount_written + Amount(cw.data) ELSE cw.amount_written
        ends == wcall.err \/ (cw.pc = 4 /\ done >= Len(cw.data))
    IN /\ cw.pc # 0
       /\ wcall.pc = "idle"
       /\ \/ /\ ends
             /\ cw' = NotWriting
             /\ UNCHANGED <<ioVars, overrun>>
          \/ /\ ~ends
             /\ k = 3 => done + Amount(cw.data) =< Len(cw.data)
             /\ Write(Piece(k, cw.data, done))
             /\ cw' = [cw EXCEPT !.pc = k, !.amount_written = done]
             /\ UNCHANGED overrun
          \/ /\ ~ends
             /\ k = 3 /\ done + Amount(cw.data) > Len(cw.data)
             /\ overrun' = TRUE
             /\ UNCHANGED <<ioVars, cw>>
       /\ UNCHANGED <<layer, payload, crVars>>

-----------------------------------------------------------------------------
(* Reading.                                                                *)

PlainRead(n) == layer = "plain" /\ Read(n) /\ UNCHANGED <<layer, cwVars, crVars>>

\* The read() of the layer returns.
Deliver(c, err) ==
    /\ cr' = [c EXCEPT !.pc = "idle", !.err = err]
    /\ received' = received \o c.got

ReadAs(n, c, pc) == Read(n) /\ cr' = [c EXCEPT !.pc = pc] /\ UNCHANGED received

\* The head of the loop of chunked_reader::read().
NextChunk(c, size) ==
    /\ current_chunk_size' = size
    /\ IF Len(c.got) >= c.n THEN Deliver(c, "none") /\ UNCHANGED ioVars
       ELSE IF size = 0 THEN ReadAs(1, c, "size")
       ELSE ReadAs(Least(c.n - Len(c.got), size), c, "data")

ChunkedRead(n) ==
    /\ layer = "chunked"
    /\ cr.pc = "idle" /\ rcall.pc = "idle"
    /\ NextChunk([pc |-> "idle", n |-> n, got |-> <<>>, err |-> "none"], current_chunk_size)
    /\ UNCHANGED <<layer, cwVars, progress, line, split, interrupted>>

\* Bytes that were not read keep the zero they were initialised with.
Byte(i) == IF i =< Len(rcall.got) THEN rcall.got[i] ELSE 0

Fails(err) == Deliver(cr, err) /\ UNCHANGED <<current_chunk_size, ioVars>>

\* get_next_chunk_size(), after a read of one byte.
ChunkSize ==
    LET b == Byte(1)
    IN /\ cr.pc \in {"size", "lf"}
       /\ rcall.pc = "idle"
       /\ \/ rcall.err # "none" /\ Fails(rcall.err)
          \/ /\ rcall.err = "none" /\ cr.pc = "size" /\ IsDigit(b)
             /\ current_chunk_size' = current_chunk_size * 10 + (b - Digit(0))
             /\ ReadAs(1, cr, "size")
          \/ /\ rcall.err = "none" /\ cr.pc = "size" /\ b = CR
             /\ UNCHANGED current_chunk_size
             /\ ReadAs(1, cr, "lf")
          \/ /\ rcall.err = "none" /\ cr.pc = "lf" /\ b = LF
             /\ UNCHANGED current_chunk_size
             /\ IF current_chunk_size = 0 THEN ReadAs(2, cr, "last")
                ELSE ReadAs(Least(cr.n - Len(cr.got), current_chunk_size), cr, "data")
          \/ /\ rcall.err = "none" /\ ~(cr.pc = "size" /\ (IsDigit(b) \/ b = CR)) /\ ~(cr.pc = "lf" /\ b = LF)
             /\ Fails("illegal")
       /\ interrupted' = (interrupted \/ rcall.err # "none")
       /\ UNCHANGED <<layer, cwVars, progress, line, split>>

ChunkData ==
    LET c == [cr EXCEPT !.got = @ \o rcall.got]
        size == current_chunk_size - Len(rcall.got)
    IN /\ cr.pc = "data"
       /\ rcall.pc = "idle"
       /\ \/ rcall.err # "none" /\ Deliver(c, rcall.err) /\ current_chunk_size' = size /\ UNCHANGED ioVars
          \/ rcall.err = "none" /\ size = 0 /\ ReadAs(2, c, "end") /\ current_chunk_size' = 0
          \/ rcall.err = "none" /\ size > 0 /\ NextChunk(c, size)
       /\ UNCHANGED <<layer, cwVars, progress, line, split, interrupted>>

\* validate_end_of_chunk(), after its read of two bytes: one right byte is enough.
ChunkEnd ==
    LET illegal == Byte(1) # CR /\ Byte(2) # LF
    IN /\ cr.pc \in {"end", "last"}
       /\ rcall.pc = "idle"
       /\ \/ rcall.err # "none" /\ Fails(rcall.err)
          \/ rcall.err = "none" /\ illegal /\ Fails("illegal")
          \/ rcall.err = "none" /\ ~illegal /\ cr.pc = "last" /\ Fails("none")
          \/ rcall.err = "none" /\ ~illegal /\ cr.pc = "end" /\ NextChunk(cr, current_chunk_size)
       /\ split' = (split \/ (rcall.err = "none" /\ Len(rcall.got) < 2))
       /\ interrupted' = (interrupted \/ rcall.err # "none")
       /\ UNCHANGED <<layer, cwVars, progress, line>>

LimitRead(n) ==
    /\ layer = "limit"
    /\ cr.pc = "idle" /\ rcall.pc = "idle"
    /\ \/ progress >= Limit /\ cr.err # "closed" /\ Deliver(NotReading, "closed") /\ UNCHANGED ioVars
       \/ progress < Limit /\ ReadAs(Least(n, Limit - progress), [NotReading EXCEPT !.n = n], "limit")
    /\ UNCHANGED <<layer, cwVars, current_chunk_size, progress, line, split, interrupted>>

LimitReadStep ==
    /\ cr.pc = "limit"
    /\ rcall.pc = "idle"
    /\ progress' = progress + Len(rcall.got)
    /\ Deliver([cr EXCEPT !.got = rcall.got], rcall.err)
    /\ UNCHANGED <<layer, cwVars, current_chunk_size, line, split, interrupted, ioVars>>

EndsWith(s, t) == Len(s) >= Len(t) /\ Drop(s, Len(s) - Len(t)) = t

Readline ==
    /\ layer = "line"
    /\ cr.pc = "idle"
    /\ cr' = [cr EXCEPT !.pc = "line", !.got = <<>>]
    /\ line' = <<>>
    /\ UNCHANGED <<layer, cwVars, current_chunk_size, progress, received, split, interrupted, ioVars>>

\* One iteration of readline(): peek(), then read() one byte.  A line that the
\* stream ends in is returned as a line.
ReadlineStep ==
    /\ cr.pc = "line"
    /\ \/ /\ EndsWith(line, CRLF)
          /\ cr' = [cr EXCEPT !.pc = "idle", !.got = Take(line, Len(line) - 2)]
          /\ UNCHANGED <<ioVars, line>>
       \/ /\ ~EndsWith(line, CRLF) /\ rbuf = <<>>
          /\ Peek
          /\ cr' = IF rbuf' = <<>> THEN [cr EXCEPT !.pc = "idle", !.got = line] ELSE cr
          /\ UNCHANGED line
       \/ /\ ~EndsWith(line, CRLF) /\ rbuf # <<>>
          /\ Read(1)
          /\ line' = line \o Take(rbuf, 1)
          /\ UNCHANGED cr
    /\ UNCHANGED <<layer, cwVars, current_chunk_size, progress, received, split, interrupted>>

-----------------------------------------------------------------------------

\* The two tasks at work, without new calls.
WriterStep ==
    \/ (FlushAvailable \/ WriteRest) /\ UNCHANGED <<layer, cwVars, crVars>>
    \/ ChunkedWriteStep
ReaderStep ==
    \/ (ReadDirect \/ ReadFill) /\ UNCHANGED <<layer, cwVars, crVars>>
    \/ ChunkSize \/ ChunkData \/ ChunkEnd \/ LimitReadStep \/ ReadlineStep

UserCall ==
    \/ \E n \in 1..MaxWrite : PlainWrite(n) \/ ChunkedWrite(n)
    \/ \E n \in 1..MaxRead : PlainRead(n) \/ ChunkedRead(n) \/ LimitRead(n)
    \/ Readline
    \/ cw.pc = 0 /\ (Flush \/ Close) /\ UNCHANGED <<layer, cwVars, crVars>>
    \/ /\ layer = "plain"
       /\ ResetWriter \/ Peek \/ \E other \in BOOLEAN : ResetReader(other)
       /\ UNCHANGED <<layer, cwVars, crVars>>

Next == WriterStep \/ ReaderStep \/ UserCall

\* Every layer over sockets; string_reader and io::buffer hold their bytes from
\* the start.
Init ==
    \/ \E l \in {"plain", "chunked", "limit", "line"} : IOInit("socket", <<>>) /\ LayerInit(l)
    \/ \E kind \in {"string", "buffer"}, l \in {"plain", "limit", "line"} :
         IOInit(kind, [i \in 1..MaxBytes |-> 100 + i] \o CRLF) /\ LayerInit(l)

\* A task goes on when what it waits for is there.  Nothing is assumed of new
\* calls: the peer may stay silent for ever.
Spec == Init /\ [][Next]_vars /\ WF_vars(WriterStep) /\ WF_vars(ReaderStep)

-----------------------------------------------------------------------------
(* Properties.                                                             *)

\* No byte is lost, duplicated or overtaken between write() and read(), however
\* the sockets cut the stream and wherever the two buffers are, as long as no
\* write() or flush() has failed (buffered_writer.cpp:49 and :85 report a count
\* that does not say what is still in the buffer).  The buffer is empty where
\* buffered_writer.cpp:52 says so.
BytesInOrder ==
    /\ ~broken =>
         consumed \o (IF rcall.pc = "loop" THEN rcall.got ELSE <<>>) \o rbuf \o wire \o wbuf \o wcall.data
             = written
    /\ wcall.pc = "rest" => wbuf = <<>>

\* subspan() is only called out of range for more than max_chunk_size bytes
\* (chunked_writer.cpp:44).
OverrunsOnlyLong == overrun => Len(cw.data) > MaxChunk

\* s is how t begins.
Begins(s, t) == Len(s) =< Len(t) /\ Take(t, Len(s)) = s

\* The payload of the chunks comes out as it went in, and a chunk is only found
\* illegal when its end arrived in two parts (chunked_reader.cpp:99 takes a short
\* read for a whole one); nothing is said of a reader that goes on after an
\* error inside the framing, whose part that was read is forgotten
\* (chunked_reader.cpp:67).
ChunksDecode ==
    layer = "chunked" /\ ~broken /\ ~overrun /\ ~interrupted =>
      Begins(received, payload) /\ (cr.err = "illegal" => split)

\* limit_reader takes no byte beyond the limit out of the stream.
LimitKept == layer = "limit" => Len(consumed) =< Limit /\ Begins(received, consumed)

\* readline() returns what stands before the line break, or all there was.
LinesWhole ==
    layer = "line" /\ cr.pc = "idle" =>
      /\ EndsWith(consumed, line)
      /\ line # <<>> => (IF EndsWith(line, CRLF) THEN cr.got \o CRLF = line ELSE cr.got = line /\ rbuf = <<>>)

\* What the layers return to their users is what was written, in full and no more,
\* whatever the sockets, the buffers and the sizes of the calls cut it into.
LayersDecode == OverrunsOnlyLong /\ ChunksDecode /\ LimitKept /\ LinesWhole

\* string_reader gives nothing without an error: a read() that lacks more than
\* the buffer holds goes round (buffered_reader.cpp:63).
Spinning == source = "string" /\ wire = <<>> /\ rcall.pc = "loop" /\ Missing > Capacity

Reading == rcall.pc # "idle" \/ cr.pc # "idle"

\* A read returns, with what there is or an error, unless the peer is silent, or
\* the stream is a string that ended.
ReadsReturn ==
    Reading ~> \/ ~Reading
               \/ wire = <<>> /\ ~closed
               \/ Spinning

=============================================================================
