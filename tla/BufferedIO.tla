----------------------------- MODULE BufferedIO -----------------------------
(***************************************************************************)
(* io::buffered_writer and io::buffered_reader at the two ends of a byte   *)
(* stream, each over a socket, and the reader also over io::string_reader  *)
(* and io::buffer.                                                         *)
(*                                                                         *)
(* Each end is used by one task, which waits for the call it made; a call  *)
(* is cut where it waits for the socket.  wcall and rcall are the frames   *)
(* of the calls in progress: pc is "idle" when the last one has returned.  *)
(***************************************************************************)
EXTENDS Naturals, Sequences

CONSTANTS
    Capacity,   \* bufsize of both buffers
    MaxErrors   \* bound on the calls of send() and recv() that fail

ASSUME BufferAssumption == Capacity \in Nat \ {0}

VARIABLES
    source,     \* what the reader reads from: "socket", "string", "buffer"
    wire,       \* bytes that were sent and not received
    closed,     \* did the sending socket close?
    errors,     \* socket calls that failed
    wbuf,       \* buffered_writer::buf
    wcall,      \* [pc, data: what is left of the argument, count, err]
    written,    \* history: the bytes given to write(), less what reset() dropped
    rbuf,       \* buffered_reader::buf
    rerr,       \* buffered_reader::err
    rcall,      \* [pc, n: data.size(), got: the bytes stored in data, err]
    consumed,   \* history: the bytes read() returned or reset() dropped
    broken      \* history: a write() or a flush() has failed

channel    == <<source, wire, closed, errors>>
writerVars == <<wbuf, wcall, written, broken>>
readerVars == <<rbuf, rerr, rcall, consumed>>

Take(s, n) == SubSeq(s, 1, n)
Drop(s, n) == SubSeq(s, n + 1, Len(s))
Least(m, n) == IF m < n THEN m ELSE n

Idle == [pc |-> "idle", data |-> <<>>, count |-> 0, err |-> FALSE]
NotReading == [pc |-> "idle", n |-> 0, got |-> <<>>, err |-> "none"]

IOInit(kind, bytes) ==
    /\ source = kind
    /\ wire = bytes
    /\ closed = (kind # "socket")
    /\ errors = 0
    /\ wbuf = <<>> /\ wcall = Idle /\ written = bytes /\ broken = FALSE
    /\ rbuf = <<>> /\ rerr = "none" /\ rcall = NotReading /\ consumed = <<>>

-----------------------------------------------------------------------------
(* The writer.                                                             *)

\* socket::write() returns when everything is sent, or with an error after a part.
Sink(d) ==
    {[sent |-> Len(d), err |-> FALSE]}
    \cup {[sent |-> n, err |-> TRUE] : n \in {m \in 0..(Len(d) - 1) : errors < MaxErrors}}

Send(d, s) ==
    /\ wire' = wire \o Take(d, s.sent)
    /\ errors' = errors + (IF s.err THEN 1 ELSE 0)
    /\ UNCHANGED <<source, closed>>

WriteReturns(count, err) ==
    /\ wcall' = [pc |-> "idle", data |-> <<>>, count |-> count, err |-> err]
    /\ broken' = (broken \/ err)

\* write(), up to where the buffer is full.
Write(d) ==
    LET n == Least(Capacity - Len(wbuf), Len(d))
    IN /\ wcall.pc = "idle"
       /\ ~closed
       /\ written' = written \o d
       /\ wbuf' = wbuf \o Take(d, n)
       /\ IF n = Len(d) THEN WriteReturns(n, FALSE)
          ELSE /\ wcall' = [pc |-> "flush", data |-> Drop(d, n), count |-> n, err |-> FALSE]
               /\ UNCHANGED broken
       /\ UNCHANGED <<channel, readerVars>>

\* The full buffer is sent but not emptied.
FlushAvailableKeeps ==
    /\ wcall.pc = "flush"
    /\ \E s \in Sink(wbuf) :
         /\ Send(wbuf, s)
         /\ UNCHANGED wbuf
         /\ IF s.err THEN WriteReturns(s.sent, TRUE)
            ELSE wcall' = [wcall EXCEPT !.pc = "rest"] /\ UNCHANGED broken
    /\ UNCHANGED <<written, readerVars>>

\* The result of a failed flush_available() is the result of write(): it counts
\* bytes of the buffer, not of the argument.
FlushAvailable ==
    /\ wcall.pc = "flush"
    /\ \E s \in Sink(wbuf) :
         /\ Send(wbuf, s)
         /\ wbuf' = Drop(wbuf, s.sent)
         /\ IF s.err THEN WriteReturns(s.sent, TRUE)
            ELSE wcall' = [wcall EXCEPT !.pc = "rest"] /\ UNCHANGED broken
    /\ UNCHANGED <<written, readerVars>>

\* What is longer than the buffer bypasses it; the rest is buffered.
WriteRest ==
    LET d == wcall.data
        part == Take(d, Capacity)
    IN /\ wcall.pc = "rest"
       /\ \/ /\ Len(d) > Capacity
             /\ \E s \in Sink(part) :
                  /\ Send(part, s)
                  /\ IF s.err THEN WriteReturns(wcall.count + s.sent, TRUE)
                     ELSE /\ wcall' = [pc |-> "rest", data |-> Drop(d, Capacity), count |-> wcall.count + Capacity, err |-> FALSE]
                          /\ UNCHANGED broken
             /\ UNCHANGED wbuf
          \/ /\ Len(d) =< Capacity
             /\ wbuf' = IF d # <<>> THEN d ELSE wbuf
             /\ WriteReturns(wcall.count + Len(d), FALSE)
             /\ UNCHANGED channel
       /\ UNCHANGED <<written, readerVars>>

\* A failed flush() leaves the buffer as it was, the part that was sent included.
Flush ==
    /\ wcall.pc = "idle"
    /\ wbuf # <<>>
    /\ ~closed
    /\ \E s \in Sink(wbuf) :
         /\ Send(wbuf, s)
         /\ wbuf' = IF s.err THEN wbuf ELSE <<>>
         /\ WriteReturns(s.sent, s.err)
    /\ UNCHANGED <<written, readerVars>>

ResetWriter ==
    /\ wcall.pc = "idle"
    /\ wbuf # <<>>
    /\ written' = Take(written, Len(written) - Len(wbuf))
    /\ wbuf' = <<>>
    /\ UNCHANGED <<channel, wcall, broken, readerVars>>

Close ==
    /\ wcall.pc = "idle"
    /\ ~closed
    /\ closed' = TRUE
    /\ UNCHANGED <<source, wire, errors, writerVars, readerVars>>

-----------------------------------------------------------------------------
(* The reader.                                                             *)

\* socket::read(): what has arrived, at most k bytes of it.  It waits for the
\* first byte, and reports the end of the stream as an error.
SocketRead(k) ==
    {[n |-> n, err |-> "none"] : n \in 1..Least(k, Len(wire))}
    \cup {[n |-> 0, err |-> e] : e \in {x \in {"closed"} : wire = <<>> /\ closed}
                                       \cup {x \in {"error"} : errors < MaxErrors}}

\* string_reader::read() gives nothing, and no error, at the end.
StringRead(k) == {[n |-> Least(k, Len(wire)), err |-> "none"]}

\* io::buffer::read() reports the end with the last bytes.
BufferRead(k) == {[n |-> Least(k, Len(wire)), err |-> IF k < Len(wire) THEN "none" ELSE "closed"]}

ImplRead(k) ==
    CASE source = "socket" -> SocketRead(k)
      [] source = "string" -> StringRead(k)
      [] source = "buffer" -> BufferRead(k)

Receive(s) ==
    /\ wire' = Drop(wire, s.n)
    /\ errors' = errors + (IF s.err = "error" THEN 1 ELSE 0)
    /\ UNCHANGED <<source, closed>>

ReadReturns(n, bytes, err) ==
    /\ rcall' = [pc |-> "idle", n |-> n, got |-> bytes, err |-> err]
    /\ consumed' = consumed \o bytes

\* read(), up to where the buffer is used up.  What is left moves to the front:
\* copy_backward() is not made for ranges that overlap this way, but on bytes the
\* libraries implement it with memmove().
Read(n) ==
    /\ rcall.pc = "idle"
    /\ IF n =< Len(rbuf)
       THEN ReadReturns(n, Take(rbuf, n), "none") /\ rbuf' = Drop(rbuf, n)
       ELSE rcall' = [pc |-> "loop", n |-> n, got |-> rbuf, err |-> "none"] /\ rbuf' = <<>> /\ UNCHANGED consumed
    /\ UNCHANGED <<rerr, channel, writerVars>>

Missing == rcall.n - Len(rcall.got)

\* Mutant of ReadDirect: it goes round whatever the socket reports.
ReadDirectRetries ==
    /\ rcall.pc = "loop"
    /\ Missing > Capacity
    /\ \E s \in ImplRead(Capacity) :
         /\ Receive(s)
         /\ rcall' = [rcall EXCEPT !.got = @ \o Take(wire, s.n)]
    /\ UNCHANGED <<consumed, rbuf, rerr, writerVars>>

\* More than the buffer holds is missing: read straight into data.
ReadDirect ==
    /\ rcall.pc = "loop"
    /\ Missing > Capacity
    /\ \E s \in ImplRead(Capacity) :
         LET got == rcall.got \o Take(wire, s.n)
         IN /\ Receive(s)
            /\ IF s.err # "none" THEN ReadReturns(rcall.n, got, s.err)
               ELSE rcall' = [rcall EXCEPT !.got = got] /\ UNCHANGED consumed
    /\ UNCHANGED <<rbuf, rerr, writerVars>>

\* fill() the buffer, and give what is there; an error of fill() is only
\* reported when that is too little.
ReadFill ==
    /\ rcall.pc = "loop"
    /\ Missing =< Capacity
    /\ \/ Missing = 0 /\ ReadReturns(rcall.n, rcall.got, "none") /\ UNCHANGED <<channel, rbuf, rerr>>
       \/ /\ Missing > 0
          /\ \E s \in ImplRead(Capacity) :
               LET available == Least(Missing, s.n)
               IN /\ Receive(s)
                  /\ rbuf' = Drop(Take(wire, s.n), available)
                  /\ rerr' = s.err
                  /\ ReadReturns(rcall.n, rcall.got \o Take(wire, available),
                                 IF available < Missing THEN s.err ELSE "none")
    /\ UNCHANGED writerVars

\* peek(): fill() an empty buffer.  The buffer is empty after it when there is
\* nothing to read.
Peek ==
    /\ rcall.pc = "idle"
    /\ rbuf = <<>>
    /\ \E s \in ImplRead(Capacity) :
         /\ Receive(s)
         /\ rbuf' = Take(wire, s.n)
         /\ rerr' = s.err
    /\ UNCHANGED <<rcall, consumed, writerVars>>

\* reset(other) also clears the error; reset() does not.
ResetReader(other) ==
    /\ rcall.pc = "idle"
    /\ rbuf # <<>>
    /\ consumed' = consumed \o rbuf
    /\ rbuf' = <<>>
    /\ rerr' = IF other THEN "none" ELSE rerr
    /\ UNCHANGED <<rcall, channel, writerVars>>

=============================================================================
