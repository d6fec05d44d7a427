------------------------- MODULE StreamLayersProofs -------------------------
(***************************************************************************)
(* That no byte is lost, duplicated or overtaken between a buffered_writer *)
(* and a buffered_reader, for any size of their buffers, and what the      *)
(* layers above them keep.                                                 *)
(***************************************************************************)
EXTENDS StreamLayers, SequenceTheorems, TLAPS

\* Zenon proves what follows, but for the leaves that name another prover.
USE Zenon

-----------------------------------------------------------------------------
(* The buffers.                                                            *)

Bytes == Seq(Nat)

\* The frames of the calls in progress.
WriteCalls == [pc : {"idle", "flush", "rest"}, data : Bytes, count : Nat, err : BOOLEAN]
ReadErrors == {"none", "closed", "error"}
ReadCalls == [pc : {"idle", "loop"}, n : Nat, got : Bytes, err : ReadErrors]

IOTypes ==
    /\ source \in {"socket", "string", "buffer"}
    /\ wire \in Bytes /\ wbuf \in Bytes /\ rbuf \in Bytes
    /\ written \in Bytes /\ consumed \in Bytes
    /\ wcall \in WriteCalls /\ rcall \in ReadCalls
    /\ broken \in BOOLEAN

\* What a call in progress says of the buffers.
CallsInStep ==
    /\ Len(wbuf) =< Capacity
    /\ Len(wbuf) + Len(wcall.data) =< Len(written)
    /\ wcall.pc = "idle" => wcall.data = <<>>
    /\ wcall.pc = "rest" => wbuf = <<>>
    /\ rcall.pc = "loop" => rbuf = <<>>
    /\ Len(rcall.got) =< rcall.n

\* The bytes a read() in progress has stored.
Stored == IF rcall.pc = "loop" THEN rcall.got ELSE <<>>

\* The bytes on their way, from the reader to the writer.
OnTheWay == consumed \o Stored \o rbuf \o wire \o wbuf \o wcall.data

\* The inductive invariant behind BytesInOrder.
IOInv == IOTypes /\ CallsInStep /\ (~broken => OnTheWay = written)

-----------------------------------------------------------------------------
(* The layers.                                                             *)

\* The frames of the layers' calls.
InChunk == {"size", "lf", "data", "end", "last"}
LayerReads == [pc : {"idle", "limit", "line"} \cup InChunk, n : Nat, got : Bytes, err : ReadErrors \cup {"illegal"}]
LayerWrites == [pc : 0..4, data : Bytes, amount_written : Nat]

LayerTypes ==
    /\ layer \in {"plain", "chunked", "limit", "line"}
    /\ payload \in Bytes /\ received \in Bytes /\ line \in Bytes
    /\ cw \in LayerWrites /\ cr \in LayerReads
    /\ current_chunk_size \in Nat /\ progress \in Nat
    /\ overrun \in BOOLEAN

\* Which layer a call belongs to, and what it asked of the one below: a read of the
\* data of a chunk asks for no more than the chunk and the caller's span hold.
LayersInStep ==
    /\ cr.pc \in InChunk => layer = "chunked"
    /\ cr.pc = "limit" => layer = "limit"
    /\ cr.pc = "line" => layer = "line"
    /\ cw.pc # 0 => layer = "chunked"
    /\ cr.pc \in {"size", "lf"} => Len(cr.got) =< cr.n
    /\ cr.pc = "data" => rcall.n =< current_chunk_size /\ Len(cr.got) + rcall.n =< cr.n

\* An iteration of chunked_writer::write() begins at 0 unless there was one before it,
\* and after a call out of range nothing moves.
ChunksFit ==
    /\ cw.pc \in 1..3 /\ Len(cw.data) =< MaxChunk => cw.amount_written = 0
    /\ cw.pc = 4 /\ Len(cw.data) =< MaxChunk => cw.amount_written = Len(cw.data)
    /\ overrun => cw.pc = 2 /\ Len(cw.data) > MaxChunk /\ wcall.pc = "idle" /\ ~wcall.err
                    /\ cw.amount_written + Amount(cw.data) > Len(cw.data)

\* limit_reader counts what it took, and asks for no more than is left.
LimitInStep ==
    layer = "limit" =>
      /\ progress =< Limit /\ progress = Len(received)
      /\ cr.pc = "idle" => rcall.pc = "idle" /\ received = consumed
      /\ cr.pc = "limit" => /\ rcall.n =< Limit - progress
                            /\ consumed = IF rcall.pc = "idle" THEN received \o rcall.got ELSE received

\* readline() never leaves a read() open, and has read what is in line.
LineInStep ==
    layer = "line" =>
      /\ rcall.pc = "idle" /\ EndsWith(consumed, line)
      /\ cr.pc = "idle" /\ line # <<>> =>
           IF EndsWith(line, CRLF) THEN cr.got \o CRLF = line ELSE cr.got = line /\ rbuf = <<>>

LayerInv == LayerTypes /\ LayersInStep /\ ChunksFit /\ LimitInStep /\ LineInStep

-----------------------------------------------------------------------------
(* Sequences of bytes.                                                     *)

\* Concatenation, as the proofs below use it.
LEMMA Joined ==
    ASSUME NEW s \in Bytes, NEW t \in Bytes
    PROVE  s \o t \in Bytes /\ Len(s \o t) = Len(s) + Len(t) /\ Len(s) \in Nat
BY ConcatProperties, LenProperties DEF Bytes

\* Concatenation is associative.
LEMMA Regrouped ==
    ASSUME NEW s \in Bytes, NEW t \in Bytes, NEW u \in Bytes
    PROVE  (s \o t) \o u = s \o (t \o u)
BY SMTT(30), ConcatAssociative DEF Bytes

\* The empty sequence is neutral.
LEMMA NothingJoined ==
    ASSUME NEW s \in Bytes
    PROVE  s \o <<>> = s /\ <<>> \o s = s /\ <<>> \in Bytes /\ Len(<<>>) = 0 /\ (Len(s) = 0 <=> s = <<>>)
<1>1. s \o <<>> = s /\ <<>> \o s = s /\ <<>> \in Bytes /\ Len(<<>>) = 0
  BY ConcatEmptySeq, EmptySeq DEF Bytes
<1>2. Len(s) = 0 <=> s = <<>>
  BY EmptySeq DEF Bytes
<1> QED
  BY <1>1, <1>2

\* A sequence cut in two.
LEMMA CutInTwo ==
    ASSUME NEW s \in Bytes, NEW n \in 0..Len(s)
    PROVE  /\ Take(s, n) \in Bytes /\ Len(Take(s, n)) = n
           /\ Drop(s, n) \in Bytes /\ Len(Drop(s, n)) = Len(s) - n
           /\ Take(s, n) \o Drop(s, n) = s
           /\ n = Len(s) => Take(s, n) = s /\ Drop(s, n) = <<>>
           /\ n = 0 => Take(s, n) = <<>> /\ Drop(s, n) = s
<1>1. Len(s) \in Nat /\ \A i \in 1..Len(s) : s[i] \in Nat
  BY LenProperties, ElementOfSeq DEF Bytes
<1>2. /\ SubSeq(s, 1, n) \in Seq(Nat)
      /\ Len(SubSeq(s, 1, n)) = IF 1 <= n THEN n - 1 + 1 ELSE 0
  BY SMT, <1>1, SubSeqProperties
<1>3. /\ SubSeq(s, n + 1, Len(s)) \in Seq(Nat)
      /\ Len(SubSeq(s, n + 1, Len(s))) = IF n + 1 <= Len(s) THEN Len(s) - (n + 1) + 1 ELSE 0
  <2>1. \A i \in (n + 1)..Len(s) : s[i] \in Nat
    BY SMT, <1>1
  <2> QED
    BY SMT, <1>1, <2>1, SubSeqProperties
<1>4. Take(s, n) \in Bytes /\ Len(Take(s, n)) = n /\ Drop(s, n) \in Bytes /\ Len(Drop(s, n)) = Len(s) - n
  BY SMT, <1>1, <1>2, <1>3 DEF Take, Drop, Bytes
<1>5. Take(s, n) \o Drop(s, n) = s
  <2>1. SubSeq(s, 1, n) \o SubSeq(s, n + 1, Len(s)) = SubSeq(s, 1, Len(s))
    <3>1. 1 \in 1..Len(s)+1 /\ n \in 1-1..Len(s) /\ Len(s) \in n..Len(s)
      BY SMT, <1>1
    <3> QED
      BY <3>1, ConcatAdjacentSubSeq DEF Bytes
  <2> QED
    BY <2>1, SubSeqFull DEF Take, Drop, Bytes
<1>6. n = Len(s) => Take(s, n) = s /\ Drop(s, n) = <<>>
  BY SMT, <1>1, <1>4, SubSeqFull, NothingJoined DEF Take, Bytes
<1>7. n = 0 => Take(s, n) = <<>> /\ Drop(s, n) = s
  BY <1>4, <1>5, NothingJoined
<1> QED
  BY <1>4, <1>5, <1>6, <1>7

\* What is taken is the front of what is joined.
LEMMA TakeJoined ==
    ASSUME NEW s \in Bytes, NEW t \in Bytes
    PROVE  Take(s \o t, Len(s)) = s /\ Drop(s \o t, Len(s)) = t
<1> DEFINE u == s \o t
           f == Take(u, Len(s))
           b == Drop(u, Len(s))
<1>1. u \in Bytes /\ Len(u) = Len(s) + Len(t) /\ Len(s) \in Nat /\ Len(t) \in Nat
  BY Joined
<1>2. \A i \in 1..Len(s) : u[i] = s[i]
  BY SMT, <1>1, ConcatProperties DEF Bytes
<1> HIDE DEF u
<1>3. /\ f \in Bytes /\ Len(f) = Len(s) /\ b \in Bytes /\ Len(b) = Len(t) /\ f \o b = u
  <2>1. Len(s) \in 0..Len(u)
    BY SMT, <1>1
  <2> HIDE DEF f, b
  <2>2. f \in Bytes /\ Len(f) = Len(s) /\ b \in Bytes /\ Len(b) = Len(u) - Len(s) /\ f \o b = u
    BY <1>1, <2>1, CutInTwo DEF f, b
  <2> QED
    BY SMT, <1>1, <2>2
<1>4. \A i \in 1..Len(s) : f[i] = s[i]
  <2>1. \A i \in 1..Len(s) - 1 + 1 : SubSeq(u, 1, Len(s))[i] = u[1 + i - 1]
    <3>1. \A i \in 1..Len(s) : u[i] \in Nat
      BY SMT, <1>1, ElementOfSeq DEF Bytes
    <3> QED
      BY SMT, <1>1, <3>1, SubSeqProperties
  <2> QED
    BY SMT, <1>1, <1>2, <2>1 DEF Take
<1>5. f = s
  BY <1>3, <1>4, SeqEqual DEF Bytes
<1> HIDE DEF f, b
<1>6. b = t
  BY <1>3, <1>5, ConcatSimplifications DEF Bytes, u
<1> QED
  BY <1>5, <1>6 DEF f, b, u

-----------------------------------------------------------------------------
(* The writer.                                                             *)

\* The end of a write() or flush().
LEMMA WriteReturned ==
    ASSUME IOTypes, NEW n \in Nat, NEW e \in BOOLEAN, WriteReturns(n, e)
    PROVE  /\ wcall' \in WriteCalls /\ wcall'.pc = "idle" /\ wcall'.data = <<>> /\ wcall'.err = e
           /\ broken' \in BOOLEAN /\ (e => broken') /\ (~e => broken' = broken)
<1>1. wcall' = [pc |-> "idle", data |-> <<>>, count |-> n, err |-> e]
  BY DEF WriteReturns
<1>2. <<>> \in Bytes
  BY EmptySeq DEF Bytes
<1>3. wcall' \in WriteCalls
  BY <1>1, <1>2, Zenon DEF WriteCalls
<1>4. broken' \in BOOLEAN /\ (e => broken') /\ (~e => broken' = broken)
  <2>1. broken' = (broken \/ e) /\ broken \in BOOLEAN
    BY DEF WriteReturns, IOTypes
  <2> QED
    BY <2>1, Zenon
<1> QED
  BY <1>1, <1>3, <1>4

\* The outcomes of socket::write().
LEMMA SinkTypes ==
    ASSUME NEW d \in Bytes, NEW s \in Sink(d)
    PROVE  s.sent \in 0..Len(d) /\ s.err \in BOOLEAN /\ (~s.err => s.sent = Len(d))
<1>1. Len(d) \in Nat
  BY LenProperties DEF Bytes
<1>2. CASE s = [sent |-> Len(d), err |-> FALSE]
  BY SMT, <1>1, <1>2
<1>3. CASE s \in {[sent |-> n, err |-> TRUE] : n \in {m \in 0..(Len(d) - 1) : errors < MaxErrors}}
  <2>1. PICK n \in 0..(Len(d) - 1) : s = [sent |-> n, err |-> TRUE]
    BY <1>3
  <2> QED
    BY SMT, <1>1, <2>1
<1> QED
  BY <1>2, <1>3 DEF Sink

\* The bytes before the writer's buffer.
LEMMA BeforeWriter ==
    ASSUME IOTypes
    PROVE  /\ Stored \in Bytes
           /\ consumed \o Stored \in Bytes /\ consumed \o Stored \o rbuf \in Bytes
           /\ consumed \o Stored \o rbuf \o wire \in Bytes
           /\ consumed \o Stored \o rbuf \o wire \o wbuf \in Bytes
           /\ wcall.data \in Bytes /\ rcall.got \in Bytes /\ rcall.n \in Nat
<1>1. Stored \in Bytes /\ wcall.data \in Bytes /\ rcall.got \in Bytes /\ rcall.n \in Nat
  BY EmptySeq DEF Stored, IOTypes, ReadCalls, WriteCalls, Bytes
<1>2. consumed \in Bytes /\ rbuf \in Bytes /\ wire \in Bytes /\ wbuf \in Bytes
  BY DEF IOTypes
<1>3. consumed \o Stored \in Bytes
  BY <1>1, <1>2, Joined
<1>4. consumed \o Stored \o rbuf \in Bytes
  BY <1>2, <1>3, Joined
<1>5. consumed \o Stored \o rbuf \o wire \in Bytes
  BY <1>2, <1>4, Joined
<1>6. consumed \o Stored \o rbuf \o wire \o wbuf \in Bytes
  BY <1>2, <1>5, Joined
<1> QED
  BY <1>1, <1>3, <1>4, <1>5, <1>6

\* write(): what fits is buffered, the rest waits.
LEMMA WriteInOrder ==
    ASSUME IOInv, NEW d \in Bytes, Write(d)
    PROVE  IOInv'
<1> DEFINE n == Least(Capacity - Len(wbuf), Len(d))
           X == consumed \o Stored \o rbuf \o wire
<1>1. /\ IOTypes /\ CallsInStep /\ (~broken => OnTheWay = written)
      /\ wcall.pc = "idle" /\ UNCHANGED <<channel, readerVars>>
      /\ written' = written \o d /\ wbuf' = wbuf \o Take(d, n)
  BY DEF IOInv, Write
<1>2. wbuf \in Bytes /\ Len(wbuf) \in Nat /\ Len(d) \in Nat /\ wcall.data = <<>> /\ written \in Bytes /\ Len(written) \in Nat
  BY <1>1, LenProperties DEF IOTypes, CallsInStep, Bytes
<1>3. n \in 0..Len(d) /\ n =< Capacity - Len(wbuf)
  BY SMT, <1>1, <1>2, BufferAssumption DEF Least, CallsInStep
<1>4. /\ broken' = broken /\ wcall' \in WriteCalls /\ wcall'.pc \in {"idle", "flush"}
      /\ wcall'.data = Drop(d, n) /\ (wcall'.pc = "idle" => wcall'.data = <<>>)
  <2>1. CASE n = Len(d)
    <3>1. WriteReturns(n, FALSE)
      BY <2>1 DEF Write
    <3>2. wcall' \in WriteCalls /\ wcall'.pc = "idle" /\ wcall'.data = <<>> /\ broken' = broken
      <4>1. n \in Nat
        BY SMT, <1>2, <1>3
      <4> HIDE DEF n
      <4> QED
        BY <3>1, <1>1, <4>1, WriteReturned, Zenon
    <3>3. Drop(d, n) = <<>>
      BY <2>1, <1>2, <1>3, CutInTwo
    <3> QED
      BY <3>2, <3>3, <1>1 DEF IOTypes
  <2>2. CASE n # Len(d)
    <3>1. wcall' = [pc |-> "flush", data |-> Drop(d, n), count |-> n, err |-> FALSE] /\ broken' = broken
      BY <2>2 DEF Write
    <3>2. Drop(d, n) \in Bytes
      BY <1>2, <1>3, CutInTwo
    <3> QED
      BY SMT, <3>1, <3>2, <1>3 DEF WriteCalls
  <2> QED
    BY <2>1, <2>2
<1> HIDE DEF n
<1> DEFINE t == Take(d, n)
           r == Drop(d, n)
<1>5. t \in Bytes /\ Len(t) = n /\ r \in Bytes /\ Len(r) = Len(d) - n /\ t \o r = d
  BY <1>3, CutInTwo
<1> HIDE DEF t, r
<1>6. wbuf' \in Bytes /\ Len(wbuf') = Len(wbuf) + n /\ written' \in Bytes /\ Len(written') = Len(written) + Len(d)
  BY SMT, <1>1, <1>2, <1>5, Joined DEF t
<1>7. IOTypes'
  BY <1>1, <1>4, <1>6 DEF IOTypes, channel, readerVars
<1>8. CallsInStep'
  <2>1. Len(<<>>) = 0
    BY NothingJoined, <1>2
  <2>2. Len(wbuf') =< Capacity /\ Len(wbuf') + Len(r) =< Len(written')
    BY SMT, <1>1, <1>2, <1>3, <1>5, <1>6, <2>1, BufferAssumption DEF CallsInStep
  <2>3. wcall'.data = r
    BY <1>4 DEF r
  <2> QED
    BY <1>1, <1>4, <2>2, <2>3 DEF CallsInStep, readerVars
<1>9. ASSUME ~broken' PROVE OnTheWay' = written'
  <2>1. X \in Bytes /\ OnTheWay = X \o wbuf \o <<>>
    BY <1>1, <1>2, BeforeWriter DEF OnTheWay
  <2>2. OnTheWay' = X \o wbuf' \o r
    BY <1>1, <1>4 DEF OnTheWay, Stored, channel, readerVars, r
  <2> HIDE DEF X
  <2>3. X \o wbuf \in Bytes
    BY <2>1, <1>2, Joined
  <2>4. X \o wbuf = written
    BY <2>1, <2>3, <1>1, <1>4, <1>9, NothingJoined
  <2>5. X \o wbuf' = X \o wbuf \o t
    BY <2>1, <1>1, <1>2, <1>5, Regrouped DEF t
  <2>6. X \o wbuf \o t \o r = (X \o wbuf) \o (t \o r)
    BY <2>3, <1>5, Regrouped
  <2> QED
    BY <2>2, <2>4, <2>5, <2>6, <1>1, <1>5
<1> QED
  BY <1>7, <1>8, <1>9 DEF IOInv


\* The bytes a send() puts on the wire.
LEMMA Sent ==
    ASSUME IOTypes, NEW d \in Bytes, NEW s \in Sink(d), Send(d, s)
    PROVE  /\ wire' \in Bytes /\ UNCHANGED source
           /\ s.sent \in Nat /\ s.err \in BOOLEAN /\ (~s.err => wire' = wire \o d)
           /\ Drop(d, s.sent) \in Bytes /\ Len(Drop(d, s.sent)) =< Len(d)
           /\ (~s.err => Drop(d, s.sent) = <<>>)
<1> DEFINE t == Take(d, s.sent)
           r == Drop(d, s.sent)
<1>1. Len(d) \in Nat /\ wire \in Bytes
  BY LenProperties DEF Bytes, IOTypes
<1>2. s.sent \in 0..Len(d) /\ s.err \in BOOLEAN /\ (~s.err => s.sent = Len(d))
  BY SinkTypes
<1>3. /\ t \in Bytes /\ Len(t) = s.sent /\ r \in Bytes /\ Len(r) = Len(d) - s.sent
      /\ s.sent = Len(d) => t = d /\ r = <<>>
  BY <1>2, CutInTwo
<1>4. wire' = wire \o t /\ UNCHANGED source
  BY DEF Send
<1> HIDE DEF t
<1>5. wire' \in Bytes
  BY <1>1, <1>3, <1>4, Joined
<1>6. ~s.err => wire' = wire \o d /\ r = <<>>
  BY <1>2, <1>3, <1>4, Zenon
<1> HIDE DEF r
<1>7. Len(r) =< Len(d) /\ s.sent \in Nat
  BY SMT, <1>1, <1>2, <1>3
<1> QED
  BY <1>2, <1>3, <1>4, <1>5, <1>6, <1>7 DEF r

\* The writer's buffer is flushed.
LEMMA FlushAvailableInOrder ==
    ASSUME IOInv, FlushAvailable
    PROVE  IOInv'
<1> DEFINE P == consumed \o Stored \o rbuf
<1>1. /\ IOTypes /\ CallsInStep /\ (~broken => OnTheWay = written)
      /\ wcall.pc = "flush" /\ UNCHANGED <<written, readerVars>>
  BY DEF IOInv, FlushAvailable
<1>2. /\ wbuf \in Bytes /\ Len(wbuf) \in Nat /\ wire \in Bytes /\ wcall \in WriteCalls /\ wcall.data \in Bytes
      /\ Len(wcall.data) \in Nat /\ Len(written) \in Nat /\ P \in Bytes /\ broken \in BOOLEAN
  BY <1>1, BeforeWriter, LenProperties DEF IOTypes, Bytes
<1>3. PICK s \in Sink(wbuf) :
         /\ Send(wbuf, s)
         /\ wbuf' = Drop(wbuf, s.sent)
         /\ IF s.err THEN WriteReturns(s.sent, TRUE)
            ELSE wcall' = [wcall EXCEPT !.pc = "rest"] /\ UNCHANGED broken
  BY DEF FlushAvailable
<1>4. /\ wire' \in Bytes /\ UNCHANGED source
      /\ s.sent \in Nat /\ s.err \in BOOLEAN /\ (~s.err => wire' = wire \o wbuf)
      /\ wbuf' \in Bytes /\ Len(wbuf') =< Len(wbuf) /\ (~s.err => wbuf' = <<>>)
  BY <1>1, <1>2, <1>3, Sent
<1>5. /\ wcall' \in WriteCalls /\ wcall'.pc \in {"idle", "rest"} /\ broken' \in BOOLEAN
      /\ wcall'.data = wcall.data \/ wcall'.data = <<>>
      /\ wcall'.pc = "idle" => wcall'.data = <<>>
      /\ s.err => broken'
      /\ ~s.err => broken' = broken /\ wcall'.data = wcall.data
      /\ wcall'.pc = "rest" => ~s.err
  <2>1. CASE s.err
    <3>1. WriteReturns(s.sent, TRUE)
      BY <1>3, <2>1
    <3>2. wcall' \in WriteCalls /\ wcall'.pc = "idle" /\ wcall'.data = <<>> /\ broken' \in BOOLEAN /\ broken'
      BY <3>1, <1>1, <1>4, WriteReturned, Zenon
    <3> QED
      BY <2>1, <3>2
  <2>2. CASE ~s.err
    BY <2>2, <1>2, <1>3 DEF WriteCalls
  <2> QED
    BY <2>1, <2>2
<1>6. IOTypes'
  BY <1>1, <1>4, <1>5 DEF IOTypes, readerVars
<1>7. CallsInStep'
  <2>1. Len(<<>>) = 0
    BY NothingJoined, <1>2
  <2>2. Len(wcall'.data) \in Nat /\ Len(wcall'.data) =< Len(wcall.data) /\ Len(wbuf') \in Nat
    BY SMT, <1>2, <1>4, <1>5, <2>1, LenProperties DEF Bytes
  <2>3. Len(wbuf') =< Capacity /\ Len(wbuf') + Len(wcall'.data) =< Len(written')
    BY SMT, <1>1, <1>2, <1>4, <2>2, BufferAssumption DEF CallsInStep
  <2> QED
    BY <1>1, <1>4, <1>5, <2>3 DEF CallsInStep, readerVars
<1>8. ASSUME ~broken' PROVE OnTheWay' = written'
  <2>1. ~s.err /\ ~broken
    BY SMT, <1>5, <1>8
  <2>2. /\ wire' = wire \o wbuf /\ wbuf' = <<>> /\ wcall'.data = wcall.data
        /\ UNCHANGED <<consumed, rcall, rbuf>>
    BY <1>1, <1>4, <1>5, <2>1 DEF readerVars
  <2> DEFINE y == P \o wire'
             d == wcall.data
  <2>3. OnTheWay' = y \o <<>> \o d /\ OnTheWay = P \o wire \o wbuf \o d
    BY <2>2 DEF OnTheWay, Stored
  <2> HIDE DEF P, d
  <2>4. y \in Bytes /\ y = P \o wire \o wbuf
    <3>1. y \in Bytes
      BY <1>2, <1>4, Joined
    <3>2. P \o (wire \o wbuf) = P \o wire \o wbuf
      BY <1>2, Regrouped
    <3> QED
      BY <2>2, <3>1, <3>2
  <2> HIDE DEF y
  <2>5. y \o <<>> = y
    BY <2>4, NothingJoined
  <2> QED
    BY <1>1, <2>1, <2>3, <2>4, <2>5
<1> QED
  BY <1>6, <1>7, <1>8 DEF IOInv

\* The rest of what is written: sent past the buffer, or buffered.
LEMMA WriteRestInOrder ==
    ASSUME IOInv, WriteRest
    PROVE  IOInv'
<1> DEFINE P == consumed \o Stored \o rbuf
           d == wcall.data
           c == wcall.count
           part == Take(d, Capacity)
           rest == Drop(d, Capacity)
           Past ==
             /\ \E s \in Sink(part) :
                  /\ Send(part, s)
                  /\ IF s.err THEN WriteReturns(c + s.sent, TRUE)
                     ELSE /\ wcall' = [pc |-> "rest", data |-> rest, count |-> c + Capacity, err |-> FALSE]
                          /\ UNCHANGED broken
             /\ UNCHANGED wbuf
           Kept ==
             /\ wbuf' = IF d # <<>> THEN d ELSE wbuf
             /\ WriteReturns(c + Len(d), FALSE)
             /\ UNCHANGED channel
<1>1. /\ IOTypes /\ CallsInStep /\ (~broken => OnTheWay = written)
      /\ wcall.pc = "rest" /\ UNCHANGED <<written, readerVars>>
  BY DEF IOInv, WriteRest
<1>2. /\ wbuf = <<>> /\ wire \in Bytes /\ wcall \in WriteCalls /\ d \in Bytes /\ c \in Nat
      /\ Len(d) \in Nat /\ Len(written) \in Nat /\ P \in Bytes /\ broken \in BOOLEAN /\ Capacity \in Nat
  BY <1>1, BeforeWriter, LenProperties, BufferAssumption DEF IOTypes, CallsInStep, WriteCalls, Bytes
<1>3. Len(<<>>) = 0 /\ <<>> \in Bytes
  BY <1>2, NothingJoined
<1>4. Len(d) =< Len(written)
  BY SMT, <1>1, <1>2, <1>3 DEF CallsInStep
<1>5. OnTheWay = P \o wire \o <<>> \o d
  BY <1>2 DEF OnTheWay
<1>6. CASE Len(d) > Capacity /\ Past
  <2>1. wbuf' = <<>>
    BY <1>6, <1>2
  <2>2. PICK s \in Sink(part) :
          /\ Send(part, s)
          /\ IF s.err THEN WriteReturns(c + s.sent, TRUE)
             ELSE /\ wcall' = [pc |-> "rest", data |-> rest, count |-> c + Capacity, err |-> FALSE]
                  /\ UNCHANGED broken
    BY <1>6
  <2>3. part \in Bytes /\ rest \in Bytes /\ Len(rest) = Len(d) - Capacity /\ part \o rest = d
    <3>1. Capacity \in 0..Len(d)
      BY SMT, <1>2, <1>6
    <3> QED
      BY <1>2, <3>1, CutInTwo
  <2> HIDE DEF part, rest, d, c
  <2>4. wire' \in Bytes /\ UNCHANGED source /\ s.sent \in Nat /\ s.err \in BOOLEAN /\ (~s.err => wire' = wire \o part)
    BY <1>1, <2>2, <2>3, Sent
  <2>5. CASE s.err
    <3>1. WriteReturns(c + s.sent, TRUE)
      BY <2>2, <2>5, Zenon
    <3>1a. c + s.sent \in Nat
      BY SMT, <2>4, <1>2
    <3>2. wcall' \in WriteCalls /\ wcall'.pc = "idle" /\ wcall'.data = <<>> /\ broken' \in BOOLEAN /\ broken'
      BY <3>1, <3>1a, <1>1, WriteReturned, Zenon
    <3>3. IOTypes'
      BY <1>1, <1>3, <2>1, <2>4, <3>2 DEF IOTypes, readerVars
    <3>4. CallsInStep'
      BY SMT, <1>1, <1>2, <1>3, <2>1, <3>2 DEF CallsInStep, readerVars
    <3> QED
      BY <3>2, <3>3, <3>4 DEF IOInv
  <2>6. CASE ~s.err
    <3>1. /\ wcall' = [pc |-> "rest", data |-> rest, count |-> c + Capacity, err |-> FALSE]
          /\ broken' = broken /\ wire' = wire \o part
      BY <2>2, <2>4, <2>6
    <3>2. wcall' \in WriteCalls /\ wcall'.pc = "rest" /\ wcall'.data = rest
      BY SMT, <1>2, <2>3, <3>1 DEF WriteCalls
    <3>3. IOTypes'
      BY <1>1, <1>3, <2>1, <2>4, <3>1, <3>2 DEF IOTypes, readerVars
    <3>4. CallsInStep'
      <4>1. 0 + Len(rest) =< Len(written)
        BY SMT, <1>2, <1>4, <2>3
      <4> QED
        BY <1>1, <1>2, <1>3, <2>1, <3>2, <4>1 DEF CallsInStep, readerVars
    <3>5. OnTheWay' = OnTheWay
      <4> DEFINE v == P \o wire
                 y == P \o wire'
      <4>1. OnTheWay' = y \o <<>> \o rest /\ OnTheWay = v \o <<>> \o d
        <5>1. UNCHANGED <<consumed, rcall, rbuf>>
          BY <1>1 DEF readerVars
        <5> QED
          BY <1>5, <2>1, <3>2, <5>1 DEF OnTheWay, Stored
      <4> HIDE DEF P
      <4>2. v \in Bytes /\ y \in Bytes /\ y = v \o part
        <5>1. v \in Bytes /\ y \in Bytes
          BY <1>2, <2>4, Joined
        <5>2. P \o (wire \o part) = P \o wire \o part
          BY ZenonT(40), <1>2, <2>3, Regrouped
        <5> QED
          BY <3>1, <5>1, <5>2
      <4> HIDE DEF v, y
      <4>3. v \in Bytes /\ y \in Bytes
        BY <4>2
      <4>4. v \o <<>> = v /\ y \o <<>> = y
        BY <4>3, NothingJoined
      <4>5. v \o part \o rest = v \o (part \o rest)
        BY ZenonT(40), <2>3, <4>3, Regrouped
      <4> QED
        BY <2>3, <4>1, <4>2, <4>4, <4>5
    <3> QED
      BY <1>1, <3>1, <3>3, <3>4, <3>5 DEF IOInv
  <2> QED
    BY <2>5, <2>6
<1>7. CASE Len(d) =< Capacity /\ Kept
  <2> HIDE DEF d, c
  <2>1. wbuf' = d /\ WriteReturns(c + Len(d), FALSE) /\ UNCHANGED channel
    BY <1>2, <1>7, Zenon
  <2>1a. c + Len(d) \in Nat
    BY SMT, <1>2
  <2>2. wcall' \in WriteCalls /\ wcall'.pc = "idle" /\ wcall'.data = <<>> /\ broken' = broken
    BY <1>1, <2>1, <2>1a, WriteReturned, Zenon
  <2>3. IOTypes'
    BY <1>1, <1>2, <2>1, <2>2 DEF IOTypes, readerVars, channel
  <2>4. CallsInStep'
    BY SMT, <1>1, <1>2, <1>3, <1>4, <1>7, <2>1, <2>2 DEF CallsInStep, readerVars
  <2>5. OnTheWay' = OnTheWay
    <3> DEFINE v == P \o wire
               y == v \o d
    <3>1. OnTheWay' = y \o <<>> /\ OnTheWay = v \o <<>> \o d
      BY <1>1, <1>5, <2>1, <2>2 DEF OnTheWay, Stored, readerVars, channel
    <3> HIDE DEF P
    <3>2. v \in Bytes
      BY <1>2, Joined
    <3> HIDE DEF v
    <3>3. y \in Bytes
      BY <1>2, <3>2, Joined
    <3> HIDE DEF y
    <3>4. v \o <<>> = v /\ y \o <<>> = y
      BY <3>2, <3>3, NothingJoined
    <3> QED
      BY <3>1, <3>4 DEF y
  <2> QED
    BY <1>1, <2>2, <2>3, <2>4, <2>5 DEF IOInv
<1> QED
  BY <1>6, <1>7, Zenon DEF WriteRest


\* flush(): a failed one leaves bytes in the buffer that were sent.
LEMMA FlushInOrder ==
    ASSUME IOInv, Flush
    PROVE  IOInv'
<1> DEFINE P == consumed \o Stored \o rbuf
<1>1. /\ IOTypes /\ CallsInStep /\ (~broken => OnTheWay = written)
      /\ wcall.pc = "idle" /\ UNCHANGED <<written, readerVars>>
  BY DEF IOInv, Flush
<1>2. /\ wbuf \in Bytes /\ Len(wbuf) \in Nat /\ wire \in Bytes /\ wcall.data = <<>>
      /\ Len(written) \in Nat /\ P \in Bytes /\ broken \in BOOLEAN
  BY <1>1, BeforeWriter, LenProperties DEF IOTypes, CallsInStep, Bytes
<1>3. PICK s \in Sink(wbuf) :
         /\ Send(wbuf, s)
         /\ wbuf' = IF s.err THEN wbuf ELSE <<>>
         /\ WriteReturns(s.sent, s.err)
  BY DEF Flush
<1>4. wire' \in Bytes /\ UNCHANGED source /\ s.sent \in Nat /\ s.err \in BOOLEAN /\ (~s.err => wire' = wire \o wbuf)
  BY <1>1, <1>2, <1>3, Sent
<1>5. /\ wcall' \in WriteCalls /\ wcall'.pc = "idle" /\ wcall'.data = <<>>
      /\ broken' \in BOOLEAN /\ (s.err => broken') /\ (~s.err => broken' = broken)
  BY <1>1, <1>3, <1>4, WriteReturned, Zenon
<1>6. Len(<<>>) = 0 /\ <<>> \in Bytes
  BY <1>2, NothingJoined
<1>7. wbuf' \in Bytes /\ Len(wbuf') =< Len(wbuf) /\ Len(wbuf') \in Nat
  BY SMT, <1>2, <1>3, <1>6
<1>8. IOTypes'
  BY <1>1, <1>4, <1>5, <1>7 DEF IOTypes, readerVars
<1>9. CallsInStep'
  <2>1. Len(wbuf') =< Capacity /\ Len(wbuf') + 0 =< Len(written)
    BY SMT, <1>1, <1>2, <1>6, <1>7, BufferAssumption DEF CallsInStep
  <2> QED
    BY <1>1, <1>5, <1>6, <2>1 DEF CallsInStep, readerVars
<1>10. ASSUME ~broken' PROVE OnTheWay' = written'
  <2>1. ~s.err /\ ~broken
    BY SMT, <1>4, <1>5, <1>10
  <2>2. wire' = wire \o wbuf /\ wbuf' = <<>> /\ UNCHANGED <<consumed, rcall, rbuf>>
    BY <1>1, <1>3, <1>4, <2>1 DEF readerVars
  <2> DEFINE y == P \o wire'
             z == P \o wire \o wbuf
  <2>3. OnTheWay' = y \o <<>> \o <<>> /\ OnTheWay = z \o <<>>
    BY <1>2, <1>5, <2>2 DEF OnTheWay, Stored
  <2> HIDE DEF P
  <2>4. y \in Bytes /\ y = z
    <3>1. y \in Bytes
      BY <1>2, <1>4, Joined
    <3>2. P \o (wire \o wbuf) = P \o wire \o wbuf
      BY <1>2, Regrouped
    <3> QED
      BY <2>2, <3>1, <3>2
  <2> HIDE DEF y, z
  <2>5. y \o <<>> = y
    BY <2>4, NothingJoined
  <2> QED
    BY <1>1, <2>1, <2>3, <2>4, <2>5
<1> QED
  BY <1>8, <1>9, <1>10 DEF IOInv

\* reset() of the writer takes back what was not sent.
LEMMA ResetWriterInOrder ==
    ASSUME IOInv, ResetWriter
    PROVE  IOInv'
<1> DEFINE X == consumed \o Stored \o rbuf \o wire
           n == Len(written) - Len(wbuf)
<1>1. /\ IOTypes /\ CallsInStep /\ (~broken => OnTheWay = written)
      /\ wcall.pc = "idle" /\ UNCHANGED <<channel, wcall, broken, readerVars>>
      /\ written' = Take(written, n) /\ wbuf' = <<>>
  BY DEF IOInv, ResetWriter
<1>2. /\ wbuf \in Bytes /\ Len(wbuf) \in Nat /\ wcall.data = <<>>
      /\ written \in Bytes /\ Len(written) \in Nat /\ X \in Bytes /\ Len(X) \in Nat
  BY <1>1, BeforeWriter, LenProperties DEF IOTypes, CallsInStep, Bytes
<1>3. Len(<<>>) = 0 /\ <<>> \in Bytes
  BY <1>2, NothingJoined
<1>4. n \in 0..Len(written)
  BY SMT, <1>1, <1>2, <1>3 DEF CallsInStep
<1>5. written' \in Bytes /\ Len(written') = n
  BY <1>1, <1>2, <1>4, CutInTwo
<1>6. IOTypes'
  BY <1>1, <1>3, <1>5 DEF IOTypes, channel, readerVars
<1>7. CallsInStep'
  BY SMT, <1>1, <1>2, <1>3, <1>4, <1>5, BufferAssumption DEF CallsInStep, readerVars
<1>8. ASSUME ~broken' PROVE OnTheWay' = written'
  <2> DEFINE z == X \o wbuf
  <2>1. OnTheWay' = X \o <<>> \o <<>> /\ OnTheWay = z \o <<>>
    BY <1>1, <1>2 DEF OnTheWay, Stored, channel, readerVars
  <2> HIDE DEF X
  <2>2. z \in Bytes /\ Len(z) = Len(X) + Len(wbuf) /\ Take(z, Len(X)) = X
    BY <1>2, Joined, TakeJoined
  <2> HIDE DEF z
  <2>3. z \o <<>> = z /\ X \o <<>> = X
    BY <1>2, <2>2, NothingJoined
  <2>4. z = written
    BY <1>1, <1>8, <2>1, <2>3
  <2>5. n = Len(X)
    BY SMT, <1>2, <2>2, <2>4
  <2> QED
    BY <1>1, <2>1, <2>2, <2>3, <2>4, <2>5
<1> QED
  BY <1>6, <1>7, <1>8 DEF IOInv

\* close() moves no byte.
LEMMA CloseInOrder ==
    ASSUME IOInv, Close
    PROVE  IOInv'
<1>1. UNCHANGED <<source, wire, wbuf, wcall, written, broken, rbuf, rcall, consumed>>
  BY DEF Close, writerVars, readerVars
<1> QED
  BY <1>1 DEF IOInv, IOTypes, CallsInStep, OnTheWay, Stored


-----------------------------------------------------------------------------
(* The reader.                                                             *)

\* The bytes up to the wire, in the four places they can be.
Row(c, s, b, w) == c \o s \o b \o w

\* A byte that moves from one place to the next leaves the row as it was.
LEMMA RowShifts ==
    ASSUME NEW c \in Bytes, NEW s \in Bytes, NEW b \in Bytes, NEW w \in Bytes
    PROVE  /\ Row(c \o s, <<>>, b, w) = Row(c, s, b, w)
           /\ Row(c, <<>>, s \o b, w) = Row(c, s, b, w)
           /\ Row(c, s \o b, <<>>, w) = Row(c, s, b, w)
           /\ Row(c, s, <<>>, b \o w) = Row(c, s, b, w)
<1> DEFINE cs == c \o s
           sb == s \o b
           bw == b \o w
           csb == cs \o b
<1>1. cs \in Bytes /\ sb \in Bytes /\ bw \in Bytes
  BY Joined
<1>2. c \o sb = csb
  BY ZenonT(40), Regrouped
<1> HIDE DEF cs, sb, bw
<1>3. csb \in Bytes
  BY <1>1, Joined
<1>4. cs \o bw = csb \o w
  <2>1. cs \in Bytes
    BY <1>1
  <2>2. cs \o (b \o w) = cs \o b \o w
    BY <2>1, Regrouped
  <2> QED
    BY <2>2 DEF bw
<1>5. cs \o <<>> = cs /\ c \o <<>> = c
  BY <1>1, NothingJoined
<1> HIDE DEF csb
<1>6. csb \o <<>> = csb
  BY <1>3, NothingJoined
<1>7. Row(c, s, b, w) = csb \o w
  BY DEF Row, csb, cs
<1>8. Row(cs, <<>>, b, w) = csb \o w
  BY <1>5 DEF Row, csb
<1>9. Row(c, <<>>, sb, w) = csb \o w
  BY <1>2, <1>5 DEF Row
<1>10. Row(c, sb, <<>>, w) = csb \o w
  BY <1>2, <1>6 DEF Row
<1>11. Row(c, s, <<>>, bw) = csb \o w
  <2>1. Row(c, s, <<>>, bw) = cs \o <<>> \o bw
    BY DEF Row, cs
  <2> QED
    BY <1>4, <1>5, <2>1
<1> QED
  BY <1>7, <1>8, <1>9, <1>10, <1>11 DEF cs, sb, bw

\* The same, one move at a time: bytes are returned, ...
LEMMA RowReturned ==
    ASSUME NEW c \in Bytes, NEW s \in Bytes, NEW b \in Bytes, NEW w \in Bytes
    PROVE  Row(c \o s, <<>>, b, w) = Row(c, s, b, w)
BY SMT, RowShifts

\* ... are taken from the front of the buffer, ...
LEMMA RowTaken ==
    ASSUME NEW c \in Bytes, NEW s \in Bytes, NEW b \in Bytes, NEW w \in Bytes
    PROVE  Row(c, <<>>, s \o b, w) = Row(c, s, b, w)
BY SMT, RowShifts

\* ... are stored in the caller's span, ...
LEMMA RowStored ==
    ASSUME NEW c \in Bytes, NEW s \in Bytes, NEW b \in Bytes, NEW w \in Bytes
    PROVE  Row(c, s \o b, <<>>, w) = Row(c, s, b, w)
BY SMT, RowShifts

\* ... or arrive from the wire.
LEMMA RowArrived ==
    ASSUME NEW c \in Bytes, NEW s \in Bytes, NEW b \in Bytes, NEW w \in Bytes
    PROVE  Row(c, s, <<>>, b \o w) = Row(c, s, b, w)
BY SMT, RowShifts

\* What a step of the reader has to keep.
LEMMA ReaderInOrder ==
    ASSUME IOInv, IOTypes', UNCHANGED writerVars,
           rcall'.pc = "loop" => rbuf' = <<>>,
           Len(rcall'.got) =< rcall'.n,
           Row(consumed, Stored, rbuf, wire)' = Row(consumed, Stored, rbuf, wire)
    PROVE  IOInv'
<1>1. UNCHANGED <<wbuf, wcall, written, broken>>
  BY DEF writerVars
<1>2. OnTheWay' = OnTheWay
  BY <1>1 DEF OnTheWay, Row
<1>3. CallsInStep'
  BY <1>1 DEF IOInv, CallsInStep
<1> QED
  BY <1>1, <1>2, <1>3 DEF IOInv

\* The outcomes of a read() of the source.
LEMMA ImplReadTypes ==
    ASSUME IOTypes, NEW k \in Nat, NEW s \in ImplRead(k)
    PROVE  s.n \in 0..Len(wire) /\ s.n =< k /\ s.err \in ReadErrors
<1>1. Len(wire) \in Nat
  BY LenProperties DEF IOTypes, Bytes
<1>2. CASE source = "socket"
  <2>1. s \in SocketRead(k)
    BY <1>2 DEF ImplRead
  <2>2. CASE s \in {[n |-> n, err |-> "none"] : n \in 1..Least(k, Len(wire))}
    BY SMT, <1>1, <2>2 DEF Least, ReadErrors
  <2>3. CASE s \in {[n |-> 0, err |-> e] : e \in {x \in {"closed"} : wire = <<>> /\ closed}
                                                \cup {x \in {"error"} : errors < MaxErrors}}
    BY SMT, <1>1, <2>3 DEF ReadErrors
  <2> QED
    BY <2>1, <2>2, <2>3 DEF SocketRead
<1>3. CASE source = "string"
  BY SMT, <1>1, <1>3 DEF ImplRead, StringRead, Least, ReadErrors
<1>4. CASE source = "buffer"
  BY SMT, <1>1, <1>4 DEF ImplRead, BufferRead, Least, ReadErrors
<1> QED
  BY <1>2, <1>3, <1>4 DEF IOTypes

\* The bytes a recv() takes off the wire.
LEMMA Received ==
    ASSUME IOTypes, NEW s \in ImplRead(Capacity), Receive(s)
    PROVE  /\ UNCHANGED source /\ s.n \in 0..Len(wire) /\ s.err \in ReadErrors /\ s.n =< Capacity
           /\ Take(wire, s.n) \in Bytes /\ Len(Take(wire, s.n)) = s.n /\ wire' \in Bytes
           /\ Take(wire, s.n) \o wire' = wire
<1>1. wire \in Bytes /\ Capacity \in Nat
  BY BufferAssumption DEF IOTypes
<1>2. s.n \in 0..Len(wire) /\ s.err \in ReadErrors /\ s.n =< Capacity
  BY <1>1, ImplReadTypes
<1>3. wire' = Drop(wire, s.n) /\ UNCHANGED source
  BY DEF Receive
<1> QED
  BY <1>1, <1>2, <1>3, CutInTwo

\* The end of a read().
LEMMA ReadReturned ==
    ASSUME IOTypes, NEW n \in Nat, NEW d \in Bytes, NEW e \in ReadErrors, ReadReturns(n, d, e)
    PROVE  /\ rcall' \in ReadCalls /\ rcall'.pc = "idle" /\ rcall'.n = n /\ rcall'.got = d
           /\ Stored' = <<>> /\ consumed' = consumed \o d /\ consumed' \in Bytes
<1>1. rcall' = [pc |-> "idle", n |-> n, got |-> d, err |-> e] /\ consumed' = consumed \o d /\ consumed \in Bytes
  BY DEF ReadReturns, IOTypes
<1>2. consumed \o d \in Bytes
  BY <1>1, Joined
<1> QED
  BY <1>1, <1>2 DEF ReadCalls, Stored


\* read(): served from the buffer, or the buffer is used up first.
LEMMA ReadInOrder ==
    ASSUME IOInv, NEW n \in Nat, Read(n)
    PROVE  IOInv'
<1>1. IOTypes /\ CallsInStep /\ rcall.pc = "idle" /\ UNCHANGED <<rerr, channel, writerVars>> /\ Stored = <<>>
  BY DEF IOInv, Read, Stored
<1>2. rbuf \in Bytes /\ Len(rbuf) \in Nat /\ consumed \in Bytes /\ wire \in Bytes /\ wire' = wire /\ source' = source
  BY <1>1, LenProperties DEF IOTypes, Bytes, channel
<1>3. CASE n =< Len(rbuf)
  <2> DEFINE t == Take(rbuf, n)
             r == Drop(rbuf, n)
  <2>1. ReadReturns(n, t, "none") /\ rbuf' = r
    BY <1>3 DEF Read
  <2>2. n \in 0..Len(rbuf)
    BY SMT, <1>2, <1>3
  <2>3. t \in Bytes /\ Len(t) = n /\ r \in Bytes /\ t \o r = rbuf
    BY <1>2, <2>2, CutInTwo
  <2> HIDE DEF t, r
  <2>4. /\ rcall' \in ReadCalls /\ rcall'.pc = "idle" /\ rcall'.n = n /\ rcall'.got = t
        /\ Stored' = <<>> /\ consumed' = consumed \o t /\ consumed' \in Bytes
    <3>1. "none" \in ReadErrors
      BY DEF ReadErrors
    <3> QED
      BY <1>1, <2>1, <2>3, <3>1, ReadReturned
  <2>5. IOTypes'
    BY <1>1, <1>2, <2>1, <2>3, <2>4 DEF IOTypes, writerVars
  <2>6. Row(consumed \o t, <<>>, r, wire) = Row(consumed, t, r, wire)
    BY SMT, <1>2, <2>3, RowReturned
  <2>7. Row(consumed, <<>>, t \o r, wire) = Row(consumed, t, r, wire)
    <3>1. t \in Bytes /\ r \in Bytes
      BY <2>3
    <3> QED
      BY SMT, <1>2, <3>1, RowTaken
  <2>8. Row(consumed, Stored, rbuf, wire)' = Row(consumed, Stored, rbuf, wire)
    <3>1. Row(consumed, Stored, rbuf, wire)' = Row(consumed \o t, <<>>, r, wire)
      BY <1>2, <2>1, <2>4
    <3> QED
      BY <1>1, <2>3, <2>6, <2>7, <3>1
  <2> QED
    BY SMT, <1>1, <2>3, <2>4, <2>5, <2>8, ReaderInOrder
<1>4. CASE ~(n =< Len(rbuf))
  <2>1. rcall' = [pc |-> "loop", n |-> n, got |-> rbuf, err |-> "none"] /\ rbuf' = <<>> /\ UNCHANGED consumed
    BY <1>4 DEF Read
  <2>2. <<>> \in Bytes
    BY <1>2, NothingJoined
  <2>3. rcall' \in ReadCalls /\ Stored' = rbuf
    BY <1>2, <2>1 DEF ReadCalls, Stored, ReadErrors
  <2>4. IOTypes'
    BY <1>1, <1>2, <2>1, <2>2, <2>3 DEF IOTypes, writerVars
  <2>5. Row(consumed, rbuf, <<>>, wire) = Row(consumed, <<>>, rbuf, wire)
    <3>1. rbuf \o <<>> = rbuf /\ <<>> \o rbuf = rbuf
      BY <1>2, NothingJoined
    <3>2. Row(consumed, <<>>, rbuf \o <<>>, wire) = Row(consumed, rbuf, <<>>, wire)
      <4> DEFINE e == <<>>
      <4>1. e \in Bytes
        BY <2>2
      <4> HIDE DEF e
      <4>2. Row(consumed, <<>>, rbuf \o e, wire) = Row(consumed, rbuf, e, wire)
        BY SMT, <1>2, <4>1, RowTaken
      <4> QED
        BY <4>2 DEF e
    <3> QED
      BY <3>1, <3>2
  <2>6. Row(consumed, Stored, rbuf, wire)' = Row(consumed, Stored, rbuf, wire)
    BY <1>1, <1>2, <2>1, <2>3, <2>5
  <2>7. Len(rcall'.got) =< rcall'.n
    BY SMT, <1>2, <1>4, <2>1
  <2> QED
    BY <1>1, <2>1, <2>4, <2>6, <2>7, ReaderInOrder
<1> QED
  BY <1>3, <1>4

\* read() of more than the buffer holds.
LEMMA ReadDirectInOrder ==
    ASSUME IOInv, ReadDirect
    PROVE  IOInv'
<1> DEFINE g == rcall.got
           n == rcall.n
<1>1. IOTypes /\ CallsInStep /\ rcall.pc = "loop" /\ UNCHANGED <<rbuf, rerr, writerVars>> /\ Stored = g /\ rbuf = <<>>
  BY DEF IOInv, ReadDirect, Stored, CallsInStep
<1>2. PICK s \in ImplRead(Capacity) :
         /\ Receive(s)
         /\ IF s.err # "none" THEN ReadReturns(n, g \o Take(wire, s.n), s.err)
            ELSE rcall' = [rcall EXCEPT !.got = g \o Take(wire, s.n)] /\ UNCHANGED consumed
  BY DEF ReadDirect
<1> DEFINE t == Take(wire, s.n)
           gt == g \o t
<1>3. /\ UNCHANGED source /\ s.n \in 0..Len(wire) /\ s.err \in ReadErrors /\ s.n =< Capacity
      /\ t \in Bytes /\ Len(t) = s.n /\ wire' \in Bytes /\ t \o wire' = wire
  BY <1>1, <1>2, Received
<1>4. g \in Bytes /\ n \in Nat /\ consumed \in Bytes /\ Len(wire) \in Nat /\ rcall \in ReadCalls
  BY <1>1, BeforeWriter, LenProperties DEF IOTypes, Bytes
<1>5. n - Len(g) > Capacity
  BY DEF ReadDirect, Missing
<1> HIDE DEF t, g, n
<1>6. gt \in Bytes /\ Len(gt) = Len(g) + Len(t) /\ Len(g) \in Nat /\ <<>> \in Bytes
  BY <1>3, <1>4, Joined, NothingJoined
<1>7. Len(gt) =< n
  <2>1. s.n \in Nat /\ Capacity \in Nat
    BY SMT, <1>3, <1>4, BufferAssumption
  <2> QED
    BY SMT, <1>3, <1>4, <1>5, <1>6, <2>1
<1>8. Row(consumed, gt, <<>>, wire') = Row(consumed, g, <<>>, wire)
  <2>1. Row(consumed, g \o t, <<>>, wire') = Row(consumed, g, t, wire')
    BY SMT, <1>3, <1>4, RowStored
  <2>2. Row(consumed, g, <<>>, t \o wire') = Row(consumed, g, t, wire')
    <3>1. t \in Bytes /\ wire' \in Bytes
      BY <1>3
    <3> QED
      BY SMT, <1>4, <3>1, RowArrived
  <2> QED
    BY <1>3, <2>1, <2>2
<1>9. CASE s.err # "none"
  <2>1. ReadReturns(n, gt, s.err)
    BY <1>2, <1>9 DEF t, g, n
  <2> HIDE DEF gt
  <2>2. /\ rcall' \in ReadCalls /\ rcall'.pc = "idle" /\ rcall'.n = n /\ rcall'.got = gt
        /\ Stored' = <<>> /\ consumed' = consumed \o gt /\ consumed' \in Bytes
    BY <1>1, <1>3, <1>4, <1>6, <2>1, ReadReturned
  <2>3. IOTypes'
    BY <1>1, <1>3, <2>2 DEF IOTypes, writerVars
  <2>4. Row(consumed \o gt, <<>>, <<>>, wire') = Row(consumed, gt, <<>>, wire')
    BY SMT, <1>3, <1>4, <1>6, RowReturned
  <2>5. Row(consumed, Stored, rbuf, wire)' = Row(consumed, Stored, rbuf, wire)
    <3>1. Row(consumed, Stored, rbuf, wire)' = Row(consumed \o gt, <<>>, <<>>, wire')
      BY <1>1, <2>2
    <3> QED
      BY <1>1, <1>8, <2>4, <3>1
  <2> QED
    BY <1>1, <1>7, <2>2, <2>3, <2>5, ReaderInOrder
<1>10. CASE s.err = "none"
  <2>1. rcall' = [rcall EXCEPT !.got = gt] /\ UNCHANGED consumed
    BY <1>2, <1>10 DEF t, g
  <2> HIDE DEF gt
  <2>2. rcall' \in ReadCalls /\ rcall'.pc = "loop" /\ rcall'.n = n /\ rcall'.got = gt
    BY <1>1, <1>4, <1>6, <2>1 DEF ReadCalls, n
  <2>3. IOTypes'
    BY <1>1, <1>3, <2>1, <2>2 DEF IOTypes, writerVars
  <2>4. Row(consumed, Stored, rbuf, wire)' = Row(consumed, Stored, rbuf, wire)
    <3>1. Stored' = gt
      BY <2>2 DEF Stored
    <3> QED
      BY <1>1, <1>8, <2>1, <3>1
  <2> QED
    BY <1>1, <1>7, <2>2, <2>3, <2>4, ReaderInOrder
<1> QED
  BY <1>9, <1>10


\* The first bytes of the first bytes.
LEMMA TakeTwice ==
    ASSUME NEW s \in Bytes, NEW m \in 0..Len(s), NEW n \in 0..m
    PROVE  Take(Take(s, m), n) = Take(s, n) /\ n \in 0..Len(s)
<1>1. Len(s) \in Nat
  BY LenProperties DEF Bytes
<1> DEFINE t == Take(s, m)
<1>2. n \in 0..Len(s) /\ m \in Nat /\ n \in Nat
  BY SMT, <1>1
<1>3. t \in Bytes /\ Len(t) = m
  BY CutInTwo
<1>4. \A i \in 1..m : t[i] = s[i]
  BY SMT, <1>1, <1>2, SubSeqProperties DEF Bytes, Take
<1> HIDE DEF t
<1> DEFINE u == Take(t, n)
           v == Take(s, n)
<1>5. u \in Bytes /\ Len(u) = n /\ v \in Bytes /\ Len(v) = n
  BY <1>2, <1>3, CutInTwo
<1>6. \A i \in 1..n : u[i] = t[i] /\ v[i] = s[i]
  BY SMT, <1>1, <1>2, <1>3, SubSeqProperties DEF Bytes, Take
<1>7. \A i \in 1..n : u[i] = v[i]
  BY SMT, <1>2, <1>4, <1>6
<1> HIDE DEF u, v
<1>8. u = v
  BY <1>5, <1>7, SeqEqual DEF Bytes
<1> QED
  BY <1>2, <1>8 DEF t, u, v

\* read() through the buffer.
LEMMA ReadFillInOrder ==
    ASSUME IOInv, ReadFill
    PROVE  IOInv'
<1> DEFINE g == rcall.got
           n == rcall.n
<1>1. IOTypes /\ CallsInStep /\ rcall.pc = "loop" /\ UNCHANGED writerVars /\ Stored = g /\ rbuf = <<>>
  BY DEF IOInv, ReadFill, Stored, CallsInStep
<1>2. /\ g \in Bytes /\ n \in Nat /\ Len(g) \in Nat /\ Len(g) =< n /\ wire \in Bytes
      /\ consumed \in Bytes /\ Len(wire) \in Nat /\ rcall \in ReadCalls /\ "none" \in ReadErrors
  BY <1>1, BeforeWriter, LenProperties DEF IOTypes, Bytes, CallsInStep, ReadErrors
<1>3. <<>> \in Bytes /\ Missing = n - Len(g)
  BY <1>2, NothingJoined DEF Missing
<1>4. CASE Missing = 0 /\ ReadReturns(n, g, "none") /\ UNCHANGED <<channel, rbuf, rerr>>
  <2> HIDE DEF g, n
  <2>1. /\ rcall' \in ReadCalls /\ rcall'.pc = "idle" /\ rcall'.n = n /\ rcall'.got = g
        /\ Stored' = <<>> /\ consumed' = consumed \o g /\ consumed' \in Bytes
    BY <1>1, <1>2, <1>4, ReadReturned
  <2>2. IOTypes'
    BY <1>1, <1>4, <2>1 DEF IOTypes, writerVars, channel
  <2>3. Row(consumed \o g, <<>>, <<>>, wire) = Row(consumed, g, <<>>, wire)
    BY SMT, <1>2, <1>3, RowReturned
  <2>4. wire' = wire /\ rbuf' = rbuf
    BY <1>4 DEF channel
  <2>5. Row(consumed, Stored, rbuf, wire)' = Row(consumed \o g, <<>>, <<>>, wire)
    BY <1>1, <2>1, <2>4
  <2> QED
    BY <1>1, <1>2, <2>1, <2>2, <2>3, <2>5, ReaderInOrder
<1>5. ASSUME Missing > 0, NEW s \in ImplRead(Capacity), Receive(s),
             rbuf' = Drop(Take(wire, s.n), Least(Missing, s.n)), rerr' = s.err,
             ReadReturns(n, g \o Take(wire, Least(Missing, s.n)),
                         IF Least(Missing, s.n) < Missing THEN s.err ELSE "none")
      PROVE  IOInv'
  <2> DEFINE a == Least(Missing, s.n)
             t == Take(wire, s.n)
             f == Take(wire, a)
             b == Drop(t, a)
             gf == g \o f
             e == IF a < Missing THEN s.err ELSE "none"
  <2>1. /\ UNCHANGED source /\ s.n \in 0..Len(wire) /\ s.err \in ReadErrors
        /\ t \in Bytes /\ Len(t) = s.n /\ wire' \in Bytes /\ t \o wire' = wire
    BY <1>1, <1>5, Received
  <2>2. a \in 0..s.n /\ a \in 0..Len(wire) /\ a =< n - Len(g)
    BY SMT, <1>2, <1>3, <1>5, <2>1 DEF Least
  <2>3. ReadReturns(n, gf, e) /\ rbuf' = b /\ e \in ReadErrors
    BY <1>2, <1>5, <2>1
  <2> HIDE DEF a, e, g, n
  <2>4. f \in Bytes /\ Len(f) = a /\ Take(t, a) = f
    BY SMT, <1>2, <2>1, <2>2, CutInTwo, TakeTwice
  <2> HIDE DEF t
  <2>5. b \in Bytes /\ Take(t, a) \o b = t
    BY <2>1, <2>2, CutInTwo
  <2>6. f \o b = t
    BY <2>4, <2>5
  <2> HIDE DEF f, b
  <2>7. gf \in Bytes /\ Len(gf) = Len(g) + Len(f)
    BY <1>2, <2>4, Joined
  <2> HIDE DEF gf
  <2>8. /\ rcall' \in ReadCalls /\ rcall'.pc = "idle" /\ rcall'.n = n /\ rcall'.got = gf
        /\ Stored' = <<>> /\ consumed' = consumed \o gf /\ consumed' \in Bytes
    BY <1>1, <1>2, <2>3, <2>7, ReadReturned
  <2>9. IOTypes'
    BY <1>1, <2>1, <2>3, <2>5, <2>8 DEF IOTypes, writerVars
  <2>10. Row(consumed, Stored, rbuf, wire)' = Row(consumed \o gf, <<>>, b, wire')
    BY <2>3, <2>8
  <2>11. f \in Bytes /\ b \in Bytes /\ t \in Bytes /\ wire' \in Bytes
    BY <2>1, <2>4, <2>5
  <2>12. Row(consumed \o gf, <<>>, b, wire') = Row(consumed, gf, b, wire')
    BY SMT, <1>2, <2>7, <2>11, RowReturned
  <2>13. Row(consumed, gf, b, wire') = Row(consumed, g, t, wire')
    <3> DEFINE u == consumed \o g
    <3>1. u \in Bytes /\ consumed \o (g \o f) = u \o f
      BY ZenonT(40), <1>2, <2>11, Joined, Regrouped
    <3> HIDE DEF u
    <3>2. u \o f \o b = u \o (f \o b)
      BY <3>1, <2>11, Regrouped
    <3> QED
      BY <2>6, <3>1, <3>2 DEF Row, gf, u
  <2>14. Row(consumed, g, t, wire') = Row(consumed, g, <<>>, t \o wire')
    BY SMT, <1>2, <2>11, RowArrived
  <2>15. Row(consumed, Stored, rbuf, wire)' = Row(consumed, Stored, rbuf, wire)
    BY <1>1, <2>1, <2>10, <2>12, <2>13, <2>14
  <2>16. Len(rcall'.got) =< rcall'.n
    BY SMT, <1>2, <2>2, <2>4, <2>7, <2>8
  <2> QED
    BY <1>1, <2>8, <2>9, <2>15, <2>16, ReaderInOrder
<1> QED
  BY <1>4, <1>5 DEF ReadFill

\* peek() fills an empty buffer.
LEMMA PeekInOrder ==
    ASSUME IOInv, Peek
    PROVE  IOInv'
<1>1. IOTypes /\ CallsInStep /\ rcall.pc = "idle" /\ rbuf = <<>> /\ UNCHANGED <<rcall, consumed, writerVars>>
  BY DEF IOInv, Peek
<1>2. PICK s \in ImplRead(Capacity) : Receive(s) /\ rbuf' = Take(wire, s.n) /\ rerr' = s.err
  BY DEF Peek
<1>3. UNCHANGED source /\ rbuf' \in Bytes /\ wire' \in Bytes /\ rbuf' \o wire' = wire
  BY <1>1, <1>2, Received
<1>4. IOTypes' /\ Stored = <<>> /\ Stored' = <<>> /\ consumed \in Bytes
  BY <1>1, <1>3 DEF IOTypes, Stored, writerVars
<1>5. rbuf' \in Bytes /\ wire' \in Bytes /\ <<>> \in Bytes
  BY <1>3, NothingJoined
<1>6. Row(consumed, <<>>, <<>>, rbuf' \o wire') = Row(consumed, <<>>, rbuf', wire')
  <2> DEFINE e == <<>>
  <2>1. e \in Bytes
    BY <1>5
  <2> HIDE DEF e
  <2>2. Row(consumed, e, <<>>, rbuf' \o wire') = Row(consumed, e, rbuf', wire')
    BY SMT, <1>4, <1>5, <2>1, RowArrived
  <2> QED
    BY <2>2 DEF e
<1>7. Row(consumed, Stored, rbuf, wire)' = Row(consumed, Stored, rbuf, wire)
  BY <1>1, <1>3, <1>4, <1>6
<1> QED
  BY <1>1, <1>4, <1>7, ReaderInOrder DEF CallsInStep

\* reset() of the reader drops the buffer: its bytes count as read.
LEMMA ResetReaderInOrder ==
    ASSUME IOInv, NEW other, ResetReader(other)
    PROVE  IOInv'
<1>1. /\ IOTypes /\ CallsInStep /\ rcall.pc = "idle" /\ UNCHANGED <<rcall, channel, writerVars>>
      /\ consumed' = consumed \o rbuf /\ rbuf' = <<>>
  BY DEF IOInv, ResetReader
<1>2. rbuf \in Bytes /\ consumed \in Bytes /\ wire \in Bytes /\ <<>> \in Bytes /\ consumed \o rbuf \in Bytes
  BY <1>1, Joined, NothingJoined DEF IOTypes
<1>3. IOTypes' /\ Stored = <<>> /\ Stored' = <<>> /\ wire' = wire
  BY <1>1, <1>2 DEF IOTypes, Stored, writerVars, channel
<1>4. Row(consumed \o rbuf, <<>>, <<>>, wire) = Row(consumed, rbuf, <<>>, wire)
  BY SMT, <1>2, RowReturned
<1>5. Row(consumed, rbuf, <<>>, wire) = Row(consumed, <<>>, rbuf, wire)
  <2> DEFINE e == <<>>
  <2>1. e \in Bytes
    BY <1>2
  <2> HIDE DEF e
  <2>2. Row(consumed, <<>>, rbuf \o e, wire) = Row(consumed, rbuf, e, wire)
    BY SMT, <1>2, <2>1, RowTaken
  <2>3. rbuf \o <<>> = rbuf
    BY <1>2, NothingJoined
  <2> QED
    BY <2>2, <2>3 DEF e
<1>6. Row(consumed, Stored, rbuf, wire)' = Row(consumed, Stored, rbuf, wire)
  BY <1>1, <1>3, <1>4, <1>5
<1> QED
  BY <1>1, <1>3, <1>6, ReaderInOrder DEF CallsInStep


-----------------------------------------------------------------------------
(* What the layers see of the buffers.                                     *)

\* A read() that was called has returned, or waits for the source.
LEMMA ReadCalled ==
    ASSUME NEW n \in Nat, Read(n)
    PROVE  /\ rcall.pc = "idle" /\ rcall'.n = n /\ UNCHANGED writerVars
           /\ rcall'.pc = "idle" => consumed' = consumed \o rcall'.got
           /\ rcall'.pc # "idle" => consumed' = consumed
BY SMT DEF Read, ReadReturns

\* A read() that waited goes on for the same bytes.
LEMMA ReadGoesOn ==
    ASSUME ReadDirect \/ ReadFill, IOTypes
    PROVE  /\ rcall.pc = "loop" /\ rcall'.n = rcall.n /\ UNCHANGED writerVars
           /\ rcall'.pc = "idle" => consumed' = consumed \o rcall'.got
           /\ rcall'.pc # "idle" => consumed' = consumed
<1>1. rcall \in ReadCalls
  BY DEF IOTypes
<1>2. CASE ReadDirect
  <2>1. rcall.pc = "loop" /\ UNCHANGED writerVars
    BY <1>2 DEF ReadDirect
  <2>2. PICK s, g : IF s # "none" THEN ReadReturns(rcall.n, g, s)
                    ELSE rcall' = [rcall EXCEPT !.got = g] /\ UNCHANGED consumed
    BY <1>2 DEF ReadDirect
  <2>3. CASE ReadReturns(rcall.n, g, s)
    BY <2>1, <2>3 DEF ReadReturns
  <2>4. CASE rcall' = [rcall EXCEPT !.got = g] /\ UNCHANGED consumed
    BY <1>1, <2>1, <2>4 DEF ReadCalls
  <2> QED
    BY <2>2, <2>3, <2>4
<1>3. CASE ReadFill
  <2>1. rcall.pc = "loop" /\ UNCHANGED writerVars
    BY <1>3 DEF ReadFill
  <2>2. PICK e, g : ReadReturns(rcall.n, g, e)
    BY <1>3 DEF ReadFill
  <2> QED
    BY <2>1, <2>2 DEF ReadReturns
<1> QED
  BY <1>2, <1>3

\* A step of the writer's side leaves the layer that reads alone.
LEMMA WriterSide ==
    ASSUME LayerInv, UNCHANGED <<layer, crVars, readerVars>>,
           payload' \in Bytes, cw' \in LayerWrites, overrun' \in BOOLEAN,
           cw'.pc # 0 => layer = "chunked", ChunksFit'
    PROVE  LayerInv'
<1>1. /\ UNCHANGED <<layer, cr, current_chunk_size, progress, line, received>>
      /\ UNCHANGED <<rbuf, rcall, consumed>>
  BY DEF crVars, readerVars
<1>2. LayerTypes'
  BY <1>1 DEF LayerInv, LayerTypes
<1>3. LayersInStep'
  BY <1>1 DEF LayerInv, LayersInStep
<1>4. LimitInStep' /\ LineInStep'
  BY <1>1 DEF LayerInv, LimitInStep, LineInStep
<1> QED
  BY <1>2, <1>3, <1>4 DEF LayerInv

\* A step of the reader's side leaves the layer that writes alone.
LEMMA ReaderSide ==
    ASSUME LayerInv, UNCHANGED <<layer, cwVars, writerVars>>,
           cr' \in LayerReads, current_chunk_size' \in Nat, progress' \in Nat,
           line' \in Bytes, received' \in Bytes,
           /\ cr'.pc \in InChunk => layer = "chunked"
           /\ cr'.pc = "limit" => layer = "limit"
           /\ cr'.pc = "line" => layer = "line"
           /\ cr'.pc \in {"size", "lf"} => Len(cr'.got) =< cr'.n
           /\ cr'.pc = "data" => rcall'.n =< current_chunk_size' /\ Len(cr'.got) + rcall'.n =< cr'.n,
           LimitInStep', LineInStep'
    PROVE  LayerInv'
<1>1. UNCHANGED <<layer, cw, overrun, payload>> /\ wcall' = wcall
  BY DEF cwVars, writerVars
<1>2. LayerTypes'
  BY <1>1 DEF LayerInv, LayerTypes
<1>3. LayersInStep'
  BY <1>1 DEF LayerInv, LayersInStep
<1>4. ChunksFit'
  BY <1>1 DEF LayerInv, ChunksFit, Amount
<1> QED
  BY <1>2, <1>3, <1>4 DEF LayerInv


-----------------------------------------------------------------------------
(* The layers that write.                                                  *)

\* The bytes the users write.
LEMMA NewBytesAre ==
    ASSUME payload \in Bytes, NEW n \in Nat
    PROVE  NewBytes(n) \in Bytes /\ Len(NewBytes(n)) = n /\ CRLF \in Bytes /\ Len(CRLF) = 2
<1>1. Len(payload) \in Nat
  BY LenProperties DEF Bytes
<1>2. NewBytes(n) \in [1..n -> Nat]
  BY SMT, <1>1 DEF NewBytes
<1>3. NewBytes(n) \in Seq(Nat) /\ Len(NewBytes(n)) = n
  BY SMT, <1>2
<1> QED
  BY SMT, <1>3 DEF Bytes, CRLF, CR, LF

\* A user of the stream writes bytes, or a line.
LEMMA PlainWriteKeeps ==
    ASSUME IOInv, LayerInv, NEW n \in Nat, PlainWrite(n)
    PROVE  IOInv' /\ LayerInv'
<1> DEFINE d == NewBytes(n)
           dl == d \o CRLF
<1>1. LayerTypes /\ layer # "chunked" /\ UNCHANGED <<layer, cw, overrun, crVars>> /\ payload' = payload \o d
  BY DEF LayerInv, PlainWrite
<1>2. payload \in Bytes
  BY <1>1 DEF LayerTypes
<1>3. d \in Bytes /\ CRLF \in Bytes
  BY <1>2, NewBytesAre
<1>4. Write(IF layer = "line" THEN dl ELSE d)
  BY DEF PlainWrite
<1> HIDE DEF d
<1>5. dl \in Bytes /\ payload' \in Bytes
  BY <1>1, <1>2, <1>3, Joined
<1> HIDE DEF dl
<1>6. IOInv' /\ UNCHANGED readerVars
  <2>1. PICK x \in Bytes : Write(x)
    BY <1>3, <1>4, <1>5
  <2> QED
    BY <2>1, WriteInOrder DEF Write
<1>7. cw.pc = 0 /\ ~overrun
  BY SMT, <1>1 DEF LayerInv, LayersInStep, ChunksFit
<1>8. ChunksFit'
  BY SMT, <1>1, <1>7 DEF ChunksFit
<1>9. LayerInv'
  BY <1>1, <1>5, <1>6, <1>7, <1>8, WriterSide DEF LayerTypes
<1> QED
  BY <1>6, <1>9

\* The size of a chunk, and its pieces.
LEMMA PiecesAre ==
    ASSUME NEW d \in Bytes, NEW k \in Nat, NEW done \in Nat,
           k = 3 => done + Amount(d) =< Len(d)
    PROVE  Piece(k, d, done) \in Bytes /\ Amount(d) \in Nat /\ Amount(d) =< Len(d) /\ (Len(d) =< MaxChunk => Amount(d) = Len(d))
<1>1. Len(d) \in Nat /\ MaxChunk \in Nat
  BY LenProperties, LayerAssumption DEF Bytes
<1>2. Amount(d) \in Nat /\ Amount(d) =< Len(d) /\ (Len(d) =< MaxChunk => Amount(d) = Len(d))
  BY SMT, <1>1 DEF Amount, Least
<1> DEFINE a == Amount(d)
<1> HIDE DEF a
<1>3. Decimal(a) \in Bytes
  <2>1. a \in Nat /\ a \div 10 \in Nat /\ a % 10 \in Nat
    BY SMT, <1>2 DEF a
  <2> QED
    BY SMT, <2>1 DEF Decimal, Digit, Bytes
<1>4. CASE k = 1
  BY SMT, <1>2, <1>3, <1>4 DEF Piece, a
<1>5. CASE k = 3
  <2>1. \A i \in (done + 1)..(done + a) : i \in 1..Len(d)
    BY SMT, <1>1, <1>2, <1>5 DEF a
  <2>2. \A i \in (done + 1)..(done + a) : d[i] \in Nat
    BY <2>1, ElementOfSeq DEF Bytes
  <2>3. SubSeq(d, done + 1, done + a) \in Seq(Nat)
    BY SMT, <1>2, <2>1, <2>2, SubSeqProperties DEF a, Bytes
  <2> QED
    BY SMT, <1>2, <1>5, <2>3 DEF Piece, a, Bytes
<1>6. CASE k # 1 /\ k # 3
  BY SMT, <1>2, <1>6 DEF Piece, Bytes, CRLF, CR, LF
<1> QED
  BY <1>4, <1>5, <1>6


\* chunked_writer::write() begins with the size of the first chunk.
LEMMA ChunkedWriteKeeps ==
    ASSUME IOInv, LayerInv, NEW n \in Nat, ChunkedWrite(n)
    PROVE  IOInv' /\ LayerInv'
<1> DEFINE d == NewBytes(n)
<1>1. /\ LayerTypes /\ layer = "chunked" /\ cw.pc = 0 /\ UNCHANGED <<layer, overrun, crVars>>
      /\ payload' = payload \o d /\ Write(Piece(1, d, 0))
      /\ cw' = [pc |-> 1, data |-> d, amount_written |-> 0]
  BY DEF LayerInv, ChunkedWrite
<1>2. payload \in Bytes
  BY <1>1 DEF LayerTypes
<1>3. d \in Bytes
  BY <1>2, NewBytesAre
<1> HIDE DEF d
<1>4. payload' \in Bytes
  BY <1>1, <1>2, <1>3, Joined
<1>5. Piece(1, d, 0) \in Bytes
  BY SMT, <1>3, PiecesAre
<1>6. IOInv' /\ UNCHANGED readerVars
  BY <1>1, <1>5, WriteInOrder DEF Write
<1>7. cw' \in LayerWrites /\ ~overrun'
  BY SMT, <1>1, <1>3 DEF LayerWrites, LayerInv, ChunksFit
<1>8. ChunksFit'
  BY SMT, <1>1, <1>7 DEF ChunksFit
<1>9. LayerInv'
  BY <1>1, <1>4, <1>6, <1>7, <1>8, WriterSide DEF LayerTypes
<1> QED
  BY <1>6, <1>9

\* The four writes of an iteration: what is not longer than a chunk takes one.
LEMMA ChunkedWriteStepKeeps ==
    ASSUME IOInv, LayerInv, ChunkedWriteStep
    PROVE  IOInv' /\ LayerInv'
<1> DEFINE d == cw.data
           k == (cw.pc % 4) + 1
           a == Amount(cw.data)
           done == IF cw.pc = 3 THEN cw.amount_written + Amount(cw.data) ELSE cw.amount_written
           ends == wcall.err \/ (cw.pc = 4 /\ done >= Len(cw.data))
<1>1. /\ LayerTypes /\ LayersInStep /\ ChunksFit /\ cw.pc # 0 /\ wcall.pc = "idle"
      /\ UNCHANGED <<layer, payload, crVars>>
  BY DEF LayerInv, ChunkedWriteStep
<1>2. cw \in LayerWrites /\ cw.pc \in 1..4 /\ d \in Bytes /\ cw.amount_written \in Nat /\ layer = "chunked"
  BY SMT, <1>1 DEF LayerTypes, LayersInStep, LayerWrites
<1>3. Len(d) \in Nat /\ MaxChunk \in Nat
  BY <1>2, LenProperties, LayerAssumption DEF Bytes
<1>4. a \in Nat /\ a =< Len(d) /\ (Len(d) =< MaxChunk => a = Len(d))
  BY SMT, <1>3 DEF Amount, Least
<1> HIDE DEF a, d
<1>5. /\ k \in 1..4 /\ done \in Nat
      /\ k = 3 <=> cw.pc = 2
      /\ k = 4 <=> cw.pc = 3
      /\ k = 1 <=> cw.pc = 4
  BY SMT, <1>2, <1>4 DEF a
<1> HIDE DEF k, done
<1>6. CASE ends /\ cw' = NotWriting /\ UNCHANGED <<ioVars, overrun>>
  <2>1. IOInv' /\ UNCHANGED readerVars
    BY <1>6, Zenon DEF ioVars, channel, writerVars, readerVars, IOInv, IOTypes, CallsInStep, OnTheWay, Stored
  <2>2. cw' \in LayerWrites /\ cw'.pc = 0
    BY SMT, <1>6, EmptySeq DEF NotWriting, LayerWrites, Bytes
  <2>3. ~overrun
    BY SMT, <1>1, <1>6 DEF ChunksFit
  <2>4. ChunksFit'
    BY SMT, <1>6, <2>2, <2>3 DEF ChunksFit
  <2>5. LayerInv'
    BY <1>1, <1>6, <2>1, <2>2, <2>4, WriterSide DEF LayerTypes
  <2> QED
    BY <2>1, <2>5
<1>7. CASE /\ ~ends
           /\ k = 3 => done + Amount(cw.data) =< Len(cw.data)
           /\ Write(Piece(k, cw.data, done))
           /\ cw' = [cw EXCEPT !.pc = k, !.amount_written = done]
           /\ UNCHANGED overrun
  <2>1. Piece(k, d, done) \in Bytes
    <3>1. d \in Bytes /\ k \in Nat /\ done \in Nat /\ (k = 3 => done + Amount(d) =< Len(d))
      BY SMT, <1>2, <1>5, <1>7 DEF d
    <3> QED
      BY <3>1, PiecesAre
  <2>2. IOInv' /\ UNCHANGED readerVars
    BY <1>7, <2>1, WriteInOrder DEF Write, d
  <2> DEFINE w == [cw EXCEPT !.pc = k]
  <2>3. w \in LayerWrites /\ w.pc = k /\ w.data = d
    BY SMT, <1>2, <1>5 DEF LayerWrites, d
  <2>4. cw' = [w EXCEPT !.amount_written = done]
    BY <1>7
  <2> HIDE DEF w
  <2>5. cw' \in LayerWrites /\ cw'.pc = k /\ cw'.data = d /\ cw'.amount_written = done
    BY <1>5, <2>3, <2>4 DEF LayerWrites
  <2>6. ~overrun
    <3>1. SUFFICES ASSUME overrun PROVE FALSE
      OBVIOUS
    <3>2. cw.pc = 2 /\ cw.amount_written + a > Len(d)
      BY <1>1, <3>1 DEF ChunksFit, a, d
    <3>3. done = cw.amount_written /\ k = 3
      BY SMT, <1>5, <3>2 DEF done
    <3> QED
      BY SMT, <1>2, <1>3, <1>4, <1>7, <3>2, <3>3 DEF a, d
  <2>7. Len(d) =< MaxChunk => (k \in 1..3 => done = 0) /\ (k = 4 => done = Len(d))
    <3>1. SUFFICES ASSUME Len(d) =< MaxChunk PROVE (k \in 1..3 => done = 0) /\ (k = 4 => done = Len(d))
      OBVIOUS
    <3>2. CASE cw.pc \in {1, 2}
      BY SMT, <1>1, <1>5, <3>1, <3>2 DEF ChunksFit, done, d
    <3>3. CASE cw.pc = 3
      <4>1. cw.amount_written = 0 /\ a = Len(d)
        BY SMT, <1>1, <1>4, <3>1, <3>3 DEF ChunksFit, d
      <4>2. done = 0 + a
        BY <4>1, <3>3 DEF done, a
      <4> QED
        BY SMT, <1>3, <1>5, <3>3, <4>1, <4>2
    <3>4. CASE cw.pc = 4
      <4>1. cw.amount_written = Len(d)
        BY <1>1, <3>1, <3>4 DEF ChunksFit, d
      <4>2. done = Len(d)
        BY SMT, <4>1, <3>4 DEF done
      <4> QED
        BY SMT, <1>3, <1>7, <3>4, <4>2 DEF d
    <3> QED
      BY SMT, <1>2, <3>2, <3>3, <3>4
  <2>8. ChunksFit'
    BY <1>7, <2>5, <2>6, <2>7 DEF ChunksFit
  <2>9. LayerInv'
    BY <1>1, <1>2, <1>7, <2>2, <2>5, <2>8, WriterSide DEF LayerTypes
  <2> QED
    BY <2>2, <2>9
<1>8. CASE /\ ~ends
           /\ k = 3 /\ done + Amount(cw.data) > Len(cw.data)
           /\ overrun' = TRUE
           /\ UNCHANGED <<ioVars, cw>>
  <2>1. IOInv' /\ UNCHANGED readerVars /\ wcall' = wcall
    BY <1>8, Zenon DEF ioVars, channel, writerVars, readerVars, IOInv, IOTypes, CallsInStep, OnTheWay, Stored
  <2>2. cw.pc = 2 /\ done = cw.amount_written /\ cw.amount_written + a > Len(d)
    BY SMT, <1>5, <1>8 DEF done, a, d
  <2>3. Len(d) > MaxChunk
    <3>1. SUFFICES ASSUME Len(d) =< MaxChunk PROVE FALSE
      BY SMT, <1>3
    <3>2. cw.amount_written = 0 /\ a = Len(d)
      BY SMT, <1>1, <1>4, <2>2, <3>1 DEF ChunksFit, d
    <3> QED
      BY SMT, <1>3, <2>2, <3>2
  <2>4. ~wcall.err
    BY <1>8
  <2>5. ChunksFit'
    <3>1. cw' = cw /\ wcall' = wcall /\ Amount(cw'.data) = a
      BY <1>8, <2>1 DEF a
    <3> QED
      BY <1>1, <2>2, <2>3, <2>4, <3>1 DEF ChunksFit, a, d
  <2>6. LayerInv'
    <3>1. /\ payload' \in Bytes /\ cw' \in LayerWrites /\ overrun' \in BOOLEAN
          /\ UNCHANGED <<layer, crVars, readerVars>>
      BY <1>1, <1>2, <1>8, <2>1 DEF LayerTypes
    <3> QED
      BY <1>2, <2>5, <3>1, WriterSide
  <2> QED
    BY <2>1, <2>6
<1> QED
  BY <1>6, <1>7, <1>8 DEF ChunkedWriteStep, k, done


\* The steps of the writer below the layers, and the calls of its user.
LEMMA WriterStepKeeps ==
    ASSUME IOInv, LayerInv, UNCHANGED <<layer, cwVars, crVars>>,
           \/ FlushAvailable \/ WriteRest
           \/ cw.pc = 0 /\ (Flush \/ Close)
           \/ layer = "plain" /\ ResetWriter
    PROVE  IOInv' /\ LayerInv'
<1>1. IOInv'
  BY FlushAvailableInOrder, WriteRestInOrder, FlushInOrder, CloseInOrder, ResetWriterInOrder
<1>2. LayerTypes /\ LayersInStep /\ ChunksFit
  BY DEF LayerInv
<1>3. /\ UNCHANGED readerVars
      /\ wcall.pc # "idle" \/ cw.pc = 0 \/ layer = "plain"
  BY DEF FlushAvailable, WriteRest, Flush, Close, ResetWriter
<1>4. ~overrun
  BY SMT, <1>2, <1>3 DEF ChunksFit, LayersInStep
<1>5. UNCHANGED <<cw, overrun, payload>>
  BY DEF cwVars
<1>6. ChunksFit'
  BY <1>2, <1>4, <1>5 DEF ChunksFit
<1>7. /\ payload' \in Bytes /\ cw' \in LayerWrites /\ overrun' \in BOOLEAN
      /\ UNCHANGED <<layer, crVars, readerVars>> /\ (cw'.pc # 0 => layer = "chunked")
  BY <1>2, <1>3, <1>5 DEF LayerTypes, LayersInStep
<1>8. LayerInv'
  BY <1>6, <1>7, WriterSide
<1> QED
  BY <1>1, <1>8

-----------------------------------------------------------------------------
(* The layers that read.                                                   *)

\* The calls of a plain user.
LEMMA PlainReaderKeeps ==
    ASSUME IOInv, LayerInv, layer = "plain", UNCHANGED <<layer, cwVars, crVars>>,
           \/ \E n \in Nat : Read(n)
           \/ Peek
           \/ \E other \in BOOLEAN : ResetReader(other)
    PROVE  IOInv' /\ LayerInv'
<1>1. IOInv' /\ UNCHANGED writerVars
  <2>1. CASE \E n \in Nat : Read(n)
    BY <2>1, ReadInOrder DEF Read
  <2>2. CASE Peek
    BY <2>2, PeekInOrder DEF Peek
  <2>3. CASE \E other \in BOOLEAN : ResetReader(other)
    BY <2>3, ResetReaderInOrder DEF ResetReader
  <2> QED
    BY <2>1, <2>2, <2>3
<1>2. UNCHANGED <<layer, cr, current_chunk_size, progress, line, received>> /\ LayerTypes /\ LayersInStep
  BY DEF crVars, LayerInv
<1>3. LimitInStep' /\ LineInStep'
  BY <1>2 DEF LimitInStep, LineInStep
<1>4. /\ cr' \in LayerReads /\ current_chunk_size' \in Nat /\ progress' \in Nat
      /\ line' \in Bytes /\ received' \in Bytes
  BY <1>2 DEF LayerTypes
<1>5. cr'.pc \notin InChunk \cup {"limit", "line"}
  BY <1>2 DEF LayersInStep
<1>6. /\ cr'.pc \in InChunk => layer = "chunked"
      /\ cr'.pc = "limit" => layer = "limit"
      /\ cr'.pc = "line" => layer = "line"
      /\ cr'.pc \in {"size", "lf"} => Len(cr'.got) =< cr'.n
      /\ cr'.pc = "data" => rcall'.n =< current_chunk_size' /\ Len(cr'.got) + rcall'.n =< cr'.n
  BY <1>5 DEF InChunk
<1>7. LayerInv'
  BY <1>1, <1>3, <1>4, <1>6, ReaderSide
<1> QED
  BY <1>1, <1>7

\* The steps of the reader below the layers.
LEMMA ReaderStepKeeps ==
    ASSUME IOInv, LayerInv, UNCHANGED <<layer, cwVars, crVars>>, ReadDirect \/ ReadFill
    PROVE  IOInv' /\ LayerInv'
<1>1. IOInv' /\ IOTypes
  BY ReadDirectInOrder, ReadFillInOrder DEF IOInv
<1>2. /\ UNCHANGED <<layer, cr, current_chunk_size, progress, line, received>>
      /\ LayerTypes /\ LayersInStep /\ LimitInStep /\ LineInStep
  BY DEF crVars, LayerInv
<1>3. /\ rcall.pc = "loop" /\ rcall'.n = rcall.n /\ UNCHANGED writerVars
      /\ rcall'.pc = "idle" => consumed' = consumed \o rcall'.got
      /\ rcall'.pc # "idle" => consumed' = consumed
  BY <1>1, ReadGoesOn
<1>4. LineInStep'
  BY <1>2, <1>3 DEF LineInStep
<1>5. LimitInStep'
  <2>1. SUFFICES ASSUME layer = "limit" PROVE LimitInStep'
    BY <1>2 DEF LimitInStep
  <2>2. cr.pc = "limit"
    BY <1>2, <1>3, <2>1 DEF LimitInStep, LayersInStep, LayerTypes, LayerReads
  <2>3. consumed = received /\ rcall.n =< Limit - progress /\ progress =< Limit /\ progress = Len(received)
    BY <1>2, <1>3, <2>1, <2>2 DEF LimitInStep
  <2> QED
    BY <1>2, <1>3, <2>2, <2>3 DEF LimitInStep
<1>6. /\ cr' \in LayerReads /\ current_chunk_size' \in Nat /\ progress' \in Nat
      /\ line' \in Bytes /\ received' \in Bytes
  BY <1>2 DEF LayerTypes
<1>7. /\ cr'.pc \in InChunk => layer = "chunked"
      /\ cr'.pc = "limit" => layer = "limit"
      /\ cr'.pc = "line" => layer = "line"
      /\ cr'.pc \in {"size", "lf"} => Len(cr'.got) =< cr'.n
      /\ cr'.pc = "data" => rcall'.n =< current_chunk_size' /\ Len(cr'.got) + rcall'.n =< cr'.n
  BY <1>2, <1>3 DEF LayersInStep
<1>8. LayerInv'
  BY <1>3, <1>4, <1>5, <1>6, <1>7, ReaderSide
<1> QED
  BY <1>1, <1>8


\* Nothing moves below the layers.
LEMMA BelowUnchanged ==
    ASSUME IOInv, UNCHANGED ioVars
    PROVE  IOInv' /\ UNCHANGED <<writerVars, readerVars, rbuf, rcall, consumed>>
BY DEF ioVars, channel, writerVars, readerVars, IOInv, IOTypes, CallsInStep, OnTheWay, Stored

\* The read() of a layer returns.
LEMMA Delivered ==
    ASSUME NEW c \in LayerReads, NEW e \in ReadErrors \cup {"illegal"}, received \in Bytes, Deliver(c, e)
    PROVE  /\ cr' \in LayerReads /\ cr'.pc = "idle" /\ cr'.got = c.got
           /\ received' = received \o c.got /\ received' \in Bytes
<1> DEFINE d == [c EXCEPT !.pc = "idle"]
<1>1. d \in LayerReads /\ d.pc = "idle" /\ d.got = c.got /\ c.got \in Bytes
  BY DEF LayerReads
<1>2. cr' = [d EXCEPT !.err = e] /\ received' = received \o c.got
  BY DEF Deliver
<1> HIDE DEF d
<1>3. cr' \in LayerReads /\ cr'.pc = "idle" /\ cr'.got = c.got
  BY <1>1, <1>2 DEF LayerReads
<1>4. received' \in Bytes
  BY <1>1, <1>2, Joined
<1> QED
  BY <1>2, <1>3, <1>4

\* The layer calls read() of the buffer.
LEMMA Asked ==
    ASSUME IOInv, NEW n \in Nat, NEW c \in LayerReads, NEW p \in InChunk \cup {"limit"}, ReadAs(n, c, p)
    PROVE  /\ IOInv' /\ UNCHANGED <<writerVars, received>>
           /\ cr' \in LayerReads /\ cr'.pc = p /\ cr'.n = c.n /\ cr'.got = c.got
           /\ rcall'.n = n
           /\ rcall'.pc = "idle" => consumed' = consumed \o rcall'.got
           /\ rcall'.pc # "idle" => consumed' = consumed
<1>1. Read(n) /\ cr' = [c EXCEPT !.pc = p] /\ UNCHANGED received
  BY DEF ReadAs
<1>2. cr' \in LayerReads /\ cr'.pc = p /\ cr'.n = c.n /\ cr'.got = c.got
  BY <1>1 DEF LayerReads
<1>3. IOInv'
  BY <1>1, ReadInOrder
<1> QED
  BY <1>1, <1>2, <1>3, ReadCalled

\* limit_reader::read() asks for no more than is left of the limit.
LEMMA LimitReadKeeps ==
    ASSUME IOInv, LayerInv, NEW n \in Nat, LimitRead(n)
    PROVE  IOInv' /\ LayerInv'
<1>1. /\ layer = "limit" /\ cr.pc = "idle" /\ rcall.pc = "idle"
      /\ UNCHANGED <<layer, cwVars, current_chunk_size, progress, line, split, interrupted>>
      /\ LayerTypes /\ LimitInStep
  BY DEF LimitRead, LayerInv
<1>2. /\ progress \in Nat /\ received \in Bytes /\ consumed = received /\ Limit \in Nat
      /\ progress =< Limit /\ progress = Len(received)
      /\ current_chunk_size' \in Nat /\ progress' \in Nat /\ line' \in Bytes
  BY <1>1, LayerAssumption DEF LayerTypes, LimitInStep
<1>3. NotReading \in LayerReads /\ NotReading.got = <<>>
  BY EmptySeq DEF NotReading, LayerReads, Bytes, ReadErrors
<1>4. LineInStep'
  BY <1>1 DEF LineInStep
<1>5. CASE Deliver(NotReading, "closed") /\ UNCHANGED ioVars
  <2>1. IOInv' /\ UNCHANGED <<writerVars, readerVars, rbuf, rcall, consumed>>
    BY <1>5, BelowUnchanged
  <2>2. /\ cr' \in LayerReads /\ cr'.pc = "idle" /\ received' \in Bytes /\ received' = received \o <<>>
    <3>1. "closed" \in ReadErrors \cup {"illegal"}
      BY DEF ReadErrors
    <3> QED
      BY <1>2, <1>3, <1>5, <3>1, Delivered
  <2>3. received' = received
    BY <1>2, <2>2, NothingJoined
  <2>4. LimitInStep'
    BY <1>1, <1>2, <2>1, <2>2, <2>3 DEF LimitInStep
  <2>5. LayerInv'
    BY <1>1, <1>2, <1>4, <2>1, <2>2, <2>4, ReaderSide DEF InChunk
  <2> QED
    BY <2>1, <2>5
<1>6. CASE progress < Limit /\ ReadAs(Least(n, Limit - progress), [NotReading EXCEPT !.n = n], "limit")
  <2> DEFINE k == Least(n, Limit - progress)
             c == [NotReading EXCEPT !.n = n]
  <2>1. k \in Nat /\ k =< Limit - progress
    BY SMT, <1>2, <1>6 DEF Least
  <2>2. c \in LayerReads
    BY <1>3 DEF LayerReads
  <2>3. ReadAs(k, c, "limit") /\ "limit" \in InChunk \cup {"limit"}
    BY <1>6
  <2> HIDE DEF k, c
  <2>4. /\ IOInv' /\ UNCHANGED <<writerVars, received>>
        /\ cr' \in LayerReads /\ cr'.pc = "limit" /\ rcall'.n = k
        /\ rcall'.pc = "idle" => consumed' = consumed \o rcall'.got
        /\ rcall'.pc # "idle" => consumed' = consumed
    BY <2>1, <2>2, <2>3, Asked
  <2>5. LimitInStep'
    BY <1>1, <1>2, <2>1, <2>4 DEF LimitInStep
  <2>6. LayerInv'
    BY <1>1, <1>2, <1>4, <2>4, <2>5, ReaderSide DEF InChunk
  <2> QED
    BY <2>4, <2>6
<1> QED
  BY <1>5, <1>6 DEF LimitRead

\* limit_reader::read() returns, and counts what it got.
LEMMA LimitReadStepKeeps ==
    ASSUME IOInv, LayerInv, LimitReadStep
    PROVE  IOInv' /\ LayerInv'
<1> DEFINE g == rcall.got
           c == [cr EXCEPT !.got = g]
<1>1. /\ cr.pc = "limit" /\ rcall.pc = "idle" /\ progress' = progress + Len(g)
      /\ Deliver(c, rcall.err)
      /\ UNCHANGED <<layer, cwVars, current_chunk_size, line, split, interrupted, ioVars>>
      /\ LayerTypes /\ LimitInStep /\ LayersInStep
  BY DEF LimitReadStep, LayerInv
<1>2. IOInv' /\ UNCHANGED <<writerVars, readerVars, rbuf, rcall, consumed>> /\ IOTypes /\ CallsInStep
  BY <1>1, BelowUnchanged DEF IOInv
<1>3. g \in Bytes /\ Len(g) \in Nat /\ rcall.n \in Nat /\ rcall.err \in ReadErrors /\ Len(g) =< rcall.n
  BY <1>2, LenProperties DEF IOTypes, ReadCalls, Bytes, CallsInStep
<1>4. /\ progress \in Nat /\ received \in Bytes /\ Limit \in Nat /\ layer = "limit"
      /\ progress =< Limit /\ progress = Len(received) /\ rcall.n =< Limit - progress
      /\ consumed = received \o g
      /\ current_chunk_size' \in Nat /\ line' \in Bytes
  BY <1>1, LayerAssumption DEF LayerTypes, LimitInStep, LayersInStep
<1>5. c \in LayerReads /\ c.got = g
  BY <1>1, <1>3 DEF LayerTypes, LayerReads
<1> HIDE DEF c, g
<1>6. cr' \in LayerReads /\ cr'.pc = "idle" /\ received' \in Bytes /\ received' = received \o g
  BY <1>1, <1>3, <1>4, <1>5, Delivered
<1>7. Len(received \o g) = Len(received) + Len(g)
  BY <1>3, <1>4, Joined
<1>8. progress' \in Nat /\ progress' =< Limit /\ progress' = Len(received')
  BY SMT, <1>1, <1>3, <1>4, <1>6, <1>7
<1>9. LimitInStep'
  BY <1>1, <1>2, <1>4, <1>6, <1>8 DEF LimitInStep
<1>10. LineInStep'
  BY <1>1, <1>4 DEF LineInStep
<1>11. LayerInv'
  BY <1>1, <1>2, <1>4, <1>6, <1>8, <1>9, <1>10, ReaderSide DEF InChunk
<1> QED
  BY <1>2, <1>11


\* What a sequence ends with.
LEMMA EndsWithIs ==
    ASSUME NEW s \in Bytes, NEW t \in Bytes
    PROVE  EndsWith(s, t) <=> \E u \in Bytes : s = u \o t
<1>1. Len(s) \in Nat /\ Len(t) \in Nat
  BY LenProperties DEF Bytes
<1>2. ASSUME EndsWith(s, t) PROVE \E u \in Bytes : s = u \o t
  <2> DEFINE n == Len(s) - Len(t)
             u == Take(s, n)
             v == Drop(s, n)
  <2>1. n \in 0..Len(s) /\ v = t
    BY SMT, <1>1, <1>2 DEF EndsWith
  <2> HIDE DEF n
  <2>2. u \in Bytes /\ u \o v = s
    BY <2>1, CutInTwo
  <2> QED
    BY <2>1, <2>2
<1>3. ASSUME NEW u \in Bytes, s = u \o t PROVE EndsWith(s, t)
  <2>1. Len(u) \in Nat /\ Len(u \o t) = Len(u) + Len(t)
    BY Joined
  <2>2. Drop(u \o t, Len(u)) = t
    BY TakeJoined
  <2>3. Len(s) >= Len(t) /\ Len(s) - Len(t) = Len(u)
    BY SMT, <1>1, <1>3, <2>1
  <2> QED
    BY <1>3, <2>2, <2>3 DEF EndsWith
<1> QED
  BY <1>2, <1>3

\* readline() begins with an empty line.
LEMMA ReadlineKeeps ==
    ASSUME IOInv, LayerInv, Readline
    PROVE  IOInv' /\ LayerInv'
<1>1. /\ layer = "line" /\ cr.pc = "idle" /\ cr' = [cr EXCEPT !.pc = "line", !.got = <<>>] /\ line' = <<>>
      /\ UNCHANGED <<layer, cwVars, current_chunk_size, progress, received, split, interrupted, ioVars>>
      /\ LayerTypes /\ LineInStep
  BY DEF Readline, LayerInv
<1>2. IOInv' /\ UNCHANGED <<writerVars, readerVars, rbuf, rcall, consumed>> /\ consumed \in Bytes
  BY <1>1, BelowUnchanged DEF IOInv, IOTypes
<1>3. <<>> \in Bytes /\ consumed \o <<>> = consumed
  BY <1>2, NothingJoined
<1> DEFINE c == [cr EXCEPT !.pc = "line"]
<1>4. c \in LayerReads /\ c.pc = "line"
  BY <1>1 DEF LayerTypes, LayerReads
<1>5. cr' = [c EXCEPT !.got = <<>>]
  BY <1>1
<1> HIDE DEF c
<1>6. cr' \in LayerReads /\ cr'.pc = "line"
  BY <1>3, <1>4, <1>5 DEF LayerReads
<1>7. EndsWith(consumed, <<>>)
  BY <1>2, <1>3, EndsWithIs
<1>8. LineInStep'
  BY <1>1, <1>2, <1>6, <1>7 DEF LineInStep
<1>9. LimitInStep'
  BY <1>1 DEF LimitInStep
<1>10. /\ current_chunk_size' \in Nat /\ progress' \in Nat /\ line' \in Bytes /\ received' \in Bytes
  BY <1>1, <1>3 DEF LayerTypes
<1>11. LayerInv'
  BY <1>1, <1>2, <1>6, <1>8, <1>9, <1>10, ReaderSide DEF InChunk
<1> QED
  BY <1>2, <1>11

\* readline() returns: the frame of its call.
LEMMA LineReturned ==
    ASSUME NEW c \in LayerReads, NEW d \in Bytes
    PROVE  /\ [c EXCEPT !.pc = "idle", !.got = d] \in LayerReads
           /\ [c EXCEPT !.pc = "idle", !.got = d].pc = "idle"
           /\ [c EXCEPT !.pc = "idle", !.got = d].got = d
<1> DEFINE b == [c EXCEPT !.pc = "idle"]
<1>1. b \in LayerReads /\ b.pc = "idle"
  BY DEF LayerReads
<1>2. [c EXCEPT !.pc = "idle", !.got = d] = [b EXCEPT !.got = d]
  OBVIOUS
<1> HIDE DEF b
<1>3. [b EXCEPT !.got = d] \in LayerReads /\ [b EXCEPT !.got = d].pc = "idle" /\ [b EXCEPT !.got = d].got = d
  BY <1>1 DEF LayerReads
<1> QED
  BY <1>2, <1>3

\* An iteration of readline(): the line is the end of what was read.
LEMMA ReadlineStepKeeps ==
    ASSUME IOInv, LayerInv, ReadlineStep
    PROVE  IOInv' /\ LayerInv'
<1>1. /\ cr.pc = "line" /\ UNCHANGED <<layer, cwVars, current_chunk_size, progress, received, split, interrupted>>
      /\ LayerTypes /\ LayersInStep /\ LineInStep
  BY DEF ReadlineStep, LayerInv
<1>2. /\ layer = "line" /\ rcall.pc = "idle" /\ EndsWith(consumed, line) /\ cr \in LayerReads /\ line \in Bytes
      /\ current_chunk_size' \in Nat /\ progress' \in Nat /\ received' \in Bytes
  BY <1>1 DEF LayersInStep, LineInStep, LayerTypes
<1>3. consumed \in Bytes /\ rbuf \in Bytes /\ CRLF \in Bytes
  BY SMT DEF IOInv, IOTypes, CRLF, CR, LF, Bytes
<1>4. LimitInStep'
  BY <1>1, <1>2 DEF LimitInStep
<1>5. CASE /\ EndsWith(line, CRLF)
           /\ cr' = [cr EXCEPT !.pc = "idle", !.got = Take(line, Len(line) - 2)]
           /\ UNCHANGED <<ioVars, line>>
  <2> DEFINE d == Take(line, Len(line) - 2)
  <2>1. d \in Bytes /\ d \o CRLF = line
    <3>1. PICK u \in Bytes : line = u \o CRLF
      BY <1>2, <1>3, <1>5, EndsWithIs
    <3>2. Len(u) \in Nat /\ Len(u \o CRLF) = Len(u) + Len(CRLF) /\ Take(u \o CRLF, Len(u)) = u
      BY <1>3, Joined, TakeJoined
    <3>3. Len(CRLF) = 2
      BY DEF CRLF
    <3>4. Len(line) - 2 = Len(u)
      BY SMT, <3>1, <3>2, <3>3
    <3> QED
      BY <3>1, <3>2, <3>4
  <2> HIDE DEF d
  <2>2. cr' = [cr EXCEPT !.pc = "idle", !.got = d]
    BY <1>5 DEF d
  <2>3. cr' \in LayerReads /\ cr'.pc = "idle" /\ cr'.got = d
    BY <1>2, <2>1, <2>2, LineReturned
  <2>4. IOInv' /\ UNCHANGED <<writerVars, readerVars, rbuf, rcall, consumed>>
    BY <1>5, BelowUnchanged
  <2>5. LineInStep'
    BY <1>2, <1>5, <2>1, <2>3, <2>4 DEF LineInStep
  <2>6. line' \in Bytes
    BY <1>2, <1>5
  <2>7. LayerInv'
    BY <1>1, <1>2, <1>4, <2>3, <2>4, <2>5, <2>6, ReaderSide DEF InChunk
  <2> QED
    BY <2>4, <2>7
<1>6. CASE /\ ~EndsWith(line, CRLF) /\ rbuf = <<>>
           /\ Peek
           /\ cr' = IF rbuf' = <<>> THEN [cr EXCEPT !.pc = "idle", !.got = line] ELSE cr
           /\ UNCHANGED line
  <2>1. IOInv' /\ UNCHANGED <<rcall, consumed, writerVars>>
    BY <1>6, PeekInOrder DEF Peek
  <2>2. CASE rbuf' = <<>>
    <3>1. cr' \in LayerReads /\ cr'.pc = "idle" /\ cr'.got = line
      BY <1>2, <1>6, <2>2, LineReturned
    <3>2. LineInStep'
      BY <1>1, <1>2, <1>6, <2>1, <2>2, <3>1 DEF LineInStep
    <3>3. LayerInv'
      BY <1>1, <1>2, <1>4, <1>6, <2>1, <3>1, <3>2, ReaderSide DEF InChunk
    <3> QED
      BY <2>1, <3>3
  <2>3. CASE rbuf' # <<>>
    <3>1. cr' = cr
      BY <1>6, <2>3
    <3>2. LineInStep'
      BY <1>1, <1>2, <1>6, <2>1, <3>1 DEF LineInStep
    <3>3. LayerInv'
      BY <1>1, <1>2, <1>4, <1>6, <2>1, <3>1, <3>2, ReaderSide DEF InChunk
    <3> QED
      BY <2>1, <3>3
  <2> QED
    BY <2>2, <2>3
<1>7. CASE /\ ~EndsWith(line, CRLF) /\ rbuf # <<>>
           /\ Read(1)
           /\ line' = line \o Take(rbuf, 1)
           /\ UNCHANGED cr
  <2> DEFINE t == Take(rbuf, 1)
  <2>1. IOInv' /\ UNCHANGED writerVars
    BY <1>7, ReadInOrder DEF Read
  <2>2. Len(rbuf) \in Nat /\ Len(rbuf) # 0
    BY <1>3, <1>7, Joined, NothingJoined
  <2>3. rcall'.pc = "idle" /\ consumed' = consumed \o t
    BY SMT, <1>7, <2>2 DEF Read, ReadReturns
  <2>4. t \in Bytes
    <3>1. 1 \in 0..Len(rbuf)
      BY SMT, <2>2
    <3> QED
      BY <1>3, <3>1, CutInTwo
  <2> HIDE DEF t
  <2>5. line' = line \o t
    BY <1>7 DEF t
  <2>6. line' \in Bytes /\ consumed' \in Bytes
    BY <1>2, <1>3, <2>3, <2>4, <2>5, Joined
  <2>7. EndsWith(consumed', line')
    <3>1. PICK u \in Bytes : consumed = u \o line
      BY <1>2, <1>3, EndsWithIs
    <3>2. (u \o line) \o t = u \o (line \o t)
      BY <1>2, <2>4, Regrouped
    <3>3. consumed' = u \o line'
      BY <2>3, <2>5, <3>1, <3>2
    <3> QED
      BY <2>6, <3>3, EndsWithIs
  <2>8. LineInStep'
    BY <1>1, <1>2, <1>7, <2>3, <2>7 DEF LineInStep
  <2>9. LayerInv'
    BY <1>1, <1>2, <1>4, <1>7, <2>1, <2>6, <2>8, ReaderSide DEF InChunk
  <2> QED
    BY <2>1, <2>9
<1> QED
  BY <1>5, <1>6, <1>7 DEF ReadlineStep


\* What a step of chunked_reader has to keep.
LEMMA ChunkSide ==
    ASSUME LayerInv, layer = "chunked", UNCHANGED <<layer, cwVars, progress, line, writerVars>>,
           cr' \in LayerReads, current_chunk_size' \in Nat, received' \in Bytes,
           cr'.pc \in InChunk \cup {"idle"},
           cr'.pc \in {"size", "lf"} => Len(cr'.got) =< cr'.n,
           cr'.pc = "data" => rcall'.n =< current_chunk_size' /\ Len(cr'.got) + rcall'.n =< cr'.n
    PROVE  LayerInv'
<1>1. LimitInStep' /\ LineInStep'
  BY DEF LimitInStep, LineInStep
<1>2. progress' \in Nat /\ line' \in Bytes
  BY DEF LayerInv, LayerTypes
<1>3. cr'.pc # "limit" /\ cr'.pc # "line"
  BY DEF InChunk
<1> QED
  BY <1>1, <1>2, <1>3, ReaderSide

\* A layer's read() returns without a step below it.
LEMMA ChunkReturns ==
    ASSUME IOInv, LayerInv, layer = "chunked", UNCHANGED <<layer, cwVars, progress, line, ioVars>>,
           NEW c \in LayerReads, NEW e \in ReadErrors \cup {"illegal"}, Deliver(c, e), current_chunk_size' \in Nat
    PROVE  IOInv' /\ LayerInv'
<1>1. IOInv' /\ UNCHANGED <<writerVars, readerVars, rbuf, rcall, consumed>>
  BY BelowUnchanged
<1>2. received \in Bytes
  BY DEF LayerInv, LayerTypes
<1>3. cr' \in LayerReads /\ cr'.pc = "idle" /\ received' \in Bytes
  BY <1>2, Delivered
<1>4. LayerInv'
  BY <1>1, <1>3, ChunkSide
<1> QED
  BY <1>1, <1>4

\* A read of the framing, which asks for one or two bytes.
LEMMA FramingAsked ==
    ASSUME IOInv, LayerInv, layer = "chunked", UNCHANGED <<layer, cwVars, progress, line>>,
           NEW c \in LayerReads, NEW n \in Nat, NEW p \in {"size", "lf", "end", "last"}, ReadAs(n, c, p),
           p \in {"size", "lf"} => Len(c.got) =< c.n, current_chunk_size' \in Nat
    PROVE  IOInv' /\ LayerInv'
<1>1. p \in InChunk \cup {"limit"} /\ p \in InChunk /\ p # "data"
  BY DEF InChunk
<1>2. /\ IOInv' /\ UNCHANGED <<writerVars, received>>
      /\ cr' \in LayerReads /\ cr'.pc = p /\ cr'.n = c.n /\ cr'.got = c.got
  BY <1>1, Asked
<1>3. received' \in Bytes
  BY <1>2 DEF LayerInv, LayerTypes
<1>4. LayerInv'
  BY <1>1, <1>2, <1>3, ChunkSide
<1> QED
  BY <1>2, <1>4

\* A read of the data of a chunk.
LEMMA DataAsked ==
    ASSUME IOInv, LayerInv, layer = "chunked", UNCHANGED <<layer, cwVars, progress, line>>,
           NEW c \in LayerReads, NEW size \in Nat, Len(c.got) =< c.n,
           ReadAs(Least(c.n - Len(c.got), size), c, "data"), current_chunk_size' = size
    PROVE  IOInv' /\ LayerInv'
<1> DEFINE n == Least(c.n - Len(c.got), size)
<1>1. c.n \in Nat /\ c.got \in Bytes
  BY DEF LayerReads
<1>2. Len(c.got) \in Nat
  BY <1>1, LenProperties DEF Bytes
<1>3. n \in Nat /\ n =< size /\ Len(c.got) + n =< c.n
  BY SMT, <1>1, <1>2 DEF Least
<1>4. "data" \in InChunk \cup {"limit"} /\ "data" \in InChunk
  BY DEF InChunk
<1> HIDE DEF n
<1>5. ReadAs(n, c, "data")
  BY DEF n
<1>6. /\ IOInv' /\ UNCHANGED <<writerVars, received>>
      /\ cr' \in LayerReads /\ cr'.pc = "data" /\ cr'.n = c.n /\ cr'.got = c.got /\ rcall'.n = n
  BY <1>3, <1>4, <1>5, Asked
<1>7. received' \in Bytes
  BY <1>6 DEF LayerInv, LayerTypes
<1>8. LayerInv'
  BY <1>3, <1>4, <1>6, <1>7, ChunkSide
<1> QED
  BY <1>6, <1>8

\* The head of the loop of chunked_reader::read().
LEMMA NextChunkKeeps ==
    ASSUME IOInv, LayerInv, layer = "chunked", UNCHANGED <<layer, cwVars, progress, line>>,
           NEW c \in LayerReads, NEW size \in Nat, NextChunk(c, size)
    PROVE  IOInv' /\ LayerInv'
<1>1. current_chunk_size' = size
  BY DEF NextChunk
<1>2. c.n \in Nat /\ c.got \in Bytes /\ Len(c.got) \in Nat
  BY LenProperties DEF LayerReads, Bytes
<1>3. CASE Len(c.got) >= c.n
  <2>1. Deliver(c, "none") /\ UNCHANGED ioVars /\ "none" \in ReadErrors \cup {"illegal"}
    BY <1>3 DEF NextChunk, ReadErrors
  <2> QED
    BY <1>1, <2>1, ChunkReturns
<1>4. CASE ~(Len(c.got) >= c.n) /\ size = 0
  <2>1. ReadAs(1, c, "size") /\ Len(c.got) =< c.n
    BY SMT, <1>2, <1>4 DEF NextChunk
  <2> QED
    BY <1>1, <2>1, FramingAsked
<1>5. CASE ~(Len(c.got) >= c.n) /\ size # 0
  <2>1. ReadAs(Least(c.n - Len(c.got), size), c, "data") /\ Len(c.got) =< c.n
    BY SMT, <1>2, <1>5 DEF NextChunk
  <2> QED
    BY <1>1, <2>1, DataAsked
<1> QED
  BY <1>3, <1>4, <1>5

\* chunked_reader::read() is called.
LEMMA ChunkedReadKeeps ==
    ASSUME IOInv, LayerInv, NEW n \in Nat, ChunkedRead(n)
    PROVE  IOInv' /\ LayerInv'
<1> DEFINE c == [pc |-> "idle", n |-> n, got |-> <<>>, err |-> "none"]
<1>1. /\ layer = "chunked" /\ NextChunk(c, current_chunk_size)
      /\ UNCHANGED <<layer, cwVars, progress, line>>
  BY DEF ChunkedRead
<1>2. c \in LayerReads
  BY EmptySeq DEF LayerReads, ReadErrors, Bytes
<1>3. current_chunk_size \in Nat
  BY DEF LayerInv, LayerTypes
<1> HIDE DEF c
<1> QED
  BY <1>1, <1>2, <1>3, NextChunkKeeps


\* get_next_chunk_size(), byte by byte.
LEMMA ChunkSizeKeeps ==
    ASSUME IOInv, LayerInv, ChunkSize
    PROVE  IOInv' /\ LayerInv'
<1> DEFINE b == Byte(1)
<1>1. /\ cr.pc \in {"size", "lf"} /\ UNCHANGED <<layer, cwVars, progress, line>>
      /\ LayerTypes /\ LayersInStep
  BY DEF ChunkSize, LayerInv
<1>2. cr \in LayerReads /\ current_chunk_size \in Nat /\ layer = "chunked" /\ Len(cr.got) =< cr.n
  BY <1>1 DEF LayerTypes, LayersInStep, InChunk
<1>3. rcall.err \in ReadErrors \cup {"illegal"} /\ "illegal" \in ReadErrors \cup {"illegal"}
  BY DEF IOInv, IOTypes, ReadCalls
<1>4. CASE \E e \in {rcall.err, "illegal"} : Fails(e)
  <2>1. PICK e \in {rcall.err, "illegal"} : Deliver(cr, e) /\ UNCHANGED <<current_chunk_size, ioVars>>
    BY <1>4 DEF Fails
  <2> QED
    BY <1>1, <1>2, <1>3, <2>1, ChunkReturns
<1>5. CASE /\ IsDigit(b)
           /\ current_chunk_size' = current_chunk_size * 10 + (b - Digit(0))
           /\ ReadAs(1, cr, "size")
  <2>1. current_chunk_size' \in Nat
    <3>1. b \in 48..57
      BY <1>5 DEF IsDigit
    <3> HIDE DEF b
    <3> QED
      BY SMT, <1>2, <1>5, <3>1 DEF Digit
  <2> QED
    BY <1>1, <1>2, <1>5, <2>1, FramingAsked
<1>6. CASE UNCHANGED current_chunk_size /\ ReadAs(1, cr, "lf")
  BY <1>1, <1>2, <1>6, FramingAsked
<1>7. CASE UNCHANGED current_chunk_size /\ ReadAs(2, cr, "last")
  BY <1>1, <1>2, <1>7, FramingAsked
<1>8. CASE /\ UNCHANGED current_chunk_size
           /\ ReadAs(Least(cr.n - Len(cr.got), current_chunk_size), cr, "data")
  BY <1>1, <1>2, <1>8, DataAsked
<1> QED
  BY <1>4, <1>5, <1>6, <1>7, <1>8 DEF ChunkSize

\* A part of the data of a chunk.
LEMMA ChunkDataKeeps ==
    ASSUME IOInv, LayerInv, ChunkData
    PROVE  IOInv' /\ LayerInv'
<1> DEFINE c == [cr EXCEPT !.got = @ \o rcall.got]
           g == rcall.got
           size == current_chunk_size - Len(rcall.got)
<1>1. /\ cr.pc = "data" /\ UNCHANGED <<layer, cwVars, progress, line>> /\ LayerTypes /\ LayersInStep
      /\ IOTypes /\ CallsInStep
  BY DEF ChunkData, LayerInv, IOInv
<1>2. /\ cr \in LayerReads /\ current_chunk_size \in Nat /\ layer = "chunked" /\ cr.got \in Bytes /\ cr.n \in Nat
      /\ rcall.n =< current_chunk_size /\ Len(cr.got) + rcall.n =< cr.n
  BY <1>1 DEF LayerTypes, LayersInStep, LayerReads, InChunk
<1>3. /\ rcall.err \in ReadErrors \cup {"illegal"} /\ g \in Bytes /\ rcall.n \in Nat /\ Len(g) =< rcall.n
  BY <1>1 DEF IOTypes, ReadCalls, CallsInStep
<1>4. Len(g) \in Nat /\ cr.got \o g \in Bytes
  BY <1>2, <1>3, Joined
<1>5. c \in LayerReads
  BY <1>2, <1>4 DEF LayerReads
<1>6. size \in Nat
  BY SMT, <1>2, <1>3, <1>4
<1> HIDE DEF c, size
<1>7. CASE Deliver(c, rcall.err) /\ current_chunk_size' = size /\ UNCHANGED ioVars
  BY <1>1, <1>2, <1>3, <1>5, <1>6, <1>7, ChunkReturns
<1>8. CASE ReadAs(2, c, "end") /\ current_chunk_size' = 0
  BY <1>1, <1>2, <1>5, <1>8, FramingAsked
<1>9. CASE NextChunk(c, size)
  BY <1>1, <1>2, <1>5, <1>6, <1>9, NextChunkKeeps
<1> QED
  BY <1>7, <1>8, <1>9 DEF ChunkData, c, size

\* validate_end_of_chunk().
LEMMA ChunkEndKeeps ==
    ASSUME IOInv, LayerInv, ChunkEnd
    PROVE  IOInv' /\ LayerInv'
<1>1. /\ cr.pc \in {"end", "last"} /\ UNCHANGED <<layer, cwVars, progress, line>> /\ LayerTypes /\ LayersInStep
  BY DEF ChunkEnd, LayerInv
<1>2. cr \in LayerReads /\ current_chunk_size \in Nat /\ layer = "chunked"
  BY <1>1 DEF LayerTypes, LayersInStep, InChunk
<1>3. {rcall.err, "illegal", "none"} \subseteq ReadErrors \cup {"illegal"}
  BY DEF IOInv, IOTypes, ReadCalls, ReadErrors
<1>4. CASE \E e \in {rcall.err, "illegal", "none"} : Fails(e)
  <2>1. PICK e \in {rcall.err, "illegal", "none"} : Deliver(cr, e) /\ UNCHANGED <<current_chunk_size, ioVars>>
    BY <1>4 DEF Fails
  <2> QED
    BY <1>1, <1>2, <1>3, <2>1, ChunkReturns
<1>5. CASE NextChunk(cr, current_chunk_size)
  BY <1>1, <1>2, <1>5, NextChunkKeeps
<1> QED
  BY <1>4, <1>5 DEF ChunkEnd

-----------------------------------------------------------------------------
(* The system.                                                             *)

\* At the start every byte of a string or an io::buffer is on the wire.
LEMMA InitSafe ==
    ASSUME Init
    PROVE  IOInv /\ LayerInv
<1> DEFINE given == [i \in 1..MaxBytes |-> 100 + i] \o CRLF
<1>1. given \in Bytes /\ <<>> \in Bytes
  <2> DEFINE x == [i \in 1..MaxBytes |-> 100 + i]
  <2>1. x \in [1..MaxBytes -> Nat] /\ MaxBytes \in Nat
    BY SMT, LayerAssumption
  <2>2. x \in Bytes
    BY SMT, <2>1 DEF Bytes
  <2>3. CRLF \in Bytes
    BY SMT DEF CRLF, CR, LF, Bytes
  <2> HIDE DEF x
  <2>4. x \o CRLF \in Bytes
    BY <2>2, <2>3, Joined
  <2> QED
    BY <2>2, <2>4, NothingJoined DEF x
<1> HIDE DEF given
<1>2. PICK kind \in {"socket", "string", "buffer"}, bytes \in Bytes : IOInit(kind, bytes)
  BY <1>1 DEF Init, given
<1>3. PICK l \in {"plain", "chunked", "limit", "line"} : LayerInit(l)
  BY DEF Init
<1>4. Len(<<>>) = 0 /\ bytes \o <<>> = bytes /\ <<>> \o bytes = bytes /\ <<>> \o <<>> = <<>> /\ Len(bytes) \in Nat
  BY <1>1, NothingJoined, Joined
<1>5. /\ source = kind /\ wire = bytes /\ wbuf = <<>> /\ wcall = Idle /\ written = bytes /\ broken = FALSE
      /\ rbuf = <<>> /\ rcall = NotReading /\ consumed = <<>>
  BY <1>2 DEF IOInit
<1>6. IOTypes
  BY <1>1, <1>5 DEF IOTypes, Idle, NotReading, WriteCalls, ReadCalls, ReadErrors
<1>7. CallsInStep
  BY SMT, <1>4, <1>5, BufferAssumption DEF CallsInStep, Idle, NotReading
<1>8. OnTheWay = written
  <2>1. Stored = <<>> /\ wcall.data = <<>>
    BY <1>5 DEF Stored, NotReading, Idle
  <2>2. OnTheWay = <<>> \o <<>> \o <<>> \o bytes \o <<>> \o <<>>
    BY <1>5, <2>1 DEF OnTheWay
  <2> QED
    BY <1>4, <1>5, <2>2
<1>9. /\ layer = l /\ payload = <<>> /\ cw = NotWriting /\ overrun = FALSE
      /\ cr = NotReading /\ current_chunk_size = 0 /\ progress = 0
      /\ line = <<>> /\ received = <<>>
  BY <1>3 DEF LayerInit
<1>10. LayerTypes
  <2>1. cw \in LayerWrites
    BY SMT, <1>1, <1>9 DEF NotWriting, LayerWrites
  <2>2. cr \in LayerReads
    BY <1>1, <1>9 DEF NotReading, LayerReads, ReadErrors
  <2> QED
    BY <1>1, <1>9, <2>1, <2>2 DEF LayerTypes
<1>11. LayersInStep /\ ChunksFit
  BY <1>9 DEF LayersInStep, ChunksFit, NotWriting, NotReading, InChunk
<1>12. LimitInStep
  BY SMT, <1>4, <1>5, <1>9, LayerAssumption DEF LimitInStep, NotReading
<1>13. LineInStep
  <2>1. EndsWith(<<>>, <<>>)
    BY <1>1, <1>4, EndsWithIs
  <2> QED
    BY <1>5, <1>9, <2>1 DEF LineInStep, NotReading
<1> QED
  BY <1>6, <1>7, <1>8, <1>10, <1>11, <1>12, <1>13 DEF IOInv, LayerInv

\* Every step of the tasks at the two ends.
LEMMA NextKeeps ==
    ASSUME IOInv, LayerInv, [Next]_vars
    PROVE  IOInv' /\ LayerInv'
<1>1. CASE WriterStep
  BY <1>1, WriterStepKeeps, ChunkedWriteStepKeeps DEF WriterStep
<1>2. CASE ReaderStep
  BY <1>2, ReaderStepKeeps, ChunkSizeKeeps, ChunkDataKeeps, ChunkEndKeeps, LimitReadStepKeeps, ReadlineStepKeeps
     DEF ReaderStep
<1>3. CASE UserCall
  <2>1. CASE \E n \in 1..MaxWrite : PlainWrite(n) \/ ChunkedWrite(n)
    BY SMT, <2>1, LayerAssumption, PlainWriteKeeps, ChunkedWriteKeeps
  <2>2. CASE \E n \in 1..MaxRead : PlainRead(n) \/ ChunkedRead(n) \/ LimitRead(n)
    <3>1. PICK n \in Nat : PlainRead(n) \/ ChunkedRead(n) \/ LimitRead(n)
      BY SMT, <2>2, LayerAssumption
    <3>2. CASE PlainRead(n)
      BY <3>2, PlainReaderKeeps DEF PlainRead
    <3> QED
      BY <3>1, <3>2, ChunkedReadKeeps, LimitReadKeeps
  <2>3. CASE Readline
    BY <2>3, ReadlineKeeps
  <2>4. CASE cw.pc = 0 /\ (Flush \/ Close) /\ UNCHANGED <<layer, cwVars, crVars>>
    BY <2>4, WriterStepKeeps
  <2>5. CASE /\ layer = "plain"
             /\ ResetWriter \/ Peek \/ \E other \in BOOLEAN : ResetReader(other)
             /\ UNCHANGED <<layer, cwVars, crVars>>
    BY <2>5, WriterStepKeeps, PlainReaderKeeps
  <2> QED
    BY <1>3, <2>1, <2>2, <2>3, <2>4, <2>5 DEF UserCall
<1>4. CASE UNCHANGED vars
  <2>1. UNCHANGED ioVars /\ UNCHANGED <<layer, cwVars, crVars>>
    BY <1>4 DEF vars
  <2>2. IOInv' /\ UNCHANGED <<rbuf, rcall, consumed, wcall>>
    BY <2>1, BelowUnchanged DEF ioVars, writerVars
  <2>3. UNCHANGED <<layer, cw, overrun, payload, cr, current_chunk_size, progress, line, received>>
    BY <2>1 DEF cwVars, crVars
  <2>4. LayerInv'
    BY <2>2, <2>3 DEF LayerInv, LayerTypes, LayersInStep, ChunksFit, LimitInStep, LineInStep, Amount
  <2> QED
    BY <2>2, <2>4
<1> QED
  BY <1>1, <1>2, <1>3, <1>4 DEF Next

\* No byte is lost, duplicated or overtaken between write() of buffered_writer and
\* read() of buffered_reader, for every size of the buffers, of the calls and of what
\* the sockets take and give, as long as no write() or flush() has failed; and the
\* buffer is empty when write() goes on past it (buffered_writer.cpp:52).
THEOREM StreamInOrder == Spec => []BytesInOrder
<1>1. Init => IOInv /\ LayerInv
  BY InitSafe
<1>2. IOInv /\ LayerInv /\ [Next]_vars => IOInv' /\ LayerInv'
  BY NextKeeps
<1>3. IOInv => BytesInOrder
  BY DEF IOInv, BytesInOrder, OnTheWay, Stored, CallsInStep
<1> QED
  BY <1>1, <1>2, <1>3, PTL DEF Spec

\* chunked_writer calls subspan() out of range only for more than max_chunk_size bytes,
\* limit_reader takes no byte beyond its limit out of the stream, and readline() returns
\* the end of what was read, up to the line break or to where the stream ended.
THEOREM LayersKeepBounds == Spec => [](OverrunsOnlyLong /\ LimitKept /\ LinesWhole)
<1>1. Init => IOInv /\ LayerInv
  BY InitSafe
<1>2. IOInv /\ LayerInv /\ [Next]_vars => IOInv' /\ LayerInv'
  BY NextKeeps
<1>3. IOInv /\ LayerInv => OverrunsOnlyLong /\ LimitKept /\ LinesWhole
  <2> SUFFICES ASSUME IOInv, LayerInv PROVE OverrunsOnlyLong /\ LimitKept /\ LinesWhole
    OBVIOUS
  <2>1. OverrunsOnlyLong /\ LinesWhole
    BY DEF LayerInv, ChunksFit, LineInStep, OverrunsOnlyLong, LinesWhole
  <2>2. ASSUME layer = "limit" PROVE Len(consumed) =< Limit /\ Begins(received, consumed)
    <3> DEFINE g == IF cr.pc = "limit" /\ rcall.pc = "idle" THEN rcall.got ELSE <<>>
    <3>1. received \in Bytes /\ Len(received) \in Nat /\ Limit \in Nat /\ rcall.n \in Nat /\ rcall.got \in Bytes
      BY LenProperties, LayerAssumption DEF LayerInv, LayerTypes, IOInv, IOTypes, ReadCalls, Bytes
    <3>2. received \o <<>> = received /\ Len(<<>>) = 0 /\ <<>> \in Bytes
      BY <3>1, NothingJoined
    <3>3. cr.pc \in {"idle", "limit"}
      BY <2>2 DEF LayerInv, LayerTypes, LayersInStep, LayerReads
    <3>4. consumed = received \o g /\ g \in Bytes
      BY <2>2, <3>1, <3>2, <3>3 DEF LayerInv, LimitInStep
    <3>5. Len(received) + Len(g) =< Limit
      <4>1. Len(rcall.got) =< rcall.n /\ Len(rcall.got) \in Nat
        BY <3>1, LenProperties DEF IOInv, CallsInStep, Bytes
      <4> QED
        BY SMT, <2>2, <3>1, <3>2, <4>1 DEF LayerInv, LimitInStep
    <3> HIDE DEF g
    <3>6. Len(received \o g) = Len(received) + Len(g) /\ Len(g) \in Nat /\ Take(received \o g, Len(received)) = received
      BY <3>1, <3>4, Joined, TakeJoined
    <3>7. Take(received, Len(received)) = received
      <4>1. Len(received) \in 0..Len(received)
        BY SMT, <3>1
      <4> QED
        BY <3>1, <4>1, CutInTwo
    <3>8. Len(consumed) =< Limit /\ Len(received) =< Len(consumed)
      BY SMT, <3>1, <3>4, <3>5, <3>6
    <3> QED
      BY <3>4, <3>6, <3>7, <3>8 DEF Begins
  <2> QED
    BY <2>1, <2>2 DEF LimitKept
<1> QED
  BY <1>1, <1>2, <1>3, PTL DEF Spec

=============================================================================
