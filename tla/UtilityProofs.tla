---------------------------- MODULE UtilityProofs ----------------------------
(***************************************************************************)
(* Proofs about util::ring_buffer, for any capacity and any values; about  *)
(* util::cache, for any keys, values, callers and capacity; and about      *)
(* coro::task and coro::generator, for any frames and variables.           *)
(***************************************************************************)
EXTENDS RingBuffer, Cache, Coroutines, TLAPS

(* ring_buffer.                                                            *)

\* Indices are sums of two that are at most N: the modulus is a subtraction.
LEMMA Wrap ==
    \A a \in 0..(N - 1), b \in 0..N :
        (a + b) % N = (IF a + b < N THEN a + b ELSE a + b - N) /\ (a + b) % N \in 0..(N - 1)
BY CapacityAssumption

\* Type correctness.
LEMMA Typed == Spec => []TypeOK
<1>1. Init => TypeOK
  BY CapacityAssumption, DefaultAssumption DEF Init, TypeOK
<1>2. TypeOK /\ [Next]_vars => TypeOK'
  <2> SUFFICES ASSUME TypeOK, [Next]_vars PROVE TypeOK'
    OBVIOUS
  <2> USE CapacityAssumption DEF TypeOK
  <2>0. (begin + 1) % N \in 0..(N - 1)
    OBVIOUS
  <2>1. CASE Pop
    BY <2>0, <2>1 DEF Pop
  <2>2. ASSUME NEW v \in Values, Push(v) PROVE TypeOK'
    BY <2>0, <2>2 DEF Push
  <2>3. CASE UNCHANGED vars
    BY <2>3 DEF vars
  <2> QED BY <2>1, <2>2, <2>3 DEF Next
<1> QED BY <1>1, <1>2, PTL DEF Spec

\* The contents as a sequence.
LEMMA ContentsSeq ==
    ASSUME TypeOK
    PROVE  /\ Contents \in Seq(Values) /\ Len(Contents) = current_size
           /\ \A i \in 1..current_size : (begin + (i - 1)) % N \in 0..(N - 1)
           /\ \A i \in 1..current_size : Contents[i] = values[(begin + (i - 1)) % N]
<1> USE CapacityAssumption DEF TypeOK
<1>1. \A i \in 1..current_size : (begin + (i - 1)) % N \in 0..(N - 1)
  OBVIOUS
<1>2. \A i \in 1..current_size : At(i - 1) \in Values
  BY <1>1 DEF At
<1>3. current_size \in Nat
  OBVIOUS
<1> QED BY <1>1, <1>2, <1>3 DEF Contents, At

\* The contents after a step.
LEMMA ContentsNext ==
    Contents' = [i \in 1..current_size' |-> values'[(begin' + (i - 1)) % N]]
BY DEF Contents, At

\* The rest of a sequence.
LEMMA TailIs ==
    ASSUME NEW S, NEW q \in Seq(S), q # <<>>
    PROVE  Tail(q) \in Seq(S) /\ Len(Tail(q)) = Len(q) - 1 /\ \A i \in 1..Len(q) - 1 : Tail(q)[i] = q[i + 1]
OBVIOUS

\* push() appends, dropping the oldest value of a full buffer.
LEMMA PushStep ==
    ASSUME TypeOK, TypeOK', NEW v \in Values, Push(v)
    PROVE  Queue!Push(v)
<1> USE CapacityAssumption
<1> DEFINE c == Contents
           d == Contents'
           slot == (begin + current_size) % N
<1>1. /\ c \in Seq(Values) /\ Len(c) = current_size /\ current_size \in 0..N /\ begin \in 0..(N - 1)
      /\ \A i \in 1..current_size : c[i] = values[(begin + (i - 1)) % N]
      /\ values \in [0..(N - 1) -> Values] /\ slot \in 0..(N - 1)
  BY ContentsSeq DEF TypeOK
<1>2. d = [i \in 1..current_size' |-> values'[(begin' + (i - 1)) % N]]
  BY ContentsNext
<1>3. slot = (IF begin + current_size < N THEN begin + current_size ELSE begin + current_size - N)
  <2>1. current_size \in 0..N /\ begin \in 0..(N - 1)
    BY <1>1
  <2> QED BY <2>1, Wrap
<1>4. values'[slot] = v /\ \A k \in 0..(N - 1) : k # slot => values'[k] = values[k]
  BY <1>1 DEF Push
<1> HIDE DEF c, d, slot
<1>5. CASE current_size < N
  <2>1. current_size' = current_size + 1 /\ begin' = begin
    BY <1>1, <1>5 DEF Push
  <2>2. ASSUME NEW i \in 1..current_size PROVE d[i] = c[i]
    <3>1. (begin + (i - 1)) % N =
              (IF begin + (i - 1) < N THEN begin + (i - 1) ELSE begin + (i - 1) - N)
      <4>1. i - 1 \in 0..N
        BY <1>1
      <4> QED BY <1>1, <4>1, Wrap
    <3>2. (begin + (i - 1)) % N \in 0..(N - 1) /\ (begin + (i - 1)) % N # slot
      <4> DEFINE k == (begin + (i - 1)) % N
      <4>1. k = (IF begin + (i - 1) < N THEN begin + (i - 1) ELSE begin + (i - 1) - N)
        BY <3>1
      <4>2. begin \in 0..(N - 1) /\ current_size \in 0..N
        BY <1>1
      <4> HIDE DEF k
      <4>3. k \in 0..(N - 1) /\ k # slot
        BY <1>3, <1>5, <4>1, <4>2
      <4> QED BY <4>3 DEF k
    <3> QED BY <1>1, <1>2, <1>4, <2>1, <3>2
  <2>3. d[current_size + 1] = v
    <3>1. begin + (current_size + 1 - 1) = begin + current_size
      BY <1>1
    <3> QED BY <1>1, <1>2, <1>4, <2>1, <3>1 DEF slot
  <2>4. d = Append(c, v)
    <3>1. d \in Seq(Values) /\ Len(d) = current_size + 1
      <4>1. \A i \in 1..(current_size + 1) : d[i] \in Values
        <5>1. \A i \in 1..current_size : c[i] \in Values
          BY <1>1
        <5> QED BY <1>1, <2>2, <2>3, <5>1
      <4>2. current_size + 1 \in Nat
        BY <1>1
      <4> QED BY <1>2, <2>1, <4>1, <4>2
    <3> QED BY <1>1, <2>2, <2>3, <3>1
  <2> QED BY <1>1, <1>5, <2>4 DEF Queue!Push, Push, c, d
<1>6. CASE current_size = N
  <2>1. current_size' = N /\ begin' = (begin + 1) % N /\ slot = begin
    BY <1>1, <1>3, <1>6 DEF Push
  <2>2. begin' = (IF begin + 1 < N THEN begin + 1 ELSE 0)
    <3>1. 1 \in 0..N
      OBVIOUS
    <3>2. (begin + 1) % N = (IF begin + 1 < N THEN begin + 1 ELSE begin + 1 - N)
      BY <1>1, <3>1, Wrap
    <3> QED BY <1>1, <2>1, <3>2
  <2>3. ASSUME NEW i \in 1..(N - 1) PROVE d[i] = c[i + 1]
    <3>1. /\ (begin' + (i - 1)) % N =
              (IF begin' + (i - 1) < N THEN begin' + (i - 1) ELSE begin' + (i - 1) - N)
          /\ (begin + i) % N = (IF begin + i < N THEN begin + i ELSE begin + i - N)
      <4>1. i - 1 \in 0..N /\ i \in 0..N /\ begin' \in 0..(N - 1)
        BY <1>1, <2>2
      <4> QED BY <1>1, <4>1, Wrap
    <3>2. /\ (begin' + (i - 1)) % N = (begin + i) % N
          /\ (begin + i) % N \in 0..(N - 1) /\ (begin + i) % N # slot
      <4> DEFINE k == (begin' + (i - 1)) % N
                 l == (begin + i) % N
      <4>1. /\ k = (IF begin' + (i - 1) < N THEN begin' + (i - 1) ELSE begin' + (i - 1) - N)
            /\ l = (IF begin + i < N THEN begin + i ELSE begin + i - N)
        BY <3>1
      <4>2. begin \in 0..(N - 1)
        BY <1>1
      <4> HIDE DEF k, l
      <4>3. k = l /\ l \in 0..(N - 1) /\ l # slot
        BY <2>1, <2>2, <4>1, <4>2
      <4> QED BY <4>3 DEF k, l
    <3>3. d[i] = values[(begin + i) % N]
      BY <1>2, <1>4, <2>1, <3>2
    <3>4. i + 1 \in 1..current_size /\ begin + ((i + 1) - 1) = begin + i
      BY <1>1, <1>6
    <3> QED BY <1>1, <3>3, <3>4
  <2>4. d[N] = v
    <3>1. (begin' + (N - 1)) % N = slot
      <4>1. N - 1 \in 0..N /\ begin' \in 0..(N - 1)
        BY <1>1, <2>2
      <4>2. (begin' + (N - 1)) % N =
                (IF begin' + (N - 1) < N THEN begin' + (N - 1) ELSE begin' + (N - 1) - N)
        BY <4>1, Wrap
      <4> QED BY <1>1, <2>1, <2>2, <4>2
    <3> QED BY <1>2, <1>4, <2>1, <3>1, SMTT(30)
  <2>5. d \in Seq(Values) /\ Len(d) = N
    <3>1. \A i \in 1..N : d[i] \in Values
      <4>1. \A i \in 1..(N - 1) : c[i + 1] \in Values
        BY <1>1, <1>6
      <4> QED BY <2>3, <2>4, <4>1
    <3> QED BY <1>2, <2>1, <3>1
  <2>6. d = Append(Tail(c), v)
    <3>1. /\ Tail(c) \in Seq(Values) /\ Len(Tail(c)) = N - 1
          /\ \A i \in 1..(N - 1) : Tail(c)[i] = c[i + 1]
      <4>1. c # <<>>
        BY <1>1, <1>6
      <4> QED BY <1>1, <1>6, <4>1, TailIs
    <3> QED BY <2>3, <2>4, <2>5, <3>1
  <2> QED BY <1>1, <1>6, <2>6 DEF Queue!Push, Push, c, d
<1> QED BY <1>1, <1>5, <1>6

\* pop() returns and removes the oldest value, if there is one.
LEMMA PopStep ==
    ASSUME TypeOK, TypeOK', Pop
    PROVE  Queue!Pop
<1> USE CapacityAssumption
<1> DEFINE c == Contents
           d == Contents'
<1>1. /\ c \in Seq(Values) /\ Len(c) = current_size /\ current_size \in 0..N /\ begin \in 0..(N - 1)
      /\ \A i \in 1..current_size : c[i] = values[(begin + (i - 1)) % N]
      /\ values' = values /\ out' = values[begin] /\ out' \in Values
  BY ContentsSeq DEF TypeOK, Pop
<1>2. d = [i \in 1..current_size' |-> values'[(begin' + (i - 1)) % N]]
  BY ContentsNext
<1>3. begin' = (IF begin + 1 < N THEN begin + 1 ELSE 0)
  <2>1. 1 \in 0..N /\ begin \in 0..(N - 1) /\ begin' = (begin + 1) % N
    BY <1>1 DEF Pop
  <2>2. (begin + 1) % N = (IF begin + 1 < N THEN begin + 1 ELSE begin + 1 - N)
    BY <2>1, Wrap
  <2> QED BY <2>1, <2>2
<1> HIDE DEF c, d
<1>4. CASE current_size = 0
  <2>1. c = <<>> /\ current_size' = 0
    BY <1>1, <1>4 DEF Pop
  <2>2. d = <<>>
    BY <1>2, <2>1
  <2> QED BY <1>1, <2>1, <2>2 DEF Queue!Pop, c, d
<1>5. CASE current_size # 0
  <2>1. c # <<>> /\ current_size' = current_size - 1
    BY <1>1, <1>5 DEF Pop
  <2>2. out' = Head(c)
    <3>1. (begin + (1 - 1)) % N = begin
      <4>1. begin + (1 - 1) = begin + 0 /\ begin + 0 = begin /\ begin < N /\ 0 \in 0..N
        BY <1>1
      <4> QED BY <1>1, <4>1, Wrap
    <3> QED BY <1>1, <1>5, <3>1
  <2>3. ASSUME NEW i \in 1..(current_size - 1) PROVE d[i] = c[i + 1]
    <3>1. /\ (begin' + (i - 1)) % N =
              (IF begin' + (i - 1) < N THEN begin' + (i - 1) ELSE begin' + (i - 1) - N)
          /\ (begin + i) % N = (IF begin + i < N THEN begin + i ELSE begin + i - N)
      <4>1. i - 1 \in 0..N /\ i \in 0..N /\ begin' \in 0..(N - 1)
        BY <1>1, <1>3
      <4> QED BY <1>1, <4>1, Wrap
    <3>2. (begin' + (i - 1)) % N = (begin + i) % N
      BY <1>1, <1>3, <3>1
    <3>3. d[i] = values[(begin + i) % N]
      BY <1>1, <1>2, <2>1, <3>2
    <3>4. i + 1 \in 1..current_size /\ begin + ((i + 1) - 1) = begin + i
      BY <1>1
    <3> QED BY <1>1, <3>3, <3>4
  <2>4. /\ Tail(c) \in Seq(Values) /\ Len(Tail(c)) = current_size - 1
        /\ \A i \in 1..(current_size - 1) : Tail(c)[i] = c[i + 1]
    BY <1>1, <2>1, TailIs
  <2>5. d \in Seq(Values) /\ Len(d) = current_size - 1
    <3>1. \A i \in 1..(current_size - 1) : c[i + 1] \in Values
      BY <1>1
    <3>2. current_size - 1 \in Nat
      BY <1>1, <1>5
    <3> QED BY <1>2, <2>1, <2>3, <3>1, <3>2
  <2>6. d = Tail(c)
    BY <2>3, <2>4, <2>5
  <2> QED BY <2>1, <2>2, <2>6 DEF Queue!Pop, c, d
<1> QED BY <1>4, <1>5

\* The ring buffer is a FIFO queue of the last N values, for every N.
THEOREM RingRefinement == Spec => ImplementsQueue
<1>1. Init => Queue!Init
  BY DefaultAssumption DEF Init, Queue!Init, Contents
<1>2. TypeOK /\ TypeOK' /\ [Next]_vars => [Queue!Next]_(Queue!vars)
  <2> SUFFICES ASSUME TypeOK, TypeOK', [Next]_vars PROVE [Queue!Next]_(Queue!vars)
    OBVIOUS
  <2>1. CASE UNCHANGED vars
    BY <2>1 DEF vars, Queue!vars, Contents, At
  <2> QED BY <2>1, PushStep, PopStep DEF Next, Queue!Next
<1> QED BY <1>1, <1>2, Typed, PTL DEF Spec, ImplementsQueue, Queue!Spec

-----------------------------------------------------------------------------
(* task.                                                                   *)

\* Zenon proves what follows, but for the leaves that name another prover.
USE Zenon

Outcomes == {"monostate", "void", "value", "exception"}
Promise == [state : {"free", "initial", "running", "waiting", "parked", "done"}, void : BOOLEAN,
            continuation : Frames \cup {NoFrame}, value : Outcomes, awaits : Frames \cup {NoFrame}, ended : Outcomes]
Begun == {"running", "parked", "waiting"}

\* Frames and task objects belong together one to one.
Owns(h, c) ==
    /\ \A f \in Frames : c[f].state # "free" => \E o \in Objects : h[o] = f
    /\ \A o \in Objects : h[o] # NoFrame => c[h[o]].state # "free"
    /\ \A o, p \in Objects : h[o] = h[p] /\ h[o] # NoFrame => o = p

\* A waiting coroutine and the one it waits for point at each other, without a ring.
Linked(c) ==
    /\ \A f \in Frames : c[f].state = "waiting" =>
         c[f].awaits \in Frames /\ c[c[f].awaits].state \in Begun /\ c[c[f].awaits].continuation = f
    /\ \A f \in Frames : c[f].state \in Begun /\ c[f].continuation # NoFrame =>
         c[c[f].continuation].state = "waiting" /\ c[c[f].continuation].awaits = f
    /\ \A f \in Frames : c[f].state = "initial" => c[f].continuation = NoFrame
NoRing(c) ==
    \A S \in SUBSET {f \in Frames : c[f].state = "waiting"} : S # {} => \E f \in S : c[f].awaits \notin S

\* The value is set at the end and not before.
Valued(c) ==
    \A f \in Frames : /\ c[f].state \in Begun \cup {"initial"} => c[f].value = "monostate"
                      /\ c[f].state = "done" => result(c[f]) = c[f].ended

\* The temporary that a coroutine keeps is that of the one it waits for.
Temporaries(h, c) == \A f \in Frames : h[f] # NoFrame => c[f].state = "waiting" /\ c[f].awaits = h[f]

TaskInvOf(h, c) ==
    /\ h \in [Objects -> Frames \cup {NoFrame}] /\ c \in [Frames -> Promise]
    /\ Owns(h, c) /\ Linked(c) /\ NoRing(c) /\ Valued(c)

TaskInv == TaskInvOf(handle, coro) /\ Temporaries(handle, coro) /\ got.is = got.should

Same(r, s) == r.void = s.void /\ r.value = s.value /\ r.ended = s.ended

\* One field of a promise is set: where the body is.
LEMMA StateSet ==
    ASSUME NEW r \in Promise, NEW x
    PROVE  LET s == [r EXCEPT !.state = x]
           IN  s.state = x /\ s.continuation = r.continuation /\ s.awaits = r.awaits /\ Same(s, r)
BY SMT DEF Promise, Same

\* What it waits for.
LEMMA AwaitsSet ==
    ASSUME NEW r \in Promise, NEW x
    PROVE  LET s == [r EXCEPT !.awaits = x]
           IN  s.state = r.state /\ s.continuation = r.continuation /\ s.awaits = x /\ Same(s, r)
BY SMT DEF Promise, Same

\* What continues after it.
LEMMA ContinuationSet ==
    ASSUME NEW r \in Promise, NEW x
    PROVE  LET s == [r EXCEPT !.continuation = x]
           IN  s.state = r.state /\ s.continuation = x /\ s.awaits = r.awaits /\ Same(s, r)
BY SMT DEF Promise, Same

\* A promise with a field set is a promise.
LEMMA FieldTyped ==
    ASSUME NEW r \in Promise
    PROVE  /\ \A s \in {"running", "waiting", "parked", "done"} : [r EXCEPT !.state = s] \in Promise
           /\ \A f \in Frames \cup {NoFrame} : [r EXCEPT !.awaits = f] \in Promise
           /\ \A f \in Frames \cup {NoFrame} : [r EXCEPT !.continuation = f] \in Promise
BY DEF Promise

\* The promises that are made.
LEMMA Made ==
    ASSUME NEW void \in BOOLEAN
    PROVE  /\ Free \in Promise /\ New(void) \in Promise
           /\ Free.state = "free" /\ Free.continuation = NoFrame /\ Free.awaits = NoFrame
           /\ New(void).state = "initial" /\ New(void).continuation = NoFrame /\ New(void).awaits = NoFrame
           /\ New(void).value = "monostate"
BY DEF Free, New, Promise, Outcomes

\* The frame of a task object is in use, and of no other object.
LEMMA Owned ==
    ASSUME NEW h, NEW c, TaskInvOf(h, c), NEW p \in Objects, h[p] # NoFrame
    PROVE  h[p] \in Frames /\ c[h[p]].state # "free" /\ \A q \in Objects : h[q] = h[p] => q = p
<1>1. h[p] \in Frames
  BY DEF TaskInvOf
<1> QED BY <1>1 DEF TaskInvOf, Owns

\* A frame in use has an object.
LEMMA HasOwner ==
    ASSUME NEW h, NEW c, TaskInvOf(h, c), NEW f \in Frames, c[f].state # "free"
    PROVE  f # NoFrame /\ \E o \in Objects : h[o] = f
<1>1. f # NoFrame
  BY CoroutineAssumption
<1> QED BY <1>1 DEF TaskInvOf, Owns

\* What a coroutine waits for, and what waits for it, is the same with s as with r.
SameLink(r, s) ==
    /\ s.state = "waiting" => r.state = "waiting"
    /\ r.state = "waiting" => s.state = "waiting" /\ s.awaits = r.awaits
    /\ r.state \in Begun /\ r.continuation # NoFrame => s.state \in Begun /\ s.continuation = r.continuation
    /\ s.state \in Begun /\ s.continuation # NoFrame => r.state \in Begun /\ s.continuation = r.continuation
    /\ s.state = "initial" => s.continuation = NoFrame
SameLinks(c, d) == \A f \in Frames : SameLink(c[f], d[f])

\* One promise changes.
LEMMA OtherLinks ==
    ASSUME NEW h, NEW c, TaskInvOf(h, c), NEW d, NEW f \in Frames, \A g \in Frames : g # f => d[g] = c[g],
           SameLink(c[f], d[f])
    PROVE  SameLinks(c, d)
<1>1. ASSUME NEW g \in Frames PROVE SameLink(c[g], c[g])
  BY DEF SameLink, TaskInvOf, Linked
<1> QED BY <1>1 DEF SameLinks

\* Then they are as well linked.
LEMMA LinksStay ==
    ASSUME NEW c \in [Frames -> Promise], NEW d, Linked(c), NoRing(c), SameLinks(c, d)
    PROVE  Linked(d) /\ NoRing(d)
<1>1. ASSUME NEW f \in Frames, d[f].state = "waiting"
      PROVE  d[f].awaits \in Frames /\ d[d[f].awaits].state \in Begun /\ d[d[f].awaits].continuation = f
  <2>1. c[f].state = "waiting" /\ d[f].awaits = c[f].awaits
    BY <1>1 DEF SameLinks, SameLink
  <2>2. c[f].awaits \in Frames /\ c[c[f].awaits].state \in Begun /\ c[c[f].awaits].continuation = f
    BY <2>1 DEF Linked
  <2>3. f # NoFrame
    BY CoroutineAssumption
  <2> QED BY <2>1, <2>2, <2>3 DEF SameLinks, SameLink
<1>2. ASSUME NEW f \in Frames, d[f].state \in Begun, d[f].continuation # NoFrame
      PROVE  d[d[f].continuation].state = "waiting" /\ d[d[f].continuation].awaits = f
  <2>1. c[f].state \in Begun /\ d[f].continuation = c[f].continuation
    BY <1>2 DEF SameLinks, SameLink
  <2>2. c[f].continuation \in Frames
    <3>1. c[f] \in Promise
      OBVIOUS
    <3>2. c[f].continuation \in Frames \cup {NoFrame}
      BY <3>1 DEF Promise
    <3> QED BY <1>2, <2>1, <3>2
  <2>3. c[c[f].continuation].state = "waiting" /\ c[c[f].continuation].awaits = f
    BY <1>2, <2>1 DEF Linked
  <2> QED BY <2>1, <2>2, <2>3 DEF SameLinks, SameLink
<1>3. NoRing(d)
  BY DEF NoRing, SameLinks, SameLink
<1> QED BY <1>1, <1>2, <1>3 DEF Linked, SameLinks, SameLink

\* A frame is allocated for the object o, which had none.
LEMMA AllocateKeeps ==
    ASSUME NEW h, NEW c, TaskInvOf(h, c), NEW o \in Objects, NEW f \in Frames, NEW void \in BOOLEAN,
           h[o] = NoFrame, c[f].state = "free"
    PROVE  TaskInvOf([h EXCEPT ![o] = f], [c EXCEPT ![f] = New(void)])
<1> DEFINE i == [h EXCEPT ![o] = f]
           d == [c EXCEPT ![f] = New(void)]
<1>1. /\ i \in [Objects -> Frames \cup {NoFrame}] /\ i[o] = f /\ \A p \in Objects : p # o => i[p] = h[p]
      /\ d \in [Frames -> Promise] /\ d[f] = New(void) /\ \A g \in Frames : g # f => d[g] = c[g]
  BY Made DEF TaskInvOf
<1> HIDE DEF i, d
<1>2. f # NoFrame
  BY CoroutineAssumption
<1>3. Owns(i, d)
  <2>1. \A p \in Objects : h[p] # f
    BY <1>2, Owned
  <2>2. ASSUME NEW g \in Frames, d[g].state # "free" PROVE \E p \in Objects : i[p] = g
    <3>1. CASE g = f
      BY <1>1, <3>1
    <3>2. CASE g # f
      <4>1. c[g].state # "free"
        BY <1>1, <2>2, <3>2
      <4>2. g # NoFrame /\ \E p \in Objects : h[p] = g
        BY <4>1, HasOwner
      <4> QED BY <1>1, <4>2
    <3> QED BY <3>1, <3>2
  <2>3. ASSUME NEW p \in Objects, i[p] # NoFrame PROVE d[i[p]].state # "free"
    <3>1. CASE p = o
      BY <1>1, <3>1, Made
    <3>2. CASE p # o
      <4>1. h[p] # f /\ i[p] = h[p] /\ h[p] # NoFrame
        BY <1>1, <2>1, <2>3, <3>2
      <4>2. h[p] \in Frames /\ c[h[p]].state # "free"
        BY <4>1, Owned
      <4> QED BY <1>1, <4>1, <4>2
    <3> QED BY <3>1, <3>2
  <2>4. ASSUME NEW p \in Objects, NEW q \in Objects, i[p] = i[q], i[p] # NoFrame PROVE p = q
    <3>1. CASE p = o \/ q = o
      BY <1>1, <2>1, <2>4, <3>1
    <3>2. CASE p # o /\ q # o
      <4>1. h[p] = h[q] /\ h[p] # NoFrame
        BY <1>1, <2>4, <3>2
      <4> QED BY <4>1, Owned
    <3> QED BY <3>1, <3>2
  <2> QED BY <2>2, <2>3, <2>4 DEF Owns
<1>4. SameLinks(c, d)
  <2>1. SameLink(c[f], d[f])
    BY <1>1, Made DEF SameLink, Begun
  <2> QED BY <1>1, <2>1, OtherLinks
<1>5. Linked(d) /\ NoRing(d)
  BY <1>4, LinksStay DEF TaskInvOf
<1>6. Valued(d)
  BY <1>1, Made DEF TaskInvOf, Valued
<1> QED BY <1>1, <1>3, <1>5, <1>6 DEF TaskInvOf, i, d

\* The frame of the object o is destroyed: it has not begun or it is done.
LEMMA FreeKeeps ==
    ASSUME NEW h, NEW c, TaskInvOf(h, c), NEW o \in Objects, h[o] # NoFrame, c[h[o]].state \in {"initial", "done"}
    PROVE  TaskInvOf([h EXCEPT ![o] = NoFrame], [c EXCEPT ![h[o]] = Free])
<1> DEFINE f == h[o]
           i == [h EXCEPT ![o] = NoFrame]
           d == [c EXCEPT ![f] = Free]
<1>1. /\ f \in Frames
      /\ i \in [Objects -> Frames \cup {NoFrame}] /\ i[o] = NoFrame /\ \A p \in Objects : p # o => i[p] = h[p]
      /\ d \in [Frames -> Promise] /\ d[f] = Free /\ \A g \in Frames : g # f => d[g] = c[g]
  BY Made DEF TaskInvOf
<1>2. c[f].state \in {"initial", "done"} /\ h[o] = f
  OBVIOUS
<1>3. \A p \in Objects : p # o => h[p] # f
  BY DEF TaskInvOf, Owns
<1> HIDE DEF f, i, d
<1>4. Owns(i, d)
  <2>1. ASSUME NEW g \in Frames, d[g].state # "free" PROVE \E p \in Objects : i[p] = g
    <3>1. g # f
      BY <1>1, <2>1, Made
    <3>2. c[g].state # "free"
      BY <1>1, <2>1, <3>1
    <3>3. \E p \in Objects : h[p] = g
      BY <3>2, HasOwner
    <3> QED BY <1>1, <1>2, <3>1, <3>3
  <2>2. ASSUME NEW p \in Objects, i[p] # NoFrame PROVE d[i[p]].state # "free"
    <3>1. p # o /\ i[p] = h[p] /\ h[p] # f /\ h[p] # NoFrame
      BY <1>1, <1>3, <2>2
    <3>2. h[p] \in Frames /\ c[h[p]].state # "free"
      BY <3>1, Owned
    <3> QED BY <1>1, <3>1, <3>2
  <2>3. ASSUME NEW p \in Objects, NEW q \in Objects, i[p] = i[q], i[p] # NoFrame PROVE p = q
    <3>1. h[p] = h[q] /\ h[p] # NoFrame
      BY <1>1, <2>3
    <3> QED BY <3>1, Owned
  <2> QED BY <2>1, <2>2, <2>3 DEF Owns
<1>5. SameLinks(c, d)
  <2>1. SameLink(c[f], d[f])
    BY <1>1, <1>2, Made DEF SameLink, Begun
  <2> QED BY <1>1, <2>1, OtherLinks
<1>6. Linked(d) /\ NoRing(d)
  BY <1>5, LinksStay DEF TaskInvOf
<1>7. Valued(d)
  BY <1>1, Made DEF TaskInvOf, Valued, Begun
<1> QED BY <1>1, <1>4, <1>6, <1>7 DEF TaskInvOf, f, i, d

\* A task is moved from p to o, which has none.
LEMMA MovedKeeps ==
    ASSUME NEW h, NEW c, TaskInvOf(h, c), NEW o \in Objects, NEW p \in Objects, o # p, h[o] = NoFrame
    PROVE  TaskInvOf([h EXCEPT ![o] = h[p], ![p] = NoFrame], c)
<1> DEFINE j == [h EXCEPT ![o] = h[p]]
           i == [j EXCEPT ![p] = NoFrame]
<1>1. /\ i \in [Objects -> Frames \cup {NoFrame}] /\ i[o] = h[p] /\ i[p] = NoFrame
      /\ \A q \in Objects : q # o /\ q # p => i[q] = h[q]
  BY DEF TaskInvOf
<1>2. i = [h EXCEPT ![o] = h[p], ![p] = NoFrame]
  OBVIOUS
<1> HIDE DEF i, j
<1>3. Owns(i, c)
  <2>1. ASSUME NEW f \in Frames, c[f].state # "free" PROVE \E q \in Objects : i[q] = f
    <3>1. PICK q \in Objects : h[q] = f
      BY <2>1 DEF TaskInvOf, Owns
    <3>2. f # NoFrame
      BY CoroutineAssumption
    <3> QED BY <1>1, <3>1, <3>2
  <2>2. \A q \in Objects : i[q] # NoFrame => c[i[q]].state # "free"
    BY <1>1 DEF TaskInvOf, Owns
  <2> DEFINE from(q) == IF q = o THEN p ELSE q
  <2>3. \A q \in Objects : i[q] # NoFrame => from(q) \in Objects /\ i[q] = h[from(q)] /\ q # p
    BY <1>1
  <2>4. ASSUME NEW q \in Objects, NEW r \in Objects, i[q] = i[r], i[q] # NoFrame PROVE q = r
    <3>1. from(q) \in Objects /\ from(r) \in Objects /\ h[from(q)] = h[from(r)] /\ h[from(q)] # NoFrame
      BY <2>3, <2>4
    <3> HIDE DEF from
    <3>2. from(q) = from(r)
      BY <3>1, Owned
    <3> USE DEF from
    <3> QED BY <2>3, <2>4, <3>2
  <2> QED BY <2>1, <2>2, <2>4 DEF Owns
<1> QED BY <1>1, <1>2, <1>3 DEF TaskInvOf

\* A coroutine starts, is suspended or goes on.
LEMMA SwitchKeeps ==
    ASSUME NEW h, NEW c, TaskInvOf(h, c), NEW f \in Frames, NEW s \in {"running", "parked"},
           c[f].state \in {"initial", "running", "parked"}
    PROVE  TaskInvOf(h, [c EXCEPT ![f].state = s])
<1> DEFINE d == [c EXCEPT ![f].state = s]
<1>1. d \in [Frames -> Promise] /\ d[f] = [c[f] EXCEPT !.state = s] /\ \A g \in Frames : g # f => d[g] = c[g]
  BY FieldTyped DEF TaskInvOf
<1>2. d[f].state = s /\ d[f].continuation = c[f].continuation /\ d[f].awaits = c[f].awaits /\ Same(d[f], c[f])
  <2>1. c[f] \in Promise
    BY DEF TaskInvOf
  <2> DEFINE x == [c[f] EXCEPT !.state = s]
  <2>2. x.state = s /\ x.continuation = c[f].continuation /\ x.awaits = c[f].awaits /\ Same(x, c[f])
    BY <2>1, StateSet
  <2> QED BY <1>1, <2>2
<1> HIDE DEF d
<1>3. Owns(h, d)
  BY <1>1, <1>2 DEF TaskInvOf, Owns
<1>4. SameLinks(c, d)
  <2>1. c[f].state = "initial" => c[f].continuation = NoFrame
    BY DEF TaskInvOf, Linked
  <2>2. SameLink(c[f], d[f])
    BY <1>2, <2>1 DEF SameLink, Begun
  <2> QED BY <1>1, <2>2, OtherLinks
<1>5. Linked(d) /\ NoRing(d)
  BY <1>4, LinksStay DEF TaskInvOf
<1>6. Valued(d)
  BY <1>1, <1>2 DEF TaskInvOf, Valued, Begun, Same
<1> QED BY <1>1, <1>3, <1>5, <1>6 DEF TaskInvOf, d


\* await_suspend() sets four fields.
LEMMA TransferIs ==
    ASSUME NEW c \in [Frames -> Promise], NEW f \in Frames, NEW g \in Frames, f # g
    PROVE  LET d == Transfer(c, f, g)
           IN  /\ d \in [Frames -> Promise] /\ \A k \in Frames : k # f /\ k # g => d[k] = c[k]
               /\ d[f].state = "waiting" /\ d[f].awaits = g /\ d[f].continuation = c[f].continuation /\ Same(d[f], c[f])
               /\ d[g].state = "running" /\ d[g].continuation = f /\ Same(d[g], c[g])
<1> DEFINE r == [c[f] EXCEPT !.state = "waiting"]
           s == [r EXCEPT !.awaits = g]
           t == [c[g] EXCEPT !.state = "running"]
           u == [t EXCEPT !.continuation = f]
<1>1. c[f] \in Promise /\ c[g] \in Promise
  OBVIOUS
<1>2. r \in Promise /\ r.state = "waiting" /\ r.continuation = c[f].continuation /\ Same(r, c[f])
  <2>1. r \in Promise
    BY <1>1, FieldTyped
  <2>2. r.state = "waiting" /\ r.continuation = c[f].continuation /\ Same(r, c[f])
    BY <1>1, StateSet
  <2> QED BY <2>1, <2>2
<1>3. t \in Promise /\ t.state = "running" /\ Same(t, c[g])
  <2>1. t \in Promise
    BY <1>1, FieldTyped
  <2>2. t.state = "running" /\ Same(t, c[g])
    BY <1>1, StateSet
  <2> QED BY <2>1, <2>2
<1> HIDE DEF r, t
<1>4. s \in Promise /\ s.state = r.state /\ s.awaits = g /\ s.continuation = r.continuation /\ Same(s, r)
  <2>1. s \in Promise
    BY <1>2, FieldTyped
  <2>2. s.state = r.state /\ s.awaits = g /\ s.continuation = r.continuation /\ Same(s, r)
    BY <1>2, AwaitsSet
  <2> QED BY <2>1, <2>2
<1>5. u \in Promise /\ u.state = t.state /\ u.continuation = f /\ Same(u, t)
  <2>1. u \in Promise
    BY <1>3, FieldTyped
  <2>2. u.state = t.state /\ u.continuation = f /\ Same(u, t)
    BY <1>3, ContinuationSet
  <2> QED BY <2>1, <2>2
<1> HIDE DEF s, u
<1> DEFINE d == Transfer(c, f, g)
<1>6. d \in [Frames -> Promise] /\ d[f] = s /\ d[g] = u /\ \A k \in Frames : k # f /\ k # g => d[k] = c[k]
  <2> DEFINE c1 == [c EXCEPT ![f].state = "waiting"]
             c2 == [c1 EXCEPT ![f].awaits = g]
             c3 == [c2 EXCEPT ![g].state = "running"]
             c4 == [c3 EXCEPT ![g].continuation = f]
  <2>1. c1 \in [Frames -> Promise] /\ c1[f] = r /\ \A k \in Frames : k # f => c1[k] = c[k]
    BY <1>2 DEF r
  <2>2. d = c4
    BY DEF Transfer
  <2> HIDE DEF c1
  <2>3. c2 \in [Frames -> Promise] /\ c2[f] = s /\ \A k \in Frames : k # f => c2[k] = c1[k]
    BY <1>4, <2>1 DEF s
  <2> HIDE DEF c2
  <2>4. c3 \in [Frames -> Promise] /\ c3[g] = t /\ \A k \in Frames : k # g => c3[k] = c2[k]
    BY <1>3, <2>1, <2>3 DEF t
  <2> HIDE DEF c3
  <2>5. c4 \in [Frames -> Promise] /\ c4[g] = u /\ \A k \in Frames : k # g => c4[k] = c3[k]
    BY <1>5, <2>4 DEF u
  <2> HIDE DEF c4, d
  <2> QED BY <2>1, <2>2, <2>3, <2>4, <2>5
<1> HIDE DEF d
<1> QED BY <1>2, <1>3, <1>4, <1>5, <1>6 DEF d, Same

\* co_await passes control from f to g, which has not begun.
LEMMA TransferKeeps ==
    ASSUME NEW h, NEW c, TaskInvOf(h, c), NEW f \in Frames, NEW g \in Frames,
           c[f].state = "running", c[g].state = "initial"
    PROVE  TaskInvOf(h, Transfer(c, f, g))
<1> DEFINE d == Transfer(c, f, g)
<1>1. /\ d \in [Frames -> Promise] /\ \A k \in Frames : k # f /\ k # g => d[k] = c[k]
      /\ d[f].state = "waiting" /\ d[f].awaits = g /\ d[f].continuation = c[f].continuation /\ Same(d[f], c[f])
      /\ d[g].state = "running" /\ d[g].continuation = f /\ Same(d[g], c[g])
  BY TransferIs DEF TaskInvOf
<1> HIDE DEF d
<1>2. \A k \in Frames : (d[k].state = "free") = (c[k].state = "free")
  BY <1>1
<1>3. Owns(h, d)
  <2>1. \A p \in Objects : h[p] # NoFrame => h[p] \in Frames
    BY DEF TaskInvOf
  <2> QED BY <1>2, <2>1 DEF TaskInvOf, Owns
<1>4. ASSUME NEW k \in Frames, d[k].state = "waiting"
      PROVE  d[k].awaits \in Frames /\ d[d[k].awaits].state \in Begun /\ d[d[k].awaits].continuation = k
  <2>1. CASE k = f
    BY <1>1, <2>1 DEF Begun
  <2>2. CASE k # f
    <3>1. k # g /\ d[k] = c[k]
      BY <1>1, <1>4, <2>2
    <3> DEFINE a == c[k].awaits
    <3>2. a \in Frames /\ c[a].state \in Begun /\ c[a].continuation = k
      BY <1>4, <3>1 DEF TaskInvOf, Linked
    <3> HIDE DEF a
    <3>3. a # g
      BY <3>2 DEF Begun
    <3>4. d[a].state \in Begun /\ d[a].continuation = k
      BY <1>1, <3>2, <3>3 DEF Begun
    <3> QED BY <3>1, <3>2, <3>4 DEF a
  <2> QED BY <2>1, <2>2
<1>5. ASSUME NEW k \in Frames, d[k].state \in Begun, d[k].continuation # NoFrame
      PROVE  d[d[k].continuation].state = "waiting" /\ d[d[k].continuation].awaits = k
  <2>1. CASE k = g
    BY <1>1, <2>1
  <2>2. CASE k # g
    <3> DEFINE a == c[k].continuation
    <3>1. d[k].continuation = a /\ c[k].state \in Begun
      BY <1>1, <1>5, <2>2 DEF Begun
    <3>2. c[a].state = "waiting" /\ c[a].awaits = k
      BY <1>5, <3>1 DEF TaskInvOf, Linked
    <3>3. a \in Frames
      <4>1. c[k] \in Promise
        BY DEF TaskInvOf
      <4>2. a \in Frames \cup {NoFrame}
        BY <4>1 DEF Promise
      <4> QED BY <1>5, <3>1, <4>2
    <3> HIDE DEF a
    <3>4. d[a] = c[a]
      BY <1>1, <3>2, <3>3
    <3> QED BY <3>1, <3>2, <3>4
  <2> QED BY <2>1, <2>2
<1>6. \A k \in Frames : d[k].state = "initial" => d[k].continuation = NoFrame
  <2>1. \A k \in Frames : c[k].state = "initial" => c[k].continuation = NoFrame
    BY DEF TaskInvOf, Linked
  <2> QED BY <1>1, <2>1
<1>7. NoRing(d)
  <2> SUFFICES ASSUME NEW S \in SUBSET {k \in Frames : d[k].state = "waiting"}, S # {}
               PROVE  \E k \in S : d[k].awaits \notin S
    BY DEF NoRing
  <2>1. CASE f \in S
    BY <1>1, <2>1
  <2>2. CASE f \notin S
    <3>1. \A k \in S : d[k] = c[k] /\ k \in Frames /\ c[k].state = "waiting"
      BY <1>1, <2>2
    <3>2. \E k \in S : c[k].awaits \notin S
      BY <3>1 DEF TaskInvOf, NoRing
    <3> QED BY <3>1, <3>2
  <2> QED BY <2>1, <2>2
<1>8. Valued(d)
  <2>1. \A k \in Frames : (Same(d[k], c[k]) /\ d[k].state # "done") \/ d[k] = c[k]
    BY <1>1
  <2>2. \A k \in Frames : d[k].state \in Begun \cup {"initial"} => c[k].state \in Begun \cup {"initial"}
    BY <1>1 DEF Begun
  <2> QED BY <2>1, <2>2 DEF TaskInvOf, Valued, Same
<1>9. Linked(d)
  BY <1>4, <1>5, <1>6 DEF Linked
<1> QED BY <1>1, <1>3, <1>7, <1>8, <1>9 DEF TaskInvOf, d


\* The outcomes of a body.
Ends(r) == IF r.void THEN {"void", "exception"} ELSE {"value", "exception"}

\* How a body ends is what result() gives.
LEMMA EndedIs ==
    ASSUME NEW r \in Promise, r.value = "monostate", NEW how \in Ends(r)
    PROVE  LET e == Ended(r, how)
           IN  /\ e \in Promise /\ e.state = "done" /\ e.continuation = r.continuation
               /\ e.ended = how /\ result(e) = how
<1> DEFINE v == IF how = "void" THEN r.value ELSE how
           s == [r EXCEPT !.state = "done"]
           t == [s EXCEPT !.ended = how]
           e == [t EXCEPT !.value = v]
<1>1. how \in Outcomes /\ v \in Outcomes
  BY DEF Ends, Outcomes
<1>2. s \in Promise /\ s.state = "done" /\ s.continuation = r.continuation /\ s.void = r.void /\ s.value = r.value
  BY StateSet, FieldTyped DEF Same
<1>3. Ended(r, how) = [s EXCEPT !.ended = how, !.value = IF how = "void" THEN @ ELSE how]
  BY DEF Ended
<1> HIDE DEF s
<1>4. t \in Promise
  BY <1>1, <1>2 DEF Promise
<1>5. t.state = "done" /\ t.continuation = r.continuation /\ t.void = r.void /\ t.value = r.value /\ t.ended = how
  BY <1>2, SMT DEF Promise
<1>6. Ended(r, how) = [t EXCEPT !.value = IF how = "void" THEN t.value ELSE how]
  BY <1>3
<1> HIDE DEF t
<1>7. Ended(r, how) = e
  BY <1>5, <1>6
<1> HIDE DEF v
<1>8. e \in Promise
  BY <1>1, <1>4 DEF Promise
<1>9. e.state = "done" /\ e.continuation = r.continuation /\ e.void = r.void /\ e.ended = how /\ e.value = v
  BY <1>4, <1>5, SMT DEF Promise
<1> HIDE DEF e
<1>10. result(e) = how
  <2>1. CASE r.void
    BY <1>9, <2>1 DEF result, result_void, Ends, v
  <2>2. CASE ~r.void
    BY <1>9, <2>2 DEF result, Ends, v
  <2> QED BY <2>1, <2>2
<1> QED BY <1>7, <1>8, <1>9, <1>10

\* A coroutine that nothing waits for ends.
LEMMA EndAloneKeeps ==
    ASSUME NEW h, NEW c, TaskInvOf(h, c), NEW f \in Frames, c[f].state = "running", c[f].continuation = NoFrame,
           NEW how \in Ends(c[f])
    PROVE  TaskInvOf(h, [c EXCEPT ![f] = Ended(c[f], how)])
<1> DEFINE e == Ended(c[f], how)
           d == [c EXCEPT ![f] = e]
<1>1. c[f] \in Promise /\ c[f].value = "monostate"
  BY DEF TaskInvOf, Valued, Begun
<1>2. e \in Promise /\ e.state = "done" /\ e.continuation = NoFrame /\ e.ended = how /\ result(e) = how
  BY <1>1, EndedIs
<1> HIDE DEF e
<1>3. d \in [Frames -> Promise] /\ d[f] = e /\ \A g \in Frames : g # f => d[g] = c[g]
  BY <1>2 DEF TaskInvOf
<1> HIDE DEF d
<1>4. Owns(h, d)
  BY <1>2, <1>3 DEF TaskInvOf, Owns
<1>5. SameLinks(c, d)
  <2>1. SameLink(c[f], d[f])
    BY <1>2, <1>3 DEF SameLink, Begun
  <2> QED BY <1>3, <2>1, OtherLinks
<1>6. Linked(d) /\ NoRing(d)
  BY <1>5, LinksStay DEF TaskInvOf
<1>7. Valued(d)
  BY <1>2, <1>3 DEF TaskInvOf, Valued, Begun
<1> QED BY <1>3, <1>4, <1>6, <1>7 DEF TaskInvOf, d, e

\* A coroutine ends and its continuation goes on.
LEMMA EndKeeps ==
    ASSUME NEW h, NEW c, TaskInvOf(h, c), NEW f \in Frames, c[f].state = "running", c[f].continuation # NoFrame,
           NEW how \in Ends(c[f])
    PROVE  LET k == c[f].continuation
               d == [c EXCEPT ![f] = Ended(c[f], how), ![k].state = "running", ![k].awaits = NoFrame]
           IN  /\ k \in Frames /\ k # f /\ c[k].state = "waiting" /\ c[k].awaits = f
               /\ TaskInvOf(h, d) /\ d[f] = Ended(c[f], how) /\ d[f].state = "done"
               /\ \A g \in Frames : g # f /\ g # k => d[g] = c[g]
<1> DEFINE e == Ended(c[f], how)
           k == c[f].continuation
           r == [c[k] EXCEPT !.state = "running"]
           s == [r EXCEPT !.awaits = NoFrame]
           d == [c EXCEPT ![f] = e, ![k].state = "running", ![k].awaits = NoFrame]
<1>1. c[f] \in Promise /\ c[f].value = "monostate"
  BY DEF TaskInvOf, Valued, Begun
<1>2. e \in Promise /\ e.state = "done" /\ e.ended = how /\ result(e) = how
  BY <1>1, EndedIs
<1>3. k \in Frames
  <2>1. c[f].continuation \in Frames \cup {NoFrame}
    BY <1>1 DEF Promise
  <2> QED BY <2>1
<1>4. c[k].state = "waiting" /\ c[k].awaits = f /\ k # f
  <2>1. c[k].state = "waiting" /\ c[k].awaits = f
    BY DEF TaskInvOf, Linked, Begun
  <2> QED BY <2>1
<1> HIDE DEF e, k
<1>5. c[k] \in Promise
  BY <1>3 DEF TaskInvOf
<1>6. r \in Promise /\ r.state = "running" /\ r.continuation = c[k].continuation /\ Same(r, c[k])
  <2>1. r \in Promise
    BY <1>5, FieldTyped
  <2>2. r.state = "running" /\ r.continuation = c[k].continuation /\ Same(r, c[k])
    BY <1>5, StateSet
  <2> QED BY <2>1, <2>2
<1> HIDE DEF r
<1>7. s \in Promise /\ s.state = "running" /\ s.continuation = c[k].continuation /\ Same(s, r)
  <2>1. s \in Promise
    BY <1>6, FieldTyped
  <2>2. s.state = r.state /\ s.continuation = r.continuation /\ Same(s, r)
    BY <1>6, AwaitsSet
  <2> QED BY <1>6, <2>1, <2>2
<1> HIDE DEF s
<1>8. d \in [Frames -> Promise] /\ d[f] = e /\ d[k] = s /\ \A g \in Frames : g # f /\ g # k => d[g] = c[g]
  <2> DEFINE c1 == [c EXCEPT ![f] = e]
             c2 == [c1 EXCEPT ![k].state = "running"]
             c3 == [c2 EXCEPT ![k].awaits = NoFrame]
  <2>1. c1 \in [Frames -> Promise] /\ c1[f] = e /\ \A g \in Frames : g # f => c1[g] = c[g]
    BY <1>2 DEF TaskInvOf
  <2>2. d = c3
    OBVIOUS
  <2> HIDE DEF c1
  <2>3. c2 \in [Frames -> Promise] /\ c2[k] = r /\ \A g \in Frames : g # k => c2[g] = c1[g]
    BY <1>3, <1>4, <1>6, <2>1 DEF r
  <2> HIDE DEF c2
  <2>4. c3 \in [Frames -> Promise] /\ c3[k] = s /\ \A g \in Frames : g # k => c3[g] = c2[g]
    BY <1>3, <1>7, <2>3 DEF s
  <2> HIDE DEF c3, d
  <2> QED BY <1>4, <2>1, <2>2, <2>3, <2>4
<1> HIDE DEF d
<1>9. TaskInvOf(h, d)
  <2>1. \A g \in Frames : d[g].state = "free" <=> c[g].state = "free"
    BY <1>2, <1>4, <1>7, <1>8
  <2>2. Owns(h, d)
    <3>1. \A p \in Objects : h[p] # NoFrame => h[p] \in Frames
      BY DEF TaskInvOf
    <3> QED BY <2>1, <3>1 DEF TaskInvOf, Owns
  <2>3. ASSUME NEW g \in Frames, d[g].state = "waiting"
        PROVE  d[g].awaits \in Frames /\ d[d[g].awaits].state \in Begun /\ d[d[g].awaits].continuation = g
    <3>1. g # f /\ g # k /\ d[g] = c[g]
      BY <1>2, <1>7, <1>8, <2>3
    <3> DEFINE a == c[g].awaits
    <3>2. a \in Frames /\ c[a].state \in Begun /\ c[a].continuation = g
      BY <2>3, <3>1 DEF TaskInvOf, Linked
    <3> HIDE DEF a
    <3>3. a # f
      BY <3>1, <3>2 DEF k
    <3>4. d[a].state \in Begun /\ d[a].continuation = g
      BY <1>7, <1>8, <3>2, <3>3 DEF Begun
    <3> QED BY <3>1, <3>2, <3>4 DEF a
  <2>4. ASSUME NEW g \in Frames, d[g].state \in Begun, d[g].continuation # NoFrame
        PROVE  d[d[g].continuation].state = "waiting" /\ d[d[g].continuation].awaits = g
    <3> DEFINE a == c[g].continuation
    <3>1. g # f /\ d[g].continuation = a /\ c[g].state \in Begun
      BY <1>2, <1>4, <1>7, <1>8, <2>4 DEF Begun
    <3>2. c[a].state = "waiting" /\ c[a].awaits = g
      BY <2>4, <3>1 DEF TaskInvOf, Linked
    <3>3. a \in Frames
      <4>1. c[g] \in Promise
        BY DEF TaskInvOf
      <4>2. a \in Frames \cup {NoFrame}
        BY <4>1 DEF Promise
      <4> QED BY <2>4, <3>1, <4>2
    <3> HIDE DEF a
    <3>4. d[a] = c[a]
      BY <1>4, <1>8, <3>1, <3>2, <3>3
    <3> QED BY <3>1, <3>2, <3>4
  <2>5. \A g \in Frames : d[g].state = "initial" => d[g].continuation = NoFrame
    <3>1. \A g \in Frames : c[g].state = "initial" => c[g].continuation = NoFrame
      BY DEF TaskInvOf, Linked
    <3> QED BY <1>2, <1>7, <1>8, <3>1
  <2>6. NoRing(d)
    <3>1. \A g \in Frames : d[g].state = "waiting" => d[g] = c[g]
      BY <1>2, <1>7, <1>8
    <3> QED BY <3>1 DEF TaskInvOf, NoRing
  <2>7. Valued(d)
    <3>1. ASSUME NEW g \in Frames
          PROVE  /\ d[g].state \in Begun \cup {"initial"} => d[g].value = "monostate"
                 /\ d[g].state = "done" => result(d[g]) = d[g].ended
      <4>1. CASE g = f
        BY <1>2, <1>8, <4>1 DEF Begun
      <4>2. CASE g = k
        <5>1. c[k].value = "monostate"
          BY <1>3, <1>4 DEF TaskInvOf, Valued, Begun
        <5> QED BY <1>6, <1>7, <1>8, <4>2, <5>1 DEF Same
      <4>3. CASE g # f /\ g # k
        BY <1>8, <4>3 DEF TaskInvOf, Valued
      <4> QED BY <4>1, <4>2, <4>3
    <3> QED BY <3>1 DEF Valued
  <2> QED BY <1>8, <2>2, <2>3, <2>4, <2>5, <2>6, <2>7 DEF TaskInvOf, Linked
<1> QED BY <1>2, <1>3, <1>4, <1>8, <1>9 DEF d, k, e


\* A variable is no temporary.
LEMMA VarsApart ==
    ASSUME NEW o \in TaskVars
    PROVE  o \in Objects /\ o \notin Frames
BY CoroutineAssumption DEF Objects

\* A coroutine is called.
LEMMA CallKeeps ==
    ASSUME TaskInv, NEW o \in TaskVars, NEW f \in Frames, NEW void \in BOOLEAN, Call(o, f, void)
    PROVE  TaskInv'
<1>1. /\ handle' = [handle EXCEPT ![o] = f] /\ coro' = [coro EXCEPT ![f] = New(void)] /\ got' = got
      /\ handle[o] = NoFrame /\ coro[f].state = "free"
  BY DEF Call, Allocated
<1>2. TaskInvOf(handle, coro) /\ Temporaries(handle, coro) /\ handle \in [Objects -> Frames \cup {NoFrame}]
  BY DEF TaskInv, TaskInvOf
<1>3. TaskInvOf(handle', coro')
  BY <1>1, <1>2, VarsApart, AllocateKeeps
<1>4. Temporaries(handle', coro')
  <2>1. \A g \in Frames : handle'[g] = handle[g]
    BY <1>1, <1>2, VarsApart DEF Objects
  <2>2. \A g \in Frames : coro[g].state = "waiting" => coro'[g] = coro[g]
    BY <1>1, <1>2 DEF TaskInvOf
  <2> QED BY <1>2, <2>1, <2>2 DEF Temporaries
<1> QED BY <1>1, <1>3, <1>4 DEF TaskInv

\* A task is dropped.
LEMMA DestroyKeeps ==
    ASSUME TaskInv, NEW o \in TaskVars, Destroy(o)
    PROVE  TaskInv'
<1>1. /\ handle' = [handle EXCEPT ![o] = NoFrame] /\ coro' = [coro EXCEPT ![handle[o]] = Free] /\ got' = got
      /\ handle[o] # NoFrame /\ coro[handle[o]].state \in {"initial", "done"}
  BY DEF Destroy, Settled
<1>2. TaskInvOf(handle, coro) /\ Temporaries(handle, coro) /\ handle \in [Objects -> Frames \cup {NoFrame}]
  BY DEF TaskInv, TaskInvOf
<1>3. TaskInvOf(handle', coro')
  BY <1>1, <1>2, VarsApart, FreeKeeps
<1>4. Temporaries(handle', coro')
  <2>1. \A g \in Frames : handle'[g] = handle[g]
    BY <1>1, <1>2, VarsApart DEF Objects
  <2>2. \A g \in Frames : coro[g].state = "waiting" => coro'[g] = coro[g]
    BY <1>1, <1>2 DEF TaskInvOf
  <2> QED BY <1>2, <2>1, <2>2 DEF Temporaries
<1> QED BY <1>1, <1>3, <1>4 DEF TaskInv

\* A task is assigned to another: what that one had is destroyed first.
LEMMA MoveAssignKeeps ==
    ASSUME TaskInv, NEW o \in TaskVars, NEW p \in TaskVars, MoveAssign(o, p)
    PROVE  TaskInv'
<1> DEFINE h == [handle EXCEPT ![o] = NoFrame]
<1>1. /\ o # p /\ handle' = [handle EXCEPT ![o] = handle[p], ![p] = NoFrame] /\ got' = got
      /\ coro' = [f \in Frames |-> IF f = handle[o] THEN Free ELSE coro[f]]
      /\ handle[o] # NoFrame => coro[handle[o]].state \in {"initial", "done"}
  BY DEF MoveAssign, Settled
<1>2. /\ TaskInvOf(handle, coro) /\ Temporaries(handle, coro)
      /\ handle \in [Objects -> Frames \cup {NoFrame}] /\ coro \in [Frames -> Promise]
  BY DEF TaskInv, TaskInvOf
<1>3. o \in Objects /\ p \in Objects /\ o \notin Frames /\ p \notin Frames
  BY VarsApart
<1>4. TaskInvOf(h, coro')
  <2>1. CASE handle[o] = NoFrame
    <3>1. \A f \in Frames : f # handle[o]
      BY <2>1, CoroutineAssumption
    <3>2. coro' = [f \in Frames |-> coro[f]] /\ h = handle
      BY <1>1, <1>2, <1>3, <2>1, <3>1
    <3>3. coro' = coro
      BY <1>2, <3>2
    <3> QED BY <1>2, <3>2, <3>3
  <2>2. CASE handle[o] # NoFrame
    <3>1. coro' = [coro EXCEPT ![handle[o]] = Free]
      BY <1>1, <1>2
    <3>2. coro[handle[o]].state \in {"initial", "done"}
      BY <1>1, <2>2
    <3>3. TaskInvOf(h, [coro EXCEPT ![handle[o]] = Free])
      BY <1>2, <1>3, <2>2, <3>2, FreeKeeps
    <3> QED BY <3>1, <3>3
  <2> QED BY <2>1, <2>2
<1>5. h[o] = NoFrame /\ h[p] = handle[p]
  BY <1>1, <1>2, <1>3
<1>6. handle' = [h EXCEPT ![o] = h[p], ![p] = NoFrame]
  BY <1>1, <1>2, <1>3, <1>5
<1> HIDE DEF h
<1>7. TaskInvOf(handle', coro')
  <2>1. o # p
    BY <1>1
  <2>2. TaskInvOf([h EXCEPT ![o] = h[p], ![p] = NoFrame], coro')
    BY <1>3, <1>4, <1>5, <2>1, MovedKeeps
  <2> QED BY <1>6, <2>2
<1>8. Temporaries(handle', coro')
  <2>1. \A g \in Frames : handle'[g] = handle[g]
    BY <1>1, <1>2, <1>3 DEF Objects
  <2>2. \A g \in Frames : coro[g].state = "waiting" => coro'[g] = coro[g]
    <3>1. \A g \in Frames : g = handle[o] => g # NoFrame
      BY CoroutineAssumption
    <3> QED BY <1>1, <3>1
  <2> QED BY <1>2, <2>1, <2>2 DEF Temporaries
<1> QED BY <1>1, <1>7, <1>8 DEF TaskInv

\* A coroutine is resumed from outside, is suspended or goes on.
LEMMA SwitchesKeep ==
    ASSUME TaskInv, NEW f \in Frames, NEW s \in {"running", "parked"}, coro[f].state \in {"initial", "running", "parked"},
           coro' = [coro EXCEPT ![f].state = s], UNCHANGED <<handle, got>>
    PROVE  TaskInv'
<1>1. TaskInvOf(handle, coro) /\ Temporaries(handle, coro) /\ coro \in [Frames -> Promise]
  BY DEF TaskInv, TaskInvOf
<1>2. TaskInvOf(handle', coro')
  BY <1>1, SwitchKeeps
<1>3. \A g \in Frames : coro[g].state = "waiting" => coro'[g] = coro[g]
  BY <1>1
<1> QED BY <1>1, <1>2, <1>3 DEF TaskInv, Temporaries

\* co_await of a temporary.
LEMMA AwaitCallKeeps ==
    ASSUME TaskInv, NEW f \in Frames, NEW g \in Frames, NEW void \in BOOLEAN, AwaitCall(f, g, void)
    PROVE  TaskInv'
<1> DEFINE c == [coro EXCEPT ![g] = New(void)]
<1>1. /\ coro[f].state = "running" /\ coro[g].state = "free" /\ got' = got
      /\ handle' = [handle EXCEPT ![f] = g] /\ coro' = Transfer(c, f, g)
  BY DEF AwaitCall, Allocated
<1>2. /\ TaskInvOf(handle, coro) /\ Temporaries(handle, coro)
      /\ handle \in [Objects -> Frames \cup {NoFrame}] /\ coro \in [Frames -> Promise]
  BY DEF TaskInv, TaskInvOf
<1>3. f \in Objects /\ handle[f] = NoFrame /\ f # g
  BY <1>1, <1>2 DEF Objects, Temporaries
<1>4. TaskInvOf(handle', c)
  BY <1>1, <1>2, <1>3, AllocateKeeps
<1>5. c \in [Frames -> Promise] /\ c[g].state = "initial" /\ c[f].state = "running" /\ \A k \in Frames : k # g => c[k] = coro[k]
  BY <1>1, <1>2, <1>3, Made
<1> HIDE DEF c
<1>6. TaskInvOf(handle', coro')
  BY <1>1, <1>4, <1>5, TransferKeeps
<1>7. Temporaries(handle', coro')
  <2>1. \A k \in Frames : handle'[k] = IF k = f THEN g ELSE handle[k]
    BY <1>1, <1>2 DEF Objects
  <2>2. coro'[f].state = "waiting" /\ coro'[f].awaits = g /\ \A k \in Frames : k # f /\ k # g => coro'[k] = c[k]
    <3> DEFINE d == Transfer(c, f, g)
    <3>1. /\ d \in [Frames -> Promise] /\ \A k \in Frames : k # f /\ k # g => d[k] = c[k]
          /\ d[f].state = "waiting" /\ d[f].awaits = g /\ d[f].continuation = c[f].continuation /\ Same(d[f], c[f])
          /\ d[g].state = "running" /\ d[g].continuation = f /\ Same(d[g], c[g])
      BY <1>3, <1>5, TransferIs
    <3> HIDE DEF d
    <3> QED BY <1>1, <3>1 DEF d
  <2>3. ASSUME NEW k \in Frames, handle'[k] # NoFrame
        PROVE  coro'[k].state = "waiting" /\ coro'[k].awaits = handle'[k]
    <3>1. CASE k = f
      BY <2>1, <2>2, <3>1
    <3>2. CASE k # f
      <4>1. handle'[k] = handle[k] /\ coro[k].state = "waiting" /\ coro[k].awaits = handle[k]
        BY <1>2, <2>1, <2>3, <3>2 DEF Temporaries
      <4>2. k # g
        BY <1>1, <4>1
      <4> QED BY <1>5, <2>2, <3>2, <4>1, <4>2
    <3> QED BY <3>1, <3>2
  <2> QED BY <2>3 DEF Temporaries
<1> QED BY <1>1, <1>6, <1>7 DEF TaskInv

\* co_await of a variable.
LEMMA AwaitVarKeeps ==
    ASSUME TaskInv, NEW f \in Frames, NEW o \in TaskVars, AwaitVar(f, o)
    PROVE  TaskInv'
<1> DEFINE g == handle[o]
<1>1. /\ TaskInvOf(handle, coro) /\ Temporaries(handle, coro)
      /\ handle \in [Objects -> Frames \cup {NoFrame}] /\ coro \in [Frames -> Promise]
  BY DEF TaskInv, TaskInvOf
<1>2. coro[f].state = "running" /\ g \in Frames /\ handle' = handle
  BY <1>1, VarsApart DEF AwaitVar
<1>3. CASE await_ready(g)
  <2>1. coro' = coro /\ got' = Received(coro[g]) /\ coro[g].state = "done"
    BY <1>3 DEF AwaitVar, await_ready
  <2>2. result(coro[g]) = coro[g].ended
    BY <1>1, <1>2, <2>1 DEF TaskInvOf, Valued
  <2>3. got'.is = got'.should
    BY <2>1, <2>2 DEF Received
  <2> QED BY <1>1, <1>2, <2>1, <2>3 DEF TaskInv
<1>4. CASE ~await_ready(g)
  <2>1. coro[g].state = "initial" /\ coro' = Transfer(coro, f, g) /\ got' = got
    BY <1>4 DEF AwaitVar
  <2> HIDE DEF g
  <2>2. TaskInvOf(handle', coro')
    BY <1>1, <1>2, <2>1, TransferKeeps
  <2>3. f # g
    BY <1>2, <2>1
  <2>4. \A k \in Frames : k # f /\ k # g => coro'[k] = coro[k]
    <3> DEFINE d == Transfer(coro, f, g)
    <3>1. /\ d \in [Frames -> Promise] /\ \A k \in Frames : k # f /\ k # g => d[k] = coro[k]
          /\ d[f].state = "waiting" /\ d[f].awaits = g /\ d[f].continuation = coro[f].continuation /\ Same(d[f], coro[f])
          /\ d[g].state = "running" /\ d[g].continuation = f /\ Same(d[g], coro[g])
      BY <1>1, <1>2, <2>3, TransferIs
    <3> HIDE DEF d
    <3> QED BY <2>1, <3>1 DEF d
  <2>5. Temporaries(handle', coro')
    BY <1>1, <1>2, <2>1, <2>4 DEF Temporaries
  <2> QED BY <2>1, <2>2, <2>5 DEF TaskInv
<1> QED BY <1>3, <1>4


\* A body ends: final_suspend().
LEMMA FinishKeeps ==
    ASSUME TaskInv, NEW f \in Frames, NEW how \in Ends(coro[f]), Finish(f, how)
    PROVE  TaskInv'
<1> DEFINE done == Ended(coro[f], how)
           k == coro[f].continuation
           d == [coro EXCEPT ![f] = done, ![k].state = "running", ![k].awaits = NoFrame]
<1>1. /\ TaskInvOf(handle, coro) /\ Temporaries(handle, coro) /\ got.is = got.should
      /\ handle \in [Objects -> Frames \cup {NoFrame}] /\ coro \in [Frames -> Promise]
  BY DEF TaskInv, TaskInvOf
<1>2. coro[f].state = "running" /\ coro[f] \in Promise
  BY <1>1 DEF Finish
<1>3. coro[f].value = "monostate"
  BY <1>1, <1>2 DEF TaskInvOf, Valued, Begun
<1>4. done.continuation = k /\ result(done) = done.ended
  <2>1. done \in Promise /\ done.state = "done" /\ done.continuation = k /\ done.ended = how /\ result(done) = how
    BY <1>2, <1>3, EndedIs
  <2> HIDE DEF done
  <2> QED BY <2>1
<1>5. CASE k = NoFrame
  <2>1. coro' = [coro EXCEPT ![f] = done] /\ UNCHANGED <<handle, got>>
    BY <1>4, <1>5 DEF Finish
  <2>2. TaskInvOf(handle', coro')
    BY <1>1, <1>2, <1>5, <2>1, EndAloneKeeps
  <2>3. \A g \in Frames : coro[g].state = "waiting" => coro'[g] = coro[g]
    BY <1>1, <1>2, <2>1
  <2> QED BY <1>1, <2>1, <2>2, <2>3 DEF TaskInv, Temporaries
<1>6. CASE k # NoFrame
  <2>1. /\ got' = Received(done) /\ handle' = [handle EXCEPT ![k] = NoFrame]
        /\ coro' = [coro EXCEPT ![f] = IF handle[k] = f THEN Free ELSE done,
                                ![k].state = "running", ![k].awaits = NoFrame]
    BY <1>4, <1>6 DEF Finish
  <2>2. got'.is = got'.should
    BY <1>4, <2>1 DEF Received
  <2>3. /\ k \in Frames /\ k # f /\ coro[k].state = "waiting" /\ coro[k].awaits = f
        /\ TaskInvOf(handle, d) /\ d[f] = done /\ d[f].state = "done"
        /\ \A g \in Frames : g # f /\ g # k => d[g] = coro[g]
    BY <1>1, <1>2, <1>6, EndKeeps
  <2>4. k \in Objects
    BY <2>3 DEF Objects
  <2>5. TaskInvOf(handle', coro') /\ \A g \in Frames : g # f /\ g # k => coro'[g] = coro[g]
    <3>1. CASE handle[k] = f
      <4>1. coro' = [coro EXCEPT ![f] = Free, ![k].state = "running", ![k].awaits = NoFrame]
        BY <2>1, <3>1
      <4>2. coro' = [d EXCEPT ![f] = Free]
        BY <1>1, <2>3, <4>1
      <4> HIDE DEF d
      <4>3. f # NoFrame
        BY CoroutineAssumption
      <4>4. TaskInvOf([handle EXCEPT ![k] = NoFrame], [d EXCEPT ![handle[k]] = Free])
        BY <2>3, <2>4, <3>1, <4>3, FreeKeeps
      <4>5. d \in [Frames -> Promise]
        BY <2>3 DEF TaskInvOf
      <4> QED BY <2>1, <2>3, <3>1, <4>2, <4>4, <4>5
    <3>2. CASE handle[k] # f
      <4>1. coro' = d
        BY <2>1, <3>2
      <4>2. handle[k] = NoFrame
        BY <1>1, <2>3, <3>2 DEF Temporaries
      <4>3. handle' = handle
        BY <1>1, <2>1, <2>4, <4>2
      <4> HIDE DEF d
      <4> QED BY <2>3, <4>1, <4>3
    <3> QED BY <3>1, <3>2
  <2>6. Temporaries(handle', coro')
    <3> SUFFICES ASSUME NEW g \in Frames, handle'[g] # NoFrame
                 PROVE  coro'[g].state = "waiting" /\ coro'[g].awaits = handle'[g]
      BY DEF Temporaries
    <3>1. g # k /\ handle'[g] = handle[g]
      BY <1>1, <2>1, <2>4 DEF Objects
    <3>2. coro[g].state = "waiting" /\ coro[g].awaits = handle[g]
      BY <1>1, <3>1 DEF Temporaries
    <3> QED BY <1>2, <2>5, <3>1, <3>2
  <2> QED BY <2>2, <2>5, <2>6 DEF TaskInv
<1> QED BY <1>5, <1>6

\* A step of a task keeps the invariant.
LEMMA TaskStep ==
    ASSUME TaskInv, TasksNext
    PROVE  TaskInv'
<1>1. ASSUME NEW o \in TaskVars, NEW f \in Frames, NEW void \in BOOLEAN, Call(o, f, void) PROVE TaskInv'
  BY <1>1, CallKeeps
<1>2. ASSUME NEW o \in TaskVars, Destroy(o) PROVE TaskInv'
  BY <1>2, DestroyKeeps
<1>3. ASSUME NEW o \in TaskVars, Resume(o) PROVE TaskInv'
  <2>1. handle[o] \in Frames
    BY <1>3, VarsApart DEF Resume, TaskInv, TaskInvOf
  <2> QED BY <1>3, <2>1, SwitchesKeep DEF Resume
<1>4. ASSUME NEW o \in TaskVars, NEW p \in TaskVars, MoveAssign(o, p) PROVE TaskInv'
  BY <1>4, MoveAssignKeeps
<1>5. ASSUME NEW o \in TaskVars, NEW f \in Frames, AwaitVar(f, o) PROVE TaskInv'
  BY <1>5, AwaitVarKeeps
<1>6. ASSUME NEW f \in Frames, NEW g \in Frames, NEW void \in BOOLEAN, AwaitCall(f, g, void) PROVE TaskInv'
  BY <1>6, AwaitCallKeeps
<1>7. ASSUME NEW f \in Frames, Park(f) PROVE TaskInv'
  BY <1>7, SwitchesKeep DEF Park
<1>8. ASSUME NEW f \in Frames, Unpark(f) PROVE TaskInv'
  BY <1>8, SwitchesKeep DEF Unpark
<1>9. ASSUME NEW f \in Frames, NEW how \in Ends(coro[f]), Finish(f, how) PROVE TaskInv'
  BY <1>9, FinishKeeps
<1> QED BY <1>1, <1>2, <1>3, <1>4, <1>5, <1>6, <1>7, <1>8, <1>9 DEF TasksNext, Ends


-----------------------------------------------------------------------------
(* The generator: what was yielded is what was taken, and the value that is *)
(* at hand in the body of the loop.                                         *)

Yielded(n) == <<"value", n>>
GenType == [loop : {"for", "while"}, pc : {"created", "body", "again", "ended", "thrown"}, done : BOOLEAN, full : BOOLEAN,
            value : {<<"monostate">>, <<"exception">>} \cup {Yielded(n) : n \in Nat},
            yielded : Seq(Nat), out : Seq(Nat)]

\* In the body of the loop the last value is not taken yet; elsewhere all are.
GenInv ==
    /\ gen \in GenType
    /\ gen.pc = "body" => gen.yielded = Append(gen.out, Len(gen.yielded)) /\ gen.value = Yielded(Len(gen.yielded))
    /\ gen.pc # "body" => gen.out = gen.yielded
    /\ gen.pc \in {"created", "body", "again"} => ~gen.done /\ gen.value # <<"exception">>
    /\ gen.loop = "while" /\ gen.pc = "ended" => gen.value # <<"exception">>
    /\ gen.pc = "thrown" => gen.done
    /\ gen.loop = "while" /\ gen.pc = "body" => gen.full
    /\ gen.pc \in {"created", "again"} => ~gen.full

\* A value that was yielded.
LEMMA YieldedIs ==
    ASSUME NEW n
    PROVE  Yielded(n)[2] = n /\ Yielded(n) # <<"exception">>
<1>1. Yielded(n)[1] = "value" /\ Yielded(n)[2] = n
  BY DEF Yielded
<1>2. <<"exception">>[1] = "exception"
  OBVIOUS
<1>3. "value" # "exception"
  OBVIOUS
<1> QED BY <1>1, <1>2, <1>3

\* The fields of the generator and its loop; below, one of them is set.
AllFields(r, loop, pc, done, full, value, yielded, taken) ==
    /\ r.loop = loop /\ r.pc = pc /\ r.done = done /\ r.full = full
    /\ r.value = value /\ r.yielded = yielded /\ r.out = taken

\* The position in the body.
LEMMA GenPcSet ==
    ASSUME NEW g \in GenType, NEW x
    PROVE  AllFields([g EXCEPT !.pc = x], g.loop, x, g.done, g.full, g.value, g.yielded, g.out)
BY SMT DEF GenType, AllFields

\* Whether the body has ended.
LEMMA GenDoneSet ==
    ASSUME NEW g \in GenType, NEW x
    PROVE  AllFields([g EXCEPT !.done = x], g.loop, g.pc, x, g.full, g.value, g.yielded, g.out)
BY SMT DEF GenType, AllFields

\* Whether a value is at hand.
LEMMA GenFullSet ==
    ASSUME NEW g \in GenType, NEW x
    PROVE  AllFields([g EXCEPT !.full = x], g.loop, g.pc, g.done, x, g.value, g.yielded, g.out)
BY SMT DEF GenType, AllFields

\* The value at hand.
LEMMA GenValueSet ==
    ASSUME NEW g \in GenType, NEW x
    PROVE  AllFields([g EXCEPT !.value = x], g.loop, g.pc, g.done, g.full, x, g.yielded, g.out)
BY SMT DEF GenType, AllFields

\* What was yielded.
LEMMA GenYieldedSet ==
    ASSUME NEW g \in GenType, NEW x
    PROVE  AllFields([g EXCEPT !.yielded = x], g.loop, g.pc, g.done, g.full, g.value, x, g.out)
BY SMT DEF GenType, AllFields

\* What was taken.
LEMMA GenOutSet ==
    ASSUME NEW g \in GenType, NEW x
    PROVE  AllFields([g EXCEPT !.out = x], g.loop, g.pc, g.done, g.full, g.value, g.yielded, x)
BY SMT DEF GenType, AllFields

\* What resuming the body changes.
LEMMA GenResumeIs ==
    ASSUME NEW g \in GenType, NEW r \in GenResume(g)
    PROVE  /\ r \in GenType
           /\ \/ AllFields(r, g.loop, g.pc, TRUE, g.full, g.value, g.yielded, g.out)
              \/ AllFields(r, g.loop, g.pc, TRUE, g.full, <<"exception">>, g.yielded, g.out)
              \/ AllFields(r, g.loop, g.pc, g.done, g.full, Yielded(Len(g.yielded) + 1),
                           Append(g.yielded, Len(g.yielded) + 1), g.out)
<1> DEFINE n == Len(g.yielded) + 1
           d == [g EXCEPT !.done = TRUE]
           v == [g EXCEPT !.value = Yielded(n)]
<1>1. r = d \/ r = [d EXCEPT !.value = <<"exception">>] \/ r = [v EXCEPT !.yielded = Append(@, Len(@) + 1)]
  BY DEF GenResume, Yielded
<1>2. g.yielded \in Seq(Nat)
  BY DEF GenType
<1>3. n \in Nat /\ Append(g.yielded, n) \in Seq(Nat)
  BY <1>2, SMT
<1>4. d \in GenType /\ AllFields(d, g.loop, g.pc, TRUE, g.full, g.value, g.yielded, g.out)
  <2>1. d \in GenType
    BY DEF GenType
  <2> QED BY <2>1, GenDoneSet
<1>5. v \in GenType /\ AllFields(v, g.loop, g.pc, g.done, g.full, Yielded(n), g.yielded, g.out)
  <2>1. Yielded(n) \in {<<"monostate">>, <<"exception">>} \cup {Yielded(m) : m \in Nat}
    BY <1>3
  <2>2. v \in GenType
    BY <2>1 DEF GenType
  <2> QED BY <2>2, GenValueSet
<1> HIDE DEF n
<1>6. CASE r = [d EXCEPT !.value = <<"exception">>]
  <2> HIDE DEF d
  <2>1. r \in GenType
    BY <1>4, <1>6 DEF GenType
  <2>2. AllFields(r, d.loop, d.pc, d.done, d.full, <<"exception">>, d.yielded, d.out)
    BY <1>4, <1>6, GenValueSet
  <2> QED BY <1>4, <2>1, <2>2 DEF AllFields
<1>7. CASE r = [v EXCEPT !.yielded = Append(@, Len(@) + 1)]
  <2> HIDE DEF v
  <2>1. r = [v EXCEPT !.yielded = Append(g.yielded, n)]
    BY <1>5, <1>7 DEF AllFields, n
  <2>2. r \in GenType
    BY <1>3, <1>5, <2>1 DEF GenType
  <2>3. AllFields(r, v.loop, v.pc, v.done, v.full, v.value, Append(g.yielded, n), v.out)
    BY <1>5, <2>1, GenYieldedSet
  <2> QED BY <1>5, <2>2, <2>3 DEF AllFields, n
<1> QED BY <1>1, <1>4, <1>6, <1>7

\* The loop goes on or ends.
LEMMA LoopGoesOnIs ==
    ASSUME NEW g \in GenType
    PROVE  /\ LoopGoesOn(g) \in GenType
           /\ AllFields(LoopGoesOn(g), g.loop, IF g.done THEN "ended" ELSE "body", g.done, g.full, g.value, g.yielded, g.out)
<1>1. LoopGoesOn(g) \in GenType
  BY DEF GenType, LoopGoesOn
<1> QED BY <1>1, GenPcSet DEF LoopGoesOn

\* The value at hand is taken.
LEMMA TakenIs ==
    ASSUME GenInv, gen.pc = "body"
    PROVE  Append(gen.out, gen.value[2]) = gen.yielded /\ gen.yielded \in Seq(Nat) /\ gen.out \in Seq(Nat) /\ ~gen.done
<1>1. gen.yielded \in Seq(Nat) /\ gen.out \in Seq(Nat)
  BY DEF GenInv, GenType
<1> QED BY <1>1, YieldedIs DEF GenInv


\* A value is yielded after all those before were taken.
LEMMA Appended ==
    ASSUME NEW y \in Seq(Nat)
    PROVE  Append(y, Len(y) + 1) = Append(y, Len(Append(y, Len(y) + 1))) /\ Len(Append(y, Len(y) + 1)) = Len(y) + 1
<1>1. Len(Append(y, Len(y) + 1)) = Len(y) + 1
  BY SMT
<1> QED BY <1>1

\* The loop goes on with what the body did, every value before being taken.
LEMMA Advances ==
    ASSUME NEW g \in GenType, g.out = g.yielded, ~g.done, NEW r \in GenResume(g), NEW x \in GenType, NEW full,
           AllFields(x, r.loop, r.pc, r.done, full, r.value, r.yielded, r.out),
           g.loop = "while" => full /\ r.value # <<"exception">>,
           gen' = LoopGoesOn(x)
    PROVE  GenInv'
<1> DEFINE n == Len(g.yielded) + 1
           y == Append(g.yielded, n)
<1>1. /\ gen' \in GenType
      /\ AllFields(gen', x.loop, IF x.done THEN "ended" ELSE "body", x.done, x.full, x.value, x.yielded, x.out)
  BY LoopGoesOnIs
<1>2. gen' \in GenType /\ AllFields(gen', r.loop, IF r.done THEN "ended" ELSE "body", r.done, full, r.value, r.yielded, r.out)
  BY <1>1 DEF AllFields
<1>3. \/ AllFields(r, g.loop, g.pc, TRUE, g.full, g.value, g.yielded, g.out)
      \/ AllFields(r, g.loop, g.pc, TRUE, g.full, <<"exception">>, g.yielded, g.out)
      \/ AllFields(r, g.loop, g.pc, g.done, g.full, Yielded(n), y, g.out)
  BY GenResumeIs
<1>4. g.yielded \in Seq(Nat)
  BY DEF GenType
<1>5. y = Append(g.yielded, Len(y)) /\ Len(y) = n
  BY <1>4, Appended
<1> HIDE DEF y, n
<1>6. CASE r.done
  <2>1. gen'.pc = "ended" /\ gen'.out = gen'.yielded /\ (gen'.loop = "while" => gen'.value # <<"exception">>)
    BY <1>2, <1>3, <1>6 DEF AllFields
  <2> QED BY <1>2, <2>1 DEF GenInv
<1>7. CASE ~r.done
  <2>1. AllFields(r, g.loop, g.pc, g.done, g.full, Yielded(n), y, g.out)
    BY <1>3, <1>7 DEF AllFields
  <2>2. /\ gen'.pc = "body" /\ ~gen'.done /\ gen'.out = g.yielded /\ gen'.yielded = y /\ gen'.value = Yielded(n)
        /\ gen'.loop = "while" => gen'.full
    BY <1>2, <1>7, <2>1 DEF AllFields
  <2> QED BY <1>2, <1>5, <2>2, YieldedIs DEF GenInv
<1> QED BY <1>6, <1>7

\* begin().
LEMMA BeginKeeps ==
    ASSUME GenInv, Begin
    PROVE  GenInv'
<1>1. gen \in GenType /\ gen.loop # "while" /\ gen.out = gen.yielded /\ ~gen.done
  BY DEF Begin, GenInv
<1>2. PICK r \in GenResume(gen) : gen' = LoopGoesOn(r)
  BY DEF Begin
<1>3. r \in GenType
  BY <1>1, GenResumeIs
<1>4. AllFields(r, r.loop, r.pc, r.done, r.full, r.value, r.yielded, r.out)
  BY DEF AllFields
<1> QED BY <1>1, <1>2, <1>3, <1>4, Advances

\* *it and ++it.
LEMMA IterateKeeps ==
    ASSUME GenInv, Iterate
    PROVE  GenInv'
<1> DEFINE g == [gen EXCEPT !.out = gen.yielded]
<1>1. gen \in GenType /\ gen.loop = "for" /\ gen.pc = "body"
  BY DEF Iterate, GenInv
<1>2. Append(gen.out, gen.value[2]) = gen.yielded /\ gen.yielded \in Seq(Nat) /\ ~gen.done
  BY <1>1, TakenIs
<1>3. g \in GenType
  BY <1>1, <1>2 DEF GenType
<1>4. AllFields(g, gen.loop, gen.pc, gen.done, gen.full, gen.value, gen.yielded, gen.yielded)
  BY <1>1, GenOutSet
<1>5. [gen EXCEPT !.out = Append(@, gen.value[2])] = g
  BY <1>2
<1>6. PICK r \in GenResume(g) : gen' = LoopGoesOn(r)
  BY <1>5 DEF Iterate
<1> HIDE DEF g
<1>7. r \in GenType
  BY <1>3, GenResumeIs
<1>8. AllFields(r, r.loop, r.pc, r.done, r.full, r.value, r.yielded, r.out)
  BY DEF AllFields
<1>9. g.out = g.yielded /\ ~g.done /\ g.loop # "while"
  BY <1>1, <1>2, <1>4 DEF AllFields
<1> QED BY <1>3, <1>6, <1>7, <1>8, <1>9, Advances

\* operator bool().
LEMMA TestKeeps ==
    ASSUME GenInv, Test
    PROVE  GenInv'
<1>1. gen \in GenType /\ gen.loop = "while" /\ gen.out = gen.yielded /\ ~gen.done /\ ~gen.full /\ gen.pc \in {"created", "again"}
  BY DEF Test, GenInv
<1> DEFINE filled(r) == IF r.value = <<"exception">> THEN [r EXCEPT !.pc = "thrown"] ELSE [r EXCEPT !.full = TRUE]
<1>2. PICK r \in GenResume(gen) : gen' = IF filled(r).pc = "thrown" THEN filled(r) ELSE LoopGoesOn(filled(r))
  BY <1>1 DEF Test, fill
<1> DEFINE x == filled(r)
<1>3. r \in GenType /\ r.loop = gen.loop /\ r.pc = gen.pc
  BY <1>1, GenResumeIs DEF AllFields
<1>4. CASE r.value = <<"exception">>
  <2>1. x = [r EXCEPT !.pc = "thrown"]
    BY <1>4
  <2> HIDE DEF filled
  <2>2. x \in GenType
    BY <1>3, <2>1 DEF GenType
  <2>3. AllFields(x, r.loop, "thrown", r.done, r.full, r.value, r.yielded, r.out)
    BY <1>3, <2>1, GenPcSet
  <2>4. gen' = x
    BY <1>2, <2>3 DEF AllFields
  <2>5. r.done /\ r.out = r.yielded
    <3>1. \/ AllFields(r, gen.loop, gen.pc, TRUE, gen.full, gen.value, gen.yielded, gen.out)
          \/ AllFields(r, gen.loop, gen.pc, TRUE, gen.full, <<"exception">>, gen.yielded, gen.out)
          \/ AllFields(r, gen.loop, gen.pc, gen.done, gen.full, Yielded(Len(gen.yielded) + 1),
                       Append(gen.yielded, Len(gen.yielded) + 1), gen.out)
      BY <1>1, GenResumeIs
    <3> QED BY <1>1, <1>4, <3>1, YieldedIs DEF AllFields
  <2> QED BY <2>2, <2>3, <2>4, <2>5 DEF GenInv, AllFields
<1>5. CASE r.value # <<"exception">>
  <2>1. x = [r EXCEPT !.full = TRUE]
    BY <1>5
  <2> HIDE DEF filled
  <2>2. x \in GenType
    BY <1>3, <2>1 DEF GenType
  <2>3. AllFields(x, r.loop, r.pc, r.done, TRUE, r.value, r.yielded, r.out)
    BY <1>3, <2>1, GenFullSet
  <2>4. gen' = LoopGoesOn(x)
    BY <1>1, <1>2, <1>3, <2>3 DEF AllFields
  <2> QED BY <1>1, <1>5, <2>2, <2>3, <2>4, Advances
<1> QED BY <1>4, <1>5

\* operator()().
LEMMA TakeKeeps ==
    ASSUME GenInv, Take
    PROVE  GenInv'
<1> DEFINE e == [gen EXCEPT !.full = FALSE]
           o == [e EXCEPT !.out = gen.yielded]
           p == [o EXCEPT !.pc = "again"]
<1>1. gen \in GenType /\ gen.loop = "while" /\ gen.pc = "body" /\ gen.full /\ ~gen.done /\ gen.value # <<"exception">>
  BY DEF Take, GenInv
<1>2. Append(gen.out, gen.value[2]) = gen.yielded /\ gen.yielded \in Seq(Nat)
  BY <1>1, TakenIs
<1>3. gen' = [gen EXCEPT !.full = FALSE, !.out = Append(@, gen.value[2]), !.pc = "again"]
  BY <1>1 DEF Take, fill
<1>4. e \in GenType
  BY <1>1 DEF GenType
<1>5. AllFields(e, gen.loop, gen.pc, gen.done, FALSE, gen.value, gen.yielded, gen.out)
  BY <1>1, GenFullSet
<1>6. gen' = [e EXCEPT !.out = Append(e.out, gen.value[2]), !.pc = "again"]
  BY <1>3
<1> HIDE DEF e
<1>7. o \in GenType
  BY <1>2, <1>4 DEF GenType
<1>8. AllFields(o, e.loop, e.pc, e.done, e.full, e.value, e.yielded, gen.yielded)
  BY <1>4, GenOutSet
<1>9. gen' = p
  BY <1>2, <1>5, <1>6 DEF AllFields
<1> HIDE DEF o
<1>10. p \in GenType
  BY <1>7 DEF GenType
<1>11. AllFields(p, o.loop, "again", o.done, o.full, o.value, o.yielded, o.out)
  BY <1>7, GenPcSet
<1>12. AllFields(gen', gen.loop, "again", gen.done, FALSE, gen.value, gen.yielded, gen.yielded)
  BY <1>5, <1>8, <1>9, <1>11 DEF AllFields
<1> QED BY <1>1, <1>9, <1>10, <1>12 DEF GenInv, AllFields


-----------------------------------------------------------------------------

\* A step keeps both invariants.
LEMMA CoroutinesStep == TaskInv /\ GenInv /\ [TasksNext \/ GeneratorNext]_coroutineVars => TaskInv' /\ GenInv'
<1> SUFFICES ASSUME TaskInv, GenInv, [TasksNext \/ GeneratorNext]_coroutineVars PROVE TaskInv' /\ GenInv'
  OBVIOUS
<1>1. gen' = gen => GenInv'
  BY DEF GenInv
<1>2. UNCHANGED <<handle, coro, got>> => TaskInv'
  BY DEF TaskInv
<1>3. CASE TasksNext
  <2>1. gen' = gen
    BY <1>3 DEF TasksNext, Call, Destroy, Resume, MoveAssign, AwaitVar, AwaitCall, Park, Unpark, Finish
  <2> QED BY <1>1, <1>3, <2>1, TaskStep
<1>4. CASE GeneratorNext
  BY <1>2, <1>4, BeginKeeps, IterateKeeps, TestKeeps, TakeKeeps DEF GeneratorNext
<1>5. CASE UNCHANGED coroutineVars
  BY <1>1, <1>2, <1>5 DEF coroutineVars
<1> QED BY <1>3, <1>4, <1>5

\* At the start there are no coroutines, and the generator has not been used.
LEMMA CoroutinesStart ==
    ASSUME CoroutinesInit
    PROVE  TaskInv /\ GenInv
<1>1. Free \in Promise /\ Free.state = "free"
  BY Made
<1>2. /\ handle \in [Objects -> Frames \cup {NoFrame}] /\ \A o \in Objects : handle[o] = NoFrame
      /\ coro \in [Frames -> Promise] /\ \A f \in Frames : coro[f].state = "free"
      /\ got.is = got.should
  BY <1>1 DEF CoroutinesInit
<1>3. Owns(handle, coro) /\ Temporaries(handle, coro)
  <2>1. Frames \subseteq Objects
    BY DEF Objects
  <2> QED BY <1>2, <2>1 DEF Owns, Temporaries
<1>4. Linked(coro) /\ NoRing(coro) /\ Valued(coro)
  BY <1>2 DEF Linked, NoRing, Valued, Begun
<1>5. TaskInv
  BY <1>2, <1>3, <1>4 DEF TaskInv, TaskInvOf
<1>6. PICK loop \in {"for", "while"} :
        gen = [loop |-> loop, pc |-> "created", done |-> FALSE, full |-> FALSE, value |-> <<"monostate">>,
               yielded |-> <<>>, out |-> <<>>]
  BY DEF CoroutinesInit
<1>7. <<>> \in Seq(Nat)
  BY SMT
<1>8. gen \in GenType
  BY <1>6, <1>7 DEF GenType
<1>9. gen.pc = "created" /\ gen.out = gen.yielded /\ gen.done = FALSE /\ gen.full = FALSE /\ gen.value = <<"monostate">>
  BY <1>6
<1>10. <<"monostate">> # <<"exception">>
  <2>1. <<"monostate">>[1] = "monostate" /\ <<"exception">>[1] = "exception"
    OBVIOUS
  <2> QED BY <2>1
<1>11. GenInv
  BY <1>8, <1>9, <1>10 DEF GenInv
<1> QED BY <1>5, <1>11

INSTANCE FiniteSetTheorems

\* coro::task and coro::generator: however bodies call, wait for, move and drop tasks, every
\* frame has one owner, who waits is resumed by what it waits for, no ring of coroutines
\* waits, and results and yielded values come back as they were given.
THEOREM TasksStaySound == CoroutinesSpec => []TasksSound
<1>1. CoroutinesInit => TaskInv /\ GenInv
  BY CoroutinesStart
<1>2. TaskInv /\ GenInv => TasksSound
  <2> SUFFICES ASSUME TaskInv, GenInv PROVE TasksSound
    OBVIOUS
  <2>1. TaskInvOf(handle, coro) /\ got.is = got.should
    BY DEF TaskInv
  <2>2. ASSUME NEW f \in Frames
        PROVE  Cardinality({o \in Objects : handle[o] = f}) = IF coro[f].state = "free" THEN 0 ELSE 1
    <3> DEFINE H == {o \in Objects : handle[o] = f}
    <3>1. f # NoFrame
      BY CoroutineAssumption
    <3>2. CASE coro[f].state = "free"
      <4>1. ASSUME NEW o \in Objects, handle[o] = f PROVE FALSE
        <5>1. handle[o] # NoFrame
          BY <3>1, <4>1
        <5>2. coro[handle[o]].state # "free"
          BY <2>1, <5>1, Owned
        <5> QED BY <3>2, <4>1, <5>2
      <4>2. H = {}
        BY <4>1
      <4> QED BY <3>2, <4>2, FS_EmptySet
    <3>3. CASE coro[f].state # "free"
      <4>1. PICK o \in Objects : handle[o] = f
        BY <2>1, <3>3, HasOwner
      <4>2. \A q \in Objects : handle[q] = handle[o] => q = o
        BY <2>1, <3>1, <4>1, Owned
      <4>3. H = {o}
        BY <4>1, <4>2
      <4> QED BY <3>3, <4>3, FS_Singleton
    <3> QED BY <3>2, <3>3
  <2>3. \A f \in Waiting :
          /\ WaitsFor(f) \in Frames
          /\ coro[WaitsFor(f)].continuation = f
          /\ coro[WaitsFor(f)].state \in {"running", "parked", "waiting"}
    BY <2>1 DEF TaskInvOf, Linked, Begun, Waiting, WaitsFor
  <2>4. \A S \in SUBSET Waiting : S # {} => \E f \in S : WaitsFor(f) \notin S
    BY <2>1 DEF TaskInvOf, NoRing, Waiting, WaitsFor
  <2>5. /\ gen.pc = "ended" => gen.out = gen.yielded /\ (gen.loop = "while" => gen.value # <<"exception">>)
        /\ gen.pc = "thrown" => gen.out = gen.yielded /\ gen.done
    BY DEF GenInv
  <2> QED BY <2>1, <2>2, <2>3, <2>4, <2>5 DEF TasksSound
<1> QED BY <1>1, <1>2, CoroutinesStep, PTL DEF CoroutinesSpec

-----------------------------------------------------------------------------
(* cache.                                                                  *)

INSTANCE SequenceTheorems
INSTANCE WellFoundedInduction

Entry == [key : Keys, val : CacheValues, visited : BOOLEAN]
KeysOf(list) == {list[i].key : i \in 1..Len(list)}
KeysOnce(list) == \A i, j \in 1..Len(list) : list[i].key = list[j].key => i = j

\* The inductive invariant: CacheSound, and what the list is made of.  That no two
\* entries have the same key is what makes the entry erased the only one of its key.
CacheInv ==
    /\ entries \in Seq(Entry) /\ KeysOnce(entries)
    /\ Len(entries) =< capacity
    /\ lookup = KeysOf(entries) /\ IsFiniteSet(lookup) /\ Cardinality(lookup) = Len(entries)
    /\ \A i \in 1..Len(entries) : entries[i].val = latest[entries[i].key]
    /\ hand \in lookup \cup {End, Gone}
    /\ unfair = FALSE

\* What is left of a list without one element.
LEMMA WithoutOne ==
    ASSUME NEW S, NEW q \in Seq(S), NEW i \in 1..Len(q)
    PROVE  /\ Without(q, i) \in Seq(S) /\ Len(Without(q, i)) = Len(q) - 1
           /\ \A j \in 1..Len(q) - 1 : Without(q, i)[j] = IF j < i THEN q[j] ELSE q[j + 1]
<1> DEFINE a == SubSeq(q, 1, i - 1)
           b == SubSeq(q, i + 1, Len(q))
<1>1. /\ a \in Seq(S) /\ Len(a) = i - 1 /\ \A j \in 1..i - 1 : a[j] = q[j]
      /\ Len(q) \in Nat /\ i \in Nat \ {0} /\ i =< Len(q)
  BY SMT
<1>2. b \in Seq(S) /\ Len(b) = Len(q) - i /\ \A j \in 1..Len(q) - i : b[j] = q[j + i]
  BY SMT
<1> HIDE DEF a, b
<1>3. a \o b \in Seq(S) /\ Len(a \o b) = Len(q) - 1
  <2>1. a \o b \in Seq(S) /\ Len(a \o b) = Len(a) + Len(b)
    BY <1>1, <1>2, ConcatProperties
  <2> QED BY <1>1, <1>2, <2>1, SMT
<1>4. \A j \in 1..Len(q) - 1 : (a \o b)[j] = IF j < i THEN a[j] ELSE b[j - (i - 1)]
  <2>1. \A j \in 1..Len(a) + Len(b) : (a \o b)[j] = IF j =< Len(a) THEN a[j] ELSE b[j - Len(a)]
    BY <1>1, <1>2, ConcatProperties
  <2> HIDE DEF a, b
  <2> QED BY <1>1, <1>2, <2>1, SMT
<1>5. \A j \in 1..Len(q) - 1 : (a \o b)[j] = IF j < i THEN q[j] ELSE q[j + 1]
  <2> TAKE j \in 1..Len(q) - 1
  <2>1. CASE j < i
    BY <1>1, <1>4, <2>1, SMT
  <2>2. CASE ~(j < i)
    <3>1. j - (i - 1) \in 1..Len(q) - i /\ (j - (i - 1)) + i = j + 1
      BY <1>1, <2>2, SMT
    <3> QED BY <1>2, <1>4, <2>2, <3>1
  <2> QED BY <2>1, <2>2
<1> QED BY <1>3, <1>5 DEF Without, a, b

\* Without an entry, its key is gone and no other.
LEMMA EntryRemoved ==
    ASSUME NEW q \in Seq(Entry), KeysOnce(q), NEW i \in 1..Len(q)
    PROVE  LET w == Without(q, i)
           IN  /\ w \in Seq(Entry) /\ Len(w) = Len(q) - 1 /\ KeysOnce(w)
               /\ KeysOf(w) = KeysOf(q) \ {q[i].key}
               /\ \A j \in 1..Len(w) : \E m \in 1..Len(q) : m # i /\ w[j] = q[m]
<1> DEFINE w == Without(q, i)
<1>1. /\ w \in Seq(Entry) /\ Len(w) = Len(q) - 1
      /\ \A j \in 1..Len(q) - 1 : w[j] = IF j < i THEN q[j] ELSE q[j + 1]
  BY WithoutOne
<1>2. Len(q) \in Nat /\ i \in Nat /\ 1 =< i /\ i =< Len(q)
  BY SMT
<1> HIDE DEF w
<1> DEFINE at(j) == IF j < i THEN j ELSE j + 1
<1>3. \A j \in 1..Len(w) : at(j) \in 1..Len(q) /\ at(j) # i /\ w[j] = q[at(j)]
  BY <1>1, <1>2, SMT
<1>4. \A j, m \in 1..Len(w) : at(j) = at(m) => j = m
  BY <1>1, <1>2, SMT
<1>5. \A m \in 1..Len(q) : m # i => \E j \in 1..Len(w) : at(j) = m
  <2> TAKE m \in 1..Len(q)
  <2> HAVE m # i
  <2>1. CASE m < i
    <3>1. m \in 1..Len(w) /\ at(m) = m
      BY <1>1, <1>2, <2>1, SMT
    <3> QED BY <3>1
  <2>2. CASE ~(m < i)
    <3>1. m - 1 \in 1..Len(w) /\ at(m - 1) = m
      BY <1>1, <1>2, <2>2, SMT
    <3> QED BY <3>1
  <2> QED BY <2>1, <2>2
<1> HIDE DEF at
<1>6. KeysOnce(w)
  BY <1>3, <1>4 DEF KeysOnce
<1>7. KeysOf(w) = KeysOf(q) \ {q[i].key}
  <2>1. ASSUME NEW k \in KeysOf(w) PROVE k \in KeysOf(q) \ {q[i].key}
    <3>1. PICK j \in 1..Len(w) : k = w[j].key
      BY DEF KeysOf
    <3> QED BY <1>3, <3>1 DEF KeysOf, KeysOnce
  <2>2. ASSUME NEW k \in KeysOf(q), k # q[i].key PROVE k \in KeysOf(w)
    <3>1. PICK m \in 1..Len(q) : k = q[m].key
      BY DEF KeysOf
    <3>2. PICK j \in 1..Len(w) : at(j) = m
      BY <1>5, <2>2, <3>1
    <3> QED BY <1>3, <3>1, <3>2 DEF KeysOf
  <2> QED BY <2>1, <2>2
<1> QED BY <1>1, <1>3, <1>6, <1>7 DEF w

\* An entry in front of the list.
LEMMA EntryAdded ==
    ASSUME NEW q \in Seq(Entry), KeysOnce(q), NEW e \in Entry, e.key \notin KeysOf(q)
    PROVE  LET w == <<e>> \o q
           IN  /\ w \in Seq(Entry) /\ Len(w) = Len(q) + 1 /\ KeysOnce(w)
               /\ KeysOf(w) = KeysOf(q) \cup {e.key}
               /\ \A j \in 1..Len(w) : w[j] = e \/ \E m \in 1..Len(q) : w[j] = q[m]
<1> DEFINE w == <<e>> \o q
<1>1. /\ w \in Seq(Entry) /\ Len(w) = Len(q) + 1 /\ Len(q) \in Nat /\ w[1] = e
      /\ \A j \in 1..Len(q) : w[j + 1] = q[j]
  BY SMT
<1> HIDE DEF w
<1>2. \A j \in 1..Len(w) : j = 1 \/ (j - 1 \in 1..Len(q) /\ (j - 1) + 1 = j)
  BY <1>1, SMT
<1>3. 1 \in 1..Len(w) /\ \A m \in 1..Len(q) : m + 1 \in 1..Len(w)
  BY <1>1, SMT
<1>4. \A j \in 1..Len(w) : j = 1 \/ (j - 1 \in 1..Len(q) /\ w[j] = q[j - 1])
  <2> TAKE j \in 1..Len(w)
  <2>1. CASE j # 1
    <3>1. j - 1 \in 1..Len(q) /\ (j - 1) + 1 = j
      BY <1>2, <2>1
    <3>2. w[(j - 1) + 1] = q[j - 1]
      BY <1>1, <3>1
    <3> QED BY <3>1, <3>2
  <2> QED BY <2>1
<1>5. \A i, j \in 1..Len(w) : i - 1 = j - 1 => i = j
  BY <1>1, SMT
<1>6. KeysOnce(w)
  <2> SUFFICES ASSUME NEW i \in 1..Len(w), NEW j \in 1..Len(w), w[i].key = w[j].key PROVE i = j
    BY DEF KeysOnce
  <2>0. \A m \in 1..Len(w) : m # 1 => w[m].key \in KeysOf(q)
    BY <1>4 DEF KeysOf
  <2>1. CASE i = 1
    BY <1>1, <2>0, <2>1
  <2>2. CASE j = 1
    BY <1>1, <2>0, <2>2
  <2>3. CASE i # 1 /\ j # 1
    <3>1. i - 1 \in 1..Len(q) /\ j - 1 \in 1..Len(q) /\ q[i - 1].key = q[j - 1].key
      BY <1>4, <2>3
    <3>2. i - 1 = j - 1
      BY <3>1 DEF KeysOnce
    <3> QED BY <1>5, <3>2
  <2> QED BY <2>1, <2>2, <2>3
<1>7. KeysOf(w) = KeysOf(q) \cup {e.key}
  <2>1. ASSUME NEW k \in KeysOf(w) PROVE k \in KeysOf(q) \cup {e.key}
    <3>1. PICK j \in 1..Len(w) : k = w[j].key
      BY DEF KeysOf
    <3> QED BY <1>1, <1>4, <3>1 DEF KeysOf
  <2>2. ASSUME NEW k \in KeysOf(q) PROVE k \in KeysOf(w)
    <3>1. PICK m \in 1..Len(q) : k = q[m].key
      BY DEF KeysOf
    <3>2. m + 1 \in 1..Len(w) /\ w[m + 1] = q[m]
      BY <1>1, <1>3
    <3> QED BY <3>1, <3>2 DEF KeysOf
  <2>3. e.key \in KeysOf(w)
    BY <1>1, <1>3 DEF KeysOf
  <2> QED BY <2>1, <2>2, <2>3
<1> QED BY <1>1, <1>4, <1>6, <1>7 DEF w

\* A change that is not of keys.
LEMMA KeysStay ==
    ASSUME NEW p \in Seq(Entry), NEW q \in Seq(Entry), Len(p) = Len(q),
           \A i \in 1..Len(q) : p[i].key = q[i].key
    PROVE  KeysOf(p) = KeysOf(q) /\ (KeysOnce(q) => KeysOnce(p))
BY DEF KeysOf, KeysOnce

\* Position() is where the key is.
LEMMA PositionIs ==
    ASSUME CacheInv, NEW k \in lookup
    PROVE  Position(k) \in 1..Len(entries) /\ entries[Position(k)].key = k /\ k \in Keys
<1>1. DOMAIN entries = 1..Len(entries)
  BY SMT DEF CacheInv
<1>2. PICK i \in 1..Len(entries) : entries[i].key = k
  BY DEF CacheInv, KeysOf
<1>3. entries[i] \in Entry
  BY SMT DEF CacheInv
<1>4. k \in Keys
  BY <1>2, <1>3, SMT DEF Entry
<1> QED BY <1>1, <1>2, <1>4 DEF Position


\* A set of numbers has a least one.
LEMMA LeastOf ==
    ASSUME NEW S, S \subseteq Nat, S # {}
    PROVE  \E x \in S : \A y \in S : ~(y < x)
<1> DEFINE R == OpToRel(<, Nat)
<1>1. IsWellFoundedOn(R, Nat)
  BY NatLessThanWellFounded
<1>2. R = {ss \in Nat \X Nat : ss[1] < ss[2]}
  BY DEF OpToRel
<1> HIDE DEF R
<1>3. PICK x \in S : \A y \in S : <<y, x>> \notin R
  BY <1>1, WFMin
<1>4. ASSUME NEW y \in S, y < x PROVE FALSE
  <2>1. <<y, x>> \in Nat \X Nat /\ <<y, x>>[1] < <<y, x>>[2]
    BY <1>4
  <2> QED BY <1>2, <1>3, <2>1
<1> QED BY <1>4

\* The hand goes round a list of l entries: from s it meets every one.
LEMMA Round ==
    ASSUME NEW l \in Nat \ {0}, NEW s \in 1..l
    PROVE  /\ \A n \in Nat : ((s - 1 - n) % l) + 1 \in 1..l
           /\ \A i \in 1..l : \E n \in 0..l - 1 : ((s - 1 - n) % l) + 1 = i
<1>1. \A n \in Nat : (s - 1 - n) % l \in 0..l - 1
  BY SMT
<1>2. ASSUME NEW i \in 1..l PROVE \E n \in 0..l - 1 : ((s - 1 - n) % l) + 1 = i
  <2>1. CASE i =< s
    <3>1. s - i \in 0..l - 1 /\ s - 1 - (s - i) = i - 1
      BY <2>1, SMT
    <3>2. (i - 1) % l = i - 1 /\ (i - 1) + 1 = i
      BY SMT
    <3> QED BY <3>1, <3>2
  <2>2. CASE ~(i =< s)
    <3>1. s - i + l \in 0..l - 1 /\ s - 1 - (s - i + l) = i - 1 - l
      BY <2>2, SMT
    <3>2. (i - 1 - l) % l = i - 1 /\ (i - 1) + 1 = i
      BY SMT
    <3> QED BY <3>1, <3>2
  <2> QED BY <2>1, <2>2
<1>3. \A n \in Nat : ((s - 1 - n) % l) + 1 \in 1..l
  BY <1>1, SMT
<1> QED BY <1>2, <1>3

\* The entry that is evicted: one that was not visited, or any when all were.
LEMMA VictimIs ==
    ASSUME CacheInv, entries # <<>>, hand # Gone
    PROVE  /\ Met(Steps) \in 1..Len(entries)
           /\ entries[Met(Steps)].visited => \A i \in 1..Len(entries) : entries[i].visited
<1> DEFINE l == Len(entries)
<1>1. l \in Nat \ {0}
  BY SMT DEF CacheInv
<1>2. Start \in 1..l
  <2>1. CASE hand = End
    BY <1>1, <2>1, SMT DEF Start
  <2>2. CASE hand # End
    <3>1. hand \in lookup
      BY <2>2 DEF CacheInv
    <3> QED BY <2>2, <3>1, PositionIs DEF Start
  <2> QED BY <2>1, <2>2
<1>3. /\ \A n \in Nat : Met(n) \in 1..l
      /\ \A i \in 1..l : \E n \in 0..l - 1 : Met(n) = i
  BY <1>1, <1>2, Round DEF Met
<1> DEFINE T == {n \in 0..l : Stops(n)}
<1>4. T \subseteq Nat /\ l \in T
  <2>1. l \in 0..l /\ 0..l \subseteq Nat
    BY <1>1, SMT
  <2> QED BY <2>1 DEF Stops
<1>5. PICK x \in T : \A y \in T : ~(y < x)
  <2>1. T # {}
    BY <1>4
  <2> HIDE DEF T
  <2> QED BY <1>4, <2>1, LeastOf
<1>6. x \in 0..l /\ Stops(x) /\ \A m \in 0..x - 1 : ~Stops(m)
  <2>1. x \in 0..l /\ \A m \in 0..x - 1 : m \in 0..l /\ m < x
    BY <1>1, SMT
  <2> QED BY <1>5, <2>1
<1>7. Steps \in 0..l /\ Stops(Steps) /\ \A m \in 0..Steps - 1 : ~Stops(m)
  BY <1>6 DEF Steps
<1>8. Steps \in Nat
  BY <1>1, <1>7, SMT
<1>9. ASSUME entries[Met(Steps)].visited PROVE \A i \in 1..l : entries[i].visited
  <2>1. Steps = l
    BY <1>7, <1>9 DEF Stops
  <2>2. \A n \in 0..l - 1 : entries[Met(n)].visited
    BY <1>7, <2>1 DEF Stops
  <2> QED BY <1>3, <2>2
<1> QED BY <1>3, <1>8, <1>9


\* What entries and the table have in common.
LEMMA EntryFacts ==
    ASSUME CacheInv
    PROVE  /\ Len(entries) \in Nat /\ DOMAIN entries = 1..Len(entries)
           /\ \A i \in 1..Len(entries) : entries[i] \in Entry /\ entries[i].key \in lookup
<1>1. Len(entries) \in Nat /\ DOMAIN entries = 1..Len(entries) /\ \A i \in 1..Len(entries) : entries[i] \in Entry
  BY SMT DEF CacheInv
<1> QED BY <1>1 DEF CacheInv, KeysOf

\* The hand goes on to the entry before one that is taken out.
LEMMA BeforeIs ==
    ASSUME CacheInv, NEW i \in 1..Len(entries)
    PROVE  Before(i) \in (lookup \ {entries[i].key}) \cup {End, Gone}
<1>1. CASE i = 1
  BY <1>1 DEF Before
<1>2. CASE i # 1
  <2>1. i - 1 \in 1..Len(entries) /\ i - 1 # i
    BY <1>2, EntryFacts, SMT
  <2>2. entries[i - 1].key \in lookup /\ entries[i - 1].key # entries[i].key
    BY <2>1, EntryFacts DEF CacheInv, KeysOnce
  <2> QED BY <1>2, <2>2 DEF Before
<1> QED BY <1>1, <1>2

\* An entry that is visited.
LEMMA EntryVisited ==
    ASSUME NEW r \in Entry
    PROVE  LET e == [r EXCEPT !.visited = TRUE] IN e \in Entry /\ e.key = r.key /\ e.val = r.val
<1>1. ASSUME NEW b PROVE [r EXCEPT !.visited = b].key = r.key /\ [r EXCEPT !.visited = b].val = r.val
  BY SMT DEF Entry
<1>2. [r EXCEPT !.visited = TRUE] \in Entry
  BY DEF Entry
<1> QED BY <1>1, <1>2

\* An entry with a new value.
LEMMA EntrySet ==
    ASSUME NEW r \in Entry, NEW v \in CacheValues
    PROVE  LET e == [r EXCEPT !.val = v, !.visited = TRUE] IN e \in Entry /\ e.key = r.key /\ e.val = v
<1> DEFINE s == [r EXCEPT !.val = v]
<1>1. s \in Entry /\ s.key = r.key /\ s.val = v
  BY SMT DEF Entry
<1> HIDE DEF s
<1>2. [s EXCEPT !.visited = TRUE] \in Entry /\ [s EXCEPT !.visited = TRUE].key = r.key /\ [s EXCEPT !.visited = TRUE].val = v
  BY <1>1, EntryVisited
<1> QED BY <1>2 DEF s

\* The hand takes a visit away.
LEMMA EntrySwept ==
    ASSUME NEW r \in Entry, NEW P
    PROVE  LET e == [r EXCEPT !.visited = @ /\ P] IN e \in Entry /\ e.key = r.key /\ e.val = r.val
<1>1. ASSUME NEW b PROVE [r EXCEPT !.visited = b].key = r.key /\ [r EXCEPT !.visited = b].val = r.val
  BY SMT DEF Entry
<1>2. [r EXCEPT !.visited = r.visited /\ P] \in Entry
  BY DEF Entry
<1> QED BY <1>1, <1>2

\* Another entry of the same key in the place of one.
LEMMA ReplaceKeeps ==
    ASSUME CacheInv, NEW p \in 1..Len(entries), NEW e \in Entry, e.key = entries[p].key,
           entries' = [entries EXCEPT ![p] = e], UNCHANGED <<lookup, hand, unfair>>,
           \A k \in lookup : latest'[k] = IF k = e.key THEN e.val ELSE latest[k]
    PROVE  CacheInv'
<1>1. entries \in Seq(Entry)
  BY DEF CacheInv
<1>2. /\ entries' \in Seq(Entry) /\ Len(entries') = Len(entries)
      /\ \A i \in 1..Len(entries) : entries'[i] = IF i = p THEN e ELSE entries[i]
  BY <1>1, SMT
<1>3. \A i \in 1..Len(entries) : entries'[i].key = entries[i].key
  BY <1>2
<1>4. KeysOf(entries') = KeysOf(entries) /\ KeysOnce(entries')
  BY <1>1, <1>2, <1>3, KeysStay DEF CacheInv
<1>5. ASSUME NEW i \in 1..Len(entries) PROVE entries'[i].val = latest'[entries'[i].key]
  <2>1. entries[i].key \in lookup
    BY EntryFacts
  <2>2. CASE i = p
    <3>1. entries'[i] = e
      BY <1>2, <2>2
    <3> QED BY <2>1, <2>2, <3>1
  <2>3. CASE i # p
    <3>1. entries'[i] = entries[i] /\ entries[i].key # e.key
      BY <1>2, <2>3 DEF CacheInv, KeysOnce
    <3>2. latest'[entries[i].key] = latest[entries[i].key]
      BY <2>1, <3>1
    <3> QED BY <3>1, <3>2 DEF CacheInv
  <2> QED BY <2>2, <2>3
<1> QED BY <1>2, <1>4, <1>5 DEF CacheInv

\* get(): a visit.
LEMMA GetKeeps ==
    ASSUME CacheInv, NEW k \in Keys, Get(k)
    PROVE  CacheInv'
<1> DEFINE p == Position(k)
           e == [entries[p] EXCEPT !.visited = TRUE]
<1>1. p \in 1..Len(entries) /\ entries[p].key = k
  BY PositionIs DEF Get
<1>2. e \in Entry /\ e.key = entries[p].key /\ e.val = entries[p].val
  BY <1>1, EntryFacts, EntryVisited
<1>3. entries' = [entries EXCEPT ![p] = e] /\ UNCHANGED <<lookup, hand, unfair, latest>>
  BY DEF Get
<1> HIDE DEF p, e
<1>4. \A key \in lookup : latest'[key] = IF key = e.key THEN e.val ELSE latest[key]
  BY <1>1, <1>2, <1>3 DEF CacheInv
<1> QED BY <1>1, <1>2, <1>3, <1>4, ReplaceKeeps

\* erase(): the entry and its key go, and the hand goes on when it was there.
LEMMA EraseKeeps ==
    ASSUME CacheInv, NEW k \in Keys, Erase(k)
    PROVE  CacheInv'
<1> DEFINE p == Position(k)
           w == Without(entries, p)
<1>1. p \in 1..Len(entries) /\ entries[p].key = k /\ k \in lookup
  BY PositionIs DEF Erase
<1>2. entries' = w /\ lookup' = lookup \ {k} /\ latest' = [key \in lookup' |-> latest[key]] /\ unfair' = unfair
  BY DEF Erase
<1>3. /\ w \in Seq(Entry) /\ Len(w) = Len(entries) - 1 /\ KeysOnce(w)
      /\ KeysOf(w) = KeysOf(entries) \ {k}
      /\ \A j \in 1..Len(w) : \E m \in 1..Len(entries) : m # p /\ w[j] = entries[m]
  BY <1>1, EntryRemoved DEF CacheInv
<1> HIDE DEF w
<1>4. IsFiniteSet(lookup') /\ Cardinality(lookup') = Cardinality(lookup) - 1
  BY <1>1, <1>2, FS_RemoveElement DEF CacheInv
<1>5. hand' \in lookup' \cup {End, Gone}
  BY <1>1, <1>2, BeforeIs DEF Erase, CacheInv
<1>6. \A j \in 1..Len(w) : w[j].val = latest'[w[j].key]
  <2> TAKE j \in 1..Len(w)
  <2>1. PICK m \in 1..Len(entries) : m # p /\ w[j] = entries[m]
    BY <1>3
  <2>2. w[j].key \in lookup'
    BY <1>1, <1>2, <2>1, EntryFacts DEF CacheInv, KeysOnce
  <2> QED BY <1>2, <2>1, <2>2 DEF CacheInv
<1>7. Len(w) =< capacity
  BY <1>3, EntryFacts, CacheAssumption, SMT DEF CacheInv
<1> QED BY <1>2, <1>3, <1>4, <1>5, <1>6, <1>7 DEF CacheInv

\* purge().
LEMMA PurgeKeeps ==
    ASSUME CacheInv, Purge
    PROVE  CacheInv'
<1>1. /\ entries' = <<>> /\ lookup' = {} /\ unfair' = unfair /\ hand' \in {End, Gone}
  BY DEF Purge
<1>2. <<>> \in Seq(Entry) /\ Len(<<>>) = 0 /\ 1..0 = {} /\ 0 =< capacity
  BY CacheAssumption, SMT
<1>3. KeysOf(<<>>) = {} /\ KeysOnce(<<>>)
  BY <1>2 DEF KeysOf, KeysOnce
<1> QED BY <1>1, <1>2, <1>3, FS_EmptySet DEF CacheInv


\* set() of a key that is there.
LEMMA SetPresentKeeps ==
    ASSUME CacheInv, NEW k \in Keys, NEW v \in CacheValues, Set(k, v), k \in lookup
    PROVE  CacheInv'
<1> DEFINE p == Position(k)
           e == [entries[p] EXCEPT !.val = v, !.visited = TRUE]
<1>1. p \in 1..Len(entries) /\ entries[p].key = k
  BY PositionIs
<1>2. e \in Entry /\ e.key = k /\ e.val = v
  BY <1>1, EntryFacts, EntrySet
<1>3. /\ entries' = [entries EXCEPT ![p].val = v, ![p].visited = TRUE] /\ UNCHANGED <<lookup, hand, unfair>>
      /\ latest' = [key \in lookup |-> IF key = k THEN v ELSE latest[key]]
  BY DEF Set
<1>4. entries' = [entries EXCEPT ![p] = e]
  <2> HIDE DEF p
  <2>1. entries \in Seq(Entry)
    BY DEF CacheInv
  <2>2. [[entries EXCEPT ![p].val = v] EXCEPT ![p].visited = TRUE] = [entries EXCEPT ![p] = e]
    BY <1>1, <2>1, EntryFacts
  <2> QED BY <1>3, <2>2
<1> HIDE DEF p, e
<1>5. \A key \in lookup : latest'[key] = IF key = e.key THEN e.val ELSE latest[key]
  BY <1>2, <1>3
<1> QED BY <1>1, <1>2, <1>3, <1>4, <1>5, ReplaceKeeps

\* A new entry in front of a list that held the other keys.
LEMMA FrontKeeps ==
    ASSUME NEW q \in Seq(Entry), KeysOnce(q), NEW e \in Entry, e.key \notin KeysOf(q),
           IsFiniteSet(KeysOf(q)), Cardinality(KeysOf(q)) = Len(q), Len(q) + 1 =< capacity,
           \A i \in 1..Len(q) : q[i].val = latest[q[i].key],
           entries' = <<e>> \o q, lookup' = KeysOf(q) \cup {e.key},
           latest' = [key \in lookup' |-> IF key = e.key THEN e.val ELSE latest[key]],
           hand' \in KeysOf(q) \cup {End, Gone}, unfair' = FALSE
    PROVE  CacheInv'
<1> DEFINE w == <<e>> \o q
<1>1. /\ w \in Seq(Entry) /\ Len(w) = Len(q) + 1 /\ KeysOnce(w)
      /\ KeysOf(w) = KeysOf(q) \cup {e.key}
      /\ \A j \in 1..Len(w) : w[j] = e \/ \E m \in 1..Len(q) : w[j] = q[m]
  BY EntryAdded
<1>2. entries' = w
  OBVIOUS
<1> HIDE DEF w
<1>3. IsFiniteSet(lookup') /\ Cardinality(lookup') = Len(q) + 1
  BY FS_AddElement
<1>4. ASSUME NEW j \in 1..Len(w) PROVE w[j].val = latest'[w[j].key]
  <2>1. CASE w[j] = e
    BY <2>1
  <2>2. CASE w[j] # e
    <3>1. PICK m \in 1..Len(q) : w[j] = q[m]
      BY <1>1, <2>2
    <3>2. q[m].key \in KeysOf(q) /\ q[m].key # e.key
      BY DEF KeysOf
    <3> QED BY <3>1, <3>2
  <2> QED BY <2>1, <2>2
<1> QED BY <1>1, <1>2, <1>3, <1>4 DEF CacheInv

\* set() of a new key while there is room.
LEMMA SetRoomKeeps ==
    ASSUME CacheInv, NEW k \in Keys, NEW v \in CacheValues, Set(k, v), k \notin lookup, Len(entries) < capacity
    PROVE  CacheInv'
<1> DEFINE e == [key |-> k, val |-> v, visited |-> FALSE]
<1>1. e \in Entry /\ e.key = k /\ e.val = v
  BY DEF Entry
<1>2. ~(Len(entries) >= capacity) /\ Len(entries) + 1 =< capacity
  BY EntryFacts, CacheAssumption, SMT
<1>3. /\ entries' = <<e>> \o entries /\ lookup' = lookup \cup {k} /\ UNCHANGED <<hand, unfair>>
      /\ latest' = [key \in lookup' |-> IF key = k THEN v ELSE latest[key]]
  BY <1>2 DEF Set
<1> HIDE DEF e
<1> QED BY <1>1, <1>2, <1>3, FrontKeeps DEF CacheInv

\* set() of a new key when the cache is full: evict().
LEMMA SetFullKeeps ==
    ASSUME CacheInv, NEW k \in Keys, NEW v \in CacheValues, Set(k, v), k \notin lookup, ~(Len(entries) < capacity)
    PROVE  CacheInv'
<1> DEFINE e == [key |-> k, val |-> v, visited |-> FALSE]
           old == Met(Steps)
           passed == {Met(n) : n \in 0..Steps - 1}
           swept == [i \in DOMAIN entries |-> [entries[i] EXCEPT !.visited = @ /\ i \notin passed]]
           q == Without(swept, old)
<1>1. e \in Entry /\ e.key = k /\ e.val = v
  BY DEF Entry
<1>2. entries # <<>> /\ Len(entries) = capacity /\ Len(entries) \in Nat
  BY EntryFacts, CacheAssumption, SMT DEF CacheInv
<1>3. /\ hand # Gone /\ hand' = Before(old) /\ lookup' = (lookup \ {entries[old].key}) \cup {k}
      /\ entries' = <<e>> \o q
      /\ unfair' = (unfair \/ (entries[old].visited /\ \E i \in DOMAIN entries : ~entries[i].visited))
      /\ latest' = [key \in lookup' |-> IF key = k THEN v ELSE latest[key]]
  BY DEF Set, Evict
<1>4. old \in 1..Len(entries) /\ (entries[old].visited => \A i \in 1..Len(entries) : entries[i].visited)
  BY <1>2, <1>3, VictimIs
<1>5. unfair' = FALSE
  BY <1>3, <1>4, EntryFacts DEF CacheInv
<1>6. /\ swept \in Seq(Entry) /\ Len(swept) = Len(entries)
      /\ \A i \in 1..Len(entries) : swept[i].key = entries[i].key /\ swept[i].val = entries[i].val
  <2>1. \A i \in 1..Len(entries) : swept[i] = [entries[i] EXCEPT !.visited = @ /\ i \notin passed]
    BY EntryFacts
  <2>2. \A i \in 1..Len(entries) :
          swept[i] \in Entry /\ swept[i].key = entries[i].key /\ swept[i].val = entries[i].val
    BY <2>1, EntryFacts, EntrySwept
  <2>3. swept = [i \in 1..Len(entries) |-> swept[i]]
    BY EntryFacts
  <2> HIDE DEF swept
  <2>4. swept \in Seq(Entry) /\ Len(swept) = Len(entries)
    BY <1>2, <2>2, <2>3, SMT
  <2> QED BY <2>2, <2>4
<1> HIDE DEF swept
<1>7. KeysOf(swept) = lookup /\ KeysOnce(swept)
  BY <1>6, KeysStay DEF CacheInv
<1>8. /\ q \in Seq(Entry) /\ Len(q) = Len(entries) - 1 /\ KeysOnce(q)
      /\ KeysOf(q) = lookup \ {entries[old].key}
      /\ \A j \in 1..Len(q) : \E m \in 1..Len(entries) : m # old /\ q[j] = swept[m]
  <2>1. old \in 1..Len(swept) /\ swept[old].key = entries[old].key
    BY <1>4, <1>6
  <2> HIDE DEF old
  <2>2. /\ q \in Seq(Entry) /\ Len(q) = Len(swept) - 1 /\ KeysOnce(q)
        /\ KeysOf(q) = KeysOf(swept) \ {swept[old].key}
        /\ \A j \in 1..Len(q) : \E m \in 1..Len(swept) : m # old /\ q[j] = swept[m]
    BY <1>6, <1>7, <2>1, EntryRemoved
  <2> HIDE DEF q
  <2> QED BY <1>6, <1>7, <2>1, <2>2
<1> HIDE DEF q, e, old
<1>9. IsFiniteSet(KeysOf(q)) /\ Cardinality(KeysOf(q)) = Len(q)
  <2>1. entries[old].key \in lookup
    BY <1>4, EntryFacts
  <2>2. IsFiniteSet(lookup) /\ Cardinality(lookup) = Len(entries)
    BY DEF CacheInv
  <2>3. IsFiniteSet(lookup \ {entries[old].key}) /\ Cardinality(lookup \ {entries[old].key}) = Len(entries) - 1
    BY <2>1, <2>2, FS_RemoveElement
  <2> QED BY <1>8, <2>3
<1>10. ASSUME NEW j \in 1..Len(q) PROVE q[j].val = latest[q[j].key]
  <2>1. PICK m \in 1..Len(entries) : q[j] = swept[m]
    BY <1>8
  <2> QED BY <1>6, <2>1 DEF CacheInv
<1>11. Len(q) + 1 =< capacity
  BY <1>2, <1>8, SMT
<1>12. hand' \in KeysOf(q) \cup {End, Gone} /\ lookup' = KeysOf(q) \cup {e.key} /\ e.key \notin KeysOf(q)
  BY <1>1, <1>3, <1>4, <1>8, BeforeIs
<1>13. latest' = [key \in lookup' |-> IF key = e.key THEN e.val ELSE latest[key]]
  BY <1>1, <1>3
<1> QED BY <1>1, <1>3, <1>5, <1>8, <1>9, <1>10, <1>11, <1>12, <1>13, FrontKeeps

\* A step keeps the invariant.
LEMMA CacheStep == CacheInv /\ [CacheNext]_cacheVars => CacheInv'
<1> SUFFICES ASSUME CacheInv, [CacheNext]_cacheVars PROVE CacheInv'
  OBVIOUS
<1>1. ASSUME NEW k \in Keys, NEW v \in CacheValues, Set(k, v) PROVE CacheInv'
  BY <1>1, SetPresentKeeps, SetRoomKeeps, SetFullKeeps
<1>2. ASSUME NEW k \in Keys, Get(k) PROVE CacheInv'
  BY <1>2, GetKeeps
<1>3. ASSUME NEW k \in Keys, Erase(k) PROVE CacheInv'
  BY <1>3, EraseKeeps
<1>4. ASSUME NEW t \in Callers, NEW k \in Keys, GetOrSetMisses(t, k) PROVE CacheInv'
  BY <1>4 DEF GetOrSetMisses, CacheInv
<1>5. ASSUME NEW t \in Callers, GetOrSetLocks(t) PROVE CacheInv'
  BY <1>5 DEF GetOrSetLocks, CacheInv
<1>6. CASE Purge
  BY <1>6, PurgeKeeps
<1>7. CASE UNCHANGED cacheVars
  BY <1>7 DEF cacheVars, CacheInv
<1> QED BY <1>1, <1>2, <1>3, <1>4, <1>5, <1>6, <1>7 DEF CacheNext

\* util::cache: after every sequence of calls by any threads, whatever the keys, the
\* values and the capacity, the list and the table agree, every key has its last value,
\* the hand is at an entry or the end, and an unvisited entry goes before a visited one.
THEOREM CacheStaysSound == CacheSpec => []CacheSound
<1>1. CacheInit => CacheInv
  <2> SUFFICES ASSUME CacheInit PROVE CacheInv
    OBVIOUS
  <2>1. <<>> \in Seq(Entry) /\ Len(<<>>) = 0 /\ 1..0 = {} /\ 0 =< capacity
    BY CacheAssumption, SMT
  <2>2. KeysOf(<<>>) = {} /\ KeysOnce(<<>>)
    BY <2>1 DEF KeysOf, KeysOnce
  <2> QED BY <2>1, <2>2, FS_EmptySet DEF CacheInit, CacheInv
<1>2. CacheInv => CacheSound
  BY EntryFacts DEF CacheInv, CacheSound, KeysOf
<1> QED BY <1>1, <1>2, CacheStep, PTL DEF CacheSpec

=============================================================================
