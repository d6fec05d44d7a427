----------------------------- MODULE RingBuffer -----------------------------
(***************************************************************************)
(* util::ring_buffer: a queue in a fixed array that drops the oldest value *)
(* when it is full.                                                        *)
(***************************************************************************)
EXTENDS Integers, Sequences

CONSTANTS
    Values,
    N,        \* capacity()
    Default   \* T{}

ASSUME CapacityAssumption == N \in Nat \ {0}
ASSUME DefaultAssumption == Default \in Values

VARIABLES
    values,        \* std::array<T, N>
    begin,
    current_size,
    out            \* what the last pop() returned

vars == <<values, begin, current_size, out>>

Init ==
    /\ values = [i \in 0..(N - 1) |-> Default]
    /\ begin = 0
    /\ current_size = 0
    /\ out = Default

\* Mutant of Push: a full buffer does not drop the oldest value.
PushKeepsBegin(value) ==
    /\ values' = [values EXCEPT ![(begin + current_size) % N] = value]
    /\ current_size' = IF current_size + 1 > N THEN current_size ELSE current_size + 1
    /\ UNCHANGED <<begin, out>>

Push(value) ==
    /\ values' = [values EXCEPT ![(begin + current_size) % N] = value]
    /\ IF current_size + 1 > N
       THEN begin' = (begin + 1) % N /\ UNCHANGED current_size
       ELSE current_size' = current_size + 1 /\ UNCHANGED begin
    /\ UNCHANGED out

Pop ==
    /\ out' = values[begin]
    /\ begin' = (begin + 1) % N
    /\ current_size' = IF current_size # 0 THEN current_size - 1 ELSE 0
    /\ UNCHANGED values

Next == Pop \/ \E v \in Values : Push(v)

Spec == Init /\ [][Next]_vars

\* operator[]
At(index) == values[(begin + index) % N]

-----------------------------------------------------------------------------
(* Properties *)

\* Type invariant: begin stays inside the array, the size within capacity().
TypeOK ==
    /\ values \in [0..(N - 1) -> Values]
    /\ begin \in 0..(N - 1)
    /\ current_size \in 0..N
    /\ out \in Values

\* What operator[] shows, oldest first.
Contents == [i \in 1..current_size |-> At(i - 1)]

\* push(), pop() and operator[] behave as on a FIFO queue of the last N values,
\* wherever begin is, also after a pop() of an empty buffer moved it.
Queue == INSTANCE SlidingQueue WITH Capacity <- N, items <- Contents

ImplementsQueue == Queue!Spec

=============================================================================
