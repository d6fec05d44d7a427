------------------------------ MODULE Executor ------------------------------
(***************************************************************************)
(* What coro::thread_pool promises to the rest of the library: a FIFO      *)
(* queue of suspended coroutines and a set of coroutines being executed.   *)
(* A coroutine is queued at most once, is never queued while it executes,  *)
(* and at most Concurrency coroutines execute at the same time.            *)
(***************************************************************************)
EXTENDS Queues, FiniteSets

CONSTANTS Handles,     \* coroutine handles
          Concurrency  \* number of worker threads

VARIABLES queue,       \* handles accepted and not started, oldest first
          active       \* handles being executed

vars == <<queue, active>>

Queued == Elems(queue)

Init ==
    /\ queue = <<>>
    /\ active = {}

\* A batch of suspended coroutines is accepted, in order.
Accept ==
    /\ \E n \in 1..Cardinality(Handles) :
         \E batch \in [1..n -> Handles \ (Queued \cup active)] :
            /\ Distinct(batch)
            /\ queue' = queue \o batch
    /\ UNCHANGED active

\* The oldest accepted coroutine starts executing.
Start ==
    /\ queue # <<>>
    /\ Head(queue) \notin active
    /\ Cardinality(active) < Concurrency
    /\ queue' = Tail(queue)
    /\ active' = active \cup {Head(queue)}

\* A coroutine stops executing: it returned, or it suspended.
Stop ==
    /\ \E h \in active : active' = active \ {h}
    /\ UNCHANGED queue

Next == Accept \/ Start \/ Stop

Spec == Init /\ [][Next]_vars

=============================================================================
