---------------------------- MODULE SlidingQueue ----------------------------
(***************************************************************************)
(* What util::ring_buffer promises: a FIFO queue that holds the last       *)
(* Capacity values pushed and not popped.  What pop() returns when there   *)
(* is none is not specified.                                               *)
(***************************************************************************)
EXTENDS Naturals, Sequences

CONSTANTS Values, Capacity

VARIABLES items,  \* the values, oldest first
          out     \* what the last pop() returned

vars == <<items, out>>

Init == items = <<>> /\ out \in Values

Push(v) ==
    /\ items' = IF Len(items) = Capacity THEN Append(Tail(items), v) ELSE Append(items, v)
    /\ UNCHANGED out

Pop ==
    \/ items # <<>> /\ out' = Head(items) /\ items' = Tail(items)
    \/ items = <<>> /\ out' \in Values /\ UNCHANGED items

Next == Pop \/ \E v \in Values : Push(v)

Spec == Init /\ [][Next]_vars

=============================================================================
