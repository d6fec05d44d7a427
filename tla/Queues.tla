------------------------------- MODULE Queues -------------------------------
(* Queues as sequences: shared vocabulary of the modules. *)
EXTENDS Integers, Sequences

\* The elements of a queue.
Elems(q) == {q[i] : i \in DOMAIN q}

\* No element occurs twice.
Distinct(q) == \A i, j \in DOMAIN q : q[i] = q[j] => i = j

=============================================================================
