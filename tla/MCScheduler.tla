---------------------------- MODULE MCScheduler ----------------------------
(* An instance of Scheduler: one connection used in both directions.       *)
EXTENDS Scheduler, TLC

CONSTANTS reader, timed, conn

\* `reader` uses the loop as the library does; `timed` adds a timeout, which
\* the interface offers.
MCOps ==
    (reader :> {[fd |-> conn, filters |-> {"read"}, timer |-> FALSE]})
    @@ (timed :> {[fd |-> conn, filters |-> {"write"}, timer |-> TRUE]})

MCMaxOps == (reader :> 2) @@ (timed :> 1)

MCTasks == {reader, timed}

=============================================================================
