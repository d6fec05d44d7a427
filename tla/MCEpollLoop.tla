---------------------------- MODULE MCEpollLoop ----------------------------
(***************************************************************************)
(* Two tasks and two descriptors, so that two operations meet on one       *)
(* descriptor and two events in one call of epoll_wait().                  *)
(***************************************************************************)
EXTENDS EpollLoop, TLC

CONSTANTS t1, t2, f1, f2

Op(f, o, timeout) == [fd |-> f, op |-> o, timeout |-> timeout]

MCOps ==
    t1 :> {Op(f1, "read", 0)} @@
    t2 :> {Op(f1, "write", 0), Op(f2, "read_write", 1)}

MCPeers == f1 :> {"data", "space", "reset"} @@ f2 :> {"data", "end"}

MCMaxOps == t1 :> 2 @@ t2 :> 1
=============================================================================
