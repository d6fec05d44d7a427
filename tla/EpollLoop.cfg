CONSTANTS
    t1 = t1
    t2 = t2
    f1 = f1
    f2 = f2
    Tasks = {t1, t2}
    Fds = {f1, f2}
    Ops <- MCOps
    MaxOps <- MCMaxOps
    Peers <- MCPeers
    MaxPeer = 2
    MaxTime = 1
    MaxEvents = 2
SPECIFICATION Spec
INVARIANTS  WaitersReachable
 
CHECK_DEADLOCK FALSE
