\* One connection, two sockets besides, three descriptors; three requests to two
\* hosts, two of them to the same, on two threads.
CONSTANTS
    Main = Main
    Accepted = Accepted
    Conns = {c1}
    Users = {u1, u2}
    Pooled = {s1, s2}
    Objects = {Main, Accepted, c1, u1, u2, s1, s2}
    Fds = {1, 2, 3}
    Invalid = 0
    MaxOpens = 1
    None = None
    r1 = r1
    r2 = r2
    r3 = r3
    h1 = h1
    h2 = h2
    Requests = {r1, r2, r3}
    Workers = {w1, w2}
    Hosts = {h1, h2}
    Host <- MCHost
    max_connections_per_host = 1
SPECIFICATION Spec
INVARIANTS  ConnectionsLent
PROPERTIES  SendsReturn
CHECK_DEADLOCK FALSE
