----------------------------- MODULE HttpClient -----------------------------
(***************************************************************************)
(* http::client: send() borrows a connection from the pool of its host.    *)
(* send() is a coroutine: it gives its worker thread back while it waits   *)
(* for the socket, but get_connection() blocks the thread.                 *)
(*                                                                         *)
(* get_connection() holds connections_mu shared from where it has found a  *)
(* pool to where it has a connection.  The pool itself is ResourcePool's   *)
(* subject: its critical sections are steps here.                          *)
(***************************************************************************)
EXTENDS Sockets

CONSTANTS
    Requests,   \* calls of send()
    Workers,    \* the threads of the thread_pool
    Hosts,
    Host(_),    \* the host a request names
    Pooled,     \* the sockets the pools may make
    max_connections_per_host

Pools == [maker : Requests, free : Seq(Pooled), num_borrowed : Nat]

ASSUME ClientAssumption ==
    /\ IsFiniteSet(Requests) /\ \A r \in Requests : Host(r) \in Hosts
    /\ Pooled \subseteq Objects
    /\ max_connections_per_host \in Nat
    /\ None \notin Pools /\ None \notin Hosts

VARIABLES
    connections,  \* the pool of each host: [maker, free, num_borrowed], or None
    req,          \* each send(): [pc, pool: maker of its pool, conn]
    running,      \* the send() a worker runs, or None
    leads,        \* the host a socket is connected to
    guessed,      \* history: sockets made after the request that the factory refers to
    moved         \* history: makers of pools that were moved to another client

clientVars == <<connections, req, running, leads, guessed, moved>>

ClientInit ==
    /\ connections = [h \in Hosts |-> None]
    /\ req = [r \in Requests |-> [pc |-> "new", pool |-> None, conn |-> None]]
    /\ running = [w \in Workers |-> None]
    /\ leads = [s \in Pooled |-> None]
    /\ guessed = {} /\ moved = {}

Over == {r \in Requests : req[r].pc = "done"}
Readers == {r \in Requests : req[r].pc \in {"get", "blocked"}}
Holders == {r \in Requests : req[r].conn # None}
Active(r) == req[r].pc \notin {"new", "done"}

At(r, pc) == req' = [req EXCEPT ![r].pc = pc]

\* The worker leaves the coroutine.
Leaves(r) == running' = [w \in Workers |-> IF running[w] = r THEN None ELSE running[w]]

\* A worker takes up a request that is new or whose I/O has completed.
RunOn(w, r) == running[w] = None /\ running' = [running EXCEPT ![w] = r]

\* send(); a version other than 1 and 2 is refused.
Send(w, r) ==
    /\ app = "client"
    /\ req[r].pc = "new"
    /\ \/ RunOn(w, r) /\ At(r, "lookup")
       \/ running[w] = None /\ At(r, "done") /\ UNCHANGED running
    /\ UNCHANGED <<app, socketVars, connections, leads, guessed, moved>>

\* connections.find(), under the shared lock.
Lookup(r) ==
    /\ req[r].pc = "lookup"
    /\ At(r, IF connections[Host(r)] = None THEN "insert" ELSE "get")
    /\ UNCHANGED <<app, socketVars, connections, running, leads, guessed, moved>>

NewPool(r) == [maker |-> r, free |-> <<>>, num_borrowed |-> 0]

\* No second look under the exclusive lock.
InsertUnchecked(r) ==
    /\ req[r].pc = "insert" /\ Readers = {}
    /\ connections' = [connections EXCEPT ![Host(r)] = NewPool(r)]
    /\ At(r, "lookup")
    /\ UNCHANGED <<app, socketVars, running, leads, guessed, moved>>

\* The second look, under the exclusive lock.
Insert(r) ==
    /\ req[r].pc = "insert" /\ Readers = {}
    /\ connections' = [connections EXCEPT ![Host(r)] = IF @ = None THEN NewPool(r) ELSE @]
    /\ At(r, "lookup")
    /\ UNCHANGED <<app, socketVars, running, leads, guessed, moved>>

Pool(r) == connections[Host(r)]

\* The connection is there, and encode() begins to wait for it.
Begin(r, s, pool) ==
    /\ connections' = [connections EXCEPT ![Host(r)] = pool]
    /\ req' = [req EXCEPT ![r] = [pc |-> "encoding", pool |-> pool.maker, conn |-> s]]
    /\ Leaves(r)

\* get() finds a connection, at once or after it was blocked.
GetPooled(r) ==
    /\ r \in Readers
    /\ LET free == Pool(r).free
           last == Len(free)
       IN /\ free # <<>>
          /\ Begin(r, free[last], [Pool(r) EXCEPT !.free = SubSeq(@, 1, last - 1), !.num_borrowed = @ + 1])
    /\ UNCHANGED <<app, socketVars, leads, guessed, moved>>

MayMake(r) == req[r].pc = "get" /\ Pool(r).free = <<>> /\ Pool(r).num_borrowed < max_connections_per_host

\* get() makes one.  The factory refers to the host of the request that made the
\* pool; after the end of that request it may find anything there.
GetMakes(r) ==
    /\ MayMake(r) /\ Pool(r).maker \notin moved
    /\ TRUE \in TcpOutcomes
    /\ \E s \in Pooled, h \in Hosts :
         /\ leads[s] = None
         /\ Pool(r).maker \in Over \/ h = Host(Pool(r).maker)
         /\ Adopt(s)
         /\ leads' = [leads EXCEPT ![s] = h]
         /\ guessed' = IF Pool(r).maker \in Over THEN guessed \cup {s} ELSE guessed
         /\ Begin(r, s, [Pool(r) EXCEPT !.num_borrowed = @ + 1])
    /\ UNCHANGED <<app, moved>>

\* The factory throws: the pool counts a connection that is not there.
GetThrows(r) ==
    /\ MayMake(r) /\ Pool(r).maker \notin moved
    /\ FALSE \in TcpOutcomes
    /\ connections' = [connections EXCEPT ![Host(r)].num_borrowed = @ + 1]
    /\ At(r, "done")
    /\ Leaves(r)
    /\ UNCHANGED <<app, socketVars, leads, guessed, moved>>

\* The factory of a pool that was moved uses the scheduler of the client it was
\* moved from, a null pointer.
GetCrashes(r) ==
    /\ MayMake(r) /\ Pool(r).maker \in moved
    /\ app' = "crashed"
    /\ UNCHANGED <<socketVars, clientVars>>

\* The limit is reached: the thread waits, and keeps the shared lock.
GetBlocks(r) ==
    /\ req[r].pc = "get"
    /\ Pool(r).free = <<>> /\ Pool(r).num_borrowed >= max_connections_per_host
    /\ At(r, "blocked")
    /\ UNCHANGED <<app, socketVars, connections, running, leads, guessed, moved>>

WorkerStep(r) ==
    /\ app = "client"
    /\ \/ Lookup(r) \/ Insert(r) \/ GetPooled(r) \/ GetMakes(r) \/ GetThrows(r)
       \/ GetCrashes(r) \/ GetBlocks(r)

\* The peer takes the request, or gives the response, or fails.
Answer(r) ==
    /\ app = "client"
    /\ \/ req[r].pc = "encoding" /\ At(r, "encoded")
       \/ req[r].pc = "decoding" /\ At(r, "decoded")
       \/ req[r].pc \in {"encoding", "decoding"} /\ At(r, "decoded")
    /\ UNCHANGED <<app, socketVars, connections, running, leads, guessed, moved>>

\* put() drops the connection though a get() waits for it.
SendGoesOnDrops(w, r) ==
    /\ app = "client" /\ running[w] = None
    /\ \/ req[r].pc = "encoded" /\ At(r, "decoding") /\ UNCHANGED connections
       \/ /\ req[r].pc = "decoded"
          /\ connections' = [connections EXCEPT ![Host(r)].num_borrowed = @ - 1]
          /\ req' = [req EXCEPT ![r] = [pc |-> "done", pool |-> None, conn |-> None]]
    /\ UNCHANGED <<app, socketVars, running, leads, guessed, moved>>

\* A worker resumes send(): it waits for the response, or returns and the borrowed
\* connection goes back.  A connection that failed goes back too.
SendGoesOn(w, r) ==
    /\ app = "client" /\ running[w] = None
    /\ \/ req[r].pc = "encoded" /\ At(r, "decoding") /\ UNCHANGED connections
       \/ /\ req[r].pc = "decoded"
          /\ connections' = [connections EXCEPT ![Host(r)].num_borrowed = @ - 1,
                                                ![Host(r)].free = Append(@, req[r].conn)]
          /\ req' = [req EXCEPT ![r] = [pc |-> "done", pool |-> None, conn |-> None]]
    /\ UNCHANGED <<app, socketVars, running, leads, guessed, moved>>

\* The move constructor and the move assignment to a fresh client, between requests.
MoveClient ==
    /\ app = "client"
    /\ \A r \in Requests : ~Active(r)
    /\ moved' = {connections[h].maker : h \in {g \in Hosts : connections[g] # None}}
    /\ moved' # moved
    /\ UNCHANGED <<app, socketVars, connections, req, running, leads, guessed>>

\* The client is destroyed, its pools and what is in them included.
DestroyClient ==
    /\ app = "client"
    /\ \A r \in Requests : ~Active(r)
    /\ Destroy({s \in Pooled : fd[s] # Invalid})
    /\ connections' = [h \in Hosts |-> None]
    /\ app' = "ended"
    /\ UNCHANGED <<req, running, leads, guessed, moved>>

ClientNext ==
    \/ \E r \in Requests : WorkerStep(r) \/ Answer(r) \/ \E w \in Workers : Send(w, r) \/ SendGoesOn(w, r)
    \/ MoveClient \/ DestroyClient

-----------------------------------------------------------------------------
(* Properties.                                                             *)

\* A connection is lent to one request at a time, out of the pool its host still
\* has, and is connected to the host the request names, unless it was made
\* after the end of the request that made the pool (client.cpp:110 keeps a
\* reference to that request's host and port).  No host gets more than
\* max_connections_per_host.
ConnectionsLent ==
    /\ \A r \in Holders :
         /\ \A q \in Holders \ {r} : req[q].conn # req[r].conn
         /\ Pool(r) # None /\ req[r].pool = Pool(r).maker
         /\ \A i \in DOMAIN Pool(r).free : Pool(r).free[i] # req[r].conn
         /\ req[r].conn \notin guessed => leads[req[r].conn] = Host(r)
    /\ \A h \in Hosts : connections[h] # None =>
         Len(connections[h].free) + Cardinality({r \in Holders : Host(r) = h}) =< max_connections_per_host

\* Every worker is blocked in get_connection(), for a connection of a send() that no
\* worker is left to resume (client.cpp:119), or for the exclusive lock.
WorkersBlocked == \A w \in Workers : running[w] # None /\ req[running[w]].pc \in {"blocked", "insert"}

\* A pool counts connections that were never made (resource_pool.hpp:85).
CapacityLost(h) ==
    connections[h] # None /\ connections[h].num_borrowed > Cardinality({r \in Holders : Host(r) = h})

\* A send() that has begun returns, if its peers answer or fail, unless all workers
\* are blocked or a pool has lost capacity.
SendsReturn ==
    \A r \in Requests :
      Active(r) ~> \/ req[r].pc = "done"
                   \/ WorkersBlocked
                   \/ \E h \in Hosts : CapacityLost(h)
                   \/ app # "client"

=============================================================================
