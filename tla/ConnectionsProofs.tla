-------------------------- MODULE ConnectionsProofs -------------------------
(***************************************************************************)
(* That the descriptors of a program with a server or a client stay with   *)
(* their owners, and that the client lends a connection to one request at  *)
(* a time.                                                                 *)
(***************************************************************************)
EXTENDS Connections, QueueLemmas, FiniteSetTheorems

\* Zenon proves what follows, but for the leaves that name another prover.
USE Zenon

-----------------------------------------------------------------------------
(* Descriptors.                                                            *)

SocketTypes ==
    /\ fd \in [Objects -> Fds \cup {Invalid}]
    /\ owner \in [Fds -> Objects \cup {None}]
    /\ spent \subseteq Objects /\ robbed \subseteq Objects

ConnStates == {"off", "head", "decode", "answer", "closing"}
PlaceTypes == conn \in [Conns -> ConnStates] /\ leads \in [Pooled -> Hosts \cup {None}]

\* An object that waits for a descriptor has none yet.
EmptyHanded ==
    /\ serve = "off" => fd[Main] = Invalid
    /\ serve # "check" => fd[Accepted] = Invalid
    /\ \A c \in Conns : conn[c] = "off" => fd[c] = Invalid
    /\ \A s \in Pooled : leads[s] = None => fd[s] = Invalid

\* The thread in listener::shutdown() has a listener to close, and forgets its number
\* only when it is closed.
ClosesListener ==
    /\ closer # "off" => serve \notin {"off", "made"}
    /\ closer \in {"close", "forget"} => fd[Main] # Invalid
    /\ closer = "forget" => owner[fd[Main]] # Main

\* The inductive invariant behind DescriptorsOwned.
SocketInv == SocketTypes /\ PlaceTypes /\ EmptyHanded /\ ClosesListener /\ DescriptorsOwned

-----------------------------------------------------------------------------
(* The connections of the client.                                          *)

RequestStates ==
    {"new", "lookup", "insert", "get", "blocked", "encoding", "encoded", "decoding", "decoded", "done"}

ClientTypes ==
    /\ connections \in [Hosts -> Pools \cup {None}]
    /\ req \in [Requests -> [pc : RequestStates, pool : Requests \cup {None}, conn : Pooled \cup {None}]]
    /\ leads \in [Pooled -> Hosts \cup {None}]

Made == {h \in Hosts : connections[h] # None}
FreeOf(h) == Elems(connections[h].free)
HoldersOf(h) == {r \in Holders : Host(r) = h}

\* A request holds a connection between get() and its return, and finds the pool it
\* was looking for.
HoldsWhile ==
    \A r \in Requests :
      /\ req[r].conn # None <=> req[r].pc \in {"encoding", "encoded", "decoding", "decoded"}
      /\ req[r].pc \notin {"new", "lookup", "insert", "done"} => Host(r) \in Made
      /\ req[r].conn # None => req[r].pool = Pool(r).maker

\* A connection is in one place: at one index of one pool, or with one request.
InOnePlace ==
    /\ \A h \in Made : Distinct(connections[h].free)
    /\ \A h, g \in Made : h # g => FreeOf(h) \cap FreeOf(g) = {}
    /\ \A r \in Holders, h \in Made : req[r].conn \notin FreeOf(h)
    /\ \A r, q \in Holders : r # q => req[r].conn # req[q].conn

\* Connections lead where their pool's requests want to go.
LeadsRight ==
    /\ \A h \in Made : Host(connections[h].maker) = h
    /\ \A h \in Made, s \in Pooled :
         s \in FreeOf(h) => leads[s] # None /\ (s \in guessed \/ leads[s] = h)
    /\ \A r \in Holders :
         leads[req[r].conn] # None /\ (req[r].conn \in guessed \/ leads[req[r].conn] = Host(r))

\* A pool counts at least the connections that are lent.
Counted ==
    \A h \in Made :
      /\ Len(connections[h].free) + connections[h].num_borrowed =< max_connections_per_host
      /\ Cardinality(HoldersOf(h)) =< connections[h].num_borrowed

\* The inductive invariant behind ConnectionsLent.
ClientInv == ClientTypes /\ HoldsWhile /\ InOnePlace /\ LeadsRight /\ Counted

-----------------------------------------------------------------------------
(* What the operations on sockets keep.                                    *)

\* Any nonempty set of numbers has a least one.
LEMMA LeastNumber ==
    ASSUME NEW S, S \subseteq Nat, S # {}
    PROVE  Min(S) \in S
<1> DEFINE R == OpToRel(<, Nat)
<1>1. IsWellFoundedOn(R, Nat)
  BY NatLessThanWellFounded
<1>2. R = {ss \in Nat \X Nat : ss[1] < ss[2]}
  BY DEF OpToRel
<1> HIDE DEF R
<1>3. \E x \in S : \A y \in S : <<y, x>> \notin R
  BY <1>1, WFMin
<1>4. PICK x \in S : \A y \in S : <<y, x>> \notin R
  BY <1>3
<1>5. \A y \in S : x =< y
  <2>1. SUFFICES ASSUME NEW y \in S, y < x PROVE FALSE
    BY SMT
  <2>2. <<y, x>> \in Nat \X Nat /\ <<y, x>>[1] < <<y, x>>[2]
    BY <2>1
  <2> QED
    BY <2>2, <1>2, <1>4
<1> QED
  BY <1>5 DEF Min

\* A constructor takes a free number, for an object that had none.
LEMMA AdoptKeeps ==
    ASSUME SocketTypes, DescriptorsOwned, NEW o \in Objects, fd[o] = Invalid, Adopt(o)
    PROVE  /\ SocketTypes' /\ DescriptorsOwned'
           /\ \A p \in Objects \ {o} : fd'[p] = fd[p]
           /\ \A d \in Fds : owner'[d] = owner[d] \/ owner'[d] = o
           /\ fd'[o] # Invalid
<1>1. PICK d \in Free : /\ fd' = [fd EXCEPT ![o] = d] /\ owner' = [owner EXCEPT ![d] = o]
                        /\ spent' = spent \ {o} /\ robbed' = robbed \ {o} /\ leaked' = leaked
  <2>1. Free \subseteq Nat /\ Free # {}
    BY SocketAssumption DEF Adopt, Free
  <2>2. Min(Free) \in Free
    BY <2>1, LeastNumber
  <2> QED
    BY <2>2 DEF Adopt
<1>2. d \in Fds /\ owner[d] = None /\ d # Invalid /\ o # None
  BY SocketAssumption DEF Free
<1>3. SocketTypes'
  BY <1>1, <1>2 DEF SocketTypes
<1>4. /\ fd'[o] = d /\ \A p \in Objects \ {o} : fd'[p] = fd[p]
      /\ owner'[d] = o /\ \A e \in Fds \ {d} : owner'[e] = owner[e]
  BY <1>1, <1>2 DEF SocketTypes
<1>5. ASSUME NEW p \in Objects \ (spent' \cup robbed'), fd'[p] # Invalid
      PROVE  owner'[fd'[p]] = p
  <2>1. CASE p = o
    BY <2>1, <1>4
  <2>2. CASE p # o
    <3>1. p \notin spent \cup robbed /\ fd'[p] = fd[p] /\ fd[p] \in Fds
      BY <2>2, <1>1, <1>4, <1>5 DEF SocketTypes
    <3>2. owner[fd[p]] = p /\ p # None
      BY <3>1, <1>4, <1>5, SocketAssumption DEF DescriptorsOwned
    <3> QED
      BY <3>1, <3>2, <1>2, <1>4
  <2> QED
    BY <2>1, <2>2
<1>6. ASSUME NEW e \in Fds, owner'[e] # None, e \notin leaked'
      PROVE  fd'[owner'[e]] = e
  <2>1. CASE e = d
    BY <2>1, <1>4
  <2>2. CASE e # d
    <3>1. owner'[e] = owner[e] /\ fd[owner[e]] = e /\ owner[e] \in Objects
      BY SMT, <2>2, <1>1, <1>4, <1>6 DEF DescriptorsOwned, Free, SocketTypes
    <3>2. owner[e] # o
      BY <3>1, SocketAssumption
    <3> QED
      BY <3>1, <3>2, <1>4
  <2> QED
    BY <2>1, <2>2
<1>7. DescriptorsOwned'
  BY <1>5, <1>6 DEF DescriptorsOwned, Free
<1> QED
  BY <1>2, <1>3, <1>4, <1>7

\* close() of the objects of S: what it closes and does not own was another's, and
\* what it owns and does not close is leaked.
LEMMA ReleaseGives ==
    ASSUME SocketTypes, DescriptorsOwned, NEW S, S \subseteq Objects, Release(S)
    PROVE  /\ owner' \in [Fds -> Objects \cup {None}]
           /\ robbed' \subseteq Objects
           /\ \A d \in Fds : owner'[d] = owner[d] \/ owner'[d] = None
           /\ \A p \in Objects \ S : p \notin spent \cup robbed' /\ fd[p] # Invalid => owner'[fd[p]] = p
           /\ \A d \in Fds : owner'[d] # None /\ d \notin leaked' => owner'[d] \notin S /\ fd[owner'[d]] = d
<1> DEFINE numbers == {fd[o] : o \in S} \ {Invalid}
           closing == {fd[o] : o \in {p \in S : Valid(p)}}
<1>1. /\ owner' = [d \in Fds |-> IF d \in closing THEN None ELSE owner[d]]
      /\ leaked' = leaked \cup {d \in numbers \ closing : owner[d] \in S}
      /\ robbed' = robbed \cup {owner[d] : d \in {c \in closing : owner[c] \notin S}}
  BY DEF Release
<1>2. \A d \in closing : d \in Fds /\ owner[d] # None
  BY DEF Valid, Free, SocketTypes
<1>3. \A o \in S : fd[o] # Invalid => fd[o] \in numbers
  OBVIOUS
<1> HIDE DEF numbers, closing
<1>4. owner' \in [Fds -> Objects \cup {None}] /\ \A d \in Fds : owner'[d] = owner[d] \/ owner'[d] = None
  BY <1>1 DEF SocketTypes
<1>5. robbed' \subseteq Objects
  BY <1>1, <1>2 DEF SocketTypes
<1>6. ASSUME NEW p \in Objects \ S, p \notin spent \cup robbed', fd[p] # Invalid
      PROVE  owner'[fd[p]] = p
  <2>1. fd[p] \in Fds /\ p \notin robbed
    BY <1>1, <1>6 DEF SocketTypes
  <2>2. owner[fd[p]] = p
    BY <2>1, <1>6 DEF DescriptorsOwned
  <2>3. fd[p] \notin closing
    BY <2>2, <1>1, <1>6
  <2> QED
    BY <2>1, <2>2, <2>3, <1>1
<1>7. ASSUME NEW d \in Fds, owner'[d] # None, d \notin leaked'
      PROVE  owner'[d] \notin S /\ fd[owner'[d]] = d
  <2>1. owner'[d] = owner[d] /\ d \notin closing /\ d \notin leaked
    BY <1>1, <1>7
  <2>2. fd[owner[d]] = d /\ d # Invalid
    BY <2>1, <1>7, SocketAssumption DEF DescriptorsOwned, Free
  <2>3. owner[d] \notin S
    BY <2>1, <2>2, <1>1, <1>3, <1>7
  <2> QED
    BY <2>1, <2>2, <2>3
<1> QED
  BY <1>4, <1>5, <1>6, <1>7

\* The destructors.
LEMMA DestroyKeeps ==
    ASSUME SocketTypes, DescriptorsOwned, NEW S, S \subseteq Objects, Destroy(S)
    PROVE  /\ SocketTypes' /\ DescriptorsOwned'
           /\ \A p \in Objects : fd'[p] = IF p \in S THEN Invalid ELSE fd[p]
           /\ \A d \in Fds : owner'[d] = owner[d] \/ owner'[d] = None
<1>1. Release(S) /\ fd' = [o \in Objects |-> IF o \in S THEN Invalid ELSE fd[o]] /\ spent' = spent \ S
  BY DEF Destroy
<1>2. /\ owner' \in [Fds -> Objects \cup {None}] /\ robbed' \subseteq Objects
      /\ \A d \in Fds : owner'[d] = owner[d] \/ owner'[d] = None
      /\ \A p \in Objects \ S : p \notin spent \cup robbed' /\ fd[p] # Invalid => owner'[fd[p]] = p
      /\ \A d \in Fds : owner'[d] # None /\ d \notin leaked' => owner'[d] \notin S /\ fd[owner'[d]] = d
  BY <1>1, ReleaseGives
<1>3. SocketTypes'
  BY <1>1, <1>2 DEF SocketTypes
<1>4. \A p \in Objects : fd'[p] = IF p \in S THEN Invalid ELSE fd[p]
  BY <1>1
<1>5. \A p \in Objects \ (spent' \cup robbed') : fd'[p] # Invalid => owner'[fd'[p]] = p
  BY <1>1, <1>2, <1>4
<1>6. \A d \in Fds : owner'[d] # None /\ d \notin leaked' => fd'[owner'[d]] = d
  BY SMT, <1>2, <1>4
<1> QED
  BY <1>2, <1>3, <1>4, <1>5, <1>6 DEF DescriptorsOwned, Free

\* close(): the object remembers the number.
LEMMA CloseKeeps ==
    ASSUME SocketTypes, DescriptorsOwned, NEW o \in Objects, CloseSocket(o)
    PROVE  /\ SocketTypes' /\ DescriptorsOwned' /\ fd' = fd
           /\ \A d \in Fds : owner'[d] = owner[d] \/ owner'[d] = None
<1>1. Release({o}) /\ fd' = fd /\ spent' = spent \cup {o}
  BY DEF CloseSocket
<1>2. /\ owner' \in [Fds -> Objects \cup {None}] /\ robbed' \subseteq Objects
      /\ \A d \in Fds : owner'[d] = owner[d] \/ owner'[d] = None
      /\ \A p \in Objects \ {o} : p \notin spent \cup robbed' /\ fd[p] # Invalid => owner'[fd[p]] = p
      /\ \A d \in Fds : owner'[d] # None /\ d \notin leaked' => owner'[d] \notin {o} /\ fd[owner'[d]] = d
  BY <1>1, ReleaseGives
<1>3. SocketTypes'
  BY <1>1, <1>2 DEF SocketTypes
<1> QED
  BY <1>1, <1>2, <1>3 DEF DescriptorsOwned, Free

\* A move: the descriptor goes with its number, and what the target had is closed.
LEMMA MoveKeepsOwners ==
    ASSUME SocketTypes, DescriptorsOwned, NEW o \in Objects, NEW p \in Objects, Move(o, p)
    PROVE  /\ SocketTypes' /\ DescriptorsOwned'
           /\ fd'[o] = fd[p] /\ fd'[p] = Invalid /\ \A q \in Objects \ {o, p} : fd'[q] = fd[q]
           /\ \A d \in Fds : owner'[d] \in {owner[d], None, o}
<1> DEFINE victims == {q \in Objects \ {o} : fd[o] \in Fds /\ fd[q] = fd[o] /\ owner[fd[o]] = q}
<1>1. /\ o # p
      /\ owner' = [d \in Fds |-> IF d = fd[o] THEN None
                                 ELSE IF d = fd[p] /\ owner[d] = p THEN o ELSE owner[d]]
      /\ fd' = [fd EXCEPT ![o] = fd[p], ![p] = Invalid]
      /\ robbed' = ((robbed \cup victims) \ {o, p}) \cup (IF p \in robbed \cup victims THEN {o} ELSE {})
      /\ spent' = (spent \ {o, p}) \cup (IF p \in spent THEN {o} ELSE {})
      /\ leaked' = leaked
  BY DEF Move
<1>2. fd'[o] = fd[p] /\ fd'[p] = Invalid /\ \A q \in Objects \ {o, p} : fd'[q] = fd[q]
  BY <1>1 DEF SocketTypes
<1>3. \A d \in Fds : owner'[d] = IF d = fd[o] THEN None
                                 ELSE IF d = fd[p] /\ owner[d] = p THEN o ELSE owner[d]
  BY <1>1
<1>4. SocketTypes'
  <2>1. fd' \in [Objects -> Fds \cup {Invalid}] /\ owner' \in [Fds -> Objects \cup {None}]
    BY <1>1 DEF SocketTypes
  <2>2. spent' \subseteq Objects /\ robbed' \subseteq Objects
    BY <1>1 DEF SocketTypes
  <2> QED
    BY <2>1, <2>2 DEF SocketTypes
<1>5. ASSUME NEW q \in Objects \ (spent' \cup robbed'), fd'[q] # Invalid
      PROVE  owner'[fd'[q]] = q
  <2>1. CASE q = o
    <3>1. p \notin spent /\ p \notin robbed /\ p \notin victims
      BY <2>1, <1>1, <1>5
    <3>2. fd[p] # Invalid /\ fd[p] \in Fds
      BY <2>1, <1>2, <1>5 DEF SocketTypes
    <3>3. owner[fd[p]] = p
      BY <3>1, <3>2 DEF DescriptorsOwned
    <3>4. fd[p] # fd[o]
      BY <3>1, <3>2, <3>3, <1>1
    <3> QED
      BY <2>1, <3>2, <3>3, <3>4, <1>2, <1>3
  <2>2. CASE q # o
    <3>1. q # p /\ fd'[q] = fd[q] /\ fd[q] \in Fds
      BY <2>2, <1>2, <1>5 DEF SocketTypes
    <3>2. q \notin spent /\ q \notin robbed /\ q \notin victims
      BY <2>2, <3>1, <1>1, <1>5
    <3>3. owner[fd[q]] = q
      BY <3>1, <3>2, <1>5 DEF DescriptorsOwned
    <3>4. fd[q] # fd[o]
      BY <2>2, <3>1, <3>2, <3>3
    <3> QED
      BY <3>1, <3>3, <3>4, <1>3
  <2> QED
    BY <2>1, <2>2
<1> HIDE DEF victims
<1>6. ASSUME NEW d \in Fds, owner'[d] # None, d \notin leaked'
      PROVE  fd'[owner'[d]] = d
  <2>1. d # fd[o]
    BY <1>3, <1>6
  <2>2. CASE d = fd[p] /\ owner[d] = p
    BY <2>1, <2>2, <1>2, <1>3
  <2>3. CASE ~(d = fd[p] /\ owner[d] = p)
    <3>1. owner'[d] = owner[d] /\ owner[d] \in Objects
      BY <2>1, <2>3, <1>3, <1>6 DEF SocketTypes
    <3>2. fd[owner[d]] = d
      BY <3>1, <1>1, <1>6 DEF DescriptorsOwned, Free
    <3> QED
      BY <3>1, <3>2, <2>1, <2>3, <1>2
  <2> QED
    BY <2>2, <2>3
<1>7. DescriptorsOwned'
  BY <1>5, <1>6 DEF DescriptorsOwned, Free
<1> QED
  BY <1>2, <1>3, <1>4, <1>7

\* What moves no descriptor keeps the owners.
LEMMA StillOwned ==
    ASSUME SocketTypes, DescriptorsOwned, UNCHANGED <<fd, owner, leaked, spent, robbed>>
    PROVE  SocketTypes' /\ DescriptorsOwned'
BY DEF SocketTypes, DescriptorsOwned, Free

-----------------------------------------------------------------------------
(* The steps of the server.                                                *)

\* The constructor of server.
LEMMA ConstructKeeps ==
    ASSUME SocketInv, Construct, UNCHANGED clientVars
    PROVE  SocketInv'
<1>1. /\ serve = "off" /\ closer' = closer /\ conn' = conn /\ leads' = leads
      /\ serve' \in {"made", "done"} /\ (Adopt(Main) \/ UNCHANGED socketVars)
      /\ SocketTypes /\ PlaceTypes /\ EmptyHanded /\ ClosesListener /\ DescriptorsOwned
  BY DEF Construct, ServeAt, clientVars, SocketInv
<1>2. closer = "off" /\ fd[Main] = Invalid
  BY <1>1 DEF ClosesListener, EmptyHanded
<1>3. SocketTypes' /\ DescriptorsOwned' /\ \A p \in Objects \ {Main} : fd'[p] = fd[p]
  <2>1. CASE Adopt(Main)
    BY <2>1, <1>1, <1>2, AdoptKeeps, ServerAssumption
  <2>2. CASE UNCHANGED socketVars
    BY <2>2, <1>1, StillOwned DEF socketVars
  <2> QED
    BY <1>1, <2>1, <2>2
<1>4. EmptyHanded'
  BY <1>1, <1>3, ServerAssumption, ClientAssumption, SocketsApart DEF EmptyHanded
<1>5. ClosesListener'
  BY <1>1, <1>2 DEF ClosesListener
<1> QED
  BY <1>1, <1>3, <1>4, <1>5 DEF SocketInv, PlaceTypes

\* The steps of serve() that open and close nothing.
LEMMA ServeMovesKeep ==
    ASSUME SocketInv, Serve \/ Listen \/ Loop \/ AcceptBegins \/ AcceptResumes, UNCHANGED clientVars
    PROVE  SocketInv'
<1>1. /\ UNCHANGED <<socketVars, closer, conn, leads>>
      /\ serve \notin {"off", "check"} /\ serve' \notin {"off", "made", "check"}
      /\ SocketTypes /\ PlaceTypes /\ EmptyHanded /\ ClosesListener /\ DescriptorsOwned
  BY DEF Serve, Listen, Loop, AcceptBegins, AcceptResumes, ServeAt, clientVars, SocketInv
<1>2. SocketTypes' /\ DescriptorsOwned'
  BY <1>1, StillOwned DEF socketVars
<1>3. EmptyHanded' /\ ClosesListener' /\ PlaceTypes'
  BY <1>1 DEF EmptyHanded, ClosesListener, PlaceTypes, socketVars
<1> QED
  BY <1>2, <1>3 DEF SocketInv

\* accept() has a connection, or has thrown.
LEMMA AcceptKeeps ==
    ASSUME SocketInv, Accept, UNCHANGED clientVars
    PROVE  SocketInv'
<1>1. /\ serve = "resumed" /\ closer' = closer /\ conn' = conn /\ leads' = leads
      /\ \/ Adopt(Accepted) /\ serve' = "check"
         \/ UNCHANGED socketVars /\ serve' = "loop"
      /\ SocketTypes /\ PlaceTypes /\ EmptyHanded /\ ClosesListener /\ DescriptorsOwned
  BY DEF Accept, ServeAt, clientVars, SocketInv
<1>2. fd[Accepted] = Invalid
  BY <1>1 DEF EmptyHanded
<1>3. CASE Adopt(Accepted) /\ serve' = "check"
  <2>1. /\ SocketTypes' /\ DescriptorsOwned' /\ \A p \in Objects \ {Accepted} : fd'[p] = fd[p]
        /\ \A d \in Fds : owner'[d] = owner[d] \/ owner'[d] = Accepted
    BY <1>1, <1>2, <1>3, AdoptKeeps, ServerAssumption
  <2>2. EmptyHanded'
    BY <1>1, <1>3, <2>1, ServerAssumption, ClientAssumption, SocketsApart DEF EmptyHanded
  <2>3. ClosesListener'
    <3>1. fd'[Main] = fd[Main] /\ fd[Main] \in Fds \cup {Invalid}
      BY <2>1, ServerAssumption, <1>1 DEF SocketTypes
    <3> QED
      BY <1>1, <1>3, <2>1, <3>1, ServerAssumption DEF ClosesListener
  <2> QED
    BY <1>1, <2>1, <2>2, <2>3 DEF SocketInv, PlaceTypes
<1>4. CASE UNCHANGED socketVars /\ serve' = "loop"
  <2>1. SocketTypes' /\ DescriptorsOwned'
    BY <1>1, <1>4, StillOwned DEF socketVars
  <2>2. EmptyHanded' /\ ClosesListener' /\ PlaceTypes'
    BY <1>1, <1>4 DEF EmptyHanded, ClosesListener, PlaceTypes, socketVars
  <2> QED
    BY <2>1, <2>2 DEF SocketInv
<1> QED
  BY <1>1, <1>3, <1>4

\* serve() moves the connection to a task, or drops it.
LEMMA CheckKeeps ==
    ASSUME SocketInv, Check, UNCHANGED clientVars
    PROVE  SocketInv'
<1>1. /\ serve = "check" /\ closer' = closer /\ leads' = leads /\ serve' \in {"loop", "done"}
      /\ SocketTypes /\ PlaceTypes /\ EmptyHanded /\ ClosesListener /\ DescriptorsOwned
  BY DEF Check, ServeAt, clientVars, SocketInv
<1>2. fd[Main] \in Fds \cup {Invalid} /\ Main # Accepted /\ Main \notin Conns /\ Accepted \notin Conns
      /\ Main \in Objects /\ Accepted \in Objects /\ Conns \subseteq Objects
      /\ Main \notin Pooled /\ Accepted \notin Pooled /\ Pooled \subseteq Objects
      /\ Conns \cap Pooled = {}
  BY <1>1, ServerAssumption, ClientAssumption, SocketsApart DEF SocketTypes
<1>3. CASE Destroy({Accepted}) /\ conn' = conn
  <2>1. /\ SocketTypes' /\ DescriptorsOwned'
        /\ \A p \in Objects : fd'[p] = IF p \in {Accepted} THEN Invalid ELSE fd[p]
        /\ \A d \in Fds : owner'[d] = owner[d] \/ owner'[d] = None
    BY <1>1, <1>2, <1>3, DestroyKeeps
  <2>2. EmptyHanded'
    BY <1>1, <1>2, <1>3, <2>1 DEF EmptyHanded
  <2>3. ClosesListener'
    BY ZenonT(40), <1>1, <1>2, <2>1, SocketAssumption DEF ClosesListener
  <2> QED
    BY <1>1, <1>3, <2>1, <2>2, <2>3 DEF SocketInv, PlaceTypes
<1>4. ASSUME NEW c \in Conns, conn[c] = "off", Move(c, Accepted), conn' = [conn EXCEPT ![c] = "head"]
      PROVE  SocketInv'
  <2>1. /\ SocketTypes' /\ DescriptorsOwned'
        /\ fd'[Accepted] = Invalid /\ \A q \in Objects \ {c, Accepted} : fd'[q] = fd[q]
        /\ \A d \in Fds : owner'[d] \in {owner[d], None, c}
    BY SMT, <1>1, <1>2, <1>4, MoveKeepsOwners
  <2>2. conn' \in [Conns -> ConnStates] /\ conn'[c] = "head" /\ \A k \in Conns \ {c} : conn'[k] = conn[k]
    <3>1. conn \in [Conns -> ConnStates] /\ conn' = [conn EXCEPT ![c] = "head"]
      BY <1>1, <1>4 DEF PlaceTypes
    <3> QED
      BY <3>1 DEF ConnStates
  <2>3. EmptyHanded'
    BY <1>1, <1>2, <2>1, <2>2 DEF EmptyHanded
  <2>4. ClosesListener'
    BY <1>1, <1>2, <2>1, SocketAssumption DEF ClosesListener
  <2> QED
    BY <1>1, <2>1, <2>2, <2>3, <2>4 DEF SocketInv, PlaceTypes
<1> QED
  BY <1>3, <1>4 DEF Check

\* close() and shutdown() up to where the listener is closed.
LEMMA ShutdownKeeps ==
    ASSUME SocketInv, CloseServer \/ Shutdown, UNCHANGED clientVars
    PROVE  SocketInv'
<1>1. /\ UNCHANGED <<socketVars, serve, conn, leads>>
      /\ closer' \in {"shutdown", "close", "done"} /\ (closer' = "close" => fd[Main] # Invalid)
      /\ closer = "off" => serve \notin {"off", "made"}
      /\ SocketTypes /\ PlaceTypes /\ EmptyHanded /\ ClosesListener /\ DescriptorsOwned
  BY DEF CloseServer, Shutdown, clientVars, SocketInv
<1>2. SocketTypes' /\ DescriptorsOwned'
  BY <1>1, StillOwned DEF socketVars
<1>3. EmptyHanded' /\ ClosesListener' /\ PlaceTypes'
  BY <1>1 DEF EmptyHanded, ClosesListener, PlaceTypes, socketVars
<1> QED
  BY <1>2, <1>3 DEF SocketInv

\* ::close(main_fd).
LEMMA ShutdownClosesKeeps ==
    ASSUME SocketInv, ShutdownCloses, UNCHANGED clientVars
    PROVE  SocketInv'
<1>1. /\ closer = "close" /\ closer' = "forget" /\ serve' = serve /\ conn' = conn /\ leads' = leads
      /\ fd' = fd /\ leaked' = leaked /\ spent' = spent \cup {Main}
      /\ owner' = [owner EXCEPT ![fd[Main]] = None]
      /\ robbed' = robbed \cup ({owner[fd[Main]]} \ {Main, None})
      /\ SocketTypes /\ PlaceTypes /\ EmptyHanded /\ ClosesListener /\ DescriptorsOwned
  BY DEF ShutdownCloses, RawClose, clientVars, SocketInv
<1>2. fd[Main] \in Fds /\ Main \in Objects /\ Main # None /\ fd[Main] # Invalid
  BY <1>1, ServerAssumption, SocketAssumption DEF ClosesListener, SocketTypes
<1>3. owner'[fd[Main]] = None /\ \A d \in Fds \ {fd[Main]} : owner'[d] = owner[d]
  BY <1>1, <1>2 DEF SocketTypes
<1>4. SocketTypes'
  BY <1>1, <1>2 DEF SocketTypes
<1>5. ASSUME NEW p \in Objects \ (spent' \cup robbed'), fd'[p] # Invalid
      PROVE  owner'[fd'[p]] = p
  <2>1. p # Main /\ p # None /\ p \notin spent \cup robbed /\ fd'[p] = fd[p] /\ fd[p] \in Fds
    BY <1>1, <1>5, SocketAssumption DEF SocketTypes
  <2>2. owner[fd[p]] = p
    BY <2>1, <1>1, <1>5 DEF DescriptorsOwned
  <2>3. fd[p] # fd[Main]
    BY <2>1, <2>2, <1>1, <1>5
  <2> QED
    BY <2>1, <2>2, <2>3, <1>3
<1>6. \A d \in Fds : owner'[d] # None /\ d \notin leaked' => fd'[owner'[d]] = d
  BY <1>1, <1>3 DEF DescriptorsOwned, Free
<1>7. DescriptorsOwned'
  BY <1>5, <1>6 DEF DescriptorsOwned, Free
<1>8. EmptyHanded' /\ PlaceTypes'
  BY <1>1 DEF EmptyHanded, PlaceTypes
<1>9. ClosesListener'
  BY <1>1, <1>2, <1>3 DEF ClosesListener
<1> QED
  BY <1>4, <1>7, <1>8, <1>9 DEF SocketInv

\* main_fd = invalid_fd.
LEMMA ShutdownForgetsKeeps ==
    ASSUME SocketInv, ShutdownForgets, UNCHANGED clientVars
    PROVE  SocketInv'
<1>1. /\ closer = "forget" /\ closer' = "done" /\ UNCHANGED <<owner, leaked, robbed, serve, conn, leads>>
      /\ fd' = [fd EXCEPT ![Main] = Invalid] /\ spent' = spent \ {Main}
      /\ SocketTypes /\ PlaceTypes /\ EmptyHanded /\ ClosesListener /\ DescriptorsOwned
  BY DEF ShutdownForgets, clientVars, SocketInv
<1>2. Main \in Objects /\ owner[fd[Main]] # Main
  BY <1>1, ServerAssumption DEF ClosesListener
<1>3. fd'[Main] = Invalid /\ \A p \in Objects \ {Main} : fd'[p] = fd[p]
  BY <1>1, <1>2 DEF SocketTypes
<1>4. SocketTypes'
  BY <1>1 DEF SocketTypes
<1>5. \A p \in Objects \ (spent' \cup robbed') : fd'[p] # Invalid => owner'[fd'[p]] = p
  BY <1>1, <1>3 DEF DescriptorsOwned
<1>6. ASSUME NEW d \in Fds, owner'[d] # None, d \notin leaked'
      PROVE  fd'[owner'[d]] = d
  <2>1. fd[owner[d]] = d /\ owner[d] \in Objects
    BY <1>1, <1>6 DEF DescriptorsOwned, Free, SocketTypes
  <2>2. owner[d] # Main
    BY <2>1, <1>2
  <2> QED
    BY <2>1, <2>2, <1>1, <1>3
<1>7. DescriptorsOwned'
  BY <1>5, <1>6 DEF DescriptorsOwned, Free
<1>8. EmptyHanded' /\ PlaceTypes'
  BY <1>1, <1>3, ServerAssumption, ClientAssumption, SocketsApart DEF EmptyHanded, PlaceTypes
<1>9. ClosesListener'
  BY <1>1 DEF ClosesListener
<1> QED
  BY <1>4, <1>7, <1>8, <1>9 DEF SocketInv

\* The task of a connection, and its peer.
LEMMA ConnKeeps ==
    ASSUME SocketInv, NEW c \in Conns, ConnStep(c) \/ PeerStep(c), UNCHANGED clientVars
    PROVE  SocketInv'
<1>1. /\ UNCHANGED <<serve, closer, leads>>
      /\ SocketTypes /\ PlaceTypes /\ EmptyHanded /\ ClosesListener /\ DescriptorsOwned
  BY DEF ConnStep, PeerStep, clientVars, SocketInv
<1>2. c \in Objects /\ Main # c /\ Accepted # c /\ c \notin Pooled /\ conn \in [Conns -> ConnStates]
      /\ fd[Main] \in Fds \cup {Invalid} /\ Main \in Objects /\ Accepted \in Objects
      /\ Conns \subseteq Objects /\ Pooled \subseteq Objects
  BY <1>1, ServerAssumption, ClientAssumption, SocketsApart DEF PlaceTypes, SocketTypes
<1>3. CASE ConnEnds(c)
  <2>1. conn' = [conn EXCEPT ![c] = "off"] /\ Destroy({c})
    BY <1>3 DEF ConnEnds, ConnAt
  <2>2. conn' \in [Conns -> ConnStates] /\ conn'[c] = "off" /\ \A k \in Conns \ {c} : conn'[k] = conn[k]
    BY <2>1, <1>2 DEF ConnStates
  <2>3. /\ SocketTypes' /\ DescriptorsOwned'
        /\ \A p \in Objects : fd'[p] = IF p \in {c} THEN Invalid ELSE fd[p]
        /\ \A d \in Fds : owner'[d] = owner[d] \/ owner'[d] = None
    BY <1>1, <1>2, <2>1, DestroyKeeps
  <2>4. EmptyHanded'
    BY <1>1, <1>2, <2>2, <2>3 DEF EmptyHanded
  <2>5. ClosesListener'
    BY ZenonT(40), <1>1, <1>2, <2>3, SocketAssumption DEF ClosesListener
  <2> QED
    BY <1>1, <2>2, <2>3, <2>4, <2>5 DEF SocketInv, PlaceTypes
<1>4. CASE ~ConnEnds(c)
  <2>1. /\ UNCHANGED <<fd, owner, leaked, spent, robbed>>
        /\ \/ conn' = conn
           \/ conn[c] # "off" /\ \E pc \in ConnStates \ {"off"} : conn' = [conn EXCEPT ![c] = pc]
    BY <1>4 DEF ConnStep, PeerStep, ConnHead, ConnAnswers, ConnDecoded, ConnAt, Reset, socketVars, ConnStates
  <2>2. /\ conn' \in [Conns -> ConnStates]
        /\ \A k \in Conns : conn'[k] = "off" => conn[k] = "off"
    BY <2>1, <1>2
  <2>3. SocketTypes' /\ DescriptorsOwned'
    BY <1>1, <2>1, StillOwned
  <2>4. EmptyHanded' /\ ClosesListener' /\ PlaceTypes'
    BY <1>1, <2>1, <2>2 DEF EmptyHanded, ClosesListener, PlaceTypes
  <2> QED
    BY <2>3, <2>4 DEF SocketInv
<1> QED
  BY <1>3, <1>4

\* The other sockets of the program.
LEMMA UserKeeps ==
    ASSUME SocketInv, UserStep, UNCHANGED clientVars
    PROVE  SocketInv'
<1>1. /\ UNCHANGED <<serve, closer, conn, leads>>
      /\ SocketTypes /\ PlaceTypes /\ EmptyHanded /\ ClosesListener /\ DescriptorsOwned
  BY DEF UserStep, clientVars, SocketInv
<1>2. /\ Users \subseteq Objects /\ Main \notin Users /\ Accepted \notin Users
      /\ Users \cap Conns = {} /\ Users \cap Pooled = {}
      /\ Main \in Objects /\ Accepted \in Objects /\ Conns \subseteq Objects /\ Pooled \subseteq Objects
      /\ fd[Main] \in Fds \cup {Invalid} /\ Main # None
  BY <1>1, ServerAssumption, ClientAssumption, SocketsApart, SocketAssumption DEF SocketTypes
<1>3. PICK u \in Users :
         \/ fd[u] = Invalid /\ Adopt(u)
         \/ CloseSocket(u)
         \/ Destroy({u})
         \/ \E v \in Users : Move(u, v)
  BY DEF UserStep
<1>4. /\ SocketTypes' /\ DescriptorsOwned'
      /\ \A p \in Objects \ Users : fd'[p] = fd[p]
      /\ \A d \in Fds : owner'[d] \in {owner[d], None} \cup Users
  <2>1. CASE fd[u] = Invalid /\ Adopt(u)
    BY SMT, <1>1, <1>2, <2>1, AdoptKeeps
  <2>2. CASE CloseSocket(u)
    BY <1>1, <1>2, <2>2, CloseKeeps
  <2>3. CASE Destroy({u})
    <3>1. {u} \subseteq Objects
      BY <1>2
    <3> QED
      BY SMT, <1>1, <1>2, <2>3, <3>1, DestroyKeeps
  <2>4. ASSUME NEW v \in Users, Move(u, v)
        PROVE  /\ SocketTypes' /\ DescriptorsOwned'
               /\ \A p \in Objects \ Users : fd'[p] = fd[p]
               /\ \A d \in Fds : owner'[d] \in {owner[d], None} \cup Users
    <3>1. u \in Objects /\ v \in Objects
      BY <1>2
    <3>2. /\ SocketTypes' /\ DescriptorsOwned'
          /\ \A q \in Objects \ {u, v} : fd'[q] = fd[q]
          /\ \A d \in Fds : owner'[d] \in {owner[d], None, u}
      BY <1>1, <2>4, <3>1, MoveKeepsOwners
    <3> QED
      BY <3>2
  <2> QED
    BY <1>3, <2>1, <2>2, <2>3, <2>4
<1>5. EmptyHanded'
  BY <1>1, <1>2, <1>4 DEF EmptyHanded
<1>6. ClosesListener'
  BY SMT, <1>1, <1>2, <1>4 DEF ClosesListener
<1> QED
  BY <1>1, <1>4, <1>5, <1>6 DEF SocketInv, PlaceTypes

-----------------------------------------------------------------------------
(* The steps of the client.                                                *)

\* get() makes a connection.
LEMMA MakingKeepsSockets ==
    ASSUME SocketInv, NEW r \in Requests, GetMakes(r), UNCHANGED serverVars
    PROVE  SocketInv'
<1>1. /\ UNCHANGED <<serve, closer, conn>>
      /\ SocketTypes /\ PlaceTypes /\ EmptyHanded /\ ClosesListener /\ DescriptorsOwned
  BY DEF serverVars, SocketInv
<1>2. PICK s \in Pooled, h \in Hosts :
         leads[s] = None /\ Adopt(s) /\ leads' = [leads EXCEPT ![s] = h]
  BY DEF GetMakes
<1>3. /\ s \in Objects /\ s # Main /\ s # Accepted /\ s \notin Conns
      /\ Main \in Objects /\ Accepted \in Objects /\ Conns \subseteq Objects /\ Pooled \subseteq Objects
      /\ fd[Main] \in Fds \cup {Invalid} /\ h # None
  BY <1>1, ServerAssumption, ClientAssumption, SocketsApart DEF SocketTypes
<1>4. leads' \in [Pooled -> Hosts \cup {None}] /\ leads'[s] # None /\ \A t \in Pooled \ {s} : leads'[t] = leads[t]
  BY <1>1, <1>2, <1>3 DEF PlaceTypes
<1>5. /\ SocketTypes' /\ DescriptorsOwned' /\ \A p \in Objects \ {s} : fd'[p] = fd[p]
      /\ \A d \in Fds : owner'[d] = owner[d] \/ owner'[d] = s
  <2>1. fd[s] = Invalid
    BY <1>1, <1>2 DEF EmptyHanded
  <2> QED
    BY <1>1, <1>2, <1>3, <2>1, AdoptKeeps
<1>6. EmptyHanded'
  BY <1>1, <1>3, <1>4, <1>5 DEF EmptyHanded
<1>7. ClosesListener'
  BY <1>1, <1>3, <1>5 DEF ClosesListener
<1> QED
  BY <1>1, <1>4, <1>5, <1>6, <1>7 DEF SocketInv, PlaceTypes

\* The client is destroyed.
LEMMA DestroyingKeepsSockets ==
    ASSUME SocketInv, DestroyClient, UNCHANGED serverVars
    PROVE  SocketInv'
<1> DEFINE S == {s \in Pooled : fd[s] # Invalid}
<1>1. /\ UNCHANGED <<serve, closer, conn, leads>> /\ Destroy(S)
      /\ SocketTypes /\ PlaceTypes /\ EmptyHanded /\ ClosesListener /\ DescriptorsOwned
  BY DEF DestroyClient, serverVars, SocketInv
<1>2. /\ S \subseteq Objects /\ Main \notin S /\ Accepted \notin S /\ S \cap Conns = {}
      /\ Main \in Objects /\ Accepted \in Objects /\ Conns \subseteq Objects /\ Pooled \subseteq Objects
      /\ fd[Main] \in Fds \cup {Invalid} /\ Main # None
  BY <1>1, ServerAssumption, ClientAssumption, SocketsApart, SocketAssumption DEF SocketTypes
<1> HIDE DEF S
<1>3. /\ SocketTypes' /\ DescriptorsOwned'
      /\ \A p \in Objects : fd'[p] = IF p \in S THEN Invalid ELSE fd[p]
      /\ \A d \in Fds : owner'[d] = owner[d] \/ owner'[d] = None
  BY <1>1, <1>2, DestroyKeeps
<1>4. EmptyHanded'
  BY <1>1, <1>2, <1>3 DEF EmptyHanded
<1>5. ClosesListener'
  BY <1>1, <1>2, <1>3 DEF ClosesListener
<1> QED
  BY <1>1, <1>3, <1>4, <1>5 DEF SocketInv, PlaceTypes

\* The rest moves no descriptor.
LEMMA ClientKeepsSockets ==
    ASSUME SocketInv, ClientNext, UNCHANGED serverVars
    PROVE  SocketInv'
<1>1. \/ \E r \in Requests : GetMakes(r)
      \/ DestroyClient
      \/ UNCHANGED <<socketVars, leads>>
  BY DEF ClientNext, WorkerStep, Lookup, Insert, GetPooled, GetThrows, GetCrashes, GetBlocks, Answer,
         Send, SendGoesOn, MoveClient, clientVars
<1>2. ASSUME NEW r \in Requests, GetMakes(r) PROVE SocketInv'
  BY <1>2, MakingKeepsSockets
<1>3. CASE DestroyClient
  BY <1>3, DestroyingKeepsSockets
<1>4. CASE UNCHANGED <<socketVars, leads>>
  <2>1. /\ UNCHANGED <<serve, closer, conn>>
        /\ SocketTypes /\ PlaceTypes /\ EmptyHanded /\ ClosesListener /\ DescriptorsOwned
    BY DEF serverVars, SocketInv
  <2>2. SocketTypes' /\ DescriptorsOwned'
    BY <1>4, <2>1, StillOwned DEF socketVars
  <2>3. EmptyHanded' /\ ClosesListener' /\ PlaceTypes'
    BY <1>4, <2>1 DEF EmptyHanded, ClosesListener, PlaceTypes, socketVars
  <2> QED
    BY <2>2, <2>3 DEF SocketInv
<1> QED
  BY <1>1, <1>2, <1>3, <1>4

\* Init establishes it.
LEMMA SocketInvInit == Init => SocketInv
<1> SUFFICES ASSUME Init PROVE SocketInv
  OBVIOUS
<1>1. /\ fd = [o \in Objects |-> Invalid] /\ owner = [d \in Fds |-> None] /\ spent = {} /\ robbed = {}
      /\ serve = "off" /\ closer = "off" /\ conn = [c \in Conns |-> "off"] /\ leads = [s \in Pooled |-> None]
  BY DEF Init, SocketInit, ServerInit, ClientInit
<1>2. SocketTypes /\ PlaceTypes
  BY <1>1 DEF SocketTypes, PlaceTypes, ConnStates
<1>3. EmptyHanded /\ ClosesListener
  BY <1>1, ServerAssumption, ClientAssumption DEF EmptyHanded, ClosesListener
<1>4. DescriptorsOwned
  BY <1>1 DEF DescriptorsOwned, Free
<1> QED
  BY <1>2, <1>3, <1>4 DEF SocketInv

\* Every step keeps it.
LEMMA SocketInvNext == SocketInv /\ [Next]_vars => SocketInv'
<1> SUFFICES ASSUME SocketInv, [Next]_vars PROVE SocketInv'
  OBVIOUS
<1>1. CASE ServerNext /\ UNCHANGED clientVars
  <2>1. CASE Construct
    BY <1>1, <2>1, ConstructKeeps
  <2>2. CASE Serve \/ Listen \/ Loop \/ AcceptBegins \/ AcceptResumes
    BY SMT, <1>1, <2>2, ServeMovesKeep
  <2>3. CASE Accept
    BY <1>1, <2>3, AcceptKeeps
  <2>4. CASE Check
    BY <1>1, <2>4, CheckKeeps
  <2>5. CASE CloseServer \/ Shutdown
    BY SMT, <1>1, <2>5, ShutdownKeeps
  <2>6. CASE ShutdownCloses
    BY <1>1, <2>6, ShutdownClosesKeeps
  <2>7. CASE ShutdownForgets
    BY <1>1, <2>7, ShutdownForgetsKeeps
  <2>8. CASE UserStep
    BY <1>1, <2>8, UserKeeps
  <2>9. ASSUME NEW c \in Conns, ConnStep(c) \/ PeerStep(c) PROVE SocketInv'
    BY <1>1, <2>9, ConnKeeps
  <2> QED
    BY <1>1, <2>1, <2>2, <2>3, <2>4, <2>5, <2>6, <2>7, <2>8, <2>9 DEF ServerNext, ServeStep, CloserStep
<1>2. CASE ClientNext /\ UNCHANGED serverVars
  BY <1>2, ClientKeepsSockets
<1>3. CASE UNCHANGED vars
  <2>1. /\ UNCHANGED <<fd, owner, leaked, spent, robbed, serve, closer, conn, leads>>
        /\ SocketTypes /\ PlaceTypes /\ EmptyHanded /\ ClosesListener /\ DescriptorsOwned
    BY <1>3 DEF vars, socketVars, serverVars, clientVars, SocketInv
  <2>2. SocketTypes' /\ DescriptorsOwned'
    BY <2>1, StillOwned
  <2>3. EmptyHanded' /\ ClosesListener' /\ PlaceTypes'
    BY <2>1 DEF EmptyHanded, ClosesListener, PlaceTypes
  <2> QED
    BY <2>2, <2>3 DEF SocketInv
<1> QED
  BY <1>1, <1>2, <1>3 DEF Next

\* A descriptor belongs to the object that opened it or was given it, whatever sockets
\* the program opens, moves, closes and destroys around the server and the client,
\* and whenever the listener is shut down.
THEOREM DescriptorsSafe == Spec => []DescriptorsOwned
<1>1. SocketInv => DescriptorsOwned
  BY DEF SocketInv
<1> QED
  BY SocketInvInit, SocketInvNext, <1>1, PTL DEF Spec

-----------------------------------------------------------------------------
(* That connections are lent to one request at a time.                     *)

\* The requests that hold a connection of a host are finitely many.
LEMMA HoldersFinite ==
    ASSUME NEW h
    PROVE  IsFiniteSet(HoldersOf(h)) /\ Cardinality(HoldersOf(h)) \in Nat
<1>1. HoldersOf(h) \subseteq Requests /\ IsFiniteSet(Requests)
  BY ClientAssumption DEF HoldersOf, Holders
<1> QED
  BY <1>1, FS_Subset, FS_CardinalityType

\* What changes neither the pools nor who holds what.
LEMMA SameLoans ==
    ASSUME ClientInv, UNCHANGED <<connections, leads, guessed>>,
           req' \in [Requests -> [pc : RequestStates, pool : Requests \cup {None}, conn : Pooled \cup {None}]],
           \A q \in Requests : req'[q].conn = req[q].conn /\ req'[q].pool = req[q].pool,
           HoldsWhile'
    PROVE  ClientInv'
<1>1. ClientTypes /\ HoldsWhile /\ InOnePlace /\ LeadsRight /\ Counted
  BY DEF ClientInv
<1>2. Made' = Made /\ Holders' = Holders /\ \A h : FreeOf(h)' = FreeOf(h) /\ HoldersOf(h)' = HoldersOf(h)
  BY DEF Made, Holders, FreeOf, HoldersOf
<1>3. ClientTypes'
  BY <1>1 DEF ClientTypes
<1>4. InOnePlace'
  BY SMT, <1>1, <1>2 DEF InOnePlace, Holders
<1>5. LeadsRight'
  BY <1>1, <1>2 DEF LeadsRight, Holders
<1>6. Counted'
  BY <1>1, <1>2 DEF Counted
<1> QED
  BY <1>3, <1>4, <1>5, <1>6 DEF ClientInv

\* A request goes on without getting a connection or giving it back.
LEMMA PcKeeps ==
    ASSUME ClientInv, NEW r \in Requests, NEW pc \in RequestStates, At(r, pc),
           UNCHANGED <<connections, leads, guessed>>,
           req[r].conn # None <=> pc \in {"encoding", "encoded", "decoding", "decoded"},
           pc \notin {"new", "lookup", "insert", "done"} => Host(r) \in Made
    PROVE  ClientInv'
<1>1. ClientTypes /\ HoldsWhile
  BY DEF ClientInv
<1>2. req' = [req EXCEPT ![r].pc = pc]
  BY DEF At
<1>3. /\ req' \in [Requests -> [pc : RequestStates, pool : Requests \cup {None}, conn : Pooled \cup {None}]]
      /\ \A q \in Requests : req'[q].conn = req[q].conn /\ req'[q].pool = req[q].pool
      /\ req'[r].pc = pc /\ \A q \in Requests \ {r} : req'[q].pc = req[q].pc
  BY <1>1, <1>2 DEF ClientTypes
<1>4. Made' = Made
  BY DEF Made
<1>5. HoldsWhile'
  <2> SUFFICES ASSUME NEW q \in Requests
               PROVE  /\ req'[q].conn # None <=> req'[q].pc \in {"encoding", "encoded", "decoding", "decoded"}
                      /\ req'[q].pc \notin {"new", "lookup", "insert", "done"} => Host(q) \in Made
                      /\ req'[q].conn # None => req'[q].pool = connections[Host(q)].maker
    BY <1>4 DEF HoldsWhile, Pool
  <2>1. CASE q = r
    BY <2>1, <1>1, <1>3 DEF HoldsWhile, Pool
  <2>2. CASE q # r
    BY SMT, <2>2, <1>1, <1>3 DEF HoldsWhile, Pool
  <2> QED
    BY <2>1, <2>2
<1> QED
  BY <1>3, <1>5, SameLoans

\* A request that holds none gets a connection that is nobody's.
LEMMA LoanKeeps ==
    ASSUME ClientInv, NEW r \in Requests, req[r].conn = None, Host(r) \in Made,
           NEW s \in Pooled, NEW pool \in Pools, Begin(r, s, pool),
           pool.maker = Pool(r).maker,
           Elems(pool.free) \subseteq FreeOf(Host(r)), Distinct(pool.free), s \notin Elems(pool.free),
           pool.num_borrowed = Pool(r).num_borrowed + 1,
           Len(pool.free) + pool.num_borrowed =< max_connections_per_host,
           \A g \in Made \ {Host(r)} : s \notin FreeOf(g),
           \A q \in Holders : req[q].conn # s,
           leads' \in [Pooled -> Hosts \cup {None}],
           \A t \in Pooled : leads[t] # None => leads'[t] = leads[t],
           leads'[s] # None, s \in guessed' \/ leads'[s] = Host(r),
           guessed \subseteq guessed'
    PROVE  ClientInv'
<1> DEFINE h == Host(r)
<1>1. ClientTypes /\ HoldsWhile /\ InOnePlace /\ LeadsRight /\ Counted
  BY DEF ClientInv
<1>2. /\ connections' = [connections EXCEPT ![h] = pool]
      /\ req' = [req EXCEPT ![r] = [pc |-> "encoding", pool |-> pool.maker, conn |-> s]]
  BY DEF Begin
<1>3. h \in Hosts /\ h \in Made /\ pool # None /\ s # None /\ pool.maker \in Requests
  BY ClientAssumption, SocketAssumption DEF Pools
<1> HIDE DEF h
<1>4. /\ connections' \in [Hosts -> Pools \cup {None}]
      /\ connections'[h] = pool /\ \A g \in Hosts \ {h} : connections'[g] = connections[g]
  BY <1>1, <1>2, <1>3 DEF ClientTypes
<1>5. /\ req' \in [Requests -> [pc : RequestStates, pool : Requests \cup {None}, conn : Pooled \cup {None}]]
      /\ req'[r].pc = "encoding" /\ req'[r].pool = pool.maker /\ req'[r].conn = s
      /\ \A q \in Requests \ {r} : req'[q] = req[q]
  BY <1>1, <1>2, <1>3 DEF ClientTypes, RequestStates
<1>6. Made' = Made /\ connections[h] \in Pools /\ Made \subseteq Hosts
  BY SMT, <1>1, <1>3, <1>4 DEF Made, ClientTypes
<1>7. Holders' = Holders \cup {r} /\ r \notin Holders
  BY SMT, <1>3, <1>5 DEF Holders
<1>8. FreeOf(h)' \subseteq FreeOf(h) /\ \A g \in Made \ {h} : FreeOf(g)' = FreeOf(g)
  BY <1>4, <1>6 DEF FreeOf, h
<1>9. s \notin FreeOf(h)' /\ Distinct(connections'[h].free) /\ connections'[h].maker = connections[h].maker
  BY <1>4 DEF FreeOf, h, Pool
<1>10. ClientTypes'
  BY <1>4, <1>5 DEF ClientTypes
<1>11. HoldsWhile'
  <2> SUFFICES ASSUME NEW q \in Requests
               PROVE  /\ req'[q].conn # None <=> req'[q].pc \in {"encoding", "encoded", "decoding", "decoded"}
                      /\ req'[q].pc \notin {"new", "lookup", "insert", "done"} => Host(q) \in Made
                      /\ req'[q].conn # None => req'[q].pool = connections'[Host(q)].maker
    BY <1>6 DEF HoldsWhile, Pool
  <2>1. CASE q = r
    BY <2>1, <1>3, <1>4, <1>5 DEF h
  <2>2. CASE q # r
    <3>1. Host(q) \in Hosts
      BY ClientAssumption
    <3>2. connections'[Host(q)].maker = connections[Host(q)].maker
      BY <3>1, <1>4, <1>9
    <3> QED
      BY SMT, <2>2, <3>2, <1>1, <1>5 DEF HoldsWhile, Pool
  <2> QED
    BY <2>1, <2>2
<1>12. \A q \in Holders : req'[q].conn = req[q].conn /\ req[q].conn # s /\ q \in Requests
  BY <1>5, <1>7 DEF Holders
<1>13. \A g \in Made : FreeOf(g)' \subseteq FreeOf(g) /\ s \notin FreeOf(g)'
  BY ZenonT(40), <1>8, <1>9 DEF h
<1>14. InOnePlace'
  <2>1. \A g \in Made : Distinct(connections'[g].free)
    BY <1>1, <1>4, <1>6, <1>9 DEF InOnePlace
  <2>2. \A f, g \in Made : f # g => FreeOf(f)' \cap FreeOf(g)' = {}
    BY <1>1, <1>13 DEF InOnePlace
  <2>3. \A q \in Holders', g \in Made : req'[q].conn \notin FreeOf(g)'
    BY SMT, <1>1, <1>5, <1>7, <1>12, <1>13 DEF InOnePlace
  <2>4. \A p, q \in Holders' : p # q => req'[p].conn # req'[q].conn
    BY SMT, <1>1, <1>5, <1>7, <1>12 DEF InOnePlace
  <2> QED
    BY <1>6, <2>1, <2>2, <2>3, <2>4 DEF InOnePlace
<1>15. LeadsRight'
  <2>1. \A g \in Made : Host(connections'[g].maker) = g
    BY SMT, <1>1, <1>4, <1>6, <1>9 DEF LeadsRight
  <2>2. \A g \in Made, t \in Pooled : t \in FreeOf(g)' => leads'[t] # None /\ (t \in guessed' \/ leads'[t] = g)
    BY ZenonT(40), <1>1, <1>13 DEF LeadsRight
  <2>3. ASSUME NEW q \in Holders'
        PROVE  leads'[req'[q].conn] # None /\ (req'[q].conn \in guessed' \/ leads'[req'[q].conn] = Host(q))
    <3>1. CASE q = r
      BY <3>1, <1>5 DEF h
    <3>2. CASE q \in Holders
      <4>1. req[q].conn \in Pooled
        BY <3>2, <1>1 DEF Holders, ClientTypes
      <4> QED
        BY ZenonT(40), <3>2, <4>1, <1>1, <1>12 DEF LeadsRight
    <3> QED
      BY <3>1, <3>2, <1>7
  <2> QED
    BY <1>6, <2>1, <2>2, <2>3 DEF LeadsRight
<1>16. Counted'
  <2> SUFFICES ASSUME NEW g \in Made
               PROVE  /\ Len(connections'[g].free) + connections'[g].num_borrowed =< max_connections_per_host
                      /\ Cardinality(HoldersOf(g)') =< connections'[g].num_borrowed
    BY <1>6 DEF Counted
  <2>1. CASE g = h
    <3>1. HoldersOf(h)' = HoldersOf(h) \cup {r} /\ r \notin HoldersOf(h)
      BY <1>7 DEF HoldersOf, h
    <3>2. Cardinality(HoldersOf(h)') = Cardinality(HoldersOf(h)) + 1 /\ Cardinality(HoldersOf(h)) \in Nat
      BY ZenonT(40), <3>1, HoldersFinite, FS_AddElement
    <3>3. Cardinality(HoldersOf(h)) =< connections[h].num_borrowed /\ connections[h].num_borrowed \in Nat
      BY <1>1, <1>3, <1>6 DEF Counted, Pools
    <3> QED
      BY SMT, <2>1, <3>2, <3>3, <1>4 DEF h, Pool
  <2>2. CASE g # h
    <3>1. HoldersOf(g)' = HoldersOf(g)
      BY <2>2, <1>7 DEF HoldersOf, h
    <3> QED
      BY <2>2, <3>1, <1>1, <1>4, <1>6 DEF Counted
  <2> QED
    BY <2>1, <2>2
<1> QED
  BY <1>10, <1>11, <1>14, <1>15, <1>16 DEF ClientInv

\* get() finds a connection in the pool.
LEMMA PooledKeeps ==
    ASSUME ClientInv, NEW r \in Requests, GetPooled(r)
    PROVE  ClientInv'
<1> DEFINE h == Host(r)
           q == connections[h].free
           s == q[Len(q)]
           f == SubSeq(q, 1, Len(q) - 1)
           pool == [connections[h] EXCEPT !.free = f, !.num_borrowed = @ + 1]
<1>1. /\ ClientTypes /\ HoldsWhile /\ InOnePlace /\ LeadsRight /\ Counted
      /\ req[r].pc \in {"get", "blocked"} /\ q # <<>> /\ Begin(r, s, pool)
      /\ leads' = leads /\ guessed' = guessed
  BY DEF ClientInv, GetPooled, Readers, Pool
<1>2. req[r].conn = None /\ h \in Made /\ connections[h] \in Pools
  BY <1>1 DEF HoldsWhile, Made, ClientTypes
<1>3. q \in Seq(Pooled) /\ connections[h].num_borrowed \in Nat /\ connections[h].maker \in Requests
  BY <1>2 DEF Pools
<1>4. Elems(q) = FreeOf(h) /\ Distinct(q)
  BY <1>1, <1>2 DEF FreeOf, InOnePlace
<1> HIDE DEF q
<1>5. /\ f \in Seq(Pooled) /\ s \in Pooled /\ Len(f) = Len(q) - 1 /\ Len(f) \in Nat
      /\ Elems(q) = Elems(f) \cup {s} /\ Distinct(f) /\ s \notin Elems(f)
  BY <1>1, <1>3, <1>4, BackRemoved
<1> HIDE DEF f, s
<1>6. /\ pool \in Pools /\ pool.maker = connections[h].maker /\ pool.free = f
      /\ pool.num_borrowed = connections[h].num_borrowed + 1
  <2> DEFINE p == connections[h]
             n == connections[h].num_borrowed + 1
             taken == [p EXCEPT !.free = f]
             counted == [taken EXCEPT !.num_borrowed = n]
  <2>1. p \in Pools /\ n \in Nat
    BY SMT, <1>2, <1>3
  <2>2. pool = counted
    OBVIOUS
  <2> HIDE DEF p, n, pool
  <2>3. taken \in Pools /\ taken.maker = p.maker /\ taken.free = f
    BY <1>5, <2>1 DEF Pools
  <2> HIDE DEF taken
  <2>4. counted \in Pools /\ counted.maker = taken.maker /\ counted.free = taken.free /\ counted.num_borrowed = n
    BY <2>1, <2>3 DEF Pools
  <2> HIDE DEF counted
  <2> QED
    BY <2>2, <2>3, <2>4 DEF p, n
<1> HIDE DEF pool
<1>7. Len(pool.free) + pool.num_borrowed =< max_connections_per_host
  <2>1. Len(q) + connections[h].num_borrowed =< max_connections_per_host
    BY <1>1, <1>2 DEF Counted, q
  <2>2. Len(q) \in Nat /\ max_connections_per_host \in Nat
    BY SMT, <1>3, ClientAssumption
  <2> QED
    BY SMT, <1>3, <1>5, <1>6, <2>1, <2>2
<1>8. s \in FreeOf(h)
  BY <1>4, <1>5
<1>9. (\A g \in Made \ {h} : s \notin FreeOf(g)) /\ \A p \in Holders : req[p].conn # s
  BY <1>1, <1>2, <1>8 DEF InOnePlace
<1>10. leads[s] # None /\ (s \in guessed \/ leads[s] = h) /\ leads \in [Pooled -> Hosts \cup {None}]
  BY <1>1, <1>2, <1>5, <1>8 DEF LeadsRight, ClientTypes
<1>11. Elems(pool.free) \subseteq FreeOf(h) /\ Distinct(pool.free) /\ s \notin Elems(pool.free)
  BY <1>4, <1>5, <1>6
<1> QED
  BY <1>1, <1>2, <1>5, <1>6, <1>7, <1>9, <1>10, <1>11, LoanKeeps DEF Pool

\* get() makes a connection: what never led anywhere is nobody's.
LEMMA MakesKeeps ==
    ASSUME ClientInv, NEW r \in Requests, GetMakes(r)
    PROVE  ClientInv'
<1> DEFINE h == Host(r)
           pool == [connections[h] EXCEPT !.num_borrowed = @ + 1]
           maker == connections[h].maker
<1>1. /\ ClientTypes /\ HoldsWhile /\ InOnePlace /\ LeadsRight /\ Counted
      /\ req[r].pc = "get" /\ connections[h].free = <<>>
      /\ connections[h].num_borrowed < max_connections_per_host
  BY DEF ClientInv, GetMakes, MayMake, Pool
<1>2. PICK s \in Pooled, g \in Hosts :
         /\ leads[s] = None
         /\ maker \in Over \/ g = Host(maker)
         /\ leads' = [leads EXCEPT ![s] = g]
         /\ guessed' = IF maker \in Over THEN guessed \cup {s} ELSE guessed
         /\ Begin(r, s, pool)
  BY DEF GetMakes, Pool
<1>3. req[r].conn = None /\ h \in Made /\ connections[h] \in Pools
  BY <1>1 DEF HoldsWhile, Made, ClientTypes
<1>4. /\ pool \in Pools /\ pool.maker = maker /\ pool.free = <<>>
      /\ pool.num_borrowed = connections[h].num_borrowed + 1
      /\ connections[h].num_borrowed \in Nat
  BY SMT, <1>1, <1>3 DEF Pools
<1>5. Host(maker) = h
  BY <1>1, <1>3 DEF LeadsRight
<1> HIDE DEF pool, maker
<1>6. Len(pool.free) + pool.num_borrowed =< max_connections_per_host
  BY SMT, <1>1, <1>4, ClientAssumption
<1>7. Elems(pool.free) = {} /\ Distinct(pool.free)
  BY SMT, <1>4 DEF Elems, Distinct
<1>8. (\A k \in Made : s \notin FreeOf(k)) /\ \A q \in Holders : req[q].conn # s
  BY <1>1, <1>2 DEF LeadsRight
<1>9. /\ leads' \in [Pooled -> Hosts \cup {None}] /\ leads'[s] = g /\ g # None
      /\ \A t \in Pooled : leads[t] # None => leads'[t] = leads[t]
  BY <1>1, <1>2, ClientAssumption DEF ClientTypes
<1>10. guessed \subseteq guessed' /\ (s \in guessed' \/ leads'[s] = h)
  BY <1>2, <1>5, <1>9
<1> QED
  BY <1>2, <1>3, <1>4, <1>6, <1>7, <1>8, <1>9, <1>10, LoanKeeps DEF Pool, maker

\* send() returns, and its connection goes back to the pool.
LEMMA ReturnKeeps ==
    ASSUME ClientInv, NEW r \in Requests, req[r].pc = "decoded",
           connections' = [connections EXCEPT ![Host(r)].num_borrowed = @ - 1,
                                              ![Host(r)].free = Append(@, req[r].conn)],
           req' = [req EXCEPT ![r] = [pc |-> "done", pool |-> None, conn |-> None]],
           UNCHANGED <<leads, guessed>>
    PROVE  ClientInv'
<1> DEFINE h == Host(r)
           s == req[r].conn
           q == connections[h].free
           n == connections[h].num_borrowed
<1>1. ClientTypes /\ HoldsWhile /\ InOnePlace /\ LeadsRight /\ Counted
  BY DEF ClientInv
<1>2. r \in Holders /\ s \in Pooled /\ h \in Made /\ connections[h] \in Pools /\ h \in Hosts
  BY <1>1, ClientAssumption DEF HoldsWhile, Holders, Made, ClientTypes
<1>3. q \in Seq(Pooled) /\ n \in Nat /\ connections[h].maker \in Requests
  BY <1>2 DEF Pools
<1>4. HoldersOf(h) \ {r} \subseteq HoldersOf(h) /\ r \in HoldersOf(h)
  BY <1>2 DEF HoldersOf
<1>5. /\ Cardinality(HoldersOf(h) \ {r}) = Cardinality(HoldersOf(h)) - 1
      /\ Cardinality(HoldersOf(h)) \in Nat \ {0} /\ Cardinality(HoldersOf(h)) =< n
      /\ Len(q) + n =< max_connections_per_host
  <2>1. Cardinality(HoldersOf(h) \ {r}) = Cardinality(HoldersOf(h)) - 1 /\ Cardinality(HoldersOf(h)) # 0
    BY <1>4, HoldersFinite, FS_RemoveElement, FS_EmptySet
  <2>2. Cardinality(HoldersOf(h)) =< n /\ Len(q) + n =< max_connections_per_host
    BY <1>1, <1>2 DEF Counted
  <2> QED
    BY <2>1, <2>2, HoldersFinite
<1>6. n - 1 \in Nat
  BY SMT, <1>3, <1>5
<1> DEFINE counted == [connections EXCEPT ![h].num_borrowed = n - 1]
           b == Append(q, s)
<1>7. connections' = [counted EXCEPT ![h].free = b]
  OBVIOUS
<1>8. Elems(q) = FreeOf(h) /\ Distinct(q) /\ s \notin Elems(q)
  BY <1>1, <1>2 DEF FreeOf, InOnePlace
<1> HIDE DEF q, n, s, h
<1>9. b \in Seq(Pooled) /\ Len(b) = Len(q) + 1 /\ Elems(b) = FreeOf(h) \cup {s} /\ Distinct(b)
  BY SMT, <1>2, <1>3, <1>8, OneAdded
<1> HIDE DEF b
<1>10. /\ counted \in [Hosts -> Pools \cup {None}] /\ counted[h] \in Pools
       /\ counted[h].num_borrowed = n - 1 /\ counted[h].maker = connections[h].maker
       /\ \A g \in Hosts \ {h} : counted[g] = connections[g]
  BY <1>1, <1>2, <1>6 DEF ClientTypes, Pools
<1> HIDE DEF counted
<1>11. /\ connections' \in [Hosts -> Pools \cup {None}] /\ connections'[h] \in Pools /\ connections'[h].free = b
       /\ connections'[h].num_borrowed = n - 1 /\ connections'[h].maker = connections[h].maker
       /\ \A g \in Hosts \ {h} : connections'[g] = connections[g]
  <2> DEFINE new == [counted[h] EXCEPT !.free = b]
  <2>1. new \in Pools /\ new.free = b /\ new.num_borrowed = n - 1 /\ new.maker = connections[h].maker
    BY <1>9, <1>10 DEF Pools
  <2>2. connections' = [counted EXCEPT ![h] = new]
    BY <1>7
  <2> HIDE DEF new
  <2> QED
    BY <1>2, <1>10, <2>1, <2>2
<1>12. /\ req' \in [Requests -> [pc : RequestStates, pool : Requests \cup {None}, conn : Pooled \cup {None}]]
       /\ req'[r].pc = "done" /\ req'[r].conn = None /\ \A p \in Requests \ {r} : req'[p] = req[p]
  BY <1>1 DEF ClientTypes, RequestStates
<1>13. Made' = Made /\ Made \subseteq Hosts
  BY ZenonT(40), <1>2, <1>11, ClientAssumption DEF Made
<1>14. /\ Holders' = Holders \ {r} /\ Holders \subseteq Requests
       /\ \A p \in Holders' : req'[p].conn = req[p].conn /\ p \in Holders /\ p # r
  BY <1>12 DEF Holders
<1>15. FreeOf(h)' = FreeOf(h) \cup {s} /\ \A g \in Made \ {h} : FreeOf(g)' = FreeOf(g)
  BY <1>9, <1>11, <1>13 DEF FreeOf
<1>16. \A g \in Made \ {h} : s \notin FreeOf(g)
  BY <1>1, <1>2 DEF InOnePlace, s
<1>17. \A p \in Holders' : req[p].conn # s
  BY <1>1, <1>2, <1>14 DEF InOnePlace, s
<1>18. ClientTypes'
  BY <1>1, <1>11, <1>12 DEF ClientTypes
<1>19. HoldsWhile'
  <2> SUFFICES ASSUME NEW p \in Requests
               PROVE  /\ req'[p].conn # None <=> req'[p].pc \in {"encoding", "encoded", "decoding", "decoded"}
                      /\ req'[p].pc \notin {"new", "lookup", "insert", "done"} => Host(p) \in Made
                      /\ req'[p].conn # None => req'[p].pool = connections'[Host(p)].maker
    BY <1>13 DEF HoldsWhile, Pool
  <2>1. CASE p = r
    BY <2>1, <1>12
  <2>2. CASE p # r
    <3>1. connections'[Host(p)].maker = connections[Host(p)].maker
      BY <1>11, ClientAssumption
    <3> QED
      BY <2>2, <3>1, <1>1, <1>12 DEF HoldsWhile, Pool
  <2> QED
    BY <2>1, <2>2
<1>20. InOnePlace'
  <2>1. \A g \in Made : Distinct(connections'[g].free)
    BY <1>1, <1>9, <1>11, <1>13 DEF InOnePlace
  <2>2. ASSUME NEW f \in Made, NEW g \in Made, f # g PROVE FreeOf(f)' \cap FreeOf(g)' = {}
    <3>1. FreeOf(f) \cap FreeOf(g) = {}
      BY <1>1, <2>2 DEF InOnePlace
    <3>2. CASE f = h
      BY SMT, <2>2, <3>1, <3>2, <1>15, <1>16
    <3>3. CASE g = h
      BY SMT, <2>2, <3>1, <3>3, <1>15, <1>16
    <3>4. CASE f # h /\ g # h
      BY <3>1, <3>4, <1>15
    <3> QED
      BY <3>2, <3>3, <3>4
  <2>3. \A p \in Holders', g \in Made : req'[p].conn \notin FreeOf(g)'
    BY SMT, <1>1, <1>2, <1>14, <1>15, <1>17 DEF InOnePlace
  <2>4. \A p, k \in Holders' : p # k => req'[p].conn # req'[k].conn
    BY SMT, <1>1, <1>14 DEF InOnePlace
  <2> QED
    BY <1>13, <2>1, <2>2, <2>3, <2>4 DEF InOnePlace
<1>21. LeadsRight'
  <2>1. \A g \in Made : Host(connections'[g].maker) = g
    BY SMT, <1>1, <1>11, <1>13 DEF LeadsRight
  <2>2. leads[s] # None /\ (s \in guessed \/ leads[s] = h)
    BY <1>1, <1>2 DEF LeadsRight, s, h
  <2>3. \A g \in Made, t \in Pooled : t \in FreeOf(g)' => leads[t] # None /\ (t \in guessed \/ leads[t] = g)
    BY SMT, <1>1, <1>2, <1>15, <2>2 DEF LeadsRight
  <2>4. \A p \in Holders' :
          leads[req'[p].conn] # None /\ (req'[p].conn \in guessed \/ leads[req'[p].conn] = Host(p))
    BY <1>1, <1>14 DEF LeadsRight
  <2> QED
    BY <1>13, <2>1, <2>3, <2>4 DEF LeadsRight
<1>22. Counted'
  <2> SUFFICES ASSUME NEW g \in Made
               PROVE  /\ Len(connections'[g].free) + connections'[g].num_borrowed =< max_connections_per_host
                      /\ Cardinality(HoldersOf(g)') =< connections'[g].num_borrowed
    BY <1>13 DEF Counted
  <2>1. CASE g = h
    <3>1. HoldersOf(h)' = HoldersOf(h) \ {r}
      BY <1>14 DEF HoldersOf
    <3>2. Len(q) \in Nat /\ max_connections_per_host \in Nat
      BY SMT, <1>3, ClientAssumption
    <3> QED
      BY SMT, <2>1, <3>1, <3>2, <1>3, <1>5, <1>9, <1>11
  <2>2. CASE g # h
    <3>1. HoldersOf(g)' = HoldersOf(g)
      BY <2>2, <1>14 DEF HoldersOf, h
    <3> QED
      BY <2>2, <3>1, <1>1, <1>11, <1>13 DEF Counted
  <2> QED
    BY <2>1, <2>2
<1> QED
  BY SMT, <1>18, <1>19, <1>20, <1>21, <1>22 DEF ClientInv

\* The pool of a host without one: no request can hold a connection of it.
LEMMA InsertKeeps ==
    ASSUME ClientInv, NEW r \in Requests, Insert(r)
    PROVE  ClientInv'
<1> DEFINE h == Host(r)
<1>1. /\ ClientTypes /\ HoldsWhile /\ InOnePlace /\ LeadsRight /\ Counted
      /\ req[r].pc = "insert" /\ At(r, "lookup") /\ leads' = leads /\ guessed' = guessed
      /\ connections' = [connections EXCEPT ![h] = IF connections[h] = None THEN NewPool(r) ELSE connections[h]]
  BY DEF ClientInv, Insert
<1>2. h \in Hosts /\ req[r].conn = None /\ "lookup" \in RequestStates
  BY <1>1, ClientAssumption DEF HoldsWhile, RequestStates
<1>3. CASE connections[h] # None
  <2>1. connections' = connections
    BY <1>1, <1>2, <1>3 DEF ClientTypes
  <2> QED
    BY <1>1, <1>2, <2>1, PcKeeps
<1>4. CASE connections[h] = None
  <2> DEFINE new == NewPool(r)
  <2>1. /\ new \in Pools /\ new # None /\ new.maker = r /\ new.free = <<>> /\ new.num_borrowed = 0
    <3>1. new \in Pools /\ new.maker = r /\ new.free = <<>> /\ new.num_borrowed = 0
      BY SMT DEF NewPool, Pools
    <3> QED
      BY <3>1, ClientAssumption
  <2> HIDE DEF new
  <2>2. /\ connections' \in [Hosts -> Pools \cup {None}]
        /\ connections'[h] = new /\ \A g \in Hosts \ {h} : connections'[g] = connections[g]
    <3>1. connections' = [connections EXCEPT ![h] = new]
      BY <1>1, <1>4 DEF new
    <3> QED
      BY SMT, <3>1, <1>1, <1>2, <2>1 DEF ClientTypes
  <2>3. /\ req' \in [Requests -> [pc : RequestStates, pool : Requests \cup {None}, conn : Pooled \cup {None}]]
        /\ \A q \in Requests : req'[q].conn = req[q].conn /\ req'[q].pool = req[q].pool
        /\ req'[r].pc = "lookup" /\ \A q \in Requests \ {r} : req'[q].pc = req[q].pc
    BY SMT, <1>1, <1>2 DEF At, ClientTypes
  <2>4. Made' = Made \cup {h} /\ h \notin Made /\ Made \subseteq Hosts
    BY <1>2, <1>4, <2>1, <2>2 DEF Made
  <2>5. Holders' = Holders /\ Holders \subseteq Requests /\ \A g : HoldersOf(g)' = HoldersOf(g)
    BY <2>3 DEF Holders, HoldersOf
  <2>6. \A q \in Holders : Host(q) \in Made
    BY <1>1 DEF HoldsWhile, Holders
  <2>7. FreeOf(h)' = {} /\ Distinct(connections'[h].free) /\ \A g \in Made : FreeOf(g)' = FreeOf(g)
    BY SMT, <2>1, <2>2, <2>4 DEF FreeOf, Elems, Distinct
  <2>8. ClientTypes'
    BY <1>1, <2>2, <2>3 DEF ClientTypes
  <2>9. HoldsWhile'
    <3> SUFFICES ASSUME NEW q \in Requests
                 PROVE  /\ req'[q].conn # None <=> req'[q].pc \in {"encoding", "encoded", "decoding", "decoded"}
                        /\ req'[q].pc \notin {"new", "lookup", "insert", "done"} => Host(q) \in Made'
                        /\ req'[q].conn # None => req'[q].pool = connections'[Host(q)].maker
      BY DEF HoldsWhile, Pool
    <3>1. CASE q = r
      BY <3>1, <1>2, <2>3
    <3>2. CASE q # r
      <4>1. req[q].conn # None => Host(q) \in Made
        BY <2>6 DEF Holders
      <4>2. req[q].conn # None => connections'[Host(q)] = connections[Host(q)]
        BY <4>1, <2>2, <2>4
      <4> QED
        BY <3>2, <4>2, <1>1, <2>3, <2>4 DEF HoldsWhile, Pool
    <3> QED
      BY <3>1, <3>2
  <2>10. InOnePlace'
    <3>1. \A g \in Made' : Distinct(connections'[g].free)
      BY ZenonT(40), <1>1, <2>2, <2>4, <2>7 DEF InOnePlace
    <3>2. \A f, g \in Made' : f # g => FreeOf(f)' \cap FreeOf(g)' = {}
      BY <1>1, <2>4, <2>7 DEF InOnePlace
    <3>3. \A q \in Holders, g \in Made' : req'[q].conn \notin FreeOf(g)'
      BY ZenonT(40), <1>1, <2>3, <2>4, <2>5, <2>7 DEF InOnePlace
    <3>4. \A p, q \in Holders : p # q => req'[p].conn # req'[q].conn
      BY ZenonT(40), <1>1, <2>3, <2>5 DEF InOnePlace
    <3> QED
      BY SMT, <2>5, <3>1, <3>2, <3>3, <3>4 DEF InOnePlace
  <2>11. LeadsRight'
    <3>1. \A g \in Made' : Host(connections'[g].maker) = g
      BY <1>1, <2>1, <2>2, <2>4 DEF LeadsRight
    <3>2. \A g \in Made', t \in Pooled : t \in FreeOf(g)' => leads[t] # None /\ (t \in guessed \/ leads[t] = g)
      BY SMT, <1>1, <2>4, <2>7 DEF LeadsRight
    <3>3. \A q \in Holders :
            leads[req'[q].conn] # None /\ (req'[q].conn \in guessed \/ leads[req'[q].conn] = Host(q))
      BY <1>1, <2>3, <2>5 DEF LeadsRight
    <3> QED
      BY <1>1, <2>5, <3>1, <3>2, <3>3 DEF LeadsRight
  <2>12. Counted'
    <3> SUFFICES ASSUME NEW g \in Made'
                 PROVE  /\ Len(connections'[g].free) + connections'[g].num_borrowed =< max_connections_per_host
                        /\ Cardinality(HoldersOf(g)) =< connections'[g].num_borrowed
      BY <2>5 DEF Counted
    <3>1. CASE g = h
      <4>1. HoldersOf(h) = {}
        BY <2>4, <2>6 DEF HoldersOf
      <4>2. Cardinality(HoldersOf(h)) = 0
        BY <4>1, FS_EmptySet
      <4> QED
        BY SMT, <3>1, <4>2, <2>1, <2>2, ClientAssumption
    <3>2. CASE g \in Made
      BY SMT, <3>2, <1>1, <2>2, <2>4 DEF Counted
    <3> QED
      BY <3>1, <3>2, <2>4
  <2> QED
    BY <2>8, <2>9, <2>10, <2>11, <2>12 DEF ClientInv
<1> QED
  BY <1>3, <1>4

\* The factory throws: the count grows, and no request has a connection for it.
LEMMA ThrowKeeps ==
    ASSUME ClientInv, NEW r \in Requests, GetThrows(r)
    PROVE  ClientInv'
<1> DEFINE h == Host(r)
           new == [connections[h] EXCEPT !.num_borrowed = @ + 1]
<1>1. /\ ClientTypes /\ HoldsWhile /\ InOnePlace /\ LeadsRight /\ Counted
      /\ req[r].pc = "get" /\ connections[h].free = <<>>
      /\ connections[h].num_borrowed < max_connections_per_host
      /\ At(r, "done") /\ leads' = leads /\ guessed' = guessed
      /\ connections' = [connections EXCEPT ![h] = new]
  BY DEF ClientInv, GetThrows, MayMake, Pool
<1>2. req[r].conn = None /\ h \in Made /\ connections[h] \in Pools /\ h \in Hosts
  BY <1>1, ClientAssumption DEF HoldsWhile, Made, ClientTypes
<1>3. /\ new \in Pools /\ new.maker = connections[h].maker /\ new.free = connections[h].free
      /\ new.num_borrowed = connections[h].num_borrowed + 1 /\ connections[h].num_borrowed \in Nat
      /\ new # None
  BY SMT, <1>2, ClientAssumption DEF Pools
<1> HIDE DEF new
<1>4. /\ connections' \in [Hosts -> Pools \cup {None}]
      /\ connections'[h] = new /\ \A g \in Hosts \ {h} : connections'[g] = connections[g]
  BY <1>1, <1>2, <1>3 DEF ClientTypes
<1>5. /\ req' \in [Requests -> [pc : RequestStates, pool : Requests \cup {None}, conn : Pooled \cup {None}]]
      /\ \A q \in Requests : req'[q].conn = req[q].conn /\ req'[q].pool = req[q].pool
      /\ req'[r].pc = "done" /\ \A q \in Requests \ {r} : req'[q].pc = req[q].pc
  BY <1>1 DEF At, ClientTypes, RequestStates
<1>6. Made' = Made /\ Made \subseteq Hosts
  BY <1>2, <1>3, <1>4 DEF Made
<1>7. Holders' = Holders /\ Holders \subseteq Requests /\ \A g : HoldersOf(g)' = HoldersOf(g)
  BY <1>5 DEF Holders, HoldersOf
<1>8. \A g \in Hosts : connections'[g].free = connections[g].free /\ connections'[g].maker = connections[g].maker
  BY <1>3, <1>4
<1>9. \A g \in Made : FreeOf(g)' = FreeOf(g)
  BY <1>6, <1>8 DEF FreeOf
<1>10. ClientTypes'
  BY <1>1, <1>4, <1>5 DEF ClientTypes
<1>11. HoldsWhile'
  <2> SUFFICES ASSUME NEW q \in Requests
               PROVE  /\ req'[q].conn # None <=> req'[q].pc \in {"encoding", "encoded", "decoding", "decoded"}
                      /\ req'[q].pc \notin {"new", "lookup", "insert", "done"} => Host(q) \in Made
                      /\ req'[q].conn # None => req'[q].pool = connections'[Host(q)].maker
    BY <1>6 DEF HoldsWhile, Pool
  <2>1. connections'[Host(q)].maker = connections[Host(q)].maker
    BY <1>8, ClientAssumption
  <2>2. CASE q = r
    BY <2>2, <1>2, <1>5
  <2>3. CASE q # r
    BY <2>1, <2>3, <1>1, <1>5 DEF HoldsWhile, Pool
  <2> QED
    BY <2>2, <2>3
<1>12. InOnePlace'
  BY SMT, <1>1, <1>5, <1>6, <1>7, <1>8, <1>9 DEF InOnePlace
<1>13. LeadsRight'
  BY SMT, <1>1, <1>5, <1>6, <1>7, <1>8, <1>9 DEF LeadsRight
<1>14. Counted'
  <2> SUFFICES ASSUME NEW g \in Made
               PROVE  /\ Len(connections'[g].free) + connections'[g].num_borrowed =< max_connections_per_host
                      /\ Cardinality(HoldersOf(g)) =< connections'[g].num_borrowed
    BY <1>6, <1>7 DEF Counted
  <2>1. CASE g = h
    <3>1. Cardinality(HoldersOf(h)) =< connections[h].num_borrowed /\ Cardinality(HoldersOf(h)) \in Nat
      BY <1>1, <1>2, HoldersFinite DEF Counted
    <3> QED
      BY SMT, <2>1, <3>1, <1>1, <1>3, <1>4, ClientAssumption
  <2>2. CASE g # h
    BY <2>2, <1>1, <1>4, <1>6 DEF Counted
  <2> QED
    BY <2>1, <2>2
<1> QED
  BY <1>10, <1>11, <1>12, <1>13, <1>14 DEF ClientInv

\* Init establishes it.
LEMMA ClientInvInit == Init => ClientInv
<1> SUFFICES ASSUME Init PROVE ClientInv
  OBVIOUS
<1>1. /\ connections = [h \in Hosts |-> None] /\ leads = [s \in Pooled |-> None]
      /\ req = [r \in Requests |-> [pc |-> "new", pool |-> None, conn |-> None]]
  BY DEF Init, ClientInit
<1>2. Made = {} /\ Holders = {} /\ ClientTypes
  BY <1>1 DEF Made, Holders, ClientTypes, RequestStates
<1>3. HoldsWhile
  BY <1>1 DEF HoldsWhile
<1> QED
  BY <1>2, <1>3 DEF ClientInv, InOnePlace, LeadsRight, Counted

\* The client is destroyed, when no request is under way.
LEMMA DestroyingKeeps ==
    ASSUME ClientInv, DestroyClient
    PROVE  ClientInv'
<1>1. /\ ClientTypes /\ HoldsWhile /\ connections' = [h \in Hosts |-> None] /\ UNCHANGED <<req, leads, guessed>>
      /\ \A r \in Requests : req[r].pc \in {"new", "done"}
  BY DEF ClientInv, DestroyClient, Active
<1>2. Made' = {} /\ Holders' = {}
  BY <1>1 DEF Made, Holders, HoldsWhile
<1>3. ClientTypes'
  BY <1>1 DEF ClientTypes
<1>4. HoldsWhile'
  BY <1>1 DEF HoldsWhile
<1> QED
  BY <1>2, <1>3, <1>4 DEF ClientInv, InOnePlace, LeadsRight, Counted

\* Every step keeps it.
LEMMA ClientInvNext == ClientInv /\ [Next]_vars => ClientInv'
<1> SUFFICES ASSUME ClientInv, [Next]_vars PROVE ClientInv'
  OBVIOUS
<1>1. CASE UNCHANGED <<connections, req, leads, guessed>>
  <2>1. ClientTypes /\ HoldsWhile
    BY DEF ClientInv
  <2>2. HoldsWhile'
    BY <1>1, <2>1 DEF HoldsWhile, Made, Pool
  <2> QED
    BY <1>1, <2>1, <2>2, SameLoans DEF ClientTypes
<1>2. ASSUME NEW r \in Requests, WorkerStep(r) PROVE ClientInv'
  <2>0. HoldsWhile
    BY DEF ClientInv
  <2>1. CASE Lookup(r)
    <3>1. /\ req[r].pc = "lookup" /\ UNCHANGED <<connections, leads, guessed>>
          /\ At(r, IF connections[Host(r)] = None THEN "insert" ELSE "get")
      BY <2>1 DEF Lookup
    <3>2. req[r].conn = None /\ Host(r) \in Hosts /\ "insert" \in RequestStates /\ "get" \in RequestStates
      BY <2>0, <3>1, ClientAssumption DEF HoldsWhile, RequestStates
    <3>3. CASE connections[Host(r)] = None
      BY <3>1, <3>2, <3>3, PcKeeps
    <3>4. CASE connections[Host(r)] # None
      <4>1. Host(r) \in Made /\ At(r, "get")
        BY <3>1, <3>2, <3>4 DEF Made
      <4> QED
        BY <3>1, <3>2, <4>1, PcKeeps
    <3> QED
      BY <3>3, <3>4
  <2>2. CASE Insert(r)
    BY <2>2, InsertKeeps
  <2>3. CASE GetPooled(r)
    BY <2>3, PooledKeeps
  <2>4. CASE GetMakes(r)
    BY <2>4, MakesKeeps
  <2>5. CASE GetThrows(r)
    BY <2>5, ThrowKeeps
  <2>6. CASE GetCrashes(r)
    BY <2>6, <1>1 DEF GetCrashes, clientVars
  <2>7. CASE GetBlocks(r)
    <3>1. req[r].pc = "get" /\ At(r, "blocked") /\ UNCHANGED <<connections, leads, guessed>>
      BY <2>7 DEF GetBlocks
    <3>2. req[r].conn = None /\ Host(r) \in Made /\ "blocked" \in RequestStates
      BY <2>0, <3>1 DEF HoldsWhile, RequestStates
    <3> QED
      BY <3>1, <3>2, PcKeeps
  <2> QED
    BY SMT, <1>2, <2>1, <2>2, <2>3, <2>4, <2>5, <2>6, <2>7 DEF WorkerStep
<1>3. ASSUME NEW r \in Requests, NEW pc \in {"encoded", "decoding", "decoded"}, At(r, pc),
             req[r].pc \in {"encoding", "encoded", "decoding"}, UNCHANGED <<connections, leads, guessed>>
      PROVE  ClientInv'
  <2>1. req[r].conn # None /\ Host(r) \in Made /\ pc \in RequestStates
    BY <1>3 DEF ClientInv, HoldsWhile, RequestStates
  <2> QED
    BY <1>3, <2>1, PcKeeps
<1>4. ASSUME NEW r \in Requests, Answer(r) PROVE ClientInv'
  BY <1>3, <1>4 DEF Answer
<1>5. ASSUME NEW r \in Requests, NEW w \in Workers, SendGoesOn(w, r) PROVE ClientInv'
  <2>1. CASE req[r].pc = "encoded" /\ At(r, "decoding") /\ UNCHANGED connections
    BY <1>3, <1>5, <2>1 DEF SendGoesOn
  <2>2. CASE /\ req[r].pc = "decoded"
             /\ connections' = [connections EXCEPT ![Host(r)].num_borrowed = @ - 1,
                                                   ![Host(r)].free = Append(@, req[r].conn)]
             /\ req' = [req EXCEPT ![r] = [pc |-> "done", pool |-> None, conn |-> None]]
    BY <1>5, <2>2, ReturnKeeps DEF SendGoesOn
  <2> QED
    BY <1>5, <2>1, <2>2 DEF SendGoesOn
<1>6. ASSUME NEW r \in Requests, NEW w \in Workers, Send(w, r) PROVE ClientInv'
  <2>1. /\ req[r].pc = "new" /\ UNCHANGED <<connections, leads, guessed>>
        /\ At(r, "lookup") \/ At(r, "done")
    BY <1>6 DEF Send
  <2>2. req[r].conn = None /\ "lookup" \in RequestStates /\ "done" \in RequestStates
    BY <2>1 DEF ClientInv, HoldsWhile, RequestStates
  <2> QED
    BY <2>1, <2>2, PcKeeps
<1>7. CASE MoveClient
  BY <1>1, <1>7 DEF MoveClient
<1>8. CASE DestroyClient
  BY <1>8, DestroyingKeeps
<1>9. CASE UNCHANGED clientVars \/ UNCHANGED vars
  BY <1>1, <1>9 DEF vars, clientVars
<1> QED
  BY SMT, <1>2, <1>4, <1>5, <1>6, <1>7, <1>8, <1>9 DEF Next, ClientNext

\* A connection is lent to one request at a time, out of the pool its host still has,
\* and no host gets more than its share, whatever the threads do.
THEOREM LoansSafe == Spec => []ConnectionsLent
<1>1. ClientInv => ConnectionsLent
  <2> SUFFICES ASSUME ClientInv PROVE ConnectionsLent
    OBVIOUS
  <2>1. ClientTypes /\ HoldsWhile /\ InOnePlace /\ LeadsRight /\ Counted
    BY DEF ClientInv
  <2>2. ASSUME NEW r \in Holders
        PROVE  /\ \A q \in Holders \ {r} : req[q].conn # req[r].conn
               /\ Pool(r) # None /\ req[r].pool = Pool(r).maker
               /\ \A i \in DOMAIN Pool(r).free : Pool(r).free[i] # req[r].conn
               /\ req[r].conn \notin guessed => leads[req[r].conn] = Host(r)
    <3>1. Host(r) \in Made /\ req[r].pool = Pool(r).maker
      BY <2>1 DEF Holders, HoldsWhile
    <3>2. req[r].conn \notin FreeOf(Host(r))
      BY <2>1, <3>1 DEF InOnePlace
    <3>3. \A q \in Holders \ {r} : req[q].conn # req[r].conn
      BY <2>1 DEF InOnePlace
    <3>4. req[r].conn \notin guessed => leads[req[r].conn] = Host(r)
      BY <2>1 DEF LeadsRight
    <3> QED
      BY <3>1, <3>2, <3>3, <3>4 DEF Made, Pool, FreeOf, Elems
  <2>3. ASSUME NEW h \in Hosts, connections[h] # None
        PROVE  Len(connections[h].free) + Cardinality({r \in Holders : Host(r) = h})
                 =< max_connections_per_host
    <3>1. h \in Made /\ connections[h] \in Pools
      BY <2>1, <2>3 DEF Made, ClientTypes
    <3>2. Len(connections[h].free) \in Nat /\ connections[h].num_borrowed \in Nat
      BY SMT, <3>1 DEF Pools
    <3>3. /\ Len(connections[h].free) + connections[h].num_borrowed =< max_connections_per_host
          /\ Cardinality(HoldersOf(h)) =< connections[h].num_borrowed /\ Cardinality(HoldersOf(h)) \in Nat
      BY <2>1, <3>1, HoldersFinite DEF Counted
    <3> QED
      BY SMT, <3>2, <3>3, ClientAssumption DEF HoldersOf
  <2> QED
    BY <2>2, <2>3 DEF ConnectionsLent
<1> QED
  BY ClientInvInit, ClientInvNext, <1>1, PTL DEF Spec

=============================================================================
