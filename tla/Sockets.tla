------------------------------ MODULE Sockets ------------------------------
(***************************************************************************)
(* net::socket with tcp_socket and udp_socket: objects that own descriptors*)
(* of the process.  The kernel hands out the lowest number that is free,   *)
(* so a number an object remembers may meanwhile be someone else's.        *)
(*                                                                         *)
(* On kqueue, register_handle() and deregister_handle() do nothing; a      *)
(* descriptor leaves the queue when it is closed.                          *)
(***************************************************************************)
EXTENDS Naturals, FiniteSetsExt, Sequences

CONSTANTS
    Objects,    \* the sockets, and the listener
    Fds,        \* descriptor numbers
    Invalid,    \* invalid_fd
    None

ASSUME SocketAssumption == Fds \subseteq Nat /\ Invalid \notin Fds /\ None \notin Objects

VARIABLES
    app,        \* which program this is: "server" or "client"
    fd,         \* the member fd of each object
    owner,      \* the object a descriptor was opened for, None: the number is free
    so_error,   \* descriptors with a pending error, SO_ERROR
    leaked,     \* history: descriptors close() left open
    spent,      \* history: objects that remember a descriptor they have closed
    robbed      \* history: objects whose descriptor another object closed

socketVars == <<fd, owner, so_error, leaked, spent, robbed>>

SocketInit ==
    /\ app \in {"server", "client"}
    /\ fd = [o \in Objects |-> Invalid]
    /\ owner = [d \in Fds |-> None]
    /\ so_error = {} /\ leaked = {} /\ spent = {} /\ robbed = {}

Free == {d \in Fds : owner[d] = None}

\* What becomes of each address getaddrinfo() gives.
Attempts == UNION {[1..n -> {"no_socket", "option_fails", "refused", "connected"}] : n \in 0..2}

\* tcp_socket::open() goes on to the next address, but throws when an option
\* cannot be set; a socket that is not connected is closed again.
TcpOpens(attempts) ==
    LET last == {i \in DOMAIN attempts : attempts[i] \in {"option_fails", "connected"}}
    IN last # {} /\ attempts[Min(last)] = "connected"

\* udp_socket::open() takes the first socket there is.
UdpOpens(attempts) == \E i \in DOMAIN attempts : attempts[i] # "no_socket"

\* The constructor of listener passes over every address that fails.
ListenerOpens(attempts) == \E i \in DOMAIN attempts : attempts[i] = "connected"

TcpOutcomes == {TcpOpens(a) : a \in Attempts}
UdpOutcomes == {UdpOpens(a) : a \in Attempts}
ListenerOutcomes == {ListenerOpens(a) : a \in Attempts}

\* The constructors: o takes a new descriptor.
Adopt(o) ==
    /\ Free # {}
    /\ LET d == Min(Free) IN
      /\ fd' = [fd EXCEPT ![o] = d]
      /\ owner' = [owner EXCEPT ![d] = o]
      /\ spent' = spent \ {o} /\ robbed' = robbed \ {o}
      /\ UNCHANGED <<so_error, leaked>>

\* valid(); asking for the pending error also clears it.
Valid(o) == fd[o] # Invalid /\ fd[o] \notin Free /\ fd[o] \notin so_error
ClearError(o) == so_error' = so_error \ {fd[o]}

\* close(), of every object of S.  A descriptor with a pending error stays open.
Release(S) ==
    LET numbers == {fd[o] : o \in S} \ {Invalid}
        closing == {fd[o] : o \in {p \in S : Valid(p)}}
    IN /\ owner' = [d \in Fds |-> IF d \in closing THEN None ELSE owner[d]]
       /\ so_error' = so_error \ numbers
       /\ leaked' = leaked \cup {d \in numbers \ closing : owner[d] \in S}
       /\ robbed' = robbed \cup {owner[d] : d \in {c \in closing : owner[c] \notin S}}

\* An explicit close() leaves the number in fd.
CloseSocket(o) ==
    /\ Release({o})
    /\ spent' = spent \cup {o}
    /\ UNCHANGED fd

\* The destructor.
Destroy(S) ==
    /\ Release(S)
    /\ fd' = [o \in Objects |-> IF o \in S THEN Invalid ELSE fd[o]]
    /\ spent' = spent \ S

\* std::exchange() forgets to clear the other object.
MoveKeeps(o, p) ==
    /\ o # p
    /\ owner' = [d \in Fds |-> IF d = fd[p] THEN o ELSE IF d = fd[o] THEN None ELSE owner[d]]
    /\ fd' = [fd EXCEPT ![o] = fd[p]]
    /\ UNCHANGED <<so_error, leaked, spent, robbed>>

\* o = std::move(p) and the move constructor, where o has no descriptor yet.  What o
\* had is closed, whatever error is pending and whoever has it by now: p too may have.
Move(o, p) ==
    LET victims == {q \in Objects \ {o} : fd[o] \in Fds /\ fd[q] = fd[o] /\ owner[fd[o]] = q}
        Follows(S) == (S \ {o, p}) \cup (IF p \in S THEN {o} ELSE {})
    IN /\ o # p
       /\ owner' = [d \in Fds |-> IF d = fd[o] THEN None
                                  ELSE IF d = fd[p] /\ owner[d] = p THEN o ELSE owner[d]]
       /\ fd' = [fd EXCEPT ![o] = fd[p], ![p] = Invalid]
       /\ so_error' = so_error \ {fd[o]}
       /\ robbed' = Follows(robbed \cup victims)
       /\ spent' = Follows(spent)
       /\ UNCHANGED leaked

\* ::close(fd) without a look at the descriptor.
RawClose(o) ==
    /\ owner' = [owner EXCEPT ![fd[o]] = None]
    /\ so_error' = so_error \ {fd[o]}
    /\ robbed' = robbed \cup ({owner[fd[o]]} \ {o, None})

\* The peer of an open socket resets the connection.
Reset(o) ==
    /\ o \notin spent
    /\ fd[o] # Invalid
    /\ so_error' = so_error \cup {fd[o]}
    /\ UNCHANGED <<fd, owner, leaked, spent, robbed>>

\* A descriptor belongs to the object that opened it or was given it by a move, and
\* to no other: it is open as long as the object has not closed it, unless a
\* socket that was close()d before closes the number again when it is destroyed or
\* assigned to (socket.cpp:213 leaves it in fd, :82 and :90 close it).  No descriptor
\* is forgotten, but where close() gives up on a pending error (socket.cpp:201).
DescriptorsOwned ==
    /\ \A o \in Objects \ (spent \cup robbed) : fd[o] # Invalid => owner[fd[o]] = o
    /\ \A d \in Fds \ (Free \cup leaked) : fd[owner[d]] = d

=============================================================================
