----------------------------- MODULE HttpServer -----------------------------
(***************************************************************************)
(* http::server over net::listener: serve() accepts connections, a task    *)
(* serve_connection() answers the requests of each, and another thread     *)
(* calls close().  The program has sockets of its own besides.             *)
(***************************************************************************)
EXTENDS Sockets

CONSTANTS
    Main,       \* the listener
    Accepted,   \* serve()'s client_sock
    Conns,      \* the sockets of the tasks serve_connection()
    Users,      \* other sockets of the program
    MaxOpens    \* bound on how often those are opened

ASSUME ServerAssumption ==
    /\ Main \in Objects /\ Accepted \in Objects \ {Main}
    /\ Conns \subseteq Objects \ {Main, Accepted}
    /\ Users \subseteq Objects \ (Conns \cup {Main, Accepted})

VARIABLES
    is_serving,
    is_listening,
    serve,          \* where serve() stands
    waits_on,       \* what accept() waits on: [fd, file: the object it was opened for]
    closer,         \* where close() stands
    opens,          \* how often a socket of Users was opened
    conn            \* where the task of each connection stands

serverVars == <<is_serving, is_listening, serve, waits_on, closer, opens, conn>>

NoWait == [fd |-> Invalid, file |-> None]

ServerInit ==
    /\ is_serving = FALSE /\ is_listening = FALSE
    /\ serve = "off" /\ waits_on = NoWait /\ closer = "off" /\ opens = 0
    /\ conn = [c \in Conns |-> "off"]

ServeAt(pc) == serve' = pc /\ UNCHANGED <<is_serving, closer, opens>>

\* The constructor of server; without a listening socket there is no server.
Construct ==
    /\ app = "server" /\ serve = "off"
    /\ \/ TRUE \in ListenerOutcomes /\ Adopt(Main) /\ ServeAt("made")
       \/ FALSE \in ListenerOutcomes /\ ServeAt("done") /\ UNCHANGED socketVars
    /\ UNCHANGED <<app, is_listening, waits_on, conn>>

Serve ==
    /\ serve = "made"
    /\ is_serving' = TRUE
    /\ serve' = "listen"
    /\ UNCHANGED <<app, socketVars, is_listening, waits_on, closer, conn, opens>>

\* ::listen() may fail, which leaves both flags set.
Listen ==
    /\ serve = "listen"
    /\ is_listening' = TRUE
    /\ ServeAt("loop") \/ ServeAt("failed")
    /\ UNCHANGED <<app, socketVars, waits_on, conn>>

\* The loop does not look at is_serving.
LoopForever ==
    /\ serve = "loop"
    /\ ServeAt("accept")
    /\ UNCHANGED <<app, socketVars, is_listening, waits_on, conn>>

Loop ==
    /\ serve = "loop"
    /\ ServeAt(IF is_serving THEN "accept" ELSE "done")
    /\ UNCHANGED <<app, socketVars, is_listening, waits_on, conn>>

\* accept() throws when the listener is not listening, and serve() goes on.
\* Otherwise it waits, on whatever the number main_fd stands for by now.
AcceptBegins ==
    /\ serve = "accept"
    /\ IF is_listening
       THEN /\ ServeAt("wait")
            /\ waits_on' = [fd |-> fd[Main], file |-> IF fd[Main] = Invalid THEN None ELSE owner[fd[Main]]]
       ELSE ServeAt("loop") /\ UNCHANGED waits_on
    /\ UNCHANGED <<app, socketVars, is_listening, conn>>

\* An event resumes accept(); a closed descriptor has none.
AcceptResumes ==
    /\ serve = "wait"
    /\ waits_on.file # None /\ owner[waits_on.fd] = waits_on.file
    /\ waits_on' = NoWait
    /\ ServeAt("resumed")
    /\ UNCHANGED <<app, socketVars, is_listening, conn>>

\* ::accept() gives a connection, or the call ends in an exception: the event was
\* an error, there is no connection, or the invalid socket that stands for a
\* shutdown has no remote_addr().  serve() catches it.
Accept ==
    /\ serve = "resumed"
    /\ \/ fd[Main] # Invalid /\ owner[fd[Main]] = Main /\ Adopt(Accepted) /\ ServeAt("check")
       \/ ServeAt("loop") /\ UNCHANGED socketVars
    /\ UNCHANGED <<app, is_listening, waits_on, conn>>

\* A valid connection gets a task; with an error, serve() returns when it is
\* closed and goes on when not.  A connection whose peer is gone has no
\* remote_addr() either.
Check ==
    /\ serve = "check"
    /\ \/ /\ Valid(Accepted)
          /\ \E c \in Conns :
               /\ conn[c] = "off"
               /\ Move(c, Accepted)
               /\ conn' = [conn EXCEPT ![c] = "head"]
          /\ ServeAt("loop")
       \/ /\ ~Valid(Accepted)
          /\ Destroy({Accepted})
          /\ ServeAt(IF is_serving THEN "loop" ELSE "done")
          /\ UNCHANGED conn
       \/ Destroy({Accepted}) /\ ServeAt("loop") /\ UNCHANGED conn
    /\ UNCHANGED <<app, is_listening, waits_on>>

ServeStep == Listen \/ Loop \/ AcceptBegins \/ AcceptResumes \/ Accept \/ Check

\* server::close() and listener::shutdown().
CloseServer ==
    /\ closer = "off" /\ serve \notin {"off", "made"}
    /\ is_serving' = FALSE
    /\ closer' = IF is_serving THEN "shutdown" ELSE "done"
    /\ UNCHANGED <<app, socketVars, is_listening, serve, waits_on, conn, opens>>

Shutdown ==
    /\ closer = "shutdown"
    /\ is_listening' = FALSE
    /\ closer' = IF is_listening /\ fd[Main] # Invalid THEN "close" ELSE "done"
    /\ UNCHANGED <<app, socketVars, is_serving, serve, waits_on, conn, opens>>

\* ::close(main_fd), then main_fd = invalid_fd.
ShutdownCloses ==
    /\ closer = "close"
    /\ RawClose(Main)
    /\ spent' = spent \cup {Main}
    /\ closer' = "forget"
    /\ UNCHANGED <<app, fd, leaked, is_serving, is_listening, serve, waits_on, conn, opens>>
ShutdownForgets ==
    /\ closer = "forget"
    /\ fd' = [fd EXCEPT ![Main] = Invalid]
    /\ spent' = spent \ {Main}
    /\ closer' = "done"
    /\ UNCHANGED <<app, owner, so_error, leaked, robbed, is_serving, is_listening, serve, waits_on, conn, opens>>

CloserStep == Shutdown \/ ShutdownCloses \/ ShutdownForgets

-----------------------------------------------------------------------------

ConnAt(c, pc) == conn' = [conn EXCEPT ![c] = pc]

\* The loop of serve_connection().
ConnHead(c) ==
    /\ conn[c] = "head"
    /\ ConnAt(c, IF is_serving /\ Valid(c) THEN "decode" ELSE "closing")
    /\ IF is_serving THEN ClearError(c) ELSE UNCHANGED so_error
    /\ UNCHANGED <<app, fd, owner, leaked, spent, robbed>>

\* A request was decoded, or the connection closed or failed.  The peer may also
\* be silent for ever.
ConnDecoded(c) == conn[c] = "decode" /\ (ConnAt(c, "answer") \/ ConnAt(c, "closing"))

\* The response: an unsupported version, an upgrade or the handler, and flush(),
\* whose failure is not looked at.  The handler may throw.
ConnAnswers(c) == conn[c] = "answer" /\ (ConnAt(c, "head") \/ ConnAt(c, "closing"))

ConnEnds(c) ==
    /\ conn[c] = "closing"
    /\ Destroy({c})
    /\ ConnAt(c, "off")
    /\ UNCHANGED app

ConnStep(c) ==
    /\ \/ ConnHead(c) \/ ConnEnds(c)
       \/ ConnAnswers(c) /\ UNCHANGED <<app, socketVars>>
    /\ UNCHANGED <<is_serving, is_listening, serve, waits_on, closer, opens>>

\* What the peer of a connection does.
PeerStep(c) ==
    /\ \/ ConnDecoded(c) /\ UNCHANGED socketVars
       \/ conn[c] # "off" /\ Reset(c) /\ UNCHANGED conn
       \/ serve = "check" /\ Reset(Accepted) /\ UNCHANGED conn
    /\ UNCHANGED <<app, is_serving, is_listening, serve, waits_on, closer, opens>>

\* The rest of the program opens, moves and closes sockets.
UserStep ==
    /\ app = "server"
    /\ \E u \in Users :
         \/ fd[u] = Invalid /\ TRUE \in TcpOutcomes \cup UdpOutcomes
            /\ Adopt(u) /\ opens < MaxOpens /\ opens' = opens + 1
         \/ u \notin spent /\ fd[u] # Invalid /\ CloseSocket(u) /\ UNCHANGED opens
         \/ fd[u] # Invalid /\ Destroy({u}) /\ UNCHANGED opens
         \/ \E v \in Users : fd[v] # Invalid /\ Move(u, v) /\ UNCHANGED opens
    /\ UNCHANGED <<app, is_serving, is_listening, serve, waits_on, closer, conn>>

ServerNext ==
    \/ Construct \/ Serve \/ ServeStep \/ CloseServer \/ CloserStep \/ UserStep
    \/ \E c \in Conns : ConnStep(c) \/ PeerStep(c)

-----------------------------------------------------------------------------
(* Properties.                                                             *)

\* The accept() under way was waiting when its listener was closed, or the number it
\* waits on is closed.
Parked == serve = "wait" /\ (waits_on.file = None \/ owner[waits_on.fd] # waits_on.file)

\* After close(), serve() returns, whichever of the two sees what first, unless it
\* waits on the closed descriptor; and a connection's socket is closed unless it waits for a
\* request of its peer (server.cpp:93 does not look at is_serving while it decodes).
ServerWindsDown ==
    /\ closer = "done" ~> serve \in {"done", "failed"} \/ Parked \/ waits_on.file \in Users
    /\ \A c \in Conns : closer = "done" ~> conn[c] \in {"off", "decode"}

\* listener::shutdown() makes the accept() under way return an invalid socket.
ShutdownEndsAccept == (serve = "wait" /\ ~is_listening) ~> serve # "wait"

=============================================================================
