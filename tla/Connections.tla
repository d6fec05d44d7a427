---------------------------- MODULE Connections ----------------------------
(***************************************************************************)
(* The two users of sockets, a program with an http::server and one with   *)
(* an http::client, over one model of descriptors.                         *)
(***************************************************************************)
EXTENDS HttpServer, HttpClient

ASSUME SocketsApart == Pooled \cap (Users \cup Conns \cup {Main, Accepted}) = {}

vars == <<app, socketVars, serverVars, clientVars>>

Init == SocketInit /\ ServerInit /\ ClientInit

Next ==
    \/ ServerNext /\ UNCHANGED clientVars
    \/ ClientNext /\ UNCHANGED serverVars

\* The threads go on with what they have begun, idle workers take up what is ready,
\* and the peers of a client answer or fail: its sockets ask for keepalives.
Spec ==
    /\ Init /\ [][Next]_vars
    /\ WF_vars(ServeStep /\ UNCHANGED clientVars)
    /\ WF_vars(CloserStep /\ UNCHANGED clientVars)
    /\ \A c \in Conns : WF_vars(ConnStep(c) /\ UNCHANGED clientVars)
    /\ \A r \in Requests :
         /\ WF_vars(WorkerStep(r) /\ UNCHANGED serverVars)
         /\ WF_vars(Answer(r) /\ UNCHANGED serverVars)
         /\ WF_vars((\E w \in Workers : SendGoesOn(w, r)) /\ UNCHANGED serverVars)

=============================================================================
