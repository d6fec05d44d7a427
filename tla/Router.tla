------------------------------- MODULE Router -------------------------------
(***************************************************************************)
(* http::router.  A node of the tree is named by the way to it: a sequence *)
(* of parts, Wild for the step to the wildcard child.                      *)
(***************************************************************************)
EXTENDS Text

CONSTANTS
    Routes,     \* routes that are added
    Paths,      \* paths of requests
    MaxRoutes   \* bound on the calls of add()

VARIABLES
    router,     \* the tree: its nodes, the names of wildcards, the handlers
    added,      \* history: the calls of add() that did not throw
    routed      \* the last request and what became of it

routerVars == <<router, added, routed>>

RouteMethods == {"GET", "POST"}
Wild == <<-1>>
Unnamed == <<>>
NotRouted == [to |-> "none"]

EmptyRouter ==
    [nodes |-> {<<>>}, wildcard_name |-> [n \in {<<>>} |-> Unnamed], method_handlers |-> [k \in {} |-> 0]]
RouterInit == router = EmptyRouter /\ added = <<>> /\ routed = NotRouted

Parts(route) == split_string(IF IsPrefix(<<47>>, route) THEN Tail(route) ELSE route, 47, 0)

IsWild(part) == part # <<>> /\ part[1] = 58

WithNode(r, n) ==
    [r EXCEPT !.nodes = @ \cup {n},
              !.wildcard_name = [m \in DOMAIN @ \cup {n} |-> IF m \in DOMAIN @ THEN @[m] ELSE Unnamed]]

\* One part of the route: the nodes made for the parts before stay when it throws.
RECURSIVE get_subrouter(_, _, _)
get_subrouter(r, current, parts) ==
    LET part == Head(parts)
        name == Tail(part)
        child == Append(current, IF IsWild(part) THEN Wild ELSE part)
        made == IF child \in r.nodes THEN r
                ELSE IF IsWild(part) THEN [WithNode(r, child) EXCEPT !.wildcard_name[current] = name]
                ELSE WithNode(r, child)
    IN IF parts = <<>> THEN [router |-> r, node |-> current, thrown |-> FALSE]
       ELSE IF IsWild(part) /\ (name = <<>> \/ (child \in r.nodes /\ r.wildcard_name[current] # name))
       THEN [router |-> r, node |-> current, thrown |-> TRUE]
       ELSE get_subrouter(made, child, Tail(parts))

\* add(), which the functions named after the methods call; a handler is the
\* number of the call.
AddRoute(method, route) ==
    LET sub == get_subrouter(router, <<>>, Parts(route))
        handler == Len(added) + 1
    IN /\ Len(added) < MaxRoutes /\ routed = NotRouted
       /\ IF sub.thrown THEN router' = sub.router /\ UNCHANGED added
          ELSE /\ router' = [sub.router EXCEPT !.method_handlers =
                               [k \in DOMAIN @ \cup {<<sub.node, method>>} |->
                                  IF k = <<sub.node, method>> THEN handler ELSE @[k]]]
               /\ added' = Append(added, [method |-> method, parts |-> Parts(route)])
       /\ UNCHANGED routed

\* Mutant of NextNode: the wildcard comes before the child of that name.
NextNodeWild(r, parent, part) ==
    LET next == SelectSeq(<<Append(parent, Wild), Append(parent, part)>>, LAMBDA n : n \in r.nodes)
    IN IF next = <<>> THEN <<>> ELSE <<next[1]>>

\* The child of that name, else the wildcard, else nothing.
NextNode(r, parent, part) ==
    LET next == SelectSeq(<<Append(parent, part), Append(parent, Wild)>>, LAMBDA n : n \in r.nodes)
    IN IF next = <<>> THEN <<>> ELSE <<next[1]>>

\* operator(), without going back to a wildcard when a child leads nowhere.
RECURSIVE Dispatch(_, _, _, _)
Dispatch(r, parent, parts, method) ==
    IF parts # <<>>
    THEN LET next == NextNode(r, parent, Head(parts))
         IN IF next = <<>> THEN [to |-> "NOT_FOUND"] ELSE Dispatch(r, next[1], Tail(parts), method)
    ELSE IF <<parent, method>> \in DOMAIN r.method_handlers
    THEN [to |-> "handler", handler |-> r.method_handlers[<<parent, method>>]]
    ELSE [to |-> "METHOD_NOT_ALLOWED"]

RouteRequest(method, path) ==
    /\ routed = NotRouted /\ added # <<>>
    /\ routed' = [method |-> method, parts |-> Parts(path)] @@ Dispatch(router, <<>>, Parts(path), method)
    /\ UNCHANGED <<router, added>>

RouterNext ==
    \E method \in RouteMethods :
      \/ \E route \in Routes : AddRoute(method, route)
      \/ \E path \in Paths : RouteRequest(method, path)

-----------------------------------------------------------------------------

Fits(route, parts) ==
    Len(route) = Len(parts) /\ \A i \in DOMAIN parts : IsWild(route[i]) \/ route[i] = parts[i]

\* Some node has the name of a part where the route has a wildcard.
Shadowed(route, parts) ==
    \E n \in router.nodes, i \in DOMAIN parts :
      /\ Len(n) = i /\ n[i] = parts[i] /\ IsWild(route[i])
      /\ \A j \in 1..i - 1 : n[j] = parts[j] \/ n[j] = Wild

\* A request reaches a handler added for its method and a route that fits its
\* path, the last one added for that route; a route without wildcards that is the
\* path goes before any other.  A request that a route fits is only turned away
\* when another route has the name of a part where that one has a wildcard: the
\* search does not come back (router.cpp:38).  The names of two wildcards at one
\* place are never different.
RoutesRight ==
    /\ routed # NotRouted =>
         LET mine == {i \in DOMAIN added : added[i].method = routed.method /\ Fits(added[i].parts, routed.parts)}
             exact == {i \in mine : \A k \in DOMAIN added[i].parts : ~IsWild(added[i].parts[k])}
         IN /\ routed.to = "handler" =>
                 /\ routed.handler \in mine
                 /\ \A i \in mine : added[i] = added[routed.handler] => i =< routed.handler
                 /\ exact # {} => routed.handler = Max(exact)
            /\ routed.to # "handler" => \A i \in mine : Shadowed(added[i].parts, routed.parts)
    /\ \A i, j \in DOMAIN added, k \in 1..2 :
         LET p == added[i].parts
             q == added[j].parts
         IN k \in DOMAIN p /\ k \in DOMAIN q /\ SubSeq(p, 1, k - 1) = SubSeq(q, 1, k - 1) /\ IsWild(p[k]) /\ IsWild(q[k])
              => p[k] = q[k]

=============================================================================
