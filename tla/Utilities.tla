------------------------------ MODULE Utilities ------------------------------
(***************************************************************************)
(* The parts of the library that stand alone, one of them in each          *)
(* behaviour.                                                              *)
(***************************************************************************)
EXTENDS Formats, Router, Cache, TaskGroup, Metrics, Coroutines

VARIABLE part   \* the part that is used

vars == <<part, call, routerVars, cacheVars, groupVars, metricVars, coroutineVars>>

Init ==
    /\ part \in {"functions", "router", "cache", "task_group", "metrics", "tasks", "generator"}
    /\ call = NoCall
    /\ RouterInit /\ CacheInit /\ TaskGroupInit
    /\ MetricsInit /\ CoroutinesInit
    /\ part # "metrics" => metric = "registry"
    /\ part # "generator" => gen.loop = "for"

FunctionCall ==
    \/ call = NoCall /\ (CallText \/ CallEncodings \/ CallUrlParse \/ CallUrlEncode \/ CallHead \/ CallContentType
                         \/ CallAddress \/ CallTrace \/ CallWriteAll)
    \/ UrlStep

Next ==
    \/ part = "functions" /\ FunctionCall /\ UNCHANGED <<part, routerVars, cacheVars, groupVars, metricVars, coroutineVars>>
    \/ part = "router" /\ RouterNext /\ UNCHANGED <<part, call, cacheVars, groupVars, metricVars, coroutineVars>>
    \/ part = "cache" /\ CacheNext /\ UNCHANGED <<part, call, routerVars, groupVars, metricVars, coroutineVars>>
    \/ part = "task_group" /\ TaskGroupNext /\ UNCHANGED <<part, call, routerVars, cacheVars, metricVars, coroutineVars>>
    \/ part = "metrics" /\ MetricsNext /\ UNCHANGED <<part, call, routerVars, cacheVars, groupVars, coroutineVars>>
    \/ part = "tasks" /\ TasksNext /\ UNCHANGED <<part, call, routerVars, cacheVars, groupVars, metricVars>>
    \/ part = "generator" /\ GeneratorNext /\ UNCHANGED <<part, call, routerVars, cacheVars, groupVars, metricVars>>

Spec == Init /\ [][Next]_vars

=============================================================================
