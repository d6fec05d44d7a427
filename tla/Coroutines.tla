----------------------------- MODULE Coroutines ------------------------------
(***************************************************************************)
(* coro::task and coro::generator: who owns a coroutine's frame, how       *)
(* control passes between a coroutine and the one it waits for, and what   *)
(* comes back.  The bodies are arbitrary; they use tasks as the library    *)
(* does, waiting for the temporary a call returns or for a task kept in a  *)
(* variable, and start and drop a task only while it does not run.         *)
(***************************************************************************)
EXTENDS Integers, FiniteSets, Sequences

CONSTANTS
    Frames,
    TaskVars,       \* the variables that hold tasks
    NoFrame,
    MaxYields       \* bound on the values a generator yields

ASSUME CoroutineAssumption == NoFrame \notin Frames /\ TaskVars \cap Frames = {} /\ MaxYields \in Nat

VARIABLES
    handle,         \* task object -> the frame it owns
    coro,           \* frame -> [state, void, continuation, value, awaits, ended]
    got,            \* history: what the last co_await gave, and what it should have
    gen             \* a generator and the loop over it

coroutineVars == <<handle, coro, got, gen>>

\* The object named as a frame is the temporary that the frame waits for.
Objects == TaskVars \cup Frames

Free == [state |-> "free", void |-> FALSE, continuation |-> NoFrame, value |-> "monostate", awaits |-> NoFrame,
         ended |-> "monostate"]

\* value is promise::value, or the exception of promise<void>; ended, a history, is
\* how the body came to its end.
New(void) == [Free EXCEPT !.state = "initial", !.void = void]

\* return_value(), return_void() or unhandled_exception().
Ended(f, how) == [f EXCEPT !.state = "done", !.ended = how, !.value = IF how = "void" THEN @ ELSE how]

result_void(f) == IF f.value = "exception" THEN "exception" ELSE "void"
result(f) ==
    IF f.void THEN result_void(f) ELSE IF f.value = "monostate" THEN "never set" ELSE f.value

Received(f) == [should |-> f.ended, is |-> result(f)]

CoroutinesInit ==
    /\ handle = [o \in Objects |-> NoFrame]
    /\ coro = [f \in Frames |-> Free]
    /\ got = [should |-> "monostate", is |-> "monostate"]
    /\ gen \in {[loop |-> loop, pc |-> "created", done |-> FALSE, full |-> FALSE, value |-> <<"monostate">>,
                 yielded |-> <<>>, out |-> <<>>] : loop \in {"for", "while"}}

-----------------------------------------------------------------------------
(* task.                                                                   *)

\* The frame that a call allocates, one being as good as another.
Allocated(f) == coro[f].state = "free" /\ f = CHOOSE g \in Frames : coro[g].state = "free"

\* A coroutine is called and suspends at once: initial_suspend().
Call(o, f, void) ==
    /\ handle[o] = NoFrame /\ Allocated(f)
    /\ handle' = [handle EXCEPT ![o] = f]
    /\ coro' = [coro EXCEPT ![f] = New(void)]
    /\ UNCHANGED <<got, gen>>

\* The frame of o can go: it does not run and nothing waits for it.
Settled(o) == handle[o] # NoFrame => coro[handle[o]].state \in {"initial", "done"}

\* destroy() and ~task().
Destroy(o) ==
    /\ Settled(o) /\ handle[o] # NoFrame
    /\ coro' = [coro EXCEPT ![handle[o]] = Free]
    /\ handle' = [handle EXCEPT ![o] = NoFrame]
    /\ UNCHANGED <<got, gen>>

\* Mutant of MoveAssign: both objects keep the frame.
MoveAssignCopies(o, p) ==
    /\ Settled(o) /\ o # p
    /\ coro' = [f \in Frames |-> IF f = handle[o] THEN Free ELSE coro[f]]
    /\ handle' = [handle EXCEPT ![o] = handle[p]]
    /\ UNCHANGED <<got, gen>>

\* o = std::move(p); with the same object on both sides nothing changes.
MoveAssign(o, p) ==
    /\ Settled(o) /\ o # p
    /\ coro' = [f \in Frames |-> IF f = handle[o] THEN Free ELSE coro[f]]
    /\ handle' = [handle EXCEPT ![o] = handle[p], ![p] = NoFrame]
    /\ UNCHANGED <<got, gen>>

\* resume(), from outside: nothing on a task that is done.
Resume(o) ==
    /\ handle[o] # NoFrame /\ coro[handle[o]].state = "initial"
    /\ coro' = [coro EXCEPT ![handle[o]].state = "running"]
    /\ UNCHANGED <<handle, got, gen>>

await_ready(g) == coro[g].state = "done"

\* await_suspend(): the coroutine g, whose handle the awaitable has copied, runs in the
\* place of f.
Transfer(frames, f, g) ==
    [frames EXCEPT ![f].state = "waiting", ![f].awaits = g, ![g].state = "running", ![g].continuation = f]

\* co_await call(), on the temporary that is returned.
AwaitCall(f, g, void) ==
    /\ coro[f].state = "running" /\ Allocated(g)
    /\ handle' = [handle EXCEPT ![f] = g]
    /\ coro' = Transfer([coro EXCEPT ![g] = New(void)], f, g)
    /\ UNCHANGED <<got, gen>>

\* co_await o.
AwaitVar(f, o) ==
    LET g == handle[o]
    IN /\ coro[f].state = "running" /\ g # NoFrame
       /\ \/ await_ready(g) /\ got' = Received(coro[g]) /\ UNCHANGED coro
          \/ coro[g].state = "initial" /\ coro' = Transfer(coro, f, g) /\ UNCHANGED got
       /\ UNCHANGED <<handle, gen>>

\* Suspended for an event, and resumed by whoever was given the handle.
Park(f) ==
    /\ coro[f].state = "running"
    /\ coro' = [coro EXCEPT ![f].state = "parked"]
    /\ UNCHANGED <<handle, got, gen>>
Unpark(f) ==
    /\ coro[f].state = "parked"
    /\ coro' = [coro EXCEPT ![f].state = "running"]
    /\ UNCHANGED <<handle, got, gen>>

\* The body ends, then final_suspend(): the continuation runs on with result(), and
\* the temporary it waited for is gone.
Finish(f, how) ==
    LET done == Ended(coro[f], how)
        c == done.continuation
    IN /\ coro[f].state = "running"
       /\ IF c = NoFrame
          THEN coro' = [coro EXCEPT ![f] = done] /\ UNCHANGED <<handle, got>>
          ELSE /\ got' = Received(done)
               /\ coro' = [coro EXCEPT ![f] = IF handle[c] = f THEN Free ELSE done,
                                         ![c].state = "running", ![c].awaits = NoFrame]
               /\ handle' = [handle EXCEPT ![c] = NoFrame]
       /\ UNCHANGED gen

-----------------------------------------------------------------------------
(* generator.                                                              *)

\* handle.resume(): the body yields, returns or throws.
GenResume(g) ==
    {[g EXCEPT !.done = TRUE], [g EXCEPT !.done = TRUE, !.value = <<"exception">>]}
      \cup IF Len(g.yielded) < MaxYields
           THEN {[g EXCEPT !.value = <<"value", Len(g.yielded) + 1>>, !.yielded = Append(@, Len(@) + 1)]} ELSE {}

LoopGoesOn(g) == [g EXCEPT !.pc = IF g.done THEN "ended" ELSE "body"]

\* begin() and the first comparison with end().
Begin ==
    /\ gen.loop = "for" /\ gen.pc = "created"
    /\ \E g \in GenResume(gen) : gen' = LoopGoesOn(g)

\* *it in the body, then ++it and the comparison.
Iterate ==
    /\ gen.loop = "for" /\ gen.pc = "body"
    /\ \E g \in GenResume([gen EXCEPT !.out = Append(@, gen.value[2])]) : gen' = LoopGoesOn(g)

fill(g) ==
    IF g.full THEN {g}
    ELSE {IF r.value = <<"exception">> THEN [r EXCEPT !.pc = "thrown"] ELSE [r EXCEPT !.full = TRUE] : r \in GenResume(g)}

\* operator bool() as the condition of the loop.
Test ==
    /\ gen.loop = "while" /\ gen.pc \in {"created", "again"}
    /\ \E g \in fill(gen) : gen' = IF g.pc = "thrown" THEN g ELSE LoopGoesOn(g)

\* operator()() in its body.
Take ==
    /\ gen.loop = "while" /\ gen.pc = "body"
    /\ \E g \in fill(gen) : gen' = [g EXCEPT !.full = FALSE, !.out = Append(@, g.value[2]), !.pc = "again"]

TasksNext ==
    \/ \E o \in TaskVars :
         \/ \E f \in Frames, void \in BOOLEAN : Call(o, f, void)
         \/ Destroy(o) \/ Resume(o)
         \/ \E p \in TaskVars : MoveAssign(o, p)
         \/ \E f \in Frames : AwaitVar(f, o)
    \/ \E f \in Frames :
         \/ \E g \in Frames, void \in BOOLEAN : AwaitCall(f, g, void)
         \/ Park(f) \/ Unpark(f)
         \/ \E how \in IF coro[f].void THEN {"void", "exception"} ELSE {"value", "exception"} : Finish(f, how)

GeneratorNext == (Begin \/ Iterate \/ Test \/ Take) /\ UNCHANGED <<handle, coro, got>>

CoroutinesSpec == CoroutinesInit /\ [][TasksNext \/ GeneratorNext]_coroutineVars

-----------------------------------------------------------------------------

Waiting == {f \in Frames : coro[f].state = "waiting"}
WaitsFor(f) == coro[f].awaits

\* Every coroutine that was called and not destroyed belongs to one task object, and
\* no object to a coroutine that is gone (task.hpp:62, 70).  A coroutine waits for one
\* that runs, is suspended for an event or waits itself, and that will resume it; no
\* ring of them waits for each other.  co_await returns or throws what the body of the
\* coroutine returned or threw, and never finds the value unset (task.hpp:218).  A
\* loop over a generator ends with every value it yielded taken once, in order; only
\* operator bool reports that it threw (generator.hpp:52, 117).
TasksSound ==
    /\ \A f \in Frames : Cardinality({o \in Objects : handle[o] = f}) = IF coro[f].state = "free" THEN 0 ELSE 1
    /\ \A f \in Waiting :
         /\ WaitsFor(f) \in Frames
         /\ coro[WaitsFor(f)].continuation = f
         /\ coro[WaitsFor(f)].state \in {"running", "parked", "waiting"}
    /\ \A S \in SUBSET Waiting : S # {} => \E f \in S : WaitsFor(f) \notin S
    /\ got.is = got.should
    /\ gen.pc = "ended" => gen.out = gen.yielded /\ (gen.loop = "while" => gen.value # <<"exception">>)
    /\ gen.pc = "thrown" => gen.out = gen.yielded /\ gen.done

=============================================================================
