----------------------------- MODULE Scheduler -----------------------------
(***************************************************************************)
(* io::scheduler over io::kqueue_loop and the thread pool.  Tasks run on   *)
(* the pool, await operations on descriptors, and are resumed by the       *)
(* thread in run() when the kernel reports an event.                       *)
(*                                                                         *)
(* <<t, 0>> is the coroutine of task t and <<t, n>> the coroutine of its   *)
(* n-th kqueue_loop::queue(), whose handle the kernel keeps as udata.  It  *)
(* is destroyed when the co_await expression that created it ends.         *)
(*                                                                         *)
(* The pool is used through Executor, which ThreadPool implements.         *)
(* Resuming a coroutine that is not suspended, or reading a destroyed one, *)
(* is undefined: it is recorded, and the model stops there.                *)
(***************************************************************************)
EXTENDS Queues, FiniteSets

CONSTANTS
    Tasks,        \* coroutines given to schedule(task)
    Roots,        \* the ones scheduled by other threads; tasks schedule the rest
    Runners,      \* threads that call run()
    Ops,          \* Ops[t]: the operations [fd, filters, timer] t may await
    MaxOps,       \* MaxOps[t]: bound on the operations of t
    MaxEvents,    \* length of the array dispatch() gives to kevent()
    MaxFailures,  \* bound on failing calls of kevent()
    Concurrency,  \* threads of the pool
    None

ASSUME SchedulerAssumption ==
    /\ IsFiniteSet(Tasks) /\ Roots \subseteq Tasks
    /\ None \notin Tasks \cup Runners
    /\ \A t \in Tasks :
         /\ MaxOps[t] \in Nat
         /\ \A o \in Ops[t] : /\ o.filters \subseteq {"read", "write"} /\ o.filters # {}
                             /\ o.timer \in BOOLEAN
    /\ MaxFailures \in Nat /\ MaxEvents \in Nat \ {0}

VARIABLES
    running,       \* scheduler::running
    loop_running,  \* kqueue_loop::running
    knotes,        \* registrations: (ident, filter) -> udata
    fired,         \* the registrations that are active
    user,          \* the user event: "armed", "triggered", "gone"
    run_pc,        \* where each runner is
    batch,         \* events of each runner's kevent() not yet translated
    ev,            \* the frame each runner is about to resume, or None
    notify_shutdown,
    queue,         \* Executor: handles accepted by the pool
    active,        \* Executor: handles the workers are executing
    at,            \* where each task is
    op,            \* number of operations each task has begun
    value,         \* is the promise of the current operation set?
    tasks,         \* scheduler::tasks
    handing,       \* task -> who is between emplace_back() and resume()
    shut,          \* where shutdown() is
    visit,         \* index in tasks of shutdown()'s loop
    resuming,      \* the task shutdown() is executing, or None
    failures,      \* calls of kevent() that failed
    lost,          \* history: operations whose registration failed
    undefined      \* history: the first undefined behaviour, or None

flagVars   == <<running, loop_running>>
kernelVars == <<knotes, fired, user>>
runVars    == <<run_pc, batch, ev, notify_shutdown>>
poolVars   == <<queue, active>>
taskVars   == <<at, op, value>>
listVars   == <<tasks, handing>>
shutVars   == <<shut, visit, resuming>>
histVars   == <<failures, lost, undefined>>
vars == <<flagVars, kernelVars, runVars, poolVars, taskVars, listVars, shutVars, histVars>>

Frames == UNION {{t} \X (0..MaxOps[t]) : t \in Tasks}
Current(t) == <<t, op[t]>>

UserEvent == [ident |-> None, filter |-> "user"]

Undefined(t, cause) == undefined' = [task |-> t, cause |-> cause]

Init ==
    /\ running = FALSE
    /\ loop_running = TRUE
    /\ knotes = <<>>
    /\ fired = {}
    /\ user = "armed"
    /\ run_pc = [r \in Runners |-> "idle"]
    /\ batch = [r \in Runners |-> {}]
    /\ ev = [r \in Runners |-> None]
    /\ notify_shutdown = [r \in Runners |-> FALSE]
    /\ queue = <<>>
    /\ active = {}
    /\ at = [t \in Tasks |-> "unborn"]
    /\ op = [t \in Tasks |-> 0]
    /\ value = [t \in Tasks |-> FALSE]
    /\ tasks = <<>>
    /\ handing = [t \in {} |-> None]
    /\ shut = "idle"
    /\ visit = 1
    /\ resuming = None
    /\ failures = 0
    /\ lost = {}
    /\ undefined = None

-----------------------------------------------------------------------------
(* schedule(task), called by another thread or by a task.                  *)

TasksMutexFree == shut # "tasks"

Emplace(u, by) ==
    /\ at[u] = "unborn"
    /\ TasksMutexFree
    /\ tasks' = Append(tasks, u)
    /\ at' = [at EXCEPT ![u] = "suspended"]
    /\ handing' = [x \in DOMAIN handing \cup {u} |-> IF x = u THEN by ELSE handing[x]]
    /\ UNCHANGED <<flagVars, kernelVars, runVars, poolVars, op, value, shutVars, histVars>>

ScheduleRoot(u) == u \in Roots /\ Emplace(u, None)

\* A task calls schedule(): from here it is inside the call until Submit.
Lock(t) ==
    /\ at[t] = "running"
    /\ \E u \in Tasks \ Roots : at[u] = "unborn"
    /\ at' = [at EXCEPT ![t] = "locking"]
    /\ UNCHANGED <<flagVars, kernelVars, runVars, poolVars, op, value, listVars, shutVars,
                   histVars>>

ScheduleFrom(t, u) ==
    /\ at[t] = "locking"
    /\ \A x \in DOMAIN handing : handing[x] # t
    /\ u \notin Roots
    /\ Emplace(u, t)

Submit(u) ==
    /\ u \in DOMAIN handing
    /\ queue' = Append(queue, <<u, 0>>)
    /\ handing' = [x \in DOMAIN handing \ {u} |-> handing[x]]
    /\ at' = [t \in Tasks |-> IF t = handing[u] THEN "running" ELSE at[t]]
    /\ UNCHANGED <<flagVars, kernelVars, runVars, active, op, value, tasks, shutVars, histVars>>

-----------------------------------------------------------------------------
(* Tasks on the workers of the pool.                                       *)

OnStack == {"returned", "running", "locking"}

\* A worker resumes the oldest handle.  In the frame of queue(), await_resume()
\* and co_return follow at once: the frame is done.
Start ==
    LET f == Head(queue)
        t == f[1]
        suspended == f = Current(t) /\ at[t] = "suspended"
        cause == IF f[2] > 0 \/ at[t] \in {"done", "destroyed"} THEN "finished"
                 ELSE IF op[t] = 0 THEN "executing" ELSE "awaiting"
    IN /\ queue # <<>>
       /\ Cardinality(active) < Concurrency
       /\ queue' = Tail(queue)
       /\ active' = active \cup {f}
       /\ \/ /\ suspended
             /\ at' = [at EXCEPT ![t] = IF f[2] = 0 THEN "running" ELSE "returned"]
             /\ UNCHANGED undefined
          \/ ~suspended /\ Undefined(t, cause) /\ UNCHANGED at
       /\ UNCHANGED <<flagVars, kernelVars, runVars, op, value, listVars, shutVars, failures,
                      lost>>

\* The co_await expression ends and destroys the frame of queue().
Drop(t) ==
    /\ at[t] = "returned"
    /\ at' = [at EXCEPT ![t] = "running"]
    /\ value' = [value EXCEPT ![t] = FALSE]
    /\ UNCHANGED <<flagVars, kernelVars, runVars, poolVars, op, listVars, shutVars, histVars>>

\* t suspends or ends, and the call of resume() that executes it returns: the
\* one of a worker, or the one in the loop of shutdown().
Leave(t) ==
    IF resuming = t
      THEN resuming' = None /\ visit' = visit + 1 /\ UNCHANGED active
      ELSE active' = active \ {Current(t)} /\ UNCHANGED <<resuming, visit>>

Finish(t) ==
    /\ at[t] = "running"
    /\ at' = [at EXCEPT ![t] = IF resuming = t THEN "destroyed" ELSE "done"]
    /\ Leave(t)
    /\ UNCHANGED <<flagVars, kernelVars, runVars, queue, op, value, listVars, shut, histVars>>

-----------------------------------------------------------------------------
(* kqueue_loop: registrations and the kernel.                              *)

\* Both directions of a descriptor are registered under one filter.
IoKeventOneFilter(o, filter) == [ident |-> o.fd, filter |-> "read"]

IoKevent(o, filter) == [ident |-> o.fd, filter |-> filter]
TimeoutKevent(f) == [ident |-> f, filter |-> "timer"]

NewEvents(f, o) ==
    (IF "read" \in o.filters THEN <<IoKevent(o, "read")>> ELSE <<>>)
    \o (IF "write" \in o.filters THEN <<IoKevent(o, "write")>> ELSE <<>>)
    \o (IF o.timer THEN <<TimeoutKevent(f)>> ELSE <<>>)

\* co_await schedule(fd, op, timeout).  kevent() applies the changes in order;
\* EV_ADD of a known (ident, filter) replaces its udata.  When it fails the
\* changes before the bad one stay, and the error is only logged.  What follows
\* kevent() touches nothing shared, so the worker is free with the same step.
Await(t, o) ==
    LET f == <<t, op[t] + 1>>
        evs == NewEvents(f, o)
    IN /\ at[t] = "running"
       /\ op[t] < MaxOps[t]
       /\ op' = [op EXCEPT ![t] = @ + 1]
       /\ at' = [at EXCEPT ![t] = "suspended"]
       /\ \E n \in 0..Len(evs) :
            /\ n < Len(evs) => failures < MaxFailures
            /\ LET added == {evs[i] : i \in 1..n}
               IN knotes' = [k \in DOMAIN knotes \cup added |-> IF k \in added THEN f ELSE knotes[k]]
            /\ failures' = failures + (IF n < Len(evs) THEN 1 ELSE 0)
            /\ lost' = IF n < Len(evs) THEN lost \cup {f} ELSE lost
       /\ Leave(t)
       /\ UNCHANGED <<flagVars, fired, user, runVars, queue, value, listVars, shut, undefined>>

\* A descriptor becomes ready or a timer expires.
Fire(k) ==
    /\ k \in DOMAIN knotes \ fired
    /\ fired' = fired \cup {k}
    /\ UNCHANGED <<flagVars, knotes, user, runVars, poolVars, taskVars, listVars, shutVars,
                   histVars>>

-----------------------------------------------------------------------------
(* run() and dispatch().                                                   *)

Goto(r, l) == run_pc' = [run_pc EXCEPT ![r] = l]

Run(r) ==
    /\ run_pc[r] = "idle"
    /\ running' = TRUE
    /\ Goto(r, IF running THEN "returned" ELSE "check")
    /\ UNCHANGED <<loop_running, kernelVars, batch, ev, notify_shutdown, poolVars, taskVars,
                   listVars, shutVars, histVars>>

\* The loop of run() does not look at running.
RunCheckForever(r) ==
    /\ run_pc[r] = "check"
    /\ Goto(r, "dispatch")
    /\ UNCHANGED <<flagVars, kernelVars, batch, ev, notify_shutdown, poolVars, taskVars,
                   listVars, shutVars, histVars>>

RunCheck(r) ==
    /\ run_pc[r] = "check"
    /\ Goto(r, IF running THEN "dispatch" ELSE "returned")
    /\ UNCHANGED <<flagVars, kernelVars, batch, ev, notify_shutdown, poolVars, taskVars,
                   listVars, shutVars, histVars>>

Dispatch(r) ==
    /\ run_pc[r] = "dispatch"
    /\ Goto(r, IF loop_running THEN "kevent" ELSE "check")
    /\ UNCHANGED <<flagVars, kernelVars, batch, ev, notify_shutdown, poolVars, taskVars,
                   listVars, shutVars, histVars>>

Available == fired \cup (IF user = "triggered" THEN {UserEvent} ELSE {})

\* Registrations without EV_ONESHOT.
NotOneshot(evs) == {}

\* The registrations that are deleted when kevent() returns them.
Oneshot(evs) == evs

\* kevent() blocks until something is active and returns as much of it as
\* fits.
Kevent(r) ==
    /\ run_pc[r] = "kevent"
    /\ \E evs \in SUBSET Available :
         /\ evs # {}
         /\ evs = Available \/ Cardinality(evs) = MaxEvents
         /\ Cardinality(evs) =< MaxEvents
         /\ batch' = [batch EXCEPT ![r] =
              {[filter |-> k.filter, udata |-> IF k = UserEvent THEN None ELSE knotes[k]] : k \in evs}]
         /\ fired' = fired \ evs
         /\ knotes' = [k \in DOMAIN knotes \ Oneshot(evs) |-> knotes[k]]
         /\ user' = IF UserEvent \in evs THEN "gone" ELSE user
    /\ Goto(r, "batch")
    /\ UNCHANGED <<flagVars, ev, notify_shutdown, poolVars, taskVars, listVars, shutVars,
                   histVars>>

\* An interrupted kevent() ends run().
KeventFailsStops(r) ==
    /\ run_pc[r] = "kevent"
    /\ failures < MaxFailures
    /\ failures' = failures + 1
    /\ Goto(r, "returned")
    /\ UNCHANGED <<flagVars, kernelVars, batch, ev, notify_shutdown, poolVars, taskVars,
                   listVars, shutVars, lost, undefined>>

\* kevent() fails (EINTR): logged, and run() tries again.
KeventFails(r) ==
    /\ run_pc[r] = "kevent"
    /\ failures < MaxFailures
    /\ failures' = failures + 1
    /\ Goto(r, "check")
    /\ UNCHANGED <<flagVars, kernelVars, batch, ev, notify_shutdown, poolVars, taskVars,
                   listVars, shutVars, lost, undefined>>

\* The shutdown event is only remembered: the rest of the batch comes first.
TakeUserEvent(r) ==
    /\ run_pc[r] = "batch"
    /\ \E e \in batch[r] : e.filter = "user" /\ batch' = [batch EXCEPT ![r] = @ \ {e}]
    /\ notify_shutdown' = [notify_shutdown EXCEPT ![r] = TRUE]
    /\ UNCHANGED <<flagVars, kernelVars, run_pc, ev, poolVars, taskVars, listVars, shutVars,
                   histVars>>

\* The coroutine is resumed without a result.
ReturnNothing(t) == UNCHANGED value

ReturnValue(t) == value' = [value EXCEPT ![t] = TRUE]

\* translate_kevent() and return_value().  A done frame is skipped; a frame
\* that was destroyed is read all the same.
Translate(r) ==
    /\ run_pc[r] = "batch"
    /\ \E e \in batch[r] :
         LET t == e.udata[1]
             mine == e.udata = Current(t)
         IN /\ e.filter # "user"
            /\ batch' = [batch EXCEPT ![r] = @ \ {e}]
            /\ \/ /\ mine /\ at[t] = "suspended"
                  /\ ReturnValue(t)
                  /\ ev' = [ev EXCEPT ![r] = e.udata]
                  /\ Goto(r, "resume")
                  /\ UNCHANGED undefined
               \/ /\ mine /\ at[t] = "returned"
                  /\ UNCHANGED <<run_pc, ev, value, undefined>>
               \/ /\ ~ (mine /\ at[t] \in {"suspended", "returned"})
                  /\ Undefined(t, "destroyed")
                  /\ UNCHANGED <<value, ev, run_pc>>
    /\ UNCHANGED <<flagVars, kernelVars, notify_shutdown, poolVars, at, op, listVars,
                   shutVars, failures, lost>>

Resume(r) ==
    /\ run_pc[r] = "resume"
    /\ queue' = Append(queue, ev[r])
    /\ ev' = [ev EXCEPT ![r] = None]
    /\ Goto(r, "batch")
    /\ UNCHANGED <<flagVars, kernelVars, batch, notify_shutdown, active, taskVars, listVars,
                   shutVars, histVars>>

\* dispatch() forgets the shutdown event.
EndDispatchSilently(r) ==
    /\ run_pc[r] = "batch"
    /\ batch[r] = {}
    /\ UNCHANGED loop_running
    /\ notify_shutdown' = [notify_shutdown EXCEPT ![r] = FALSE]
    /\ Goto(r, "check")
    /\ UNCHANGED <<running, kernelVars, batch, ev, poolVars, taskVars, listVars, shutVars,
                   histVars>>

EndDispatch(r) ==
    /\ run_pc[r] = "batch"
    /\ batch[r] = {}
    /\ loop_running' = (loop_running /\ ~notify_shutdown[r])
    /\ notify_shutdown' = [notify_shutdown EXCEPT ![r] = FALSE]
    /\ Goto(r, "check")
    /\ UNCHANGED <<running, kernelVars, batch, ev, poolVars, taskVars, listVars, shutVars,
                   histVars>>

-----------------------------------------------------------------------------
(* shutdown().  A call that finds running false changes nothing; one that  *)
(* finds it true happens once in a behaviour.                              *)

Shutdown ==
    /\ shut = "idle"
    /\ running
    /\ running' = FALSE
    /\ shut' = "load"
    /\ UNCHANGED <<loop_running, kernelVars, runVars, poolVars, taskVars, listVars, visit,
                   resuming, histVars>>

ShutdownLoad ==
    /\ shut = "load"
    /\ shut' = IF loop_running THEN "trigger" ELSE "tasks"
    /\ UNCHANGED <<flagVars, kernelVars, runVars, poolVars, taskVars, listVars, visit,
                   resuming, histVars>>

Trigger ==
    /\ shut = "trigger"
    /\ user = "armed"
    /\ user' = "triggered"
    /\ shut' = "wait"
    /\ UNCHANGED <<flagVars, knotes, fired, runVars, poolVars, taskVars, listVars, visit,
                   resuming, histVars>>

\* kevent() fails: shutdown() goes on without the thread in dispatch().
TriggerFails ==
    /\ shut = "trigger"
    /\ failures < MaxFailures
    /\ failures' = failures + 1
    /\ loop_running' = FALSE
    /\ shut' = "tasks"
    /\ UNCHANGED <<running, kernelVars, runVars, poolVars, taskVars, listVars, visit,
                   resuming, lost, undefined>>

Wait ==
    /\ shut = "wait"
    /\ ~loop_running
    /\ shut' = "tasks"
    /\ UNCHANGED <<flagVars, kernelVars, runVars, poolVars, taskVars, listVars, visit,
                   resuming, histVars>>

\* One iteration of the loop over tasks: t.resume(), and destroy() when done.
\* A task that awaits an operation takes its result before there is one: it
\* ends with the exception of promise::result(), or goes on when what it awaits
\* returns nothing.
Visit(t) ==
    /\ shut = "tasks"
    /\ resuming = None
    /\ visit =< Len(tasks)
    /\ t = tasks[visit]
    /\ \/ /\ at[t] = "done" \/ (at[t] = "suspended" /\ op[t] > 0)
          /\ at' = [at EXCEPT ![t] = "destroyed"]
          /\ value' = [value EXCEPT ![t] = FALSE]
          /\ visit' = visit + 1
          /\ UNCHANGED <<resuming, undefined>>
       \/ /\ at[t] = "suspended"
          /\ at' = [at EXCEPT ![t] = "running"]
          /\ value' = [value EXCEPT ![t] = FALSE]
          /\ resuming' = t
          /\ UNCHANGED <<visit, undefined>>
       \/ /\ at[t] \in OnStack
          /\ Undefined(t, "executing")
          /\ UNCHANGED <<at, value, visit, resuming>>
    /\ UNCHANGED <<flagVars, kernelVars, runVars, poolVars, op, listVars, shut, failures, lost>>

ShutdownEnds ==
    /\ shut = "tasks"
    /\ visit > Len(tasks)
    /\ shut' = "returned"
    /\ UNCHANGED <<flagVars, kernelVars, runVars, poolVars, taskVars, listVars, visit,
                   resuming, histVars>>

-----------------------------------------------------------------------------

DispatchStep(r) ==
    RunCheck(r) \/ Dispatch(r) \/ TakeUserEvent(r) \/ Translate(r) \/ Resume(r) \/ EndDispatch(r)
TaskStep(t) == Drop(t) \/ Finish(t) \/ (\E o \in Ops[t] : Await(t, o)) \/ \E u \in Tasks : ScheduleFrom(t, u)
ShutdownStep ==
    ShutdownLoad \/ Trigger \/ TriggerFails \/ Wait \/ ShutdownEnds \/ \E t \in Tasks : Visit(t)

Next ==
    /\ undefined = None
    /\ \/ \E u \in Tasks : ScheduleRoot(u) \/ Submit(u)
       \/ \E t \in Tasks : TaskStep(t) \/ Lock(t)
       \/ Start
       \/ \E k \in DOMAIN knotes : Fire(k)
       \/ \E r \in Runners : Run(r) \/ DispatchStep(r) \/ Kevent(r) \/ KeventFails(r)
       \/ Shutdown
       \/ ShutdownStep

Spec == Init /\ [][Next]_vars

\* Threads that can step do, and the code of a task between two suspensions
\* ends.  Nothing is assumed of descriptors, of calls of schedule() and
\* shutdown(), or of failures.
Fairness ==
    /\ \A u \in Tasks : WF_vars(Submit(u)) /\ WF_vars(TaskStep(u))
    /\ \A r \in Runners : WF_vars(Run(r)) /\ WF_vars(DispatchStep(r)) /\ SF_vars(Kevent(r))
    /\ WF_vars(Start)
    /\ WF_vars(ShutdownStep)

FairSpec == Spec /\ Fairness

-----------------------------------------------------------------------------
(* Properties.                                                             *)

\* Each operation of t registers one filter, as sockets and listeners do.
Single(t) == \A o \in Ops[t] : o.timer = FALSE /\ o.filters \in {{"read"}, {"write"}}

SingleFrames == {f \in Frames : Single(f[1])}

Exec == INSTANCE Executor WITH
    Handles <- SingleFrames,
    queue   <- SelectSeq(queue, LAMBDA f : Single(f[1])),
    active  <- active \cap SingleFrames

\* What schedule() and run() hand to the pool keeps the contract of its
\* executor: tasks with one filter per operation are never handed over while
\* they are queued or executing.
UsesExecutor == Exec!Spec

\* Until shutdown() begins to resume tasks itself (scheduler.cpp:88), a task
\* with one filter per operation is only resumed while it is suspended, and no
\* event refers to a frame that was destroyed.
OneFilterIsSafe ==
    undefined # None =>
        shut \in {"tasks", "returned"} \/ ~Single(undefined.task)

\* No two tasks wait for the same direction of a descriptor, as when one reads a
\* connection and one writes it: EV_ADD would give the registration of the first
\* to the second.
Unshared ==
    \A t, u \in Tasks : t # u =>
        \A o \in Ops[t], p \in Ops[u] : o.fd # p.fd \/ o.filters \cap p.filters = {}

\* A suspended task is never forgotten: its frame is registered, in an event on
\* its way through dispatch(), or handed to the pool.  The one exception is an
\* operation whose registration failed (kqueue_loop.cpp:262).
WaiterReachable ==
    \A t \in Tasks : at[t] = "suspended" =>
        \/ \E k \in DOMAIN knotes : knotes[k] = Current(t)
        \/ \E r \in Runners : ev[r] = Current(t) \/ \E e \in batch[r] : e.udata = Current(t)
        \/ Current(t) \in Elems(queue) \cup lost
        \/ t \in DOMAIN handing

\* A frame is resumed after its result was stored, so that promise::result()
\* does not throw "return value never set" (task.hpp:218).
ResultBeforeResume == \A t \in Tasks : at[t] = "returned" => value[t]

\* An operation whose descriptor became ready is resumed, unless shutdown()
\* was called.
OperationCompletes ==
    \A t \in Tasks : \A n \in 1..MaxOps[t] :
        (at[t] = "suspended" /\ \E k \in fired : knotes[k] = <<t, n>>)
            ~> (at[t] # "suspended" \/ op[t] > n \/ shut # "idle" \/ undefined # None)

\* The thread in run() left its loop between the exchange of running and the
\* user event, which nobody will take.
Abandoned == shut = "wait" /\ user = "triggered" /\ \A r \in Runners : run_pc[r] = "returned"

\* A task resumed under tasks_mu schedules another one.
SelfLocked == resuming # None /\ at[resuming] = "locking"

\* shutdown() returns, but for two ways to block: Abandoned and SelfLocked.
ShutdownReturns ==
    shut = "load" ~> (shut = "returned" \/ Abandoned \/ SelfLocked \/ undefined # None)

\* run() returns after shutdown(), unless the user event could not be triggered.
RunReturns ==
    shut = "load" ~> \/ \A r \in Runners : run_pc[r] = "returned"
                     \/ shut \in {"tasks", "returned"} /\ user = "armed"
                     \/ undefined # None

\* kqueue_loop.cpp:168, on the events of dispatch(): "don't try to invoke
\* coroutines that have already finished."
FinishedNotInvoked ==
    undefined # None /\ shut = "idle" => undefined.cause # "finished"

=============================================================================
