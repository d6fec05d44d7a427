----------------------------- MODULE ThreadPool -----------------------------
(***************************************************************************)
(* coro::thread_pool: worker threads that take coroutine handles from a    *)
(* mutex-protected deque, block on a condition variable while it is empty, *)
(* and drain it after shutdown().                                          *)
(*                                                                         *)
(* A step is one atomic operation of the code, or one critical section of  *)
(* wait_mutex: jobs is only touched with the mutex held, so a section that *)
(* touches nothing else is atomic.  The predicate of wait.wait() also      *)
(* reads the atomic `running`, which shutdown() changes without the mutex, *)
(* so evaluating it and blocking are two steps.                            *)
(*                                                                         *)
(* resume(nullptr), and shutdown() on a pool that is already shutting      *)
(* down, return without changing anything: they are stuttering steps.      *)
(***************************************************************************)
EXTENDS Queues, FiniteSets

CONSTANTS
    Workers,       \* the threads of the pool
    Callers,       \* the threads that use it
    RangeCallers,  \* the callers that use resume(range)
    Handles,       \* coroutine handles
    WordSize,      \* number of values of std::size_t
    None

ASSUME PoolAssumption ==
    /\ IsFiniteSet(Workers) /\ Workers # {}
    /\ IsFiniteSet(Callers)
    /\ IsFiniteSet(Handles)
    /\ Workers \cap Callers = {}
    /\ RangeCallers \subseteq Callers
    /\ None \notin Handles \cup Workers

\* Threads and coroutine frames are fewer than the values of std::size_t.
ASSUME WordAssumption ==
    /\ WordSize \in Nat
    /\ Cardinality(Handles) + 2 * Cardinality(Workers) + Cardinality(Callers) < WordSize

VARIABLES
    running,     \* std::atomic<bool> running
    num_jobs,    \* std::atomic<std::size_t> num_jobs
    jobs,        \* std::deque<std::coroutine_handle<>> jobs
    wait_mutex,  \* the worker that holds it between two steps, or None
    wait,        \* the workers blocked in the condition variable
    pc,          \* where each thread is
    draining,    \* the workers in the second loop of worker()
    handle,      \* the handle each worker is executing, or None
    arg,         \* the handle each thread is scheduling, or None
    new_jobs,    \* local of resume(range): handles pushed or still to notify
    parked,      \* suspended coroutines somebody may resume
    late,        \* history: handles pushed after running became false
    missed       \* history: workers about to block when shutdown() notified

poolVars == <<running, num_jobs, jobs, wait_mutex, wait>>
envVars  == <<parked, late, missed>>
vars     == <<running, num_jobs, jobs, wait_mutex, wait, pc, draining, handle,
              arg, new_jobs, parked, late, missed>>

Threads == Workers \cup Callers

Goto(t, l) == pc' = [pc EXCEPT ![t] = l]

Queued == Elems(jobs)

\* Unsigned arithmetic of std::atomic<std::size_t>.
FetchAdd(n) == num_jobs' = (num_jobs + n) % WordSize
FetchSub == num_jobs' = (num_jobs + (WordSize - 1)) % WordSize

NotifyOne ==
    \/ wait = {} /\ UNCHANGED wait
    \/ \E w \in wait : wait' = wait \ {w}

NotifyAll == wait' = {}

Init ==
    /\ running = TRUE
    /\ num_jobs = 0
    /\ jobs = <<>>
    /\ wait_mutex = None
    /\ wait = {}
    /\ pc = [t \in Threads |-> IF t \in Workers THEN "loop" ELSE "idle"]
    /\ draining = {}
    /\ handle = [w \in Workers |-> None]
    /\ arg = [t \in Threads |-> None]
    /\ new_jobs = [c \in Callers |-> 0]
    /\ parked = Handles
    /\ late = {}
    /\ missed = {}

-----------------------------------------------------------------------------
(* worker(), first loop *)

\* while (running)
Loop(w) ==
    /\ pc[w] = "loop"
    /\ Goto(w, IF running THEN "lock" ELSE "drain")
    /\ draining' = IF running THEN draining ELSE draining \cup {w}
    /\ UNCHANGED <<poolVars, handle, arg, new_jobs, envVars>>

\* std::unique_lock lock{wait_mutex}, or the relock when wait() was notified.
Lock(w) ==
    /\ pc[w] = "lock" \/ (pc[w] = "wait" /\ w \notin wait)
    /\ wait_mutex = None
    /\ wait_mutex' = w
    /\ Goto(w, "pred")
    /\ UNCHANGED <<running, num_jobs, jobs, wait, draining, handle, arg, new_jobs, envVars>>

\* Mutant of PopFront: front() without pop_front().
PopFrontKeepsJob(w) ==
    /\ jobs # <<>>
    /\ handle' = [handle EXCEPT ![w] = Head(jobs)]
    /\ Goto(w, "run")
    /\ UNCHANGED <<running, num_jobs, jobs, wait, draining, arg, new_jobs, envVars>>

\* The front handle leaves the deque and the mutex is released.
PopFront(w) ==
    /\ jobs # <<>>
    /\ handle' = [handle EXCEPT ![w] = Head(jobs)]
    /\ jobs' = Tail(jobs)
    /\ Goto(w, "run")
    /\ UNCHANGED <<running, num_jobs, wait, draining, arg, new_jobs, envVars>>

\* The predicate holds because there is a job.
Take(w) ==
    /\ pc[w] = "pred"
    /\ PopFront(w)
    /\ wait_mutex' = None

\* The predicate holds because of shutdown(): if (jobs.empty()) continue.
Continue(w) ==
    /\ pc[w] = "pred" /\ jobs = <<>> /\ ~running
    /\ wait_mutex' = None
    /\ Goto(w, "loop")
    /\ UNCHANGED <<running, num_jobs, jobs, wait, draining, handle, arg, new_jobs, envVars>>

\* The predicate is false: wait() is going to block.
Decide(w) ==
    /\ pc[w] = "pred" /\ jobs = <<>> /\ running
    /\ Goto(w, "block")
    /\ UNCHANGED <<poolVars, draining, handle, arg, new_jobs, envVars>>

\* wait() releases the mutex and blocks, atomically.
Block(w) ==
    /\ pc[w] = "block"
    /\ wait_mutex' = None
    /\ wait' = wait \cup {w}
    /\ Goto(w, "wait")
    /\ UNCHANGED <<running, num_jobs, jobs, draining, handle, arg, new_jobs, envVars>>

\* A condition variable may wake a thread nobody notified.
SpuriousWake(w) ==
    /\ w \in wait
    /\ wait' = wait \ {w}
    /\ UNCHANGED <<running, num_jobs, jobs, wait_mutex, pc, draining, handle, arg, new_jobs, envVars>>

-----------------------------------------------------------------------------
(* worker(), second loop *)

\* Mutant of Drain: the last job does not count.
DrainOffByOne(w) ==
    /\ pc[w] = "drain"
    /\ Goto(w, IF num_jobs > 1 THEN "dlock" ELSE "exited")
    /\ UNCHANGED <<poolVars, draining, handle, arg, new_jobs, envVars>>

\* while (num_jobs > 0)
Drain(w) ==
    /\ pc[w] = "drain"
    /\ Goto(w, IF num_jobs > 0 THEN "dlock" ELSE "exited")
    /\ UNCHANGED <<poolVars, draining, handle, arg, new_jobs, envVars>>

\* The critical section of the second loop finds a job ...
DrainTake(w) ==
    /\ pc[w] = "dlock"
    /\ wait_mutex = None
    /\ PopFront(w)
    /\ UNCHANGED wait_mutex

\* ... or none: if (jobs.empty()) break.
DrainBreak(w) ==
    /\ pc[w] = "dlock"
    /\ wait_mutex = None
    /\ jobs = <<>>
    /\ Goto(w, "exited")
    /\ UNCHANGED <<poolVars, draining, handle, arg, new_jobs, envVars>>

-----------------------------------------------------------------------------
(* handle.resume(): what a coroutine does on a worker *)

\* The coroutine suspends until somebody resumes it, or it finishes.
Suspend(w) ==
    /\ pc[w] = "run"
    /\ parked' \in {parked, parked \cup {handle[w]}}
    /\ handle' = [handle EXCEPT ![w] = None]
    /\ Goto(w, "sub")
    /\ UNCHANGED <<poolVars, draining, arg, new_jobs, late, missed>>

\* co_await pool.schedule(): await_suspend() schedules the awaiting handle.
Yield(w) ==
    /\ pc[w] = "run" /\ running
    /\ arg' = [arg EXCEPT ![w] = handle[w]]
    /\ handle' = [handle EXCEPT ![w] = None]
    /\ Goto(w, "add")
    /\ UNCHANGED <<poolVars, draining, new_jobs, envVars>>

\* co_await pool.schedule() throws on a pool that is shutting down; the
\* exception ends the coroutine.
YieldThrows(w) ==
    /\ pc[w] = "run" /\ ~running
    /\ handle' = [handle EXCEPT ![w] = None]
    /\ Goto(w, "sub")
    /\ UNCHANGED <<poolVars, draining, arg, new_jobs, envVars>>

\* num_jobs.fetch_sub(1) once resume() returned.
Finish(w) ==
    /\ pc[w] = "sub"
    /\ FetchSub
    /\ Goto(w, IF w \in draining THEN "drain" ELSE "loop")
    /\ UNCHANGED <<running, jobs, wait_mutex, wait, draining, handle, arg, new_jobs, envVars>>

-----------------------------------------------------------------------------
(* resume(handle) and schedule(handle), by a caller or by a running coroutine *)

\* resume() finds the pool running.
Resume(t, h) ==
    /\ pc[t] \in {"idle", "run"} /\ running
    /\ h \in parked
    /\ parked' = parked \ {h}
    /\ arg' = [arg EXCEPT ![t] = h]
    /\ Goto(t, "add")
    /\ UNCHANGED <<poolVars, draining, handle, new_jobs, late, missed>>

\* num_jobs.fetch_add(1)
Add(t) ==
    /\ pc[t] = "add"
    /\ FetchAdd(1)
    /\ Goto(t, "push")
    /\ UNCHANGED <<running, jobs, wait_mutex, wait, draining, handle, arg, new_jobs, envVars>>

\* Where schedule(handle) returns to.
Return(t) ==
    IF t \in Callers THEN "idle" ELSE IF handle[t] = None THEN "sub" ELSE "run"

\* Mutant of Push: no notify_one().
PushSilently(t) ==
    /\ pc[t] = "push"
    /\ wait_mutex = None
    /\ jobs' = Append(jobs, arg[t])
    /\ late' = IF running THEN late ELSE late \cup {arg[t]}
    /\ arg' = [arg EXCEPT ![t] = None]
    /\ Goto(t, Return(t))
    /\ UNCHANGED <<running, num_jobs, wait_mutex, wait, draining, handle, new_jobs, parked, missed>>

\* The critical section of schedule(handle): emplace_back and notify_one.
Push(t) ==
    /\ pc[t] = "push"
    /\ wait_mutex = None
    /\ jobs' = Append(jobs, arg[t])
    /\ late' = IF running THEN late ELSE late \cup {arg[t]}
    /\ arg' = [arg EXCEPT ![t] = None]
    /\ NotifyOne
    /\ Goto(t, Return(t))
    /\ UNCHANGED <<running, num_jobs, wait_mutex, draining, handle, new_jobs, parked, missed>>

-----------------------------------------------------------------------------
(* resume(range) *)

\* All handles are pushed in one critical section, before they are counted.
PushRange(c) ==
    /\ c \in RangeCallers /\ pc[c] = "idle"
    /\ wait_mutex = None
    /\ \E n \in 1..Cardinality(Handles) :
         \E q \in [1..n -> parked] :
            /\ Distinct(q)
            /\ jobs' = jobs \o q
            /\ new_jobs' = [new_jobs EXCEPT ![c] = n]
            /\ parked' = parked \ Elems(q)
            /\ late' = IF running THEN late ELSE late \cup Elems(q)
    /\ Goto(c, "add_range")
    /\ UNCHANGED <<running, num_jobs, wait_mutex, wait, draining, handle, arg, missed>>

\* Mutant of AddRange: counts one job for the whole range.
AddRangeOnce(c) ==
    /\ pc[c] = "add_range"
    /\ FetchAdd(1)
    /\ Goto(c, IF new_jobs[c] >= Cardinality(Workers) THEN "notify_all" ELSE "notify_one")
    /\ UNCHANGED <<running, jobs, wait_mutex, wait, draining, handle, arg, new_jobs, envVars>>

\* num_jobs.fetch_add(new_jobs)
AddRange(c) ==
    /\ pc[c] = "add_range"
    /\ FetchAdd(new_jobs[c])
    /\ Goto(c, IF new_jobs[c] >= Cardinality(Workers) THEN "notify_all" ELSE "notify_one")
    /\ UNCHANGED <<running, jobs, wait_mutex, wait, draining, handle, arg, new_jobs, envVars>>

NotifyRangeAll(c) ==
    /\ pc[c] = "notify_all"
    /\ NotifyAll
    /\ new_jobs' = [new_jobs EXCEPT ![c] = 0]
    /\ Goto(c, "idle")
    /\ UNCHANGED <<running, num_jobs, jobs, wait_mutex, draining, handle, arg, envVars>>

\* One iteration of: for (i < new_jobs) wait.notify_one()
NotifyRangeOne(c) ==
    /\ pc[c] = "notify_one"
    /\ NotifyOne
    /\ new_jobs' = [new_jobs EXCEPT ![c] = @ - 1]
    /\ Goto(c, IF new_jobs[c] = 1 THEN "idle" ELSE "notify_one")
    /\ UNCHANGED <<running, num_jobs, jobs, wait_mutex, draining, handle, arg, envVars>>

-----------------------------------------------------------------------------
(* shutdown() *)

\* running.exchange(false) returned true.
Shutdown(c) ==
    /\ pc[c] = "idle" /\ running
    /\ running' = FALSE
    /\ Goto(c, "notify")
    /\ UNCHANGED <<num_jobs, jobs, wait_mutex, wait, draining, handle, arg, new_jobs, envVars>>

\* Mutant of ShutdownNotify: notify_one() instead of notify_all().
ShutdownNotifiesOne(c) ==
    /\ pc[c] = "notify"
    /\ NotifyOne
    /\ missed' = {w \in Workers : pc[w] = "block"}
    /\ Goto(c, "join")
    /\ UNCHANGED <<running, num_jobs, jobs, wait_mutex, draining, handle, arg, new_jobs, parked, late>>

\* wait.notify_all(), without the mutex.
ShutdownNotify(c) ==
    /\ pc[c] = "notify"
    /\ NotifyAll
    /\ missed' = {w \in Workers : pc[w] = "block"}
    /\ Goto(c, "join")
    /\ UNCHANGED <<running, num_jobs, jobs, wait_mutex, draining, handle, arg, new_jobs, parked, late>>

\* Every thread has been joined.
Join(c) ==
    /\ pc[c] = "join"
    /\ \A w \in Workers : pc[w] = "exited"
    /\ Goto(c, "joined")
    /\ UNCHANGED <<poolVars, draining, handle, arg, new_jobs, envVars>>

-----------------------------------------------------------------------------

WorkerStep(w) ==
    \/ Loop(w) \/ Lock(w) \/ Take(w) \/ Continue(w) \/ Decide(w) \/ Block(w)
    \/ Drain(w) \/ DrainTake(w) \/ DrainBreak(w)
    \/ Suspend(w) \/ Yield(w) \/ YieldThrows(w) \/ Finish(w)

SubmitStep(t) == Add(t) \/ Push(t)

CallerStep(c) ==
    \/ AddRange(c) \/ NotifyRangeAll(c) \/ NotifyRangeOne(c)
    \/ ShutdownNotify(c) \/ Join(c)

Next ==
    \/ \E w \in Workers : WorkerStep(w) \/ SpuriousWake(w)
    \/ \E t \in Threads : SubmitStep(t) \/ \E h \in Handles : Resume(t, h)
    \/ \E c \in Callers : CallerStep(c) \/ PushRange(c) \/ Shutdown(c)

Spec == Init /\ [][Next]_vars

\* The code of a coroutine between two suspension points terminates.
CoroutineReturns(w) == Suspend(w) \/ Yield(w) \/ YieldThrows(w)

\* A thread that can step does, eventually; nothing is assumed of spurious
\* wake-ups, of new calls, or of who wins a contended mutex.
Fairness ==
    /\ \A w \in Workers : WF_vars(WorkerStep(w)) /\ SF_vars(CoroutineReturns(w))
    /\ \A t \in Threads : WF_vars(SubmitStep(t))
    /\ \A c \in Callers : WF_vars(CallerStep(c))

FairSpec == Spec /\ Fairness

-----------------------------------------------------------------------------
(* Properties *)

WorkerLabels == {"loop", "lock", "pred", "block", "wait", "run", "sub", "drain",
                 "dlock", "exited", "add", "push"}
CallerLabels == {"idle", "add", "push", "add_range", "notify_all", "notify_one",
                 "notify", "join", "joined"}

\* Type invariant.
TypeOK ==
    /\ running \in BOOLEAN
    /\ num_jobs \in 0..(WordSize - 1)
    /\ jobs \in Seq(Handles)
    /\ wait_mutex \in Workers \cup {None}
    /\ wait \subseteq Workers
    /\ pc \in [Threads -> WorkerLabels \cup CallerLabels]
    /\ \A w \in Workers : pc[w] \in WorkerLabels
    /\ \A c \in Callers : pc[c] \in CallerLabels
    /\ draining \subseteq Workers
    /\ handle \in [Workers -> Handles \cup {None}]
    /\ arg \in [Threads -> Handles \cup {None}]
    /\ new_jobs \in [Callers -> Nat]
    /\ parked \subseteq Handles
    /\ late \subseteq Handles
    /\ missed \subseteq Workers

\* The handles being executed.
Active == {handle[w] : w \in Workers} \ {None}

\* A coroutine is never resumed on two workers at once, and never executes
\* while it is still in the deque: resuming a running coroutine is undefined
\* behaviour.  A coroutine that yields is in the deque before the worker that
\* ran it is back in worker().
NoConcurrentResume ==
    /\ \A v, w \in Workers : handle[v] # None /\ handle[v] = handle[w] => v = w
    /\ Active \cap Queued = {}
    /\ Distinct(jobs)

\* A handle is in one place at a time: the deque, the hands of one worker, the
\* hands of one thread that schedules it, or suspended where it may be resumed.
OnePlace ==
    /\ NoConcurrentResume
    /\ \A s, t \in Threads : arg[s] # None /\ arg[s] = arg[t] => s = t
    /\ \A t \in Threads : arg[t] \notin Queued \cup Active \cup parked
    /\ parked \cap (Queued \cup Active) = {}

\* Which threads hold a handle to execute, one to schedule, or
\* handles still to count or to notify.
Hands ==
    /\ \A w \in Workers : handle[w] # None => pc[w] \in {"run", "add", "push"}
    /\ \A w \in Workers : pc[w] = "run" => handle[w] # None
    /\ \A t \in Threads : arg[t] # None <=> pc[t] \in {"add", "push"}
    /\ \A c \in Callers : pc[c] \in {"add_range", "notify_one"} => new_jobs[c] > 0

\* The inductive invariant behind NoConcurrentResume.
OwnershipInv == TypeOK /\ OnePlace /\ Hands

\* The workers between pop_front() and fetch_sub().
Executing == {w \in Workers : pc[w] \in {"run", "add", "push", "sub"}}

\* The threads between fetch_add() and emplace_back().
Adding == {t \in Threads : pc[t] = "push"}

\* num_jobs is exact whenever no resume(range) is between its critical section
\* and its fetch_add(): it counts the queued jobs, the workers executing one
\* and the calls that are about to queue one.  The second loop of worker()
\* relies on it to leave no job behind.
NumJobsExact ==
    (\A c \in Callers : pc[c] # "add_range") =>
        num_jobs = Len(jobs) + Cardinality(Executing) + Cardinality(Adding)

\* num_jobs counts the jobs "queued AND currently executing" (thread_pool.hpp).
NumJobsCountsQueued == Len(jobs) + Cardinality(Executing) <= num_jobs

\* Once a worker has left worker(), the only handles in the deque are those
\* whose emplace_back() came after running became false: shutdown() leaves
\* none of the jobs accepted before it unexecuted.
NoStrandedJob == (\E w \in Workers : pc[w] = "exited") => Queued \subseteq late

\* A job queued before shutdown() is eventually executed, whoever is asleep
\* when it is queued and whenever shutdown() comes: no notify_one() is lost.
QueuedJobRuns == \A h \in Handles : h \in Queued \ late ~> h \in Active

\* shutdown() returns, unless its notify_all(), which is not under wait_mutex,
\* came between a worker's evaluation of the predicate and its blocking.
ShutdownReturns ==
    \A c \in Callers : pc[c] = "notify" ~> (pc[c] = "joined" \/ missed # {})

\* The pool implements the executor the rest of the library relies on.
Exec == INSTANCE Executor WITH
            Concurrency <- Cardinality(Workers), queue <- jobs, active <- Active

ImplementsExecutor == Exec!Spec

=============================================================================
