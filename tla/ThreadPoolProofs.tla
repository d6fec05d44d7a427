-------------------------- MODULE ThreadPoolProofs --------------------------
(***************************************************************************)
(* Proofs about coro::thread_pool, for any number of workers, callers and  *)
(* coroutines.                                                             *)
(***************************************************************************)
EXTENDS ThreadPool, QueueLemmas, FiniteSetTheorems

\* A queue of distinct elements is no longer than the set it draws from.
LEMMA DistinctBound ==
    ASSUME NEW S, IsFiniteSet(S), NEW q \in Seq(S), Distinct(q)
    PROVE  Len(q) <= Cardinality(S)
<1>1. Len(q) \in Nat /\ DOMAIN q = 1..Len(q) /\ q \in [1..Len(q) -> S]
  OBVIOUS
<1>2. q \in Injection(1..Len(q), S)
  BY <1>1 DEF Distinct, Injection, IsInjective
<1>3. Cardinality(1..Len(q)) <= Cardinality(S)
  BY <1>2, FS_Injection
<1>4. Cardinality(1..Len(q)) = Len(q)
  BY <1>1, FS_Interval
<1> QED BY <1>3, <1>4

\* A word has at least one value.
LEMMA WordPositive == WordSize \in Nat \ {0}
BY PoolAssumption, WordAssumption, FS_CardinalityType

\* The wrapping arithmetic of num_jobs stays in its range.
LEMMA WordRange ==
    ASSUME NEW n \in Nat, NEW k \in Nat
    PROVE  (n + k) % WordSize \in 0..(WordSize - 1)
BY WordPositive

\* Steps that move no handle keep every handle in one place.
LEMMA OnePlaceFrame ==
    OnePlace /\ UNCHANGED <<jobs, handle, arg, parked>> => OnePlace'
BY DEF OnePlace, NoConcurrentResume, Active, Queued

\* Both loops of worker() take a job the same way.
LEMMA PopFrontOwnership ==
    ASSUME OwnershipInv, NEW w \in Workers, pc[w] \in {"pred", "dlock"}, PopFront(w),
           wait_mutex' \in Workers \cup {None}
    PROVE  OwnershipInv'
<1> USE PoolAssumption
<1> USE DEF OwnershipInv, PopFront, Goto, envVars
<1>0. w \in Threads /\ handle[w] = None /\ arg[w] = None
  BY DEF Threads, Hands, TypeOK
<1>1. /\ jobs' \in Seq(Handles) /\ Head(jobs) \in Handles /\ Head(jobs) \in Queued
      /\ Queued' = Queued \ {Head(jobs)} /\ Distinct(jobs')
  BY FrontRemoved DEF TypeOK, OnePlace, NoConcurrentResume, Queued
<1>2. TypeOK'
  BY <1>0, <1>1 DEF TypeOK, WorkerLabels, CallerLabels, Threads
<1>3. /\ handle'[w] = Head(jobs)
      /\ \A v \in Workers \ {w} : handle'[v] = handle[v]
  BY DEF TypeOK
<1>4. Active' = Active \cup {Head(jobs)}
  BY <1>0, <1>1, <1>3 DEF Active
<1>5. Head(jobs) \notin Active
  BY <1>1 DEF OnePlace, NoConcurrentResume
<1>6. NoConcurrentResume'
  <2>1. \A u, v \in Workers : handle'[u] # None /\ handle'[u] = handle'[v] => u = v
    BY <1>1, <1>3, <1>5 DEF OnePlace, NoConcurrentResume, Active
  <2>2. Active' \cap Queued' = {}
    BY <1>1, <1>4 DEF OnePlace, NoConcurrentResume
  <2> QED BY <1>1, <2>1, <2>2 DEF NoConcurrentResume
<1>7. OnePlace'
  BY <1>1, <1>4, <1>6 DEF OnePlace
<1>8. Hands'
  BY <1>0, <1>1, <1>3 DEF Hands, TypeOK, Threads
<1> QED BY <1>2, <1>7, <1>8

\* A worker stops executing; its handle is parked, scheduled or forgotten.
LEMMA StopOwnership ==
    ASSUME OwnershipInv, NEW w \in Workers, pc[w] = "run",
           Suspend(w) \/ Yield(w) \/ YieldThrows(w)
    PROVE  OwnershipInv'
<1> USE PoolAssumption
<1> USE DEF OwnershipInv, poolVars, envVars
<1>0. /\ w \in Threads /\ handle[w] \in Handles /\ arg[w] = None
      /\ handle' = [handle EXCEPT ![w] = None] /\ UNCHANGED <<jobs, num_jobs, running>>
      /\ handle'[w] = None /\ \A v \in Workers \ {w} : handle'[v] = handle[v]
  BY DEF Threads, Hands, TypeOK, Suspend, Yield, YieldThrows
<1>1. TypeOK'
  <2>1. CASE Suspend(w)
    BY <1>0, <2>1 DEF TypeOK, WorkerLabels, CallerLabels, Threads, Suspend, Goto
  <2>2. CASE Yield(w)
    BY <1>0, <2>2 DEF TypeOK, WorkerLabels, CallerLabels, Threads, Yield, Goto
  <2>3. CASE YieldThrows(w)
    BY <1>0, <2>3 DEF TypeOK, WorkerLabels, CallerLabels, Threads, YieldThrows, Goto
  <2> QED BY <2>1, <2>2, <2>3
<1>2. Active' = Active \ {handle[w]} /\ handle[w] \in Active
  BY <1>0 DEF Active, OnePlace, NoConcurrentResume
<1>3. Queued' = Queued
  BY <1>0 DEF Queued
<1>4. NoConcurrentResume'
  BY <1>0, <1>2, <1>3 DEF OnePlace, NoConcurrentResume
<1>5. CASE Suspend(w)
  <2>0. /\ parked' \subseteq parked \cup {handle[w]} /\ arg' = arg
        /\ handle[w] \notin Queued /\ \A t \in Threads : arg[t] # handle[w]
    BY <1>2, <1>5 DEF OnePlace, NoConcurrentResume, Suspend
  <2>1. OnePlace'
    <3>1. \A t \in Threads : arg'[t] \notin Queued' \cup Active' \cup parked'
      BY <1>2, <1>3, <2>0 DEF OnePlace
    <3>2. parked' \cap (Queued' \cup Active') = {}
      BY <1>2, <1>3, <2>0 DEF OnePlace
    <3> QED BY <1>4, <2>0, <3>1, <3>2 DEF OnePlace
  <2>2. Hands'
    BY <1>0, <1>5 DEF Hands, Suspend, Goto, TypeOK, Threads
  <2> QED BY <1>1, <2>1, <2>2
<1>6. CASE Yield(w)
  <2>0. arg'[w] = handle[w] /\ \A t \in Threads \ {w} : arg'[t] = arg[t]
    BY <1>0, <1>6 DEF TypeOK, Yield
  <2>1. OnePlace'
    <3>0. /\ handle[w] \notin Queued /\ handle[w] \notin parked /\ parked' = parked
          /\ \A t \in Threads : arg[t] # handle[w]
      BY <1>2, <1>6 DEF OnePlace, NoConcurrentResume, Yield
    <3>1. \A t \in Threads : arg'[t] \notin Queued' \cup Active' \cup parked'
      BY <1>2, <1>3, <2>0, <3>0 DEF OnePlace
    <3>2. \A s, t \in Threads : arg'[s] # None /\ arg'[s] = arg'[t] => s = t
      BY <2>0, <3>0 DEF OnePlace
    <3>3. parked' \cap (Queued' \cup Active') = {}
      BY <1>2, <1>3, <3>0 DEF OnePlace
    <3> QED BY <1>4, <3>1, <3>2, <3>3 DEF OnePlace
  <2>2. Hands'
    BY <1>0, <1>6, <2>0 DEF Hands, Yield, Goto, TypeOK, Threads
  <2> QED BY <1>1, <2>1, <2>2
<1>7. CASE YieldThrows(w)
  <2>1. OnePlace'
    BY <1>0, <1>2, <1>3, <1>4, <1>7 DEF OnePlace, YieldThrows
  <2>2. Hands'
    BY <1>0, <1>7 DEF Hands, YieldThrows, Goto, TypeOK, Threads
  <2> QED BY <1>1, <2>1, <2>2
<1> QED BY <1>5, <1>6, <1>7

\* The critical section of schedule(handle), and resume() before it.
LEMMA SubmitOwnership ==
    ASSUME OwnershipInv, NEW t \in Threads, Add(t) \/ Push(t) \/ \E h \in Handles : Resume(t, h)
    PROVE  OwnershipInv'
<1> USE PoolAssumption
<1> USE DEF OwnershipInv, poolVars, envVars, Goto
<1>1. CASE Add(t)
  <2>1. TypeOK'
    <3>1. num_jobs' \in 0..(WordSize - 1)
      BY <1>1, WordRange DEF TypeOK, Add, FetchAdd
    <3> QED BY <1>1, <3>1 DEF TypeOK, Add, WorkerLabels, CallerLabels, Threads
  <2>2. OnePlace'
    BY <1>1, OnePlaceFrame DEF Add
  <2>3. Hands'
    BY <1>1 DEF Hands, Add, TypeOK, Threads
  <2> QED BY <2>1, <2>2, <2>3
<1>2. CASE Push(t)
  <2>0. /\ arg[t] \in Handles /\ arg[t] \notin Queued \cup Active \cup parked
        /\ arg'[t] = None /\ \A s \in Threads \ {t} : arg'[s] = arg[s] /\ arg[s] # arg[t]
    BY <1>2 DEF TypeOK, OnePlace, Hands, Push
  <2>1. /\ jobs' \in Seq(Handles) /\ Queued' = Queued \cup {arg[t]} /\ Distinct(jobs')
        /\ UNCHANGED <<handle, parked>> /\ Active' = Active
    BY <1>2, <2>0, OneAdded, SMTT(30) DEF TypeOK, Push, OnePlace, NoConcurrentResume, Queued, Active
  <2>2. TypeOK'
    <3>1. wait' \subseteq Workers
      BY <1>2 DEF TypeOK, Push, NotifyOne
    <3>2. Return(t) \in {"idle", "sub", "run"} /\ (t \in Callers <=> Return(t) = "idle")
      BY DEF Return
    <3>3. late' \subseteq Handles
      BY <1>2, <2>0 DEF TypeOK, Push
    <3> QED BY <1>2, <2>0, <2>1, <3>1, <3>2, <3>3
            DEF TypeOK, Push, WorkerLabels, CallerLabels, Threads
  <2>3. OnePlace'
    <3>1. NoConcurrentResume'
      BY <2>0, <2>1 DEF OnePlace, NoConcurrentResume
    <3>2. None \notin Queued' \cup Active' \cup parked'
      BY <2>0, <2>1 DEF OnePlace, Queued, Elems, TypeOK, Active
    <3> QED BY <2>0, <2>1, <3>1, <3>2 DEF OnePlace
  <2>4. Hands'
    <3>1. handle' = handle /\ pc'[t] = Return(t) /\ \A s \in Threads \ {t} : pc'[s] = pc[s]
      BY <1>2 DEF Push, TypeOK
    <3>2. /\ \A w \in Workers : handle'[w] # None => pc'[w] \in {"run", "add", "push"}
          /\ \A w \in Workers : pc'[w] = "run" => handle'[w] # None
      BY <3>1 DEF Hands, Return, Threads
    <3>3. \A s \in Threads : arg'[s] # None <=> pc'[s] \in {"add", "push"}
      BY <2>0, <3>1 DEF Hands, Return
    <3>4. \A c \in Callers : pc'[c] \in {"add_range", "notify_one"} => new_jobs'[c] > 0
      BY <1>2, <3>1 DEF Hands, Return, Push, Threads
    <3> QED BY <3>2, <3>3, <3>4 DEF Hands
  <2> QED BY <2>2, <2>3, <2>4
<1>3. ASSUME NEW h \in Handles, Resume(t, h) PROVE OwnershipInv'
  <2>0. /\ arg[t] = None /\ arg'[t] = h /\ \A s \in Threads \ {t} : arg'[s] = arg[s]
        /\ UNCHANGED <<jobs, handle>> /\ Queued' = Queued /\ Active' = Active
        /\ h \in parked /\ h \notin Queued \cup Active /\ parked' = parked \ {h}
        /\ \A s \in Threads : arg[s] # h
    BY <1>3, SMTT(90) DEF Resume, TypeOK, Hands, OnePlace, Queued, Active
  <2>1. TypeOK'
    BY <1>3, <2>0 DEF TypeOK, Resume, WorkerLabels, CallerLabels, Threads
  <2>2. OnePlace'
    <3>1. NoConcurrentResume'
      BY <2>0 DEF OnePlace, NoConcurrentResume
    <3>2. \A s, u \in Threads : arg'[s] # None /\ arg'[s] = arg'[u] => s = u
      BY <2>0 DEF OnePlace
    <3>3. \A s \in Threads : arg'[s] \notin Queued' \cup Active' \cup parked'
      BY <2>0 DEF OnePlace
    <3> QED BY <2>0, <3>1, <3>2, <3>3 DEF OnePlace
  <2>3. Hands'
    <3>1. pc'[t] = "add" /\ \A s \in Threads \ {t} : pc'[s] = pc[s]
      BY <1>3 DEF Resume, TypeOK
    <3> QED BY <1>3, <2>0, <3>1, SMTT(30) DEF Hands, Threads, Resume
  <2> QED BY <2>1, <2>2, <2>3
<1> QED BY <1>1, <1>2, <1>3

\* The critical section of resume(range).
LEMMA RangeOwnership ==
    ASSUME OwnershipInv, NEW c \in Callers, PushRange(c)
    PROVE  OwnershipInv'
<1> USE PoolAssumption
<1> USE DEF OwnershipInv, poolVars, envVars, Goto
<1>0. PICK n \in 1..Cardinality(Handles) : \E q \in [1..n -> parked] :
          /\ Distinct(q) /\ jobs' = jobs \o q /\ parked' = parked \ Elems(q)
          /\ new_jobs' = [new_jobs EXCEPT ![c] = n]
          /\ late' = IF running THEN late ELSE late \cup Elems(q)
  BY DEF PushRange
<1>1. PICK q \in [1..n -> parked] :
          /\ Distinct(q) /\ jobs' = jobs \o q /\ parked' = parked \ Elems(q)
          /\ new_jobs' = [new_jobs EXCEPT ![c] = n]
          /\ late' = IF running THEN late ELSE late \cup Elems(q)
  BY <1>0
<1>2. n \in Nat \ {0} /\ Elems(q) \subseteq parked /\ q \in Seq(Handles) /\ parked \subseteq Handles
  <2>1. n \in Nat \ {0}
    BY FS_CardinalityType
  <2>2. parked \subseteq Handles /\ q \in [1..n -> Handles]
    BY <1>1 DEF TypeOK
  <2>3. q \in Seq(Handles) /\ DOMAIN q = 1..n /\ \A i \in 1..n : q[i] \in parked
    BY <2>1, <2>2
  <2> QED BY <2>1, <2>2, <2>3 DEF Elems
<1>3. /\ jobs' \in Seq(Handles) /\ Queued' = Queued \cup Elems(q) /\ Distinct(jobs')
      /\ UNCHANGED <<handle, arg>> /\ Active' = Active
  <2>1. Queued \cap Elems(q) = {}
    BY <1>2 DEF OnePlace
  <2>2. jobs \in Seq(Handles) /\ Distinct(jobs)
    BY DEF TypeOK, OnePlace, NoConcurrentResume
  <2>3. handle' = handle /\ arg' = arg
    BY DEF PushRange
  <2>4. Active' = Active
    BY <2>3 DEF Active
  <2>5. /\ jobs' \in Seq(Handles) /\ Elems(jobs') = Elems(jobs) \cup Elems(q) /\ Distinct(jobs')
    BY <1>1, <1>2, <2>1, <2>2, BackAdded DEF Queued
  <2> QED BY <2>3, <2>4, <2>5 DEF Queued
<1>4. TypeOK'
  BY <1>1, <1>2, <1>3 DEF TypeOK, PushRange, WorkerLabels, CallerLabels, Threads
<1>5. OnePlace'
  <2>1. NoConcurrentResume'
    BY <1>2, <1>3 DEF OnePlace, NoConcurrentResume
  <2> QED BY <1>1, <1>2, <1>3, <2>1 DEF OnePlace
<1>6. Hands'
  BY <1>1, <1>2, <1>3, SMTT(90) DEF Hands, PushRange, TypeOK, Threads
<1> QED BY <1>4, <1>5, <1>6

\* The steps of a worker that move no handle.
LEMMA WorkerFrameOwnership ==
    ASSUME OwnershipInv, NEW w \in Workers,
           \/ Loop(w) \/ Lock(w) \/ Continue(w) \/ Decide(w) \/ Block(w) \/ SpuriousWake(w)
           \/ Drain(w) \/ DrainBreak(w) \/ Finish(w)
    PROVE  OwnershipInv'
<1> USE PoolAssumption
<1> USE DEF OwnershipInv, poolVars, envVars, Goto
<1>1. OnePlace'
  BY OnePlaceFrame DEF Loop, Lock, Continue, Decide, Block, SpuriousWake, Drain, DrainBreak, Finish
<1>2. TypeOK'
  <2>1. CASE Loop(w)
    BY <2>1 DEF TypeOK, Loop, WorkerLabels, CallerLabels, Threads
  <2>2. CASE Lock(w)
    BY <2>2 DEF TypeOK, Lock, WorkerLabels, CallerLabels, Threads
  <2>3. CASE Continue(w)
    BY <2>3 DEF TypeOK, Continue, WorkerLabels, CallerLabels, Threads
  <2>4. CASE Decide(w)
    BY <2>4 DEF TypeOK, Decide, WorkerLabels, CallerLabels, Threads
  <2>5. CASE Block(w)
    BY <2>5, SMTT(30) DEF TypeOK, Block, WorkerLabels, CallerLabels, Threads
  <2>6. CASE Drain(w)
    BY <2>6 DEF TypeOK, Drain, WorkerLabels, CallerLabels, Threads
  <2>7. CASE DrainBreak(w)
    BY <2>7 DEF TypeOK, DrainBreak, WorkerLabels, CallerLabels, Threads
  <2>8. CASE Finish(w)
    <3>1. num_jobs' \in 0..(WordSize - 1)
      BY <2>8, WordAssumption, WordRange, WordPositive DEF TypeOK, Finish, FetchSub
    <3> QED BY <2>8, <3>1 DEF TypeOK, Finish, WorkerLabels, CallerLabels, Threads
  <2>9. CASE SpuriousWake(w)
    BY <2>9 DEF TypeOK, SpuriousWake, WorkerLabels, CallerLabels, Threads
  <2> QED BY <2>1, <2>2, <2>3, <2>4, <2>5, <2>6, <2>7, <2>8, <2>9
<1>3. Hands'
  <2>1. CASE Loop(w)
    BY <2>1 DEF Hands, TypeOK, Threads, Loop
  <2>2. CASE Lock(w)
    BY <2>2 DEF Hands, TypeOK, Threads, Lock
  <2>3. CASE Continue(w)
    BY <2>3 DEF Hands, TypeOK, Threads, Continue
  <2>4. CASE Decide(w)
    BY <2>4 DEF Hands, TypeOK, Threads, Decide
  <2>5. CASE Block(w)
    BY <2>5 DEF Hands, TypeOK, Threads, Block
  <2>6. CASE SpuriousWake(w)
    BY <2>6 DEF Hands, TypeOK, Threads, SpuriousWake
  <2>7. CASE Drain(w)
    BY <2>7 DEF Hands, TypeOK, Threads, Drain
  <2>8. CASE DrainBreak(w)
    BY <2>8 DEF Hands, TypeOK, Threads, DrainBreak
  <2>9. CASE Finish(w)
    BY <2>9 DEF Hands, TypeOK, Threads, Finish
  <2> QED BY <2>1, <2>2, <2>3, <2>4, <2>5, <2>6, <2>7, <2>8, <2>9
<1> QED BY <1>1, <1>2, <1>3

\* The steps of a caller that move no handle.
LEMMA CallerFrameOwnership ==
    ASSUME OwnershipInv, NEW c \in Callers, CallerStep(c) \/ Shutdown(c)
    PROVE  OwnershipInv'
<1> USE PoolAssumption
<1> USE DEF OwnershipInv, poolVars, envVars, Goto
<1>1. OnePlace'
  BY OnePlaceFrame DEF CallerStep, AddRange, NotifyRangeAll, NotifyRangeOne, ShutdownNotify,
                       Join, Shutdown
<1>2. TypeOK'
  <2>1. CASE AddRange(c)
    <3>1. num_jobs' \in 0..(WordSize - 1)
      BY <2>1, WordRange DEF TypeOK, AddRange, FetchAdd
    <3> QED BY <2>1, <3>1 DEF TypeOK, AddRange, WorkerLabels, CallerLabels, Threads
  <2>2. CASE NotifyRangeAll(c)
    BY <2>2 DEF TypeOK, NotifyRangeAll, NotifyAll, WorkerLabels, CallerLabels, Threads
  <2>3. CASE NotifyRangeOne(c)
    BY <2>3, SMTT(90) DEF TypeOK, Hands, NotifyRangeOne, NotifyOne, WorkerLabels, CallerLabels, Threads
  <2>4. CASE ShutdownNotify(c)
    BY <2>4 DEF TypeOK, ShutdownNotify, NotifyAll, WorkerLabels, CallerLabels, Threads
  <2>5. CASE Join(c)
    BY <2>5 DEF TypeOK, Join, WorkerLabels, CallerLabels, Threads
  <2>6. CASE Shutdown(c)
    BY <2>6 DEF TypeOK, Shutdown, WorkerLabels, CallerLabels, Threads
  <2> QED BY <2>1, <2>2, <2>3, <2>4, <2>5, <2>6 DEF CallerStep
<1>3. Hands'
  <2>1. CASE AddRange(c)
    BY <2>1 DEF Hands, TypeOK, Threads, AddRange
  <2>2. CASE NotifyRangeAll(c)
    BY <2>2 DEF Hands, TypeOK, Threads, NotifyRangeAll
  <2>3. CASE NotifyRangeOne(c)
    <3>1. new_jobs[c] \in Nat \ {0} /\ (new_jobs[c] # 1 => new_jobs[c] - 1 > 0)
      BY <2>3 DEF Hands, TypeOK, NotifyRangeOne
    <3>2. /\ new_jobs'[c] = new_jobs[c] - 1
          /\ \A d \in Callers \ {c} : new_jobs'[d] = new_jobs[d] /\ pc'[d] = pc[d]
          /\ pc'[c] = IF new_jobs[c] = 1 THEN "idle" ELSE "notify_one"
      BY <2>3 DEF TypeOK, Threads, NotifyRangeOne
    <3>3. \A d \in Callers : pc'[d] \in {"add_range", "notify_one"} => new_jobs'[d] > 0
      BY <3>1, <3>2 DEF Hands
    <3> QED BY <2>3, <3>3 DEF Hands, TypeOK, Threads, NotifyRangeOne
  <2>4. CASE ShutdownNotify(c)
    BY <2>4 DEF Hands, TypeOK, Threads, ShutdownNotify
  <2>5. CASE Join(c)
    BY <2>5 DEF Hands, TypeOK, Threads, Join
  <2>6. CASE Shutdown(c)
    BY <2>6 DEF Hands, TypeOK, Threads, Shutdown
  <2> QED BY <2>1, <2>2, <2>3, <2>4, <2>5, <2>6 DEF CallerStep
<1> QED BY <1>1, <1>2, <1>3

\* Handles stay in one place: the inductive invariant.
\* In every state of worker(), schedule(), resume() and shutdown(), in every
\* interleaving, a handle is in the deque, on one worker, in the hands of one
\* submitting thread, or suspended.
THEOREM Ownership == Spec => []OwnershipInv
<1>1. Init => OwnershipInv
  <2> SUFFICES ASSUME Init PROVE OwnershipInv
    OBVIOUS
  <2>1. TypeOK
    BY PoolAssumption, WordPositive
       DEF Init, TypeOK, WorkerLabels, CallerLabels, Threads
  <2>2. Queued = {} /\ Active = {} /\ Distinct(jobs)
    BY DEF Init, Queued, Elems, Distinct, Active
  <2>3. OnePlace /\ Hands
    BY <2>2, PoolAssumption DEF Init, OnePlace, NoConcurrentResume, Hands, Threads
  <2> QED BY <2>1, <2>3 DEF OwnershipInv
<1>2. OwnershipInv /\ [Next]_vars => OwnershipInv'
  <2> SUFFICES ASSUME OwnershipInv, [Next]_vars PROVE OwnershipInv'
    OBVIOUS
  <2>1. ASSUME NEW w \in Workers, WorkerStep(w) \/ SpuriousWake(w) PROVE OwnershipInv'
    <3>1. CASE Take(w) \/ DrainTake(w)
      <4>1. pc[w] \in {"pred", "dlock"} /\ PopFront(w) /\ wait_mutex' \in Workers \cup {None}
        BY <3>1 DEF Take, DrainTake, OwnershipInv, TypeOK
      <4> QED BY <4>1, PopFrontOwnership
    <3>2. CASE Suspend(w) \/ Yield(w) \/ YieldThrows(w)
      <4>1. pc[w] = "run"
        BY <3>2 DEF Suspend, Yield, YieldThrows
      <4> QED BY <3>2, <4>1, StopOwnership
    <3> QED BY <2>1, <3>1, <3>2, WorkerFrameOwnership DEF WorkerStep
  <2>2. ASSUME NEW t \in Threads, SubmitStep(t) \/ \E h \in Handles : Resume(t, h)
        PROVE  OwnershipInv'
    BY <2>2, SubmitOwnership DEF SubmitStep
  <2>3. ASSUME NEW c \in Callers, CallerStep(c) \/ PushRange(c) \/ Shutdown(c)
        PROVE  OwnershipInv'
    BY <2>3, RangeOwnership, CallerFrameOwnership
  <2>4. CASE UNCHANGED vars
    <3>1. TypeOK'
      BY <2>4 DEF vars, OwnershipInv, TypeOK
    <3>2. Hands'
      BY <2>4 DEF vars, OwnershipInv, Hands
    <3>3. Queued' = Queued /\ Active' = Active /\ arg' = arg /\ pc' = pc /\ parked' = parked
      BY <2>4 DEF vars, Queued, Active
    <3>4. OnePlace'
      BY <2>4, <3>3 DEF vars, OwnershipInv, OnePlace, NoConcurrentResume
    <3> QED BY <3>1, <3>2, <3>4 DEF OwnershipInv
  <2> QED BY <2>1, <2>2, <2>3, <2>4 DEF Next
<1> QED BY <1>1, <1>2, PTL DEF Spec

\* No coroutine is resumed on two workers at once, or while it is queued, for
\* any number of workers and any mix of schedule(), resume(), resume(range)
\* and shutdown().
THEOREM NoDoubleResume == Spec => []NoConcurrentResume
<1>1. OwnershipInv => NoConcurrentResume
  BY DEF OwnershipInv, OnePlace
<1> QED BY <1>1, Ownership, PTL

-----------------------------------------------------------------------------
(* num_jobs, in a pool nobody calls resume(range) on *)

\* The jobs num_jobs should count.
Jobs == Len(jobs) + Cardinality(Executing) + Cardinality(Adding)

\* The counts are natural numbers, and their sum fits in a std::size_t.
LEMMA JobsBound ==
    ASSUME OwnershipInv
    PROVE  /\ IsFiniteSet(Executing) /\ Cardinality(Executing) \in Nat
           /\ IsFiniteSet(Adding) /\ Cardinality(Adding) \in Nat
           /\ Len(jobs) \in Nat /\ Jobs \in Nat /\ Jobs < WordSize
<1> USE PoolAssumption
<1>1. /\ Cardinality(Workers) \in Nat /\ Cardinality(Callers) \in Nat
      /\ Cardinality(Handles) \in Nat
  BY FS_CardinalityType
<1>2. /\ IsFiniteSet(Threads) /\ Cardinality(Threads) \in Nat
      /\ Cardinality(Threads) <= Cardinality(Workers) + Cardinality(Callers)
  <2>1. IsFiniteSet(Threads)
    BY FS_Union DEF Threads
  <2>2. /\ IsFiniteSet(Workers \cap Callers) /\ Cardinality(Workers \cap Callers) \in Nat
    BY FS_EmptySet, FS_CardinalityType
  <2>3. Cardinality(Threads) =
            Cardinality(Workers) + Cardinality(Callers) - Cardinality(Workers \cap Callers)
    BY FS_Union DEF Threads
  <2> QED BY <1>1, <2>1, <2>2, <2>3, FS_CardinalityType
<1>3. /\ IsFiniteSet(Executing) /\ Cardinality(Executing) \in Nat
      /\ Cardinality(Executing) <= Cardinality(Workers)
  <2>1. Executing \subseteq Workers
    BY DEF Executing
  <2> QED BY <2>1, FS_Subset, FS_CardinalityType
<1>4. /\ IsFiniteSet(Adding) /\ Cardinality(Adding) \in Nat
      /\ Cardinality(Adding) <= Cardinality(Threads)
  <2>1. Adding \subseteq Threads
    BY DEF Adding
  <2> QED BY <1>2, <2>1, FS_Subset, FS_CardinalityType
<1>5. Len(jobs) \in Nat /\ Len(jobs) <= Cardinality(Handles)
  BY DistinctBound DEF OwnershipInv, TypeOK, OnePlace, NoConcurrentResume
<1> QED BY <1>1, <1>2, <1>3, <1>4, <1>5, WordAssumption DEF Jobs

\* The same as an implication, for the state after a step.
LEMMA JobsFit == OwnershipInv => Jobs \in Nat /\ Jobs < WordSize
BY JobsBound

\* A step that changes num_jobs as it changes the count keeps it exact.
LEMMA ExactStep ==
    ASSUME OwnershipInv, OwnershipInv', num_jobs = Jobs, NEW d \in {-1, 0, 1},
           Jobs' = Jobs + d,
           \/ d = 0 /\ UNCHANGED num_jobs
           \/ d = 1 /\ FetchAdd(1)
           \/ d = -1 /\ FetchSub
    PROVE  num_jobs' = Jobs'
<1>1. /\ Jobs \in Nat /\ Jobs < WordSize
  BY JobsBound
<1>2. (Jobs \in Nat /\ Jobs < WordSize)'
  BY JobsFit, PTL
<1> QED BY <1>1, <1>2, WordPositive DEF FetchAdd, FetchSub

\* No call of resume(range) is in progress.
NoRange == \A c \in Callers : pc[c] \notin {"add_range", "notify_all", "notify_one"}

\* num_jobs counts exactly; inductive together with OwnershipInv.
CountInv == NoRange /\ num_jobs = Jobs

\* Every step of a pool nobody calls resume(range) on keeps num_jobs exact.
LEMMA CountStep ==
    ASSUME RangeCallers = {}, OwnershipInv, OwnershipInv', CountInv, [Next]_vars
    PROVE  CountInv'
<1> USE PoolAssumption
<1> USE DEF CountInv, poolVars, envVars, Goto
<1>0. /\ IsFiniteSet(Executing) /\ IsFiniteSet(Adding) /\ Len(jobs) \in Nat
      /\ Cardinality(Executing) \in Nat /\ Cardinality(Adding) \in Nat
      /\ jobs \in Seq(Handles) /\ pc \in [Threads -> WorkerLabels \cup CallerLabels]
  BY JobsBound DEF OwnershipInv, TypeOK
<1>1. NoRange'
  <2> USE DEF NoRange, Threads
  <2>1. ASSUME NEW w \in Workers, WorkerStep(w) \/ SpuriousWake(w) PROVE NoRange'
    <3>1. CASE Loop(w) \/ Lock(w) \/ Take(w) \/ Continue(w) \/ Decide(w)
      BY <1>0, <3>1 DEF Loop, Lock, Take, PopFront, Continue, Decide
    <3>2. CASE Block(w) \/ Drain(w) \/ DrainTake(w) \/ DrainBreak(w) \/ SpuriousWake(w)
      BY <1>0, <3>2 DEF Block, Drain, DrainTake, PopFront, DrainBreak, SpuriousWake
    <3>3. CASE Suspend(w) \/ Yield(w) \/ YieldThrows(w) \/ Finish(w)
      BY <1>0, <3>3 DEF Suspend, Yield, YieldThrows, Finish
    <3> QED BY <2>1, <3>1, <3>2, <3>3 DEF WorkerStep
  <2>2. ASSUME NEW t \in Threads, SubmitStep(t) \/ \E h \in Handles : Resume(t, h) PROVE NoRange'
    BY <1>0, <2>2 DEF SubmitStep, Add, Push, Return, Resume
  <2>3. ASSUME NEW c \in Callers, CallerStep(c) \/ PushRange(c) \/ Shutdown(c) PROVE NoRange'
    <3>1. ~PushRange(c) /\ ~AddRange(c) /\ ~NotifyRangeAll(c) /\ ~NotifyRangeOne(c)
      BY DEF PushRange, AddRange, NotifyRangeAll, NotifyRangeOne
    <3>2. CASE ShutdownNotify(c) \/ Join(c) \/ Shutdown(c)
      BY <1>0, <3>2 DEF ShutdownNotify, Join, Shutdown
    <3> QED BY <2>3, <3>1, <3>2 DEF CallerStep
  <2>4. CASE UNCHANGED vars
    BY <2>4 DEF vars
  <2> QED BY <2>1, <2>2, <2>3, <2>4 DEF Next
<1>2. ASSUME UNCHANGED <<jobs, num_jobs, Executing, Adding>> PROVE num_jobs' = Jobs'
  BY <1>2 DEF Jobs
<1>3. ASSUME NEW w \in Workers, WorkerStep(w) \/ SpuriousWake(w) PROVE num_jobs' = Jobs'
  <2>0. w \in Threads
    BY DEF Threads
  <2>1. CASE Take(w) \/ DrainTake(w)
    <3>1. /\ PopFront(w) /\ w \notin Executing /\ Executing' = Executing \cup {w}
          /\ Adding' = Adding
      BY <1>0, <2>0, <2>1 DEF Take, DrainTake, PopFront, Executing, Adding, Threads
    <3>2. Len(jobs') = Len(jobs) - 1 /\ num_jobs' = num_jobs
      BY <1>0, <3>1, FrontRemoved DEF PopFront
    <3>3. Cardinality(Executing') = Cardinality(Executing) + 1
      BY <1>0, <3>1, FS_AddElement
    <3> QED BY <1>0, <3>1, <3>2, <3>3 DEF Jobs
  <2>2. CASE Finish(w)
    <3>1. /\ w \in Executing /\ Executing' = Executing \ {w} /\ Adding' = Adding /\ jobs' = jobs
      BY <1>0, <2>0, <2>2 DEF Finish, Executing, Adding, Threads
    <3>2. Cardinality(Executing') = Cardinality(Executing) - 1
      BY <1>0, <3>1, FS_RemoveElement
    <3>3. Jobs' = Jobs - 1
      BY <1>0, <3>1, <3>2 DEF Jobs
    <3> QED BY <2>2, <3>3, ExactStep DEF Finish
  <2>3. CASE \/ Loop(w) \/ Lock(w) \/ Continue(w) \/ Decide(w) \/ Block(w) \/ SpuriousWake(w)
             \/ Drain(w) \/ DrainBreak(w) \/ Suspend(w) \/ Yield(w) \/ YieldThrows(w)
    <3>1. UNCHANGED <<jobs, num_jobs, Executing, Adding>>
      BY <1>0, <2>0, <2>3 DEF Loop, Lock, Continue, Decide, Block, SpuriousWake, Drain,
         DrainBreak, Suspend, Yield, YieldThrows, Executing, Adding, Threads
    <3> QED BY <1>2, <3>1
  <2> QED BY <1>3, <2>1, <2>2, <2>3 DEF WorkerStep
<1>4. ASSUME NEW t \in Threads, SubmitStep(t) \/ \E h \in Handles : Resume(t, h)
      PROVE  num_jobs' = Jobs'
  <2>1. CASE Add(t)
    <3>1. /\ t \notin Adding /\ Adding' = Adding \cup {t} /\ Executing' = Executing /\ jobs' = jobs
      BY <1>0, <2>1 DEF Add, Executing, Adding, Threads
    <3>2. Cardinality(Adding') = Cardinality(Adding) + 1
      BY <1>0, <3>1, FS_AddElement
    <3>3. Jobs' = Jobs + 1
      BY <1>0, <3>1, <3>2 DEF Jobs
    <3> QED BY <2>1, <3>3, ExactStep DEF Add
  <2>2. CASE Push(t)
    <3>1. t \in Adding /\ Adding' = Adding \ {t} /\ num_jobs' = num_jobs
      BY <1>0, <2>2 DEF Push, Adding, Return
    <3>2. Executing' = Executing
      BY <1>0, <2>2 DEF Push, Executing, Return, Threads
    <3>3. Len(jobs') = Len(jobs) + 1
      <4>1. arg[t] \in Handles
        BY <2>2 DEF OwnershipInv, TypeOK, Hands, Push
      <4> QED BY <1>0, <2>2, <4>1, OneAdded DEF Push
    <3>4. Cardinality(Adding') = Cardinality(Adding) - 1
      BY <1>0, <3>1, FS_RemoveElement
    <3> QED BY <1>0, <3>1, <3>2, <3>3, <3>4 DEF Jobs
  <2>3. ASSUME NEW h \in Handles, Resume(t, h) PROVE num_jobs' = Jobs'
    <3>1. UNCHANGED <<jobs, num_jobs>>
      BY <2>3 DEF Resume
    <3>2. pc' = [pc EXCEPT ![t] = "add"] /\ pc[t] \in {"idle", "run"}
      BY <2>3 DEF Resume, Goto
    <3>3. t \in Workers => pc[t] = "run"
      BY <3>2 DEF OwnershipInv, TypeOK, WorkerLabels
    <3>4. Executing' = Executing
      BY <1>0, <3>2, <3>3, SMTT(30) DEF Executing, Threads
    <3>5. Adding' = Adding
      BY <1>0, <3>2, SMTT(30) DEF Adding
    <3> QED BY <1>2, <3>1, <3>4, <3>5
  <2> QED BY <1>4, <2>1, <2>2, <2>3 DEF SubmitStep
<1>5. ASSUME NEW c \in Callers, CallerStep(c) \/ PushRange(c) \/ Shutdown(c)
      PROVE  num_jobs' = Jobs'
  <2>1. UNCHANGED <<jobs, num_jobs, Executing, Adding>>
    BY <1>0, <1>5 DEF CallerStep, PushRange, AddRange, NotifyRangeAll, NotifyRangeOne, NoRange,
       ShutdownNotify, Join, Shutdown, Executing, Adding, Threads
  <2> QED BY <1>2, <2>1
<1>6. CASE UNCHANGED vars
  <2>1. UNCHANGED <<jobs, num_jobs, Executing, Adding>>
    BY <1>6 DEF vars, Executing, Adding
  <2> QED BY <1>1, <2>1 DEF Jobs
<1> QED BY <1>1, <1>3, <1>4, <1>5, <1>6 DEF Next

\* num_jobs is exact in every state of a pool nobody calls resume(range) on:
\* the count a draining worker reads covers every job that is queued, every
\* one a worker executes and every one about to be queued.
THEOREM ExactCount ==
    ASSUME RangeCallers = {} PROVE Spec => []NumJobsExact
<1>1. Init => CountInv
  <2> SUFFICES ASSUME Init PROVE CountInv
    OBVIOUS
  <2>1. Executing = {} /\ Adding = {} /\ Len(jobs) = 0 /\ num_jobs = 0
    BY PoolAssumption DEF Init, Executing, Adding, Threads
  <2>2. NoRange
    BY PoolAssumption DEF Init, NoRange, Threads
  <2> QED BY <2>1, <2>2, FS_EmptySet DEF CountInv, Jobs
<1>2. OwnershipInv /\ OwnershipInv' /\ CountInv /\ [Next]_vars => CountInv'
  BY CountStep
<1>3. CountInv => NumJobsExact
  BY DEF CountInv, Jobs, NumJobsExact
<1> QED BY <1>1, <1>2, <1>3, Ownership, PTL DEF Spec

\* How workers leave worker(): only after running became false, and leaving
\* behind only jobs that were queued after that.
ExitInv ==
    /\ \A w \in Workers : pc[w] \in {"drain", "dlock", "exited"} => w \in draining
    /\ draining # {} => ~running
    /\ NoStrandedJob

\* Every step of a pool nobody calls resume(range) on preserves ExitInv.
LEMMA ExitStep ==
    ASSUME RangeCallers = {}, OwnershipInv, CountInv, ExitInv, [Next]_vars
    PROVE  ExitInv'
<1> USE PoolAssumption
<1> USE DEF poolVars, envVars, Goto
<1>0. /\ IsFiniteSet(Executing) /\ IsFiniteSet(Adding) /\ Len(jobs) \in Nat
      /\ Cardinality(Executing) \in Nat /\ Cardinality(Adding) \in Nat
      /\ jobs \in Seq(Handles) /\ pc \in [Threads -> WorkerLabels \cup CallerLabels]
      /\ draining \subseteq Workers
  BY JobsBound DEF OwnershipInv, TypeOK
<1>1. ASSUME NEW w \in Workers, WorkerStep(w) \/ SpuriousWake(w) PROVE ExitInv'
  <2>0. w \in Threads
    BY DEF Threads
  <2>1. CASE Take(w) \/ DrainTake(w)
    <3>1. PopFront(w)
      BY <2>1 DEF Take, DrainTake
    <3>2. Queued' \subseteq Queued
      BY <1>0, <3>1, FrontRemoved DEF PopFront, Queued
    <3> QED BY <1>0, <2>0, <3>1, <3>2 DEF PopFront, ExitInv, NoStrandedJob, Threads
  <2>2. CASE Drain(w)
    <3>1. num_jobs > 0 \/ jobs = <<>>
      <4>1. num_jobs \in Nat /\ num_jobs >= Len(jobs)
        BY <1>0 DEF CountInv, Jobs
      <4> QED BY <1>0, <4>1
    <3>2. CASE num_jobs > 0
      BY <1>0, <2>0, <2>2, <3>2 DEF Drain, ExitInv, NoStrandedJob, Queued, Threads
    <3>3. CASE jobs = <<>> /\ ~ (num_jobs > 0)
      <4>1. Queued' = {}
        BY <2>2, <3>3 DEF Drain, Queued, Elems
      <4> QED BY <1>0, <2>0, <2>2, <4>1 DEF Drain, ExitInv, NoStrandedJob, Threads
    <3> QED BY <3>1, <3>2, <3>3
  <2>3. CASE DrainBreak(w)
    <3>1. Queued' = {}
      BY <2>3 DEF DrainBreak, Queued, Elems
    <3> QED BY <1>0, <2>0, <2>3, <3>1 DEF DrainBreak, ExitInv, NoStrandedJob, Threads
  <2>4. CASE \/ Loop(w) \/ Lock(w) \/ Continue(w) \/ Decide(w) \/ Block(w) \/ SpuriousWake(w)
             \/ Suspend(w) \/ Yield(w) \/ YieldThrows(w) \/ Finish(w)
    <3>1. UNCHANGED <<Queued, late, running>>
      BY <2>4 DEF Loop, Lock, Continue, Decide, Block, SpuriousWake, Suspend, Yield, YieldThrows,
                  Finish, Queued
    <3>2. \A v \in Workers : pc'[v] = "exited" => pc[v] = "exited"
      BY <1>0, <2>0, <2>4 DEF Loop, Lock, Continue, Decide, Block, SpuriousWake, Suspend, Yield,
                  YieldThrows, Finish, Threads
    <3>3. \A v \in Workers : pc'[v] \in {"drain", "dlock", "exited"} => v \in draining'
      BY <1>0, <2>0, <2>4 DEF Loop, Lock, Continue, Decide, Block, SpuriousWake, Suspend, Yield,
                  YieldThrows, Finish, Threads, ExitInv
    <3>4. draining' # {} => ~running
      BY <2>4 DEF Loop, Lock, Continue, Decide, Block, SpuriousWake, Suspend, Yield,
                  YieldThrows, Finish, ExitInv
    <3> QED BY <3>1, <3>2, <3>3, <3>4 DEF ExitInv, NoStrandedJob
  <2> QED BY <1>1, <2>1, <2>2, <2>3, <2>4 DEF WorkerStep
<1>2. ASSUME NEW t \in Threads, SubmitStep(t) \/ \E h \in Handles : Resume(t, h)
      PROVE  ExitInv'
  <2>1. /\ \A w \in Workers : pc'[w] \in {"drain", "dlock", "exited"} => pc'[w] = pc[w]
        /\ UNCHANGED <<draining, running>>
    BY <1>0, <1>2 DEF SubmitStep, Add, Push, Resume, Return, Threads
  <2>2. \/ UNCHANGED <<Queued, late>>
        \/ running /\ UNCHANGED late
        \/ ~running /\ \E h \in Handles : Queued' = Queued \cup {h} /\ late' = late \cup {h}
    <3>1. CASE Push(t)
      <4>1. arg[t] \in Handles
        BY <3>1 DEF OwnershipInv, TypeOK, Hands, Push
      <4>2. Queued' = Queued \cup {arg[t]}
        BY <1>0, <3>1, <4>1, OneAdded DEF Push, Queued
      <4> QED BY <3>1, <4>1, <4>2 DEF Push
    <3>2. CASE Add(t) \/ \E h \in Handles : Resume(t, h)
      BY <3>2 DEF Add, Resume, Queued
    <3> QED BY <1>2, <3>1, <3>2 DEF SubmitStep
  <2> QED BY <2>1, <2>2 DEF ExitInv, NoStrandedJob
<1>3. ASSUME NEW c \in Callers, CallerStep(c) \/ PushRange(c) \/ Shutdown(c)
      PROVE  ExitInv'
  <2>1. /\ \A w \in Workers : pc'[w] = pc[w]
        /\ UNCHANGED <<draining, Queued, late>> /\ (~running => ~running')
    <3>0. c \in Threads /\ c \notin Workers /\ ~PushRange(c)
      BY <1>0, PoolAssumption DEF Threads, PushRange
    <3>1. CASE AddRange(c)
      BY <1>0, <3>0, <3>1 DEF AddRange, Queued, Threads
    <3>2. CASE NotifyRangeAll(c)
      BY <1>0, <3>0, <3>2 DEF NotifyRangeAll, Queued, Threads
    <3>3. CASE NotifyRangeOne(c)
      BY <1>0, <3>0, <3>3 DEF NotifyRangeOne, Queued, Threads
    <3>4. CASE ShutdownNotify(c)
      BY <1>0, <3>0, <3>4 DEF ShutdownNotify, Queued, Threads
    <3>5. CASE Join(c)
      BY <1>0, <3>0, <3>5 DEF Join, Queued, Threads
    <3>6. CASE Shutdown(c)
      BY <1>0, <3>0, <3>6 DEF Shutdown, Queued, Threads
    <3> QED BY <1>3, <3>0, <3>1, <3>2, <3>3, <3>4, <3>5, <3>6 DEF CallerStep
  <2> QED BY <2>1 DEF ExitInv, NoStrandedJob
<1>4. CASE UNCHANGED vars
  BY <1>4 DEF vars, ExitInv, NoStrandedJob, Queued
<1> QED BY <1>1, <1>2, <1>3, <1>4 DEF Next

\* shutdown() strands no job that was queued before it: once a worker has left
\* worker(), whatever is still in the deque was queued after running became
\* false, for any number of workers and callers that do not use resume(range).
THEOREM NothingStranded ==
    ASSUME RangeCallers = {} PROVE Spec => []NoStrandedJob
<1>1. Init => CountInv /\ ExitInv
  <2> SUFFICES ASSUME Init PROVE CountInv /\ ExitInv
    OBVIOUS
  <2>1. Executing = {} /\ Adding = {} /\ Len(jobs) = 0 /\ num_jobs = 0
    BY PoolAssumption DEF Init, Executing, Adding, Threads
  <2>2. NoRange
    BY PoolAssumption DEF Init, NoRange, Threads
  <2>3. ExitInv
    BY PoolAssumption DEF Init, ExitInv, NoStrandedJob, Threads
  <2> QED BY <2>1, <2>2, <2>3, FS_EmptySet DEF CountInv, Jobs
<1>2. OwnershipInv /\ OwnershipInv' /\ CountInv /\ ExitInv /\ [Next]_vars
        => CountInv' /\ ExitInv'
  BY CountStep, ExitStep
<1>3. ExitInv => NoStrandedJob
  BY DEF ExitInv
<1> QED BY <1>1, <1>2, <1>3, Ownership, PTL DEF Spec

-----------------------------------------------------------------------------
(* The pool implements the abstract executor *)

\* A worker that executes nothing leaves room for one more coroutine.
LEMMA IdleWorker ==
    ASSUME OwnershipInv, NEW w \in Workers, handle[w] = None
    PROVE  Cardinality(Active) < Cardinality(Workers)
<1> DEFINE Busy == {v \in Workers : handle[v] # None}
           f == [v \in Busy |-> handle[v]]
<1>1. Busy \subseteq Workers /\ Busy # Workers
  OBVIOUS
<1>2. /\ IsFiniteSet(Busy) /\ Cardinality(Busy) \in Nat /\ Cardinality(Workers) \in Nat
      /\ Cardinality(Busy) < Cardinality(Workers)
  <2>1. IsFiniteSet(Workers) /\ Busy \in SUBSET Workers
    BY <1>1, PoolAssumption
  <2> HIDE DEF Busy
  <2>2. /\ IsFiniteSet(Busy) /\ Cardinality(Busy) <= Cardinality(Workers)
        /\ Cardinality(Busy) # Cardinality(Workers)
    BY <1>1, <2>1, FS_Subset
  <2>3. Cardinality(Busy) \in Nat /\ Cardinality(Workers) \in Nat
    BY <2>1, <2>2, FS_CardinalityType
  <2> QED BY <2>2, <2>3
<1>3. f \in Surjection(Busy, Active)
  BY DEF Surjection, Active
<1>4. IsFiniteSet(Active) /\ Cardinality(Active) <= Cardinality(Busy)
  BY <1>2, <1>3, FS_Surjection
<1> HIDE DEF Busy
<1> QED BY <1>2, <1>4, FS_CardinalityType

\* Every step of the pool is a step of the executor, or changes nothing there.
LEMMA ExecutorStep ==
    ASSUME OwnershipInv, [Next]_vars
    PROVE  [Exec!Next]_(Exec!vars)
<1> USE PoolAssumption
<1> USE DEF poolVars, envVars
<1>0. /\ jobs \in Seq(Handles) /\ handle \in [Workers -> Handles \cup {None}]
      /\ Exec!Queued = Queued
  BY DEF OwnershipInv, TypeOK, Exec!Queued, Exec!Elems, Queued, Elems
<1>A. /\ \A S : Exec!Cardinality(S) = Cardinality(S)
      /\ \A q : Exec!Distinct(q) <=> Distinct(q)
  BY DEF Exec!Cardinality, Cardinality, Exec!Distinct, Distinct
<1>1. ASSUME UNCHANGED <<jobs, handle>> PROVE UNCHANGED Exec!vars
  BY <1>1 DEF Exec!vars, Active
<1>2. ASSUME NEW w \in Workers, PopFront(w), pc[w] \in {"pred", "dlock"} PROVE Exec!Start
  <2>1. /\ handle[w] = None /\ Head(jobs) \in Queued /\ Head(jobs) \in Handles
    BY <1>0, <1>2, FrontRemoved DEF OwnershipInv, Hands, PopFront, Queued
  <2>2. Head(jobs) \notin Active
    BY <2>1 DEF OwnershipInv, OnePlace, NoConcurrentResume
  <2>3. Cardinality(Active) < Cardinality(Workers)
    BY <2>1, IdleWorker
  <2>4. Active' = Active \cup {Head(jobs)}
    BY <1>0, <1>2, <2>1 DEF PopFront, Active
  <2> QED BY <1>A, <1>2, <2>2, <2>3, <2>4 DEF Exec!Start, PopFront
<1>3. ASSUME NEW w \in Workers, Suspend(w) \/ Yield(w) \/ YieldThrows(w) PROVE Exec!Stop
  <2>1. /\ handle[w] \in Active /\ jobs' = jobs /\ handle' = [handle EXCEPT ![w] = None]
    BY <1>0, <1>3 DEF Suspend, Yield, YieldThrows, Active, OwnershipInv, Hands
  <2>2. Active' = Active \ {handle[w]}
    BY <1>0, <2>1 DEF Active, OwnershipInv, OnePlace, NoConcurrentResume
  <2> QED BY <2>1, <2>2 DEF Exec!Stop
<1>4. ASSUME NEW t \in Threads, Push(t) PROVE Exec!Accept
  <2>1. /\ arg[t] \in Handles \ (Queued \cup Active) /\ Active' = Active
        /\ jobs' = Append(jobs, arg[t])
    <3>1. pc[t] = "push" /\ handle' = handle /\ jobs' = Append(jobs, arg[t])
      BY <1>4 DEF Push
    <3>2. arg[t] # None /\ arg[t] \in Handles
      BY <3>1 DEF OwnershipInv, TypeOK, Hands
    <3>3. arg[t] \notin Queued \cup Active
      BY DEF OwnershipInv, OnePlace
    <3>4. Active' = Active
      BY <3>1 DEF Active
    <3> QED BY <3>1, <3>2, <3>3, <3>4
  <2> DEFINE b == <<arg[t]>>
  <2>2. /\ b \in [1..1 -> Handles \ (Exec!Queued \cup Active)] /\ Distinct(b)
        /\ jobs' = jobs \o b
    BY <1>0, <2>1 DEF Distinct
  <2>3. 1 \in 1..Cardinality(Handles)
    <3>1. Handles # {}
      BY <2>1
    <3> QED BY <3>1, FS_EmptySet, FS_CardinalityType
  <2> HIDE DEF b
  <2> QED BY <1>A, <2>1, <2>2, <2>3 DEF Exec!Accept
<1>5. ASSUME NEW c \in Callers, PushRange(c) PROVE Exec!Accept
  <2>1. PICK n \in 1..Cardinality(Handles) :
            \E q \in [1..n -> parked] : Distinct(q) /\ jobs' = jobs \o q
    BY <1>5 DEF PushRange
  <2>2. PICK q \in [1..n -> parked] : Distinct(q) /\ jobs' = jobs \o q
    BY <2>1
  <2>3. parked \subseteq Handles \ (Exec!Queued \cup Active) /\ Active' = Active
    <3>1. parked \subseteq Handles /\ parked \cap (Queued \cup Active) = {}
      BY DEF OwnershipInv, TypeOK, OnePlace
    <3>2. handle' = handle
      BY <1>5 DEF PushRange
    <3>3. Active' = Active
      BY <3>2 DEF Active
    <3> QED BY <1>0, <3>1, <3>3
  <2>4. q \in [1..n -> Handles \ (Exec!Queued \cup Active)]
    <3>1. \A i \in 1..n : q[i] \in Handles \ (Exec!Queued \cup Active)
      BY <2>2, <2>3
    <3>2. q = [i \in 1..n |-> q[i]]
      BY <2>2
    <3> QED BY <3>1, <3>2
  <2> QED BY <1>A, <2>2, <2>3, <2>4 DEF Exec!Accept
<1>6. ASSUME NEW w \in Workers, WorkerStep(w) \/ SpuriousWake(w) PROVE [Exec!Next]_(Exec!vars)
  <2>1. CASE Take(w) \/ DrainTake(w)
    BY <1>2, <2>1 DEF Take, DrainTake, Exec!Next
  <2>2. CASE Suspend(w) \/ Yield(w) \/ YieldThrows(w)
    BY <1>3, <2>2 DEF Exec!Next
  <2>3. CASE \/ Loop(w) \/ Lock(w) \/ Continue(w) \/ Decide(w) \/ Block(w) \/ SpuriousWake(w)
             \/ Drain(w) \/ DrainBreak(w) \/ Finish(w)
    BY <1>1, <2>3 DEF Loop, Lock, Continue, Decide, Block, SpuriousWake, Drain, DrainBreak, Finish
  <2> QED BY <1>6, <2>1, <2>2, <2>3 DEF WorkerStep
<1>7. ASSUME NEW t \in Threads, SubmitStep(t) \/ \E h \in Handles : Resume(t, h)
      PROVE  [Exec!Next]_(Exec!vars)
  BY <1>1, <1>4, <1>7 DEF SubmitStep, Add, Resume, Exec!Next
<1>8. ASSUME NEW c \in Callers, CallerStep(c) \/ PushRange(c) \/ Shutdown(c)
      PROVE  [Exec!Next]_(Exec!vars)
  BY <1>1, <1>5, <1>8 DEF CallerStep, AddRange, NotifyRangeAll, NotifyRangeOne, ShutdownNotify,
                          Join, Shutdown, Exec!Next
<1>9. CASE UNCHANGED vars
  BY <1>1, <1>9 DEF vars
<1> QED BY <1>6, <1>7, <1>8, <1>9 DEF Next

\* The pool is a FIFO executor with as many slots as it has threads, whatever
\* mix of schedule(), resume(), resume(range) and shutdown() is used.
THEOREM Refinement == Spec => ImplementsExecutor
<1>1. Init => Exec!Init
  BY DEF Init, Exec!Init, Active
<1>2. OwnershipInv /\ [Next]_vars => [Exec!Next]_(Exec!vars)
  BY ExecutorStep
<1> QED BY <1>1, <1>2, Ownership, PTL DEF Spec, ImplementsExecutor, Exec!Spec

=============================================================================
