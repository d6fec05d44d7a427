--------------------------- MODULE SchedulerProofs ---------------------------
(***************************************************************************)
(* Proofs for Scheduler.  The argument follows a frame: it is registered   *)
(* with the kernel, in an event that kevent() returned, in the hands of a  *)
(* runner, handed over by schedule(), queued in the pool, or executing;    *)
(* when its task registers one filter per operation it is in one of these  *)
(* places at a time, and the places are left in that order.                *)
(***************************************************************************)
EXTENDS Scheduler, QueueLemmas

\* Zenon proves what follows, but for the leaves that name another prover.
USE Zenon

-----------------------------------------------------------------------------
(* The inductive invariant.                                                *)

States == {"unborn", "suspended", "returned", "running", "locking", "done", "destroyed"}
RunStates == {"idle", "check", "dispatch", "kevent", "batch", "resume", "returned"}

\* What kevent() reports: an event with a frame as its udata, or the user event.
Reports == [filter : {"read", "write", "timer"}, udata : Frames]
UserReport == [filter |-> "user", udata |-> None]

TypeOK ==
    /\ knotes \in [DOMAIN knotes -> Frames]
    /\ \A k \in DOMAIN knotes : k.filter \in {"read", "write", "timer"}
    /\ fired \subseteq DOMAIN knotes
    /\ batch \in [Runners -> SUBSET (Reports \cup {UserReport})]
    /\ run_pc \in [Runners -> RunStates]
    /\ ev \in [Runners -> Frames \cup {None}]
    /\ \A r \in Runners : run_pc[r] = "resume" => ev[r] \in Frames
    /\ queue \in Seq(Frames)
    /\ active \subseteq Frames
    /\ at \in [Tasks -> States]
    /\ op \in [Tasks -> Nat]
    /\ \A t \in Tasks : op[t] =< MaxOps[t]
    /\ value \in [Tasks -> BOOLEAN]
    /\ handing \in [DOMAIN handing -> Tasks \cup {None}]
    /\ DOMAIN handing \subseteq Tasks

\* The places of a frame, in the order in which it goes through them.
Noted(f) == \E k \in DOMAIN knotes : knotes[k] = f
Batched(f) == \E r \in Runners : \E e \in batch[r] : e.filter # "user" /\ e.udata = f
Taken(f) == \E r \in Runners : run_pc[r] = "resume" /\ ev[r] = f
Handed(f) == f[2] = 0 /\ f[1] \in DOMAIN handing
Queued(f) == f \in Elems(queue)
Executing(f) == f \in active

\* On its way to the pool.
Pending(f) == Noted(f) \/ Batched(f) \/ Taken(f) \/ Handed(f) \/ Queued(f)

\* The events of a runner's last kevent() are done with before the next one.
BatchesFinished == \A r \in Runners : run_pc[r] \notin {"batch", "resume"} => batch[r] = {}

\* A registration belongs to an operation of the frame's task; a timer's is its own.
NotesOwned ==
    \A k \in DOMAIN knotes :
        IF k.filter = "timer" THEN k.ident = knotes[k]
        ELSE \E o \in Ops[knotes[k][1]] : k.ident = o.fd /\ k.filter \in o.filters

\* No frame is anywhere before its operation begins.
NotBegun == \A f \in Frames : Pending(f) \/ Executing(f) => f[2] =< op[f[1]]

\* A task is being handed over after it was born; the task that does it is inside
\* schedule(), and hands over no other.
HandedByLocking ==
    /\ \A u \in DOMAIN handing : at[u] # "unborn"
    /\ \A u \in DOMAIN handing : handing[u] \in Tasks => at[handing[u]] = "locking"
    /\ \A u, v \in DOMAIN handing : handing[u] \in Tasks /\ handing[u] = handing[v] => u = v
UnbornNowhere == \A t \in Tasks : at[t] = "unborn" => op[t] = 0 /\ ~Pending(<<t, 0>>) /\ ~Executing(<<t, 0>>)

\* A frame is in one place, and there once.
OnceAt(f) ==
    /\ \A k, l \in DOMAIN knotes : knotes[k] = f /\ knotes[l] = f => k = l
    /\ \A r, s \in Runners : \A d \in batch[r], e \in batch[s] :
           d.filter # "user" /\ e.filter # "user" /\ d.udata = f /\ e.udata = f => r = s /\ d = e
    /\ \A r, s \in Runners :
           run_pc[r] = "resume" /\ run_pc[s] = "resume" /\ ev[r] = f /\ ev[s] = f => r = s
    /\ \A i, j \in DOMAIN queue : queue[i] = f /\ queue[j] = f => i = j
    /\ Noted(f) => ~Batched(f) /\ ~Taken(f) /\ ~Handed(f) /\ ~Queued(f) /\ ~Executing(f)
    /\ Batched(f) => ~Taken(f) /\ ~Handed(f) /\ ~Queued(f) /\ ~Executing(f)
    /\ Taken(f) => ~Handed(f) /\ ~Queued(f) /\ ~Executing(f)
    /\ Handed(f) => ~Queued(f) /\ ~Executing(f)
    /\ Queued(f) => ~Executing(f)

\* So it is for the frames of tasks with one filter per operation.
Once == \A f \in SingleFrames : OnceAt(f)

\* Until shutdown() resumes tasks, what is on its way to the pool is suspended.
PendingSuspended ==
    shut \notin {"tasks", "returned"} =>
        \A f \in SingleFrames : Pending(f) => f = Current(f[1]) /\ at[f[1]] = "suspended"

\* A frame of an operation is handed to the pool with its result.
ResultStored ==
    \A t \in Tasks : at[t] = "suspended" /\ op[t] > 0 /\ (Taken(Current(t)) \/ Queued(Current(t))) => value[t]

SchedulerInv ==
    /\ TypeOK
    /\ BatchesFinished
    /\ NotesOwned
    /\ NotBegun
    /\ HandedByLocking
    /\ UnbornNowhere
    /\ Once
    /\ PendingSuspended
    /\ ResultStored
    /\ ResultBeforeResume
    /\ OneFilterIsSafe

-----------------------------------------------------------------------------
(* Steps after which every frame is where it was, or nowhere.              *)

\* A frame is a task and the number of an operation.
LEMMA FrameFacts ==
    /\ \A f \in Frames : f[1] \in Tasks /\ f[2] \in Nat /\ f = <<f[1], f[2]>>
    /\ \A t \in Tasks : \A n \in Nat : n =< MaxOps[t] => <<t, n>> \in Frames
    /\ \A f \in SingleFrames : f \in Frames /\ Single(f[1])
<1>1. \A t \in Tasks : MaxOps[t] \in Nat
  BY SchedulerAssumption
<1>2. \A t \in Tasks : \A n \in Nat : n =< MaxOps[t] => <<t, n>> \in {t} \X (0..MaxOps[t])
  BY SMT, <1>1
<1> QED BY SMT, <1>1, <1>2 DEF Frames, SingleFrames

\* A step that registers, takes and queues no frame keeps the invariant.
LEMMA QuietKeeps ==
    ASSUME SchedulerInv,
           UNCHANGED <<knotes, ev, queue, handing, op>>,
           fired' \subseteq DOMAIN knotes,
           active' \subseteq active,
           batch' \in [Runners -> SUBSET (Reports \cup {UserReport})],
           \A r \in Runners : batch'[r] \subseteq batch[r],
           run_pc' \in [Runners -> RunStates],
           \A r \in Runners : run_pc'[r] = "resume" <=> run_pc[r] = "resume",
           \A r \in Runners : run_pc'[r] \notin {"batch", "resume"} => batch'[r] = {},
           at' \in [Tasks -> States],
           \A t \in Tasks : /\ at'[t] = "suspended" => at[t] = "suspended"
                            /\ at'[t] = "returned" => at[t] = "returned"
                            /\ at'[t] = "unborn" <=> at[t] = "unborn"
                            /\ at[t] = "locking" => at'[t] = "locking",
           value' \in [Tasks -> BOOLEAN],
           \A t \in Tasks : value'[t] = value[t] \/ at'[t] \notin {"suspended", "returned"},
           shut' \notin {"tasks", "returned"} =>
               /\ shut \notin {"tasks", "returned"}
               /\ \A t \in Tasks : at[t] = "suspended" => at'[t] = "suspended",
           OneFilterIsSafe'
    PROVE  SchedulerInv'
<1>1. TypeOK'
  BY DEF SchedulerInv, TypeOK
<1>2. /\ \A f : Noted(f)' <=> Noted(f)
      /\ \A f : Taken(f)' <=> Taken(f)
      /\ \A f : Handed(f)' <=> Handed(f)
      /\ \A f : Queued(f)' <=> Queued(f)
      /\ \A f : Executing(f)' => Executing(f)
      /\ \A f : Batched(f)' => Batched(f)
  BY DEF Noted, Taken, Handed, Queued, Executing, Batched
<1>3. \A f : Pending(f)' => Pending(f)
  BY <1>2 DEF Pending
<1>4. BatchesFinished'
  BY DEF BatchesFinished
<1>5. NotesOwned'
  BY DEF NotesOwned, SchedulerInv
<1>6. NotBegun'
  BY <1>2, <1>3 DEF NotBegun, SchedulerInv
<1>7. HandedByLocking'
  BY DEF HandedByLocking, SchedulerInv, TypeOK
<1>8. UnbornNowhere'
  BY <1>2, <1>3 DEF UnbornNowhere, SchedulerInv
<1>9. Once'
  <2> SUFFICES ASSUME NEW f \in SingleFrames PROVE OnceAt(f)'
    BY DEF Once, SingleFrames, Single
  <2>1. OnceAt(f)
    BY DEF SchedulerInv, Once
  <2>2. \A r, s \in Runners : \A d \in batch'[r], e \in batch'[s] :
           d.filter # "user" /\ e.filter # "user" /\ d.udata = f /\ e.udata = f => r = s /\ d = e
    BY SMT, <2>1 DEF OnceAt
  <2> QED BY <2>1, <2>2, <1>2 DEF OnceAt
<1>10. PendingSuspended'
  BY <1>3, FrameFacts DEF PendingSuspended, SchedulerInv, SingleFrames, Current
<1>11. ResultStored' /\ ResultBeforeResume'
  BY <1>2 DEF ResultStored, ResultBeforeResume, SchedulerInv, Current
<1> QED BY <1>1, <1>4, <1>5, <1>6, <1>7, <1>8, <1>9, <1>10, <1>11 DEF SchedulerInv

-----------------------------------------------------------------------------
(* schedule(task): a task is born in one place, and moves to the queue.    *)

\* schedule() puts the task into the list: it is suspended at its start and handed over.
LEMMA EmplaceKeeps ==
    ASSUME SchedulerInv, undefined = None, NEW u \in Tasks, NEW by \in Tasks \cup {None}, Emplace(u, by),
           by \in Tasks => at[by] = "locking" /\ \A x \in DOMAIN handing : handing[x] # by
    PROVE  SchedulerInv'
<1>1. /\ UNCHANGED <<knotes, fired, batch, run_pc, ev, queue, active, op, value, shut, undefined>>
      /\ at[u] = "unborn"
      /\ at' \in [Tasks -> States] /\ at'[u] = "suspended"
      /\ \A t \in Tasks \ {u} : at'[t] = at[t]
      /\ DOMAIN handing' = DOMAIN handing \cup {u}
      /\ handing'[u] = by /\ \A x \in DOMAIN handing : x # u => handing'[x] = handing[x]
  BY DEF Emplace, flagVars, kernelVars, runVars, poolVars, shutVars, histVars, SchedulerInv, TypeOK, States
<1>2. TypeOK'
  <2>1. handing' \in [DOMAIN handing' -> Tasks \cup {None}] /\ DOMAIN handing' \subseteq Tasks
    BY <1>1 DEF SchedulerInv, TypeOK, Emplace
  <2> QED BY <1>1, <2>1 DEF SchedulerInv, TypeOK
<1>3. u \notin DOMAIN handing /\ op[u] = 0 /\ ~Pending(<<u, 0>>) /\ ~Executing(<<u, 0>>)
  BY <1>1 DEF SchedulerInv, HandedByLocking, UnbornNowhere
<1>4. /\ \A f : Noted(f)' <=> Noted(f)
      /\ \A f : Taken(f)' <=> Taken(f)
      /\ \A f : Queued(f)' <=> Queued(f)
      /\ \A f : Executing(f)' <=> Executing(f)
      /\ \A f : Batched(f)' <=> Batched(f)
      /\ \A f : Handed(f)' <=> Handed(f) \/ (f[1] = u /\ f[2] = 0)
  BY <1>1 DEF Noted, Taken, Handed, Queued, Executing, Batched
<1>5. \A f \in Frames : Pending(f)' => Pending(f) \/ f = <<u, 0>>
  BY <1>4, FrameFacts DEF Pending
<1>6. BatchesFinished' /\ NotesOwned'
  BY <1>1 DEF SchedulerInv, BatchesFinished, NotesOwned
<1>7. NotBegun'
  <2> SUFFICES ASSUME NEW f \in Frames, Pending(f)' \/ Executing(f)' PROVE f[2] =< op'[f[1]]
    BY DEF NotBegun
  <2>1. CASE f = <<u, 0>>
    BY SMT, <2>1, <1>1, <1>3
  <2>2. CASE f # <<u, 0>>
    BY <2>2, <1>1, <1>4, <1>5 DEF SchedulerInv, NotBegun
  <2> QED BY <2>1, <2>2
<1>8. HandedByLocking'
  <2>1. \A x \in DOMAIN handing' : at'[x] # "unborn"
    BY <1>1 DEF SchedulerInv, HandedByLocking, TypeOK
  <2>2. by \in Tasks => by # u
    BY <1>1
  <2>3. \A x \in DOMAIN handing' : handing'[x] \in Tasks => at'[handing'[x]] = "locking"
    BY SMT, <1>1, <2>2 DEF SchedulerInv, HandedByLocking, TypeOK
  <2>4. ASSUME NEW x \in DOMAIN handing', NEW y \in DOMAIN handing', handing'[x] \in Tasks, handing'[x] = handing'[y]
        PROVE  x = y
    BY SMT, <1>1, <2>4 DEF SchedulerInv, HandedByLocking
  <2> QED BY <2>1, <2>3, <2>4 DEF HandedByLocking
<1>9. UnbornNowhere'
  <2> SUFFICES ASSUME NEW t \in Tasks, at'[t] = "unborn"
               PROVE  op'[t] = 0 /\ ~Pending(<<t, 0>>)' /\ ~Executing(<<t, 0>>)'
    BY DEF UnbornNowhere
  <2>1. t # u /\ at[t] = "unborn"
    BY <1>1
  <2>2. <<t, 0>> \in Frames /\ <<t, 0>> # <<u, 0>>
    BY SMT, <2>1, FrameFacts, SchedulerAssumption
  <2> QED BY <2>1, <2>2, <1>1, <1>4, <1>5 DEF SchedulerInv, UnbornNowhere
<1>10. Once'
  <2> SUFFICES ASSUME NEW f \in SingleFrames PROVE OnceAt(f)'
    BY DEF Once, SingleFrames, Single
  <2>1. OnceAt(f) /\ f \in Frames
    BY FrameFacts DEF SchedulerInv, Once
  <2>2. CASE f = <<u, 0>>
    BY SMT, <2>1, <2>2, <1>1, <1>3, <1>4 DEF OnceAt, Pending
  <2>3. CASE f # <<u, 0>>
    <3>1. Handed(f)' <=> Handed(f)
      BY <2>1, <2>3, <1>4, FrameFacts
    <3> QED BY SMT, <2>1, <3>1, <1>1, <1>4 DEF OnceAt
  <2> QED BY <2>2, <2>3
<1>11. PendingSuspended'
  <2> SUFFICES ASSUME shut \notin {"tasks", "returned"}, NEW f \in SingleFrames, Pending(f)'
               PROVE  f = <<f[1], op[f[1]]>> /\ at'[f[1]] = "suspended"
    BY <1>1 DEF PendingSuspended, SingleFrames, Single, Current
  <2>1. CASE f = <<u, 0>>
    BY <2>1, <1>1, <1>3
  <2>2. CASE f # <<u, 0>>
    <3>1. f = <<f[1], op[f[1]]>> /\ at[f[1]] = "suspended"
      BY <2>2, <1>5, FrameFacts DEF SchedulerInv, PendingSuspended, Current
    <3> QED BY <3>1, <1>1, FrameFacts
  <2> QED BY <2>1, <2>2
<1>12. ResultStored' /\ ResultBeforeResume'
  <2>1. ResultBeforeResume'
    BY <1>1 DEF SchedulerInv, ResultBeforeResume
  <2>2. \A t \in Tasks : at'[t] = "suspended" /\ op[t] > 0 => at[t] = "suspended"
    BY SMT, <1>1, <1>3
  <2> QED BY <2>1, <2>2, <1>1, <1>4 DEF SchedulerInv, ResultStored, Current
<1>13. OneFilterIsSafe'
  BY <1>1 DEF OneFilterIsSafe
<1> QED BY <1>2, <1>6, <1>7, <1>8, <1>9, <1>10, <1>11, <1>12, <1>13 DEF SchedulerInv

\* schedule() hands the task to the pool: its frame is queued and nowhere else.
LEMMA SubmitKeeps ==
    ASSUME SchedulerInv, undefined = None, NEW u \in Tasks, Submit(u)
    PROVE  SchedulerInv'
<1> DEFINE h == <<u, 0>>
<1>0. h \in Frames /\ h[1] = u /\ h[2] = 0
  BY SMT, FrameFacts, SchedulerAssumption
<1> HIDE DEF h
<1>1. /\ UNCHANGED <<knotes, fired, batch, run_pc, ev, active, op, value, shut, undefined>>
      /\ u \in DOMAIN handing
      /\ queue' = Append(queue, h)
      /\ DOMAIN handing' = DOMAIN handing \ {u}
      /\ \A x \in DOMAIN handing' : handing'[x] = handing[x]
      /\ at' \in [Tasks -> States]
      /\ \A t \in Tasks : at'[t] = IF t = handing[u] THEN "running" ELSE at[t]
  BY DEF Submit, flagVars, kernelVars, runVars, shutVars, histVars, SchedulerInv, TypeOK, States, h
<1>2. /\ queue' \in Seq(Frames) /\ Len(queue') = Len(queue) + 1
      /\ Elems(queue') = Elems(queue) \cup {h}
      /\ DOMAIN queue' = 1..Len(queue') /\ DOMAIN queue = 1..Len(queue)
      /\ \A i \in DOMAIN queue : queue'[i] = queue[i]
      /\ queue'[Len(queue')] = h
  BY SMT, <1>0, <1>1, OneAdded DEF SchedulerInv, TypeOK
<1>3. TypeOK'
  <2>1. handing' \in [DOMAIN handing' -> Tasks \cup {None}] /\ DOMAIN handing' \subseteq Tasks
    BY <1>1 DEF SchedulerInv, TypeOK, Submit
  <2> QED BY <1>1, <1>2, <2>1 DEF SchedulerInv, TypeOK
<1>4. at[u] # "unborn" /\ \A t \in Tasks : t = handing[u] => at[t] = "locking"
  BY <1>1 DEF SchedulerInv, HandedByLocking
<1>5. /\ \A f : Noted(f)' <=> Noted(f)
      /\ \A f : Taken(f)' <=> Taken(f)
      /\ \A f : Queued(f)' <=> Queued(f) \/ f = h
      /\ \A f : Executing(f)' <=> Executing(f)
      /\ \A f : Batched(f)' <=> Batched(f)
      /\ \A f \in Frames : Handed(f)' <=> Handed(f) /\ f # h
      /\ Handed(h)
  <2>1. \A f \in Frames : f # h => f[1] # u \/ f[2] # 0
    BY FrameFacts DEF h
  <2>2. /\ \A f \in Frames : Handed(f)' <=> Handed(f) /\ f # h
        /\ Handed(h)
    BY <2>1, <1>0, <1>1 DEF Handed
  <2> QED BY <2>2, <1>1, <1>2 DEF Noted, Taken, Queued, Executing, Batched
<1>6. \A f \in Frames : Pending(f)' => Pending(f)
  BY <1>5 DEF Pending
<1>7. BatchesFinished' /\ NotesOwned'
  BY <1>1 DEF SchedulerInv, BatchesFinished, NotesOwned
<1>8. NotBegun'
  BY <1>1, <1>5, <1>6 DEF SchedulerInv, NotBegun
<1>9. \A t \in Tasks : /\ at'[t] = "suspended" <=> at[t] = "suspended"
                       /\ at'[t] = "unborn" <=> at[t] = "unborn"
                       /\ at'[t] = "returned" => at[t] = "returned"
  BY <1>1, <1>4
<1>10. HandedByLocking'
  <2>1. \A x \in DOMAIN handing' : at'[x] # "unborn"
    BY <1>1, <1>9 DEF SchedulerInv, HandedByLocking, TypeOK
  <2>2. ASSUME NEW x \in DOMAIN handing', handing'[x] \in Tasks PROVE at'[handing'[x]] = "locking"
    BY SMT, <1>1, <2>2 DEF SchedulerInv, HandedByLocking, TypeOK
  <2>3. \A x, y \in DOMAIN handing' : handing'[x] \in Tasks /\ handing'[x] = handing'[y] => x = y
    BY <1>1 DEF SchedulerInv, HandedByLocking
  <2> QED BY <2>1, <2>2, <2>3 DEF HandedByLocking
<1>11. UnbornNowhere'
  <2> SUFFICES ASSUME NEW t \in Tasks, at'[t] = "unborn"
               PROVE  op'[t] = 0 /\ ~Pending(<<t, 0>>)' /\ ~Executing(<<t, 0>>)'
    BY DEF UnbornNowhere
  <2>1. <<t, 0>> \in Frames
    BY SMT, FrameFacts, SchedulerAssumption
  <2> QED BY <2>1, <1>1, <1>5, <1>6, <1>9 DEF SchedulerInv, UnbornNowhere
<1>12. Once'
  <2> SUFFICES ASSUME NEW f \in SingleFrames PROVE OnceAt(f)'
    BY DEF Once, SingleFrames, Single
  <2>1. OnceAt(f) /\ f \in Frames
    BY FrameFacts DEF SchedulerInv, Once
  <2>2. \A i, j \in DOMAIN queue' : queue'[i] = f /\ queue'[j] = f => i = j
    <3>1. CASE f = h
      <4>1. f \notin Elems(queue)
        BY <3>1, <2>1, <1>5 DEF OnceAt, Queued
      <4>2. \A i \in DOMAIN queue' : i \in DOMAIN queue \/ i = Len(queue')
        BY SMT, <1>2
      <4> QED BY <4>1, <4>2, <1>2 DEF Elems
    <3>2. CASE f # h
      <4>1. \A i \in DOMAIN queue' : queue'[i] = f => i \in DOMAIN queue
        BY SMT, <3>2, <1>2
      <4> QED BY <4>1, <2>1, <1>2 DEF OnceAt
    <3> QED BY <3>1, <3>2
  <2>3. /\ \A k, l \in DOMAIN knotes' : knotes'[k] = f /\ knotes'[l] = f => k = l
        /\ \A r, s \in Runners : \A d \in batch'[r], e \in batch'[s] :
             d.filter # "user" /\ e.filter # "user" /\ d.udata = f /\ e.udata = f => r = s /\ d = e
        /\ \A r, s \in Runners :
             run_pc'[r] = "resume" /\ run_pc'[s] = "resume" /\ ev'[r] = f /\ ev'[s] = f => r = s
    BY SMT, <2>1, <1>1 DEF OnceAt
  <2> QED BY <2>1, <2>2, <2>3, <1>5 DEF OnceAt
<1>13. PendingSuspended'
  BY <1>1, <1>6, <1>9, FrameFacts DEF SchedulerInv, PendingSuspended, SingleFrames, Single, Current
<1>14. ResultStored' /\ ResultBeforeResume'
  <2>1. \A t \in Tasks : op[t] > 0 => <<t, op[t]>> # h
    BY SMT DEF h
  <2> QED BY <2>1, <1>1, <1>5, <1>9 DEF SchedulerInv, ResultStored, ResultBeforeResume, Current
<1>15. OneFilterIsSafe'
  BY <1>1 DEF OneFilterIsSafe
<1> QED BY <1>3, <1>7, <1>8, <1>10, <1>11, <1>12, <1>13, <1>14, <1>15 DEF SchedulerInv

-----------------------------------------------------------------------------
(* A worker takes the oldest frame.                                        *)

\* A worker resumes the frame it takes, which was suspended and has its result.
LEMMA StartKeeps ==
    ASSUME SchedulerInv, undefined = None, Start
    PROVE  SchedulerInv'
<1> DEFINE f == Head(queue)
           t == f[1]
<1>1. /\ queue \in Seq(Frames) /\ queue # <<>>
      /\ queue' = Tail(queue)
      /\ active' = active \cup {f}
      /\ UNCHANGED <<knotes, fired, batch, run_pc, ev, op, value, handing, shut>>
      /\ \/ /\ f = Current(t) /\ at[t] = "suspended" /\ UNCHANGED undefined
            /\ at' = [at EXCEPT ![t] = IF f[2] = 0 THEN "running" ELSE "returned"]
         \/ /\ ~(f = Current(t) /\ at[t] = "suspended") /\ UNCHANGED at
            /\ undefined'.task = t
  BY SMT DEF Start, Undefined, flagVars, kernelVars, runVars, listVars, shutVars, SchedulerInv, TypeOK
<1>2. /\ f \in Frames /\ f \in Elems(queue)
      /\ queue' \in Seq(Frames)
      /\ Elems(queue) = Elems(queue') \cup {f}
      /\ DOMAIN queue = 1..Len(queue) /\ DOMAIN queue' = 1..Len(queue')
      /\ Len(queue) \in Nat \ {0} /\ Len(queue') = Len(queue) - 1
      /\ queue[1] = f /\ \A i \in DOMAIN queue' : queue'[i] = queue[i + 1]
  BY SMT, <1>1, FrontRemoved
<1>3. t \in Tasks /\ f = <<t, f[2]>> /\ f[2] \in Nat
  BY <1>2, FrameFacts
<1> HIDE DEF f, t
<1>4. /\ at' \in [Tasks -> States]
      /\ \A x \in Tasks \ {t} : at'[x] = at[x]
      /\ at'[t] = at[t] \/ (at[t] = "suspended" /\ f = Current(t) /\ at'[t] \in {"running", "returned"})
      /\ at'[t] = "returned" => at[t] = "returned" \/ (at[t] = "suspended" /\ f = Current(t) /\ f[2] > 0)
      /\ at[t] = "suspended" /\ f = Current(t) => at'[t] # "suspended"
  <2>0. at \in [Tasks -> States]
    BY DEF SchedulerInv, TypeOK
  <2>1. CASE /\ f = Current(t) /\ at[t] = "suspended"
             /\ at' = [at EXCEPT ![t] = IF f[2] = 0 THEN "running" ELSE "returned"]
    <3>1. /\ at' \in [Tasks -> States]
          /\ \A x \in Tasks \ {t} : at'[x] = at[x]
          /\ at'[t] = IF f[2] = 0 THEN "running" ELSE "returned"
      BY <2>0, <2>1, <1>3 DEF States
    <3>2. f[2] # 0 => f[2] > 0
      BY SMT, <1>3
    <3> QED BY SMT, <2>1, <3>1, <3>2
  <2>2. CASE ~(f = Current(t) /\ at[t] = "suspended") /\ UNCHANGED at
    BY <2>0, <2>2
  <2> QED BY <2>1, <2>2, <1>1
<1>5. TypeOK'
  BY <1>1, <1>2, <1>4 DEF SchedulerInv, TypeOK
<1>6. /\ \A x : Noted(x)' <=> Noted(x)
      /\ \A x : Taken(x)' <=> Taken(x)
      /\ \A x : Queued(x)' => Queued(x)
      /\ \A x : Executing(x)' <=> Executing(x) \/ x = f
      /\ \A x : Batched(x)' <=> Batched(x)
      /\ \A x : Handed(x)' <=> Handed(x)
      /\ Queued(f)
  BY <1>1, <1>2 DEF Noted, Taken, Handed, Queued, Executing, Batched
<1>7. \A x : Pending(x)' => Pending(x)
  BY <1>6 DEF Pending
<1>8. Pending(f)
  BY <1>6 DEF Pending
<1>9. BatchesFinished' /\ NotesOwned'
  BY <1>1 DEF SchedulerInv, BatchesFinished, NotesOwned
<1>10. NotBegun'
  BY <1>1, <1>6, <1>7, <1>8 DEF SchedulerInv, NotBegun
<1>11. HandedByLocking'
  BY SMT, <1>1, <1>4 DEF SchedulerInv, HandedByLocking, TypeOK
<1>12. UnbornNowhere'
  <2> SUFFICES ASSUME NEW x \in Tasks, at'[x] = "unborn"
               PROVE  op'[x] = 0 /\ ~Pending(<<x, 0>>)' /\ ~Executing(<<x, 0>>)'
    BY DEF UnbornNowhere
  <2>1. at[x] = "unborn"
    BY <1>4
  <2>2. op[x] = 0 /\ ~Pending(<<x, 0>>) /\ ~Executing(<<x, 0>>)
    BY <2>1 DEF SchedulerInv, UnbornNowhere
  <2>3. f # <<x, 0>>
    BY <2>2, <1>8
  <2> QED BY <2>2, <2>3, <1>1, <1>6, <1>7
<1>13. Once'
  <2> SUFFICES ASSUME NEW x \in SingleFrames PROVE OnceAt(x)'
    BY DEF Once, SingleFrames, Single
  <2>1. OnceAt(x)
    BY DEF SchedulerInv, Once
  <2>2. \A i, j \in DOMAIN queue' : queue'[i] = x /\ queue'[j] = x => i = j
    <3>1. \A i \in DOMAIN queue' : i + 1 \in DOMAIN queue /\ i \in Nat
      BY SMT, <1>2
    <3>2. \A i, j \in DOMAIN queue' : queue'[i] = x /\ queue'[j] = x => i + 1 = j + 1
      BY <3>1, <1>2, <2>1 DEF OnceAt
    <3> QED BY SMT, <3>1, <3>2
  <2>3. x = f => ~Queued(x)'
    <3>1. SUFFICES ASSUME x = f, NEW i \in DOMAIN queue', queue'[i] = x PROVE FALSE
      BY DEF Queued, Elems
    <3>2. i + 1 \in DOMAIN queue /\ 1 \in DOMAIN queue /\ i + 1 # 1 /\ queue[i + 1] = x /\ queue[1] = x
      BY SMT, <3>1, <1>2
    <3> QED BY <3>2, <2>1 DEF OnceAt
  <2>4. /\ \A k, l \in DOMAIN knotes' : knotes'[k] = x /\ knotes'[l] = x => k = l
        /\ \A r, s \in Runners : \A d \in batch'[r], e \in batch'[s] :
             d.filter # "user" /\ e.filter # "user" /\ d.udata = x /\ e.udata = x => r = s /\ d = e
        /\ \A r, s \in Runners :
             run_pc'[r] = "resume" /\ run_pc'[s] = "resume" /\ ev'[r] = x /\ ev'[s] = x => r = s
    BY <2>1, <1>1 DEF OnceAt
  <2> QED BY <2>1, <2>2, <2>3, <2>4, <1>6 DEF OnceAt
<1>14. PendingSuspended'
  <2> SUFFICES ASSUME shut \notin {"tasks", "returned"}, NEW x \in SingleFrames, Pending(x)'
               PROVE  x = <<x[1], op[x[1]]>> /\ at'[x[1]] = "suspended"
    BY <1>1 DEF PendingSuspended, SingleFrames, Single, Current
  <2>1. Pending(x) /\ x = <<x[1], op[x[1]]>> /\ at[x[1]] = "suspended" /\ x[1] \in Tasks
    BY <1>7, FrameFacts DEF SchedulerInv, PendingSuspended, Current
  <2>2. x # f
    <3>1. OnceAt(x)' /\ (x = f => Executing(x)')
      BY <1>13, <1>6 DEF Once, SingleFrames, Single
    <3> QED BY <3>1 DEF OnceAt, Pending
  <2>3. CASE x[1] = t
    <3>1. t = f[1] /\ Single(f[1]) /\ f \in SingleFrames
      BY <2>3, <1>2 DEF SingleFrames, t
    <3>2. f = Current(f[1])
      BY <3>1, <1>8 DEF SchedulerInv, PendingSuspended
    <3> QED BY <2>1, <2>2, <2>3, <3>1, <3>2 DEF Current
  <2>4. CASE x[1] # t
    BY <2>4, <2>1, <1>4
  <2> QED BY <2>3, <2>4
<1>15. ResultStored' /\ ResultBeforeResume'
  <2>1. \A x \in Tasks : at'[x] = "suspended" => at[x] = "suspended"
    BY <1>4
  <2>2. ResultStored'
    BY <2>1, <1>1, <1>6 DEF SchedulerInv, ResultStored, Current
  <2>3. ASSUME at[t] = "suspended", f = Current(t), f[2] > 0 PROVE value[t]
    <3>1. op[t] > 0
      BY <2>3 DEF Current
    <3> QED BY <2>3, <3>1, <1>3, <1>6 DEF SchedulerInv, ResultStored
  <2> QED BY <2>2, <2>3, <1>1, <1>4 DEF SchedulerInv, ResultBeforeResume
<1>16. OneFilterIsSafe'
  <2>1. CASE UNCHANGED undefined
    BY <2>1 DEF OneFilterIsSafe
  <2>2. CASE ~(f = Current(t) /\ at[t] = "suspended") /\ undefined'.task = t
    <3>1. ASSUME Single(t), shut \notin {"tasks", "returned"} PROVE FALSE
      <4>1. f \in SingleFrames /\ t = f[1]
        BY <3>1, <1>2 DEF SingleFrames, t
      <4> QED BY <2>2, <3>1, <4>1, <1>8 DEF SchedulerInv, PendingSuspended
    <3> QED BY <2>2, <3>1, <1>1 DEF OneFilterIsSafe, Single
  <2> QED BY <2>1, <2>2, <1>1
<1> QED BY <1>5, <1>9, <1>10, <1>11, <1>12, <1>13, <1>14, <1>15, <1>16 DEF SchedulerInv

-----------------------------------------------------------------------------
(* A task awaits an operation.                                             *)

\* What queue() registers: the filters of the operation on its descriptor, and its timer.
LEMMA NewEventsAre ==
    ASSUME NEW t \in Tasks, NEW o \in Ops[t], NEW f
    PROVE  LET evs == NewEvents(f, o)
           IN  /\ Len(evs) \in Nat \ {0}
               /\ \A i \in 1..Len(evs) :
                    \/ evs[i].filter = "timer" /\ evs[i].ident = f
                    \/ evs[i].filter \in {"read", "write"} \cap o.filters /\ evs[i].ident = o.fd
               /\ Single(t) => Len(evs) = 1
<1> DEFINE evs == NewEvents(f, o)
           rd == IoKevent(o, "read")
           wr == IoKevent(o, "write")
           tm == TimeoutKevent(f)
<1>1. /\ rd.filter = "read" /\ rd.ident = o.fd /\ wr.filter = "write" /\ wr.ident = o.fd
      /\ tm.filter = "timer" /\ tm.ident = f
  BY DEF IoKevent, TimeoutKevent
<1>2. o.filters \subseteq {"read", "write"} /\ o.filters # {} /\ o.timer \in BOOLEAN
  BY SchedulerAssumption
<1>3. ASSUME Single(t) PROVE o.timer = FALSE /\ ~("read" \in o.filters /\ "write" \in o.filters)
  BY SMT, <1>3 DEF Single
<1> DEFINE K == {rd, wr, tm}
           a == IF "read" \in o.filters THEN <<rd>> ELSE <<>>
           b == IF "write" \in o.filters THEN <<wr>> ELSE <<>>
           c == IF o.timer THEN <<tm>> ELSE <<>>
<1>4. a \in Seq(K) /\ b \in Seq(K) /\ c \in Seq(K)
  <2>1. <<rd>> \in Seq(K) /\ <<wr>> \in Seq(K) /\ <<tm>> \in Seq(K) /\ <<>> \in Seq(K)
    BY SMT
  <2> QED BY <2>1
<1>5. \A x : Len(<<x>>) = 1 /\ Elems(<<x>>) = {x}
  BY SMT DEF Elems
<1>6. Len(<<>>) = 0 /\ Elems(<<>>) = {}
  BY SMT DEF Elems
<1>7. /\ Len(a) = (IF "read" \in o.filters THEN 1 ELSE 0)
      /\ Len(b) = (IF "write" \in o.filters THEN 1 ELSE 0)
      /\ Len(c) = (IF o.timer THEN 1 ELSE 0)
  BY <1>5, <1>6
<1>8. /\ Elems(a) = (IF "read" \in o.filters THEN {rd} ELSE {})
      /\ Elems(b) = (IF "write" \in o.filters THEN {wr} ELSE {})
      /\ Elems(c) = (IF o.timer THEN {tm} ELSE {})
  BY <1>5, <1>6
<1>9. evs = (a \o b) \o c
  BY DEF NewEvents
<1> HIDE DEF evs, rd, wr, tm, a, b, c, K
<1>10. a \o b \in Seq(K) /\ Len(a \o b) = Len(a) + Len(b) /\ Elems(a \o b) = Elems(a) \cup Elems(b)
  BY SMT, <1>4, BackAdded
<1> DEFINE ab == a \o b
<1>11. ab \in Seq(K) /\ Len(ab) = Len(a) + Len(b) /\ Elems(ab) = Elems(a) \cup Elems(b) /\ evs = ab \o c
  BY <1>9, <1>10
<1> HIDE DEF ab
<1>12. ab \o c \in Seq(K) /\ Len(ab \o c) = Len(ab) + Len(c) /\ Elems(ab \o c) = Elems(ab) \cup Elems(c)
  <2>1. ab \in Seq(K) /\ c \in Seq(K)
    BY <1>4, <1>11
  <2> QED BY SMT, <2>1, BackAdded
<1>13. evs \in Seq(K) /\ Len(evs) = Len(a) + Len(b) + Len(c) /\ Elems(evs) = Elems(a) \cup Elems(b) \cup Elems(c)
  BY <1>11, <1>12
<1>14. Len(evs) \in Nat \ {0} /\ (Single(t) => Len(evs) = 1)
  <2>1. Len(evs) \in Nat \ {0}
    BY SMT, <1>2, <1>7, <1>13
  <2>2. ASSUME Single(t) PROVE Len(evs) = 1
    <3>1. o.timer = FALSE /\ ~("read" \in o.filters /\ "write" \in o.filters)
      BY <2>2, <1>3
    <3>2. "read" \in o.filters \/ "write" \in o.filters
      BY <1>2
    <3>3. Len(evs) = Len(a) + Len(b) + Len(c) /\ Len(c) = 0
      BY <3>1, <1>7, <1>13
    <3>4. CASE "read" \in o.filters
      <4>1. Len(a) = 1 /\ Len(b) = 0
        BY <3>1, <3>4, <1>7
      <4> QED BY SMT, <4>1, <3>3
    <3>5. CASE "read" \notin o.filters
      <4>1. Len(a) = 0 /\ Len(b) = 1
        BY <3>2, <3>5, <1>7
      <4> QED BY SMT, <4>1, <3>3
    <3> QED BY <3>4, <3>5
  <2> QED BY <2>1, <2>2
<1>15. \A i \in 1..Len(evs) : evs[i] \in Elems(evs)
  BY SMT, <1>13 DEF Elems
<1>16. \A k \in Elems(evs) : \/ k.filter = "timer" /\ k.ident = f
                             \/ k.filter \in {"read", "write"} \cap o.filters /\ k.ident = o.fd
  BY <1>1, <1>8, <1>13
<1> QED BY <1>15, <1>16, <1>14 DEF evs

\* queue() registers a new frame, up to the event whose kevent() fails.
LEMMA AwaitKeeps ==
    ASSUME SchedulerInv, undefined = None, NEW t \in Tasks, NEW o \in Ops[t], Await(t, o)
    PROVE  SchedulerInv'
<1> DEFINE f == <<t, op[t] + 1>>
           evs == NewEvents(f, o)
<1>1. PICK n \in 0..Len(evs) :
         LET added == {evs[i] : i \in 1..n}
         IN knotes' = [k \in DOMAIN knotes \cup added |-> IF k \in added THEN f ELSE knotes[k]]
  BY DEF Await
<1> DEFINE added == {evs[i] : i \in 1..n}
<1>2. /\ at[t] = "running" /\ op[t] < MaxOps[t]
      /\ op' = [op EXCEPT ![t] = @ + 1]
      /\ at' = [at EXCEPT ![t] = "suspended"]
      /\ UNCHANGED <<fired, batch, run_pc, ev, queue, value, handing, shut, undefined>>
      /\ active' \subseteq active
  BY DEF Await, Leave, flagVars, runVars, listVars
<1>3. /\ DOMAIN knotes' = DOMAIN knotes \cup added
      /\ \A k \in added : knotes'[k] = f
      /\ \A k \in DOMAIN knotes \ added : knotes'[k] = knotes[k]
      /\ knotes' \in [DOMAIN knotes' -> {knotes[k] : k \in DOMAIN knotes} \cup {f}]
  BY <1>1
<1>4. /\ \A k \in added : \/ k.filter = "timer" /\ k.ident = f
                          \/ k.filter \in {"read", "write"} \cap o.filters /\ k.ident = o.fd
      /\ Single(t) => \A k, l \in added : k = l
  <2>1. /\ Len(evs) \in Nat \ {0}
        /\ \A i \in 1..Len(evs) :
             \/ evs[i].filter = "timer" /\ evs[i].ident = f
             \/ evs[i].filter \in {"read", "write"} \cap o.filters /\ evs[i].ident = o.fd
        /\ Single(t) => Len(evs) = 1
    BY NewEventsAre
  <2>0. n \in 0..Len(evs)
    OBVIOUS
  <2> HIDE DEF evs
  <2>2. ASSUME Single(t) PROVE \A i \in 1..n : i = 1
    <3>1. Len(evs) = 1
      BY <2>1, <2>2
    <3> QED BY SMT, <2>0, <3>1
  <2>3. \A i \in 1..n : i \in 1..Len(evs)
    BY SMT, <2>0, <2>1
  <2> QED BY <2>1, <2>2, <2>3
<1>5. op[t] \in Nat /\ op'[t] = op[t] + 1 /\ \A u \in Tasks \ {t} : op'[u] = op[u]
  BY <1>2 DEF SchedulerInv, TypeOK
<1>6. f \in Frames /\ f[1] = t /\ f[2] = op[t] + 1
  BY SMT, <1>2, <1>5, FrameFacts, SchedulerAssumption
<1>7. /\ at' \in [Tasks -> States] /\ at'[t] = "suspended" /\ \A u \in Tasks \ {t} : at'[u] = at[u]
  BY <1>2 DEF SchedulerInv, TypeOK, States
<1>0. \A u \in Tasks : <<u, op'[u]>> = IF u = t THEN f ELSE <<u, op[u]>>
  BY <1>5
<1> HIDE DEF f, evs, added
<1>8. TypeOK'
  <2>1. knotes' \in [DOMAIN knotes' -> Frames]
    BY <1>3, <1>6 DEF SchedulerInv, TypeOK
  <2>2. \A k \in DOMAIN knotes' : k.filter \in {"read", "write", "timer"}
    BY <1>3, <1>4 DEF SchedulerInv, TypeOK
  <2>3. op' \in [Tasks -> Nat] /\ \A u \in Tasks : op'[u] =< MaxOps[u]
    BY SMT, <1>2, <1>5, SchedulerAssumption DEF SchedulerInv, TypeOK
  <2> QED BY <2>1, <2>2, <2>3, <1>2, <1>3, <1>7 DEF SchedulerInv, TypeOK
<1>9. /\ \A x : Noted(x)' => Noted(x) \/ x = f
      /\ \A x : Taken(x)' <=> Taken(x)
      /\ \A x : Queued(x)' <=> Queued(x)
      /\ \A x : Executing(x)' => Executing(x)
      /\ \A x : Batched(x)' <=> Batched(x)
      /\ \A x : Handed(x)' <=> Handed(x)
  BY <1>2, <1>3 DEF Noted, Taken, Handed, Queued, Executing, Batched
<1>10. \A x : Pending(x)' => Pending(x) \/ x = f
  BY <1>9 DEF Pending
<1>11. ~Pending(f) /\ ~Executing(f)
  BY SMT, <1>5, <1>6 DEF SchedulerInv, NotBegun
<1>12. BatchesFinished'
  BY <1>2 DEF SchedulerInv, BatchesFinished
<1>13. NotesOwned'
  BY <1>3, <1>4, <1>6 DEF SchedulerInv, NotesOwned
<1>14. NotBegun'
  <2> SUFFICES ASSUME NEW x \in Frames, Pending(x)' \/ Executing(x)' PROVE x[2] =< op'[x[1]]
    BY DEF NotBegun
  <2>1. CASE x = f
    BY SMT, <2>1, <1>5, <1>6
  <2>2. CASE x # f
    <3>1. x[2] =< op[x[1]] /\ x[1] \in Tasks /\ x[2] \in Nat
      BY <2>2, <1>9, <1>10, FrameFacts DEF SchedulerInv, NotBegun
    <3>2. op'[x[1]] = op[x[1]] \/ (x[1] = t /\ op'[x[1]] = op[t] + 1)
      BY <3>1, <1>5
    <3> QED BY SMT, <3>1, <3>2, <1>5 DEF SchedulerInv, TypeOK
  <2> QED BY <2>1, <2>2
<1>15. HandedByLocking'
  BY <1>2, <1>7 DEF SchedulerInv, HandedByLocking, TypeOK
<1>16. UnbornNowhere'
  <2> SUFFICES ASSUME NEW x \in Tasks, at'[x] = "unborn"
               PROVE  op'[x] = 0 /\ ~Pending(<<x, 0>>)' /\ ~Executing(<<x, 0>>)'
    BY DEF UnbornNowhere
  <2>1. x # t /\ at[x] = "unborn"
    BY <1>7
  <2>2. <<x, 0>> # f
    BY SMT, <2>1, <1>6
  <2> QED BY <2>1, <2>2, <1>5, <1>9, <1>10 DEF SchedulerInv, UnbornNowhere
<1>17. Once'
  <2> SUFFICES ASSUME NEW x \in SingleFrames PROVE OnceAt(x)'
    BY DEF Once, SingleFrames, Single
  <2>1. OnceAt(x) /\ Single(x[1])
    BY FrameFacts DEF SchedulerInv, Once
  <2>2. \A k, l \in DOMAIN knotes' : knotes'[k] = x /\ knotes'[l] = x => k = l
    <3>1. CASE x = f
      <4>1. \A k \in DOMAIN knotes' : knotes'[k] = x => k \in added
        BY <3>1, <1>3, <1>11 DEF Pending, Noted
      <4>2. Single(t)
        BY <2>1, <3>1, <1>6
      <4> QED BY <4>1, <4>2, <1>4
    <3>2. CASE x # f
      BY <3>2, <2>1, <1>3 DEF OnceAt
    <3> QED BY <3>1, <3>2
  <2>3. /\ \A i, j \in DOMAIN queue' : queue'[i] = x /\ queue'[j] = x => i = j
        /\ \A r, s \in Runners : \A d \in batch'[r], e \in batch'[s] :
             d.filter # "user" /\ e.filter # "user" /\ d.udata = x /\ e.udata = x => r = s /\ d = e
        /\ \A r, s \in Runners :
             run_pc'[r] = "resume" /\ run_pc'[s] = "resume" /\ ev'[r] = x /\ ev'[s] = x => r = s
    BY <2>1, <1>2 DEF OnceAt
  <2> QED BY <2>1, <2>2, <2>3, <1>9, <1>11 DEF OnceAt, Pending
<1>18. PendingSuspended'
  <2> SUFFICES ASSUME shut \notin {"tasks", "returned"}, NEW x \in SingleFrames, Pending(x)'
               PROVE  x = <<x[1], op'[x[1]]>> /\ at'[x[1]] = "suspended"
    BY <1>2 DEF PendingSuspended, SingleFrames, Single, Current
  <2>1. CASE x = f
    BY <2>1, <1>0, <1>6, <1>7
  <2>2. CASE x # f
    <3>1. x = <<x[1], op[x[1]]>> /\ at[x[1]] = "suspended" /\ x[1] \in Tasks
      BY <2>2, <1>10, FrameFacts DEF SchedulerInv, PendingSuspended, Current
    <3> QED BY <3>1, <1>2, <1>5, <1>7
  <2> QED BY <2>1, <2>2
<1>19. ResultStored' /\ ResultBeforeResume'
  <2>1. ResultBeforeResume'
    BY <1>2, <1>7 DEF SchedulerInv, ResultBeforeResume
  <2> SUFFICES ASSUME NEW x \in Tasks, NEW g, g = <<x, op'[x]>>, at'[x] = "suspended", op'[x] > 0,
                      Taken(g)' \/ Queued(g)'
               PROVE  value'[x]
    BY <2>1 DEF ResultStored, Current, Taken, Queued
  <2>2. CASE x = t
    <3>1. g = f
      BY <2>2, <1>0
    <3> QED BY <3>1, <1>9, <1>11 DEF Pending
  <2>3. CASE x # t
    <3>1. at[x] = "suspended" /\ op'[x] = op[x] /\ g = <<x, op[x]>> /\ (Taken(g) \/ Queued(g))
      BY <2>3, <1>5, <1>7, <1>9
    <3> QED BY <3>1, <1>2 DEF SchedulerInv, ResultStored, Current
  <2> QED BY <2>2, <2>3
<1>20. OneFilterIsSafe'
  BY <1>2 DEF OneFilterIsSafe
<1> QED BY <1>8, <1>12, <1>13, <1>14, <1>15, <1>16, <1>17, <1>18, <1>19, <1>20 DEF SchedulerInv

-----------------------------------------------------------------------------
(* dispatch(): events are taken from the kernel, translated and resumed.   *)

\* kevent() moves frames from the registrations to the batch of one runner.
LEMMA KeventKeeps ==
    ASSUME SchedulerInv, undefined = None, NEW r \in Runners, Kevent(r)
    PROVE  SchedulerInv'
<1>1. PICK evs \in SUBSET Available :
         /\ batch' = [batch EXCEPT ![r] =
              {[filter |-> k.filter, udata |-> IF k = UserEvent THEN None ELSE knotes[k]] : k \in evs}]
         /\ fired' = fired \ evs
         /\ knotes' = [k \in DOMAIN knotes \ Oneshot(evs) |-> knotes[k]]
  BY DEF Kevent
<1>2. /\ UNCHANGED <<ev, queue, active, at, op, value, handing, shut, undefined>>
      /\ run_pc[r] = "kevent" /\ run_pc' = [run_pc EXCEPT ![r] = "batch"]
  BY DEF Kevent, Goto, flagVars, poolVars, taskVars, listVars, shutVars, histVars
<1>3. /\ run_pc' \in [Runners -> RunStates] /\ run_pc'[r] = "batch"
      /\ \A s \in Runners \ {r} : run_pc'[s] = run_pc[s]
      /\ \A s \in Runners : run_pc'[s] = "resume" <=> run_pc[s] = "resume"
  BY <1>2 DEF SchedulerInv, TypeOK, RunStates
<1>4. /\ DOMAIN knotes' = DOMAIN knotes \ evs
      /\ \A k \in DOMAIN knotes' : knotes'[k] = knotes[k]
      /\ knotes' \in [DOMAIN knotes' -> Frames]
  BY <1>1 DEF Oneshot, SchedulerInv, TypeOK
<1>5. \A k \in evs : k # UserEvent => k \in DOMAIN knotes
  BY <1>1 DEF Available, SchedulerInv, TypeOK
<1>6. \A k \in DOMAIN knotes : k # UserEvent /\ k.filter \in {"read", "write", "timer"}
  BY SMT DEF UserEvent, SchedulerInv, TypeOK
<1> DEFINE report(k) == [filter |-> k.filter, udata |-> IF k = UserEvent THEN None ELSE knotes[k]]
<1>7. /\ batch'[r] = {report(k) : k \in evs}
      /\ \A s \in Runners \ {r} : batch'[s] = batch[s]
      /\ batch[r] = {}
  BY <1>1, <1>2 DEF SchedulerInv, TypeOK, BatchesFinished
<1>8. ASSUME NEW k \in evs
      PROVE  \/ k = UserEvent /\ report(k) = UserReport
             \/ k \in DOMAIN knotes /\ report(k) \in Reports /\ report(k).filter = k.filter
                  /\ report(k).filter # "user" /\ report(k).udata = knotes[k]
  <2>1. CASE k = UserEvent
    BY <2>1 DEF UserEvent, UserReport
  <2>2. CASE k # UserEvent
    <3>1. k \in DOMAIN knotes /\ k.filter \in {"read", "write", "timer"} /\ knotes[k] \in Frames
      BY <2>2, <1>5, <1>6 DEF SchedulerInv, TypeOK
    <3> QED BY <2>2, <3>1 DEF Reports
  <2> QED BY <2>1, <2>2
<1>9. \A e \in batch'[r] : e.filter # "user" =>
         \E k \in evs : k \in DOMAIN knotes /\ e = report(k) /\ e.filter = k.filter /\ e.udata = knotes[k]
  <2>1. UserReport.filter = "user"
    BY DEF UserReport
  <2> QED BY SMT, <2>1, <1>7, <1>8
<1>10. batch' \in [Runners -> SUBSET (Reports \cup {UserReport})]
  <2>1. batch'[r] \subseteq Reports \cup {UserReport}
    BY SMT, <1>7, <1>8
  <2> HIDE DEF report
  <2> QED BY <2>1, <1>1, <1>7 DEF SchedulerInv, TypeOK
<1> HIDE DEF report
<1>11. TypeOK'
  BY <1>1, <1>2, <1>3, <1>4, <1>6, <1>10 DEF SchedulerInv, TypeOK
<1>12. /\ \A x : Noted(x)' => Noted(x)
       /\ \A x : Taken(x)' <=> Taken(x)
       /\ \A x : Queued(x)' <=> Queued(x)
       /\ \A x : Executing(x)' <=> Executing(x)
       /\ \A x : Handed(x)' <=> Handed(x)
  BY <1>2, <1>3, <1>4 DEF Noted, Taken, Handed, Queued, Executing
<1>13. \A x : Batched(x)' => Batched(x) \/ Noted(x)
  BY <1>7, <1>9 DEF Batched, Noted
<1>14. \A x : Pending(x)' => Pending(x)
  BY <1>12, <1>13 DEF Pending
<1>15. BatchesFinished' /\ NotesOwned'
  <2>1. BatchesFinished'
    BY <1>3, <1>7 DEF SchedulerInv, BatchesFinished
  <2>2. NotesOwned'
    BY <1>4 DEF SchedulerInv, NotesOwned
  <2> QED BY <2>1, <2>2
<1>16. NotBegun' /\ HandedByLocking' /\ UnbornNowhere'
  BY <1>2, <1>12, <1>14 DEF SchedulerInv, NotBegun, HandedByLocking, UnbornNowhere
<1>17. Once'
  <2> SUFFICES ASSUME NEW x \in SingleFrames PROVE OnceAt(x)'
    BY DEF Once, SingleFrames, Single
  <2>1. OnceAt(x)
    BY DEF SchedulerInv, Once
  <2>2. \A k, l \in DOMAIN knotes' : knotes'[k] = x /\ knotes'[l] = x => k = l
    BY <2>1, <1>4 DEF OnceAt
  <2>3. ASSUME NEW s \in Runners, NEW q \in Runners, NEW d \in batch'[s], NEW e \in batch'[q],
               d.filter # "user", e.filter # "user", d.udata = x, e.udata = x
        PROVE  s = q /\ d = e
    <3>1. CASE s = r /\ q = r
      <4>1. PICK k \in DOMAIN knotes : d = report(k) /\ knotes[k] = x
        BY <3>1, <2>3, <1>9
      <4>2. PICK l \in DOMAIN knotes : e = report(l) /\ knotes[l] = x
        BY <3>1, <2>3, <1>9
      <4>3. k = l
        BY <4>1, <4>2, <2>1 DEF OnceAt
      <4> QED BY <3>1, <4>1, <4>2, <4>3
    <3>2. CASE s = r /\ q # r
      <4>1. Noted(x)
        BY <3>2, <2>3, <1>9 DEF Noted
      <4>2. Batched(x)
        BY <3>2, <2>3, <1>7 DEF Batched
      <4> QED BY <4>1, <4>2, <2>1 DEF OnceAt
    <3>3. CASE s # r /\ q = r
      <4>1. Noted(x)
        BY <3>3, <2>3, <1>9 DEF Noted
      <4>2. Batched(x)
        BY <3>3, <2>3, <1>7 DEF Batched
      <4> QED BY <4>1, <4>2, <2>1 DEF OnceAt
    <3>4. CASE s # r /\ q # r
      BY ZenonT(40), <3>4, <2>1, <2>3, <1>7 DEF OnceAt
    <3> QED BY <3>1, <3>2, <3>3, <3>4
  <2>4. Noted(x)' => ~Batched(x)'
    <3> SUFFICES ASSUME NEW l \in DOMAIN knotes', knotes'[l] = x,
                        NEW s \in Runners, NEW e \in batch'[s], e.filter # "user", e.udata = x
                 PROVE  FALSE
      BY DEF Noted, Batched
    <3>0. l \in DOMAIN knotes /\ l \notin evs /\ knotes[l] = x
      BY <1>4
    <3>1. CASE s = r
      <4>1. PICK k \in evs : k \in DOMAIN knotes /\ knotes[k] = x
        BY <3>1, <1>9
      <4> QED BY <3>0, <4>1, <2>1 DEF OnceAt
    <3>2. CASE s # r
      BY <3>0, <3>2, <1>7, <2>1 DEF OnceAt, Noted, Batched
    <3> QED BY <3>1, <3>2
  <2>5. /\ \A i, j \in DOMAIN queue' : queue'[i] = x /\ queue'[j] = x => i = j
        /\ \A q, s \in Runners :
             run_pc'[q] = "resume" /\ run_pc'[s] = "resume" /\ ev'[q] = x /\ ev'[s] = x => q = s
    BY <2>1, <1>2, <1>3 DEF OnceAt
  <2> QED BY <2>1, <2>2, <2>3, <2>4, <2>5, <1>12, <1>13 DEF OnceAt
<1>18. PendingSuspended'
  BY <1>2, <1>14 DEF SchedulerInv, PendingSuspended, SingleFrames, Single, Current
<1>19. ResultStored' /\ ResultBeforeResume'
  BY <1>2, <1>12 DEF SchedulerInv, ResultStored, ResultBeforeResume, Current
<1>20. OneFilterIsSafe'
  BY <1>2 DEF OneFilterIsSafe
<1> QED BY <1>11, <1>15, <1>16, <1>17, <1>18, <1>19, <1>20 DEF SchedulerInv

\* The step of translate_kevent() that stores a result and takes the frame.
LEMMA TakeKeeps ==
    ASSUME SchedulerInv, undefined = None, NEW r \in Runners, NEW e \in batch[r],
           run_pc[r] = "batch", e.filter # "user",
           e.udata = Current(e.udata[1]), at[e.udata[1]] = "suspended",
           batch' = [batch EXCEPT ![r] = @ \ {e}],
           value' = [value EXCEPT ![e.udata[1]] = TRUE],
           ev' = [ev EXCEPT ![r] = e.udata],
           run_pc' = [run_pc EXCEPT ![r] = "resume"],
           UNCHANGED <<knotes, fired, queue, active, at, op, handing, shut, undefined>>
    PROVE  SchedulerInv'
<1> DEFINE f == e.udata
           t == f[1]
<1>1. f \in Frames /\ t \in Tasks /\ e \in Reports
  BY SMT, FrameFacts DEF SchedulerInv, TypeOK, Reports, UserReport
<1>0. f = Current(t) /\ at[t] = "suspended" /\ e.udata = f
  OBVIOUS
<1>2. /\ batch' \in [Runners -> SUBSET (Reports \cup {UserReport})]
      /\ batch'[r] = batch[r] \ {e} /\ \A s \in Runners \ {r} : batch'[s] = batch[s]
  BY DEF SchedulerInv, TypeOK
<1>3. /\ value' \in [Tasks -> BOOLEAN] /\ value'[t]
      /\ \A u \in Tasks \ {t} : value'[u] = value[u]
  BY <1>1 DEF SchedulerInv, TypeOK
<1>4. /\ ev' \in [Runners -> Frames \cup {None}] /\ ev'[r] = f
      /\ \A s \in Runners \ {r} : ev'[s] = ev[s]
  BY <1>1 DEF SchedulerInv, TypeOK
<1>5. /\ run_pc' \in [Runners -> RunStates] /\ run_pc'[r] = "resume"
      /\ \A s \in Runners \ {r} : run_pc'[s] = run_pc[s]
  BY DEF SchedulerInv, TypeOK, RunStates
<1> HIDE DEF f, t
<1>6. TypeOK'
  BY <1>1, <1>2, <1>3, <1>4, <1>5 DEF SchedulerInv, TypeOK
<1>7. /\ \A x : Noted(x)' <=> Noted(x)
      /\ \A x : Taken(x)' <=> Taken(x) \/ x = f
      /\ \A x : Queued(x)' <=> Queued(x)
      /\ \A x : Executing(x)' <=> Executing(x)
      /\ \A x : Batched(x)' => Batched(x)
      /\ \A x : Handed(x)' <=> Handed(x)
      /\ Batched(f)
  <2>1. \A x : Taken(x)' <=> Taken(x) \/ x = f
    BY <1>4, <1>5 DEF Taken
  <2>2. (\A x : Batched(x)' => Batched(x)) /\ Batched(f)
    BY <1>0, <1>2 DEF Batched
  <2> QED BY <2>1, <2>2 DEF Noted, Handed, Queued, Executing
<1>8. \A x : Pending(x)' => Pending(x)
  BY <1>7 DEF Pending
<1>9. BatchesFinished' /\ NotesOwned'
  BY <1>2, <1>5 DEF SchedulerInv, BatchesFinished, NotesOwned
<1>10. NotBegun' /\ HandedByLocking' /\ UnbornNowhere'
  BY <1>7, <1>8 DEF SchedulerInv, NotBegun, HandedByLocking, UnbornNowhere
<1>11. Once'
  <2> SUFFICES ASSUME NEW x \in SingleFrames PROVE OnceAt(x)'
    BY DEF Once, SingleFrames, Single
  <2>1. OnceAt(x)
    BY DEF SchedulerInv, Once
  <2>2. \A s, q \in Runners : \A d \in batch'[s], c \in batch'[q] :
           d.filter # "user" /\ c.filter # "user" /\ d.udata = x /\ c.udata = x => s = q /\ d = c
    <3>1. \A s \in Runners : batch'[s] \subseteq batch[s]
      BY <1>2
    <3> QED BY ZenonT(40), <2>1, <3>1 DEF OnceAt
  <2>3. \A s, q \in Runners :
           run_pc'[s] = "resume" /\ run_pc'[q] = "resume" /\ ev'[s] = x /\ ev'[q] = x => s = q
    <3>1. CASE x = f
      <4>1. ~Taken(x)
        BY <3>1, <1>7, <2>1 DEF OnceAt
      <4> QED BY <4>1, <1>4, <1>5 DEF Taken
    <3>2. CASE x # f
      BY SMT, <3>2, <2>1, <1>4, <1>5 DEF OnceAt
    <3> QED BY <3>1, <3>2
  <2>4. x = f => ~Batched(x)'
    <3> SUFFICES ASSUME x = f, NEW s \in Runners, NEW d \in batch'[s], d.filter # "user", d.udata = x PROVE FALSE
      BY DEF Batched
    <3>1. s = r /\ d = e
      BY SMT, <1>0, <1>2, <2>1 DEF OnceAt
    <3> QED BY <3>1, <1>2
  <2>5. /\ \A k, l \in DOMAIN knotes' : knotes'[k] = x /\ knotes'[l] = x => k = l
        /\ \A i, j \in DOMAIN queue' : queue'[i] = x /\ queue'[j] = x => i = j
    BY <2>1 DEF OnceAt
  <2> QED BY <2>1, <2>2, <2>3, <2>4, <2>5, <1>7 DEF OnceAt
<1>12. PendingSuspended'
  BY <1>8 DEF SchedulerInv, PendingSuspended, SingleFrames, Single, Current
<1>13. ResultStored'
  <2> SUFFICES ASSUME NEW u \in Tasks, at[u] = "suspended", op[u] > 0,
                      Taken(Current(u))' \/ Queued(Current(u))'
               PROVE  value'[u]
    BY DEF ResultStored, Current
  <2>1. CASE u = t
    BY <2>1, <1>3
  <2>2. CASE u # t
    <3>1. Current(u) # f /\ Current(u)' = Current(u)
      BY SMT, <2>2, <1>0 DEF Current
    <3>2. Taken(Current(u)) \/ Queued(Current(u))
      BY SMT, <3>1, <1>7 DEF Current, Taken, Queued
    <3> QED BY <2>2, <3>2, <1>3 DEF SchedulerInv, ResultStored
  <2> QED BY <2>1, <2>2
<1>14. ResultBeforeResume'
  BY <1>3 DEF SchedulerInv, ResultBeforeResume
<1>15. OneFilterIsSafe'
  BY DEF OneFilterIsSafe
<1> QED BY <1>6, <1>9, <1>10, <1>11, <1>12, <1>13, <1>14, <1>15 DEF SchedulerInv

\* dispatch() stores the result of an event and yields its frame, or skips a finished one.
LEMMA TranslateKeeps ==
    ASSUME SchedulerInv, undefined = None, NEW r \in Runners, Translate(r)
    PROVE  SchedulerInv'
<1>1. PICK e \in batch[r] :
        LET t == e.udata[1]
            mine == e.udata = Current(t)
        IN /\ e.filter # "user"
           /\ batch' = [batch EXCEPT ![r] = @ \ {e}]
           /\ \/ /\ mine /\ at[t] = "suspended"
                 /\ ReturnValue(t)
                 /\ ev' = [ev EXCEPT ![r] = e.udata]
                 /\ Goto(r, "resume")
                 /\ UNCHANGED undefined
              \/ /\ mine /\ at[t] = "returned"
                 /\ UNCHANGED <<run_pc, ev, value, undefined>>
              \/ /\ ~ (mine /\ at[t] \in {"suspended", "returned"})
                 /\ Undefined(t, "destroyed")
                 /\ UNCHANGED <<value, ev, run_pc>>
  BY DEF Translate
<1> DEFINE f == e.udata
           t == f[1]
<1>2. /\ UNCHANGED <<knotes, fired, queue, active, at, op, handing, shut>>
      /\ run_pc[r] = "batch"
  BY DEF Translate, flagVars, kernelVars, poolVars, listVars, shutVars
<1>3. f \in Frames /\ t \in Tasks
  BY SMT, <1>1, FrameFacts DEF SchedulerInv, TypeOK, Reports, UserReport
<1>4. CASE /\ f = Current(t) /\ at[t] = "suspended" /\ UNCHANGED undefined
           /\ ReturnValue(t) /\ ev' = [ev EXCEPT ![r] = f] /\ Goto(r, "resume")
  BY <1>1, <1>2, <1>4, TakeKeeps DEF ReturnValue, Goto
<1>5. CASE UNCHANGED <<run_pc, ev, value>> /\ OneFilterIsSafe'
  <2>1. batch' \in [Runners -> SUBSET (Reports \cup {UserReport})]
    BY <1>1 DEF SchedulerInv, TypeOK
  <2>2. \A s \in Runners : batch'[s] \subseteq batch[s]
    BY <1>1 DEF SchedulerInv, TypeOK
  <2>3. \A s \in Runners : run_pc'[s] \notin {"batch", "resume"} => batch'[s] = {}
    BY <1>5, <2>2 DEF SchedulerInv, BatchesFinished
  <2>4. /\ fired' \subseteq DOMAIN knotes /\ run_pc' \in [Runners -> RunStates]
        /\ at' \in [Tasks -> States] /\ value' \in [Tasks -> BOOLEAN]
    BY <1>2, <1>5 DEF SchedulerInv, TypeOK
  <2> QED BY <1>2, <1>5, <2>1, <2>2, <2>3, <2>4, QuietKeeps
<1>6. CASE UNCHANGED <<run_pc, ev, value, undefined>>
  <2>1. OneFilterIsSafe'
    BY <1>6 DEF OneFilterIsSafe
  <2> QED BY <2>1, <1>5, <1>6
<1>7. CASE /\ ~(f = Current(t) /\ at[t] \in {"suspended", "returned"})
           /\ Undefined(t, "destroyed") /\ UNCHANGED <<value, ev, run_pc>>
  <2>1. ASSUME Single(t), shut \notin {"tasks", "returned"} PROVE FALSE
    <3>1. f \in SingleFrames
      BY <2>1, <1>3 DEF SingleFrames
    <3>2. Pending(f)
      BY <1>1 DEF Pending, Batched
    <3> QED BY <1>7, <2>1, <3>1, <3>2 DEF SchedulerInv, PendingSuspended
  <2>2. undefined'.task = t
    BY <1>7 DEF Undefined
  <2>3. OneFilterIsSafe'
    BY <2>1, <2>2, <1>2 DEF OneFilterIsSafe, Single
  <2> QED BY <2>3, <1>5, <1>7
<1> QED BY <1>1, <1>4, <1>6, <1>7

\* run() resumes what dispatch() yielded: the frame moves from the runner to the queue.
LEMMA ResumeKeeps ==
    ASSUME SchedulerInv, undefined = None, NEW r \in Runners, Resume(r)
    PROVE  SchedulerInv'
<1> DEFINE f == ev[r]
<1>1. /\ UNCHANGED <<knotes, fired, batch, active, at, op, value, handing, shut, undefined>>
      /\ run_pc[r] = "resume" /\ queue' = Append(queue, f)
  BY DEF Resume, flagVars, kernelVars, taskVars, listVars, shutVars, histVars
<1>2. f \in Frames
  BY <1>1 DEF SchedulerInv, TypeOK
<1>3. /\ ev' \in [Runners -> Frames \cup {None}] /\ \A s \in Runners \ {r} : ev'[s] = ev[s]
      /\ run_pc' \in [Runners -> RunStates] /\ run_pc'[r] = "batch"
      /\ \A s \in Runners \ {r} : run_pc'[s] = run_pc[s]
  BY DEF Resume, Goto, SchedulerInv, TypeOK, RunStates
<1>0. f = ev[r]
  OBVIOUS
<1> HIDE DEF f
<1>4. /\ queue' \in Seq(Frames) /\ Len(queue') = Len(queue) + 1
      /\ Elems(queue') = Elems(queue) \cup {f}
      /\ DOMAIN queue' = 1..Len(queue') /\ DOMAIN queue = 1..Len(queue)
      /\ \A i \in DOMAIN queue : queue'[i] = queue[i]
      /\ queue'[Len(queue')] = f
  BY SMT, <1>1, <1>2, OneAdded DEF SchedulerInv, TypeOK
<1>5. TypeOK'
  BY <1>1, <1>3, <1>4 DEF SchedulerInv, TypeOK
<1>6. /\ \A x : Noted(x)' <=> Noted(x)
      /\ \A x : Taken(x)' => Taken(x)
      /\ \A x : Queued(x)' <=> Queued(x) \/ x = f
      /\ \A x : Executing(x)' <=> Executing(x)
      /\ \A x : Batched(x)' <=> Batched(x)
      /\ \A x : Handed(x)' <=> Handed(x)
      /\ Taken(f)
  <2>1. (\A x : Taken(x)' => Taken(x)) /\ Taken(f)
    BY <1>0, <1>1, <1>3 DEF Taken
  <2> QED BY <2>1, <1>1, <1>4 DEF Noted, Handed, Queued, Executing, Batched
<1>7. \A x : Pending(x)' => Pending(x)
  BY <1>6 DEF Pending
<1>8. BatchesFinished' /\ NotesOwned'
  BY <1>1, <1>3 DEF SchedulerInv, BatchesFinished, NotesOwned
<1>9. NotBegun' /\ HandedByLocking' /\ UnbornNowhere'
  BY <1>1, <1>6, <1>7 DEF SchedulerInv, NotBegun, HandedByLocking, UnbornNowhere
<1>10. Once'
  <2> SUFFICES ASSUME NEW x \in SingleFrames PROVE OnceAt(x)'
    BY DEF Once, SingleFrames, Single
  <2>1. OnceAt(x)
    BY DEF SchedulerInv, Once
  <2>2. \A i, j \in DOMAIN queue' : queue'[i] = x /\ queue'[j] = x => i = j
    <3>1. CASE x = f
      <4>1. x \notin Elems(queue)
        BY <3>1, <2>1, <1>6 DEF OnceAt, Queued
      <4>2. \A i \in DOMAIN queue' : i \in DOMAIN queue \/ i = Len(queue')
        BY SMT, <1>4 DEF SchedulerInv, TypeOK
      <4> QED BY <4>1, <4>2, <1>4 DEF Elems
    <3>2. CASE x # f
      <4>1. \A i \in DOMAIN queue' : i \in DOMAIN queue \/ i = Len(queue')
        BY SMT, <1>4 DEF SchedulerInv, TypeOK
      <4> QED BY <3>2, <4>1, <2>1, <1>4 DEF OnceAt
    <3> QED BY <3>1, <3>2
  <2>3. \A s, q \in Runners :
           run_pc'[s] = "resume" /\ run_pc'[q] = "resume" /\ ev'[s] = x /\ ev'[q] = x => s = q
    BY ZenonT(40), <2>1, <1>3 DEF OnceAt
  <2>4. x = f => ~Taken(x)'
    BY <2>1, <1>0, <1>1, <1>3 DEF OnceAt, Taken
  <2>5. /\ \A k, l \in DOMAIN knotes' : knotes'[k] = x /\ knotes'[l] = x => k = l
        /\ \A s, q \in Runners : \A d \in batch'[s], c \in batch'[q] :
             d.filter # "user" /\ c.filter # "user" /\ d.udata = x /\ c.udata = x => s = q /\ d = c
    BY <2>1, <1>1 DEF OnceAt
  <2> QED BY <2>1, <2>2, <2>3, <2>4, <2>5, <1>6 DEF OnceAt
<1>11. PendingSuspended'
  BY <1>1, <1>7 DEF SchedulerInv, PendingSuspended, SingleFrames, Single, Current
<1>12. ResultStored'
  <2> SUFFICES ASSUME NEW u \in Tasks, at[u] = "suspended", op[u] > 0,
                      Taken(Current(u))' \/ Queued(Current(u))'
               PROVE  value[u]
    BY <1>1 DEF ResultStored, Current
  <2>1. Current(u)' = Current(u)
    BY <1>1 DEF Current
  <2>2. Taken(Current(u)) \/ Queued(Current(u))
    BY <2>1, <1>1, <1>6 DEF Current, Taken, Queued
  <2> QED BY <2>2 DEF SchedulerInv, ResultStored
<1>13. ResultBeforeResume' /\ OneFilterIsSafe'
  BY <1>1 DEF SchedulerInv, ResultBeforeResume, OneFilterIsSafe
<1> QED BY <1>5, <1>8, <1>9, <1>10, <1>11, <1>12, <1>13 DEF SchedulerInv

-----------------------------------------------------------------------------
(* The other steps.                                                        *)

\* A runner that moves between the places of run() where it holds no event.
LEMMA RunnerMoves ==
    ASSUME SchedulerInv, undefined = None, NEW r \in Runners, NEW l \in RunStates,
           UNCHANGED <<knotes, fired, batch, ev, queue, active, at, op, value, handing, shut, undefined>>,
           Goto(r, l), run_pc[r] # "resume", l # "resume", batch[r] = {}
    PROVE  SchedulerInv'
<1>1. /\ run_pc' \in [Runners -> RunStates]
      /\ \A s \in Runners : run_pc'[s] = IF s = r THEN l ELSE run_pc[s]
  BY DEF Goto, SchedulerInv, TypeOK
<1>2. \A s \in Runners : run_pc'[s] = "resume" <=> run_pc[s] = "resume"
  BY <1>1
<1>3. \A s \in Runners : run_pc'[s] \notin {"batch", "resume"} => batch'[s] = {}
  BY <1>1 DEF SchedulerInv, BatchesFinished
<1>4. /\ batch' \in [Runners -> SUBSET (Reports \cup {UserReport})]
      /\ at' \in [Tasks -> States] /\ value' \in [Tasks -> BOOLEAN] /\ fired' \subseteq DOMAIN knotes
  BY DEF SchedulerInv, TypeOK
<1>5. OneFilterIsSafe'
  BY DEF OneFilterIsSafe
<1> QED BY <1>1, <1>2, <1>3, <1>4, <1>5, QuietKeeps

\* The other steps of run() and dispatch() move no frame.
LEMMA RunnerKeeps ==
    ASSUME SchedulerInv, undefined = None, NEW r \in Runners,
           Run(r) \/ RunCheck(r) \/ Dispatch(r) \/ KeventFails(r) \/ EndDispatch(r)
    PROVE  SchedulerInv'
<1> USE DEF Goto, flagVars, kernelVars, poolVars, taskVars, listVars, shutVars, histVars
<1>1. \A s \in Runners : run_pc[s] \notin {"batch", "resume"} => batch[s] = {}
  BY DEF SchedulerInv, BatchesFinished
<1>2. /\ UNCHANGED <<knotes, fired, batch, ev, queue, active, at, op, value, handing, shut, undefined>>
      /\ \E l \in RunStates \ {"resume"} : Goto(r, l)
      /\ run_pc[r] # "resume" /\ batch[r] = {}
  <2>1. CASE Run(r)
    BY <1>1, <2>1 DEF Run, RunStates
  <2>2. CASE RunCheck(r)
    BY <1>1, <2>2 DEF RunCheck, RunStates
  <2>3. CASE Dispatch(r)
    BY <1>1, <2>3 DEF Dispatch, RunStates
  <2>4. CASE KeventFails(r)
    BY <1>1, <2>4 DEF KeventFails, RunStates
  <2>5. CASE EndDispatch(r)
    BY <2>5 DEF EndDispatch, RunStates
  <2> QED BY <2>1, <2>2, <2>3, <2>4, <2>5
<1> QED BY <1>2, RunnerMoves

\* Taking the user event moves no frame.
LEMMA TakeUserEventKeeps ==
    ASSUME SchedulerInv, undefined = None, NEW r \in Runners, TakeUserEvent(r)
    PROVE  SchedulerInv'
<1>1. /\ UNCHANGED <<knotes, fired, run_pc, ev, queue, active, at, op, value, handing, shut, undefined>>
      /\ \E e \in batch[r] : batch' = [batch EXCEPT ![r] = @ \ {e}]
  BY DEF TakeUserEvent, flagVars, kernelVars, poolVars, taskVars, listVars, shutVars, histVars
<1>2. /\ batch' \in [Runners -> SUBSET (Reports \cup {UserReport})]
      /\ \A s \in Runners : batch'[s] \subseteq batch[s]
  BY <1>1 DEF SchedulerInv, TypeOK
<1>3. \A s \in Runners : run_pc'[s] \notin {"batch", "resume"} => batch'[s] = {}
  BY <1>1, <1>2 DEF SchedulerInv, BatchesFinished
<1>4. /\ run_pc' \in [Runners -> RunStates]
      /\ at' \in [Tasks -> States] /\ value' \in [Tasks -> BOOLEAN] /\ fired' \subseteq DOMAIN knotes
  BY <1>1 DEF SchedulerInv, TypeOK
<1>5. OneFilterIsSafe'
  BY <1>1 DEF OneFilterIsSafe
<1> QED BY <1>1, <1>2, <1>3, <1>4, <1>5, QuietKeeps

\* A step of a task, of the kernel or of shutdown() that moves no frame.
LEMMA TaskMoves ==
    ASSUME SchedulerInv,
           UNCHANGED <<knotes, batch, run_pc, ev, queue, handing, op>>,
           fired' \subseteq DOMAIN knotes, active' \subseteq active,
           at' \in [Tasks -> States], value' \in [Tasks -> BOOLEAN],
           \A t \in Tasks : /\ at'[t] = "suspended" => at[t] = "suspended"
                            /\ at'[t] = "returned" => at[t] = "returned"
                            /\ at'[t] = "unborn" <=> at[t] = "unborn"
                            /\ at[t] = "locking" => at'[t] = "locking",
           \A t \in Tasks : value'[t] = value[t] \/ at'[t] \notin {"suspended", "returned"},
           shut' \notin {"tasks", "returned"} =>
               /\ shut \notin {"tasks", "returned"}
               /\ \A t \in Tasks : at[t] = "suspended" => at'[t] = "suspended",
           OneFilterIsSafe'
    PROVE  SchedulerInv'
<1>1. /\ batch' \in [Runners -> SUBSET (Reports \cup {UserReport})] /\ run_pc' \in [Runners -> RunStates]
      /\ \A r \in Runners : run_pc'[r] \notin {"batch", "resume"} => batch'[r] = {}
  BY DEF SchedulerInv, TypeOK, BatchesFinished
<1> QED BY <1>1, QuietKeeps

\* What a task does between two suspensions moves no frame but its own.
LEMMA TaskKeeps ==
    ASSUME SchedulerInv, undefined = None, NEW t \in Tasks, Lock(t) \/ Drop(t) \/ Finish(t)
    PROVE  SchedulerInv'
<1>0. at \in [Tasks -> States] /\ value \in [Tasks -> BOOLEAN] /\ fired \subseteq DOMAIN knotes
  BY DEF SchedulerInv, TypeOK
<1>1. /\ UNCHANGED <<knotes, fired, batch, run_pc, ev, queue, handing, op, shut, undefined>>
      /\ active' \subseteq active
      /\ at[t] \in {"running", "returned"}
      /\ \E l \in {"locking", "running", "done", "destroyed"} : at' = [at EXCEPT ![t] = l]
      /\ value' = value \/ value' = [value EXCEPT ![t] = FALSE]
  BY DEF Lock, Drop, Finish, Leave, flagVars, kernelVars, runVars, poolVars, taskVars, listVars, shutVars, histVars
<1>2. /\ at' \in [Tasks -> States] /\ value' \in [Tasks -> BOOLEAN]
      /\ at'[t] \in {"locking", "running", "done", "destroyed"}
      /\ \A u \in Tasks \ {t} : at'[u] = at[u] /\ value'[u] = value[u]
  BY <1>0, <1>1 DEF States
<1>3. OneFilterIsSafe'
  BY <1>1 DEF OneFilterIsSafe
<1> QED BY <1>0, <1>1, <1>2, <1>3, TaskMoves

\* shutdown(), before it resumes tasks, and the kernel move no frame.
LEMMA ShutdownKeeps ==
    ASSUME SchedulerInv, undefined = None,
           Shutdown \/ ShutdownLoad \/ Trigger \/ TriggerFails \/ Wait \/ ShutdownEnds \/ \E k : Fire(k)
    PROVE  SchedulerInv'
<1>0. at \in [Tasks -> States] /\ value \in [Tasks -> BOOLEAN] /\ fired \subseteq DOMAIN knotes
  BY DEF SchedulerInv, TypeOK
<1>1. /\ UNCHANGED <<knotes, batch, run_pc, ev, queue, active, handing, op, at, value, undefined>>
      /\ fired' \subseteq DOMAIN knotes
      /\ shut \in {"tasks", "returned"} => shut' \in {"tasks", "returned"}
  <2> USE DEF flagVars, kernelVars, runVars, poolVars, taskVars, listVars, shutVars, histVars
  <2>1. CASE Shutdown
    BY <1>0, <2>1 DEF Shutdown
  <2>2. CASE ShutdownLoad
    BY <1>0, <2>2 DEF ShutdownLoad
  <2>3. CASE Trigger
    BY <1>0, <2>3 DEF Trigger
  <2>4. CASE TriggerFails
    BY <1>0, <2>4 DEF TriggerFails
  <2>5. CASE Wait
    BY <1>0, <2>5 DEF Wait
  <2>6. CASE ShutdownEnds
    BY <1>0, <2>6 DEF ShutdownEnds
  <2>7. CASE \E k : Fire(k)
    BY <1>0, <2>7 DEF Fire
  <2> QED BY <2>1, <2>2, <2>3, <2>4, <2>5, <2>6, <2>7
<1>2. OneFilterIsSafe'
  BY <1>1 DEF OneFilterIsSafe
<1> QED BY <1>0, <1>1, <1>2, TaskMoves

\* shutdown() resumes a task, after which the invariant asks less of the frames on their way.
LEMMA VisitKeeps ==
    ASSUME SchedulerInv, undefined = None, NEW t \in Tasks, Visit(t)
    PROVE  SchedulerInv'
<1>0. at \in [Tasks -> States] /\ value \in [Tasks -> BOOLEAN] /\ fired \subseteq DOMAIN knotes
  BY DEF SchedulerInv, TypeOK
<1>1. /\ UNCHANGED <<knotes, fired, batch, run_pc, ev, queue, active, handing, op, shut>>
      /\ shut = "tasks"
  BY DEF Visit, flagVars, kernelVars, runVars, poolVars, listVars
<1>2. \/ UNCHANGED <<at, value>>
      \/ /\ at[t] \in {"done", "suspended"}
         /\ \E l \in {"destroyed", "running"} : at' = [at EXCEPT ![t] = l]
         /\ value' = [value EXCEPT ![t] = FALSE]
  BY DEF Visit
<1>3. CASE UNCHANGED <<at, value>>
  <2>1. OneFilterIsSafe'
    BY <1>1 DEF OneFilterIsSafe
  <2> QED BY <1>0, <1>1, <1>3, <2>1, TaskMoves
<1>4. CASE /\ at[t] \in {"done", "suspended"}
           /\ \E l \in {"destroyed", "running"} : at' = [at EXCEPT ![t] = l]
           /\ value' = [value EXCEPT ![t] = FALSE]
  <2>1. /\ at' \in [Tasks -> States] /\ value' \in [Tasks -> BOOLEAN]
        /\ at'[t] \in {"running", "destroyed"}
        /\ \A u \in Tasks \ {t} : at'[u] = at[u] /\ value'[u] = value[u]
    BY <1>0, <1>4 DEF States
  <2>2. OneFilterIsSafe'
    BY <1>1 DEF OneFilterIsSafe
  <2> QED BY <1>0, <1>1, <1>4, <2>1, <2>2, TaskMoves
<1> QED BY <1>2, <1>3, <1>4

\* The invariant holds at first.
LEMMA SchedulerInit == Init => SchedulerInv
<1> SUFFICES ASSUME Init PROVE SchedulerInv
  OBVIOUS
<1> USE DEF Init
<1>1. DOMAIN knotes = {} /\ DOMAIN handing = {} /\ Elems(queue) = {} /\ DOMAIN queue = {}
  BY SMT DEF Elems
<1>2. TypeOK
  <2>1. /\ knotes \in [DOMAIN knotes -> Frames] /\ handing \in [DOMAIN handing -> Tasks \cup {None}]
        /\ queue \in Seq(Frames)
    BY SMT, <1>1
  <2>2. /\ op \in [Tasks -> Nat] /\ \A t \in Tasks : op[t] =< MaxOps[t]
    BY SMT, SchedulerAssumption
  <2>3. run_pc \in [Runners -> RunStates] /\ \A r \in Runners : run_pc[r] = "idle"
    BY DEF RunStates
  <2> QED BY <1>1, <2>1, <2>2, <2>3 DEF TypeOK, States
<1>3. \A f : ~Pending(f) /\ ~Executing(f) /\ ~Noted(f) /\ ~Batched(f) /\ ~Taken(f) /\ ~Handed(f) /\ ~Queued(f)
  BY <1>1 DEF Pending, Executing, Noted, Batched, Taken, Handed, Queued
<1>4. BatchesFinished /\ NotesOwned /\ HandedByLocking
  BY <1>1 DEF BatchesFinished, NotesOwned, HandedByLocking
<1>5. NotBegun /\ UnbornNowhere /\ PendingSuspended /\ ResultStored
  BY <1>3 DEF NotBegun, UnbornNowhere, PendingSuspended, ResultStored
<1>6. Once
  BY <1>1, <1>3 DEF Once, OnceAt
<1>7. ResultBeforeResume /\ OneFilterIsSafe
  BY DEF ResultBeforeResume, OneFilterIsSafe
<1> QED BY <1>2, <1>4, <1>5, <1>6, <1>7 DEF SchedulerInv

\* Every step keeps the invariant.
LEMMA SchedulerNext == SchedulerInv /\ [Next]_vars => SchedulerInv'
<1> SUFFICES ASSUME SchedulerInv, [Next]_vars PROVE SchedulerInv'
  OBVIOUS
<1>1. CASE UNCHANGED vars
  <2>1. UNCHANGED <<knotes, fired, batch, run_pc, ev, queue, active, handing, op, at, value, shut, undefined>>
    BY <1>1 DEF vars, kernelVars, runVars, poolVars, taskVars, listVars, shutVars, histVars
  <2>2. /\ at' \in [Tasks -> States] /\ value' \in [Tasks -> BOOLEAN] /\ fired' \subseteq DOMAIN knotes
    BY <2>1 DEF SchedulerInv, TypeOK
  <2>3. OneFilterIsSafe'
    BY <2>1 DEF SchedulerInv, OneFilterIsSafe, Single
  <2> QED BY <2>1, <2>2, <2>3, TaskMoves
<1>2. CASE Next
  <2>0. undefined = None
    BY <1>2 DEF Next
  <2>1. CASE \E u \in Tasks : ScheduleRoot(u)
    <3>1. PICK u \in Tasks : Emplace(u, None)
      BY <2>1 DEF ScheduleRoot
    <3>2. None \notin Tasks
      BY SchedulerAssumption
    <3> QED BY <2>0, <3>1, <3>2, EmplaceKeeps
  <2>2. CASE \E u \in Tasks : Submit(u)
    BY <2>0, <2>2, SubmitKeeps
  <2>3. CASE \E t \in Tasks : Lock(t) \/ Drop(t) \/ Finish(t)
    BY <2>0, <2>3, TaskKeeps
  <2>4. CASE \E t \in Tasks : \E o \in Ops[t] : Await(t, o)
    BY <2>0, <2>4, AwaitKeeps
  <2>5. CASE \E t \in Tasks : \E u \in Tasks : ScheduleFrom(t, u)
    BY <2>0, <2>5, EmplaceKeeps DEF ScheduleFrom
  <2>6. CASE Start
    BY <2>0, <2>6, StartKeeps
  <2>7. CASE \E k : Fire(k)
    BY <2>0, <2>7, ShutdownKeeps
  <2>8. CASE \E r \in Runners : Run(r) \/ RunCheck(r) \/ Dispatch(r) \/ KeventFails(r) \/ EndDispatch(r)
    BY <2>0, <2>8, RunnerKeeps
  <2>9. CASE \E r \in Runners : TakeUserEvent(r)
    BY <2>0, <2>9, TakeUserEventKeeps
  <2>10. CASE \E r \in Runners : Translate(r)
    BY <2>0, <2>10, TranslateKeeps
  <2>11. CASE \E r \in Runners : Resume(r)
    BY <2>0, <2>11, ResumeKeeps
  <2>12. CASE \E r \in Runners : Kevent(r)
    BY <2>0, <2>12, KeventKeeps
  <2>13. CASE Shutdown \/ ShutdownLoad \/ Trigger \/ TriggerFails \/ Wait \/ ShutdownEnds
    BY <2>0, <2>13, ShutdownKeeps
  <2>14. CASE \E t \in Tasks : Visit(t)
    BY <2>0, <2>14, VisitKeeps
  <2> QED BY ZenonT(40), <1>2, <2>1, <2>2, <2>3, <2>4, <2>5, <2>6, <2>7, <2>8, <2>9, <2>10, <2>11, <2>12, <2>13, <2>14
          DEF Next, TaskStep, DispatchStep, ShutdownStep
<1> QED BY <1>1, <1>2

-----------------------------------------------------------------------------

\* Until shutdown() resumes tasks itself, a task that registers one filter per
\* operation is resumed only while it is suspended, whatever the tasks, the runners
\* and the failures of kevent().
THEOREM OneFilterSafety == Spec => []OneFilterIsSafe
<1>1. SchedulerInv => OneFilterIsSafe
  BY DEF SchedulerInv
<1> QED BY SchedulerInit, SchedulerNext, <1>1, PTL DEF Spec

\* A frame of queue() that a worker resumed has its result.
THEOREM ResultsInTime == Spec => []ResultBeforeResume
<1>1. SchedulerInv => ResultBeforeResume
  BY DEF SchedulerInv
<1> QED BY SchedulerInit, SchedulerNext, <1>1, PTL DEF Spec

-----------------------------------------------------------------------------
(* No waiter is forgotten.                                                 *)

Reached(f) == Noted(f) \/ Batched(f) \/ Taken(f) \/ Handed(f) \/ Queued(f) \/ f \in lost

WaitersReached == \A t \in Tasks : at[t] = "suspended" => Reached(Current(t))

\* Steps that leave every place but, perhaps, one that is not t's.
LEMMA StaysReached ==
    ASSUME SchedulerInv, NEW f, Reached(f),
           \A k \in DOMAIN knotes : knotes[k] = f => k \in DOMAIN knotes' /\ knotes'[k] = f,
           \A r \in Runners : \A e \in batch[r] : e.filter # "user" /\ e.udata = f => e \in batch'[r],
           \A r \in Runners : run_pc[r] = "resume" => run_pc'[r] = "resume" /\ ev'[r] = ev[r],
           Handed(f) => Handed(f)', Queued(f) => Queued(f)', lost \subseteq lost'
    PROVE  Reached(f)'
<1>1. Noted(f) => Noted(f)'
  BY DEF Noted
<1>2. Batched(f) => Batched(f)'
  BY DEF Batched
<1>3. Taken(f) => Taken(f)'
  BY DEF Taken
<1> QED BY <1>1, <1>2, <1>3 DEF Reached

\* A frame that is handed over is in the queue next.
LEMMA SubmitReaches ==
    ASSUME SchedulerInv, NEW u \in Tasks, Submit(u), NEW f \in Frames, Reached(f)
    PROVE  Reached(f)'
<1> DEFINE h == <<u, 0>>
<1>1. /\ UNCHANGED <<knotes, batch, run_pc, ev, lost>>
      /\ queue' = Append(queue, h) /\ DOMAIN handing' = DOMAIN handing \ {u}
  BY DEF Submit, flagVars, kernelVars, runVars, shutVars, histVars
<1>2. h \in Frames /\ (f # h => f[1] # u \/ f[2] # 0)
  BY SMT, FrameFacts, SchedulerAssumption
<1> HIDE DEF h
<1>3. Elems(queue') = Elems(queue) \cup {h}
  BY SMT, <1>1, <1>2, OneAdded DEF SchedulerInv, TypeOK
<1>4. CASE f = h
  BY <1>3, <1>4 DEF Reached, Queued
<1>5. CASE f # h
  <2>1. Handed(f) => Handed(f)'
    BY <1>1, <1>2, <1>5 DEF Handed
  <2>2. Queued(f) => Queued(f)'
    BY <1>3 DEF Queued
  <2> QED BY <1>1, <2>1, <2>2, StaysReached
<1> QED BY <1>4, <1>5

\* The frame a worker takes is not of a task that stays suspended.
LEMMA StartReaches ==
    ASSUME SchedulerInv, Start, NEW t \in Tasks, at[t] = "suspended", at'[t] = "suspended",
           NEW f, f = Current(t), Reached(f)
    PROVE  Reached(f)'
<1>1. /\ UNCHANGED <<knotes, batch, run_pc, ev, handing, lost>>
      /\ queue \in Seq(Frames) /\ queue # <<>> /\ queue' = Tail(queue)
      /\ Head(queue) = Current(Head(queue)[1]) /\ at[Head(queue)[1]] = "suspended"
           => at' = [at EXCEPT ![Head(queue)[1]] = IF Head(queue)[2] = 0 THEN "running" ELSE "returned"]
  BY DEF Start, flagVars, kernelVars, runVars, listVars, shutVars, SchedulerInv, TypeOK
<1>2. Elems(queue) = Elems(queue') \cup {Head(queue)}
  BY <1>1, FrontRemoved
<1>3. f # Head(queue)
  <2> SUFFICES ASSUME f = Head(queue) PROVE FALSE
    OBVIOUS
  <2>1. f[1] = t
    BY SMT DEF Current
  <2>2. at' = [at EXCEPT ![t] = IF f[2] = 0 THEN "running" ELSE "returned"]
    BY <1>1, <2>1
  <2> QED BY <2>2 DEF SchedulerInv, TypeOK
<1>4. Queued(f) => Queued(f)'
  BY <1>2, <1>3 DEF Queued
<1>5. Handed(f) => Handed(f)'
  BY <1>1 DEF Handed
<1> QED BY <1>1, <1>4, <1>5, StaysReached

\* The registrations of a task replace none of another, when no two share a direction.
LEMMA AwaitReaches ==
    ASSUME SchedulerInv, Unshared, NEW u \in Tasks, NEW o \in Ops[u], Await(u, o),
           NEW t \in Tasks \ {u}, NEW f \in Frames, f[1] = t, Reached(f)
    PROVE  Reached(f)'
<1> DEFINE g == <<u, op[u] + 1>>
           evs == NewEvents(g, o)
<1>1. PICK n \in 0..Len(evs) :
         LET added == {evs[i] : i \in 1..n}
         IN knotes' = [k \in DOMAIN knotes \cup added |-> IF k \in added THEN g ELSE knotes[k]]
  BY DEF Await
<1> DEFINE added == {evs[i] : i \in 1..n}
<1>2. UNCHANGED <<batch, run_pc, ev, queue, handing>> /\ lost \subseteq lost'
  BY DEF Await, flagVars, runVars, listVars
<1>3. \A k \in DOMAIN knotes \ added : k \in DOMAIN knotes' /\ knotes'[k] = knotes[k]
  BY <1>1
<1>4. \A k \in added : \/ k.filter = "timer" /\ k.ident = g
                       \/ k.filter \in {"read", "write"} \cap o.filters /\ k.ident = o.fd
  <2>1. /\ Len(evs) \in Nat \ {0}
        /\ \A i \in 1..Len(evs) :
             \/ evs[i].filter = "timer" /\ evs[i].ident = g
             \/ evs[i].filter \in {"read", "write"} \cap o.filters /\ evs[i].ident = o.fd
    BY SMT, NewEventsAre
  <2>0. n \in 0..Len(evs)
    OBVIOUS
  <2> HIDE DEF evs, g
  <2>2. \A i \in 1..n : i \in 1..Len(evs)
    BY SMT, <2>0, <2>1
  <2> QED BY <2>1, <2>2
<1>5. g[1] = u
  OBVIOUS
<1> HIDE DEF g, evs, added
<1>6. ASSUME NEW k \in DOMAIN knotes, knotes[k] = f PROVE k \notin added
  <2>1. IF k.filter = "timer" THEN k.ident = f
        ELSE \E p \in Ops[t] : k.ident = p.fd /\ k.filter \in p.filters
    BY <1>6 DEF SchedulerInv, NotesOwned
  <2>2. \A p \in Ops[t] : o.fd # p.fd \/ o.filters \cap p.filters = {}
    BY DEF Unshared
  <2> QED BY <2>1, <2>2, <1>4, <1>5
<1>7. (Queued(f) => Queued(f)') /\ (Handed(f) => Handed(f)')
  BY <1>2 DEF Queued, Handed
<1>8. \A k \in DOMAIN knotes : knotes[k] = f => k \in DOMAIN knotes' /\ knotes'[k] = f
  BY <1>3, <1>6
<1> QED BY <1>2, <1>7, <1>8, StaysReached

\* A registration that kevent() deletes is in the batch.
LEMMA KeventReaches ==
    ASSUME SchedulerInv, NEW r \in Runners, Kevent(r), NEW f, Reached(f)
    PROVE  Reached(f)'
<1>1. PICK evs \in SUBSET Available :
         /\ batch' = [batch EXCEPT ![r] =
              {[filter |-> k.filter, udata |-> IF k = UserEvent THEN None ELSE knotes[k]] : k \in evs}]
         /\ knotes' = [k \in DOMAIN knotes \ Oneshot(evs) |-> knotes[k]]
  BY DEF Kevent
<1>2. /\ UNCHANGED <<ev, queue, handing, lost>>
      /\ run_pc[r] = "kevent" /\ run_pc' = [run_pc EXCEPT ![r] = "batch"]
  BY DEF Kevent, Goto, flagVars, poolVars, listVars, shutVars, histVars
<1>3. \A s \in Runners : run_pc[s] = "resume" => run_pc'[s] = "resume"
  BY <1>2 DEF SchedulerInv, TypeOK
<1>4. /\ batch'[r] = {[filter |-> k.filter, udata |-> IF k = UserEvent THEN None ELSE knotes[k]] : k \in evs}
      /\ \A s \in Runners : batch[s] \subseteq batch'[s]
  BY <1>1, <1>2 DEF SchedulerInv, TypeOK, BatchesFinished
<1>5. CASE \E k \in evs \cap DOMAIN knotes : knotes[k] = f
  <2>1. PICK k \in evs \cap DOMAIN knotes : knotes[k] = f
    BY <1>5
  <2>2. k # UserEvent /\ k.filter # "user"
    <3>1. k.filter \in {"read", "write", "timer"}
      BY <2>1 DEF SchedulerInv, TypeOK
    <3> QED BY SMT, <3>1 DEF UserEvent
  <2>3. [filter |-> k.filter, udata |-> f] \in batch'[r]
    BY <2>1, <2>2, <1>4
  <2> QED BY <2>2, <2>3 DEF Reached, Batched
<1>6. CASE \A k \in evs \cap DOMAIN knotes : knotes[k] # f
  <2>1. \A k \in DOMAIN knotes : knotes[k] = f => k \in DOMAIN knotes' /\ knotes'[k] = f
    BY <1>1, <1>6 DEF Oneshot
  <2>2. (Queued(f) => Queued(f)') /\ (Handed(f) => Handed(f)')
    BY <1>2 DEF Queued, Handed
  <2> QED BY <1>2, <1>3, <1>4, <2>1, <2>2, StaysReached
<1> QED BY <1>5, <1>6

\* An event of a task that waits is yielded, not skipped.
LEMMA TranslateReaches ==
    ASSUME SchedulerInv, NEW r \in Runners, Translate(r), NEW t \in Tasks, at[t] = "suspended",
           NEW f, f = Current(t), Reached(f)
    PROVE  Reached(f)'
<1>1. PICK e \in batch[r] :
        LET u == e.udata[1]
            mine == e.udata = Current(u)
        IN /\ e.filter # "user"
           /\ batch' = [batch EXCEPT ![r] = @ \ {e}]
           /\ \/ /\ ev' = [ev EXCEPT ![r] = e.udata]
                 /\ Goto(r, "resume")
              \/ /\ ~(mine /\ at[u] = "suspended")
                 /\ UNCHANGED <<run_pc, ev>>
  BY DEF Translate
<1>2. UNCHANGED <<knotes, queue, handing, lost>> /\ run_pc[r] = "batch"
  BY DEF Translate, flagVars, kernelVars, poolVars, listVars, shutVars
<1>3. \A s \in Runners : run_pc[s] = "resume" => run_pc'[s] = "resume" /\ ev'[s] = ev[s]
  BY <1>1, <1>2 DEF Goto, SchedulerInv, TypeOK
<1>4. f[1] = t
  BY DEF Current
<1>5. CASE e.udata = f
  <2>1. ev'[r] = f /\ run_pc'[r] = "resume"
    BY <1>1, <1>4, <1>5 DEF Goto, SchedulerInv, TypeOK
  <2> QED BY <2>1 DEF Reached, Taken
<1>6. CASE e.udata # f
  <2>1. \A s \in Runners : \A d \in batch[s] : d.filter # "user" /\ d.udata = f => d \in batch'[s]
    BY <1>1, <1>6 DEF SchedulerInv, TypeOK
  <2>2. (Queued(f) => Queued(f)') /\ (Handed(f) => Handed(f)')
    BY <1>2 DEF Queued, Handed
  <2> QED BY <1>2, <1>3, <2>1, <2>2, StaysReached
<1> QED BY <1>5, <1>6

\* What was yielded is queued.
LEMMA ResumeReaches ==
    ASSUME SchedulerInv, NEW r \in Runners, Resume(r), NEW f, Reached(f)
    PROVE  Reached(f)'
<1>1. /\ UNCHANGED <<knotes, batch, handing, lost>>
      /\ run_pc[r] = "resume" /\ queue' = Append(queue, ev[r]) /\ ev[r] \in Frames
      /\ \A s \in Runners \ {r} : run_pc'[s] = run_pc[s] /\ ev'[s] = ev[s]
  BY DEF Resume, Goto, flagVars, kernelVars, taskVars, listVars, shutVars, histVars, SchedulerInv, TypeOK
<1>2. Elems(queue') = Elems(queue) \cup {ev[r]}
  BY SMT, <1>1, OneAdded DEF SchedulerInv, TypeOK
<1>3. Taken(f) => Taken(f)' \/ Queued(f)'
  BY <1>1, <1>2 DEF Taken, Queued
<1>4. /\ Noted(f) => Noted(f)'
      /\ Batched(f) => Batched(f)'
      /\ Handed(f) => Handed(f)'
      /\ Queued(f) => Queued(f)'
  BY <1>1, <1>2 DEF Noted, Batched, Handed, Queued
<1> QED BY <1>1, <1>3, <1>4 DEF Reached

\* The steps that leave t's frame where it is.
LEMMA OthersReach ==
    ASSUME SchedulerInv, NEW f, Reached(f),
           \/ \E u \in Tasks : \E by : Emplace(u, by)
           \/ \E t \in Tasks : Lock(t) \/ Drop(t) \/ Finish(t) \/ Visit(t)
           \/ \E k : Fire(k)
           \/ \E r \in Runners : Run(r) \/ RunCheck(r) \/ Dispatch(r) \/ KeventFails(r) \/ EndDispatch(r)
           \/ Shutdown \/ ShutdownLoad \/ Trigger \/ TriggerFails \/ Wait \/ ShutdownEnds
    PROVE  Reached(f)'
<1>1. /\ UNCHANGED <<knotes, batch, ev, queue, lost>>
      /\ DOMAIN handing \subseteq DOMAIN handing'
      /\ \A s \in Runners : run_pc[s] = "resume" => run_pc'[s] = "resume"
  <2> USE DEF flagVars, kernelVars, runVars, poolVars, taskVars, listVars, shutVars, histVars
  <2>0. run_pc \in [Runners -> RunStates]
    BY DEF SchedulerInv, TypeOK
  <2>1. CASE \E u \in Tasks : \E by : Emplace(u, by)
    BY <2>1 DEF Emplace
  <2>2. CASE \E t \in Tasks : Lock(t) \/ Drop(t) \/ Finish(t) \/ Visit(t)
    BY <2>2 DEF Lock, Drop, Finish, Visit, Leave
  <2>3. CASE \E k : Fire(k)
    BY <2>3 DEF Fire
  <2>4. CASE \E r \in Runners : Run(r) \/ RunCheck(r) \/ Dispatch(r) \/ KeventFails(r) \/ EndDispatch(r)
    BY <2>0, <2>4 DEF Run, RunCheck, Dispatch, KeventFails, EndDispatch, Goto
  <2>5. CASE Shutdown \/ ShutdownLoad \/ Trigger \/ TriggerFails \/ Wait \/ ShutdownEnds
    BY <2>5 DEF Shutdown, ShutdownLoad, Trigger, TriggerFails, Wait, ShutdownEnds
  <2> QED BY <2>1, <2>2, <2>3, <2>4, <2>5
<1>2. (Queued(f) => Queued(f)') /\ (Handed(f) => Handed(f)')
  BY <1>1 DEF Queued, Handed
<1> QED BY <1>1, <1>2, StaysReached

\* The user event stands for no frame.
LEMMA TakeUserEventReaches ==
    ASSUME SchedulerInv, NEW r \in Runners, TakeUserEvent(r), NEW f, Reached(f)
    PROVE  Reached(f)'
<1>1. /\ UNCHANGED <<knotes, run_pc, ev, queue, handing, lost>>
      /\ \E e \in batch[r] : e.filter = "user" /\ batch' = [batch EXCEPT ![r] = @ \ {e}]
  BY DEF TakeUserEvent, flagVars, kernelVars, poolVars, taskVars, listVars, shutVars, histVars
<1>2. \A s \in Runners : \A d \in batch[s] : d.filter # "user" => d \in batch'[s]
  BY SMT, <1>1 DEF SchedulerInv, TypeOK
<1>3. (Queued(f) => Queued(f)') /\ (Handed(f) => Handed(f)')
  BY <1>1 DEF Queued, Handed
<1> QED BY <1>1, <1>2, <1>3, StaysReached

\* A task that suspends, or is born, is reached; after that, it stays so.
LEMMA Suspends ==
    ASSUME SchedulerInv, Unshared, Next, NEW t \in Tasks, at'[t] = "suspended",
           at[t] # "suspended" \/ op'[t] # op[t]
    PROVE  \/ \E by : Emplace(t, by)
           \/ \E o \in Ops[t] : Await(t, o)
<1> USE DEF flagVars, kernelVars, runVars, poolVars, taskVars, listVars, shutVars, histVars
<1>0. at \in [Tasks -> States] /\ op \in [Tasks -> Nat]
  BY DEF SchedulerInv, TypeOK
<1>1. CASE \E u \in Tasks : \E by : Emplace(u, by)
  <2>1. PICK u \in Tasks : \E by : Emplace(u, by)
    BY <1>1
  <2>2. u # t => at'[t] = at[t] /\ op'[t] = op[t]
    BY <1>0, <2>1 DEF Emplace
  <2> QED BY <2>1, <2>2
<1>2. CASE \E u \in Tasks : \E o \in Ops[u] : Await(u, o)
  <2>1. PICK u \in Tasks : \E o \in Ops[u] : Await(u, o)
    BY <1>2
  <2>2. u # t => at'[t] = at[t] /\ op'[t] = op[t]
    BY <1>0, <2>1 DEF Await
  <2> QED BY <2>1, <2>2
<1>3. CASE \E u \in Tasks : Submit(u)
  BY <1>0, <1>3 DEF Submit
<1>4. CASE \E u \in Tasks : Lock(u) \/ Drop(u) \/ Finish(u) \/ Visit(u)
  BY ZenonT(40), <1>0, <1>4 DEF Lock, Drop, Finish, Visit
<1>5. CASE Start
  BY <1>0, <1>5 DEF Start
<1>6. CASE \/ \E k : Fire(k)
           \/ Shutdown \/ ShutdownLoad \/ Trigger \/ TriggerFails \/ Wait \/ ShutdownEnds
  BY <1>6 DEF Fire, Shutdown, ShutdownLoad, Trigger, TriggerFails, Wait, ShutdownEnds
<1>7. CASE \E r \in Runners : \/ Run(r) \/ RunCheck(r) \/ Dispatch(r) \/ KeventFails(r) \/ EndDispatch(r)
                              \/ TakeUserEvent(r) \/ Translate(r) \/ Resume(r) \/ Kevent(r)
  BY <1>7 DEF Run, RunCheck, Dispatch, KeventFails, EndDispatch, TakeUserEvent, Translate, Resume, Kevent
<1> QED BY <1>1, <1>2, <1>3, <1>4, <1>5, <1>6, <1>7
        DEF Next, TaskStep, DispatchStep, ShutdownStep, ScheduleRoot, ScheduleFrom

\* A task that has begun to wait is registered, or its registration has failed.
LEMMA AwaitRegisters ==
    ASSUME SchedulerInv, NEW t \in Tasks, NEW o \in Ops[t], Await(t, o), NEW f, f = <<t, op[t] + 1>>
    PROVE  Reached(f)'
<1> DEFINE g == <<t, op[t] + 1>>
           evs == NewEvents(g, o)
<1>1. PICK n \in 0..Len(evs) :
         /\ LET added == {evs[i] : i \in 1..n}
            IN knotes' = [k \in DOMAIN knotes \cup added |-> IF k \in added THEN g ELSE knotes[k]]
         /\ lost' = IF n < Len(evs) THEN lost \cup {g} ELSE lost
  BY DEF Await
<1>2. Len(evs) \in Nat \ {0}
  BY NewEventsAre
<1>0. n \in 0..Len(evs) /\ g = f
  OBVIOUS
<1> HIDE DEF evs, g
<1>3. CASE n < Len(evs)
  BY <1>0, <1>1, <1>3 DEF Reached
<1>4. CASE ~(n < Len(evs))
  <2>1. 1 \in 1..n
    BY SMT, <1>0, <1>2, <1>4
  <2>2. evs[1] \in DOMAIN knotes' /\ knotes'[evs[1]] = f
    BY <1>0, <1>1, <2>1
  <2> QED BY <2>2 DEF Reached, Noted
<1> QED BY <1>3, <1>4

\* Every step keeps a suspended task reachable.
LEMMA WaitersNext ==
    ASSUME SchedulerInv, Unshared, WaitersReached, [Next]_vars
    PROVE  WaitersReached'
<1> SUFFICES ASSUME NEW t \in Tasks, at'[t] = "suspended", NEW f, f = <<t, op'[t]>>
             PROVE  Reached(f)'
  BY DEF WaitersReached, Current, Reached, Noted, Batched, Taken, Handed, Queued
<1>0. op \in [Tasks -> Nat] /\ at \in [Tasks -> States]
  BY DEF SchedulerInv, TypeOK
<1>1. CASE Next /\ (at[t] # "suspended" \/ op'[t] # op[t])
  <2>1. CASE \E by : Emplace(t, by)
    <3>1. op'[t] = op[t] /\ t \in DOMAIN handing' /\ at[t] = "unborn"
      BY <2>1 DEF Emplace
    <3>2. f = <<t, 0>>
      BY <3>1 DEF SchedulerInv, UnbornNowhere
    <3> QED BY SMT, <3>1, <3>2 DEF Reached, Handed
  <2>2. CASE \E o \in Ops[t] : Await(t, o)
    <3>1. op'[t] = op[t] + 1
      BY <1>0, <2>2 DEF Await
    <3> QED BY <2>2, <3>1, AwaitRegisters
  <2> QED BY <1>1, <2>1, <2>2, Suspends
<1>2. CASE Next /\ at[t] = "suspended" /\ op'[t] = op[t]
  <2>1. Reached(f) /\ f = Current(t) /\ f[1] = t
    BY <1>2 DEF WaitersReached, Current
  <2>2. f \in Frames
    BY <1>0, <1>2, FrameFacts DEF SchedulerInv, TypeOK
  <2>3. CASE \/ \E u \in Tasks : \E by : Emplace(u, by)
             \/ \E u \in Tasks : Lock(u) \/ Drop(u) \/ Finish(u) \/ Visit(u)
             \/ \E k : Fire(k)
             \/ \E r \in Runners : Run(r) \/ RunCheck(r) \/ Dispatch(r) \/ KeventFails(r) \/ EndDispatch(r)
             \/ Shutdown \/ ShutdownLoad \/ Trigger \/ TriggerFails \/ Wait \/ ShutdownEnds
    BY <2>1, <2>3, OthersReach
  <2>4. CASE \E u \in Tasks : Submit(u)
    BY <2>1, <2>2, <2>4, SubmitReaches
  <2>5. CASE \E u \in Tasks : \E o \in Ops[u] : Await(u, o)
    <3>1. PICK u \in Tasks : \E o \in Ops[u] : Await(u, o)
      BY <2>5
    <3>2. u # t
      BY <1>2, <3>1 DEF Await
    <3> QED BY <2>1, <2>2, <3>1, <3>2, AwaitReaches
  <2>6. CASE Start
    BY <1>2, <2>1, <2>6, StartReaches
  <2>7. CASE \E r \in Runners : TakeUserEvent(r)
    BY <2>1, <2>7, TakeUserEventReaches
  <2>8. CASE \E r \in Runners : Translate(r)
    BY SMT, <1>2, <2>1, <2>8, TranslateReaches
  <2>9. CASE \E r \in Runners : Resume(r)
    BY <2>1, <2>9, ResumeReaches
  <2>10. CASE \E r \in Runners : Kevent(r)
    BY <2>1, <2>10, KeventReaches
  <2> QED BY <1>2, <2>3, <2>4, <2>5, <2>6, <2>7, <2>8, <2>9, <2>10
          DEF Next, TaskStep, DispatchStep, ShutdownStep, ScheduleRoot, ScheduleFrom
<1>3. CASE UNCHANGED vars
  <2>1. UNCHANGED <<knotes, batch, run_pc, ev, queue, handing, op, at, lost>>
    BY <1>3 DEF vars, kernelVars, runVars, poolVars, taskVars, listVars, histVars
  <2>2. Reached(f)
    BY <2>1 DEF WaitersReached, Current
  <2> QED BY <2>1, <2>2 DEF Reached, Noted, Batched, Taken, Handed, Queued
<1> QED BY <1>1, <1>2, <1>3

\* A suspended task is registered, on its way through dispatch() or in the pool,
\* unless its registration failed, when no two tasks wait for the same direction
\* of a descriptor.
THEOREM WaitersNotForgotten == Unshared /\ Spec => []WaiterReachable
<1> SUFFICES ASSUME Unshared PROVE Spec => []WaiterReachable
  OBVIOUS
<1>1. Init => WaitersReached
  BY DEF Init, WaitersReached
<1>2. SchedulerInv /\ WaitersReached /\ [Next]_vars => WaitersReached'
  BY WaitersNext
<1>3. WaitersReached => WaiterReachable
  BY DEF WaitersReached, WaiterReachable, Reached, Noted, Batched, Taken, Handed, Queued, Current
<1> QED BY SchedulerInit, SchedulerNext, <1>1, <1>2, <1>3, PTL DEF Spec

-----------------------------------------------------------------------------
(* The scheduler keeps the contract of the pool's executor.                *)

\* Every task registers one filter per operation, as the library's own do.
AllSingle == \A t \in Tasks : Single(t)

Pool == INSTANCE Executor WITH Handles <- Frames

INSTANCE FiniteSetTheorems

\* The frames of the tasks are finitely many.
LEMMA FramesFinite == IsFiniteSet(Frames)
<1> DEFINE of(t) == {t} \X (0..MaxOps[t])
           S == {of(t) : t \in Tasks}
           g == [t \in Tasks |-> of(t)]
<1>1. g \in Surjection(Tasks, S)
  BY DEF Surjection
<1>2. IsFiniteSet(S)
  <2> HIDE DEF g, S
  <2> QED BY SMT, <1>1, SchedulerAssumption, FS_Surjection
<1>3. ASSUME NEW t \in Tasks PROVE IsFiniteSet(of(t))
  <2>0. 0 \in Int /\ MaxOps[t] \in Int
    BY SMT, SchedulerAssumption
  <2>1. IsFiniteSet({t})
    BY FS_Singleton
  <2>2. IsFiniteSet(0..MaxOps[t])
    BY <2>0, FS_Interval
  <2> QED BY <2>1, <2>2, FS_Product
<1>4. \A T \in S : IsFiniteSet(T)
  BY <1>3
<1>5. IsFiniteSet(UNION S)
  <2> HIDE DEF S
  <2> QED BY SMT, <1>2, <1>4, FS_UNION
<1> QED BY <1>5 DEF Frames

\* Every step is one of the executor, or leaves its variables alone.
LEMMA PoolStep ==
    ASSUME SchedulerInv, AllSingle, [Next]_vars
    PROVE  [Pool!Next]_(Pool!vars)
<1> USE DEF flagVars, kernelVars, runVars, poolVars, taskVars, listVars, shutVars, histVars
<1>0. /\ queue \in Seq(Frames) /\ Pool!Queued = Elems(queue)
      /\ \A S : Pool!Cardinality(S) = Cardinality(S)
      /\ \A q : Pool!Distinct(q) <=> Distinct(q)
  BY DEF SchedulerInv, TypeOK, Pool!Queued, Pool!Elems, Elems, Pool!Cardinality, Cardinality,
         Pool!Distinct, Distinct
<1>1. \A f \in Frames : OnceAt(f)
  BY FrameFacts DEF SchedulerInv, Once, SingleFrames, AllSingle
<1>2. ASSUME NEW f \in Frames, Handed(f) \/ Taken(f), queue' = Append(queue, f), active' = active
      PROVE  Pool!Accept
  <2>1. f \notin Elems(queue) \cup active
    BY <1>1, <1>2 DEF OnceAt, Queued, Executing
  <2> DEFINE b == <<f>>
  <2>2. b \in [1..1 -> Frames \ (Pool!Queued \cup active)] /\ Distinct(b) /\ queue' = queue \o b
    BY SMT, <1>0, <1>2, <2>1 DEF Distinct
  <2>3. 1 \in 1..Cardinality(Frames)
    BY SMT, <1>2, FramesFinite, FS_EmptySet, FS_CardinalityType
  <2> HIDE DEF b
  <2> QED BY ZenonT(40), <1>0, <1>2, <2>2, <2>3 DEF Pool!Accept
<1>3. CASE UNCHANGED <<queue, active>>
  BY <1>3 DEF Pool!vars
<1>4. CASE \E u \in Tasks : Submit(u)
  <2>1. PICK u \in Tasks : Submit(u)
    BY <1>4
  <2>2. <<u, 0>> \in Frames /\ Handed(<<u, 0>>)
    BY SMT, <2>1, FrameFacts, SchedulerAssumption DEF Handed, Submit
  <2>3. queue' = Append(queue, <<u, 0>>) /\ active' = active
    BY <2>1 DEF Submit
  <2> QED BY <1>2, <2>2, <2>3 DEF Pool!Next
<1>5. CASE \E r \in Runners : Resume(r)
  <2>1. PICK r \in Runners : Resume(r)
    BY <1>5
  <2>2. ev[r] \in Frames /\ Taken(ev[r])
    BY <2>1 DEF Taken, Resume, SchedulerInv, TypeOK
  <2>3. queue' = Append(queue, ev[r]) /\ active' = active
    BY <2>1 DEF Resume
  <2> QED BY SMT, <1>2, <2>2, <2>3 DEF Pool!Next
<1>6. CASE Start
  <2>1. /\ queue # <<>> /\ Cardinality(active) < Concurrency
        /\ queue' = Tail(queue) /\ active' = active \cup {Head(queue)}
    BY <1>6 DEF Start
  <2>2. Head(queue) \in Frames /\ Head(queue) \in Elems(queue)
    BY SMT, <1>0, <2>1, FrontRemoved
  <2>3. Head(queue) \notin active
    BY <1>1, <2>2 DEF OnceAt, Queued, Executing
  <2> QED BY SMT, <1>0, <2>1, <2>3 DEF Pool!Start, Pool!Next
<1>7. CASE \E t \in Tasks : Leave(t) /\ queue' = queue
  <2>1. PICK t \in Tasks : Leave(t) /\ queue' = queue
    BY SMT, <1>7
  <2>2. CASE Current(t) \in active /\ resuming # t
    BY SMT, <2>1, <2>2 DEF Leave, Pool!Stop, Pool!Next
  <2>3. CASE Current(t) \notin active \/ resuming = t
    <3>1. active' = active
      BY SMT, <2>1, <2>3 DEF Leave
    <3> QED BY SMT, <1>3, <2>1, <3>1
  <2> QED BY SMT, <2>2, <2>3
<1>8. CASE \E t \in Tasks : Finish(t) \/ \E o \in Ops[t] : Await(t, o)
  BY SMT, <1>7, <1>8 DEF Finish, Await
<1>9. CASE \/ \E t \in Tasks : Lock(t) \/ Drop(t) \/ Visit(t) \/ \E by : Emplace(t, by)
           \/ \E k : Fire(k)
           \/ Shutdown \/ ShutdownLoad \/ Trigger \/ TriggerFails \/ Wait \/ ShutdownEnds
  BY ZenonT(40), <1>3, <1>9 DEF Lock, Drop, Visit, Emplace, Fire, Shutdown, ShutdownLoad, Trigger, TriggerFails,
                    Wait, ShutdownEnds
<1>10. CASE \E r \in Runners : \/ Run(r) \/ RunCheck(r) \/ Dispatch(r) \/ KeventFails(r) \/ EndDispatch(r)
                               \/ TakeUserEvent(r) \/ Translate(r) \/ Kevent(r)
  BY ZenonT(40), <1>3, <1>10 DEF Run, RunCheck, Dispatch, KeventFails, EndDispatch, TakeUserEvent, Translate, Kevent
<1>11. CASE UNCHANGED vars
  BY SMT, <1>3, <1>11 DEF vars
<1> QED BY ZenonT(40), <1>4, <1>5, <1>6, <1>8, <1>9, <1>10, <1>11
        DEF Next, TaskStep, DispatchStep, ShutdownStep, ScheduleRoot, ScheduleFrom

\* With one filter per operation, what schedule() and run() hand to the pool is a
\* behaviour of the executor that ThreadPool implements: a frame is never handed
\* over while it is queued or executing, shutdown() included.
THEOREM KeepsExecutorContract == AllSingle /\ Spec => Pool!Spec
<1> SUFFICES ASSUME AllSingle PROVE Spec => Pool!Spec
  OBVIOUS
<1>1. Init => Pool!Init
  BY DEF Init, Pool!Init
<1>2. SchedulerInv /\ [Next]_vars => [Pool!Next]_(Pool!vars)
  BY PoolStep
<1> QED BY SchedulerInit, SchedulerNext, <1>1, <1>2, PTL DEF Spec, Pool!Spec

=============================================================================
