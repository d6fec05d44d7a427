------------------------------ MODULE TaskGroup ------------------------------
(***************************************************************************)
(* coro::task_group: user tasks run on an executor, each inside a cleanup  *)
(* task whose frame the group keeps in a slot until it is collected.       *)
(***************************************************************************)
EXTENDS Integers, FiniteSets, SequencesExt

CONSTANTS
    UserTasks,      \* tasks given to start()
    reserve_size

ASSUME TaskGroupAssumption == reserve_size \in Nat \ {0}

VARIABLES
    num_live_tasks,
    tasks_indices,      \* the list of slots
    free_pos,           \* the slot free_pos is at, or EndOfList
    tasks_to_delete,    \* slots
    slot,               \* user task -> its slot, or NoSlot
    frame,              \* user task -> what its cleanup task is doing
    holder,             \* who holds the mutex across steps: a user task, or "nobody"
    group,              \* "alive", "destroyed", or "crashed" in start()
    early,              \* history: frames destroyed, or a mutex used, too early
    peak                \* history: the most slots in use at once

groupVars == <<num_live_tasks, tasks_indices, free_pos, tasks_to_delete, slot, frame, holder, group, early, peak>>

EndOfList == 0
NoSlot == 0
Slots == 1..reserve_size

\* The reserved slots; tasks itself is empty (only reserve() is called).
TaskGroupInit ==
    /\ num_live_tasks = 0
    /\ tasks_indices = [i \in Slots |-> i]
    /\ free_pos = 1
    /\ tasks_to_delete = <<>>
    /\ slot = [t \in UserTasks |-> NoSlot]
    /\ frame = [t \in UserTasks |-> "new"]
    /\ holder = "nobody" /\ group = "alive" /\ early = {} /\ peak = 0

InSlot(p) == {t \in UserTasks : slot[t] = p}
After(list, p) == IF Last(list) = p THEN EndOfList ELSE list[SelectInSeq(list, LAMBDA q : q = p) + 1]

\* Every slot to delete goes to the end of the list, and its frame is destroyed,
\* whether or not the coroutine has come to its end.
Spliced == SelectSeq(tasks_indices, LAMBDA p : ~Contains(tasks_to_delete, p)) \o tasks_to_delete
Collected == UNION {InSlot(tasks_to_delete[i]) : i \in DOMAIN tasks_to_delete}

\* Mutant of collect_garbage_internal: the slots stay where they are in the list.
collect_garbage_in_place ==
    /\ tasks_indices' = tasks_indices
    /\ tasks_to_delete' = <<>>
    /\ early' = early \cup {t \in Collected : frame[t] # "done"}

collect_garbage_internal ==
    /\ tasks_indices' = Spliced
    /\ tasks_to_delete' = <<>>
    /\ early' = early \cup {t \in Collected : frame[t] # "done"}

\* start(): at the end of the list grow() adds nothing, as tasks has no elements to
\* multiply, and *free_pos is read at the end.  The slots are memory that was never
\* initialised: what stands there is taken for a task, and destroyed.
StartTask(t) ==
    /\ frame[t] = "new" /\ holder = "nobody" /\ group = "alive"
    /\ num_live_tasks' = num_live_tasks + 1
    /\ collect_garbage_internal
    /\ \/ /\ free_pos = EndOfList
          /\ group' = "crashed"
          /\ frame' = [u \in UserTasks |-> IF u \in Collected THEN "destroyed" ELSE frame[u]]
          /\ slot' = [u \in UserTasks |-> IF u \in Collected THEN NoSlot ELSE slot[u]]
          /\ UNCHANGED <<free_pos, peak>>
       \/ /\ free_pos # EndOfList
          /\ group' \in {"alive", "crashed"}
          /\ free_pos' = After(tasks_indices', free_pos)
          /\ frame' = [u \in UserTasks |-> IF u = t THEN "queued" ELSE IF u \in Collected THEN "destroyed" ELSE frame[u]]
          /\ slot' = [u \in UserTasks |-> IF u = t THEN free_pos ELSE IF u \in Collected THEN NoSlot ELSE slot[u]]
          /\ peak' = Max({peak, Cardinality({u \in UserTasks : slot'[u] # NoSlot})})
    /\ UNCHANGED holder

\* collect_garbage(), by any thread, as in collect_garbage_until_empty() and in
\* the destructor.
Collect ==
    /\ holder = "nobody" /\ group = "alive" /\ tasks_to_delete # <<>>
    /\ collect_garbage_internal
    /\ frame' = [u \in UserTasks |-> IF u \in Collected THEN "destroyed" ELSE frame[u]]
    /\ slot' = [u \in UserTasks |-> IF u \in Collected THEN NoSlot ELSE slot[u]]
    /\ UNCHANGED <<num_live_tasks, free_pos, holder, group, peak>>

\* The executor runs the cleanup task: the user task ends, or throws, which ends
\* the cleanup task without a trace in the group.
RunTask(t) ==
    /\ frame[t] = "queued" /\ group # "crashed"
    /\ \E outcome \in {"returned", "thrown"} : frame' = [frame EXCEPT ![t] = outcome]
    /\ UNCHANGED <<num_live_tasks, tasks_indices, free_pos, tasks_to_delete, slot, holder, group, early, peak>>

\* make_cleanup_task(): with the mutex, the slot is given up and the task counted
\* out.
CleanUp(t) ==
    /\ frame[t] = "returned" /\ holder = "nobody" /\ group # "crashed"
    /\ holder' = t
    /\ tasks_to_delete' = Append(tasks_to_delete, slot[t])
    /\ num_live_tasks' = num_live_tasks - 1
    /\ frame' = [frame EXCEPT ![t] = "counted"]
    /\ UNCHANGED <<tasks_indices, free_pos, slot, group, early, peak>>

\* The lock is released, and only then the coroutine reaches its final
\* suspension.
Unlock(t) ==
    /\ frame[t] = "counted" /\ group # "crashed"
    /\ holder' = "nobody"
    /\ frame' = [frame EXCEPT ![t] = "leaving"]
    /\ early' = IF group = "destroyed" THEN early \cup {t} ELSE early
    /\ UNCHANGED <<num_live_tasks, tasks_indices, free_pos, tasks_to_delete, slot, group, peak>>
FinalSuspend(t) ==
    /\ frame[t] = "leaving" /\ group # "crashed"
    /\ frame' = [frame EXCEPT ![t] = "done"]
    /\ UNCHANGED <<num_live_tasks, tasks_indices, free_pos, tasks_to_delete, slot, holder, group, early, peak>>

\* The destructor's loop sees that no task is counted.
DestroyGroup ==
    /\ group = "alive" /\ num_live_tasks = 0
    /\ group' = "destroyed"
    /\ UNCHANGED <<num_live_tasks, tasks_indices, free_pos, tasks_to_delete, slot, frame, holder, early, peak>>

TaskGroupNext ==
    \/ Collect \/ DestroyGroup
    \/ \E t \in UserTasks : StartTask(t) \/ RunTask(t) \/ CleanUp(t) \/ Unlock(t) \/ FinalSuspend(t)

-----------------------------------------------------------------------------

\* No two tasks share a slot, and the slots from free_pos on are free; the count
\* is of the tasks that have not given theirs up, those that threw included: they
\* are never collected (task_group.hpp:165).  start() only runs off the list when
\* all the reserved slots were in use at once.  The destructor does not leave a task
\* behind that has not cleaned up, and what is touched too early belongs to a task
\* that has given up its slot and is on its way out (task_group.hpp:170).
GroupKeepsTasks ==
    /\ \A p \in Slots : Cardinality(InSlot(p)) =< 1
    /\ free_pos # EndOfList =>
         LET at == CHOOSE i \in DOMAIN tasks_indices : tasks_indices[i] = free_pos
         IN \A i \in at..Len(tasks_indices) : InSlot(tasks_indices[i]) = {}
    /\ group # "crashed" => num_live_tasks = Cardinality({t \in UserTasks : frame[t] \in {"queued", "returned", "thrown"}})
    /\ free_pos = EndOfList => peak = reserve_size
    /\ group = "destroyed" => \A t \in UserTasks : frame[t] \notin {"queued", "returned", "thrown"}
    /\ \A t \in early : frame[t] \in {"leaving", "destroyed", "done"}

=============================================================================
