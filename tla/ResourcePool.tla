---------------------------- MODULE ResourcePool ----------------------------
(***************************************************************************)
(* util::resource_pool: at most max_size resources, made on demand, lent   *)
(* to threads and kept for reuse up to target_size.  get() blocks at the   *)
(* limit; a borrowed_resource gives its resource back when it is destroyed.*)
(*                                                                         *)
(* All state is protected by mu, so a step is one critical section; wait() *)
(* ends one and begins another.  A thread keeps what it borrows in one     *)
(* borrowed_resource variable.  use() is get(), then the destructor; a     *)
(* try_get() that finds the pool empty changes nothing.                    *)
(***************************************************************************)
EXTENDS Queues, FiniteSets

CONSTANTS
    Threads,      \* the users of the pool
    Overwriters,  \* those that assign a new resource over one they hold
    Resources,    \* resources that can exist
    target_size,
    max_size,
    MaxGets,      \* bound on the calls of get() and try_get() of one thread
    MaxLeaks,     \* bound on the resources lost
    None

ASSUME ResourceAssumption ==
    /\ IsFiniteSet(Threads) /\ IsFiniteSet(Resources)
    /\ Overwriters \subseteq Threads
    /\ target_size \in Nat /\ max_size \in Nat
    /\ MaxGets \in Nat /\ MaxLeaks \in Nat
    /\ None \notin Resources

VARIABLES
    pool,          \* std::vector<pointer_type> pool
    num_waiting,
    num_borrowed,
    wait,          \* the threads blocked in resource_available
    notified,      \* the threads woken and not yet back in get()
    held,          \* the borrowed_resource of each thread, or None
    leaked,        \* history: resources counted as borrowed that nobody holds
    gets           \* number of calls of each thread

vars == <<pool, num_waiting, num_borrowed, wait, notified, held, leaked, gets>>

Waiters == wait \cup notified

Holders == {t \in Threads : held[t] # None}

\* The resources that exist.
Live == Elems(pool) \cup {held[t] : t \in Holders}

Init ==
    /\ pool = <<>>
    /\ num_waiting = 0 /\ num_borrowed = 0
    /\ wait = {} /\ notified = {}
    /\ held = [t \in Threads |-> None]
    /\ leaked = 0
    /\ gets = [t \in Threads |-> 0]

\* A thread calls get() to fill its borrowed_resource.
Call(t) ==
    /\ t \notin Waiters
    /\ held[t] = None \/ t \in Overwriters
    /\ gets[t] < MaxGets
    /\ gets' = [gets EXCEPT ![t] = @ + 1]

\* The returned borrowed_resource reaches the thread's variable.  The default
\* move assignment destroys a resource it overwrites without put().
Receive(t, r) ==
    /\ held' = [held EXCEPT ![t] = r]
    /\ leaked' = IF held[t] = None THEN leaked ELSE leaked + 1
    /\ leaked' <= MaxLeaks

\* Mutant of Borrow: back() without pop_back().
BorrowKeepsPooled(t) ==
    /\ pool # <<>>
    /\ num_borrowed' = num_borrowed + 1
    /\ UNCHANGED pool
    /\ Receive(t, pool[Len(pool)])

\* ++num_borrowed; the last resource leaves the pool.
Borrow(t) ==
    /\ pool # <<>>
    /\ num_borrowed' = num_borrowed + 1
    /\ pool' = SubSeq(pool, 1, Len(pool) - 1)
    /\ Receive(t, pool[Len(pool)])

\* Mutant of GetMake: <= for <.
GetMakeOverMax(t) ==
    /\ Call(t)
    /\ pool = <<>> /\ num_borrowed <= max_size
    /\ num_borrowed' = num_borrowed + 1
    /\ \E r \in Resources \ Live : Receive(t, r)
    /\ UNCHANGED <<pool, num_waiting, wait, notified>>

\* get() makes a new resource ...
GetMake(t) ==
    /\ Call(t)
    /\ pool = <<>> /\ num_borrowed < max_size
    /\ num_borrowed' = num_borrowed + 1
    /\ \E r \in Resources \ Live : Receive(t, r)
    /\ UNCHANGED <<pool, num_waiting, wait, notified>>

\* ... but make() throws: num_borrowed stays incremented.
GetThrows(t) ==
    /\ Call(t)
    /\ pool = <<>> /\ num_borrowed < max_size
    /\ num_borrowed' = num_borrowed + 1
    /\ leaked < MaxLeaks /\ leaked' = leaked + 1
    /\ UNCHANGED <<pool, num_waiting, wait, notified, held>>

\* get() or try_get() finds a resource in the pool.
GetPooled(t) ==
    /\ Call(t)
    /\ Borrow(t)
    /\ UNCHANGED <<num_waiting, wait, notified>>

\* get() waits: hard limit.
GetWaits(t) ==
    /\ Call(t)
    /\ pool = <<>> /\ num_borrowed >= max_size
    /\ num_waiting' = num_waiting + 1
    /\ wait' = wait \cup {t}
    /\ UNCHANGED <<pool, num_borrowed, notified, held, leaked>>

\* Mutant of WakeTakes: no --num_waiting.
WakeTakesUncounted(t) ==
    /\ t \in notified
    /\ notified' = notified \ {t}
    /\ Borrow(t)
    /\ UNCHANGED <<num_waiting, wait, gets>>

\* A woken thread finds a resource ...
WakeTakes(t) ==
    /\ t \in notified
    /\ notified' = notified \ {t}
    /\ num_waiting' = num_waiting - 1
    /\ Borrow(t)
    /\ UNCHANGED <<wait, gets>>

\* ... or another thread was faster, and it waits again.
WakeWaits(t) ==
    /\ t \in notified /\ pool = <<>>
    /\ notified' = notified \ {t}
    /\ wait' = wait \cup {t}
    /\ UNCHANGED <<pool, num_waiting, num_borrowed, held, leaked, gets>>

SpuriousWake(t) ==
    /\ t \in wait
    /\ wait' = wait \ {t} /\ notified' = notified \cup {t}
    /\ UNCHANGED <<pool, num_waiting, num_borrowed, held, leaked, gets>>

NotifyOne ==
    \/ wait = {} /\ UNCHANGED <<wait, notified>>
    \/ \E t \in wait : wait' = wait \ {t} /\ notified' = notified \cup {t}

\* Mutant of Drops: active waits are not considered.
DropsAtTarget == Len(pool) >= target_size

\* put() drops the resource: over target size and no active waits ...
Drops == Len(pool) >= target_size /\ num_waiting = 0

\* Mutant of Put: no notify_one().
PutSilently(t) ==
    /\ t \notin Waiters /\ held[t] # None
    /\ held' = [held EXCEPT ![t] = None]
    /\ num_borrowed' = num_borrowed - 1
    /\ \/ Drops /\ UNCHANGED pool
       \/ ~Drops /\ pool' = Append(pool, held[t])
    /\ UNCHANGED <<num_waiting, wait, notified, leaked, gets>>

\* ... or keeps it.  ~borrowed_resource() calls it.
Put(t) ==
    /\ t \notin Waiters /\ held[t] # None
    /\ held' = [held EXCEPT ![t] = None]
    /\ num_borrowed' = num_borrowed - 1
    /\ \/ Drops /\ UNCHANGED <<pool, wait, notified>>
       \/ ~Drops /\ pool' = Append(pool, held[t]) /\ NotifyOne
    /\ UNCHANGED <<num_waiting, leaked, gets>>

Next ==
    \E t \in Threads :
        \/ GetMake(t) \/ GetThrows(t) \/ GetPooled(t) \/ GetWaits(t)
        \/ WakeTakes(t) \/ WakeWaits(t) \/ SpuriousWake(t) \/ Put(t)

Spec == Init /\ [][Next]_vars

\* Threads give back what they borrowed, and a woken thread gets mu once no
\* new call competes for it for ever.
Fairness ==
    \A t \in Threads : WF_vars(WakeTakes(t) \/ WakeWaits(t)) /\ WF_vars(Put(t))

FairSpec == Spec /\ Fairness

-----------------------------------------------------------------------------
(* Properties *)

\* Type invariant.
TypeOK ==
    /\ pool \in Seq(Resources)
    /\ num_waiting \in Nat /\ num_borrowed \in Nat
    /\ wait \subseteq Threads /\ notified \subseteq Threads
    /\ held \in [Threads -> Resources \cup {None}]
    /\ leaked \in Nat
    /\ gets \in [Threads -> Nat]

\* A resource is in the pool once, or held by one thread: get() never lends a
\* resource somebody else still uses.
OneOwner ==
    /\ Distinct(pool)
    /\ \A s, t \in Threads : held[s] # None /\ held[s] = held[t] => s = t
    /\ \A t \in Threads : held[t] \notin Elems(pool)

\* The counters are exact: num_borrowed covers what is held and what was lost,
\* num_waiting the threads inside wait().
Counters ==
    /\ num_borrowed = Cardinality(Holders) + leaked
    /\ num_waiting = Cardinality(Waiters)
    /\ wait \cap notified = {}

\* "hard limit": held, pooled and lost resources together never exceed
\* max_size, though get() compares only num_borrowed with it.
WithinMax == num_borrowed + Len(pool) <= max_size

\* put() never drops a resource a waiting thread could use: while a thread
\* waits the pool is at its limit.
NoIdleCapacity == num_waiting > 0 => num_borrowed + Len(pool) = max_size

\* No notification is lost: while a thread sleeps in get(), every pooled
\* resource has a woken thread on its way to it, or was put before it slept.
NoLostWakeup == wait # {} => Len(pool) <= Cardinality(notified)

PoolInv == TypeOK /\ OneOwner /\ Counters /\ WithinMax /\ NoIdleCapacity /\ NoLostWakeup

\* A get() that waits returns, unless every resource was lost (make() threw,
\* or a borrowed_resource was overwritten) or the holders wait themselves.
GetReturns ==
    \A t \in Threads :
        t \in Waiters ~> \/ t \notin Waiters
                         \/ leaked + Cardinality(Holders \cap Waiters) >= max_size

=============================================================================
