------------------------- MODULE ResourcePoolProofs -------------------------
(***************************************************************************)
(* Proofs about util::resource_pool, for any number of threads, any        *)
(* target_size and any max_size.                                           *)
(***************************************************************************)
EXTENDS ResourcePool, QueueLemmas, FiniteSetTheorems

\* A set that gains or loses one element.
LEMMA OneMore ==
    ASSUME NEW S, IsFiniteSet(S), NEW e
    PROVE  /\ Cardinality(S) \in Nat
           /\ IsFiniteSet(S \cup {e}) /\ IsFiniteSet(S \ {e})
           /\ e \notin S => Cardinality(S \cup {e}) = Cardinality(S) + 1
           /\ e \in S => Cardinality(S \ {e}) = Cardinality(S) - 1
           /\ e \in S => Cardinality(S) > 0
BY FS_AddElement, FS_RemoveElement, FS_CardinalityType, FS_EmptySet

\* The sets that are counted are finite.
LEMMA FiniteSetsOfThreads ==
    ASSUME TypeOK
    PROVE  IsFiniteSet(Holders) /\ IsFiniteSet(wait) /\ IsFiniteSet(notified) /\ IsFiniteSet(Waiters)
<1>1. /\ Holders \subseteq Threads /\ wait \subseteq Threads /\ notified \subseteq Threads
      /\ Waiters \subseteq Threads
  BY DEF TypeOK, Holders, Waiters
<1> QED BY <1>1, FS_Subset, ResourceAssumption

\* Where a thread's borrowed_resource receives a resource nobody owns, the
\* owners stay distinct and the count of borrowed resources stays exact.
LEMMA ReceiveKeeps ==
    ASSUME PoolInv, NEW t \in Threads, NEW r \in Resources, Receive(t, r),
           NEW q \in Seq(Resources), Distinct(q), Elems(q) \subseteq Elems(pool),
           r \notin Elems(q), \A s \in Threads : held[s] # r
    PROVE  /\ held' \in [Threads -> Resources \cup {None}] /\ leaked' \in Nat
           /\ \A u, v \in Threads : held'[u] # None /\ held'[u] = held'[v] => u = v
           /\ \A s \in Threads : held'[s] \notin Elems(q)
           /\ Cardinality(Holders') + leaked' = Cardinality(Holders) + leaked + 1
<1> USE ResourceAssumption
<1>1. /\ held \in [Threads -> Resources \cup {None}] /\ leaked \in Nat
      /\ held'[t] = r /\ r # None /\ \A s \in Threads \ {t} : held'[s] = held[s]
      /\ held' \in [Threads -> Resources \cup {None}] /\ leaked' \in Nat
  BY DEF PoolInv, TypeOK, Receive
<1>2. \A u, v \in Threads : held'[u] # None /\ held'[u] = held'[v] => u = v
  BY <1>1 DEF PoolInv, OneOwner
<1>3. \A s \in Threads : held'[s] \notin Elems(q)
  BY <1>1 DEF PoolInv, OneOwner
<1>4. IsFiniteSet(Holders)
  BY FiniteSetsOfThreads DEF PoolInv
<1>5. CASE held[t] = None
  <2>1. t \notin Holders /\ Holders' = Holders \cup {t} /\ leaked' = leaked
    BY <1>1, <1>5 DEF Holders, Receive
  <2>2. Cardinality(Holders) \in Nat /\ Cardinality(Holders') = Cardinality(Holders) + 1
    BY <1>4, <2>1, OneMore
  <2>3. Cardinality(Holders') + leaked' = Cardinality(Holders) + leaked + 1
    BY <1>1, <2>1, <2>2
  <2> QED BY <1>1, <1>2, <1>3, <2>3
<1>6. CASE held[t] # None
  <2>1. Holders' = Holders /\ leaked' = leaked + 1
    BY <1>1, <1>6 DEF Holders, Receive
  <2>2. Cardinality(Holders) \in Nat /\ Cardinality(Holders') = Cardinality(Holders)
    BY <1>4, <2>1, FS_CardinalityType
  <2>3. Cardinality(Holders') + leaked' = Cardinality(Holders) + leaked + 1
    BY <1>1, <2>1, <2>2
  <2> QED BY <1>1, <1>2, <1>3, <2>3
<1> QED BY <1>5, <1>6

\* Taking the last pooled resource.
LEMMA BorrowKeeps ==
    ASSUME PoolInv, NEW t \in Threads, Borrow(t)
    PROVE  /\ held' \in [Threads -> Resources \cup {None}] /\ leaked' \in Nat
           /\ pool' \in Seq(Resources) /\ Len(pool') = Len(pool) - 1 /\ Len(pool') \in Nat
           /\ num_borrowed' = num_borrowed + 1
           /\ OneOwner' /\ num_borrowed' = Cardinality(Holders') + leaked'
<1> DEFINE q == SubSeq(pool, 1, Len(pool) - 1)
           r == pool[Len(pool)]
<1>1. pool \in Seq(Resources) /\ pool # <<>> /\ Distinct(pool)
  BY DEF PoolInv, TypeOK, OneOwner, Borrow
<1>2. /\ q \in Seq(Resources) /\ r \in Resources /\ Len(q) = Len(pool) - 1 /\ Len(q) \in Nat
      /\ Elems(pool) = Elems(q) \cup {r} /\ Distinct(q) /\ r \notin Elems(q)
  BY <1>1, BackRemoved
<1>3. pool' = q /\ num_borrowed' = num_borrowed + 1 /\ Receive(t, r)
  BY DEF Borrow
<1> HIDE DEF q, r
<1>4. Elems(q) \subseteq Elems(pool) /\ \A s \in Threads : held[s] # r
  BY <1>2 DEF PoolInv, OneOwner
<1>5. /\ held' \in [Threads -> Resources \cup {None}] /\ leaked' \in Nat
      /\ \A u, v \in Threads : held'[u] # None /\ held'[u] = held'[v] => u = v
      /\ \A s \in Threads : held'[s] \notin Elems(q)
      /\ Cardinality(Holders') + leaked' = Cardinality(Holders) + leaked + 1
  BY <1>2, <1>3, <1>4, ReceiveKeeps
<1>6. OneOwner'
  BY <1>2, <1>3, <1>5 DEF OneOwner
<1> QED BY <1>2, <1>3, <1>5, <1>6 DEF PoolInv, Counters

\* notify_one() wakes one thread if any sleeps.
LEMMA NotifyOneKeeps ==
    ASSUME TypeOK, wait \cap notified = {}, NotifyOne
    PROVE  /\ wait' \subseteq Threads /\ notified' \subseteq Threads
           /\ wait' \cap notified' = {} /\ Waiters' = Waiters
           /\ wait # {} => Cardinality(notified') = Cardinality(notified) + 1
           /\ wait = {} => wait' = {}
<1>1. IsFiniteSet(notified)
  BY FiniteSetsOfThreads
<1>2. CASE wait = {} /\ UNCHANGED <<wait, notified>>
  BY <1>2 DEF TypeOK, Waiters
<1>3. ASSUME NEW t \in wait, wait' = wait \ {t}, notified' = notified \cup {t}
      PROVE  /\ wait' \subseteq Threads /\ notified' \subseteq Threads
             /\ wait' \cap notified' = {} /\ Waiters' = Waiters
             /\ Cardinality(notified') = Cardinality(notified) + 1
  <2>1. t \notin notified
    OBVIOUS
  <2>2. Cardinality(notified') = Cardinality(notified) + 1
    BY <1>1, <1>3, <2>1, OneMore
  <2> QED BY <1>3, <2>1, <2>2 DEF TypeOK, Waiters
<1> QED BY <1>2, <1>3 DEF NotifyOne

\* Every step preserves the inductive invariant.
LEMMA PoolStep ==
    ASSUME PoolInv, NEW t \in Threads,
           \/ GetMake(t) \/ GetThrows(t) \/ GetPooled(t) \/ GetWaits(t)
           \/ WakeTakes(t) \/ WakeWaits(t) \/ SpuriousWake(t) \/ Put(t)
    PROVE  PoolInv'
<1> USE ResourceAssumption
<1>1. /\ TypeOK /\ OneOwner /\ Counters /\ WithinMax /\ NoIdleCapacity /\ NoLostWakeup
      /\ num_waiting \in Nat /\ num_borrowed \in Nat /\ leaked \in Nat /\ Len(pool) \in Nat
      /\ wait \subseteq Threads /\ notified \subseteq Threads /\ wait \cap notified = {}
      /\ pool \in Seq(Resources) /\ Distinct(pool)
      /\ held \in [Threads -> Resources \cup {None}] /\ gets \in [Threads -> Nat]
  BY DEF PoolInv, TypeOK, OneOwner, Counters
<1>2. /\ IsFiniteSet(Holders) /\ IsFiniteSet(wait) /\ IsFiniteSet(notified) /\ IsFiniteSet(Waiters)
      /\ Cardinality(Holders) \in Nat /\ Cardinality(notified) \in Nat
      /\ Cardinality(Waiters) \in Nat
  BY <1>1, FiniteSetsOfThreads, FS_CardinalityType
<1>N. /\ num_waiting \in Nat /\ num_borrowed \in Nat /\ Len(pool) \in Nat /\ max_size \in Nat
      /\ num_borrowed + Len(pool) <= max_size
      /\ num_waiting > 0 => num_borrowed + Len(pool) = max_size
  BY <1>1 DEF WithinMax, NoIdleCapacity
<1>3. ASSUME Call(t) PROVE gets' \in [Threads -> Nat] /\ t \notin Waiters
  BY <1>1, <1>3 DEF Call
<1>4. CASE GetMake(t)
  <2>1. PICK r \in Resources \ Live : Receive(t, r)
    BY <1>4 DEF GetMake
  <2>2. /\ Call(t) /\ pool = <<>> /\ num_borrowed < max_size /\ num_borrowed' = num_borrowed + 1
        /\ UNCHANGED <<pool, num_waiting, wait, notified>>
    BY <1>4 DEF GetMake
  <2>3. r \notin Elems(pool) /\ \A s \in Threads : held[s] # r
    BY DEF Live, Holders
  <2>4. /\ held' \in [Threads -> Resources \cup {None}] /\ leaked' \in Nat
        /\ \A u, v \in Threads : held'[u] # None /\ held'[u] = held'[v] => u = v
        /\ \A s \in Threads : held'[s] \notin Elems(pool)
        /\ Cardinality(Holders') + leaked' = Cardinality(Holders) + leaked + 1
    BY <1>1, <2>1, <2>3, ReceiveKeeps
  <2>5. TypeOK'
    BY <1>1, <1>3, <2>2, <2>4 DEF TypeOK
  <2>6. OneOwner'
    BY <1>1, <2>2, <2>4 DEF OneOwner
  <2>7. Counters'
    BY <1>1, <2>2, <2>4 DEF Counters, Waiters
  <2>8. Len(pool) = 0
    BY <2>2
  <2>9. WithinMax' /\ NoIdleCapacity' /\ NoLostWakeup'
    BY <1>1, <2>2, <2>8 DEF WithinMax, NoIdleCapacity, NoLostWakeup
  <2> QED BY <2>5, <2>6, <2>7, <2>9 DEF PoolInv
<1>5. CASE GetThrows(t)
  <2>1. /\ Call(t) /\ pool = <<>> /\ num_borrowed < max_size /\ num_borrowed' = num_borrowed + 1
        /\ UNCHANGED <<pool, num_waiting, wait, notified, held>> /\ leaked' = leaked + 1
        /\ Len(pool) = 0
    BY <1>5 DEF GetThrows
  <2>2. TypeOK'
    BY <1>1, <1>3, <2>1 DEF TypeOK
  <2>3. OneOwner'
    BY <1>1, <2>1 DEF OneOwner
  <2>4. Counters'
    BY <1>1, <1>2, <2>1 DEF Counters, Holders, Waiters
  <2>5. WithinMax' /\ NoIdleCapacity' /\ NoLostWakeup'
    BY <1>1, <2>1 DEF WithinMax, NoIdleCapacity, NoLostWakeup
  <2> QED BY <2>2, <2>3, <2>4, <2>5 DEF PoolInv
<1>6. CASE GetPooled(t)
  <2>1. Call(t) /\ Borrow(t) /\ UNCHANGED <<num_waiting, wait, notified>>
    BY <1>6 DEF GetPooled
  <2>2. /\ held' \in [Threads -> Resources \cup {None}] /\ leaked' \in Nat
        /\ pool' \in Seq(Resources) /\ Len(pool') = Len(pool) - 1 /\ Len(pool') \in Nat
        /\ num_borrowed' = num_borrowed + 1
        /\ OneOwner' /\ num_borrowed' = Cardinality(Holders') + leaked'
    BY <2>1, BorrowKeeps
  <2>3. TypeOK'
    BY <1>1, <1>3, <2>1, <2>2 DEF TypeOK
  <2>4. Counters'
    BY <1>1, <2>1, <2>2 DEF Counters, Waiters
  <2>5. WithinMax' /\ NoIdleCapacity'
    <3>1. /\ num_borrowed' = num_borrowed + 1 /\ Len(pool') = Len(pool) - 1
          /\ num_waiting' = num_waiting
      BY <2>1, <2>2
    <3> QED BY <1>N, <3>1 DEF WithinMax, NoIdleCapacity
  <2>6. NoLostWakeup'
    BY <1>1, <1>2, <2>1, <2>2 DEF NoLostWakeup
  <2> QED BY <2>2, <2>3, <2>4, <2>5, <2>6 DEF PoolInv
<1>7. CASE GetWaits(t)
  <2>1. /\ Call(t) /\ pool = <<>> /\ num_borrowed >= max_size /\ num_waiting' = num_waiting + 1
        /\ wait' = wait \cup {t} /\ UNCHANGED <<pool, num_borrowed, notified, held, leaked>>
        /\ Len(pool) = 0
    BY <1>7 DEF GetWaits
  <2>2. TypeOK'
    BY <1>1, <1>3, <2>1 DEF TypeOK
  <2>3. OneOwner'
    BY <1>1, <2>1 DEF OneOwner
  <2>4. t \notin Waiters /\ Waiters' = Waiters \cup {t}
    BY <1>3, <2>1 DEF Waiters
  <2>5. Cardinality(Waiters') = Cardinality(Waiters) + 1
    BY <1>2, <2>4, OneMore
  <2>6. Counters'
    BY <1>1, <1>2, <2>1, <2>4, <2>5 DEF Counters, Holders, Waiters
  <2>7. WithinMax' /\ NoIdleCapacity' /\ NoLostWakeup'
    BY <1>1, <1>2, <2>1 DEF WithinMax, NoIdleCapacity, NoLostWakeup
  <2> QED BY <2>2, <2>3, <2>6, <2>7 DEF PoolInv
<1>8. CASE WakeTakes(t)
  <2>1. /\ t \in notified /\ notified' = notified \ {t} /\ num_waiting' = num_waiting - 1
        /\ Borrow(t) /\ UNCHANGED <<wait, gets>>
    BY <1>8 DEF WakeTakes
  <2>2. /\ held' \in [Threads -> Resources \cup {None}] /\ leaked' \in Nat
        /\ pool' \in Seq(Resources) /\ Len(pool') = Len(pool) - 1 /\ Len(pool') \in Nat
        /\ num_borrowed' = num_borrowed + 1
        /\ OneOwner' /\ num_borrowed' = Cardinality(Holders') + leaked'
    BY <2>1, BorrowKeeps
  <2>3. t \in Waiters /\ Waiters' = Waiters \ {t}
    BY <1>1, <2>1 DEF Waiters
  <2>4. /\ Cardinality(Waiters') = Cardinality(Waiters) - 1 /\ Cardinality(Waiters) > 0
        /\ Cardinality(notified') = Cardinality(notified) - 1
    BY <1>2, <2>1, <2>3, OneMore
  <2>0. num_waiting > 0 /\ num_waiting' \in Nat /\ num_borrowed' \in Nat
    <3>1. num_waiting = Cardinality(Waiters)
      BY <1>1 DEF Counters
    <3> QED BY <1>N, <1>2, <2>1, <2>2, <2>4, <3>1
  <2>5. TypeOK'
    <3>1. wait' \subseteq Threads /\ notified' \subseteq Threads /\ gets' \in [Threads -> Nat]
      BY <1>1, <2>1
    <3> QED BY <2>0, <2>2, <3>1 DEF TypeOK
  <2>6. Counters'
    BY <1>1, <2>1, <2>2, <2>4 DEF Counters
  <2>7. WithinMax' /\ NoIdleCapacity'
    <3>1. /\ num_borrowed' = num_borrowed + 1 /\ Len(pool') = Len(pool) - 1
      BY <2>2
    <3> QED BY <1>N, <2>0, <3>1 DEF WithinMax, NoIdleCapacity
  <2>8. NoLostWakeup'
    BY <1>1, <1>2, <2>1, <2>2, <2>4 DEF NoLostWakeup
  <2> QED BY <2>2, <2>5, <2>6, <2>7, <2>8 DEF PoolInv
<1>9. CASE WakeWaits(t)
  <2>1. /\ t \in notified /\ pool = <<>> /\ notified' = notified \ {t} /\ wait' = wait \cup {t}
        /\ UNCHANGED <<pool, num_waiting, num_borrowed, held, leaked, gets>> /\ Len(pool) = 0
    BY <1>9 DEF WakeWaits
  <2>2. TypeOK' /\ OneOwner'
    BY <1>1, <2>1 DEF TypeOK, OneOwner
  <2>3. Counters'
    <3>1. Waiters' = Waiters /\ Holders' = Holders
      BY <2>1 DEF Waiters, Holders
    <3> QED BY <1>1, <2>1, <3>1 DEF Counters
  <2>4. Cardinality(notified') \in Nat
    BY <1>2, <2>1, OneMore
  <2>5. WithinMax' /\ NoIdleCapacity' /\ NoLostWakeup'
    BY <1>1, <2>1, <2>4 DEF WithinMax, NoIdleCapacity, NoLostWakeup
  <2> QED BY <2>2, <2>3, <2>5 DEF PoolInv
<1>10. CASE SpuriousWake(t)
  <2>1. /\ t \in wait /\ NotifyOne
        /\ UNCHANGED <<pool, num_waiting, num_borrowed, held, leaked, gets>>
    BY <1>10 DEF SpuriousWake, NotifyOne
  <2>2. /\ wait' \subseteq Threads /\ notified' \subseteq Threads
        /\ wait' \cap notified' = {} /\ Waiters' = Waiters
        /\ Cardinality(notified') = Cardinality(notified) + 1
    BY <1>1, <2>1, NotifyOneKeeps
  <2>3. TypeOK' /\ OneOwner'
    BY <1>1, <2>1, <2>2 DEF TypeOK, OneOwner
  <2>4. Counters'
    <3>1. Holders' = Holders
      BY <2>1 DEF Holders
    <3> QED BY <1>1, <2>1, <2>2, <3>1 DEF Counters
  <2>5. WithinMax' /\ NoIdleCapacity' /\ NoLostWakeup'
    BY <1>1, <1>2, <2>1, <2>2 DEF WithinMax, NoIdleCapacity, NoLostWakeup
  <2> QED BY <2>3, <2>4, <2>5 DEF PoolInv
<1>11. CASE Put(t)
  <2>1. /\ held[t] \in Resources /\ held' = [held EXCEPT ![t] = None] /\ held'[t] = None
        /\ \A s \in Threads \ {t} : held'[s] = held[s]
        /\ num_borrowed' = num_borrowed - 1 /\ UNCHANGED <<num_waiting, leaked, gets>>
    BY <1>1, <1>11 DEF Put
  <2>2. t \in Holders /\ Holders' = Holders \ {t}
    BY <2>1 DEF Holders
  <2>3. /\ Cardinality(Holders') = Cardinality(Holders) - 1 /\ Cardinality(Holders) > 0
        /\ num_borrowed' \in Nat /\ num_borrowed' = Cardinality(Holders') + leaked'
    <3>1. Cardinality(Holders') = Cardinality(Holders) - 1 /\ Cardinality(Holders) > 0
      BY <1>2, <2>2, OneMore
    <3> QED BY <1>1, <1>2, <2>1, <3>1 DEF Counters
  <2>4. CASE Drops /\ UNCHANGED <<pool, wait, notified>>
    <3>1. TypeOK'
      BY <1>1, <2>1, <2>3, <2>4, SMTT(30) DEF TypeOK
    <3>0. OneOwner'
      BY <1>1, <2>1, <2>4, SMTT(30) DEF OneOwner, Elems
    <3>2. Counters'
      BY <1>1, <2>1, <2>3, <2>4 DEF Counters, Waiters
    <3>3. WithinMax' /\ NoIdleCapacity' /\ NoLostWakeup'
      BY <1>1, <2>1, <2>4 DEF WithinMax, NoIdleCapacity, NoLostWakeup, Drops
    <3> QED BY <3>0, <3>1, <3>2, <3>3 DEF PoolInv
  <2>5. CASE pool' = Append(pool, held[t]) /\ NotifyOne
    <3>1. /\ pool' \in Seq(Resources) /\ Len(pool') = Len(pool) + 1
          /\ Elems(pool') = Elems(pool) \cup {held[t]} /\ Distinct(pool')
      BY <1>1, <2>1, <2>5, OneAdded DEF OneOwner
    <3>2. /\ wait' \subseteq Threads /\ notified' \subseteq Threads
          /\ wait' \cap notified' = {} /\ Waiters' = Waiters
          /\ wait # {} => Cardinality(notified') = Cardinality(notified) + 1
          /\ wait = {} => wait' = {}
      BY <1>1, <2>5, NotifyOneKeeps
    <3>3. TypeOK'
      BY <1>1, <2>1, <2>3, <3>1, <3>2 DEF TypeOK
    <3>4. None \notin Elems(pool')
      BY <3>1 DEF Elems
    <3>5. OneOwner'
      BY <1>1, <2>1, <3>1, <3>4, SMTT(30) DEF OneOwner
    <3>6. Counters'
      BY <1>1, <2>1, <2>3, <3>2 DEF Counters
    <3>7. WithinMax' /\ NoIdleCapacity'
      BY <1>1, <2>1, <3>1, SMTT(30) DEF WithinMax, NoIdleCapacity
    <3>8. NoLostWakeup'
      BY <1>1, <1>2, <3>1, <3>2 DEF NoLostWakeup
    <3> QED BY <3>3, <3>5, <3>6, <3>7, <3>8 DEF PoolInv
  <2> QED BY <1>11, <2>4, <2>5 DEF Put
<1> QED BY <1>4, <1>5, <1>6, <1>7, <1>8, <1>9, <1>10, <1>11

\* The pool never lends a resource twice, counts exactly, stays within
\* max_size, keeps no capacity back while a thread waits and loses no
\* wake-up, even when make() throws or a borrowed_resource is overwritten.
THEOREM PoolSafe == Spec => []PoolInv
<1>1. Init => PoolInv
  <2> SUFFICES ASSUME Init PROVE PoolInv
    OBVIOUS
  <2>1. /\ Holders = {} /\ Waiters = {} /\ Elems(pool) = {} /\ Distinct(pool) /\ Len(pool) = 0
    BY DEF Init, Holders, Waiters, Elems, Distinct
  <2>2. TypeOK
    BY ResourceAssumption DEF Init, TypeOK
  <2>3. Counters /\ OneOwner
    BY <2>1, FS_EmptySet DEF Init, Counters, OneOwner
  <2>4. WithinMax /\ NoIdleCapacity /\ NoLostWakeup
    BY <2>1, ResourceAssumption DEF Init, WithinMax, NoIdleCapacity, NoLostWakeup
  <2> QED BY <2>2, <2>3, <2>4 DEF PoolInv
<1>2. PoolInv /\ [Next]_vars => PoolInv'
  <2> SUFFICES ASSUME PoolInv, [Next]_vars PROVE PoolInv'
    OBVIOUS
  <2>1. CASE UNCHANGED vars
    BY <2>1 DEF vars, PoolInv, TypeOK, OneOwner, Counters, WithinMax, NoIdleCapacity,
                NoLostWakeup, Holders, Waiters
  <2> QED BY <2>1, PoolStep DEF Next
<1> QED BY <1>1, <1>2, PTL DEF Spec

\* get() never lends a resource that another thread holds or that is pooled.
THEOREM LentOnce == Spec => []OneOwner
BY PoolSafe, PTL DEF PoolInv

\* The hard limit of get() covers pooled, held and lost resources together.
THEOREM HardLimit == Spec => []WithinMax
BY PoolSafe, PTL DEF PoolInv

\* put() drops no resource that a thread blocked in get() could use.
THEOREM NothingKeptBack == Spec => []NoIdleCapacity
BY PoolSafe, PTL DEF PoolInv

\* Every resource put() adds while a thread sleeps in get() wakes a thread.
THEOREM WakesWaiters == Spec => []NoLostWakeup
BY PoolSafe, PTL DEF PoolInv

\* num_borrowed and num_waiting, read and written under one mutex by every thread, stay
\* exact: they count what is held or was lost and the threads inside wait(), and no thread
\* is both asleep and notified.
THEOREM CountersExact == Spec => []Counters
BY PoolSafe, PTL DEF PoolInv

=============================================================================
