-------------------------------- MODULE Cache --------------------------------
(***************************************************************************)
(* util::cache, the SIEVE cache.  Each operation but get_or_set() is one   *)
(* step under the lock.                                                    *)
(***************************************************************************)
EXTENDS Integers, FiniteSets, Sequences

CONSTANTS
    Keys,
    CacheValues,
    Callers,    \* threads in get_or_set()
    capacity

VARIABLES
    entries,    \* the list, front first: [key, val, visited]
    lookup,     \* the keys of the table
    hand,       \* the key of the entry the hand is at, End, or Gone
    latest,     \* history: the last value set for each key of the table
    unfair,     \* history: a visited entry was evicted before one that was not
    missed,     \* thread -> the key its get_or_set() missed and computed, or NoKey
    stuck       \* the threads that hold the lock and wait for it

cacheVars == <<entries, lookup, hand, latest, unfair, missed, stuck>>

End == "end"
Gone == "gone"
NoKey == "no key"

\* Neither the end of the list nor what is left of an entry is a key.
ASSUME CacheAssumption == capacity \in Nat \ {0} /\ Keys \cap {End, Gone, NoKey} = {}

CacheInit ==
    /\ entries = <<>> /\ lookup = {} /\ hand = End
    /\ latest = [k \in {} |-> 0]
    /\ unfair = FALSE
    /\ missed = [t \in Callers |-> NoKey] /\ stuck = {}

Position(k) == CHOOSE i \in DOMAIN entries : entries[i].key = k
Without(list, i) == SubSeq(list, 1, i - 1) \o SubSeq(list, i + 1, Len(list))

\* std::prev() of a position: the list is a ring with the end in it, so what is
\* before the first entry is the end.
Before(i) == IF i = 1 THEN End ELSE entries[i - 1].key

Locked == stuck # {}

\* The entries the hand meets, from where it is towards the front and then from
\* the back on, and the first of them that was not visited: when all were, it is
\* the one it started from.
Start == IF hand = End THEN Len(entries) ELSE Position(hand)
Met(n) == ((Start - 1 - n) % Len(entries)) + 1
Stops(n) == n = Len(entries) \/ ~entries[Met(n)].visited
Steps == CHOOSE n \in 0..Len(entries) : Stops(n) /\ \A m \in 0..n - 1 : ~Stops(m)

\* evict() and the insertion that follows it.
Evict(front) ==
    LET old == Met(Steps)
        passed == {Met(n) : n \in 0..Steps - 1}
        swept == [i \in DOMAIN entries |-> [entries[i] EXCEPT !.visited = @ /\ i \notin passed]]
    IN /\ hand' = Before(old)
       /\ lookup' = (lookup \ {entries[old].key}) \cup {front.key}
       /\ entries' = <<front>> \o Without(swept, old)
       /\ unfair' = (unfair \/ (entries[old].visited /\ \E i \in DOMAIN entries : ~entries[i].visited))

Set(k, v) ==
    /\ ~Locked
    /\ \/ /\ k \in lookup
          /\ entries' = [entries EXCEPT ![Position(k)].val = v, ![Position(k)].visited = TRUE]
          /\ UNCHANGED <<lookup, hand, unfair>>
       \/ /\ k \notin lookup
          /\ \/ /\ Len(entries) >= capacity
                /\ hand # Gone
                /\ Evict([key |-> k, val |-> v, visited |-> FALSE])
             \/ /\ Len(entries) < capacity
                /\ entries' = <<[key |-> k, val |-> v, visited |-> FALSE]>> \o entries
                /\ lookup' = lookup \cup {k}
                /\ UNCHANGED <<hand, unfair>>
    /\ latest' = [key \in lookup' |-> IF key = k THEN v ELSE latest[key]]
    /\ UNCHANGED <<missed, stuck>>

\* get() of a key that is there; the rest changes nothing.
Get(k) ==
    /\ ~Locked
    /\ k \in lookup
    /\ entries' = [entries EXCEPT ![Position(k)].visited = TRUE]
    /\ UNCHANGED <<lookup, hand, latest, unfair, missed, stuck>>

\* get_or_set() of a key that is not there computes its value without the lock.
GetOrSetMisses(t, k) ==
    /\ ~Locked
    /\ k \notin lookup /\ missed[t] = NoKey
    /\ missed' = [missed EXCEPT ![t] = k]
    /\ UNCHANGED <<entries, lookup, hand, latest, unfair, stuck>>

\* It takes the lock, and set() waits for it: the mutex is not recursive.
GetOrSetLocks(t) ==
    /\ ~Locked
    /\ missed[t] # NoKey
    /\ stuck' = {t}
    /\ UNCHANGED <<entries, lookup, hand, latest, unfair, missed>>

\* Mutant of Erase: the hand stays at the entry.
EraseLeavesHand(k) ==
    /\ ~Locked
    /\ k \in lookup
    /\ entries' = Without(entries, Position(k))
    /\ lookup' = lookup \ {k}
    /\ latest' = [key \in lookup' |-> latest[key]]
    /\ UNCHANGED <<hand, unfair, missed, stuck>>

Erase(k) ==
    /\ ~Locked
    /\ k \in lookup
    /\ hand' = IF hand = k THEN Before(Position(k)) ELSE hand
    /\ entries' = Without(entries, Position(k))
    /\ lookup' = lookup \ {k}
    /\ latest' = [key \in lookup' |-> latest[key]]
    /\ UNCHANGED <<unfair, missed, stuck>>

\* The hand is left where it was, at an entry that is gone.  Once the cache is full
\* again evict() reads it, and nothing is said of what follows.
Purge ==
    /\ ~Locked
    /\ entries' = <<>>
    /\ lookup' = {}
    /\ hand' = IF hand = End THEN End ELSE Gone
    /\ latest' = [key \in lookup' |-> latest[key]]
    /\ UNCHANGED <<unfair, missed, stuck>>

CacheNext ==
    \/ \E k \in Keys : (\E v \in CacheValues : Set(k, v)) \/ Get(k) \/ Erase(k)
    \/ \E t \in Callers : (\E k \in Keys : GetOrSetMisses(t, k)) \/ GetOrSetLocks(t)
    \/ Purge

CacheSpec == CacheInit /\ [][CacheNext]_cacheVars

-----------------------------------------------------------------------------

\* The table and the list hold the same keys, each once, never more than the
\* capacity; a key that is there has the value set last; a hand that is not at the
\* end is at an entry of the list, unless a purge() took it away (cache.hpp:106); and
\* an entry that was visited since the hand passed it is evicted only when every
\* entry was.
CacheSound ==
    /\ Len(entries) =< capacity
    /\ lookup = {entries[i].key : i \in DOMAIN entries}
    /\ Cardinality(lookup) = Len(entries)
    /\ \A i \in DOMAIN entries : entries[i].val = latest[entries[i].key]
    /\ hand \in lookup \cup {End, Gone}
    /\ ~unfair

=============================================================================
