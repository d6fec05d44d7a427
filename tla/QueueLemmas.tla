---------------------------- MODULE QueueLemmas -----------------------------
(* Facts on queues, cited by the proofs of the modules that have one. *)
EXTENDS Queues, TLAPS

\* Removing the front: the other elements stay, in order, and stay distinct.
LEMMA FrontRemoved ==
    ASSUME NEW S, NEW q \in Seq(S), q # <<>>
    PROVE  /\ Tail(q) \in Seq(S) /\ Head(q) \in S /\ Head(q) \in Elems(q)
           /\ Len(Tail(q)) = Len(q) - 1
           /\ Elems(Tail(q)) \subseteq Elems(q)
           /\ Elems(q) = Elems(Tail(q)) \cup {Head(q)}
           /\ Distinct(q) => Distinct(Tail(q)) /\ Head(q) \notin Elems(Tail(q))
<1> DEFINE t == Tail(q)
<1>1. /\ Len(q) \in Nat \ {0} /\ DOMAIN q = 1..Len(q) /\ Head(q) = q[1]
      /\ t \in Seq(S) /\ Head(q) \in S /\ Len(t) = Len(q) - 1 /\ DOMAIN t = 1..(Len(q) - 1)
      /\ \A i \in 1..(Len(q) - 1) : t[i] = q[i + 1]
  OBVIOUS
<1> HIDE DEF t
<1>2. \A i \in DOMAIN t : i + 1 \in DOMAIN q /\ t[i] = q[i + 1]
  BY <1>1
<1>3. \A i \in DOMAIN q : i = 1 \/ (i - 1 \in DOMAIN t /\ t[i - 1] = q[i])
  BY <1>1
<1>4. 1 \in DOMAIN q /\ Head(q) = q[1]
  BY <1>1
<1>5. Elems(q) = Elems(t) \cup {Head(q)}
  BY <1>2, <1>3, <1>4 DEF Elems
<1>6. ASSUME Distinct(q) PROVE Distinct(t) /\ Head(q) \notin Elems(t)
  <2>1. Distinct(t)
    BY <1>1, <1>2, <1>6 DEF Distinct
  <2>2. ASSUME NEW i \in DOMAIN t PROVE t[i] # Head(q)
    BY <1>1, <1>2, <1>4, <1>6 DEF Distinct
  <2> QED BY <2>1, <2>2 DEF Elems
<1> QED BY <1>1, <1>5, <1>6 DEF t

\* Removing the back.
LEMMA BackRemoved ==
    ASSUME NEW S, NEW q \in Seq(S), q # <<>>
    PROVE  LET f == SubSeq(q, 1, Len(q) - 1)
               e == q[Len(q)]
           IN  /\ f \in Seq(S) /\ e \in S /\ Len(f) = Len(q) - 1 /\ Len(f) \in Nat
               /\ Elems(q) = Elems(f) \cup {e}
               /\ Distinct(q) => Distinct(f) /\ e \notin Elems(f)
<1> DEFINE f == SubSeq(q, 1, Len(q) - 1)
           e == q[Len(q)]
<1>1. /\ Len(q) \in Nat \ {0} /\ DOMAIN q = 1..Len(q) /\ e \in S
      /\ f \in Seq(S) /\ Len(f) = Len(q) - 1 /\ DOMAIN f = 1..(Len(q) - 1)
      /\ \A i \in 1..(Len(q) - 1) : f[i] = q[i]
  <2>1. Len(q) \in Nat \ {0} /\ DOMAIN q = 1..Len(q) /\ e \in S
    OBVIOUS
  <2>2. \A i \in 1..(Len(q) - 1) : q[i] \in S
    BY <2>1
  <2>3. f = [i \in 1..(Len(q) - 1) |-> q[i]]
    BY <2>1
  <2>4. f \in Seq(S) /\ Len(f) = Len(q) - 1
    BY <2>1, <2>2, <2>3
  <2> QED BY <2>1, <2>3, <2>4
<1>0. e = q[Len(q)]
  OBVIOUS
<1> HIDE DEF f, e
<1>2. \A i \in DOMAIN f : i \in DOMAIN q /\ f[i] = q[i] /\ i # Len(q)
  BY <1>1
<1>3. \A i \in DOMAIN q : i = Len(q) \/ (i \in DOMAIN f /\ f[i] = q[i])
  BY <1>1
<1>4. Len(q) \in DOMAIN q
  BY <1>1
<1>5. Elems(q) = Elems(f) \cup {e}
  BY <1>0, <1>2, <1>3, <1>4 DEF Elems
<1>6. ASSUME Distinct(q) PROVE Distinct(f) /\ e \notin Elems(f)
  BY <1>0, <1>2, <1>4, <1>6 DEF Distinct, Elems
<1> QED BY <1>1, <1>5, <1>6 DEF f, e

\* Adding distinct new elements at the back.
LEMMA BackAdded ==
    ASSUME NEW S, NEW q \in Seq(S), NEW r \in Seq(S)
    PROVE  /\ q \o r \in Seq(S) /\ Len(q \o r) = Len(q) + Len(r)
           /\ Elems(q \o r) = Elems(q) \cup Elems(r)
           /\ Distinct(q) /\ Distinct(r) /\ Elems(q) \cap Elems(r) = {} => Distinct(q \o r)
<1> DEFINE s == q \o r
<1>1. /\ Len(q) \in Nat /\ DOMAIN q = 1..Len(q) /\ Len(r) \in Nat /\ DOMAIN r = 1..Len(r)
      /\ s \in Seq(S) /\ Len(s) = Len(q) + Len(r)
      /\ \A i \in 1..Len(s) : s[i] = IF i <= Len(q) THEN q[i] ELSE r[i - Len(q)]
  OBVIOUS
<1> HIDE DEF s
<1>2. DOMAIN s = 1..Len(s)
  BY <1>1
<1>3. \A i \in DOMAIN q : i \in DOMAIN s /\ s[i] = q[i]
  BY <1>1, <1>2
<1>4. \A i \in DOMAIN r : i + Len(q) \in DOMAIN s /\ s[i + Len(q)] = r[i]
  BY <1>1, <1>2
<1>5. \A i \in DOMAIN s : \/ i \in DOMAIN q /\ s[i] = q[i]
                          \/ i - Len(q) \in DOMAIN r /\ s[i] = r[i - Len(q)]
  BY <1>1, <1>2
<1>6. Elems(s) = Elems(q) \cup Elems(r)
  BY <1>3, <1>4, <1>5 DEF Elems
<1>7. ASSUME Distinct(q), Distinct(r), Elems(q) \cap Elems(r) = {}
      PROVE  Distinct(s)
  <2> SUFFICES ASSUME NEW i \in DOMAIN s, NEW j \in DOMAIN s, s[i] = s[j] PROVE i = j
    BY DEF Distinct
  <2>0. \A k \in DOMAIN q, l \in DOMAIN r : q[k] # r[l]
    BY <1>7 DEF Elems
  <2>1. i \in DOMAIN q <=> j \in DOMAIN q
    BY <2>0, <1>5, <1>3
  <2>2. CASE i \in DOMAIN q
    BY <2>1, <2>2, <1>3, <1>7 DEF Distinct
  <2>3. CASE i \notin DOMAIN q
    <3>1. i - Len(q) = j - Len(q)
      BY <2>1, <2>3, <1>5, <1>7 DEF Distinct
    <3> QED BY <3>1, <1>1, <1>2
  <2> QED BY <2>2, <2>3
<1> QED BY <1>1, <1>6, <1>7 DEF s

\* The same for one element.
LEMMA OneAdded ==
    ASSUME NEW S, NEW q \in Seq(S), NEW e \in S
    PROVE  /\ Append(q, e) \in Seq(S) /\ Len(Append(q, e)) = Len(q) + 1
           /\ Elems(Append(q, e)) = Elems(q) \cup {e}
           /\ Distinct(q) /\ e \notin Elems(q) => Distinct(Append(q, e))
<1>1. Append(q, e) = q \o <<e>> /\ <<e>> \in Seq(S) /\ Len(<<e>>) = 1
  OBVIOUS
<1>2. Elems(<<e>>) = {e} /\ Distinct(<<e>>)
  BY DEF Elems, Distinct
<1> DEFINE r == <<e>>
<1>3. r \in Seq(S) /\ Len(r) = 1 /\ Elems(r) = {e} /\ Distinct(r) /\ Append(q, e) = q \o r
  BY <1>1, <1>2
<1> HIDE DEF r
<1>4. /\ q \o r \in Seq(S) /\ Len(q \o r) = Len(q) + Len(r)
      /\ Elems(q \o r) = Elems(q) \cup Elems(r)
      /\ Distinct(q) /\ Distinct(r) /\ Elems(q) \cap Elems(r) = {} => Distinct(q \o r)
  BY <1>3, BackAdded
<1> QED BY <1>3, <1>4

=============================================================================
