------------------------- MODULE ReplicationProofs -------------------------
(***************************************************************************)
(* Proofs about module Replication, for every number of nodes, partitions  *)
(* and keys, every capacity of the dedupe index and every bound.           *)
(***************************************************************************)
EXTENDS Replication, FiniteSetTheorems, WellFoundedInduction, TLAPS

(* Most steps are about sets, functions and records: Zenon is the prover of  *)
(* a step that names no other.                                              *)
USE ZenonT(30)

----------------------------------------------------------------------------
(* What the operators on sequences return. *)

LEMMA SeqLen ==
  ASSUME NEW S, NEW seq \in Seq(S)
  PROVE  Len(seq) \in Nat /\ DOMAIN seq = 1..Len(seq) /\ \A n \in 1..Len(seq) : seq[n] \in S
BY SMTT(30)

LEMMA SeqAppend ==
  ASSUME NEW S, NEW seq \in Seq(S), NEW elt \in S
  PROVE  /\ Append(seq, elt) \in Seq(S)
         /\ Len(Append(seq, elt)) = Len(seq) + 1
         /\ \A i \in 1..Len(seq) : Append(seq, elt)[i] = seq[i]
         /\ Append(seq, elt)[Len(seq) + 1] = elt
BY SMTT(30)

LEMMA SeqSub ==
  ASSUME NEW S, NEW seq \in Seq(S), NEW m \in 1..(Len(seq) + 1), NEW n \in 0..Len(seq), m <= n + 1
  PROVE  /\ SubSeq(seq, m, n) \in Seq(S)
         /\ Len(SubSeq(seq, m, n)) = n - m + 1
         /\ \A i \in 1..(n - m + 1) : SubSeq(seq, m, n)[i] = seq[m + i - 1]
BY SMTT(30)

LEMMA SeqConcat ==
  ASSUME NEW S, NEW s \in Seq(S), NEW t \in Seq(S)
  PROVE  /\ s \o t \in Seq(S)
         /\ Len(s \o t) = Len(s) + Len(t)
         /\ \A i \in 1..Len(s) : (s \o t)[i] = s[i]
         /\ \A i \in (Len(s) + 1)..(Len(s) + Len(t)) : (s \o t)[i] = t[i - Len(s)]
BY SMTT(30)

LEMMA SeqOne ==
  ASSUME NEW S, NEW e \in S
  PROVE  <<e>> \in Seq(S) /\ Len(<<e>>) = 1 /\ <<e>>[1] = e
BY SMTT(30)

----------------------------------------------------------------------------
(* The dedupe index. *)

LEMMA FindFacts ==
  ASSUME NEW S, NEW lru \in Seq(S), NEW key
  PROVE  \/ Find(lru, key) = 0 /\ \A i \in 1..Len(lru) : lru[i].key # key
         \/ Find(lru, key) \in 1..Len(lru) /\ Find(lru, key) > 0 /\ lru[Find(lru, key)].key = key
<1> DEFINE at == {i \in DOMAIN lru : lru[i].key = key}
<1>1. DOMAIN lru = 1..Len(lru)
  BY SMT, SeqLen
<1>2. CASE at = {}
  BY <1>1, <1>2 DEF Find
<1>3. CASE at # {}
  <2>1. Find(lru, key) = CHOOSE i \in at : TRUE
    BY <1>3 DEF Find
  <2>2. Find(lru, key) \in at
    BY <1>3, <2>1
  <2>3. Find(lru, key) \in 1..Len(lru) /\ lru[Find(lru, key)].key = key
    BY <1>1, <2>2
  <2>4. Find(lru, key) > 0
    BY SMT, <2>3, SeqLen
  <2>5. QED
    BY <2>3, <2>4
<1>4. QED
  BY <1>2, <1>3

\* t is s without its i-th element and with e in front.
Fronted(S, s, i, e, t) ==
    /\ t \in Seq(S)
    /\ Len(t) = Len(s)
    /\ t[1] = e
    /\ \A j \in 2..Len(s) : t[j] = IF j <= i THEN s[j - 1] ELSE s[j]

LEMMA FrontFacts ==
  ASSUME NEW S, NEW s \in Seq(S), NEW i \in 1..Len(s), NEW e \in S
  PROVE  Fronted(S, s, i, e, ToFront(s, i, e))
<1>1. Len(s) \in Nat /\ DOMAIN s = 1..Len(s) /\ \A n \in 1..Len(s) : s[n] \in S
  BY SMT, SeqLen
<1> USE <1>1
<1>2. ASSUME NEW j \in 1..Len(s) PROVE ToFront(s, i, e)[j] \in S
  BY SMTT(30) DEF ToFront
<1>3. ToFront(s, i, e) \in [1..Len(s) -> S]
  BY <1>2 DEF ToFront
<1>4. ToFront(s, i, e) \in Seq(S) /\ Len(ToFront(s, i, e)) = Len(s)
  BY SMTT(30), <1>3
<1>5. \A j \in 2..Len(s) : ToFront(s, i, e)[j] = IF j <= i THEN s[j - 1] ELSE s[j]
  BY SMTT(30) DEF ToFront
<1>6. ToFront(s, i, e)[1] = e
  BY SMTT(30) DEF ToFront
<1>7. QED
  BY <1>4, <1>5, <1>6 DEF Fronted

Distinct(lru) == \A j, k \in 1..Len(lru) : lru[j].key = lru[k].key => j = k

\* A hit keeps the entries.
LEMMA MoveFacts ==
  ASSUME NEW lru \in Seq(Entry), NEW i \in 1..Len(lru)
  PROVE  /\ MoveToFront(lru, i) \in Seq(Entry)
         /\ Len(MoveToFront(lru, i)) = Len(lru)
         /\ \A j \in 1..Len(lru) : \E k \in 1..Len(lru) : MoveToFront(lru, i)[j] = lru[k]
         /\ \A k \in 1..Len(lru) : \E j \in 1..Len(lru) : MoveToFront(lru, i)[j] = lru[k]
         /\ Distinct(lru) => Distinct(MoveToFront(lru, i))
<1> DEFINE t == MoveToFront(lru, i)
           from(j) == IF j = 1 THEN i ELSE IF j <= i THEN j - 1 ELSE j
           to(k) == IF k = i THEN 1 ELSE IF k < i THEN k + 1 ELSE k
<1>1. Len(lru) \in Nat /\ lru[i] \in Entry
  BY SeqLen
<1> HIDE DEF t
<1> USE <1>1
<1>2. /\ t \in Seq(Entry) /\ Len(t) = Len(lru) /\ t[1] = lru[i]
      /\ \A j \in 2..Len(lru) : t[j] = IF j <= i THEN lru[j - 1] ELSE lru[j]
  <2>1. t = ToFront(lru, i, lru[i])
    BY DEF MoveToFront, t
  <2>2. Fronted(Entry, lru, i, lru[i], t)
    BY <2>1, FrontFacts
  <2>3. QED
    BY <2>2 DEF Fronted
<1> USE <1>2
<1>3. ASSUME NEW j \in 1..Len(lru) PROVE from(j) \in 1..Len(lru) /\ t[j] = lru[from(j)]
  BY SMTT(30)
<1>4. ASSUME NEW k \in 1..Len(lru) PROVE to(k) \in 1..Len(lru) /\ from(to(k)) = k
  BY SMTT(30)
<1>5. ASSUME NEW j \in 1..Len(lru), NEW k \in 1..Len(lru), from(j) = from(k) PROVE j = k
  BY SMTT(30), <1>5
<1> HIDE DEF from, to
<1> USE <1>3
<1>6. \A j \in 1..Len(lru) : \E k \in 1..Len(lru) : t[j] = lru[k]
  OBVIOUS
<1>7. \A k \in 1..Len(lru) : \E j \in 1..Len(lru) : t[j] = lru[k]
  BY <1>4
<1>8. ASSUME Distinct(lru) PROVE Distinct(t)
  <2> SUFFICES ASSUME NEW j \in 1..Len(lru), NEW k \in 1..Len(lru), t[j].key = t[k].key PROVE j = k
    BY DEF Distinct
  <2>1. lru[from(j)].key = lru[from(k)].key
    OBVIOUS
  <2>2. from(j) = from(k)
    BY <1>8, <2>1 DEF Distinct
  <2>3. QED
    BY <1>5, <2>2
<1>9. QED
  BY <1>6, <1>7, <1>8 DEF t

\* An insertion puts its entry in front and keeps, perhaps, the others.
LEMMA InsertFacts ==
  ASSUME NEW lru \in Seq(Entry), setup.cap \in Nat \ {0}, Len(lru) <= setup.cap, NEW key \in Keys, NEW id \in IDs
  PROVE  LET t == Insert(lru, key, id) IN
         /\ t \in Seq(Entry) /\ Len(t) <= setup.cap
         /\ 1 <= Len(t) /\ t[1] = [key |-> key, id |-> id]
         /\ \A j \in 2..Len(t) : \E k \in 1..Len(lru) : t[j] = lru[k]
         /\ Distinct(lru) => Distinct(t)
         /\ Len(lru) < setup.cap =>
              \A k \in 1..Len(lru) : lru[k].key # key => \E j \in 1..Len(t) : t[j] = lru[k]
<1> DEFINE e == [key |-> key, id |-> id]
           i == Find(lru, key)
           t == Insert(lru, key, id)
<1>1. Len(lru) \in Nat /\ e \in Entry /\ e.key = key
  BY SeqLen DEF Entry
<1> HIDE DEF e
<1>2. CASE i = 0 /\ \A k \in 1..Len(lru) : lru[k].key # key
  <2> DEFINE u == <<e>> \o lru
             n == Keep(lru)
  <2>1. t = SubSeq(u, 1, n)
    <3>1. ~ (i > 0)
      BY SMT, <1>2
    <3>2. QED
      BY <3>1 DEF Insert, e
  <2>2. n \in Nat /\ 1 <= n /\ n <= setup.cap /\ n <= Len(lru) + 1 /\ (Len(lru) < setup.cap => n = Len(lru) + 1)
    BY SMTT(30), <1>1 DEF Keep
  <2> HIDE DEF t, n
  <2>3. <<e>> \in Seq(Entry) /\ Len(<<e>>) = 1 /\ <<e>>[1] = e
    BY SMT, <1>1, SeqOne
  <2> HIDE DEF u
  <2>4. /\ u \in Seq(Entry) /\ Len(u) = Len(<<e>>) + Len(lru)
        /\ \A j \in 1..Len(<<e>>) : u[j] = <<e>>[j]
        /\ \A j \in (Len(<<e>>) + 1)..(Len(<<e>>) + Len(lru)) : u[j] = lru[j - Len(<<e>>)]
    <3>1. u = <<e>> \o lru
      BY DEF u
    <3>2. QED
      BY SMTT(30), <2>3, <3>1, SeqConcat
  <2>5. /\ Len(u) = Len(lru) + 1 /\ u[1] = e
        /\ \A j \in 2..(Len(lru) + 1) : u[j] = lru[j - 1]
    BY SMTT(30), <1>1, <2>3, <2>4
  <2>6. t \in Seq(Entry) /\ Len(t) = n /\ \A j \in 1..n : t[j] = u[j]
    <3>1. 1 \in 1..(Len(u) + 1) /\ n \in 0..Len(u) /\ 1 <= n + 1
      BY SMT, <1>1, <2>2, <2>5
    <3>2. QED
      BY SMTT(30), <2>1, <2>2, <2>4, <3>1, SeqSub
  <2>7. t[1] = e /\ \A j \in 2..n : j - 1 \in 1..Len(lru) /\ t[j] = lru[j - 1]
    BY SMTT(30), <1>1, <2>2, <2>5, <2>6
  <2>8. ASSUME Distinct(lru), NEW j \in 1..n, NEW k \in 1..n, t[j].key = t[k].key PROVE j = k
    <3>1. CASE j = 1 /\ k = 1
      BY SMT, <3>1
    <3>2. CASE j = 1 /\ k # 1
      <4>1. k \in 2..n
        BY SMT, <2>2, <3>2
      <4>2. QED
        BY <1>1, <1>2, <2>7, <2>8, <3>2, <4>1
    <3>3. CASE j # 1 /\ k = 1
      <4>1. j \in 2..n
        BY SMT, <2>2, <3>3
      <4>2. QED
        BY <1>1, <1>2, <2>7, <2>8, <3>3, <4>1
    <3>4. CASE j # 1 /\ k # 1
      <4>1. j \in 2..n /\ k \in 2..n
        BY SMT, <2>2, <3>4
      <4>2. lru[j - 1].key = lru[k - 1].key /\ j - 1 \in 1..Len(lru) /\ k - 1 \in 1..Len(lru)
        BY <2>7, <2>8, <4>1
      <4>3. j - 1 = k - 1
        BY <2>8, <4>2 DEF Distinct
      <4>4. QED
        BY SMT, <4>1, <4>3
    <3>5. QED
      BY <3>1, <3>2, <3>3, <3>4
  <2>9. ASSUME Len(lru) < setup.cap, NEW k \in 1..Len(lru) PROVE k + 1 \in 1..n /\ t[k + 1] = lru[k]
    BY SMTT(30), <1>1, <2>2, <2>7, <2>9
  <2>10. Distinct(lru) => Distinct(t)
    BY <2>6, <2>8 DEF Distinct
  <2>11. Len(lru) < setup.cap => \A k \in 1..Len(lru) : \E j \in 1..Len(t) : t[j] = lru[k]
    BY <2>6, <2>9
  <2>12. Len(t) <= setup.cap /\ 1 <= Len(t) /\ \A j \in 2..Len(t) : \E k \in 1..Len(lru) : t[j] = lru[k]
    BY <2>2, <2>6, <2>7
  <2>13. QED
    BY <2>6, <2>7, <2>10, <2>11, <2>12 DEF t, e
<1>3. CASE i \in 1..Len(lru) /\ i > 0 /\ lru[i].key = key
  <2>1. t = ToFront(lru, i, e)
    BY <1>3 DEF Insert, e
  <2> HIDE DEF t, i
  <2>2. /\ t \in Seq(Entry) /\ Len(t) = Len(lru) /\ t[1] = e
        /\ \A j \in 2..Len(lru) : t[j] = IF j <= i THEN lru[j - 1] ELSE lru[j]
    <3>1. Fronted(Entry, lru, i, e, t)
      BY <1>1, <1>3, <2>1, FrontFacts
    <3>2. QED
      BY <3>1 DEF Fronted
  <2> DEFINE from(j) == IF j = 1 THEN i ELSE IF j <= i THEN j - 1 ELSE j
             to(k) == IF k < i THEN k + 1 ELSE k
  <2>3. ASSUME NEW j \in 2..Len(lru) PROVE from(j) \in 1..Len(lru) /\ t[j] = lru[from(j)]
    BY SMTT(30), <1>1, <1>3, <2>2
  <2>4. ASSUME NEW k \in 1..Len(lru), k # i PROVE to(k) \in 2..Len(lru) /\ from(to(k)) = k
    BY SMTT(30), <1>1, <1>3, <2>4
  <2>5. ASSUME NEW j \in 1..Len(lru), NEW k \in 1..Len(lru), from(j) = from(k) PROVE j = k
    BY SMTT(30), <1>1, <1>3, <2>5
  <2>6. ASSUME NEW j \in 1..Len(lru) PROVE from(j) \in 1..Len(lru) /\ t[j].key = lru[from(j)].key
    <3>1. CASE j = 1
      BY <1>1, <1>3, <2>2, <3>1
    <3>2. CASE j # 1
      <4>1. j \in 2..Len(lru)
        BY SMT, <1>1, <3>2
      <4>2. QED
        BY <2>3, <4>1
    <3>3. QED
      BY <3>1, <3>2
  <2> HIDE DEF from, to
  <2>7. ASSUME Distinct(lru) PROVE Distinct(t)
    <3> SUFFICES ASSUME NEW j \in 1..Len(lru), NEW k \in 1..Len(lru), t[j].key = t[k].key PROVE j = k
      BY <2>2 DEF Distinct
    <3>1. lru[from(j)].key = lru[from(k)].key
      BY <2>6
    <3>2. from(j) = from(k)
      BY <2>6, <2>7, <3>1 DEF Distinct
    <3>3. QED
      BY <2>5, <3>2
  <2>8. ASSUME NEW k \in 1..Len(lru), lru[k].key # key PROVE \E j \in 1..Len(t) : t[j] = lru[k]
    <3>1. k # i
      BY <1>3, <2>8
    <3>2. to(k) \in 2..Len(lru) /\ t[to(k)] = lru[k]
      BY <2>3, <2>4, <3>1
    <3>3. to(k) \in 1..Len(t)
      BY SMT, <1>1, <2>2, <3>2
    <3>4. QED
      BY <3>2, <3>3
  <2>9. 1 <= Len(t) /\ Len(t) <= setup.cap
    BY SMT, <1>1, <1>3, <2>2
  <2>10. \A j \in 2..Len(t) : \E k \in 1..Len(lru) : t[j] = lru[k]
    BY <2>2, <2>3
  <2>11. QED
    BY <2>2, <2>7, <2>8, <2>9, <2>10 DEF t, e
<1>4. QED
  BY <1>2, <1>3, FindFacts

----------------------------------------------------------------------------
(* The smallest element of a set of naturals, and the largest of a bounded one. *)

LEMMA MinExists ==
  ASSUME NEW S \in SUBSET Nat, S # {}
  PROVE  \E m \in S : \A n \in S : m <= n
<1> DEFINE R == StrictSubsetOrdering(Nat)
           T == {1..n : n \in S}
<1>1. T \subseteq FiniteSubsetsOf(Nat) /\ T # {}
  <2>1. \A n \in S : IsFiniteSet(1..n) /\ 1..n \subseteq Nat
    BY SMT, FS_Interval
  <2>2. QED
    BY <2>1 DEF FiniteSubsetsOf
<1>2. PICK x \in T : \A y \in T : ~ (<<y, x>> \in R)
  <2> HIDE DEF T
  <2> QED
    BY <1>1, FS_StrictSubsetOrderingWellFounded, WFMin
<1>3. PICK m \in S : x = 1..m
  BY <1>2
<1>4. ASSUME NEW n \in S, ~ (m <= n) PROVE FALSE
  <2>1. 1..n \subseteq 1..m /\ 1..n # 1..m
    <3>1. m \in 1..m /\ m \notin 1..n
      BY SMT, <1>4
    <3>2. QED
      BY SMT, <1>4, <3>1
  <2>2. <<1..n, 1..m>> \in R
    BY SMT, <2>1 DEF StrictSubsetOrdering
  <2>3. QED
    BY <2>2, <1>2, <1>3
<1>5. QED
  BY <1>4

LEMMA MaxExists ==
  ASSUME NEW a \in Nat, NEW S \in SUBSET (0..a), S # {}
  PROVE  \E m \in S : \A n \in S : n <= m
<1> DEFINE T == {n \in 0..a : a - n \in S}
<1>1. T \in SUBSET Nat /\ T # {}
  <2>1. PICK s \in S : TRUE
    OBVIOUS
  <2>2. a - s \in 0..a /\ a - (a - s) = s
    BY SMT, <2>1
  <2>3. a - s \in T
    BY <2>2
  <2>4. T \subseteq Nat
    BY SMT
  <2>5. QED
    BY <2>3, <2>4
<1>2. PICK m \in T : \A n \in T : m <= n
  BY <1>1, MinExists
<1>3. a - m \in S
  BY <1>2
<1>4. ASSUME NEW n \in S PROVE n <= a - m
  <2>1. a - n \in T
    BY SMT
  <2>2. QED
    BY SMT, <2>1, <1>2
<1>5. QED
  BY <1>3, <1>4

----------------------------------------------------------------------------
(* The dedupe index answers for the records of its partition. *)

\* Every entry of the index is about one of the first n records.
GoodAt(lru, records, n) ==
    /\ lru \in Seq(Entry) /\ Len(lru) <= setup.cap /\ Distinct(lru)
    /\ \A k \in 1..Len(lru) : lru[k].id + 1 \in 1..n /\ records[lru[k].id + 1].key = lru[k].key

\* Every key of the first n records is in the index.
Covers(lru, records, n) ==
    \A k \in 1..n : records[k].key # NoKey => \E j \in 1..Len(lru) : lru[j].key = records[k].key

\* No key is stored twice.
Unique(records) ==
    \A j, k \in 1..Len(records) : records[j].key = records[k].key /\ records[j].key # NoKey => j = k

LEMMA GoodSame ==
  ASSUME NEW lru, NEW r, NEW s, NEW n \in Nat, NEW m \in Nat, n <= m,
         \A k \in 1..n : s[k] = r[k], GoodAt(lru, r, n)
  PROVE  GoodAt(lru, s, m)
<1>1. \A k \in 1..n : k \in 1..m
  BY SMT
<1>2. ASSUME NEW k \in 1..Len(lru) PROVE lru[k].id + 1 \in 1..m /\ s[lru[k].id + 1].key = lru[k].key
  BY <1>1 DEF GoodAt
<1>3. QED
  BY <1>2 DEF GoodAt

LEMMA GoodMove ==
  ASSUME NEW lru, NEW r, NEW n, GoodAt(lru, r, n), NEW i \in 1..Len(lru)
  PROVE  GoodAt(MoveToFront(lru, i), r, n)
<1>1. lru \in Seq(Entry) /\ Len(lru) <= setup.cap /\ Distinct(lru)
  BY DEF GoodAt
<1>2. /\ MoveToFront(lru, i) \in Seq(Entry)
      /\ Len(MoveToFront(lru, i)) = Len(lru)
      /\ \A j \in 1..Len(lru) : \E k \in 1..Len(lru) : MoveToFront(lru, i)[j] = lru[k]
      /\ Distinct(MoveToFront(lru, i))
  BY <1>1, MoveFacts
<1>3. ASSUME NEW j \in 1..Len(lru)
      PROVE  /\ MoveToFront(lru, i)[j].id + 1 \in 1..n
             /\ r[MoveToFront(lru, i)[j].id + 1].key = MoveToFront(lru, i)[j].key
  <2>1. PICK k \in 1..Len(lru) : MoveToFront(lru, i)[j] = lru[k]
    BY <1>2
  <2>2. QED
    BY <2>1 DEF GoodAt
<1>4. QED
  BY <1>1, <1>2, <1>3 DEF GoodAt

LEMMA CoversMove ==
  ASSUME NEW lru \in Seq(Entry), NEW r, NEW n, Covers(lru, r, n), NEW i \in 1..Len(lru)
  PROVE  Covers(MoveToFront(lru, i), r, n)
<1>1. /\ Len(MoveToFront(lru, i)) = Len(lru)
      /\ \A k \in 1..Len(lru) : \E j \in 1..Len(lru) : MoveToFront(lru, i)[j] = lru[k]
  BY MoveFacts
<1> SUFFICES ASSUME NEW k \in 1..n, r[k].key # NoKey
             PROVE  \E j \in 1..Len(lru) : MoveToFront(lru, i)[j].key = r[k].key
  BY <1>1 DEF Covers
<1>2. PICK l \in 1..Len(lru) : lru[l].key = r[k].key
  BY DEF Covers
<1>3. QED
  BY <1>1, <1>2

LEMMA GoodInsert ==
  ASSUME NEW lru, NEW r, NEW n \in IDs, GoodAt(lru, r, n), setup.cap \in Nat \ {0},
         NEW key \in Keys, r[n + 1].key = key
  PROVE  GoodAt(Insert(lru, key, n), r, n + 1)
<1> DEFINE t == Insert(lru, key, n)
<1>1. lru \in Seq(Entry) /\ Len(lru) <= setup.cap /\ Distinct(lru)
  BY DEF GoodAt
<1>2. /\ t \in Seq(Entry) /\ Len(t) <= setup.cap
      /\ t[1] = [key |-> key, id |-> n]
      /\ \A j \in 2..Len(t) : \E k \in 1..Len(lru) : t[j] = lru[k]
      /\ Distinct(t)
  BY SMTT(30), <1>1, InsertFacts
<1> HIDE DEF t
<1>3. n \in Nat /\ n + 1 \in 1..(n + 1) /\ \A k \in 1..n : k \in 1..(n + 1)
  BY SMT, ReplicationAssumption DEF IDs
<1> USE <1>2
<1>4. ASSUME NEW j \in 1..Len(t) PROVE t[j].id + 1 \in 1..(n + 1) /\ r[t[j].id + 1].key = t[j].key
  <2>1. CASE j = 1
    <3>1. t[j].id = n /\ t[j].key = key
      BY SMT, <2>1
    <3>2. QED
      BY <1>3, <3>1
  <2>2. CASE j # 1
    <3>1. j \in 2..Len(t)
      BY SMT, <2>2, SeqLen
    <3>2. PICK k \in 1..Len(lru) : t[j] = lru[k]
      BY <3>1
    <3>3. QED
      BY <1>3, <3>2 DEF GoodAt
  <2>3. QED
    BY <2>1, <2>2
<1>5. QED
  BY <1>4 DEF GoodAt, t

\* With a place for every key a new key evicts nothing.
LEMMA RoomLeft ==
  ASSUME NEW lru \in Seq(Entry), Distinct(lru), NEW K, IsFiniteSet(K), setup.cap \in Nat, Cardinality(K) <= setup.cap,
         \A k \in 1..Len(lru) : lru[k].key \in K,
         NEW key \in K, \A k \in 1..Len(lru) : lru[k].key # key
  PROVE  Len(lru) < setup.cap
<1> DEFINE f == [k \in 1..Len(lru) |-> lru[k].key]
<1>1. f \in Injection(1..Len(lru), K \ {key})
  BY DEF Injection, IsInjective, Distinct
<1>2. IsFiniteSet(K \ {key}) /\ Cardinality(K \ {key}) = Cardinality(K) - 1 /\ Cardinality(K) \in Nat
  BY SMT, FS_RemoveElement, FS_CardinalityType
<1> HIDE DEF f
<1>3. Cardinality(1..Len(lru)) <= Cardinality(K \ {key})
  BY <1>1, <1>2, FS_Injection
<1>4. Len(lru) \in Nat /\ Cardinality(1..Len(lru)) = Len(lru)
  <2>1. Len(lru) \in Nat /\ Len(lru) \in Int /\ 1 \in Int
    BY SMT, SeqLen
  <2>2. Cardinality(1..Len(lru)) = IF 1 > Len(lru) THEN 0 ELSE Len(lru) - 1 + 1
    BY <2>1, FS_Interval
  <2>3. QED
    BY SMT, <2>1, <2>2
<1>5. QED
  BY SMT, <1>2, <1>3, <1>4

LEMMA CoversInsert ==
  ASSUME NEW lru, NEW r, NEW n \in IDs, GoodAt(lru, r, n), Covers(lru, r, n),
         setup.cap \in Nat \ {0}, Len(lru) < setup.cap, NEW key \in Keys, r[n + 1].key = key
  PROVE  Covers(Insert(lru, key, n), r, n + 1)
<1> DEFINE t == Insert(lru, key, n)
<1>1. lru \in Seq(Entry) /\ Len(lru) <= setup.cap /\ Distinct(lru)
  BY DEF GoodAt
<1>2. /\ Len(t) \in Nat /\ 1 <= Len(t)
      /\ t[1] = [key |-> key, id |-> n]
      /\ \A k \in 1..Len(lru) : lru[k].key # key => \E j \in 1..Len(t) : t[j] = lru[k]
  BY SMTT(30), <1>1, InsertFacts, SeqLen
<1> HIDE DEF t
<1>3. 1 \in 1..Len(t) /\ t[1].key = key
  BY SMT, <1>2
<1> SUFFICES ASSUME NEW k \in 1..(n + 1), r[k].key # NoKey PROVE \E j \in 1..Len(t) : t[j].key = r[k].key
  BY DEF Covers, t
<1>4. CASE r[k].key = key
  BY <1>3, <1>4
<1>5. CASE r[k].key # key
  <2>1. k \in 1..n
    <3>1. k # n + 1
      BY <1>5
    <3>2. QED
      BY SMT, <3>1, ReplicationAssumption DEF IDs
  <2>2. PICK l \in 1..Len(lru) : lru[l].key = r[k].key
    BY <2>1 DEF Covers
  <2>3. QED
    BY <1>2, <1>5, <2>2
<1>6. QED
  BY <1>4, <1>5

----------------------------------------------------------------------------
(* The rebuilt index. *)

Visit(records, lru, i) ==
    IF records[i].key = NoKey THEN lru ELSE Insert(lru, records[i].key, i - 1)

\* f is what rebuildIndexes has after each of the first n records.
Visits(f, records, n) ==
    /\ f = [i \in 0..n |-> f[i]]
    /\ f[0] = << >>
    /\ \A i \in 1..n : f[i] = Visit(records, f[i - 1], i)

LEMMA VisitsExist ==
  ASSUME NEW records, NEW N \in Nat
  PROVE  \E f : Visits(f, records, N)
<1> DEFINE Bad == {n \in 0..N : ~ \E f : Visits(f, records, n)}
<1> SUFFICES ASSUME Bad # {} PROVE FALSE
  <2>1. N \in 0..N
    BY SMT
  <2>2. QED
    BY <2>1
<1>1. PICK m \in Bad : \A n \in Bad : m <= n
  <2>1. Bad \in SUBSET Nat
    BY SMT
  <2> HIDE DEF Bad
  <2>2. QED
    BY <2>1, MinExists
<1>2. CASE m = 0
  <2> DEFINE f == [i \in 0..0 |-> << >>]
  <2>1. f = [i \in 0..0 |-> f[i]] /\ f[0] = << >> /\ \A i \in 1..0 : FALSE
    BY SMT
  <2> HIDE DEF f
  <2>2. Visits(f, records, 0)
    BY <2>1 DEF Visits
  <2>3. QED
    BY <1>1, <1>2, <2>2
<1>3. CASE m # 0
  <2>1. m \in Nat /\ m - 1 \in 0..N /\ ~ (m <= m - 1) /\ m \in 0..m
    BY SMT, <1>1, <1>3
  <2>2. PICK g : Visits(g, records, m - 1)
    BY <1>1, <2>1
  <2> DEFINE f == [i \in 0..m |-> IF i = m THEN Visit(records, g[m - 1], m) ELSE g[i]]
  <2>3. f = [i \in 0..m |-> f[i]]
    OBVIOUS
  <2>4. f[0] = << >>
    <3>1. 0 \in 0..m /\ 0 # m
      BY SMT, <1>3, <2>1
    <3>2. QED
      BY <2>2, <3>1 DEF Visits
  <2>5. ASSUME NEW i \in 1..m PROVE f[i] = Visit(records, f[i - 1], i)
    <3>1. i \in 0..m /\ i - 1 \in 0..m /\ i - 1 # m
      BY SMT, <2>1
    <3>2. f[i - 1] = g[i - 1]
      BY <3>1
    <3>3. CASE i = m
      BY <3>1, <3>2, <3>3
    <3>4. CASE i # m
      <4>1. i \in 1..(m - 1)
        BY SMT, <2>1, <3>4
      <4>2. g[i] = Visit(records, g[i - 1], i)
        BY <2>2, <4>1 DEF Visits
      <4>3. QED
        BY <3>1, <3>2, <3>4, <4>2
    <3>5. QED
      BY <3>3, <3>4
  <2> HIDE DEF f
  <2>6. Visits(f, records, m)
    BY <2>3, <2>4, <2>5 DEF Visits
  <2>7. QED
    BY <1>1, <2>6
<1>4. QED
  BY <1>2, <1>3

LEMMA RebuildVisits ==
  ASSUME NEW records, Len(records) \in Nat
  PROVE  \E f : Visits(f, records, Len(records)) /\ Rebuild(records) = f[Len(records)]
<1> DEFINE N == Len(records)
           Body(f) == [i \in 0..N |-> IF i = 0 THEN << >>
                                      ELSE IF records[i].key = NoKey THEN f[i - 1]
                                      ELSE Insert(f[i - 1], records[i].key, i - 1)]
           h == CHOOSE f : f = Body(f)
<1>1. Rebuild(records) = h[N]
  BY DEF Rebuild
<1>2. PICK g : Visits(g, records, N)
  BY VisitsExist
<1>3. g = Body(g)
  <2>1. \A i \in 0..N : i # 0 => i \in 1..N
    BY SMT
  <2>2. ASSUME NEW i \in 0..N PROVE g[i] = Body(g)[i]
    BY <1>2, <2>1 DEF Visits, Visit
  <2>3. g = [i \in 0..N |-> g[i]]
    BY <1>2 DEF Visits
  <2>4. [i \in 0..N |-> g[i]] = [i \in 0..N |-> Body(g)[i]]
    BY <2>2
  <2>5. QED
    BY <2>3, <2>4
<1>4. h = Body(h)
  <2> HIDE DEF Body
  <2>1. QED
    BY <1>3
<1> HIDE DEF h
<1>5. h = [i \in 0..N |-> h[i]]
  <2>1. DOMAIN h = 0..N
    BY <1>4
  <2>2. h = [i \in DOMAIN h |-> h[i]]
    BY <1>4
  <2>3. QED
    BY <2>1, <2>2
<1>6. h[0] = << >>
  <2>1. 0 \in 0..N
    BY SMT
  <2>2. QED
    BY <1>4, <2>1
<1>7. ASSUME NEW i \in 1..N PROVE h[i] = Visit(records, h[i - 1], i)
  <2>1. i \in 0..N /\ i # 0
    BY SMT
  <2>2. QED
    BY <1>4, <2>1 DEF Visit
<1>8. QED
  BY <1>1, <1>5, <1>6, <1>7 DEF Visits

\* Recovery rebuilds an index that is about the recovered records.
LEMMA RebuildGood ==
  ASSUME NEW records \in Seq(Record), Len(records) <= MaxLog, setup.cap \in Nat \ {0}
  PROVE  GoodAt(Rebuild(records), records, Len(records))
<1> DEFINE N == Len(records)
<1>1. N \in Nat /\ \A n \in 1..N : records[n] \in Record
  BY SMT, SeqLen
<1> USE <1>1
<1>2. PICK f : Visits(f, records, N) /\ Rebuild(records) = f[N]
  BY RebuildVisits
<1> DEFINE Bad == {n \in 0..N : ~ GoodAt(f[n], records, n)}
<1> USE <1>2
<1> SUFFICES ASSUME Bad # {} PROVE FALSE
  <2>1. N \in 0..N
    BY SMT
  <2>2. QED
    BY <2>1
<1>3. PICK m \in Bad : \A n \in Bad : m <= n
  <2>1. Bad \in SUBSET Nat
    BY SMT
  <2> HIDE DEF Bad
  <2>2. QED
    BY <2>1, MinExists
<1> USE <1>3
<1>4. CASE m = 0
  <2>1. << >> \in Seq(Entry) /\ Len(<< >>) = 0 /\ 0 <= setup.cap /\ \A k \in 1..0 : FALSE
    BY SMT
  <2>2. f[0] = << >>
    BY DEF Visits
  <2>3. GoodAt(<< >>, records, 0)
    BY <2>1 DEF GoodAt, Distinct
  <2>4. QED
    BY <1>4, <2>2, <2>3
<1>5. CASE m # 0
  <2>1. /\ m \in 1..N /\ m - 1 \in 0..N /\ m - 1 \in Nat /\ m \in Nat /\ m - 1 <= m
        /\ ~ (m <= m - 1) /\ m - 1 \in IDs /\ (m - 1) + 1 = m
    BY SMT, <1>5, ReplicationAssumption DEF IDs
  <2> USE <2>1
  <2>2. GoodAt(f[m - 1], records, m - 1)
    OBVIOUS
  <2>3. f[m] = Visit(records, f[m - 1], m)
    BY DEF Visits
  <2>4. CASE records[m].key = NoKey
    <3>1. GoodAt(f[m - 1], records, m)
      BY <2>2, GoodSame
    <3>2. QED
      BY <2>3, <2>4, <3>1 DEF Visit
  <2>5. CASE records[m].key # NoKey
    <3>1. records[m].key \in Keys
      BY <2>5 DEF Record
    <3>2. GoodAt(Insert(f[m - 1], records[m].key, m - 1), records, m)
      BY <2>2, <3>1, GoodInsert
    <3>3. QED
      BY <2>3, <2>5, <3>2 DEF Visit
  <2>6. QED
    BY <2>4, <2>5
<1>6. QED
  BY <1>4, <1>5

\* With a place for every key it has all of them.
LEMMA RebuildCovers ==
  ASSUME NEW records \in Seq(Record), Len(records) <= MaxLog, setup.cap \in Nat \ {0}, Unique(records),
         NEW K, IsFiniteSet(K), Cardinality(K) <= setup.cap, \A k \in 1..Len(records) : records[k].key \in K
  PROVE  Covers(Rebuild(records), records, Len(records))
<1> DEFINE N == Len(records)
<1>1. N \in Nat /\ \A n \in 1..N : records[n] \in Record
  BY SMT, SeqLen
<1> USE <1>1
<1>2. PICK f : Visits(f, records, N) /\ Rebuild(records) = f[N]
  BY RebuildVisits
<1> DEFINE Fine(n) == GoodAt(f[n], records, n) /\ Covers(f[n], records, n)
           Bad == {n \in 0..N : ~ Fine(n)}
<1> USE <1>2
<1> SUFFICES ASSUME Bad # {} PROVE FALSE
  <2>1. N \in 0..N
    BY SMT
  <2>2. QED
    BY <2>1
<1>3. PICK m \in Bad : \A n \in Bad : m <= n
  <2>1. Bad \in SUBSET Nat
    BY SMT
  <2> HIDE DEF Bad
  <2>2. QED
    BY <2>1, MinExists
<1> USE <1>3
<1>4. CASE m = 0
  <2>1. << >> \in Seq(Entry) /\ Len(<< >>) = 0 /\ 0 <= setup.cap /\ \A k \in 1..0 : FALSE
    BY SMT
  <2>2. f[0] = << >>
    BY DEF Visits
  <2>3. GoodAt(<< >>, records, 0) /\ Covers(<< >>, records, 0)
    BY <2>1 DEF GoodAt, Distinct, Covers
  <2>4. QED
    BY <1>4, <2>2, <2>3
<1>5. CASE m # 0
  <2>1. /\ m \in 1..N /\ m - 1 \in 0..N /\ m - 1 \in Nat /\ m \in Nat /\ m - 1 <= m
        /\ ~ (m <= m - 1) /\ m - 1 \in IDs /\ (m - 1) + 1 = m
        /\ \A k \in 1..(m - 1) : k \in 1..N /\ k # m
        /\ \A k \in 1..m : k \in 1..(m - 1) \/ k = m
    BY SMT, <1>5, ReplicationAssumption DEF IDs
  <2> USE <2>1
  <2>2. Fine(m - 1)
    OBVIOUS
  <2>3. f[m] = Visit(records, f[m - 1], m)
    BY DEF Visits
  <2> USE <2>2
  <2>4. CASE records[m].key = NoKey
    <3>1. GoodAt(f[m - 1], records, m)
      BY GoodSame
    <3>2. Covers(f[m - 1], records, m)
      BY <2>4 DEF Covers
    <3>3. QED
      BY <2>3, <2>4, <3>1, <3>2 DEF Visit
  <2>5. CASE records[m].key # NoKey
    <3> DEFINE lru == f[m - 1]
    <3> USE <2>5
    <3>1. records[m].key \in Keys
      BY DEF Record
    <3>2. lru \in Seq(Entry) /\ Distinct(lru)
      BY DEF GoodAt
    <3>3. ASSUME NEW k \in 1..Len(lru) PROVE lru[k].key \in K /\ lru[k].key # records[m].key
      <4>1. lru[k].id + 1 \in 1..(m - 1) /\ records[lru[k].id + 1].key = lru[k].key
        BY DEF GoodAt
      <4>2. QED
        BY <4>1 DEF Unique
    <3>4. Len(lru) < setup.cap
      <4>1. setup.cap \in Nat /\ records[m].key \in K
        OBVIOUS
      <4>2. QED
        BY <3>2, <3>3, <4>1, RoomLeft
    <3>5. GoodAt(Insert(lru, records[m].key, m - 1), records, m)
      BY <3>1, GoodInsert
    <3>6. Covers(Insert(lru, records[m].key, m - 1), records, m)
      BY <3>1, <3>4, CoversInsert
    <3>7. QED
      BY <2>3, <3>5, <3>6 DEF Visit
  <2>6. QED
    BY <2>4, <2>5
<1>6. QED
  BY <1>4, <1>5

----------------------------------------------------------------------------
(* What a node has applied, in this process or before its restart. *)

Reach(n) == IF applied[n] > highWater[n] THEN applied[n] ELSE highWater[n]

\* A record's raft index is not below its position, nor above what the node has reached.
Order ==
    /\ \A n \in Nodes : applied[n] <= Len(log) /\ highWater[n] <= Len(log)
    /\ \A n \in Nodes, p \in PartIDs : \A k \in 1..Len(wal[n][p]) :
         k <= wal[n][p][k].index /\ wal[n][p][k].index <= Reach(n)
    /\ AppliedOnce
    /\ \A n \in Nodes : \A m \in inflight[n] : m.attempts <= applied[n] + 1

Indexed == \A n \in Nodes, p \in PartIDs : GoodAt(dedupe[n][p], wal[n][p], Len(wal[n][p]))

\* The first PUB that a node applies opens the topic there.
Opens == \A n \in Nodes : \A i \in 1..Reach(n) : log[i].kind = "pub" => count[n] # 0

Core == TypeOK /\ Order /\ Indexed /\ Opens

LEMMA SetupFacts ==
  ASSUME TypeOK
  PROVE  /\ MaxLog \in Nat \ {0} /\ Parts \in Nat \ {0} /\ MaxRestarts \in Nat
         /\ Len(log) \in Nat /\ Len(log) <= MaxLog /\ \A i \in 1..Len(log) : log[i] \in Command
         /\ setup.cap \in Nat \ {0} /\ setup.default \in 1..Parts /\ setup.cmds \in 0..MaxLog
         /\ setup.restarts \in 0..MaxRestarts /\ setup.keys \subseteq Keys \cup {NoKey} /\ setup.dlq \in Nat
<1>1. setup \in SetupType
  BY ReplicationAssumption DEF TypeOK
<1>2. /\ setup.cap \in Nat \ {0} /\ setup.default \in 1..Parts /\ setup.cmds \in 0..MaxLog
      /\ setup.restarts \in 0..MaxRestarts /\ setup.keys \in SUBSET (Keys \cup {NoKey}) /\ setup.dlq \in Nat
  BY <1>1 DEF SetupType
<1>3. Len(log) \in Nat /\ Len(log) <= MaxLog /\ \A i \in 1..Len(log) : log[i] \in Command
  <2>1. log \in Seq(Command) /\ Len(log) <= MaxLog
    BY DEF TypeOK
  <2>2. QED
    BY SMT, <2>1, SeqLen
<1>4. QED
  BY <1>2, <1>3, ReplicationAssumption

LEMMA NodeFacts ==
  ASSUME TypeOK, NEW n \in Nodes
  PROVE  /\ applied[n] \in 0..MaxLog /\ highWater[n] \in 0..MaxLog
         /\ applied[n] \in Nat /\ highWater[n] \in Nat
         /\ count[n] \in 0..Parts /\ Opened(n) \in 1..Parts /\ Opened(n) # 0
         /\ count[n] # 0 => Opened(n) = count[n]
         /\ Reach(n) \in Nat /\ applied[n] <= Reach(n) /\ highWater[n] <= Reach(n)
         /\ Reach(n) \in {applied[n], highWater[n]}
<1>1. applied[n] \in 0..MaxLog /\ highWater[n] \in 0..MaxLog /\ count[n] \in 0..Parts
  BY DEF TypeOK
<1>2. MaxLog \in Nat /\ Parts \in Nat /\ setup.default \in 1..Parts
  BY SetupFacts
<1>3. QED
  BY SMTT(30), <1>1, <1>2 DEF Opened, Reach

LEMMA PartFacts ==
  ASSUME TypeOK, NEW n \in Nodes, NEW p \in PartIDs
  PROVE  /\ wal[n][p] \in Seq(Record) /\ Len(wal[n][p]) \in Nat /\ DOMAIN wal[n][p] = 1..Len(wal[n][p])
         /\ \A k \in 1..Len(wal[n][p]) :
              wal[n][p][k] \in Record /\ wal[n][p][k].index \in 1..MaxLog /\ wal[n][p][k].index \in Nat
         /\ dedupe[n][p] \in Seq(Entry) /\ Len(dedupe[n][p]) \in Nat
<1>1. wal[n][p] \in Seq(Record) /\ dedupe[n][p] \in Seq(Entry)
  BY DEF TypeOK
<1>2. /\ Len(wal[n][p]) \in Nat /\ DOMAIN wal[n][p] = 1..Len(wal[n][p]) /\ Len(dedupe[n][p]) \in Nat
      /\ \A k \in 1..Len(wal[n][p]) : wal[n][p][k] \in Record
  BY SMTT(30), <1>1, SeqLen
<1>3. \A r \in Record : r.index \in 1..MaxLog /\ r.index \in Nat
  <2>1. \A r \in Record : r.index \in 1..MaxLog
    BY DEF Record
  <2>2. QED
    BY SMT, <2>1
<1>4. QED
  BY <1>1, <1>2, <1>3

\* A partition has no more records than commands were applied.
LEMMA WalBound ==
  ASSUME TypeOK, Order, NEW n \in Nodes, NEW p \in PartIDs
  PROVE  Len(wal[n][p]) <= Reach(n) /\ Len(wal[n][p]) <= MaxLog /\ Reach(n) <= Len(log)
<1>1. Len(wal[n][p]) \in Nat /\ Reach(n) \in Nat /\ Reach(n) \in {applied[n], highWater[n]} /\ Len(log) \in Nat
  BY PartFacts, NodeFacts, SetupFacts
<1>2. \A k \in 1..Len(wal[n][p]) : k <= wal[n][p][k].index /\ wal[n][p][k].index <= Reach(n)
  BY DEF Order
<1>3. \A k \in 1..Len(wal[n][p]) : wal[n][p][k].index \in Nat
  BY PartFacts
<1> USE <1>1
<1>4. Reach(n) <= Len(log)
  BY DEF Order
<1>5. Len(log) <= MaxLog /\ MaxLog \in Nat
  BY SetupFacts
<1>6. Len(wal[n][p]) <= Reach(n)
  <2>1. CASE Len(wal[n][p]) = 0
    BY SMT, <2>1
  <2>2. CASE Len(wal[n][p]) # 0
    <3>1. Len(wal[n][p]) \in 1..Len(wal[n][p])
      BY SMT, <2>2
    <3>2. PICK x : x = wal[n][p][Len(wal[n][p])].index
      OBVIOUS
    <3>3. Len(wal[n][p]) <= x /\ x <= Reach(n) /\ x \in Nat
      BY <1>2, <1>3, <3>1, <3>2
    <3>4. QED
      BY SMT, <3>3
  <2>3. QED
    BY <2>1, <2>2
<1>7. QED
  BY SMT, <1>4, <1>5, <1>6

LEMMA CoreInit == Init => Core
<1> SUFFICES ASSUME Init PROVE Core
  OBVIOUS
<1>1. /\ MaxLog \in Nat \ {0} /\ Parts \in Nat \ {0} /\ MaxRestarts \in Nat /\ 0 \in 0..MaxLog /\ 0 \in 0..Parts
      /\ 0 \in 0..MaxRestarts /\ 0 <= MaxLog
      /\ << >> \in Seq(Command) /\ << >> \in Seq(Record) /\ << >> \in Seq(Entry) /\ Len(<< >>) = 0
      /\ \A k \in 1..0 : FALSE
  BY SMT, ReplicationAssumption
<1>2. setup.cap \in Nat \ {0} /\ 0 <= setup.cap
  <2>1. setup \in SetupType
    BY ReplicationAssumption DEF Init
  <2>2. setup.cap \in Nat \ {0}
    BY <2>1 DEF SetupType
  <2>3. QED
    BY SMT, <2>2
<1>3. \A n \in Nodes, p \in PartIDs : wal[n][p] = << >> /\ dedupe[n][p] = << >>
  BY DEF Init
<1>4. \A n \in Nodes : applied[n] = 0 /\ highWater[n] = 0 /\ inflight[n] = {} /\ Reach(n) = 0
  <2>1. \A n \in Nodes : applied[n] = 0 /\ highWater[n] = 0 /\ inflight[n] = {}
    BY DEF Init
  <2>2. QED
    BY <2>1 DEF Reach
<1> USE <1>1, <1>3
<1>5. TypeOK
  <2>1. /\ wal \in [Nodes -> [PartIDs -> Seq(Record)]]
        /\ dedupe \in [Nodes -> [PartIDs -> Seq(Entry)]]
        /\ \A n \in Nodes, p \in PartIDs : Len(dedupe[n][p]) <= setup.cap
    BY <1>2 DEF Init
  <2>2. QED
    BY <2>1 DEF Init, TypeOK
<1>6. Order
  <2>1. DOMAIN << >> = 1..0 /\ 0 <= 0 /\ Len(log) = 0
    BY SMT DEF Init
  <2>2. AppliedOnce
    BY <2>1 DEF AppliedOnce
  <2>3. QED
    BY <1>4, <2>1, <2>2 DEF Order
<1>7. Indexed
  BY <1>2 DEF Indexed, GoodAt, Distinct
<1>8. Opens
  BY <1>4 DEF Opens
<1>9. QED
  BY <1>5, <1>6, <1>7, <1>8 DEF Core

----------------------------------------------------------------------------
(* The steps that write no record. *)

LogGrows == Len(log) <= Len(log') /\ \A i \in 1..Len(log) : log'[i] = log[i]

LEMMA LogAppend ==
  ASSUME TypeOK, NEW cmd \in Command, Propose(cmd)
  PROVE  /\ log' \in Seq(Command) /\ Len(log') = Len(log) + 1 /\ Len(log') <= MaxLog /\ Len(log) + 1 \in 1..MaxLog
         /\ log'[Len(log) + 1] = cmd /\ LogGrows
<1>1. Len(log) < setup.cmds /\ log' = Append(log, cmd)
  BY DEF Propose
<1>2. Len(log) \in Nat /\ setup.cmds \in 0..MaxLog /\ MaxLog \in Nat /\ log \in Seq(Command)
  BY SetupFacts DEF TypeOK
<1>3. /\ log' \in Seq(Command) /\ Len(log') = Len(log) + 1 /\ \A i \in 1..Len(log) : log'[i] = log[i]
      /\ log'[Len(log) + 1] = cmd
  BY SMTT(30), <1>1, <1>2, SeqAppend
<1>4. QED
  BY SMT, <1>1, <1>2, <1>3 DEF LogGrows

\* The records, the index and what was applied are as before.
LEMMA CoreQuiet ==
  ASSUME TypeOK, Order, Indexed, Opens, LogGrows, Len(log') \in Nat,
         UNCHANGED <<setup, applied, highWater, wal, dedupe>>,
         \A n \in Nodes : \A m \in inflight'[n] : m.attempts <= applied[n] + 1,
         \A n \in Nodes : count[n] # 0 => count'[n] # 0
  PROVE  Order' /\ Indexed' /\ Opens'
<1>1. \A n : Reach(n)' = Reach(n)
  BY DEF Reach
<1>2. Order'
  <2>1. \A n \in Nodes : applied'[n] <= Len(log') /\ highWater'[n] <= Len(log')
    <3> SUFFICES ASSUME NEW n \in Nodes PROVE applied[n] <= Len(log') /\ highWater[n] <= Len(log')
      OBVIOUS
    <3>1. applied[n] \in Nat /\ highWater[n] \in Nat /\ Len(log) \in Nat
      BY NodeFacts, SetupFacts
    <3>2. applied[n] <= Len(log) /\ highWater[n] <= Len(log) /\ Len(log) <= Len(log')
      BY DEF Order, LogGrows
    <3>3. QED
      BY SMT, <3>1, <3>2
  <2>2. AppliedOnce'
    BY DEF Order, AppliedOnce
  <2>3. \A n \in Nodes, p \in PartIDs : \A k \in 1..Len(wal'[n][p]) :
           k <= wal'[n][p][k].index /\ wal'[n][p][k].index <= Reach(n)'
    BY <1>1 DEF Order
  <2>4. QED
    BY <2>1, <2>2, <2>3 DEF Order
<1>3. Indexed'
  BY DEF Indexed, GoodAt
<1>4. Opens'
  <2> SUFFICES ASSUME NEW n \in Nodes, NEW i \in 1..Reach(n), log'[i].kind = "pub" PROVE count'[n] # 0
    BY <1>1 DEF Opens
  <2>1. i \in 1..Len(log)
    <3>1. Reach(n) \in Nat /\ Reach(n) \in {applied[n], highWater[n]} /\ Len(log) \in Nat
      BY NodeFacts, SetupFacts
    <3>2. Reach(n) <= Len(log)
      BY <3>1 DEF Order
    <3>3. QED
      BY SMT, <3>1, <3>2
  <2>2. QED
    BY <2>1 DEF Opens, LogGrows
<1>5. QED
  BY <1>2, <1>3, <1>4

LEMMA LogStays == ASSUME TypeOK, UNCHANGED log PROVE LogGrows /\ Len(log') \in Nat
<1>1. Len(log) \in Nat
  BY SetupFacts
<1>2. Len(log) <= Len(log)
  BY SMT, <1>1
<1>3. QED
  BY <1>1, <1>2 DEF LogGrows

LEMMA AttemptsStay ==
  ASSUME Order, UNCHANGED inflight
  PROVE  \A n \in Nodes : \A m \in inflight'[n] : m.attempts <= applied[n] + 1
BY DEF Order

LEMMA CorePublish ==
  ASSUME Core, NEW n \in Nodes, NEW key \in Keys \cup {NoKey}, NEW p \in PartIDs, Publish(n, key, p), UNCHANGED setup
  PROVE  Core'
<1>1. TypeOK /\ Order /\ Indexed /\ Opens
  BY DEF Core
<1>2. count' = [count EXCEPT ![n] = Opened(n)]
  BY DEF Publish
<1> USE <1>1
<1>3. Opened(n) \in 0..Parts /\ Opened(n) # 0
  <2>1. Opened(n) \in 1..Parts /\ Parts \in Nat
    BY NodeFacts, SetupFacts
  <2>2. QED
    BY SMT, <2>1
<1>4. count' \in [Nodes -> 0..Parts] /\ \A m \in Nodes : count[m] # 0 => count'[m] # 0
  BY <1>2, <1>3 DEF TypeOK
<1>5. /\ log' \in Seq(Command) /\ Len(log') <= MaxLog /\ Len(log') \in Nat /\ LogGrows
      /\ waiting' \in [Nodes -> SUBSET (1..MaxLog)]
  <2>1. CASE n = leader
    <3> DEFINE cmd == [kind |-> "pub", part |-> p, key |-> key, id |-> 0]
    <3>1. cmd \in Command
      <4>1. p \in 0..Parts /\ 0 \in IDs
        BY SMT, ReplicationAssumption DEF PartIDs, IDs
      <4>2. QED
        BY <4>1 DEF Command
    <3>2. Propose(cmd) /\ waiting' = [waiting EXCEPT ![n] = @ \cup {Len(log) + 1}]
      BY <2>1 DEF Publish
    <3> HIDE DEF cmd
    <3>3. /\ log' \in Seq(Command) /\ Len(log') = Len(log) + 1 /\ Len(log') <= MaxLog /\ Len(log) + 1 \in 1..MaxLog
          /\ LogGrows
      BY <3>1, <3>2, LogAppend
    <3> USE <3>3
    <3>4. waiting' \in [Nodes -> SUBSET (1..MaxLog)]
      BY <3>2 DEF TypeOK
    <3>5. Len(log') \in Nat
      BY SMT, SeqLen
    <3>6. QED
      BY <3>4, <3>5
  <2>2. CASE n # leader
    <3>1. UNCHANGED <<log, waiting>>
      BY <2>2 DEF Publish
    <3>2. QED
      BY <3>1, LogStays DEF TypeOK
  <2>3. QED
    BY <2>1, <2>2
<1>6. UNCHANGED <<leader, applied, blocked, wal, dedupe, highWater, inflight, acked, saved, oks, restarts>>
  BY DEF Publish
<1>7. TypeOK'
  BY <1>4, <1>5, <1>6 DEF TypeOK
<1>8. Order' /\ Indexed' /\ Opens'
  BY <1>4, <1>5, <1>6, AttemptsStay, CoreQuiet
<1>9. QED
  BY <1>7, <1>8 DEF Core

LEMMA CoreCommand ==
  ASSUME Core, CreateTopic \/ \E kind \in {"ack", "nack"}, p \in PartIDs, id \in IDs : Settle(kind, p, id), UNCHANGED setup
  PROVE  Core'
<1>1. TypeOK /\ Order /\ Indexed /\ Opens
  BY DEF Core
<1>2. PICK cmd \in Command : Propose(cmd)
  <2>1. Parts \in 0..Parts /\ 0 \in IDs /\ \A p \in PartIDs : p \in 0..Parts
    BY SMT, ReplicationAssumption DEF PartIDs, IDs
  <2>2. CASE CreateTopic
    <3>1. [kind |-> "create", part |-> Parts, key |-> NoKey, id |-> 0] \in Command
      BY <2>1 DEF Command
    <3>2. QED
      BY <2>2, <3>1 DEF CreateTopic
  <2>3. CASE \E kind \in {"ack", "nack"}, p \in PartIDs, id \in IDs : Settle(kind, p, id)
    <3>1. PICK kind \in {"ack", "nack"}, p \in PartIDs, id \in IDs : Settle(kind, p, id)
      BY <2>3
    <3>2. [kind |-> kind, part |-> p, key |-> NoKey, id |-> id] \in Command
      BY <2>1 DEF Command
    <3>3. QED
      BY <3>1, <3>2 DEF Settle
  <2>4. QED
    BY <2>2, <2>3
<1>3. UNCHANGED <<leader, applied, blocked, waiting, brokerVars, oks, restarts>>
  BY DEF CreateTopic, Settle
<1> USE <1>1
<1>4. log' \in Seq(Command) /\ Len(log') <= MaxLog /\ LogGrows
  BY <1>2, LogAppend
<1> USE <1>4
<1>5. Len(log') \in Nat
  BY SMT, SeqLen
<1>6. TypeOK'
  BY <1>3 DEF TypeOK, brokerVars
<1>7. Order' /\ Indexed' /\ Opens'
  BY <1>3, <1>5, AttemptsStay, CoreQuiet DEF brokerVars
<1>8. QED
  BY <1>6, <1>7 DEF Core

LEMMA CoreDeliver ==
  ASSUME Core, NEW n \in Nodes, NEW p \in PartIDs, Deliver(n, p), UNCHANGED setup
  PROVE  Core'
<1>1. TypeOK /\ Order /\ Indexed /\ Opens
  BY DEF Core
<1>2. PICK id \in IDs : inflight' = [inflight EXCEPT ![n] = @ \cup {[part |-> p, id |-> id, attempts |-> 1]}]
  BY DEF Deliver
<1>3. PICK msg : msg = [part |-> p, id |-> id, attempts |-> 1]
  OBVIOUS
<1> USE <1>1
<1>4. 1 \in 1..(MaxLog + 1) /\ \A m \in Nodes : 1 <= applied[m] + 1
  <2>1. MaxLog \in Nat /\ \A m \in Nodes : applied[m] \in Nat
    BY SetupFacts, NodeFacts
  <2>2. QED
    BY SMT, <2>1
<1> USE <1>3
<1>5. msg \in Messages /\ msg.attempts = 1
  BY <1>4 DEF Messages
<1>6. UNCHANGED <<log, leader, applied, blocked, waiting, count, wal, dedupe, highWater, acked, saved, oks, restarts>>
  BY DEF Deliver
<1>7. inflight' \in [Nodes -> SUBSET Messages]
  BY <1>2, <1>5 DEF TypeOK
<1>8. \A m \in Nodes : \A x \in inflight'[m] : x.attempts <= applied[m] + 1
  <2> SUFFICES ASSUME NEW m \in Nodes, NEW x \in inflight'[m] PROVE x.attempts <= applied[m] + 1
    OBVIOUS
  <2>1. x \in inflight[m] \/ x = msg
    BY <1>2 DEF TypeOK
  <2>2. QED
    BY <1>4, <1>5, <2>1 DEF Order
<1>9. TypeOK'
  BY <1>6, <1>7 DEF TypeOK
<1>10. Order' /\ Indexed' /\ Opens'
  BY <1>6, <1>8, LogStays, CoreQuiet
<1>11. QED
  BY <1>9, <1>10 DEF Core

LEMMA CoreOthers ==
  ASSUME Core, (\E n \in Nodes : Persist(n) \/ Elect(n)) \/ UNCHANGED state, UNCHANGED setup
  PROVE  Core'
<1>1. TypeOK /\ Order /\ Indexed /\ Opens
  BY DEF Core
<1>2. UNCHANGED <<log, applied, waiting, count, wal, dedupe, highWater, inflight, acked, oks, restarts>>
  BY DEF Persist, Elect, state, brokerVars
<1> USE <1>1
<1>3. saved' \in [Nodes -> SUBSET (PartIDs \X IDs)]
  BY DEF Persist, Elect, TypeOK, state, brokerVars
<1>4. leader' \in Nodes \cup {NoLeader} /\ blocked' \in [Nodes -> BOOLEAN]
  <2>1. CASE UNCHANGED <<leader, blocked>>
    BY <2>1 DEF TypeOK
  <2>2. CASE \E n \in Nodes : Elect(n)
    BY <2>2 DEF Elect, TypeOK
  <2>3. QED
    BY <2>1, <2>2 DEF Persist, state
<1>5. TypeOK'
  BY <1>2, <1>3, <1>4 DEF TypeOK
<1>6. Order' /\ Indexed' /\ Opens'
  BY <1>2, LogStays, AttemptsStay, CoreQuiet
<1>7. QED
  BY <1>5, <1>6 DEF Core

----------------------------------------------------------------------------
(* Apply. *)

LEMMA ReachApply ==
  ASSUME TypeOK, NEW n \in Nodes, applied' = [applied EXCEPT ![n] = applied[n] + 1], highWater' = highWater
  PROVE  /\ \A m \in Nodes : m # n => Reach(m)' = Reach(m)
         /\ applied[n] + 1 <= highWater[n] => Reach(n)' = Reach(n)
         /\ ~ (applied[n] + 1 <= highWater[n]) => Reach(n) = applied[n] /\ Reach(n)' = applied[n] + 1
         /\ \A m \in Nodes : Reach(m)' \in Nat /\ Reach(m) \in Nat /\ Reach(m) <= Reach(m)'
<1>1. applied[n] \in Nat /\ highWater[n] \in Nat /\ applied'[n] = applied[n] + 1
  BY NodeFacts DEF TypeOK
<1>2. /\ applied[n] + 1 <= highWater[n] => Reach(n)' = Reach(n)
      /\ ~ (applied[n] + 1 <= highWater[n]) => Reach(n) = applied[n] /\ Reach(n)' = applied[n] + 1
  BY SMTT(30), <1>1 DEF Reach
<1>3. ASSUME NEW m \in Nodes, m # n PROVE Reach(m)' = Reach(m)
  <2>1. applied'[m] = applied[m]
    BY <1>3 DEF TypeOK
  <2>2. QED
    BY <2>1 DEF Reach
<1>4. ASSUME NEW m \in Nodes PROVE Reach(m)' \in Nat /\ Reach(m) \in Nat /\ Reach(m) <= Reach(m)'
  <2>1. Reach(m) \in Nat
    BY NodeFacts
  <2>2. Reach(m)' = Reach(m) \/ (Reach(m) = applied[n] /\ Reach(m)' = applied[n] + 1)
    BY <1>2, <1>3
  <2>3. QED
    BY SMT, <1>1, <2>1, <2>2
<1>5. QED
  BY <1>2, <1>3, <1>4

\* What Apply of command index may do to the WALs.
Writes(n, index) ==
    \/ UNCHANGED wal
    \/ /\ ~ (index <= highWater[n])
       /\ \E p \in PartIDs, rec \in Record :
            rec.index = index /\ wal' = [wal EXCEPT ![n][p] = Append(@, rec)]

\* Partition p of node n gains the record rec.
Gains(n, p, rec) ==
    /\ wal' \in [Nodes -> [PartIDs -> Seq(Record)]]
    /\ \A m \in Nodes, q \in PartIDs : ~ (m = n /\ q = p) => wal'[m][q] = wal[m][q]
    /\ wal'[n][p] = Append(wal[n][p], rec)
    /\ Len(wal'[n][p]) = Len(wal[n][p]) + 1 /\ Len(wal[n][p]) \in Nat
    /\ \A k \in 1..Len(wal[n][p]) : wal'[n][p][k] = wal[n][p][k]
    /\ wal'[n][p][Len(wal[n][p]) + 1] = rec
    /\ \A k \in 1..(Len(wal[n][p]) + 1) : k \in 1..Len(wal[n][p]) \/ k = Len(wal[n][p]) + 1

LEMMA Appended ==
  ASSUME TypeOK, NEW n \in Nodes, NEW p \in PartIDs, NEW rec \in Record, wal' = [wal EXCEPT ![n][p] = Append(@, rec)]
  PROVE  Gains(n, p, rec)
<1>1. wal \in [Nodes -> [PartIDs -> Seq(Record)]] /\ wal[n][p] \in Seq(Record)
  BY DEF TypeOK
<1> USE <1>1
<1>2. /\ Append(wal[n][p], rec) \in Seq(Record)
      /\ Len(Append(wal[n][p], rec)) = Len(wal[n][p]) + 1 /\ Len(wal[n][p]) \in Nat
      /\ \A k \in 1..Len(wal[n][p]) : Append(wal[n][p], rec)[k] = wal[n][p][k]
      /\ Append(wal[n][p], rec)[Len(wal[n][p]) + 1] = rec
  BY SMTT(30), SeqAppend, SeqLen
<1>3. wal'[n][p] = Append(wal[n][p], rec)
  OBVIOUS
<1>4. \A m \in Nodes, q \in PartIDs : ~ (m = n /\ q = p) => wal'[m][q] = wal[m][q]
  OBVIOUS
<1> USE <1>2
<1>5. wal' \in [Nodes -> [PartIDs -> Seq(Record)]]
  OBVIOUS
<1>6. \A k \in 1..(Len(wal[n][p]) + 1) : k \in 1..Len(wal[n][p]) \/ k = Len(wal[n][p]) + 1
  BY SMT
<1>7. QED
  BY <1>3, <1>4, <1>5, <1>6 DEF Gains

LEMMA OrderApply ==
  ASSUME TypeOK, Order, NEW n \in Nodes, applied' = [applied EXCEPT ![n] = applied[n] + 1], applied[n] < Len(log),
         UNCHANGED <<log, highWater>>, Writes(n, applied[n] + 1),
         \A m \in Nodes : \A x \in inflight'[m] : x.attempts <= applied'[m] + 1
  PROVE  Order'
<1>1. \A m \in Nodes : Reach(m)' \in Nat /\ Reach(m) \in Nat /\ Reach(m) <= Reach(m)'
  BY ReachApply
<1>2. \A m \in Nodes : applied'[m] <= Len(log') /\ highWater'[m] <= Len(log')
  <2>1. applied[n] + 1 <= Len(log) /\ applied'[n] = applied[n] + 1 /\ \A m \in Nodes : m # n => applied'[m] = applied[m]
    <3>1. applied[n] \in Nat /\ Len(log) \in Nat
      BY NodeFacts, SetupFacts
    <3>2. applied[n] + 1 <= Len(log)
      BY SMT, <3>1
    <3>3. QED
      BY <3>2 DEF TypeOK
  <2>2. QED
    BY <2>1 DEF Order
<1>3. CASE UNCHANGED wal
  <2>1. AppliedOnce'
    BY <1>3 DEF Order, AppliedOnce
  <2>2. ASSUME NEW m \in Nodes, NEW q \in PartIDs, NEW k \in 1..Len(wal[m][q])
        PROVE  k <= wal[m][q][k].index /\ wal[m][q][k].index <= Reach(m)'
    <3>1. PICK x : x = wal[m][q][k].index
      OBVIOUS
    <3>2. k <= x /\ x <= Reach(m) /\ x \in Nat
      BY <3>1, PartFacts DEF Order
    <3>3. x <= Reach(m)'
      BY SMT, <1>1, <3>2
    <3>4. QED
      BY <3>1, <3>2, <3>3
  <2>3. QED
    BY <1>2, <1>3, <2>1, <2>2 DEF Order
<1>4. CASE ~ UNCHANGED wal
  <2>1. ~ (applied[n] + 1 <= highWater[n])
    BY <1>4 DEF Writes
  <2>2. PICK p \in PartIDs, rec \in Record :
          rec.index = applied[n] + 1 /\ wal' = [wal EXCEPT ![n][p] = Append(@, rec)]
    BY <1>4 DEF Writes
  <2> DEFINE len == Len(wal[n][p])
  <2>3. /\ \A m \in Nodes, q \in PartIDs : ~ (m = n /\ q = p) => wal'[m][q] = wal[m][q]
        /\ Len(wal'[n][p]) = len + 1 /\ len \in Nat
        /\ \A k \in 1..len : wal'[n][p][k] = wal[n][p][k]
        /\ wal'[n][p][len + 1] = rec
        /\ \A k \in 1..(len + 1) : k \in 1..len \/ k = len + 1
    <3>1. Gains(n, p, rec)
      BY <2>2, Appended
    <3>2. QED
      BY <3>1 DEF Gains
  <2>4. wal' \in [Nodes -> [PartIDs -> Seq(Record)]]
    BY <2>2, Appended DEF Gains
  <2>5. Reach(n) = applied[n] /\ Reach(n)' = applied[n] + 1 /\ applied[n] \in Nat
    BY <2>1, ReachApply, NodeFacts
  <2>6. len <= applied[n]
    BY <2>5, WalBound
  <2>7. ASSUME NEW m \in Nodes, NEW q \in PartIDs, NEW k \in 1..Len(wal[m][q])
        PROVE  k <= wal[m][q][k].index /\ wal[m][q][k].index <= Reach(m)' /\ wal[m][q][k].index <= Reach(m)
    <3>1. PICK x : x = wal[m][q][k].index
      OBVIOUS
    <3>2. k <= x /\ x <= Reach(m) /\ x \in Nat
      BY <3>1, PartFacts DEF Order
    <3>3. x <= Reach(m)'
      BY SMT, <1>1, <3>2
    <3>4. QED
      BY <3>1, <3>2, <3>3
  <2>8. ASSUME NEW m \in Nodes, NEW q \in PartIDs, NEW k \in 1..Len(wal'[m][q])
        PROVE  k <= wal'[m][q][k].index /\ wal'[m][q][k].index <= Reach(m)'
    <3>1. CASE ~ (m = n /\ q = p)
      BY <2>3, <2>7, <3>1
    <3>2. CASE m = n /\ q = p /\ k \in 1..len
      BY <2>3, <2>7, <3>2
    <3>3. CASE m = n /\ q = p /\ k = len + 1
      <4>1. len + 1 <= applied[n] + 1 /\ applied[n] + 1 <= applied[n] + 1
        BY SMT, <2>3, <2>5, <2>6
      <4>2. QED
        BY <2>2, <2>3, <2>5, <3>3, <4>1
    <3>4. QED
      BY <2>3, <3>1, <3>2, <3>3
  <2>9. ASSUME NEW m \in Nodes, NEW q \in PartIDs, NEW i \in 1..Len(wal'[m][q]), NEW j \in 1..Len(wal'[m][q]), i < j
        PROVE  wal'[m][q][i].index < wal'[m][q][j].index
    <3>1. \A a, b \in 1..Len(wal[m][q]) : a < b => wal[m][q][a].index < wal[m][q][b].index
      BY PartFacts DEF Order, AppliedOnce
    <3>2. CASE ~ (m = n /\ q = p)
      BY <2>3, <2>9, <3>1, <3>2
    <3>3. CASE m = n /\ q = p /\ i \in 1..len /\ j \in 1..len
      BY <2>3, <2>9, <3>1, <3>3
    <3>4. CASE m = n /\ q = p /\ i \in 1..len /\ j = len + 1
      <4>1. PICK x : x = wal[n][p][i].index
        OBVIOUS
      <4>2. x <= applied[n]
        BY <2>5, <2>7, <3>4, <4>1
      <4>5. x \in Nat
        BY <3>4, <4>1, PartFacts
      <4>3. x < applied[n] + 1
        BY SMT, <2>5, <4>2, <4>5
      <4>4. QED
        BY <2>2, <2>3, <3>4, <4>1, <4>3
    <3>5. CASE m = n /\ q = p /\ i = len + 1
      <4>1. j \in 1..(len + 1)
        BY <2>3, <3>5
      <4>2. FALSE
        BY SMT, <2>3, <2>9, <3>5, <4>1
      <4>3. QED
        BY <4>2
    <3>6. QED
      BY <2>3, <3>2, <3>3, <3>4, <3>5
  <2>10. AppliedOnce'
    <3>1. \A m \in Nodes, q \in PartIDs : DOMAIN wal'[m][q] = 1..Len(wal'[m][q])
      <4>1. \A m \in Nodes, q \in PartIDs : wal'[m][q] \in Seq(Record)
        BY <2>4
      <4>2. QED
        BY SMT, <4>1, SeqLen
    <3>2. QED
      BY <2>9, <3>1 DEF AppliedOnce
  <2>11. QED
    BY <1>2, <2>8, <2>10 DEF Order
<1>5. QED
  BY <1>3, <1>4

LEMMA OpensApply ==
  ASSUME TypeOK, Order, Opens, NEW n \in Nodes, applied' = [applied EXCEPT ![n] = applied[n] + 1],
         applied[n] < Len(log), UNCHANGED <<log, highWater>>,
         \A m \in Nodes : count[m] # 0 => count'[m] # 0,
         (log[applied[n] + 1].kind = "pub" /\ ~ (applied[n] + 1 <= highWater[n])) => count'[n] # 0
  PROVE  Opens'
<1> SUFFICES ASSUME NEW m \in Nodes, NEW i \in 1..Reach(m)', log[i].kind = "pub" PROVE count'[m] # 0
  BY DEF Opens
<1>1. CASE i \in 1..Reach(m)
  BY <1>1 DEF Opens
<1>2. CASE ~ (i \in 1..Reach(m))
  <2>1. m = n /\ ~ (applied[n] + 1 <= highWater[n])
    BY <1>2, ReachApply
  <2> USE <2>1
  <2>2. Reach(n) = applied[n] /\ Reach(n)' = applied[n] + 1 /\ applied[n] \in Nat
    BY ReachApply, NodeFacts
  <2>3. i \in 1..(applied[n] + 1) /\ ~ (i \in 1..applied[n])
    BY <1>2, <2>2
  <2>4. i = applied[n] + 1
    BY SMT, <2>2, <2>3
  <2>5. QED
    BY <2>4
<1>3. QED
  BY <1>1, <1>2

LEMMA Replace ==
  ASSUME NEW S, NEW f \in [Nodes -> [PartIDs -> S]], NEW g, NEW n \in Nodes, NEW p \in PartIDs, NEW e \in S,
         g = [f EXCEPT ![n][p] = e]
  PROVE  /\ g \in [Nodes -> [PartIDs -> S]] /\ g[n][p] = e
         /\ \A m \in Nodes, q \in PartIDs : ~ (m = n /\ q = p) => g[m][q] = f[m][q]
<1>1. g \in [Nodes -> [PartIDs -> S]]
  OBVIOUS
<1>2. g[n][p] = e
  OBVIOUS
<1>3. ASSUME NEW m \in Nodes, NEW q \in PartIDs, ~ (m = n /\ q = p) PROVE g[m][q] = f[m][q]
  BY <1>3
<1>4. QED
  BY <1>1, <1>2, <1>3

\* Partition.applyPublish's two outcomes.
Hits(n, p, key) ==
    /\ Find(dedupe[n][p], key) > 0
    /\ dedupe' = [dedupe EXCEPT ![n][p] = MoveToFront(dedupe[n][p], Find(dedupe[n][p], key))]
    /\ UNCHANGED wal

Adds(n, p, index, key) ==
    /\ wal' = [wal EXCEPT ![n][p] = Append(@, [index |-> index, key |-> key])]
    /\ dedupe' = [dedupe EXCEPT ![n][p] = IF key = NoKey THEN @ ELSE Insert(@, key, Len(wal[n][p]))]

IndexKept ==
    /\ dedupe' \in [Nodes -> [PartIDs -> Seq(Entry)]]
    /\ \A m \in Nodes, q \in PartIDs : Len(dedupe'[m][q]) <= setup.cap
    /\ Indexed'

\* A publish whose key is in the index refreshes the entry and returns its MsgID.
LEMMA HitStep ==
  ASSUME Core, NEW n \in Nodes, NEW p \in PartIDs, NEW key \in Keys, Hits(n, p, key), UNCHANGED setup
  PROVE  /\ IndexKept
         /\ Find(dedupe[n][p], key) \in 1..Len(dedupe[n][p])
         /\ dedupe[n][p][Find(dedupe[n][p], key)].key = key
         /\ dedupe[n][p][Find(dedupe[n][p], key)].id \in IDs
<1>1. PICK lru : lru = dedupe[n][p]
  OBVIOUS
<1>2. PICK i : i = Find(lru, key)
  OBVIOUS
<1>3. lru \in Seq(Entry) /\ dedupe \in [Nodes -> [PartIDs -> Seq(Entry)]] /\ i > 0
  BY <1>1, <1>2 DEF Core, TypeOK, Hits
<1>4. i \in 1..Len(lru) /\ lru[i].key = key
  BY SMTT(30), <1>2, <1>3, FindFacts
<1>5. lru[i] \in Entry
  BY <1>3, <1>4, SeqLen
<1>6. lru[i].id \in IDs
  BY <1>5 DEF Entry
<1>7. GoodAt(lru, wal[n][p], Len(wal[n][p]))
  BY <1>1 DEF Core, Indexed
<1>8. GoodAt(MoveToFront(lru, i), wal[n][p], Len(wal[n][p]))
  BY <1>4, <1>7, GoodMove
<1>9. MoveToFront(lru, i) \in Seq(Entry)
  BY <1>8 DEF GoodAt
<1>10. dedupe' = [dedupe EXCEPT ![n][p] = MoveToFront(lru, i)]
  BY <1>1, <1>2 DEF Hits
<1>11. /\ dedupe' \in [Nodes -> [PartIDs -> Seq(Entry)]] /\ dedupe'[n][p] = MoveToFront(lru, i)
       /\ \A m \in Nodes, q \in PartIDs : ~ (m = n /\ q = p) => dedupe'[m][q] = dedupe[m][q]
  BY SMTT(30), <1>3, <1>9, <1>10, Replace
<1>12. \A m \in Nodes, q \in PartIDs : GoodAt(dedupe'[m][q], wal[m][q], Len(wal[m][q]))
  BY <1>8, <1>11 DEF Core, Indexed
<1>13. Indexed'
  BY <1>12 DEF Indexed, GoodAt, Hits
<1>14. \A m \in Nodes, q \in PartIDs : Len(dedupe'[m][q]) <= setup.cap
  BY <1>12 DEF GoodAt
<1>15. QED
  BY <1>1, <1>2, <1>4, <1>6, <1>11, <1>13, <1>14 DEF IndexKept

\* Any other publish adds a record, whose position is its MsgID.
LEMMA AppendStep ==
  ASSUME Core, NEW n \in Nodes, NEW p \in PartIDs, NEW key \in Keys \cup {NoKey},
         Reach(n) < Len(log), NEW index \in 1..MaxLog, Adds(n, p, index, key), UNCHANGED setup
  PROVE  Gains(n, p, [index |-> index, key |-> key]) /\ IndexKept /\ Len(wal[n][p]) \in IDs
<1>1. TypeOK /\ Order /\ Indexed
  BY DEF Core
<1>2. PICK rec : rec = [index |-> index, key |-> key]
  OBVIOUS
<1> USE <1>2
<1>3. rec \in Record /\ rec.key = key
  BY SMTT(30) DEF Record
<1> USE <1>1
<1>4. Gains(n, p, rec)
  BY <1>3, Appended DEF Adds
<1>5. PICK lru : lru = dedupe[n][p]
  OBVIOUS
<1>6. PICK len : len = Len(wal[n][p])
  OBVIOUS
<1> USE <1>6
<1>7. len \in IDs /\ len \in Nat
  <2>1. len <= Reach(n) /\ len \in Nat /\ Reach(n) \in Nat /\ Len(log) \in Nat /\ Len(log) <= MaxLog /\ MaxLog \in Nat
    BY WalBound, PartFacts, NodeFacts, SetupFacts
  <2>2. QED
    BY SMT, <2>1 DEF IDs
<1> USE <1>5
<1>8. lru \in Seq(Entry) /\ dedupe \in [Nodes -> [PartIDs -> Seq(Entry)]] /\ setup.cap \in Nat \ {0}
  BY SetupFacts DEF TypeOK
<1>9. GoodAt(lru, wal[n][p], len)
  BY DEF Indexed
<1>10. PICK t : t = IF key = NoKey THEN lru ELSE Insert(lru, key, len)
  OBVIOUS
<1> USE <1>10, <1>4, <1>7
<1>11. GoodAt(t, wal'[n][p], len + 1)
  <2>1. \A k \in 1..len : wal'[n][p][k] = wal[n][p][k]
    BY DEF Gains
  <2>2. len <= len /\ len + 1 \in Nat /\ len <= len + 1
    BY SMT
  <2>3. CASE key = NoKey
    BY <1>9, <2>1, <2>2, <2>3, GoodSame
  <2>4. CASE key # NoKey
    <3>1. GoodAt(lru, wal'[n][p], len)
      BY <1>9, <2>1, <2>2, GoodSame
    <3>2. wal'[n][p][len + 1].key = key /\ key \in Keys
      BY <1>3, <2>4 DEF Gains
    <3>3. QED
      BY <1>8, <2>4, <3>1, <3>2, GoodInsert
  <2>5. QED
    BY <2>3, <2>4
<1>12. t \in Seq(Entry)
  BY <1>11 DEF GoodAt
<1>13. dedupe' = [dedupe EXCEPT ![n][p] = t]
  BY DEF Adds
<1>14. /\ dedupe' \in [Nodes -> [PartIDs -> Seq(Entry)]] /\ dedupe'[n][p] = t
       /\ \A m \in Nodes, q \in PartIDs : ~ (m = n /\ q = p) => dedupe'[m][q] = dedupe[m][q]
  BY SMTT(30), <1>8, <1>12, <1>13, Replace
<1> USE <1>14
<1>15. \A m \in Nodes, q \in PartIDs : GoodAt(dedupe'[m][q], wal'[m][q], Len(wal'[m][q]))
  <2> SUFFICES ASSUME NEW m \in Nodes, NEW q \in PartIDs PROVE GoodAt(dedupe'[m][q], wal'[m][q], Len(wal'[m][q]))
    OBVIOUS
  <2>1. CASE m = n /\ q = p
    BY <1>11, <2>1 DEF Gains
  <2>2. CASE ~ (m = n /\ q = p)
    BY <2>2 DEF Gains, Indexed
  <2>3. QED
    BY <2>1, <2>2
<1>16. Indexed'
  BY <1>15 DEF Indexed, GoodAt
<1>17. \A m \in Nodes, q \in PartIDs : Len(dedupe'[m][q]) <= setup.cap
  BY <1>15 DEF GoodAt
<1>18. QED
  BY <1>16, <1>17 DEF IndexKept

\* What is left to show of a step of Apply.
LEMMA ApplyEnds ==
  ASSUME TypeOK, Order, Opens, NEW n \in Nodes, applied[n] < Len(log),
         applied' = [applied EXCEPT ![n] = applied[n] + 1],
         UNCHANGED <<setup, log, leader, restarts, highWater, saved>>, Writes(n, applied[n] + 1),
         blocked' \in [Nodes -> BOOLEAN], waiting' \in [Nodes -> SUBSET (1..MaxLog)], count' \in [Nodes -> 0..Parts],
         wal' \in [Nodes -> [PartIDs -> Seq(Record)]], dedupe' \in [Nodes -> [PartIDs -> Seq(Entry)]],
         \A m \in Nodes, p \in PartIDs : Len(dedupe'[m][p]) <= setup.cap,
         inflight' \in [Nodes -> SUBSET Messages], acked' \in [Nodes -> SUBSET (PartIDs \X IDs)],
         oks' \subseteq [index : 1..MaxLog, part : PartIDs, id : IDs],
         \A m \in Nodes : \A x \in inflight'[m] : x.attempts <= applied'[m] + 1,
         \A m \in Nodes : count[m] # 0 => count'[m] # 0,
         (log[applied[n] + 1].kind = "pub" /\ ~ (applied[n] + 1 <= highWater[n])) => count'[n] # 0,
         Indexed'
  PROVE  Core'
<1>1. Order'
  BY OrderApply
<1>2. Opens'
  BY OpensApply
<1>3. applied' \in [Nodes -> 0..MaxLog]
  <2>1. applied[n] \in Nat /\ Len(log) \in Nat /\ Len(log) <= MaxLog /\ MaxLog \in Nat
    BY NodeFacts, SetupFacts
  <2>2. applied[n] + 1 \in 0..MaxLog
    BY SMT, <2>1
  <2>3. QED
    BY <2>2 DEF TypeOK
<1>4. TypeOK'
  <2>1. /\ setup' \in Setups /\ log' \in Seq(Command) /\ Len(log') <= MaxLog /\ leader' \in Nodes \cup {NoLeader}
        /\ highWater' \in [Nodes -> 0..MaxLog] /\ saved' \in [Nodes -> SUBSET (PartIDs \X IDs)]
        /\ restarts' \in 0..MaxRestarts
    BY DEF TypeOK
  <2>2. \A m \in Nodes, p \in PartIDs : Len(dedupe'[m][p]) <= setup'.cap
    OBVIOUS
  <2>3. QED
    BY <1>3, <2>1, <2>2 DEF TypeOK
<1>5. QED
  BY <1>1, <1>2, <1>4 DEF Core

LEMMA ApplyFacts ==
  ASSUME TypeOK, NEW n \in Nodes, Apply(n)
  PROVE  /\ applied[n] < Len(log) /\ applied' = [applied EXCEPT ![n] = applied[n] + 1]
         /\ applied[n] + 1 \in 1..Len(log) /\ applied[n] + 1 \in 1..MaxLog
         /\ log[applied[n] + 1] \in Command /\ applied'[n] = applied[n] + 1
         /\ \A m \in Nodes : m # n => applied'[m] = applied[m]
         /\ \A m \in Nodes, x \in Nat : x <= applied[m] + 1 => x <= applied'[m] + 1
         /\ UNCHANGED <<log, leader, restarts>>
<1>1. /\ applied[n] < Len(log) /\ applied' = [applied EXCEPT ![n] = applied[n] + 1]
      /\ UNCHANGED <<log, leader, restarts>>
  BY DEF Apply
<1>2. applied[n] \in Nat /\ Len(log) \in Nat /\ Len(log) <= MaxLog /\ MaxLog \in Nat /\ \A i \in 1..Len(log) : log[i] \in Command
  BY NodeFacts, SetupFacts
<1> USE <1>1
<1>3. applied[n] + 1 \in 1..Len(log) /\ applied[n] + 1 \in 1..MaxLog
  BY SMT, <1>2
<1>4. applied'[n] = applied[n] + 1 /\ \A m \in Nodes : m # n => applied'[m] = applied[m]
  BY DEF TypeOK
<1>5. ASSUME NEW m \in Nodes, NEW x \in Nat, x <= applied[m] + 1 PROVE x <= applied'[m] + 1
  <2>1. applied'[m] \in {applied[m], applied[m] + 1} /\ applied[m] \in Nat
    BY <1>4, NodeFacts
  <2>2. QED
    BY SMT, <1>5, <2>1
<1>6. QED
  BY <1>2, <1>3, <1>4, <1>5

LEMMA AttemptsApply ==
  ASSUME TypeOK, Order, NEW n \in Nodes, Apply(n), UNCHANGED inflight
  PROVE  \A m \in Nodes : \A x \in inflight'[m] : x.attempts <= applied'[m] + 1
<1> SUFFICES ASSUME NEW m \in Nodes, NEW x \in inflight[m] PROVE x.attempts <= applied'[m] + 1
  OBVIOUS
<1>1. x.attempts <= applied[m] + 1
  BY DEF Order
<1>2. x.attempts \in Nat
  <2>1. x \in Messages
    BY DEF TypeOK
  <2>2. x.attempts \in 1..MaxLog + 1
    BY <2>1 DEF Messages
  <2>3. QED
    BY SMT, <2>2, ReplicationAssumption
<1>3. QED
  BY <1>1, <1>2, ApplyFacts

LEMMA OpenedCount ==
  ASSUME TypeOK, NEW n \in Nodes, count' = [count EXCEPT ![n] = Opened(n)]
  PROVE  /\ count' \in [Nodes -> 0..Parts] /\ count'[n] # 0
         /\ \A m \in Nodes : count[m] # 0 => count'[m] = count[m]
         /\ \A m \in Nodes : count[m] # 0 => count'[m] # 0
<1>1. Opened(n) \in 1..Parts /\ Opened(n) # 0 /\ (count[n] # 0 => Opened(n) = count[n])
  BY NodeFacts
<1>2. Opened(n) \in 0..Parts
  BY SMT, <1>1, SetupFacts
<1>3. QED
  BY <1>1, <1>2 DEF TypeOK

\* What Answer and Forget leave.
LEMMA AnswerTypes ==
  ASSUME TypeOK, NEW n \in Nodes, NEW index \in 1..MaxLog, NEW p \in PartIDs, NEW id \in IDs,
         Answer(n, index, p, id) \/ Forget(n, index)
  PROVE  /\ waiting' \in [Nodes -> SUBSET (1..MaxLog)]
         /\ oks' \subseteq [index : 1..MaxLog, part : PartIDs, id : IDs]
<1>1. waiting' = [waiting EXCEPT ![n] = @ \ {index}]
  BY DEF Answer, Forget
<1>2. waiting' \in [Nodes -> SUBSET (1..MaxLog)]
  BY <1>1 DEF TypeOK
<1>3. oks' \subseteq oks \cup {[index |-> index, part |-> p, id |-> id]}
  BY DEF Answer, Forget
<1>4. [index |-> index, part |-> p, id |-> id] \in [index : 1..MaxLog, part : PartIDs, id : IDs]
  BY SMTT(30)
<1>5. QED
  BY <1>2, <1>3, <1>4 DEF TypeOK

LEMMA CoreApplyPublish ==
  ASSUME Core, NEW n \in Nodes, Apply(n), UNCHANGED setup, log[applied[n] + 1].kind = "pub",
         ApplyPublish(n, applied[n] + 1, log[applied[n] + 1])
  PROVE  Core'
<1>1. TypeOK /\ Order /\ Indexed /\ Opens
  BY DEF Core
<1>2. PICK index : index = applied[n] + 1
  OBVIOUS
<1>3. PICK cmd : cmd = log[index]
  OBVIOUS
<1>4. index \in 1..MaxLog /\ cmd \in Command /\ ApplyPublish(n, index, cmd)
  BY <1>1, <1>2, <1>3, ApplyFacts
<1>5. /\ blocked' \in [Nodes -> BOOLEAN] /\ inflight' \in [Nodes -> SUBSET Messages]
      /\ acked' \in [Nodes -> SUBSET (PartIDs \X IDs)] /\ UNCHANGED <<highWater, saved, inflight>>
  BY <1>1, <1>4 DEF ApplyPublish, brokerVars, TypeOK
<1>6. \A m \in Nodes : \A x \in inflight'[m] : x.attempts <= applied'[m] + 1
  BY <1>1, <1>5, AttemptsApply
<1>7. 0 \in PartIDs /\ 0 \in IDs
  BY SMT, ReplicationAssumption DEF PartIDs, IDs
<1>8. CASE Replayed(n, index)
  <2>1. Forget(n, index) /\ UNCHANGED <<wal, dedupe, count>>
    BY <1>4, <1>8 DEF ApplyPublish, brokerVars
  <2>2. Indexed'
    BY <1>1, <2>1 DEF Indexed, GoodAt
  <2>3. waiting' \in [Nodes -> SUBSET (1..MaxLog)] /\ oks' \subseteq [index : 1..MaxLog, part : PartIDs, id : IDs]
    BY <1>1, <1>4, <1>7, <2>1, AnswerTypes
  <2>4. /\ wal' \in [Nodes -> [PartIDs -> Seq(Record)]] /\ dedupe' \in [Nodes -> [PartIDs -> Seq(Entry)]]
        /\ \A m \in Nodes, p \in PartIDs : Len(dedupe'[m][p]) <= setup.cap
        /\ count' \in [Nodes -> 0..Parts] /\ Writes(n, applied[n] + 1)
    BY <1>1, <2>1 DEF TypeOK, Writes
  <2>5. ~ (log[applied[n] + 1].kind = "pub" /\ ~ (applied[n] + 1 <= highWater[n]))
    BY <1>2, <1>8 DEF Replayed
  <2>6. QED
    BY <1>1, <1>5, <1>6, <2>1, <2>2, <2>3, <2>4, <2>5, ApplyFacts, ApplyEnds
<1>9. CASE ~ Replayed(n, index)
  <2>1. count' = [count EXCEPT ![n] = Opened(n)]
    BY <1>4, <1>9 DEF ApplyPublish
  <2>2. count' \in [Nodes -> 0..Parts] /\ count'[n] # 0 /\ \A m \in Nodes : count[m] # 0 => count'[m] # 0
    BY <1>1, <2>1, OpenedCount
  <2>3. ~ (index <= highWater[n])
    BY <1>9 DEF Replayed
  <2>4. CASE cmd.part < Opened(n)
    <3>1. PICK p : p = cmd.part
      OBVIOUS
    <3>2. PICK key : key = cmd.key
      OBVIOUS
    <3>3. p \in PartIDs /\ key \in Keys \cup {NoKey}
      <4>1. cmd.part \in 0..Parts /\ cmd.key \in Keys \cup {NoKey} /\ Opened(n) \in 1..Parts
        BY <1>1, <1>4, NodeFacts DEF Command
      <4>2. cmd.part \in PartIDs
        BY SMT, <2>4, <4>1, ReplicationAssumption DEF PartIDs
      <4>3. QED
        BY <3>1, <3>2, <4>1, <4>2
    <3>4. ApplyToPartition(n, index, p, key)
      BY <1>4, <1>9, <2>4, <3>1, <3>2 DEF ApplyPublish
    <3>5. CASE key # NoKey /\ Find(dedupe[n][p], key) > 0
      <4>1. /\ dedupe' = [dedupe EXCEPT ![n][p] = MoveToFront(dedupe[n][p], Find(dedupe[n][p], key))]
            /\ Answer(n, index, p, dedupe[n][p][Find(dedupe[n][p], key)].id)
            /\ UNCHANGED wal
        BY <3>4, <3>5 DEF ApplyToPartition
      <4>2. key \in Keys
        BY <3>3, <3>5
      <4>3. IndexKept /\ dedupe[n][p][Find(dedupe[n][p], key)].id \in IDs
        <5>1. Hits(n, p, key)
          BY <3>5, <4>1 DEF Hits
        <5>2. QED
          BY <3>3, <4>2, <5>1, HitStep
      <4>4. waiting' \in [Nodes -> SUBSET (1..MaxLog)] /\ oks' \subseteq [index : 1..MaxLog, part : PartIDs, id : IDs]
        BY <1>1, <1>4, <3>3, <4>1, <4>3, AnswerTypes
      <4>5. wal' \in [Nodes -> [PartIDs -> Seq(Record)]] /\ Writes(n, applied[n] + 1)
        BY <1>1, <4>1 DEF TypeOK, Writes
      <4>6. QED
        BY <1>1, <1>5, <1>6, <2>2, <4>3, <4>4, <4>5, ApplyFacts, ApplyEnds DEF IndexKept
    <3>6. CASE ~ (key # NoKey /\ Find(dedupe[n][p], key) > 0)
      <4>1. /\ wal' = [wal EXCEPT ![n][p] = Append(@, [index |-> index, key |-> key])]
            /\ dedupe' = [dedupe EXCEPT ![n][p] = IF key = NoKey THEN @ ELSE Insert(@, key, Len(wal[n][p]))]
            /\ Answer(n, index, p, Len(wal[n][p]))
        BY <3>4, <3>6 DEF ApplyToPartition
      <4>2. Reach(n) < Len(log)
        <5>1. Reach(n) = applied[n] /\ applied[n] < Len(log)
          BY <1>1, <1>2, <1>5, <2>3, ReachApply, ApplyFacts
        <5>2. QED
          BY <5>1
      <4>3. Gains(n, p, [index |-> index, key |-> key]) /\ IndexKept /\ Len(wal[n][p]) \in IDs
        <5>1. Adds(n, p, index, key)
          BY <4>1 DEF Adds
        <5>2. QED
          BY <1>4, <3>3, <4>2, <5>1, AppendStep
      <4>4. waiting' \in [Nodes -> SUBSET (1..MaxLog)] /\ oks' \subseteq [index : 1..MaxLog, part : PartIDs, id : IDs]
        BY <1>1, <1>4, <3>3, <4>1, <4>3, AnswerTypes
      <4>5. wal' \in [Nodes -> [PartIDs -> Seq(Record)]]
        BY <4>3 DEF Gains
      <4>6. Writes(n, applied[n] + 1)
        <5>1. PICK rec : rec = [index |-> index, key |-> key]
          OBVIOUS
        <5>2. rec \in Record /\ rec.index = index
          BY SMTT(30), <1>4, <3>3, <5>1 DEF Record
        <5>3. wal' = [wal EXCEPT ![n][p] = Append(@, rec)]
          BY <4>1, <5>1
        <5>4. QED
          BY <1>2, <2>3, <3>3, <5>2, <5>3 DEF Writes
      <4>7. QED
        BY <1>1, <1>5, <1>6, <2>2, <4>3, <4>4, <4>5, <4>6, ApplyFacts, ApplyEnds DEF IndexKept
    <3>7. QED
      BY <3>5, <3>6
  <2>5. CASE ~ (cmd.part < Opened(n))
    <3>1. Forget(n, index) /\ UNCHANGED <<wal, dedupe>>
      BY <1>4, <1>9, <2>5 DEF ApplyPublish
    <3>2. Indexed'
      BY <1>1, <3>1 DEF Indexed, GoodAt
    <3>3. waiting' \in [Nodes -> SUBSET (1..MaxLog)] /\ oks' \subseteq [index : 1..MaxLog, part : PartIDs, id : IDs]
      BY <1>1, <1>4, <1>7, <3>1, AnswerTypes
    <3>4. /\ wal' \in [Nodes -> [PartIDs -> Seq(Record)]] /\ dedupe' \in [Nodes -> [PartIDs -> Seq(Entry)]]
          /\ \A m \in Nodes, p \in PartIDs : Len(dedupe'[m][p]) <= setup.cap
          /\ Writes(n, applied[n] + 1)
      BY <1>1, <3>1 DEF TypeOK, Writes
    <3>5. QED
      BY <1>1, <1>5, <1>6, <2>2, <3>2, <3>3, <3>4, ApplyFacts, ApplyEnds
  <2>6. QED
    BY <2>4, <2>5
<1>10. QED
  BY <1>8, <1>9

LEMMA CoreApplyAck ==
  ASSUME Core, NEW n \in Nodes, Apply(n), UNCHANGED setup, log[applied[n] + 1].kind = "ack",
         ApplyAck(n, log[applied[n] + 1])
  PROVE  Core'
<1>1. TypeOK /\ Order /\ Indexed /\ Opens
  BY DEF Core
<1>2. PICK M : M = Sent(n, log[applied[n] + 1].part, log[applied[n] + 1].id)
  OBVIOUS
<1>3. /\ count' = [count EXCEPT ![n] = Opened(n)]
      /\ inflight' = [inflight EXCEPT ![n] = @ \ M]
      /\ acked' = [acked EXCEPT ![n] = @ \cup {<<x.part, x.id>> : x \in M}]
      /\ UNCHANGED <<wal, dedupe, highWater, saved, waiting, oks, blocked>>
  BY <1>2 DEF ApplyAck
<1> USE <1>1, <1>3
<1>4. count' \in [Nodes -> 0..Parts] /\ count'[n] # 0 /\ \A m \in Nodes : count[m] # 0 => count'[m] # 0
  BY OpenedCount
<1>5. inflight' \in [Nodes -> SUBSET Messages] /\ \A m \in Nodes : inflight'[m] \subseteq inflight[m]
  BY DEF TypeOK
<1>6. acked' \in [Nodes -> SUBSET (PartIDs \X IDs)]
  <2>1. \A x \in M : x \in Messages
    BY <1>2 DEF TypeOK, Sent
  <2>2. \A x \in M : <<x.part, x.id>> \in PartIDs \X IDs
    BY <2>1 DEF Messages
  <2>3. PICK new : new = {<<x.part, x.id>> : x \in M}
    OBVIOUS
  <2>4. new \subseteq PartIDs \X IDs
    BY <2>2, <2>3
  <2>5. acked' = [acked EXCEPT ![n] = @ \cup new] /\ acked \in [Nodes -> SUBSET (PartIDs \X IDs)]
    BY <2>3 DEF TypeOK
  <2>6. QED
    BY <2>4, <2>5
<1>7. \A m \in Nodes : \A x \in inflight'[m] : x.attempts <= applied'[m] + 1
  <2> SUFFICES ASSUME NEW m \in Nodes, NEW x \in inflight'[m] PROVE x.attempts <= applied'[m] + 1
    OBVIOUS
  <2>1. x \in inflight[m] /\ x \in Messages
    BY <1>5
  <2>2. x.attempts <= applied[m] + 1
    BY <2>1 DEF Order
  <2>3. x.attempts \in 1..MaxLog + 1
    BY <2>1 DEF Messages
  <2>4. x.attempts \in Nat
    BY SMT, <2>3, ReplicationAssumption
  <2>5. QED
    BY <2>2, <2>4, ApplyFacts
<1>8. Indexed'
  BY DEF Indexed, GoodAt
<1>9. /\ wal' \in [Nodes -> [PartIDs -> Seq(Record)]] /\ dedupe' \in [Nodes -> [PartIDs -> Seq(Entry)]]
      /\ \A m \in Nodes, p \in PartIDs : Len(dedupe'[m][p]) <= setup.cap
      /\ blocked' \in [Nodes -> BOOLEAN] /\ waiting' \in [Nodes -> SUBSET (1..MaxLog)]
      /\ oks' \subseteq [index : 1..MaxLog, part : PartIDs, id : IDs] /\ Writes(n, applied[n] + 1)
  BY DEF TypeOK, Writes
<1>10. UNCHANGED <<highWater, saved>>
  OBVIOUS
<1>11. QED
  BY <1>4, <1>5, <1>6, <1>7, <1>8, <1>9, <1>10, ApplyFacts, ApplyEnds

LEMMA CoreApplyNack ==
  ASSUME Core, NEW n \in Nodes, Apply(n), UNCHANGED setup, log[applied[n] + 1].kind = "nack",
         ApplyNack(n, log[applied[n] + 1])
  PROVE  Core'
<1>1. TypeOK /\ Order /\ Indexed /\ Opens
  BY DEF Core
<1>2. PICK M : M = Sent(n, log[applied[n] + 1].part, log[applied[n] + 1].id)
  OBVIOUS
<1>3. PICK dead : dead = {x \in M : setup.dlq > 0 /\ x.attempts >= setup.dlq}
  OBVIOUS
<1>4. PICK back : back = {[x EXCEPT !.attempts = @ + 1] : x \in M \ dead}
  OBVIOUS
<1>5. /\ count' = [count EXCEPT ![n] = Opened(n)]
      /\ inflight' = [inflight EXCEPT ![n] = (@ \ M) \cup back]
      /\ DlqMove(n, dead)
      /\ UNCHANGED <<wal, dedupe, highWater, acked, saved, waiting, oks>>
  BY <1>2, <1>3, <1>4 DEF ApplyNack
<1>6. count' \in [Nodes -> 0..Parts] /\ count'[n] # 0 /\ \A m \in Nodes : count[m] # 0 => count'[m] # 0
  BY <1>1, <1>5, OpenedCount
<1>7. blocked' \in [Nodes -> BOOLEAN]
  BY <1>1, <1>5 DEF DlqMove, TypeOK
<1>8. ASSUME NEW y \in back PROVE y \in Messages /\ y.attempts <= applied[n] + 2
  <2>1. PICK x \in M : y = [x EXCEPT !.attempts = @ + 1]
    BY <1>4
  <2>2. x \in inflight[n]
    BY <1>2 DEF Sent
  <2>3. x \in Messages /\ x.attempts <= applied[n] + 1
    BY <1>1, <2>2 DEF TypeOK, Order
  <2> USE <2>3
  <2>4. x = [part |-> x.part, id |-> x.id, attempts |-> x.attempts] /\ x.part \in PartIDs /\ x.id \in IDs /\ x.attempts \in 1..MaxLog + 1
    BY SMTT(30) DEF Messages
  <2>5. y = [part |-> x.part, id |-> x.id, attempts |-> x.attempts + 1]
    BY SMTT(30), <2>1 DEF Messages
  <2>6. x.attempts + 1 \in 1..MaxLog + 1 /\ x.attempts + 1 <= applied[n] + 2
    <3>1. applied[n] + 1 \in 1..MaxLog /\ applied[n] \in Nat /\ MaxLog \in Nat
      BY <1>1, ApplyFacts, NodeFacts, SetupFacts
    <3>2. QED
      BY SMT, <2>4, <3>1
  <2>7. QED
    BY <2>4, <2>5, <2>6 DEF Messages
<1>9. /\ inflight' \in [Nodes -> SUBSET Messages] /\ inflight'[n] = (inflight[n] \ M) \cup back
      /\ \A m \in Nodes : m # n => inflight'[m] = inflight[m]
  <2>1. inflight \in [Nodes -> SUBSET Messages]
    BY <1>1 DEF TypeOK
  <2>2. (inflight[n] \ M) \cup back \in SUBSET Messages
    BY <1>8, <2>1
  <2>3. QED
    BY <1>5, <2>1, <2>2
<1>10. \A m \in Nodes : \A x \in inflight'[m] : x.attempts <= applied'[m] + 1
  <2> SUFFICES ASSUME NEW m \in Nodes, NEW x \in inflight'[m] PROVE x.attempts <= applied'[m] + 1
    OBVIOUS
  <2>1. CASE x \in inflight[m]
    <3>1. x \in Messages /\ x.attempts <= applied[m] + 1
      BY <1>1, <2>1 DEF Order, TypeOK
    <3>2. x.attempts \in 1..MaxLog + 1
      BY <3>1 DEF Messages
    <3>3. x.attempts \in Nat
      BY SMT, <3>2, ReplicationAssumption
    <3>4. QED
      BY <1>1, <3>1, <3>3, ApplyFacts
  <2>2. CASE ~ (x \in inflight[m])
    <3>1. m = n /\ x \in back
      BY <1>9, <2>2
    <3>2. x.attempts <= applied[n] + 2 /\ applied'[n] = applied[n] + 1 /\ applied[n] \in Nat
      BY <1>1, <1>8, <3>1, ApplyFacts, NodeFacts
    <3>3. applied[n] + 2 = (applied[n] + 1) + 1
      BY SMT, <3>2
    <3>4. QED
      BY <3>1, <3>2, <3>3
  <2>3. QED
    BY <2>1, <2>2
<1>11. Indexed'
  BY <1>1, <1>5 DEF Indexed, GoodAt
<1>12. /\ wal' \in [Nodes -> [PartIDs -> Seq(Record)]] /\ dedupe' \in [Nodes -> [PartIDs -> Seq(Entry)]]
       /\ \A m \in Nodes, p \in PartIDs : Len(dedupe'[m][p]) <= setup.cap
       /\ acked' \in [Nodes -> SUBSET (PartIDs \X IDs)] /\ waiting' \in [Nodes -> SUBSET (1..MaxLog)]
       /\ oks' \subseteq [index : 1..MaxLog, part : PartIDs, id : IDs] /\ Writes(n, applied[n] + 1)
  BY <1>1, <1>5 DEF TypeOK, Writes
<1>13. UNCHANGED <<highWater, saved>>
  BY <1>5
<1>14. QED
  BY <1>1, <1>6, <1>7, <1>9, <1>10, <1>11, <1>12, <1>13, ApplyFacts, ApplyEnds

LEMMA CoreApply ==
  ASSUME Core, NEW n \in Nodes, Apply(n), UNCHANGED setup
  PROVE  Core'
<1>1. TypeOK /\ Order /\ Indexed /\ Opens
  BY DEF Core
<1>2. CASE log[applied[n] + 1].kind = "pub" /\ ApplyPublish(n, applied[n] + 1, log[applied[n] + 1])
  BY <1>2, CoreApplyPublish
<1>3. CASE log[applied[n] + 1].kind = "ack" /\ ApplyAck(n, log[applied[n] + 1])
  BY <1>3, CoreApplyAck
<1>4. CASE log[applied[n] + 1].kind = "nack" /\ ApplyNack(n, log[applied[n] + 1])
  BY <1>4, CoreApplyNack
<1>5. CASE log[applied[n] + 1].kind = "create" /\ ApplyCreateTopic(n, log[applied[n] + 1])
  <2>1. PICK cmd : cmd = log[applied[n] + 1]
    OBVIOUS
  <2> USE <1>1
  <2>2. cmd.part \in 0..Parts
    BY <2>1, ApplyFacts DEF Command
  <2>3. /\ count' = [count EXCEPT ![n] = IF @ = 0 THEN cmd.part ELSE @]
        /\ UNCHANGED <<wal, dedupe, highWater, inflight, acked, saved, waiting, oks, blocked>>
    BY <1>5, <2>1 DEF ApplyCreateTopic
  <2> USE <2>3
  <2>4. count' \in [Nodes -> 0..Parts] /\ \A m \in Nodes : count[m] # 0 => count'[m] # 0
    BY <2>2 DEF TypeOK
  <2>5. Indexed'
    BY DEF Indexed, GoodAt
  <2>6. /\ wal' \in [Nodes -> [PartIDs -> Seq(Record)]] /\ dedupe' \in [Nodes -> [PartIDs -> Seq(Entry)]]
        /\ \A m \in Nodes, p \in PartIDs : Len(dedupe'[m][p]) <= setup.cap
        /\ acked' \in [Nodes -> SUBSET (PartIDs \X IDs)] /\ waiting' \in [Nodes -> SUBSET (1..MaxLog)]
        /\ blocked' \in [Nodes -> BOOLEAN] /\ inflight' \in [Nodes -> SUBSET Messages]
        /\ oks' \subseteq [index : 1..MaxLog, part : PartIDs, id : IDs] /\ Writes(n, applied[n] + 1)
    BY DEF TypeOK, Writes
  <2>7. \A m \in Nodes : \A x \in inflight'[m] : x.attempts <= applied'[m] + 1
    BY AttemptsApply
  <2>8. UNCHANGED <<highWater, saved>> /\ log[applied[n] + 1].kind # "pub"
    BY <1>5
  <2>9. QED
    BY <2>4, <2>5, <2>6, <2>7, <2>8, ApplyFacts, ApplyEnds
<1>6. QED
  BY <1>2, <1>3, <1>4, <1>5 DEF Apply

----------------------------------------------------------------------------
(* Restart. *)

LEMMA SurvivorFacts ==
  ASSUME TypeOK, NEW w \in Seq(Record), NEW r \in Survivors(w)
  PROVE  /\ r \in Seq(Record) /\ Len(r) \in Nat /\ Len(r) <= Len(w) /\ \A k \in 1..Len(r) : r[k] = w[k]
         /\ setup.sync = "fsync" => r = w
<1>1. Len(w) \in Nat /\ Len(w) <= Len(w)
  BY SMT, SeqLen
<1>2. CASE setup.sync = "none"
  <2>1. PICK i \in 0..Len(w) : r = SubSeq(w, 1, i)
    BY <1>2 DEF Survivors
  <2>2. QED
    BY SMTT(30), <1>1, <1>2, <2>1, SeqSub
<1>3. CASE setup.sync # "none"
  <2>1. r = w
    BY <1>3 DEF Survivors
  <2>2. QED
    BY <1>1, <2>1
<1>4. QED
  BY <1>2, <1>3

\* The recovered high-water is the largest raft index among the records.
LEMMA HighWaterFacts ==
  ASSUME NEW n, NEW records, \A p \in PartIDs : records[p] \in Seq(Record)
  PROVE  /\ RecoveredHighWater(n, records) \in 0..MaxLog
         /\ \A p \in PartIDs : \A k \in 1..Len(records[p]) : records[p][k].index <= RecoveredHighWater(n, records)
         /\ \/ RecoveredHighWater(n, records) = 0
            \/ \E p \in PartIDs : \E k \in 1..Len(records[p]) : records[p][k].index = RecoveredHighWater(n, records)
<1> DEFINE S == UNION {{records[p][i].index : i \in DOMAIN records[p]} : p \in PartIDs}
           h == RecoveredHighWater(n, records)
<1>1. \A p \in PartIDs : DOMAIN records[p] = 1..Len(records[p]) /\ \A k \in 1..Len(records[p]) : records[p][k] \in Record
  BY SMT, SeqLen
<1> USE <1>1
<1>2. ASSUME NEW p \in PartIDs, NEW k \in 1..Len(records[p]) PROVE records[p][k].index \in S
  <2>1. records[p][k].index \in {records[p][i].index : i \in DOMAIN records[p]}
    OBVIOUS
  <2>2. QED
    BY <2>1
<1>3. \A i \in S : \E p \in PartIDs : \E k \in 1..Len(records[p]) : records[p][k].index = i
  OBVIOUS
<1>4. S \subseteq 1..MaxLog
  <2> SUFFICES ASSUME NEW i \in S PROVE i \in 1..MaxLog
    OBVIOUS
  <2>1. PICK p \in PartIDs : \E k \in 1..Len(records[p]) : records[p][k].index = i
    BY <1>3
  <2>2. PICK k \in 1..Len(records[p]) : records[p][k].index = i
    BY <2>1
  <2>3. records[p][k] \in Record
    OBVIOUS
  <2>4. QED
    BY <2>2, <2>3 DEF Record
<1>5. h = IF S = {} THEN 0 ELSE CHOOSE i \in S : \A j \in S : j <= i
  BY DEF RecoveredHighWater
<1> HIDE DEF S, h
<1>6. MaxLog \in Nat /\ 0 \in 0..MaxLog /\ S \in SUBSET (0..MaxLog) /\ \A i \in 1..MaxLog : i \in 0..MaxLog
  BY SMT, <1>4, ReplicationAssumption
<1> USE <1>6
<1>7. CASE S = {}
  <2>1. h = 0
    BY <1>5, <1>7
  <2>2. QED
    BY <1>2, <1>7, <2>1 DEF h
<1>8. CASE S # {}
  <2>1. \E i \in S : \A j \in S : j <= i
    BY <1>8, MaxExists
  <2>2. h \in S /\ \A j \in S : j <= h
    BY <1>5, <1>8, <2>1
  <2>3. QED
    BY <1>2, <1>3, <1>4, <2>2 DEF h
<1>9. QED
  BY <1>7, <1>8

\* A stop leaves a prefix of every partition.
Recovers(n, records) ==
    /\ \A p \in PartIDs :
         /\ records[p] \in Seq(Record) /\ Len(records[p]) \in Nat /\ Len(records[p]) <= Len(wal[n][p])
         /\ \A k \in 1..Len(records[p]) : records[p][k] = wal[n][p][k]
         /\ setup.sync = "fsync" => records[p] = wal[n][p]
    /\ wal' \in [Nodes -> [PartIDs -> Seq(Record)]] /\ dedupe' \in [Nodes -> [PartIDs -> Seq(Entry)]]
    /\ wal'[n] = records /\ \A p \in PartIDs : dedupe'[n][p] = Rebuild(records[p])
    /\ applied' = [applied EXCEPT ![n] = 0]
    /\ applied'[n] = 0 /\ highWater'[n] = RecoveredHighWater(n, records) /\ inflight'[n] = {}
    /\ \A m \in Nodes : m # n => /\ wal'[m] = wal[m] /\ dedupe'[m] = dedupe[m] /\ applied'[m] = applied[m]
                                 /\ highWater'[m] = highWater[m] /\ inflight'[m] = inflight[m]
    /\ \A p \in PartIDs : GoodAt(Rebuild(records[p]), records[p], Len(records[p]))
    /\ UNCHANGED <<log, count, saved, oks>>
    /\ highWater'[n] \in 0..MaxLog /\ highWater'[n] \in Nat /\ highWater'[n] <= Reach(n) /\ Reach(n)' = highWater'[n]
    /\ \A m \in Nodes : m # n => Reach(m)' = Reach(m)

LEMMA RestartFacts ==
  ASSUME Core, NEW n \in Nodes, Restart(n)
  PROVE  \E records : Recovers(n, records)
<1>1. TypeOK /\ Order
  BY DEF Core
<1>2. PICK records \in [PartIDs -> UNION {Survivors(wal[n][p]) : p \in PartIDs}] :
         /\ \A p \in PartIDs : records[p] \in Survivors(wal[n][p])
         /\ wal' = [wal EXCEPT ![n] = records]
         /\ dedupe' = [dedupe EXCEPT ![n] = [p \in PartIDs |-> Rebuild(records[p])]]
         /\ highWater' = [highWater EXCEPT ![n] = RecoveredHighWater(n, records)]
  BY DEF Restart
<1>3. ASSUME NEW p \in PartIDs
      PROVE  /\ records[p] \in Seq(Record) /\ Len(records[p]) \in Nat /\ Len(records[p]) <= Len(wal[n][p])
             /\ \A k \in 1..Len(records[p]) : records[p][k] = wal[n][p][k]
             /\ setup.sync = "fsync" => records[p] = wal[n][p]
  <2>1. wal[n][p] \in Seq(Record) /\ records[p] \in Survivors(wal[n][p])
    BY <1>1, <1>2, PartFacts
  <2>2. QED
    BY <1>1, <2>1, SurvivorFacts
<1>4. ASSUME NEW p \in PartIDs PROVE GoodAt(Rebuild(records[p]), records[p], Len(records[p]))
  <2>1. Len(wal[n][p]) <= MaxLog /\ Len(wal[n][p]) \in Nat /\ MaxLog \in Nat /\ setup.cap \in Nat \ {0}
    BY <1>1, WalBound, PartFacts, SetupFacts
  <2>2. Len(records[p]) <= MaxLog
    BY SMT, <1>3, <2>1
  <2>3. QED
    BY <1>3, <2>1, <2>2, RebuildGood
<1>5. \A p \in PartIDs : Rebuild(records[p]) \in Seq(Entry)
  BY <1>4 DEF GoodAt
<1>6. records \in [PartIDs -> Seq(Record)]
  BY <1>2, <1>3
<1>7. /\ wal' \in [Nodes -> [PartIDs -> Seq(Record)]] /\ wal'[n] = records
      /\ \A m \in Nodes : m # n => wal'[m] = wal[m]
  BY <1>1, <1>2, <1>6 DEF TypeOK
<1>8. /\ dedupe' \in [Nodes -> [PartIDs -> Seq(Entry)]] /\ \A p \in PartIDs : dedupe'[n][p] = Rebuild(records[p])
      /\ \A m \in Nodes : m # n => dedupe'[m] = dedupe[m]
  <2>1. PICK d : d = [p \in PartIDs |-> Rebuild(records[p])]
    OBVIOUS
  <2>2. d \in [PartIDs -> Seq(Entry)] /\ dedupe' = [dedupe EXCEPT ![n] = d]
    BY <1>2, <1>5, <2>1
  <2>3. QED
    BY <1>1, <2>1, <2>2 DEF TypeOK
<1>9. /\ applied' = [applied EXCEPT ![n] = 0]
      /\ applied'[n] = 0 /\ highWater'[n] = RecoveredHighWater(n, records) /\ inflight'[n] = {}
      /\ UNCHANGED <<log, count, saved, oks>>
      /\ \A m \in Nodes : m # n => applied'[m] = applied[m] /\ highWater'[m] = highWater[m] /\ inflight'[m] = inflight[m]
  BY <1>1, <1>2 DEF Restart, TypeOK
<1>10. /\ RecoveredHighWater(n, records) \in 0..MaxLog
       /\ \/ RecoveredHighWater(n, records) = 0
          \/ \E p \in PartIDs : \E k \in 1..Len(records[p]) : records[p][k].index = RecoveredHighWater(n, records)
  BY <1>3, HighWaterFacts
<1>11. highWater'[n] \in 0..MaxLog /\ highWater'[n] \in Nat
  <2>1. highWater'[n] \in 0..MaxLog
    BY <1>9, <1>10
  <2>2. QED
    BY SMT, <2>1, ReplicationAssumption
<1>12. highWater'[n] <= Reach(n)
  <2>1. Reach(n) \in Nat
    BY <1>1, NodeFacts
  <2>2. CASE RecoveredHighWater(n, records) = 0
    BY SMT, <1>9, <2>1, <2>2
  <2>3. CASE RecoveredHighWater(n, records) # 0
    <3>1. PICK p \in PartIDs : \E k \in 1..Len(records[p]) : records[p][k].index = RecoveredHighWater(n, records)
      BY <1>10, <2>3
    <3>2. PICK k \in 1..Len(records[p]) : records[p][k].index = RecoveredHighWater(n, records)
      BY <3>1
    <3>3. k \in 1..Len(wal[n][p])
      BY SMT, <1>1, <1>3, PartFacts
    <3>4. records[p][k] = wal[n][p][k]
      BY <1>3
    <3>5. wal[n][p][k].index <= Reach(n)
      BY <1>1, <3>3 DEF Order
    <3>6. QED
      BY <1>9, <3>2, <3>4, <3>5
  <2>4. QED
    BY <2>2, <2>3
<1>13. Reach(n)' = highWater'[n]
  BY SMT, <1>9, <1>11 DEF Reach
<1>14. \A m \in Nodes : m # n => Reach(m)' = Reach(m)
  BY <1>9 DEF Reach
<1>15. Recovers(n, records)
  BY <1>3, <1>4, <1>7, <1>8, <1>9, <1>11, <1>12, <1>13, <1>14 DEF Recovers
<1>16. QED
  BY <1>15

LEMMA CoreRestart ==
  ASSUME Core, NEW n \in Nodes, Restart(n), UNCHANGED setup
  PROVE  Core'
<1>1. TypeOK /\ Order /\ Indexed /\ Opens
  BY DEF Core
<1>2. PICK records : Recovers(n, records)
  BY RestartFacts
<1> USE <1>1, <1>2
<1>3. \A m \in Nodes, q \in PartIDs : GoodAt(dedupe'[m][q], wal'[m][q], Len(wal'[m][q]))
  <2> SUFFICES ASSUME NEW m \in Nodes, NEW q \in PartIDs PROVE GoodAt(dedupe'[m][q], wal'[m][q], Len(wal'[m][q]))
    OBVIOUS
  <2>1. CASE m = n
    BY <2>1 DEF Recovers
  <2>2. CASE m # n
    BY <2>2 DEF Recovers, Indexed
  <2>3. QED
    BY <2>1, <2>2
<1>4. Indexed'
  BY <1>3 DEF Indexed, GoodAt
<1>5. ASSUME NEW m \in Nodes PROVE Reach(m)' \in Nat /\ Reach(m) \in Nat /\ Reach(m)' <= Reach(m)
  <2>1. Reach(m) \in Nat
    BY NodeFacts
  <2>2. Reach(m) <= Reach(m)
    BY SMT, <2>1
  <2>3. QED
    BY <2>1, <2>2 DEF Recovers
<1>6. Opens'
  <2> SUFFICES ASSUME NEW m \in Nodes, NEW i \in 1..Reach(m)', log[i].kind = "pub" PROVE count[m] # 0
    BY DEF Opens, Recovers
  <2>1. i \in 1..Reach(m)
    BY SMT, <1>5
  <2>2. QED
    BY <2>1 DEF Opens
<1>7. Order'
  <2>1. ASSUME NEW m \in Nodes PROVE applied'[m] <= Len(log') /\ highWater'[m] <= Len(log')
    <3>1. CASE m = n
      <4>1. /\ applied'[n] = 0 /\ Len(log') = Len(log) /\ highWater'[n] \in Nat /\ highWater'[n] <= Reach(n)
            /\ Reach(n) \in {applied[n], highWater[n]} /\ Reach(n) \in Nat /\ Len(log) \in Nat
        BY NodeFacts, SetupFacts DEF Recovers
      <4>2. applied[n] <= Len(log) /\ highWater[n] <= Len(log)
        BY DEF Order
      <4>3. QED
        BY SMT, <3>1, <4>1, <4>2
    <3>2. CASE m # n
      BY <3>2 DEF Recovers, Order
    <3>3. QED
      BY <3>1, <3>2
  <2> USE PartFacts
  <2>2. ASSUME NEW m \in Nodes, NEW q \in PartIDs
        PROVE  \A k \in 1..Len(wal'[m][q]) : k <= wal'[m][q][k].index /\ wal'[m][q][k].index <= Reach(m)'
    <3>1. CASE m = n
      <4> SUFFICES ASSUME NEW k \in 1..Len(records[q]) PROVE k <= records[q][k].index /\ records[q][k].index <= Reach(n)'
        BY <3>1 DEF Recovers
      <4>1. k \in 1..Len(wal[n][q])
        <5>1. Len(records[q]) <= Len(wal[n][q]) /\ Len(records[q]) \in Nat /\ Len(wal[n][q]) \in Nat
          BY DEF Recovers
        <5>2. QED
          BY SMT, <5>1
      <4>2. records[q][k] = wal[n][q][k]
        BY DEF Recovers
      <4>3. \A p \in PartIDs : records[p] \in Seq(Record)
        BY DEF Recovers
      <4>4. records[q][k].index <= RecoveredHighWater(n, records)
        BY <4>3, HighWaterFacts
      <4>5. k <= wal[n][q][k].index
        BY <4>1 DEF Order
      <4>6. Reach(n)' = RecoveredHighWater(n, records)
        BY DEF Recovers
      <4>7. QED
        BY <4>2, <4>4, <4>5, <4>6
    <3>2. CASE m # n
      <4>1. wal'[m][q] = wal[m][q] /\ Reach(m)' = Reach(m)
        BY <3>2 DEF Recovers
      <4>2. \A k \in 1..Len(wal[m][q]) : k <= wal[m][q][k].index /\ wal[m][q][k].index <= Reach(m)
        BY DEF Order
      <4>3. QED
        BY <4>1, <4>2
    <3>3. QED
      BY <3>1, <3>2
  <2>3. AppliedOnce'
    <3>1. wal' \in [Nodes -> [PartIDs -> Seq(Record)]]
      BY DEF Recovers
    <3>2. \A m \in Nodes, q \in PartIDs : DOMAIN wal'[m][q] = 1..Len(wal'[m][q])
      <4>1. \A m \in Nodes, q \in PartIDs : wal'[m][q] \in Seq(Record)
        BY <3>1
      <4>2. QED
        BY SMT, <4>1, SeqLen
    <3> SUFFICES ASSUME NEW m \in Nodes, NEW q \in PartIDs, NEW i \in 1..Len(wal'[m][q]), NEW j \in 1..Len(wal'[m][q]), i < j
                 PROVE  wal'[m][q][i].index < wal'[m][q][j].index
      BY <3>2 DEF AppliedOnce
    <3>3. \A a, b \in 1..Len(wal[m][q]) : a < b => wal[m][q][a].index < wal[m][q][b].index
      BY DEF Order, AppliedOnce
    <3>4. CASE m = n
      <4>1. Len(records[q]) <= Len(wal[n][q]) /\ Len(records[q]) \in Nat /\ Len(wal[n][q]) \in Nat /\ wal'[n][q] = records[q]
        BY DEF Recovers
      <4>2. i \in 1..Len(wal[n][q]) /\ j \in 1..Len(wal[n][q]) /\ i \in 1..Len(records[q]) /\ j \in 1..Len(records[q])
        BY SMT, <3>4, <4>1
      <4>3. records[q][i] = wal[n][q][i] /\ records[q][j] = wal[n][q][j]
        BY <4>2 DEF Recovers
      <4>4. QED
        BY <3>3, <3>4, <4>1, <4>2, <4>3
    <3>5. CASE m # n
      BY <3>3, <3>5 DEF Recovers
    <3>6. QED
      BY <3>4, <3>5
  <2>4. \A m \in Nodes : \A x \in inflight'[m] : x.attempts <= applied'[m] + 1
    BY DEF Recovers, Order
  <2>5. QED
    BY <2>1, <2>2, <2>3, <2>4 DEF Order
<1>8. TypeOK'
  <2>1. /\ setup' \in Setups /\ log' \in Seq(Command) /\ Len(log') <= MaxLog /\ count' \in [Nodes -> 0..Parts]
        /\ saved' \in [Nodes -> SUBSET (PartIDs \X IDs)] /\ oks' \subseteq [index : 1..MaxLog, part : PartIDs, id : IDs]
    BY DEF TypeOK, Restart
  <2>2. /\ blocked' \in [Nodes -> BOOLEAN] /\ waiting' \in [Nodes -> SUBSET (1..MaxLog)]
        /\ inflight' \in [Nodes -> SUBSET Messages] /\ acked' \in [Nodes -> SUBSET (PartIDs \X IDs)]
        /\ leader' \in Nodes \cup {NoLeader}
    BY DEF TypeOK, Restart
  <2>3. restarts' \in 0..MaxRestarts
    <3>1. restarts < setup.restarts /\ restarts' = restarts + 1 /\ restarts \in 0..MaxRestarts /\ setup.restarts \in 0..MaxRestarts
          /\ MaxRestarts \in Nat
      BY SetupFacts DEF Restart, TypeOK
    <3>2. QED
      BY SMT, <3>1
  <2>4. applied' \in [Nodes -> 0..MaxLog]
    <3>1. 0 \in 0..MaxLog
      BY SMT, ReplicationAssumption
    <3>2. QED
      BY <3>1 DEF TypeOK, Recovers
  <2>5. highWater' \in [Nodes -> 0..MaxLog]
    <3>1. PICK h : highWater' = [highWater EXCEPT ![n] = h]
      BY DEF Restart
    <3>2. h = highWater'[n]
      BY <3>1 DEF TypeOK
    <3>3. h \in 0..MaxLog
      BY <3>2 DEF Recovers
    <3>4. QED
      BY <3>1, <3>3 DEF TypeOK
  <2>6. wal' \in [Nodes -> [PartIDs -> Seq(Record)]] /\ dedupe' \in [Nodes -> [PartIDs -> Seq(Entry)]]
    BY DEF Recovers
  <2>7. \A m \in Nodes, q \in PartIDs : Len(dedupe'[m][q]) <= setup'.cap
    BY <1>3 DEF GoodAt
  <2>8. QED
    BY <2>1, <2>2, <2>3, <2>4, <2>5, <2>6, <2>7 DEF TypeOK
<1>9. QED
  BY <1>4, <1>6, <1>7, <1>8 DEF Core

LEMMA CoreStep == Core /\ [Next]_vars => Core'
<1> SUFFICES ASSUME Core, [Next]_vars PROVE Core'
  OBVIOUS
<1>1. UNCHANGED setup
  BY DEF Next, vars
<1>2. setup.keys \subseteq Keys \cup {NoKey}
  BY SetupFacts DEF Core
<1> USE <1>1
<1>3. ASSUME NEW n \in Nodes, Apply(n) PROVE Core'
  BY <1>3, CoreApply
<1>4. ASSUME NEW n \in Nodes, Elect(n) \/ Persist(n) PROVE Core'
  BY <1>4, CoreOthers
<1>5. ASSUME NEW n \in Nodes, Restart(n) PROVE Core'
  BY <1>5, CoreRestart
<1>6. ASSUME NEW n \in Nodes, NEW p \in PartIDs, Deliver(n, p) PROVE Core'
  BY <1>6, CoreDeliver
<1>7. ASSUME NEW n \in Nodes, NEW p \in PartIDs, NEW key \in setup.keys, Publish(n, key, p) PROVE Core'
  BY <1>2, <1>7, CorePublish
<1>8. ASSUME CreateTopic \/ \E kind \in {"ack", "nack"}, p \in PartIDs, id \in IDs : Settle(kind, p, id) PROVE Core'
  BY <1>8, CoreCommand
<1>9. CASE UNCHANGED vars
  BY <1>9, CoreOthers DEF vars
<1>10. QED
  BY <1>3, <1>4, <1>5, <1>6, <1>7, <1>8, <1>9 DEF Next

\* A replayed log writes no record twice: on every node and in every partition the
\* raft indexes strictly increase, through restarts, lost tails and evictions.
THEOREM WrittenOnce == Spec => []AppliedOnce
<1>1. Init => Core
  BY SMT, CoreInit
<1>2. Core /\ [Next]_vars => Core'
  BY SMT, CoreStep
<1>3. Core => AppliedOnce
  BY DEF Core, Order
<1>4. QED
  BY <1>1, <1>2, <1>3, PTL DEF Spec

----------------------------------------------------------------------------
(* The steps, seen from the records. *)

\* Every step but Apply and Restart.
Quiet ==
    \/ \E n \in Nodes : \/ Elect(n) \/ Persist(n)
                        \/ \E p \in PartIDs : Deliver(n, p) \/ \E key \in setup.keys : Publish(n, key, p)
    \/ CreateTopic
    \/ \E kind \in {"ack", "nack"}, p \in PartIDs, id \in IDs : Settle(kind, p, id)
    \/ UNCHANGED state

LEMMA ThreeKinds ==
  ASSUME [Next]_vars
  PROVE  /\ UNCHANGED setup
         /\ Quiet \/ (\E n \in Nodes : Apply(n)) \/ (\E n \in Nodes : Restart(n))
BY DEF Next, vars, Quiet

\* A command that the log may take.
Proposed(cmd) ==
    /\ cmd \in Command
    /\ cmd.kind = "pub" => cmd.key \in setup.keys
    /\ cmd.kind = "create" => cmd.part = Parts /\ "create" \in setup.events

\* The topic keeps its partitions; a topic opened by a publish has the default count.
CountKept == \A m \in Nodes : count'[m] = count[m] \/ (count[m] = 0 /\ count'[m] = setup.default)

QuietEffect ==
    /\ UNCHANGED <<applied, highWater, wal, dedupe, oks>>
    /\ UNCHANGED log \/ \E cmd \in Command : Proposed(cmd) /\ Propose(cmd)
    /\ CountKept

LEMMA QuietFacts ==
  ASSUME TypeOK, Quiet
  PROVE  QuietEffect
<1>1. UNCHANGED <<applied, highWater, wal, dedupe, oks>>
  BY DEF Quiet, Elect, Persist, Deliver, Publish, CreateTopic, Settle, brokerVars, state
<1> USE <1>1
<1>2. CASE \E n \in Nodes : \/ Elect(n) \/ Persist(n) \/ \E p \in PartIDs : Deliver(n, p)
  BY <1>2 DEF QuietEffect, CountKept, Elect, Persist, Deliver, brokerVars
<1>3. CASE UNCHANGED state
  BY <1>3 DEF QuietEffect, CountKept, state, brokerVars
<1> USE ReplicationAssumption
<1>4. CASE CreateTopic
  <2>1. PICK cmd : cmd = [kind |-> "create", part |-> Parts, key |-> NoKey, id |-> 0]
    OBVIOUS
  <2>2. cmd \in Command /\ cmd.kind = "create" /\ cmd.part = Parts
    <3>1. Parts \in 0..Parts /\ 0 \in IDs
      BY SMT DEF IDs
    <3>2. QED
      BY <2>1, <3>1 DEF Command
  <2>3. Propose(cmd) /\ "create" \in setup.events /\ UNCHANGED count
    BY <1>4, <2>1 DEF CreateTopic, brokerVars
  <2>4. Proposed(cmd)
    BY <2>2, <2>3 DEF Proposed
  <2>5. QED
    BY <2>2, <2>3, <2>4 DEF QuietEffect, CountKept
<1>5. ASSUME NEW kind \in {"ack", "nack"}, NEW p \in PartIDs, NEW id \in IDs, Settle(kind, p, id) PROVE QuietEffect
  <2>1. PICK cmd : cmd = [kind |-> kind, part |-> p, key |-> NoKey, id |-> id]
    OBVIOUS
  <2>2. cmd \in Command /\ cmd.kind = kind
    <3>1. p \in 0..Parts
      BY SMT DEF PartIDs
    <3>2. QED
      BY <2>1, <3>1 DEF Command
  <2>3. Propose(cmd) /\ UNCHANGED count
    BY <1>5, <2>1 DEF Settle, brokerVars
  <2>4. Proposed(cmd)
    BY <2>2 DEF Proposed
  <2>5. QED
    BY <2>2, <2>3, <2>4 DEF QuietEffect, CountKept
<1>6. ASSUME NEW n \in Nodes, NEW p \in PartIDs, NEW key \in setup.keys, Publish(n, key, p) PROVE QuietEffect
  <2>1. PICK cmd : cmd = [kind |-> "pub", part |-> p, key |-> key, id |-> 0]
    OBVIOUS
  <2>2. cmd \in Command /\ cmd.kind = "pub" /\ cmd.key = key
    <3>1. p \in 0..Parts /\ 0 \in IDs
      BY SMT DEF PartIDs, IDs
    <3>2. key \in Keys \cup {NoKey}
      BY SetupFacts
    <3>3. QED
      BY <2>1, <3>1, <3>2 DEF Command
  <2>3. UNCHANGED log \/ Propose(cmd)
    BY <1>6, <2>1 DEF Publish
  <2>4. Proposed(cmd)
    BY <2>2 DEF Proposed
  <2>5. CountKept
    <3>1. count' = [count EXCEPT ![n] = Opened(n)]
      BY <1>6 DEF Publish
    <3>2. QED
      BY <3>1 DEF CountKept, Opened, TypeOK
  <2>6. QED
    BY <2>2, <2>3, <2>4, <2>5 DEF QuietEffect
<1>7. QED
  BY <1>2, <1>3, <1>4, <1>5, <1>6 DEF Quiet

LEMMA QuietLog ==
  ASSUME TypeOK, QuietEffect
  PROVE  LogGrows
<1>1. CASE UNCHANGED log
  BY <1>1, LogStays
<1>2. CASE \E cmd \in Command : Proposed(cmd) /\ Propose(cmd)
  BY <1>2, LogAppend
<1>3. QED
  BY <1>1, <1>2 DEF QuietEffect

\* What Apply does to the records, for the command it runs.
ApplyEffect(n, index, cmd) ==
    /\ applied' = [applied EXCEPT ![n] = index]
    /\ UNCHANGED <<log, highWater>>
    /\ \/ /\ UNCHANGED <<wal, dedupe, oks>>
          /\ \/ cmd.kind # "pub" /\ \/ CountKept
                                    \/ cmd.kind = "create" /\ \A m \in Nodes : count'[m] = count[m] \/ (count[m] = 0 /\ count'[m] = cmd.part)
             \/ cmd.kind = "pub" /\ index <= highWater[n] /\ CountKept
             \/ cmd.kind = "pub" /\ ~ (index <= highWater[n]) /\ ~ (cmd.part < count'[n]) /\ CountKept
       \/ /\ cmd.kind = "pub" /\ ~ (index <= highWater[n]) /\ cmd.part < count'[n] /\ cmd.part \in PartIDs /\ CountKept
          /\ \/ /\ cmd.key # NoKey /\ Hits(n, cmd.part, cmd.key)
                /\ oks' \subseteq oks \cup {[index |-> index, part |-> cmd.part,
                                             id |-> dedupe[n][cmd.part][Find(dedupe[n][cmd.part], cmd.key)].id]}
             \/ /\ cmd.key = NoKey \/ Find(dedupe[n][cmd.part], cmd.key) = 0
                /\ Adds(n, cmd.part, index, cmd.key)
                /\ oks' \subseteq oks \cup {[index |-> index, part |-> cmd.part, id |-> Len(wal[n][cmd.part])]}

LEMMA ApplyEffects ==
  ASSUME TypeOK, NEW n \in Nodes, Apply(n)
  PROVE  ApplyEffect(n, applied[n] + 1, log[applied[n] + 1])
<1>1. PICK index : index = applied[n] + 1
  OBVIOUS
<1>2. PICK cmd : cmd = log[index]
  OBVIOUS
<1> USE <1>1, <1>2
<1>3. /\ applied' = [applied EXCEPT ![n] = index] /\ UNCHANGED log
      /\ \/ cmd.kind = "pub" /\ ApplyPublish(n, index, cmd)
         \/ cmd.kind = "ack" /\ ApplyAck(n, cmd)
         \/ cmd.kind = "nack" /\ ApplyNack(n, cmd)
         \/ cmd.kind = "create" /\ ApplyCreateTopic(n, cmd)
  BY DEF Apply
<1>4. cmd \in Command
  BY ApplyFacts
<1>5. ASSUME count' = [count EXCEPT ![n] = Opened(n)] PROVE CountKept /\ count'[n] = Opened(n)
  BY <1>5 DEF CountKept, Opened, TypeOK
<1> USE <1>3
<1>6. UNCHANGED highWater
  BY DEF ApplyPublish, ApplyAck, ApplyNack, ApplyCreateTopic, brokerVars
<1> USE <1>5, <1>6
<1>7. CASE cmd.kind = "ack" /\ ApplyAck(n, cmd)
  <2>1. UNCHANGED <<wal, dedupe, oks>> /\ count' = [count EXCEPT ![n] = Opened(n)] /\ cmd.kind # "pub"
    BY <1>7 DEF ApplyAck
  <2>2. QED
    BY <2>1 DEF ApplyEffect
<1>8. CASE cmd.kind = "nack" /\ ApplyNack(n, cmd)
  <2>1. UNCHANGED <<wal, dedupe, oks>> /\ count' = [count EXCEPT ![n] = Opened(n)] /\ cmd.kind # "pub"
    BY <1>8 DEF ApplyNack
  <2>2. QED
    BY <2>1 DEF ApplyEffect
<1>9. CASE cmd.kind = "create" /\ ApplyCreateTopic(n, cmd)
  <2>1. UNCHANGED <<wal, dedupe, oks>> /\ count' = [count EXCEPT ![n] = IF @ = 0 THEN cmd.part ELSE @] /\ cmd.kind # "pub"
    BY <1>9 DEF ApplyCreateTopic
  <2>2. \A m \in Nodes : count'[m] = count[m] \/ (count[m] = 0 /\ count'[m] = cmd.part)
    BY <2>1 DEF TypeOK
  <2>3. QED
    BY <1>9, <2>1, <2>2 DEF ApplyEffect
<1>10. CASE cmd.kind = "pub" /\ ApplyPublish(n, index, cmd)
  <2> USE <1>10
  <2>1. CASE index <= highWater[n]
    <3>1. UNCHANGED <<wal, dedupe, oks, count>>
      BY <2>1 DEF ApplyPublish, Replayed, Forget, brokerVars
    <3>2. CountKept
      BY <3>1 DEF CountKept
    <3>3. QED
      BY <2>1, <3>1, <3>2 DEF ApplyEffect
  <2>2. CASE ~ (index <= highWater[n])
    <3> USE <2>2
    <3>1. count' = [count EXCEPT ![n] = Opened(n)]
      BY DEF ApplyPublish, Replayed
    <3>2. CountKept /\ count'[n] = Opened(n)
      BY <3>1
    <3> USE <3>2
    <3>3. CASE ~ (cmd.part < Opened(n))
      <4>1. UNCHANGED <<wal, dedupe, oks>>
        BY <3>3 DEF ApplyPublish, Replayed, Forget
      <4>2. QED
        BY <3>3, <4>1 DEF ApplyEffect
    <3>4. CASE cmd.part < Opened(n)
      <4> USE <3>4
      <4>1. ApplyToPartition(n, index, cmd.part, cmd.key)
        BY DEF ApplyPublish, Replayed
      <4>2. cmd.part \in PartIDs
        <5>1. cmd.part \in 0..Parts /\ Opened(n) \in 1..Parts
          BY <1>4, NodeFacts DEF Command
        <5>2. QED
          BY SMT, <5>1, ReplicationAssumption DEF PartIDs
      <4> USE <4>1, <4>2
      <4>3. CASE cmd.key # NoKey /\ Find(dedupe[n][cmd.part], cmd.key) > 0
        <5> USE <4>3
        <5>1. Hits(n, cmd.part, cmd.key)
          BY DEF ApplyToPartition, Hits
        <5>2. oks' \subseteq oks \cup {[index |-> index, part |-> cmd.part,
                                        id |-> dedupe[n][cmd.part][Find(dedupe[n][cmd.part], cmd.key)].id]}
          BY DEF ApplyToPartition, Answer
        <5>3. QED
          BY <5>1, <5>2 DEF ApplyEffect
      <4>4. CASE ~ (cmd.key # NoKey /\ Find(dedupe[n][cmd.part], cmd.key) > 0)
        <5> USE <4>4
        <5>1. cmd.key = NoKey \/ Find(dedupe[n][cmd.part], cmd.key) = 0
          <6>1. dedupe[n][cmd.part] \in Seq(Entry)
            BY PartFacts
          <6>2. \/ Find(dedupe[n][cmd.part], cmd.key) = 0
                \/ Find(dedupe[n][cmd.part], cmd.key) > 0
            BY <6>1, FindFacts
          <6>3. QED
            BY <6>2
        <5>2. Adds(n, cmd.part, index, cmd.key)
          BY DEF ApplyToPartition, Adds
        <5>3. oks' \subseteq oks \cup {[index |-> index, part |-> cmd.part, id |-> Len(wal[n][cmd.part])]}
          BY DEF ApplyToPartition, Answer
        <5>4. QED
          BY <5>1, <5>2, <5>3 DEF ApplyEffect
      <4>5. QED
        BY <4>3, <4>4
    <3>5. QED
      BY <3>3, <3>4
  <2>3. QED
    BY <2>1, <2>2
<1>11. QED
  BY <1>7, <1>8, <1>9, <1>10

----------------------------------------------------------------------------
(* Nothing is skipped. *)

\* Record r of its partition is command i, or stands for it.
StandsFor(record, i, key) == record.index = i \/ (record.index < i /\ record.key = key /\ record.key # NoKey)

Stored(n, i) == \E r \in 1..Len(wal[n][log[i].part]) : StandsFor(wal[n][log[i].part][r], i, log[i].key)

Present ==
    setup.sync = "fsync" =>
      \A n \in Nodes : \A i \in 1..Reach(n) :
        (log[i].kind = "pub" /\ log[i].part < count[n]) => Stored(n, i)

LEMMA PubPart ==
  ASSUME TypeOK, NEW n \in Nodes, NEW i \in 1..Len(log), log[i].part < count[n]
  PROVE  log[i].part \in PartIDs
<1>1. log[i] \in Command /\ count[n] \in 0..Parts
  BY SetupFacts, NodeFacts
<1>2. log[i].part \in 0..Parts
  BY <1>1 DEF Command
<1>3. QED
  BY SMT, <1>1, <1>2, ReplicationAssumption DEF PartIDs

\* What was stored stays when the partitions only grow.
LEMMA PresentKept ==
  ASSUME Core, Present, LogGrows, setup.sync = "fsync",
         NEW n \in Nodes, NEW i \in 1..Reach(n), log'[i].kind = "pub", log'[i].part < count'[n],
         count[n] # 0 => count'[n] = count[n],
         \A q \in PartIDs : /\ Len(wal[n][q]) <= Len(wal'[n][q]) /\ Len(wal'[n][q]) \in Nat
                            /\ \A k \in 1..Len(wal[n][q]) : wal'[n][q][k] = wal[n][q][k]
  PROVE  Stored(n, i)'
<1>1. TypeOK /\ Order /\ Opens
  BY DEF Core
<1>2. i \in 1..Len(log)
  <2>1. Reach(n) <= Len(log) /\ Reach(n) \in Nat /\ Len(log) \in Nat
    <3>1. 0 \in PartIDs
      BY SMT, ReplicationAssumption DEF PartIDs
    <3>2. QED
      BY <1>1, <3>1, WalBound, NodeFacts, SetupFacts
  <2>2. QED
    BY SMT, <2>1
<1>3. log'[i] = log[i]
  BY <1>2 DEF LogGrows
<1>4. count'[n] = count[n]
  BY <1>1, <1>3 DEF Opens
<1>5. Stored(n, i) /\ log[i].part \in PartIDs
  BY <1>1, <1>2, <1>3, <1>4, PubPart DEF Present
<1>6. PICK q \in PartIDs : q = log[i].part
  BY <1>5
<1>7. PICK r \in 1..Len(wal[n][q]) : StandsFor(wal[n][q][r], i, log[i].key)
  BY <1>5, <1>6 DEF Stored
<1>8. r \in 1..Len(wal'[n][q])
  BY SMT, <1>1, PartFacts
<1>9. wal'[n][q][r] = wal[n][q][r]
  OBVIOUS
<1>10. StandsFor(wal'[n][q][r], i, log'[i].key) /\ q = log'[i].part
  BY <1>3, <1>6, <1>7, <1>9
<1>11. \E k \in 1..Len(wal'[n][log'[i].part]) : StandsFor(wal'[n][log'[i].part][k], i, log'[i].key)
  BY <1>8, <1>10
<1>12. QED
  BY <1>11 DEF Stored, StandsFor

LEMMA WalNat ==
  ASSUME TypeOK, NEW n \in Nodes, NEW q \in PartIDs, wal'[n][q] = wal[n][q]
  PROVE  /\ Len(wal[n][q]) <= Len(wal'[n][q]) /\ Len(wal'[n][q]) \in Nat
         /\ \A k \in 1..Len(wal[n][q]) : wal'[n][q][k] = wal[n][q][k]
<1>1. Len(wal[n][q]) \in Nat
  BY PartFacts
<1>2. Len(wal[n][q]) <= Len(wal[n][q])
  BY SMT, <1>1
<1>3. QED
  BY <1>1, <1>2

\* MsgID id of the partition is a record with the key.
Answers(n, p, key, id) ==
    /\ id \in IDs /\ id + 1 \in 1..Len(wal[n][p])
    /\ wal[n][p][id + 1].key = key /\ wal[n][p][id + 1].index <= Reach(n)

\* The hit's entry is about an earlier record with the key.
LEMMA HitRecord ==
  ASSUME Core, NEW n \in Nodes, NEW p \in PartIDs, NEW key \in Keys, Find(dedupe[n][p], key) > 0
  PROVE  Answers(n, p, key, dedupe[n][p][Find(dedupe[n][p], key)].id)
<1>1. PICK lru : lru = dedupe[n][p]
  OBVIOUS
<1>2. PICK i : i = Find(lru, key)
  OBVIOUS
<1>3. PICK id : id = lru[i].id
  OBVIOUS
<1> USE <1>2
<1>4. lru \in Seq(Entry) /\ GoodAt(lru, wal[n][p], Len(wal[n][p])) /\ i > 0
  BY <1>1, PartFacts DEF Core, Indexed
<1> USE <1>4
<1>5. i \in 1..Len(lru) /\ lru[i].key = key
  BY SMTT(30), FindFacts
<1> USE <1>3
<1>6. id + 1 \in 1..Len(wal[n][p]) /\ wal[n][p][id + 1].key = key
  BY <1>5 DEF GoodAt
<1>7. wal[n][p][id + 1].index <= Reach(n)
  BY <1>6 DEF Core, Order
<1>8. id \in IDs
  <2>1. lru[i] \in Entry
    BY <1>5, SeqLen
  <2>2. QED
    BY <2>1 DEF Entry
<1>9. QED
  BY <1>1, <1>6, <1>7, <1>8 DEF Answers

LEMMA PresentApply ==
  ASSUME Core, Core', Present, NEW n \in Nodes, Apply(n), UNCHANGED setup
  PROVE  Present'
<1>1. TypeOK /\ Order /\ Opens /\ TypeOK'
  BY DEF Core
<1>2. PICK index : index = applied[n] + 1
  OBVIOUS
<1>3. PICK cmd : cmd = log[index]
  OBVIOUS
<1>4. ApplyEffect(n, index, cmd) /\ cmd \in Command /\ index \in 1..MaxLog
  BY <1>1, <1>2, <1>3, ApplyEffects, ApplyFacts
<1>5. UNCHANGED <<log, highWater>> /\ applied' = [applied EXCEPT ![n] = applied[n] + 1]
  BY <1>1, <1>2, <1>4 DEF ApplyEffect
<1>6. LogGrows
  BY <1>1, <1>5, LogStays
<1>7. \A m \in Nodes : count[m] # 0 => count'[m] = count[m]
  BY <1>4 DEF ApplyEffect, CountKept
<1>8. cmd.key \in Keys \cup {NoKey}
  BY <1>4 DEF Command
<1>9. ASSUME NEW m \in Nodes, NEW q \in PartIDs
      PROVE  /\ Len(wal[m][q]) <= Len(wal'[m][q]) /\ Len(wal'[m][q]) \in Nat
             /\ \A k \in 1..Len(wal[m][q]) : wal'[m][q][k] = wal[m][q][k]
  <2>1. CASE wal'[m][q] = wal[m][q]
    BY <1>1, <2>1, WalNat
  <2>2. CASE ~ (wal'[m][q] = wal[m][q])
    <3>1. Adds(n, cmd.part, index, cmd.key) /\ cmd.part \in PartIDs
      BY <1>4, <2>2 DEF ApplyEffect, Hits
    <3>2. PICK rec : rec = [index |-> index, key |-> cmd.key]
      OBVIOUS
    <3>3. rec \in Record
      BY <1>4, <1>8, <3>2 DEF Record
    <3>4. Gains(n, cmd.part, rec)
      BY <1>1, <3>1, <3>2, <3>3, Appended DEF Adds
    <3>5. m = n /\ q = cmd.part
      BY <2>2, <3>4 DEF Gains
    <3>6. /\ Len(wal'[n][q]) = Len(wal[n][q]) + 1 /\ Len(wal[n][q]) \in Nat
          /\ \A k \in 1..Len(wal[n][q]) : wal'[n][q][k] = wal[n][q][k]
      BY <3>4, <3>5 DEF Gains
    <3>7. Len(wal[n][q]) <= Len(wal'[n][q]) /\ Len(wal'[n][q]) \in Nat
      BY SMT, <3>6
    <3>8. QED
      BY <3>5, <3>6, <3>7
  <2>3. QED
    BY <2>1, <2>2
<1> SUFFICES ASSUME setup.sync = "fsync", NEW m \in Nodes, NEW i \in 1..Reach(m)', log'[i].kind = "pub", log'[i].part < count'[m]
             PROVE  Stored(m, i)'
  BY DEF Present
<1>10. CASE i \in 1..Reach(m)
  BY <1>6, <1>7, <1>9, <1>10, PresentKept
<1>11. CASE ~ (i \in 1..Reach(m))
  <2>1. m = n /\ ~ (index <= highWater[n])
    BY <1>1, <1>2, <1>5, <1>11, ReachApply
  <2>2. Reach(n) = applied[n] /\ Reach(n)' = applied[n] + 1 /\ applied[n] \in Nat
    BY <1>1, <1>2, <1>5, <2>1, ReachApply, NodeFacts
  <2>3. i \in 1..(applied[n] + 1) /\ ~ (i \in 1..applied[n])
    BY <1>11, <2>1, <2>2
  <2>4. i = index
    BY SMT, <1>2, <2>2, <2>3
  <2>5. cmd.kind = "pub" /\ cmd.part < count'[n] /\ log'[i] = cmd
    BY <1>3, <1>5, <2>1, <2>4
  <2>6. PICK p \in PartIDs : p = cmd.part
    BY <1>4, <2>1, <2>5 DEF ApplyEffect
  <2>7. \E r \in 1..Len(wal'[n][p]) : StandsFor(wal'[n][p][r], i, cmd.key)
    <3>1. CASE cmd.key # NoKey /\ Hits(n, p, cmd.key)
      <4>1. PICK id : id = dedupe[n][p][Find(dedupe[n][p], cmd.key)].id
        OBVIOUS
      <4>2. cmd.key \in Keys /\ UNCHANGED wal /\ Find(dedupe[n][p], cmd.key) > 0
        BY <1>8, <3>1 DEF Hits
      <4>3. id + 1 \in 1..Len(wal[n][p]) /\ wal[n][p][id + 1].key = cmd.key /\ wal[n][p][id + 1].index <= Reach(n)
        BY <4>1, <4>2, HitRecord DEF Answers
      <4>4. PICK x : x = wal[n][p][id + 1].index
        OBVIOUS
      <4>5. x \in Nat /\ x <= applied[n]
        BY <1>1, <2>2, <4>3, <4>4, PartFacts
      <4>6. x < i
        BY SMT, <1>2, <2>2, <2>4, <4>5
      <4>7. StandsFor(wal'[n][p][id + 1], i, cmd.key) /\ id + 1 \in 1..Len(wal'[n][p])
        BY <3>1, <4>2, <4>3, <4>4, <4>6 DEF StandsFor
      <4>8. QED
        BY <4>7
    <3>2. CASE Adds(n, p, index, cmd.key)
      <4>1. PICK rec : rec = [index |-> index, key |-> cmd.key]
        OBVIOUS
      <4>2. rec \in Record /\ rec.index = i
        BY <1>4, <1>8, <2>4, <4>1 DEF Record
      <4>3. Gains(n, p, rec)
        BY <1>1, <3>2, <4>1, <4>2, Appended DEF Adds
      <4>4. Len(wal'[n][p]) = Len(wal[n][p]) + 1 /\ Len(wal[n][p]) \in Nat /\ wal'[n][p][Len(wal[n][p]) + 1] = rec
        BY <4>3 DEF Gains
      <4>5. Len(wal[n][p]) + 1 \in 1..Len(wal'[n][p])
        BY SMT, <4>4
      <4>6. QED
        BY <4>2, <4>4, <4>5 DEF StandsFor
    <3>3. QED
      BY <1>4, <2>1, <2>5, <2>6, <3>1, <3>2 DEF ApplyEffect
  <2>8. QED
    BY <2>1, <2>5, <2>6, <2>7 DEF Stored, StandsFor
<1>12. QED
  BY <1>10, <1>11

LEMMA PresentQuiet ==
  ASSUME Core, Present, Quiet, UNCHANGED setup
  PROVE  Present'
<1>1. TypeOK
  BY DEF Core
<1>2. QuietEffect /\ LogGrows
  BY <1>1, QuietFacts, QuietLog
<1>3. UNCHANGED <<applied, highWater, wal>> /\ \A m \in Nodes : count[m] # 0 => count'[m] = count[m]
  BY <1>2 DEF QuietEffect, CountKept
<1> USE <1>3
<1>4. \A m \in Nodes : Reach(m)' = Reach(m)
  BY DEF Reach
<1>5. \A m \in Nodes, q \in PartIDs :
        /\ Len(wal[m][q]) <= Len(wal'[m][q]) /\ Len(wal'[m][q]) \in Nat
        /\ \A k \in 1..Len(wal[m][q]) : wal'[m][q][k] = wal[m][q][k]
  BY <1>1, WalNat
<1> SUFFICES ASSUME setup.sync = "fsync", NEW m \in Nodes, NEW i \in 1..Reach(m)', log'[i].kind = "pub", log'[i].part < count'[m]
             PROVE  Stored(m, i)'
  BY DEF Present
<1>6. i \in 1..Reach(m)
  BY <1>4
<1>7. QED
  BY <1>2, <1>5, <1>6, PresentKept

LEMMA PresentRestart ==
  ASSUME Core, Present, NEW n \in Nodes, Restart(n), UNCHANGED setup
  PROVE  Present'
<1>1. TypeOK
  BY DEF Core
<1>2. PICK records : Recovers(n, records)
  BY RestartFacts
<1> USE <1>2
<1>3. UNCHANGED <<log, count>>
  BY DEF Recovers
<1> USE <1>1
<1>4. LogGrows
  BY <1>3, LogStays
<1> SUFFICES ASSUME setup.sync = "fsync", NEW m \in Nodes, NEW i \in 1..Reach(m)', log'[i].kind = "pub", log'[i].part < count'[m]
             PROVE  Stored(m, i)'
  BY DEF Present
<1>5. \A q \in PartIDs : wal'[m][q] = wal[m][q]
  <2>1. CASE m = n
    BY <2>1 DEF Recovers
  <2>2. CASE m # n
    BY <2>2 DEF Recovers
  <2>3. QED
    BY <2>1, <2>2
<1>6. \A q \in PartIDs :
        /\ Len(wal[m][q]) <= Len(wal'[m][q]) /\ Len(wal'[m][q]) \in Nat
        /\ \A k \in 1..Len(wal[m][q]) : wal'[m][q][k] = wal[m][q][k]
  BY <1>5, WalNat
<1>7. i \in 1..Reach(m)
  <2>1. CASE m = n
    <3>1. highWater'[n] \in Nat /\ highWater'[n] <= Reach(n) /\ Reach(n)' = highWater'[n] /\ Reach(n) \in Nat
      BY NodeFacts DEF Recovers
    <3>2. QED
      BY SMT, <2>1, <3>1
  <2>2. CASE m # n
    BY <2>2 DEF Recovers
  <2>3. QED
    BY <2>1, <2>2
<1>8. count[m] # 0 => count'[m] = count[m]
  BY <1>3
<1>9. QED
  BY <1>4, <1>6, <1>7, <1>8, PresentKept

\* With fsync, no publish that a node has applied is missing from its WAL: not
\* when the high-water of recovery skips it, and not when the dedupe index drops it.
THEOREM NoneSkipped == Spec => []NothingSkipped
<1>1. Init => Core /\ Present
  <2> SUFFICES ASSUME Init PROVE Core /\ Present
    OBVIOUS
  <2>1. Core
    BY CoreInit
  <2>2. \A n \in Nodes : applied[n] = 0 /\ highWater[n] = 0
    BY DEF Init
  <2>3. \A n \in Nodes : Reach(n) = 0
    BY <2>2 DEF Reach
  <2>4. \A i \in 1..0 : FALSE
    BY SMT
  <2>5. QED
    BY <2>1, <2>3, <2>4 DEF Present
<1>2. Core /\ Present /\ [Next]_vars => (Core /\ Present)'
  <2> SUFFICES ASSUME Core, Present, [Next]_vars PROVE Core' /\ Present'
    OBVIOUS
  <2>1. Core'
    BY CoreStep
  <2>2. QED
    BY <2>1, ThreeKinds, PresentApply, PresentQuiet, PresentRestart
<1>3. Core /\ Present => NothingSkipped
  <2> SUFFICES ASSUME Core, Present, setup.sync = "fsync", NEW n \in Nodes, NEW i \in 1..applied[n],
                      log[i].kind = "pub", log[i].part < count[n]
               PROVE  \E r \in DOMAIN wal[n][log[i].part] :
                        LET record == wal[n][log[i].part][r]
                        IN  record.index = i \/ (record.index < i /\ record.key = log[i].key /\ record.key # NoKey)
    BY DEF NothingSkipped
  <2>1. TypeOK /\ Order
    BY DEF Core
  <2> USE <2>1
  <2>2. applied[n] \in Nat /\ Reach(n) \in Nat /\ applied[n] <= Reach(n) /\ applied[n] <= Len(log) /\ Len(log) \in Nat
    BY NodeFacts, SetupFacts DEF Order
  <2>3. i \in 1..Reach(n) /\ i \in 1..Len(log)
    BY SMT, <2>2
  <2>4. Stored(n, i) /\ log[i].part \in PartIDs
    BY <2>3, PubPart DEF Present
  <2>5. QED
    BY <2>4, PartFacts DEF Stored, StandsFor
<1>4. QED
  BY <1>1, <1>2, <1>3, PTL DEF Spec

=============================================================================
