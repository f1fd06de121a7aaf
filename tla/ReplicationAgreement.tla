------------------------ MODULE ReplicationAgreement ------------------------
(***************************************************************************)
(* The proof that the replicas answer a publish with the same message ID,  *)
(* from the invariants of module ReplicationProofs: the partitions of any  *)
(* node hold what the committed commands, applied one after the other,     *)
(* produce.                                                                *)
(***************************************************************************)
EXTENDS ReplicationProofs

(* As there, Zenon is the prover of a step that names no other. *)
USE ZenonT(30)

----------------------------------------------------------------------------
(* The replicas agree: what the log makes of a partition. *)

\* A place in the index for every key.
Room == Cardinality(setup.keys) <= setup.cap

IsHit(lru, key) == key # NoKey /\ Find(lru, key) > 0

\* applyPublish of command i with this key, on the records and on the index.
NextRecords(r, lru, i, key) == IF IsHit(lru, key) THEN r ELSE Append(r, [index |-> i, key |-> key])

NextIndex(r, lru, key) ==
    IF IsHit(lru, key) THEN MoveToFront(lru, Find(lru, key))
    ELSE IF key = NoKey THEN lru ELSE Insert(lru, key, Len(r))

\* The records and the index of a partition after i commands.
Sane(r, lru, i) ==
    /\ r \in Seq(Record) /\ Len(r) <= i
    /\ \A k \in 1..Len(r) : r[k].index <= i /\ r[k].key \in setup.keys
    /\ GoodAt(lru, r, Len(r))
    /\ Room => Covers(lru, r, Len(r)) /\ Unique(r)

\* r is what s held after j commands.
PrefixAt(r, s, j) ==
    /\ Len(r) <= Len(s) /\ \A k \in 1..Len(r) : s[k] = r[k]
    /\ \A k \in 1..Len(s) : ~ (k \in 1..Len(r)) => ~ (s[k].index <= j)

LEMMA KeysFinite == ASSUME TypeOK PROVE IsFiniteSet(setup.keys) /\ Cardinality(setup.keys) \in Nat
<1>1. IsFiniteSet(Keys) /\ setup.keys \subseteq Keys \cup {NoKey}
  BY ReplicationAssumption, SetupFacts
<1>2. IsFiniteSet(Keys \cup {NoKey})
  BY <1>1, FS_AddElement
<1>3. IsFiniteSet(setup.keys)
  BY <1>1, <1>2, FS_Subset
<1>4. QED
  BY <1>3, FS_CardinalityType

LEMMA SaneLater ==
  ASSUME NEW r, NEW lru, NEW i \in Nat, NEW j \in Nat, i <= j, MaxLog \in Nat, Sane(r, lru, i)
  PROVE  Sane(r, lru, j)
<1>1. r \in Seq(Record) /\ Len(r) <= i /\ \A k \in 1..Len(r) : r[k].index <= i
  BY DEF Sane
<1> USE <1>1
<1>2. Len(r) \in Nat /\ \A k \in 1..Len(r) : r[k] \in Record
  BY SMT, SeqLen
<1>3. \A k \in 1..Len(r) : r[k].index \in 1..MaxLog
  BY <1>2 DEF Record
<1>4. Len(r) <= j
  BY SMT, <1>2
<1>5. ASSUME NEW k \in 1..Len(r) PROVE r[k].index <= j
  <2>1. PICK x : x = r[k].index
    OBVIOUS
  <2>2. x <= i /\ x \in 1..MaxLog
    BY <1>3, <2>1
  <2>3. x <= j
    BY SMT, <2>2
  <2>4. QED
    BY <2>1, <2>3
<1>6. QED
  BY <1>4, <1>5 DEF Sane

LEMMA PrefixSame ==
  ASSUME NEW r \in Seq(Record), NEW j
  PROVE  PrefixAt(r, r, j)
<1>1. Len(r) <= Len(r)
  BY SMT, SeqLen
<1>2. QED
  BY <1>1 DEF PrefixAt

\* One more publish keeps a sane partition sane.
LEMMA PutSane ==
  ASSUME TypeOK, NEW r, NEW lru, NEW i \in 1..MaxLog, NEW key \in setup.keys, Sane(r, lru, i - 1)
  PROVE  /\ Sane(NextRecords(r, lru, i, key), NextIndex(r, lru, key), i)
         /\ PrefixAt(r, NextRecords(r, lru, i, key), i - 1)
<1> DEFINE s == NextRecords(r, lru, i, key)
           t == NextIndex(r, lru, key)
           rec == [index |-> i, key |-> key]
<1>1. /\ MaxLog \in Nat /\ i - 1 \in Nat /\ i \in Nat /\ i - 1 <= i /\ ~ (i <= i - 1) /\ i <= i
      /\ setup.cap \in Nat \ {0} /\ key \in Keys \cup {NoKey}
  <2>1. MaxLog \in Nat /\ setup.cap \in Nat \ {0} /\ key \in Keys \cup {NoKey}
    BY SetupFacts
  <2>2. QED
    BY SMT, <2>1
<1>2. /\ r \in Seq(Record) /\ Len(r) <= i - 1 /\ GoodAt(lru, r, Len(r))
      /\ \A k \in 1..Len(r) : r[k].index <= i - 1 /\ r[k].key \in setup.keys
      /\ Room => Covers(lru, r, Len(r)) /\ Unique(r)
  BY DEF Sane
<1>3. Len(r) \in Nat
  BY SMT, <1>2, SeqLen
<1>4. lru \in Seq(Entry) /\ Len(lru) <= setup.cap /\ Distinct(lru)
  BY <1>2 DEF GoodAt
<1>5. CASE IsHit(lru, key)
  <2>1. s = r /\ t = MoveToFront(lru, Find(lru, key))
    BY <1>5 DEF NextRecords, NextIndex
  <2>2. Find(lru, key) \in 1..Len(lru)
    BY SMTT(30), <1>4, <1>5, FindFacts DEF IsHit
  <2>3. GoodAt(t, r, Len(r))
    BY <1>2, <2>1, <2>2, GoodMove
  <2>4. Room => Covers(t, r, Len(r)) /\ Unique(r)
    BY <1>2, <1>4, <2>1, <2>2, CoversMove
  <2> HIDE DEF s, t
  <2>5. Sane(r, t, i - 1)
    BY <1>2, <2>3, <2>4 DEF Sane
  <2>6. Sane(r, t, i)
    BY <1>1, <2>5, SaneLater
  <2>7. QED
    BY <1>2, <2>1, <2>6, PrefixSame DEF s, t
<1>6. CASE ~ IsHit(lru, key)
  <2>1. s = Append(r, rec) /\ t = IF key = NoKey THEN lru ELSE Insert(lru, key, Len(r))
    BY <1>6 DEF NextRecords, NextIndex
  <2>2. rec \in Record /\ rec.index = i /\ rec.key = key
    BY <1>1 DEF Record
  <2> HIDE DEF rec, s, t
  <2>3. /\ s \in Seq(Record) /\ Len(s) = Len(r) + 1 /\ (\A k \in 1..Len(r) : s[k] = r[k]) /\ s[Len(r) + 1] = rec
    BY SMTT(30), <1>2, <2>1, <2>2, SeqAppend
  <2>4. Len(s) <= i /\ Len(r) <= Len(s) /\ Len(r) + 1 \in Nat /\ Len(r) <= Len(r) + 1 /\ Len(r) <= Len(r) /\ Len(r) \in IDs
    BY SMT, <1>1, <1>2, <1>3, <2>3 DEF IDs
  <2>5. \A k \in 1..Len(s) : k \in 1..Len(r) \/ k = Len(r) + 1
    BY SMT, <1>3, <2>3
  <2>6. ASSUME NEW k \in 1..Len(s) PROVE s[k].index <= i /\ s[k].key \in setup.keys
    <3>1. CASE k \in 1..Len(r)
      <4>1. s[k].key \in setup.keys
        BY <1>2, <2>3, <3>1
      <4>2. Sane(r, lru, i)
        BY <1>1, SaneLater
      <4>3. QED
        BY <2>3, <3>1, <4>1, <4>2 DEF Sane
    <3>2. CASE k = Len(r) + 1
      BY <1>1, <2>2, <2>3, <3>2
    <3>3. QED
      BY <2>5, <3>1, <3>2
  <2>7. GoodAt(lru, s, Len(r))
    BY <1>2, <1>3, <2>3, <2>4, GoodSame
  <2>8. s[Len(r) + 1].key = key
    BY <2>2, <2>3
  <2>9. GoodAt(t, s, Len(s))
    <3>1. CASE key = NoKey
      BY <1>2, <1>3, <2>1, <2>3, <2>4, <3>1, GoodSame
    <3>2. CASE key # NoKey
      BY <1>1, <2>1, <2>3, <2>4, <2>7, <2>8, <3>2, GoodInsert
    <3>3. QED
      BY <3>1, <3>2
  <2>10. ASSUME Room PROVE Covers(t, s, Len(s)) /\ Unique(s)
    <3>1. Covers(lru, r, Len(r)) /\ Unique(r)
      BY <1>2, <2>10
    <3>2. Covers(lru, s, Len(r))
      BY <2>3, <3>1 DEF Covers
    <3>3. CASE key = NoKey
      <4>1. Covers(t, s, Len(s))
        BY <2>1, <2>3, <2>5, <2>8, <3>2, <3>3 DEF Covers
      <4>2. ASSUME NEW j \in 1..Len(s), NEW k \in 1..Len(s), s[j].key = s[k].key, s[j].key # NoKey PROVE j = k
        <5>1. j \in 1..Len(r) /\ k \in 1..Len(r)
          BY <2>5, <2>8, <3>3, <4>2
        <5>2. QED
          BY <2>3, <3>1, <4>2, <5>1 DEF Unique
      <4>3. QED
        BY <4>1, <4>2 DEF Unique
    <3>4. CASE key # NoKey
      <4>1. \A k \in 1..Len(lru) : lru[k].key # key
        <5>1. (Find(lru, key) = 0 /\ \A k \in 1..Len(lru) : lru[k].key # key) \/ Find(lru, key) > 0
          BY <1>4, FindFacts
        <5>2. QED
          BY <1>6, <3>4, <5>1 DEF IsHit
      <4>2. \A k \in 1..Len(r) : r[k].key # key
        BY <3>1, <3>4, <4>1 DEF Covers
      <4>3. \A k \in 1..Len(lru) : lru[k].key \in setup.keys
        BY <1>2 DEF GoodAt
      <4>4. IsFiniteSet(setup.keys) /\ Cardinality(setup.keys) <= setup.cap /\ setup.cap \in Nat
        BY <1>1, <2>10, KeysFinite DEF Room
      <4>5. Len(lru) < setup.cap
        BY <1>4, <4>1, <4>3, <4>4, RoomLeft
      <4>6. key \in Keys
        BY <1>1, <3>4
      <4>7. Covers(Insert(lru, key, Len(r)), s, Len(r) + 1)
        BY <1>1, <2>4, <2>7, <2>8, <3>2, <4>5, <4>6, CoversInsert
      <4>8. Covers(t, s, Len(s))
        BY <2>1, <2>3, <3>4, <4>7
      <4>9. ASSUME NEW j \in 1..Len(s), NEW k \in 1..Len(s), s[j].key = s[k].key, s[j].key # NoKey PROVE j = k
        <5>1. CASE j \in 1..Len(r) /\ k \in 1..Len(r)
          BY <2>3, <3>1, <4>9, <5>1 DEF Unique
        <5>2. CASE ~ (j \in 1..Len(r)) \/ ~ (k \in 1..Len(r))
          BY <2>3, <2>5, <2>8, <4>2, <4>9, <5>2
        <5>3. QED
          BY <5>1, <5>2
      <4>10. QED
        BY <4>8, <4>9 DEF Unique
    <3>5. QED
      BY <3>3, <3>4
  <2>11. Sane(s, t, i)
    BY <2>3, <2>4, <2>6, <2>9, <2>10 DEF Sane
  <2>12. PrefixAt(r, s, i - 1)
    BY <1>1, <2>2, <2>3, <2>4, <2>5 DEF PrefixAt
  <2>13. QED
    BY <2>11, <2>12 DEF s, t
<1>7. QED
  BY <1>5, <1>6

LEMMA PrefixTrans ==
  ASSUME NEW r \in Seq(Record), NEW s \in Seq(Record), NEW t \in Seq(Record), NEW i \in Nat, NEW j \in Nat, j <= i,
         MaxLog \in Nat, PrefixAt(r, s, j), PrefixAt(s, t, i)
  PROVE  PrefixAt(r, t, j)
<1>1. Len(r) \in Nat /\ Len(s) \in Nat /\ Len(t) \in Nat /\ \A k \in 1..Len(t) : t[k] \in Record
  BY SMT, SeqLen
<1>2. Len(r) <= Len(s) /\ Len(s) <= Len(t)
  BY DEF PrefixAt
<1>3. Len(r) <= Len(t) /\ \A k \in 1..Len(r) : k \in 1..Len(s)
  BY SMT, <1>1, <1>2
<1>4. \A k \in 1..Len(r) : t[k] = r[k]
  BY <1>3 DEF PrefixAt
<1>5. ASSUME NEW k \in 1..Len(t), ~ (k \in 1..Len(r)) PROVE ~ (t[k].index <= j)
  <2>1. CASE k \in 1..Len(s)
    BY <1>5, <2>1 DEF PrefixAt
  <2>2. CASE ~ (k \in 1..Len(s))
    <3>1. PICK x : x = t[k].index
      OBVIOUS
    <3> USE <3>1
    <3>2. x \in 1..MaxLog
      BY <1>1 DEF Record
    <3>3. ~ (x <= i)
      BY <2>2 DEF PrefixAt
    <3>4. ~ (x <= j)
      BY SMT, <3>2, <3>3
    <3>5. QED
      BY <3>4
  <2>3. QED
    BY <2>1, <2>2
<1>6. QED
  BY <1>3, <1>4, <1>5 DEF PrefixAt

\* What command i does to partition p, when the topic has the default count.
Touches(cmd, p) == cmd.kind = "pub" /\ cmd.part = p /\ p < setup.default

\* R[i][p] and L[i][p] are the records and the index of partition p after the
\* first i commands of the log.
Link(R, L, i, p, cmd) ==
    IF Touches(cmd, p)
    THEN R[i][p] = NextRecords(R[i - 1][p], L[i - 1][p], i, cmd.key) /\ L[i][p] = NextIndex(R[i - 1][p], L[i - 1][p], cmd.key)
    ELSE R[i][p] = R[i - 1][p] /\ L[i][p] = L[i - 1][p]

History(R, L, cmds) ==
    /\ \A p \in PartIDs : R[0][p] = << >> /\ L[0][p] = << >>
    /\ \A i \in 1..Len(cmds), p \in PartIDs : Link(R, L, i, p, cmds[i])
    /\ \A i \in 0..Len(cmds), p \in PartIDs : Sane(R[i][p], L[i][p], i)
    /\ \A i, j \in 0..Len(cmds), p \in PartIDs : j <= i => PrefixAt(R[j][p], R[i][p], j)

\* The records of every node are those of the commands it has reached.  Its index
\* is the one of the log when it is never rebuilt, and one that holds every key
\* when there is a place for every key.
Follows(R, L) ==
    \A n \in Nodes, p \in PartIDs :
      /\ wal[n][p] = R[Reach(n)][p]
      /\ setup.restarts = 0 => dedupe[n][p] = L[Reach(n)][p]
      /\ Room => Covers(dedupe[n][p], wal[n][p], Len(wal[n][p]))

Holds(r, ok, key) ==
    /\ ok.id + 1 \in 1..Len(r)
    /\ r[ok.id + 1].index = ok.index \/ (r[ok.id + 1].index < ok.index /\ r[ok.id + 1].key = key)

OksHold(R) == \A ok \in oks : ok.index \in 1..Len(log) /\ Holds(R[ok.index][ok.part], ok, log[ok.index].key)

\* Only such commands are in the log.
Commands == \A i \in 1..Len(log) : Proposed(log[i])

OneCount == \A n \in Nodes : count[n] = 0 \/ count[n] = setup.default

Agreed == Deterministic => OneCount /\ \E R, L : History(R, L, log) /\ Follows(R, L) /\ OksHold(R)

LEMMA SanePrime ==
  ASSUME UNCHANGED setup, NEW r, NEW lru, NEW i, Sane(r, lru, i)
  PROVE  Sane(r, lru, i)'
BY DEF Sane, GoodAt, Room

LEMMA LinkPrime ==
  ASSUME UNCHANGED setup, NEW R, NEW L, NEW i, NEW p, NEW cmd, Link(R, L, i, p, cmd)
  PROVE  Link(R, L, i, p, cmd)'
<1>1. \A r, lru, key : NextIndex(r, lru, key)' = NextIndex(r, lru, key)
  <2>1. \A lru : Keep(lru)' = Keep(lru)
    BY DEF Keep
  <2>2. \A lru, key, id : Insert(lru, key, id)' = Insert(lru, key, id)
    BY <2>1 DEF Insert
  <2>3. QED
    BY <2>2 DEF NextIndex
<1>2. Touches(cmd, p)' <=> Touches(cmd, p)
  BY DEF Touches
<1>3. QED
  BY <1>1, <1>2 DEF Link

LEMMA HistoryPrime ==
  ASSUME UNCHANGED setup, NEW R, NEW L, History(R, L, log')
  PROVE  History(R, L, log)'
<1>1. PICK cmds : cmds = log'
  OBVIOUS
<1>2. History(R, L, cmds)
  BY <1>1
<1> USE <1>2
<1>3. \A i \in 1..Len(cmds), p \in PartIDs : Link(R, L, i, p, cmds[i])'
  BY LinkPrime DEF History
<1>4. \A i \in 0..Len(cmds), p \in PartIDs : Sane(R[i][p], L[i][p], i)'
  BY SanePrime DEF History
<1>5. History(R, L, cmds)'
  BY <1>3, <1>4 DEF History
<1>6. QED
  BY <1>1, <1>5 DEF History

\* The history continued to the log of the next state.
Continues(R, L, S, M) == History(S, M, log') /\ \A i \in 0..Len(log) : S[i] = R[i] /\ M[i] = L[i]

LEMMA HistoryGrows ==
  ASSUME TypeOK, NEW cmd \in Command, Proposed(cmd), Propose(cmd), NEW R, NEW L, History(R, L, log)
  PROVE  \E S, M : Continues(R, L, S, M)
<1> DEFINE N == Len(log)
           newR == [p \in PartIDs |-> IF Touches(cmd, p) THEN NextRecords(R[N][p], L[N][p], N + 1, cmd.key) ELSE R[N][p]]
           newL == [p \in PartIDs |-> IF Touches(cmd, p) THEN NextIndex(R[N][p], L[N][p], cmd.key) ELSE L[N][p]]
           S == [i \in 0..(N + 1) |-> IF i = N + 1 THEN newR ELSE R[i]]
           M == [i \in 0..(N + 1) |-> IF i = N + 1 THEN newL ELSE L[i]]
<1>1. /\ Len(log') = N + 1 /\ N + 1 \in 1..MaxLog /\ log'[N + 1] = cmd
      /\ \A i \in 1..N : log'[i] = log[i]
  BY LogAppend DEF LogGrows
<1>2. N \in Nat /\ MaxLog \in Nat
  BY SetupFacts
<1> USE <1>2
<1>3. /\ \A i \in 0..(N + 1) : i \in 0..N \/ i = N + 1
      /\ \A i \in 1..(N + 1) : i \in 1..N \/ i = N + 1
      /\ \A i \in 0..N : i \in 0..(N + 1) /\ i # N + 1 /\ i \in Nat /\ i <= N
      /\ \A i \in 1..N : i - 1 \in 0..N /\ i \in 0..N
      /\ N + 1 \in 0..(N + 1) /\ (N + 1) - 1 = N /\ N \in 0..N /\ N + 1 \in Nat /\ 0 \in 0..N /\ N <= N + 1
      /\ \A i \in 0..N : ~ (N + 1 <= i)
  BY SMT
<1> USE <1>3
<1>4. /\ \A i \in 0..N : S[i] = R[i] /\ M[i] = L[i]
      /\ S[N + 1] = newR /\ M[N + 1] = newL
  OBVIOUS
<1>5. \A p \in PartIDs :
        /\ newR[p] = IF Touches(cmd, p) THEN NextRecords(R[N][p], L[N][p], N + 1, cmd.key) ELSE R[N][p]
        /\ newL[p] = IF Touches(cmd, p) THEN NextIndex(R[N][p], L[N][p], cmd.key) ELSE L[N][p]
  OBVIOUS
<1> HIDE DEF newR, newL, S, M
<1> USE <1>1, <1>5
<1>6. ASSUME NEW p \in PartIDs
      PROVE  Sane(newR[p], newL[p], N + 1) /\ PrefixAt(R[N][p], newR[p], N)
  <2>1. Sane(R[N][p], L[N][p], N)
    BY DEF History
  <2> USE <2>1
  <2>2. CASE Touches(cmd, p)
    <3>1. cmd.key \in setup.keys
      BY <2>2 DEF Touches, Proposed
    <3>2. Sane(R[N][p], L[N][p], (N + 1) - 1)
      OBVIOUS
    <3>3. /\ Sane(NextRecords(R[N][p], L[N][p], N + 1, cmd.key), NextIndex(R[N][p], L[N][p], cmd.key), N + 1)
          /\ PrefixAt(R[N][p], NextRecords(R[N][p], L[N][p], N + 1, cmd.key), (N + 1) - 1)
      BY <3>1, <3>2, PutSane
    <3>4. newR[p] = NextRecords(R[N][p], L[N][p], N + 1, cmd.key) /\ newL[p] = NextIndex(R[N][p], L[N][p], cmd.key)
      BY <2>2
    <3>5. QED
      BY <3>3, <3>4
  <2>3. CASE ~ Touches(cmd, p)
    <3>1. newR[p] = R[N][p] /\ newL[p] = L[N][p]
      BY <2>3
    <3>2. Sane(R[N][p], L[N][p], N + 1)
      BY SaneLater
    <3>3. R[N][p] \in Seq(Record)
      BY DEF Sane
    <3>4. QED
      BY <3>1, <3>2, <3>3, PrefixSame
  <2>4. QED
    BY <2>2, <2>3
<1> USE <1>4
<1>7. \A p \in PartIDs : S[0][p] = << >> /\ M[0][p] = << >>
  BY DEF History
<1>8. ASSUME NEW i \in 1..(N + 1), NEW p \in PartIDs PROVE Link(S, M, i, p, log'[i])
  <2>1. CASE i \in 1..N
    <3>1. Link(R, L, i, p, log[i]) /\ log'[i] = log[i]
      BY <2>1 DEF History
    <3>2. S[i] = R[i] /\ M[i] = L[i] /\ S[i - 1] = R[i - 1] /\ M[i - 1] = L[i - 1]
      BY <2>1
    <3>3. QED
      BY <3>1, <3>2 DEF Link
  <2>2. CASE i = N + 1
    <3>1. S[i] = newR /\ M[i] = newL /\ S[i - 1] = R[N] /\ M[i - 1] = L[N] /\ log'[i] = cmd
      BY <2>2
    <3>2. QED
      BY <2>2, <3>1 DEF Link
  <2>3. QED
    BY <2>1, <2>2
<1> USE <1>6
<1>9. ASSUME NEW i \in 0..(N + 1), NEW p \in PartIDs PROVE Sane(S[i][p], M[i][p], i)
  <2>1. CASE i \in 0..N
    BY <2>1 DEF History
  <2>2. CASE i = N + 1
    BY <2>2
  <2>3. QED
    BY <2>1, <2>2
<1>10. ASSUME NEW i \in 0..(N + 1), NEW j \in 0..(N + 1), NEW p \in PartIDs, j <= i PROVE PrefixAt(S[j][p], S[i][p], j)
  <2>1. CASE i \in 0..N
    <3>1. j \in 0..N
      BY <1>10, <2>1
    <3>2. QED
      BY <1>10, <2>1, <3>1 DEF History
  <2>2. CASE i = N + 1 /\ j \in 0..N
    <3> USE <2>2
    <3>1. PrefixAt(R[j][p], R[N][p], j) /\ PrefixAt(R[N][p], newR[p], N)
      BY DEF History
    <3>2. R[j][p] \in Seq(Record) /\ R[N][p] \in Seq(Record) /\ newR[p] \in Seq(Record)
      BY DEF History, Sane
    <3>3. PrefixAt(R[j][p], newR[p], j)
      BY <3>1, <3>2, PrefixTrans
    <3>4. QED
      BY <3>3
  <2>3. CASE i = N + 1 /\ j = N + 1
    <3>1. newR[p] \in Seq(Record)
      BY DEF Sane
    <3>2. QED
      BY <2>3, <3>1, PrefixSame
  <2>4. QED
    BY <2>1, <2>2, <2>3
<1>11. History(S, M, log')
  BY <1>7, <1>8, <1>9, <1>10 DEF History
<1>12. Continues(R, L, S, M)
  BY <1>11 DEF Continues
<1>13. QED
  BY <1>12

LEMMA ReachLog ==
  ASSUME TypeOK, Order, NEW n \in Nodes
  PROVE  Reach(n) \in 0..Len(log) /\ Reach(n) <= Len(log)
<1>1. 0 \in PartIDs
  BY SMT, ReplicationAssumption DEF PartIDs
<1>2. Reach(n) <= Len(log) /\ Reach(n) \in Nat /\ Len(log) \in Nat
  BY <1>1, WalBound, NodeFacts, SetupFacts
<1>3. QED
  BY SMT, <1>2

LEMMA FollowsSame ==
  ASSUME NEW R, NEW L, NEW S, NEW M, TypeOK, Order, Follows(R, L), Continues(R, L, S, M),
         UNCHANGED <<setup, applied, highWater, wal, dedupe>>
  PROVE  Follows(S, M)'
<1>1. \A n \in Nodes : Reach(n)' = Reach(n)
  BY DEF Reach
<1>2. ASSUME NEW n \in Nodes, NEW p \in PartIDs
      PROVE  /\ wal'[n][p] = S[Reach(n)'][p]
             /\ setup'.restarts = 0 => dedupe'[n][p] = M[Reach(n)'][p]
             /\ Room' => Covers(dedupe'[n][p], wal'[n][p], Len(wal'[n][p]))
  <2>1. S[Reach(n)'] = R[Reach(n)] /\ M[Reach(n)'] = L[Reach(n)]
    BY <1>1, ReachLog DEF Continues
  <2>2. Room' <=> Room
    BY DEF Room
  <2>3. QED
    BY <2>1, <2>2 DEF Follows
<1>3. QED
  BY <1>2 DEF Follows, Covers

LEMMA CommandsStep ==
  ASSUME Core, Commands, [Next]_vars
  PROVE  Commands'
<1>1. TypeOK /\ UNCHANGED setup
  BY ThreeKinds DEF Core
<1> USE <1>1
<1>2. CASE UNCHANGED log
  BY <1>2 DEF Commands, Proposed
<1>3. CASE \E cmd \in Command : Proposed(cmd) /\ Propose(cmd)
  <2>1. PICK cmd \in Command : Proposed(cmd) /\ Propose(cmd)
    BY <1>3
  <2>2. Len(log') = Len(log) + 1 /\ log'[Len(log) + 1] = cmd /\ LogGrows /\ Len(log) \in Nat
    BY <2>1, LogAppend, SetupFacts
  <2>3. \A i \in 1..(Len(log) + 1) : i \in 1..Len(log) \/ i = Len(log) + 1
    BY SMT, <2>2
  <2>4. \A i \in 1..Len(log') : Proposed(log'[i])
    BY <2>1, <2>2, <2>3 DEF Commands, LogGrows
  <2>5. QED
    BY <2>4 DEF Commands, Proposed
<1>4. UNCHANGED log \/ \E cmd \in Command : Proposed(cmd) /\ Propose(cmd)
  BY ThreeKinds, QuietFacts DEF QuietEffect, Apply, Restart
<1>5. QED
  BY <1>2, <1>3, <1>4

LEMMA CountStep ==
  ASSUME Core, Commands, Deterministic, OneCount, [Next]_vars
  PROVE  OneCount'
<1>1. TypeOK /\ UNCHANGED setup
  BY ThreeKinds DEF Core
<1> USE <1>1
<1>2. CASE CountKept
  BY <1>2 DEF OneCount, CountKept
<1>3. CASE UNCHANGED count
  BY <1>3 DEF OneCount
<1>4. ASSUME NEW n \in Nodes, Apply(n) PROVE OneCount'
  <2>1. PICK index : index = applied[n] + 1
    OBVIOUS
  <2>2. PICK cmd : cmd = log[index]
    OBVIOUS
  <2>3. ApplyEffect(n, index, cmd) /\ index \in 1..Len(log)
    BY <1>4, <2>1, <2>2, ApplyEffects, ApplyFacts
  <2>4. CASE cmd.kind = "create" /\ \A m \in Nodes : count'[m] = count[m] \/ (count[m] = 0 /\ count'[m] = cmd.part)
    <3>1. cmd.part = Parts /\ "create" \in setup.events
      BY <2>2, <2>3, <2>4 DEF Commands, Proposed
    <3>2. setup.default = Parts
      BY <3>1 DEF Deterministic
    <3>3. QED
      BY <2>4, <3>1, <3>2 DEF OneCount
  <2>5. QED
    BY <1>2, <2>3, <2>4 DEF ApplyEffect
<1>5. QED
  BY <1>2, <1>3, <1>4, ThreeKinds, QuietFacts DEF QuietEffect, Restart

LEMMA AgreedQuiet ==
  ASSUME Core, Deterministic, Quiet, UNCHANGED setup, NEW R, NEW L, History(R, L, log), Follows(R, L), OksHold(R)
  PROVE  \E S, M : History(S, M, log)' /\ Follows(S, M)' /\ OksHold(S)'
<1>1. TypeOK /\ Order
  BY DEF Core
<1> USE <1>1
<1>2. QuietEffect
  BY QuietFacts
<1> USE <1>2
<1>8. PICK S, M : Continues(R, L, S, M)
  <2>1. CASE UNCHANGED log
    <3>1. Continues(R, L, R, L)
      BY <2>1 DEF Continues
    <3>2. QED
      BY <3>1
  <2>2. CASE \E cmd \in Command : Proposed(cmd) /\ Propose(cmd)
    BY <2>2, HistoryGrows
  <2>3. QED
    BY <2>1, <2>2 DEF QuietEffect
<1>3. History(S, M, log') /\ \A i \in 0..Len(log) : S[i] = R[i] /\ M[i] = L[i]
  BY <1>8 DEF Continues
<1>4. History(S, M, log)'
  BY <1>3, HistoryPrime
<1>5. Follows(S, M)'
  <2>1. UNCHANGED <<setup, applied, highWater, wal, dedupe>>
    BY DEF QuietEffect
  <2>2. QED
    BY <1>8, <2>1, FollowsSame
<1>6. OksHold(S)'
  <2>1. UNCHANGED oks /\ LogGrows
    BY QuietLog DEF QuietEffect
  <2> USE <2>1
  <2>2. \A i \in 1..Len(log) : i \in 1..Len(log') /\ i \in 0..Len(log) /\ log'[i] = log[i]
    <3>1. Len(log) \in Nat /\ Len(log) <= Len(log') /\ Len(log') \in Nat
      <4>1. Len(log) \in Nat /\ Len(log) <= Len(log')
        BY SetupFacts DEF LogGrows
      <4>2. Len(log') = Len(log) \/ Len(log') = Len(log) + 1
        BY LogAppend DEF QuietEffect
      <4>3. QED
        BY SMT, <4>1, <4>2
    <3>2. \A i \in 1..Len(log) : i \in 1..Len(log') /\ i \in 0..Len(log)
      BY SMT, <3>1
    <3>3. QED
      BY <3>2 DEF LogGrows
  <2>3. ASSUME NEW ok \in oks PROVE ok.index \in 1..Len(log') /\ Holds(S[ok.index][ok.part], ok, log'[ok.index].key)
    BY <1>3, <2>2 DEF OksHold
  <2>4. QED
    BY <2>3 DEF OksHold, Holds
<1>7. QED
  BY <1>4, <1>5, <1>6

LEMMA NodeSane ==
  ASSUME Core, NEW R, NEW L, History(R, L, log), Follows(R, L), NEW n \in Nodes, NEW p \in PartIDs
  PROVE  /\ Sane(wal[n][p], dedupe[n][p], Reach(n)) /\ Sane(R[Reach(n)][p], L[Reach(n)][p], Reach(n))
         /\ wal[n][p] = R[Reach(n)][p]
<1>1. Sane(R[Reach(n)][p], L[Reach(n)][p], Reach(n))
  BY ReachLog DEF History, Core
<1>2. wal[n][p] = R[Reach(n)][p] /\ (Room => Covers(dedupe[n][p], wal[n][p], Len(wal[n][p])))
  BY DEF Follows
<1>3. GoodAt(dedupe[n][p], wal[n][p], Len(wal[n][p]))
  BY DEF Core, Indexed
<1>4. QED
  BY <1>1, <1>2, <1>3 DEF Sane

\* With a place for every key, whether a key hits depends on the records alone.
LEMMA HitIff ==
  ASSUME NEW r, NEW lru, NEW i, Sane(r, lru, i), Room, NEW key
  PROVE  IsHit(lru, key) <=> (key # NoKey /\ \E k \in 1..Len(r) : r[k].key = key)
<1>1. lru \in Seq(Entry) /\ GoodAt(lru, r, Len(r)) /\ Covers(lru, r, Len(r))
  BY DEF Sane, GoodAt
<1> USE <1>1
<1>2. \/ Find(lru, key) = 0 /\ ~ (Find(lru, key) > 0) /\ \A k \in 1..Len(lru) : lru[k].key # key
      \/ Find(lru, key) \in 1..Len(lru) /\ Find(lru, key) > 0 /\ lru[Find(lru, key)].key = key
  <2>1. ~ (0 > 0)
    BY SMT
  <2>2. QED
    BY <2>1, FindFacts
<1>3. CASE Find(lru, key) > 0
  <2>1. Find(lru, key) \in 1..Len(lru) /\ lru[Find(lru, key)].key = key
    BY <1>2, <1>3
  <2>2. \E k \in 1..Len(r) : r[k].key = key
    BY <2>1 DEF GoodAt
  <2>3. QED
    BY <1>3, <2>2 DEF IsHit
<1>4. CASE ~ (Find(lru, key) > 0)
  <2>1. \A k \in 1..Len(lru) : lru[k].key # key
    BY <1>2, <1>4
  <2>2. QED
    BY <1>4, <2>1 DEF IsHit, Covers
<1>5. QED
  BY <1>3, <1>4

\* Apply of a publish puts it in one partition of one node.
Puts(n, p, index, key) ==
    /\ wal'[n][p] = NextRecords(wal[n][p], dedupe[n][p], index, key)
    /\ dedupe'[n][p] = NextIndex(wal[n][p], dedupe[n][p], key)
    /\ \A m \in Nodes, q \in PartIDs : ~ (m = n /\ q = p) => wal'[m][q] = wal[m][q] /\ dedupe'[m][q] = dedupe[m][q]

LEMMA PutStep ==
  ASSUME Core, NEW n \in Nodes, NEW p \in PartIDs, NEW index \in 1..MaxLog, NEW key \in Keys \cup {NoKey}, Core',
         \/ key # NoKey /\ Hits(n, p, key)
         \/ (key = NoKey \/ Find(dedupe[n][p], key) = 0) /\ Adds(n, p, index, key)
  PROVE  Puts(n, p, index, key)
<1>1. TypeOK /\ TypeOK'
  BY DEF Core
<1>2. /\ dedupe \in [Nodes -> [PartIDs -> Seq(Entry)]] /\ dedupe' \in [Nodes -> [PartIDs -> Seq(Entry)]]
      /\ wal \in [Nodes -> [PartIDs -> Seq(Record)]]
  BY <1>1 DEF TypeOK
<1> USE <1>2
<1>3. CASE key # NoKey /\ Hits(n, p, key)
  <2>1. IsHit(dedupe[n][p], key) /\ wal' = wal
    BY <1>3 DEF Hits, IsHit
  <2>2. PICK t : t = MoveToFront(dedupe[n][p], Find(dedupe[n][p], key))
    OBVIOUS
  <2>3. dedupe' = [dedupe EXCEPT ![n][p] = t]
    BY <1>3, <2>2 DEF Hits
  <2>4. dedupe'[n][p] = t
    BY <2>3
  <2>5. \A m \in Nodes, q \in PartIDs : ~ (m = n /\ q = p) => dedupe'[m][q] = dedupe[m][q]
    BY SMTT(30), <2>3
  <2>6. QED
    BY <2>1, <2>2, <2>4, <2>5 DEF Puts, NextRecords, NextIndex
<1>4. CASE (key = NoKey \/ Find(dedupe[n][p], key) = 0) /\ Adds(n, p, index, key)
  <2> USE <1>4
  <2>1. ~ IsHit(dedupe[n][p], key)
    <3>1. ~ (0 > 0)
      BY SMT
    <3>2. QED
      BY <3>1 DEF IsHit
  <2>2. PICK t : t = IF key = NoKey THEN dedupe[n][p] ELSE Insert(dedupe[n][p], key, Len(wal[n][p]))
    OBVIOUS
  <2>3. dedupe' = [dedupe EXCEPT ![n][p] = t]
    BY <2>2 DEF Adds
  <2>4. dedupe'[n][p] = t
    BY <2>3
  <2>5. \A m \in Nodes, q \in PartIDs : ~ (m = n /\ q = p) => dedupe'[m][q] = dedupe[m][q]
    BY SMTT(30), <2>3
  <2>6. PICK rec : rec = [index |-> index, key |-> key]
    OBVIOUS
  <2> USE <2>6
  <2>7. rec \in Record
    BY DEF Record
  <2>8. Gains(n, p, rec)
    BY <1>1, <2>7, Appended DEF Adds
  <2>9. wal'[n][p] = Append(wal[n][p], rec) /\ \A m \in Nodes, q \in PartIDs : ~ (m = n /\ q = p) => wal'[m][q] = wal[m][q]
    BY <2>8 DEF Gains
  <2>10. QED
    BY <2>1, <2>2, <2>4, <2>5, <2>9 DEF Puts, NextRecords, NextIndex
<1>5. QED
  BY <1>3, <1>4

\* What the publish makes of a partition of the node is what the history says.
Matches(R, L, n, p, index, key) ==
    /\ NextRecords(wal[n][p], dedupe[n][p], index, key) = R[index][p]
    /\ setup.restarts = 0 => NextIndex(wal[n][p], dedupe[n][p], key) = L[index][p]
    /\ Sane(NextRecords(wal[n][p], dedupe[n][p], index, key), NextIndex(wal[n][p], dedupe[n][p], key), index)
    /\ PrefixAt(wal[n][p], R[index][p], index - 1)

LEMMA PutMatches ==
  ASSUME Core, Deterministic, NEW R, NEW L, History(R, L, log), Follows(R, L), NEW n \in Nodes, NEW p \in PartIDs,
         NEW index \in 1..Len(log), Reach(n) = index - 1, Touches(log[index], p), log[index].key \in setup.keys
  PROVE  Matches(R, L, n, p, index, log[index].key)
<1>1. PICK key : key = log[index].key
  OBVIOUS
<1>2. TypeOK
  BY DEF Core
<1>3. /\ R[index][p] = NextRecords(R[index - 1][p], L[index - 1][p], index, key)
      /\ L[index][p] = NextIndex(R[index - 1][p], L[index - 1][p], key)
  BY <1>1 DEF History, Link
<1>4. /\ Sane(wal[n][p], dedupe[n][p], index - 1) /\ Sane(R[index - 1][p], L[index - 1][p], index - 1)
      /\ wal[n][p] = R[index - 1][p]
  BY NodeSane
<1>5. setup.restarts = 0 => dedupe[n][p] = L[index - 1][p]
  BY DEF Follows
<1>6. IsHit(dedupe[n][p], key) <=> IsHit(L[index - 1][p], key)
  <2>1. CASE setup.restarts = 0
    BY <1>5, <2>1
  <2>2. CASE Room
    BY <1>4, <2>2, HitIff
  <2>3. QED
    BY <2>1, <2>2 DEF Deterministic, Room
<1>7. NextRecords(wal[n][p], dedupe[n][p], index, key) = R[index][p]
  BY <1>3, <1>4, <1>6 DEF NextRecords
<1>8. setup.restarts = 0 => NextIndex(wal[n][p], dedupe[n][p], key) = L[index][p]
  BY <1>3, <1>4, <1>5 DEF NextIndex
<1>9. /\ Sane(NextRecords(wal[n][p], dedupe[n][p], index, key), NextIndex(wal[n][p], dedupe[n][p], key), index)
      /\ PrefixAt(wal[n][p], NextRecords(wal[n][p], dedupe[n][p], index, key), index - 1)
  <2>1. index \in 1..MaxLog /\ key \in setup.keys
    <3>1. Len(log) \in Nat /\ Len(log) <= MaxLog /\ MaxLog \in Nat
      BY <1>2, SetupFacts
    <3>2. index \in 1..MaxLog
      BY SMT, <3>1
    <3>3. QED
      BY <1>1, <3>2
  <2>2. QED
    BY <1>2, <1>4, <2>1, PutSane
<1>10. QED
  BY <1>1, <1>7, <1>8, <1>9 DEF Matches

\* What the nodes have reached moves over commands that touch no partition.
Drifts(R, L) ==
    \A m \in Nodes, q \in PartIDs : R[Reach(m)'][q] = R[Reach(m)][q] /\ L[Reach(m)'][q] = L[Reach(m)][q]

LEMMA FollowsMoved ==
  ASSUME NEW R, NEW L, Follows(R, L), UNCHANGED <<setup, wal, dedupe>>, Drifts(R, L)
  PROVE  Follows(R, L)'
<1>1. ASSUME NEW n \in Nodes, NEW p \in PartIDs
      PROVE  /\ wal'[n][p] = R[Reach(n)'][p]
             /\ setup'.restarts = 0 => dedupe'[n][p] = L[Reach(n)'][p]
             /\ Room' => Covers(dedupe'[n][p], wal'[n][p], Len(wal'[n][p]))
  <2>1. Room' <=> Room
    BY DEF Room
  <2>2. QED
    BY <2>1 DEF Follows, Drifts
<1>2. QED
  BY <1>1 DEF Follows, Covers

Still(R, L, i, p) == R[i][p] = R[i - 1][p] /\ L[i][p] = L[i - 1][p]

\* A command that touches no partition moves the history on.
LEMMA HistorySame ==
  ASSUME NEW R, NEW L, History(R, L, log), NEW i \in 1..Len(log), NEW p \in PartIDs, ~ Touches(log[i], p)
  PROVE  Still(R, L, i, p)
BY DEF History, Link, Still

LEMMA AgreedIdle ==
  ASSUME Core, Core', NEW n \in Nodes, NEW R, NEW L, NEW index \in 1..Len(log), index = applied[n] + 1,
         applied' = [applied EXCEPT ![n] = applied[n] + 1],
         History(R, L, log), Follows(R, L), OksHold(R), UNCHANGED <<setup, log, highWater, wal, dedupe, oks>>,
         (index <= highWater[n]) \/ \A p \in PartIDs : ~ Touches(log[index], p)
  PROVE  Follows(R, L)' /\ OksHold(R)'
<1>1. TypeOK
  BY DEF Core
<1>2. ASSUME NEW m \in Nodes, NEW q \in PartIDs PROVE R[Reach(m)'][q] = R[Reach(m)][q] /\ L[Reach(m)'][q] = L[Reach(m)][q]
  <2>1. CASE m # n \/ index <= highWater[n]
    <3>1. Reach(m)' = Reach(m)
      BY <1>1, <2>1, ReachApply
    <3>2. QED
      BY <3>1
  <2>2. CASE m = n /\ ~ (index <= highWater[n])
    <3>1. Reach(n) = applied[n] /\ Reach(n)' = index /\ applied[n] \in Nat
      BY <1>1, <2>2, ReachApply, NodeFacts
    <3>2. index - 1 = applied[n]
      BY SMT, <3>1
    <3>3. R[index][q] = R[index - 1][q] /\ L[index][q] = L[index - 1][q]
      <4>1. ~ Touches(log[index], q)
        BY <2>2
      <4>2. Still(R, L, index, q)
        BY <4>1, HistorySame
      <4>3. QED
        BY <4>2 DEF Still
    <3>4. QED
      BY <2>2, <3>1, <3>2, <3>3
  <2>3. QED
    BY <2>1, <2>2
<1>3. Follows(R, L)'
  <2>1. Drifts(R, L)
    BY <1>2 DEF Drifts
  <2>2. QED
    BY <2>1, FollowsMoved
<1>4. OksHold(R)'
  BY DEF OksHold, Holds
<1>5. QED
  BY <1>3, <1>4

LEMMA AgreedPut ==
  ASSUME Core, Core', Deterministic, NEW n \in Nodes, NEW R, NEW L, NEW index \in 1..Len(log), index = applied[n] + 1,
         applied' = [applied EXCEPT ![n] = applied[n] + 1],
         History(R, L, log), Follows(R, L), OksHold(R), UNCHANGED <<setup, log, highWater>>,
         ~ (index <= highWater[n]), NEW p \in PartIDs, Touches(log[index], p), log[index].key \in setup.keys,
         Puts(n, p, index, log[index].key)
  PROVE  Follows(R, L)' /\ Matches(R, L, n, p, index, log[index].key) /\ Reach(n) = index - 1
<1>1. TypeOK
  BY DEF Core
<1>2. PICK key : key = log[index].key
  OBVIOUS
<1>3. Reach(n) = applied[n] /\ Reach(n)' = index /\ applied[n] \in Nat /\ \A m \in Nodes : m # n => Reach(m)' = Reach(m)
  BY <1>1, ReachApply, NodeFacts
<1> USE <1>3
<1>4. Reach(n) = index - 1
  BY SMT
<1> USE <1>2, <1>4
<1>5. Matches(R, L, n, p, index, key)
  BY PutMatches
<1>6. Room' <=> Room
  BY DEF Room
<1>7. ASSUME NEW m \in Nodes, NEW q \in PartIDs
      PROVE  /\ wal'[m][q] = R[Reach(m)'][q]
             /\ setup'.restarts = 0 => dedupe'[m][q] = L[Reach(m)'][q]
             /\ Room' => Covers(dedupe'[m][q], wal'[m][q], Len(wal'[m][q]))
  <2>1. CASE m = n /\ q = p
    <3>1. wal'[n][p] = R[index][p] /\ (setup.restarts = 0 => dedupe'[n][p] = L[index][p]) /\ Sane(wal'[n][p], dedupe'[n][p], index)
      BY <1>5 DEF Matches, Puts
    <3>2. QED
      BY <1>6, <2>1, <3>1 DEF Sane
  <2>2. CASE ~ (m = n /\ q = p)
    <3>1. wal'[m][q] = wal[m][q] /\ dedupe'[m][q] = dedupe[m][q]
      BY <2>2 DEF Puts
    <3>2. /\ wal[m][q] = R[Reach(m)][q] /\ (setup.restarts = 0 => dedupe[m][q] = L[Reach(m)][q])
          /\ Room => Covers(dedupe[m][q], wal[m][q], Len(wal[m][q]))
      BY DEF Follows
    <3>3. R[Reach(m)'][q] = R[Reach(m)][q] /\ L[Reach(m)'][q] = L[Reach(m)][q]
      <4>1. CASE m # n
        BY <4>1
      <4>2. CASE m = n
        <5>1. ~ Touches(log[index], q)
          BY <2>2, <4>2 DEF Touches
        <5>2. Still(R, L, index, q)
          BY <5>1, HistorySame
        <5>3. QED
          BY <4>2, <5>2 DEF Still
      <4>3. QED
        BY <4>1, <4>2
    <3>4. QED
      BY <1>6, <3>1, <3>2, <3>3
  <2>3. QED
    BY <2>1, <2>2
<1>8. Follows(R, L)'
  BY <1>7 DEF Follows, Covers
<1>9. QED
  BY <1>5, <1>8

\* The MsgID that the publish returns.
Replies(n, p, key, id) ==
    \/ IsHit(dedupe[n][p], key) /\ Answers(n, p, key, id)
    \/ ~ IsHit(dedupe[n][p], key) /\ id = Len(wal[n][p])

\* What the new publish returned is in the history.
LEMMA AgreedAnswer ==
  ASSUME TypeOK, NEW R, NEW L, NEW n \in Nodes, NEW p \in PartIDs, NEW index \in 1..Len(log), Reach(n) = index - 1,
         OksHold(R), Matches(R, L, n, p, index, log[index].key), NEW id, UNCHANGED log,
         oks' \subseteq oks \cup {[index |-> index, part |-> p, id |-> id]}, Replies(n, p, log[index].key, id)
  PROVE  OksHold(R)'
<1>1. PICK key : key = log[index].key
  OBVIOUS
<1>2. wal[n][p] \in Seq(Record) /\ Len(wal[n][p]) \in Nat
  BY PartFacts
<1>3. PICK ok : ok = [index |-> index, part |-> p, id |-> id]
  OBVIOUS
<1>4. ok.index = index /\ ok.part = p /\ ok.id = id
  BY <1>3
<1>5. Holds(R[index][p], ok, key)
  <2>1. CASE IsHit(dedupe[n][p], key) /\ Answers(n, p, key, id)
    <3>1. R[index][p] = wal[n][p]
      BY <1>1, <2>1 DEF Matches, NextRecords
    <3>2. id + 1 \in 1..Len(wal[n][p]) /\ wal[n][p][id + 1].key = key /\ wal[n][p][id + 1].index <= Reach(n)
      BY <2>1 DEF Answers
    <3>3. PICK x : x = wal[n][p][id + 1].index
      OBVIOUS
    <3>4. x \in Nat /\ x <= index - 1
      BY <3>2, <3>3, PartFacts
    <3>5. x < index
      BY SMT, <3>4, SetupFacts
    <3>6. QED
      BY <1>4, <3>1, <3>2, <3>3, <3>5 DEF Holds
  <2>2. CASE ~ IsHit(dedupe[n][p], key) /\ id = Len(wal[n][p])
    <3>1. PICK rec : rec = [index |-> index, key |-> key]
      OBVIOUS
    <3> USE <2>2
    <3>2. R[index][p] = Append(wal[n][p], rec) /\ rec.index = index
      BY <1>1, <3>1 DEF Matches, NextRecords
    <3>3. R[index][p] \in Seq(Record)
      BY <1>1 DEF Matches, Sane
    <3>4. Len(R[index][p]) = id + 1 /\ R[index][p][id + 1] = rec
      BY SMT, <1>2, <3>2
    <3>5. id + 1 \in 1..Len(R[index][p])
      BY SMT, <1>2, <3>4
    <3>6. QED
      BY <1>4, <3>2, <3>4, <3>5 DEF Holds
  <2>3. QED
    BY <1>1, <2>1, <2>2 DEF Replies
<1>6. ASSUME NEW o \in oks' PROVE o.index \in 1..Len(log) /\ Holds(R[o.index][o.part], o, log[o.index].key)
  <2>1. CASE o \in oks
    BY <2>1 DEF OksHold
  <2>2. CASE o = ok
    BY <1>1, <1>4, <1>5, <2>2
  <2>3. QED
    BY <1>3, <2>1, <2>2
<1>7. QED
  BY <1>6 DEF OksHold, Holds

LEMMA AgreedApply ==
  ASSUME Core, Core', Commands, Deterministic, OneCount', NEW n \in Nodes, Apply(n), UNCHANGED setup,
         NEW R, NEW L, History(R, L, log), Follows(R, L), OksHold(R)
  PROVE  History(R, L, log)' /\ Follows(R, L)' /\ OksHold(R)'
<1>1. TypeOK
  BY DEF Core
<1>2. PICK index : index = applied[n] + 1
  OBVIOUS
<1>3. PICK cmd : cmd = log[index]
  OBVIOUS
<1>4. /\ ApplyEffect(n, index, cmd) /\ cmd \in Command /\ index \in 1..MaxLog /\ index \in 1..Len(log)
      /\ applied' = [applied EXCEPT ![n] = applied[n] + 1] /\ applied'[n] = index
  BY <1>1, <1>2, <1>3, ApplyEffects, ApplyFacts
<1>5. UNCHANGED <<log, highWater>>
  BY <1>4 DEF ApplyEffect
<1>6. History(R, L, log)'
  <2>1. History(R, L, log')
    BY <1>5
  <2>2. QED
    BY <2>1, HistoryPrime
<1>7. cmd.kind = "pub" => cmd.key \in setup.keys
  BY <1>3, <1>4 DEF Commands, Proposed
<1>8. cmd.key \in Keys \cup {NoKey} /\ cmd.part \in 0..Parts
  BY <1>4 DEF Command
<1>9. (cmd.kind = "pub" /\ ~ (index <= highWater[n])) => count'[n] = setup.default
  <2> SUFFICES ASSUME cmd.kind = "pub", ~ (index <= highWater[n]) PROVE count'[n] = setup.default
    OBVIOUS
  <2>1. Reach(n)' = index
    BY <1>1, <1>2, <1>4, <1>5, ReachApply
  <2>2. index \in 1..index
    BY SMT, <1>4, SetupFacts
  <2>3. count'[n] # 0
    <3>1. Opens'
      BY DEF Core
    <3>2. \A i \in 1..Reach(n)' : log'[i].kind = "pub" => count'[n] # 0
      BY <3>1 DEF Opens
    <3>3. QED
      BY <1>3, <1>5, <2>1, <2>2, <3>2
  <2>4. QED
    BY <2>3 DEF OneCount
<1>10. CASE UNCHANGED <<wal, dedupe, oks>> /\ ((index <= highWater[n]) \/ cmd.kind # "pub" \/ ~ (cmd.part < count'[n]))
  <2>1. (index <= highWater[n]) \/ \A p \in PartIDs : ~ Touches(log[index], p)
    BY <1>3, <1>9, <1>10 DEF Touches
  <2>2. Follows(R, L)' /\ OksHold(R)'
    BY <1>2, <1>4, <1>5, <1>10, <2>1, AgreedIdle
  <2>3. QED
    BY <1>6, <2>2
<1>11. ASSUME cmd.kind = "pub", ~ (index <= highWater[n]), cmd.part < count'[n], NEW p \in PartIDs, p = cmd.part,
              Puts(n, p, index, cmd.key), NEW id, oks' \subseteq oks \cup {[index |-> index, part |-> p, id |-> id]},
              Replies(n, p, cmd.key, id)
       PROVE  Follows(R, L)' /\ OksHold(R)'
  <2> USE <1>11
  <2>1. Touches(log[index], p) /\ log[index].key \in setup.keys /\ Puts(n, p, index, log[index].key)
    BY <1>3, <1>7, <1>9 DEF Touches
  <2>2. Follows(R, L)' /\ Matches(R, L, n, p, index, log[index].key) /\ Reach(n) = index - 1
    BY <1>2, <1>4, <1>5, <2>1, AgreedPut
  <2>3. OksHold(R)'
    <3>1. Replies(n, p, log[index].key, id) /\ oks' \subseteq oks \cup {[index |-> index, part |-> p, id |-> id]} /\ UNCHANGED log
      BY <1>3, <1>5
    <3>2. QED
      BY <1>1, <1>4, <2>2, <3>1, AgreedAnswer
  <2>4. QED
    BY <2>2, <2>3
<1>12. CASE /\ cmd.kind = "pub" /\ ~ (index <= highWater[n]) /\ cmd.part < count'[n] /\ cmd.part \in PartIDs
            /\ cmd.key # NoKey /\ Hits(n, cmd.part, cmd.key)
            /\ oks' \subseteq oks \cup {[index |-> index, part |-> cmd.part,
                                         id |-> dedupe[n][cmd.part][Find(dedupe[n][cmd.part], cmd.key)].id]}
  <2> USE <1>12
  <2>1. PICK p \in PartIDs : p = cmd.part
    OBVIOUS
  <2>2. PICK id : id = dedupe[n][p][Find(dedupe[n][p], cmd.key)].id
    OBVIOUS
  <2> USE <2>1
  <2>3. IsHit(dedupe[n][p], cmd.key)
    BY DEF Hits, IsHit
  <2>4. Answers(n, p, cmd.key, id)
    BY <1>8, <2>2, <2>3, HitRecord DEF IsHit
  <2>5. Puts(n, p, index, cmd.key)
    BY <1>4, <1>8, PutStep
  <2>6. oks' \subseteq oks \cup {[index |-> index, part |-> p, id |-> id]}
    BY <2>2
  <2>7. QED
    BY <1>6, <1>11, <2>3, <2>4, <2>5, <2>6 DEF Replies
<1>13. CASE /\ cmd.kind = "pub" /\ ~ (index <= highWater[n]) /\ cmd.part < count'[n] /\ cmd.part \in PartIDs
            /\ cmd.key = NoKey \/ Find(dedupe[n][cmd.part], cmd.key) = 0
            /\ Adds(n, cmd.part, index, cmd.key)
            /\ oks' \subseteq oks \cup {[index |-> index, part |-> cmd.part, id |-> Len(wal[n][cmd.part])]}
  <2>1. PICK p \in PartIDs : p = cmd.part
    BY <1>13
  <2>2. PICK id : id = Len(wal[n][p])
    OBVIOUS
  <2>3. ~ IsHit(dedupe[n][p], cmd.key)
    <3>1. ~ (0 > 0)
      BY SMT
    <3>2. QED
      BY <1>13, <2>1, <3>1 DEF IsHit
  <2>4. Puts(n, p, index, cmd.key)
    BY <1>4, <1>8, <1>13, <2>1, PutStep
  <2>5. oks' \subseteq oks \cup {[index |-> index, part |-> p, id |-> id]}
    BY <1>13, <2>1, <2>2
  <2>6. QED
    BY <1>6, <1>11, <1>13, <2>1, <2>2, <2>3, <2>4, <2>5 DEF Replies
<1>14. QED
  BY <1>4, <1>10, <1>12, <1>13 DEF ApplyEffect

\* Recovery finds the records of the log up to its high-water.
LEMMA AgreedRestart ==
  ASSUME Core, Core', Deterministic, NEW n \in Nodes, Restart(n), UNCHANGED setup,
         NEW R, NEW L, History(R, L, log), Follows(R, L), OksHold(R)
  PROVE  History(R, L, log)' /\ Follows(R, L)' /\ OksHold(R)'
<1>1. TypeOK /\ Order
  BY DEF Core
<1>2. PICK records : Recovers(n, records)
  BY RestartFacts
<1>3. UNCHANGED <<log, oks>> /\ setup.sync = "fsync"
  BY <1>2 DEF Recovers, Deterministic
<1>4. History(R, L, log)'
  <2>1. History(R, L, log')
    BY <1>3
  <2>2. QED
    BY <2>1, HistoryPrime
<1>5. OksHold(R)'
  BY <1>3 DEF OksHold, Holds
<1>6. setup.restarts # 0
  <2>1. restarts < setup.restarts /\ restarts \in 0..MaxRestarts /\ MaxRestarts \in Nat
    BY <1>1, SetupFacts DEF Restart, TypeOK
  <2>2. QED
    BY SMT, <2>1
<1>7. Room /\ (Room' <=> Room)
  BY <1>6 DEF Deterministic, Room
<1>8. PICK h : h = highWater'[n]
  OBVIOUS
<1>9. h \in Nat /\ h <= Reach(n) /\ Reach(n)' = h /\ h = RecoveredHighWater(n, records)
  BY <1>2, <1>8 DEF Recovers
<1>10. ASSUME NEW p \in PartIDs
       PROVE  /\ wal'[n][p] = wal[n][p] /\ wal[n][p] = R[h][p] /\ dedupe'[n][p] = Rebuild(wal[n][p])
              /\ Covers(dedupe'[n][p], wal'[n][p], Len(wal'[n][p]))
  <2>1. wal'[n][p] = wal[n][p] /\ records[p] = wal[n][p] /\ dedupe'[n][p] = Rebuild(wal[n][p])
    BY <1>2, <1>3 DEF Recovers
  <2>2. Sane(wal[n][p], dedupe[n][p], Reach(n)) /\ wal[n][p] = R[Reach(n)][p]
    BY NodeSane
  <2>3. h \in 0..Len(log) /\ Reach(n) \in 0..Len(log)
    <3>1. Reach(n) \in 0..Len(log) /\ Len(log) \in Nat
      BY <1>1, ReachLog, SetupFacts
    <3>2. QED
      BY SMT, <1>9, <3>1
  <2>4. PrefixAt(R[h][p], wal[n][p], h) /\ R[h][p] \in Seq(Record)
    BY <1>9, <2>2, <2>3 DEF History, Sane
  <2>5. \A k \in 1..Len(wal[n][p]) : wal[n][p][k].index <= h
    <3>1. \A q \in PartIDs : records[q] \in Seq(Record)
      BY <1>2 DEF Recovers
    <3>2. \A k \in 1..Len(records[p]) : records[p][k].index <= RecoveredHighWater(n, records)
      BY <3>1, HighWaterFacts
    <3>3. QED
      BY <1>9, <2>1, <3>2
  <2>6. \A k \in 1..Len(wal[n][p]) : k \in 1..Len(R[h][p])
    BY <2>4, <2>5 DEF PrefixAt
  <2>7. /\ Len(R[h][p]) \in Nat /\ Len(wal[n][p]) \in Nat /\ wal[n][p] \in Seq(Record) /\ Len(R[h][p]) <= Len(wal[n][p])
        /\ \A k \in 1..Len(R[h][p]) : wal[n][p][k] = R[h][p][k]
    <3>1. wal[n][p] \in Seq(Record) /\ Len(R[h][p]) <= Len(wal[n][p]) /\ \A k \in 1..Len(R[h][p]) : wal[n][p][k] = R[h][p][k]
      BY <1>1, <2>4, PartFacts DEF PrefixAt
    <3>2. QED
      BY SMT, <2>4, <3>1, SeqLen
  <2>8. Len(R[h][p]) = Len(wal[n][p])
    BY SMT, <2>6, <2>7
  <2>9. wal[n][p] = R[h][p]
    BY SMTT(30), <2>4, <2>7, <2>8
  <2>10. Covers(Rebuild(wal[n][p]), wal[n][p], Len(wal[n][p]))
    <3>1. Unique(wal[n][p]) /\ \A k \in 1..Len(wal[n][p]) : wal[n][p][k].key \in setup.keys
      BY <1>7, <2>2 DEF Sane
    <3>2. Len(wal[n][p]) <= MaxLog /\ setup.cap \in Nat \ {0} /\ IsFiniteSet(setup.keys) /\ Cardinality(setup.keys) <= setup.cap
      BY <1>1, <1>7, WalBound, SetupFacts, KeysFinite DEF Room
    <3>3. QED
      BY <2>7, <3>1, <3>2, RebuildCovers
  <2>11. QED
    BY <2>1, <2>9, <2>10
<1>11. ASSUME NEW m \in Nodes, NEW q \in PartIDs
       PROVE  /\ wal'[m][q] = R[Reach(m)'][q]
              /\ setup'.restarts = 0 => dedupe'[m][q] = L[Reach(m)'][q]
              /\ Room' => Covers(dedupe'[m][q], wal'[m][q], Len(wal'[m][q]))
  <2>1. setup'.restarts # 0
    BY <1>6
  <2>2. CASE m = n
    BY <1>9, <1>10, <2>1, <2>2
  <2>3. CASE m # n
    <3>1. wal'[m][q] = wal[m][q] /\ dedupe'[m][q] = dedupe[m][q] /\ Reach(m)' = Reach(m)
      BY <1>2, <2>3 DEF Recovers
    <3>2. wal[m][q] = R[Reach(m)][q] /\ Covers(dedupe[m][q], wal[m][q], Len(wal[m][q]))
      BY <1>7 DEF Follows
    <3>3. QED
      BY <2>1, <3>1, <3>2
  <2>4. QED
    BY <2>2, <2>3
<1>12. Follows(R, L)'
  BY <1>11 DEF Follows, Covers
<1>13. QED
  BY <1>4, <1>5, <1>12

LEMMA AgreedInit == Init => Core /\ Commands /\ Agreed
<1> SUFFICES ASSUME Init PROVE Core /\ Commands /\ Agreed
  OBVIOUS
<1>1. Core
  BY CoreInit
<1>2. Len(log) = 0 /\ log = << >> /\ oks = {} /\ \A n \in Nodes : applied[n] = 0 /\ highWater[n] = 0 /\ count[n] = 0
  <2>1. log = << >> /\ oks = {} /\ \A n \in Nodes : applied[n] = 0 /\ highWater[n] = 0 /\ count[n] = 0
    BY DEF Init
  <2>2. QED
    BY SMT, <2>1
<1>3. (\A i \in 1..0 : FALSE) /\ (\A i \in 0..0 : i = 0) /\ 0 \in 0..0 /\ Len(<< >>) = 0 /\ << >> \in Seq(Record) /\ << >> \in Seq(Entry) /\ 0 <= 0
  BY SMT
<1> USE <1>2, <1>3
<1>4. Commands /\ OneCount
  BY DEF Commands, OneCount
<1>5. PICK R : R = [i \in 0..0 |-> [p \in PartIDs |-> << >>]]
  OBVIOUS
<1>6. \A p \in PartIDs : R[0][p] = << >>
  BY <1>5
<1>7. Sane(<< >>, << >>, 0)
  <2>1. setup.cap \in Nat \ {0} /\ 0 <= setup.cap
    <3>1. setup.cap \in Nat \ {0}
      BY <1>1, SetupFacts DEF Core
    <3>2. QED
      BY SMT, <3>1
  <2>2. QED
    BY <2>1 DEF Sane, GoodAt, Distinct, Covers, Unique
<1>8. PrefixAt(<< >>, << >>, 0)
  BY DEF PrefixAt
<1>9. History(R, R, log)
  BY <1>6, <1>7, <1>8 DEF History
<1>10. Follows(R, R)
  <2>1. \A n \in Nodes : Reach(n) = 0
    BY DEF Reach
  <2>2. \A n \in Nodes, p \in PartIDs : wal[n][p] = << >> /\ dedupe[n][p] = << >>
    BY DEF Init
  <2>3. QED
    BY <1>6, <2>1, <2>2 DEF Follows, Covers
<1>11. OksHold(R)
  BY DEF OksHold
<1>12. QED
  BY <1>1, <1>4, <1>9, <1>10, <1>11 DEF Agreed

LEMMA AgreedStep == Core /\ Commands /\ Agreed /\ [Next]_vars => (Core /\ Commands /\ Agreed)'
<1> SUFFICES ASSUME Core, Commands, Agreed, [Next]_vars PROVE Core' /\ Commands' /\ Agreed'
  OBVIOUS
<1>1. Core' /\ Commands' /\ UNCHANGED setup
  BY CoreStep, CommandsStep, ThreeKinds
<1> USE <1>1
<1>2. ASSUME Deterministic PROVE OneCount' /\ \E R, L : History(R, L, log)' /\ Follows(R, L)' /\ OksHold(R)'
  <2> USE <1>2
  <2>1. OneCount'
    BY CountStep DEF Agreed
  <2>2. PICK R, L : History(R, L, log) /\ Follows(R, L) /\ OksHold(R)
    BY DEF Agreed
  <2> USE <2>1, <2>2
  <2>3. CASE Quiet
    <3>1. \E S, M : History(S, M, log)' /\ Follows(S, M)' /\ OksHold(S)'
      BY <2>3, AgreedQuiet
    <3>2. QED
      BY <3>1
  <2>4. ASSUME NEW n \in Nodes, Apply(n) PROVE History(R, L, log)' /\ Follows(R, L)' /\ OksHold(R)'
    BY <2>4, AgreedApply
  <2>5. ASSUME NEW n \in Nodes, Restart(n) PROVE History(R, L, log)' /\ Follows(R, L)' /\ OksHold(R)'
    BY <2>5, AgreedRestart
  <2>6. QED
    BY <2>3, <2>4, <2>5, ThreeKinds
<1>3. Deterministic' <=> Deterministic
  BY DEF Deterministic
<1>4. Agreed'
  BY <1>2, <1>3 DEF Agreed
<1>5. QED
  BY <1>4

LEMMA AgreedOks ==
  ASSUME Core, Deterministic, NEW R, NEW L, History(R, L, log), Follows(R, L), OksHold(R),
         NEW ok \in oks, NEW n \in Nodes, ok.index <= applied[n]
  PROVE  /\ ok.id < Len(wal[n][ok.part])
         /\ LET record == wal[n][ok.part][ok.id + 1]
            IN  record.index = ok.index \/ (record.index < ok.index /\ record.key = log[ok.index].key)
<1>1. TypeOK /\ Order
  BY DEF Core
<1>2. ok.index \in 1..MaxLog /\ ok.part \in PartIDs /\ ok.id \in IDs
  BY <1>1 DEF TypeOK
<1>3. PICK p \in PartIDs : p = ok.part
  BY <1>2
<1>4. Holds(R[ok.index][p], ok, log[ok.index].key) /\ ok.index \in 1..Len(log)
  BY <1>3 DEF OksHold
<1>5. ok.index <= Reach(n) /\ ok.index \in 0..Len(log) /\ Reach(n) \in 0..Len(log)
  <2>1. applied[n] \in Nat /\ applied[n] <= Reach(n) /\ Reach(n) \in Nat /\ Reach(n) \in 0..Len(log) /\ Len(log) \in Nat
    BY <1>1, NodeFacts, ReachLog, SetupFacts
  <2>2. QED
    BY SMT, <1>4, <2>1
<1>6. PrefixAt(R[ok.index][p], R[Reach(n)][p], ok.index) /\ wal[n][p] = R[Reach(n)][p]
  BY <1>5 DEF History, Follows
<1>7. PICK k : k = ok.id + 1
  OBVIOUS
<1>8. k \in 1..Len(R[ok.index][p]) /\ Len(R[ok.index][p]) <= Len(wal[n][p]) /\ wal[n][p][k] = R[ok.index][p][k]
  BY <1>4, <1>6, <1>7 DEF Holds, PrefixAt
<1>9. ok.id < Len(wal[n][p])
  <2>1. R[ok.index][p] \in Seq(Record)
    BY <1>5 DEF History, Sane
  <2>2. Len(R[ok.index][p]) \in Nat /\ Len(wal[n][p]) \in Nat /\ ok.id \in Nat
    <3>1. Len(wal[n][p]) \in Nat
      BY <1>1, PartFacts
    <3>2. QED
      BY SMT, <1>2, <2>1, <3>1, SeqLen, ReplicationAssumption DEF IDs
  <2>3. QED
    BY SMT, <1>7, <1>8, <2>2
<1>10. QED
  BY <1>3, <1>4, <1>7, <1>8, <1>9 DEF Holds

\* The MsgID a PUB returned names the same message on every node that applied it,
\* through changes of leader and restarts, whatever the number of nodes,
\* partitions, keys and commands.
THEOREM ReplicasAgreeOnIDs == Spec => []MsgIDsAgree
<1>1. Init => Core /\ Commands /\ Agreed
  BY SMT, AgreedInit
<1>2. Core /\ Commands /\ Agreed /\ [Next]_vars => (Core /\ Commands /\ Agreed)'
  BY SMT, AgreedStep
<1>3. Core /\ Commands /\ Agreed => MsgIDsAgree
  BY AgreedOks DEF Agreed, MsgIDsAgree
<1>4. QED
  BY <1>1, <1>2, <1>3, PTL DEF Spec

====
