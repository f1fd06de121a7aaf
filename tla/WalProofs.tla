----------------------------- MODULE WalProofs -----------------------------
(***************************************************************************)
(* Proofs about module Wal, for every number of writers, segment size,     *)
(* and bound.                                                              *)
(*                                                                         *)
(* Types; the book-keeping, which holds in every configuration (who holds  *)
(* l.mu, and how written, committed and the segments' baseByteOffset       *)
(* follow from the lengths of the files); that nothing is readable that is *)
(* not fsynced where only machine failures end the process; and that where *)
(* no write stops half way every segment is whole and its MsgIDs are dense.*)
(***************************************************************************)
EXTENDS Wal, FiniteSetTheorems, WellFoundedInduction, TLAPS


----------------------------------------------------------------------------
(* What the operators on sequences return. *)

LEMMA SeqLen ==
  ASSUME NEW S, NEW seq \in Seq(S)
  PROVE  Len(seq) \in Nat /\ seq \in [1..Len(seq) -> S] /\ DOMAIN seq = 1..Len(seq)
BY SMTT(30)

LEMMA SeqElement ==
  ASSUME NEW S, NEW seq \in Seq(S), NEW n \in 1..Len(seq)
  PROVE  seq[n] \in S
BY SMTT(30)

LEMMA SeqEmpty == \A S : << >> \in Seq(S) /\ Len(<< >>) = 0
BY SMTT(30)

LEMMA SeqAppend ==
  ASSUME NEW S, NEW seq \in Seq(S), NEW elt \in S
  PROVE  /\ Append(seq, elt) \in Seq(S)
         /\ Append(seq, elt) # << >>
         /\ Len(Append(seq, elt)) = Len(seq) + 1
         /\ \A i \in 1..Len(seq) : Append(seq, elt)[i] = seq[i]
         /\ Append(seq, elt)[Len(seq) + 1] = elt
BY SMTT(30)

LEMMA SeqTake ==
  ASSUME NEW S, NEW s \in Seq(S), NEW n \in 0..Len(s)
   PROVE /\ SubSeq(s, 1, n) \in Seq(S)
         /\ Len(SubSeq(s, 1, n)) = n
         /\ \A i \in 1..n : SubSeq(s, 1, n)[i] = s[i]
BY SMTT(30)

----------------------------------------------------------------------------
(* The smallest element of a set of naturals, and the largest of an interval's subset. *)

LEMMA MinExists ==
  ASSUME NEW S \in SUBSET Nat, S # {}
  PROVE  \E m \in S : \A n \in S : m <= n
<1> DEFINE R == StrictSubsetOrdering(Nat)
           T == {1..n : n \in S}
<1>1. T \subseteq FiniteSubsetsOf(Nat) /\ T # {}
  <2>1. \A n \in S : IsFiniteSet(1..n) /\ 1..n \subseteq Nat
    BY FS_Interval
  <2>2. QED
    BY ZenonT(30), <2>1 DEF FiniteSubsetsOf
<1>2. PICK x \in T : \A y \in T : ~ (<<y, x>> \in R)
  <2> HIDE DEF T
  <2> QED
    BY ZenonT(30), <1>1, FS_StrictSubsetOrderingWellFounded, WFMin
<1>3. PICK m \in S : x = 1..m
  BY ZenonT(30), <1>2
<1>4. ASSUME NEW n \in S, ~ (m <= n) PROVE FALSE
  <2>1. 1..n \subseteq 1..m /\ 1..n # 1..m
    <3>1. m \in 1..m /\ m \notin 1..n
      BY <1>4
    <3>2. QED
      BY <1>4, <3>1
  <2>2. <<1..n, 1..m>> \in R
    BY <2>1 DEF StrictSubsetOrdering
  <2>3. QED
    BY ZenonT(30), <2>2, <1>2, <1>3
<1>5. QED
  BY ZenonT(30), <1>4

LEMMA MinOfProperties ==
  ASSUME NEW S \in SUBSET Nat, S # {}
  PROVE  MinOf(S) \in S /\ \A n \in S : MinOf(S) <= n
BY ZenonT(30), MinExists DEF MinOf

LEMMA MaxExists ==
  ASSUME NEW a \in Nat, NEW S \in SUBSET (0..a), S # {}
  PROVE  \E m \in S : \A n \in S : n <= m
<1> DEFINE T == {n \in 0..a : a - n \in S}
<1>1. T \in SUBSET Nat /\ T # {}
  <2>1. PICK s \in S : TRUE
    BY ZenonT(30)
  <2>2. a - s \in 0..a /\ a - (a - s) = s
    BY <2>1
  <2>3. a - s \in T
    BY ZenonT(30), <2>2
  <2>4. T \subseteq Nat
    OBVIOUS
  <2>5. QED
    BY ZenonT(30), <2>3, <2>4
<1>2. PICK m \in T : \A n \in T : m <= n
  BY ZenonT(30), <1>1, MinExists
<1>3. a - m \in S
  BY ZenonT(30), <1>2
<1>4. ASSUME NEW n \in S PROVE n <= a - m
  <2>1. a - n \in T
    OBVIOUS
  <2>2. QED
    BY <2>1, <1>2
<1>5. QED
  BY ZenonT(30), <1>3, <1>4

----------------------------------------------------------------------------
(* What a recovery scan computes. *)

LEMMA IndexFacts ==
  ASSUME TypeOK
  PROVE  /\ first \in Nat /\ active \in Nat /\ MaxAppends \in Nat /\ MaxSegments \in Nat
         /\ Index \subseteq Nat
         /\ \A i \in first..active : i \in Index
         /\ \A i \in first..(active - 1) : i \in Index /\ i + 1 \in Index /\ i \in first..active
BY SMTT(30), WalAssumption DEF TypeOK, Index

LEMMA FileFacts ==
  ASSUME TypeOK
  PROVE  \A i \in Index : file[i] \in Seq(Record) /\ Len(file[i]) \in Nat
BY ZenonT(30), SeqLen DEF TypeOK

\* The decodable prefix of a segment ends at its end or at its first garbage.
LEMMA GoodLenProperties ==
  ASSUME TypeOK, NEW i \in Index
  PROVE  /\ GoodLen(i) \in Nat
         /\ GoodLen(i) <= Len(file[i])
         /\ \A t \in torn[i] : GoodLen(i) <= t
         /\ GoodLen(i) \in torn[i] \cup {Len(file[i])}
<1>1. Len(file[i]) \in Nat /\ torn[i] \in SUBSET Nat
  <2>1. Len(file[i]) \in Nat
    BY ZenonT(30), FileFacts
  <2>2. torn[i] \in SUBSET Nat
    BY ZenonT(30) DEF TypeOK
  <2>3. QED
    BY ZenonT(30), <2>1, <2>2
<1>2. torn[i] \cup {Len(file[i])} \in SUBSET Nat
  BY ZenonT(30), <1>1
<1>3. QED
  BY ZenonT(30), <1>1, <1>2, MinOfProperties DEF GoodLen

Scanned(i) == {p \in (first..active) \X (1..MaxAppends) : p[1] < i /\ p[2] <= GoodLen(p[1])}

LEMMA ScannedFinite ==
  ASSUME TypeOK, NEW i
  PROVE  IsFiniteSet(Scanned(i)) /\ ScannedBefore(i) = Cardinality(Scanned(i))
           /\ ScannedBefore(i) \in Nat
<1>1. IsFiniteSet(first..active) /\ IsFiniteSet(1..MaxAppends)
  BY IndexFacts, FS_Interval
<1>2. IsFiniteSet((first..active) \X (1..MaxAppends))
  BY ZenonT(30), <1>1, FS_Product
<1>3. IsFiniteSet(Scanned(i))
  BY ZenonT(30), <1>2, FS_Subset DEF Scanned
<1>4. ScannedBefore(i) = Cardinality(Scanned(i))
  BY ZenonT(30) DEF ScannedBefore, Scanned
<1>5. QED
  BY ZenonT(30), <1>3, <1>4, FS_CardinalityType

\* The scan's position grows by the decodable length of each segment.
LEMMA ScannedNext ==
  ASSUME TypeOK, \A j \in Index : Len(file[j]) <= MaxAppends,
         NEW i \in first..(active - 1)
  PROVE  ScannedBefore(i + 1) = ScannedBefore(i) + GoodLen(i)
<1> DEFINE D == {i} \X (1..GoodLen(i))
<1>1. i \in Index /\ i \in first..active /\ i \in Int
  BY IndexFacts
<1>2. GoodLen(i) \in Nat /\ GoodLen(i) <= MaxAppends
  <2>1. Len(file[i]) \in Nat /\ Len(file[i]) <= MaxAppends
    BY <1>1 DEF TypeOK
  <2>2. GoodLen(i) \in Nat /\ GoodLen(i) <= Len(file[i])
    BY ZenonT(30), <1>1, GoodLenProperties
  <2>3. QED
    BY SMTT(30), <2>1, <2>2, IndexFacts
<1>3. IsFiniteSet(D) /\ Cardinality(D) = GoodLen(i)
  <2>1. IsFiniteSet({i}) /\ Cardinality({i}) = 1
    BY ZenonT(30), FS_Singleton
  <2>2. IsFiniteSet(1..GoodLen(i)) /\ Cardinality(1..GoodLen(i)) = GoodLen(i)
    BY <1>2, FS_Interval
  <2>3. QED
    BY <2>1, <2>2, <1>2, FS_Product
<1>4. Scanned(i + 1) = Scanned(i) \cup D
  <2>1. \A p \in (first..active) \X (1..MaxAppends) : p[1] \in Int /\ p[2] \in Int
    BY WalAssumption DEF TypeOK, Index
  <2>2. ASSUME NEW p \in Scanned(i + 1) PROVE p \in Scanned(i) \cup D
    <3>1. p \in (first..active) \X (1..MaxAppends) /\ p[1] < i + 1 /\ p[2] <= GoodLen(p[1])
      BY ZenonT(30) DEF Scanned
    <3>2. CASE p[1] < i
      BY ZenonT(30), <3>1, <3>2 DEF Scanned
    <3>3. CASE p[1] = i
      BY <3>1, <3>3, <1>2
    <3>4. QED
      BY <3>1, <3>2, <3>3, <2>1, <1>1
  <2>3. ASSUME NEW p \in Scanned(i) PROVE p \in Scanned(i + 1)
    BY <2>1, <1>1 DEF Scanned
  <2>4. ASSUME NEW p \in D PROVE p \in Scanned(i + 1)
    <3>1. p = <<i, p[2]>> /\ p[1] = i /\ p[2] \in 1..GoodLen(i)
      OBVIOUS
    <3>2. p[2] \in 1..MaxAppends /\ p[2] <= GoodLen(i)
      BY <3>1, <1>2, WalAssumption
    <3>3. QED
      BY <3>1, <3>2, <1>1 DEF Scanned
  <2>5. QED
    BY ZenonT(30), <2>2, <2>3, <2>4
<1>5. Scanned(i) \cap D = {}
  BY <1>1 DEF Scanned
<1>6. IsFiniteSet(Scanned(i)) /\ ScannedBefore(i) = Cardinality(Scanned(i))
        /\ ScannedBefore(i + 1) = Cardinality(Scanned(i + 1)) /\ ScannedBefore(i) \in Nat
  BY ZenonT(30), ScannedFinite
<1>7. Cardinality(Scanned(i) \cup D) = Cardinality(Scanned(i)) + Cardinality(D) - 0
  BY <1>3, <1>5, <1>6, FS_Union, FS_EmptySet
<1> HIDE DEF D
<1>8. ScannedBefore(i + 1) = ScannedBefore(i) + GoodLen(i) - 0
  BY ZenonT(30), <1>3, <1>4, <1>6, <1>7
<1>9. QED
  BY <1>2, <1>6, <1>8

LEMMA ScannedMonotonic ==
  ASSUME TypeOK, NEW i \in Int, NEW j \in Int, i <= j
  PROVE  ScannedBefore(i) <= ScannedBefore(j)
<1>1. \A p \in (first..active) \X (1..MaxAppends) : p[1] \in Int
  BY DEF TypeOK, Index
<1>2. Scanned(i) \in SUBSET Scanned(j)
  BY <1>1 DEF Scanned
<1>3. QED
  BY <1>2, ScannedFinite, FS_Subset

LEMMA NextIDAfterType ==
  ASSUME TypeOK, NEW i
  PROVE  NextIDAfter(i) \in Nat
<1> DEFINE seen == {j \in NonEmpty : j <= i}
           last == CHOOSE j \in seen : \A k \in seen : k <= j
<1>1. CASE seen = {}
  BY ZenonT(30), <1>1 DEF NextIDAfter
<1>2. CASE seen # {}
  <2>1. seen \in SUBSET (0..active) /\ active \in Nat
    BY IndexFacts DEF NonEmpty
  <2>2. \E j \in seen : \A k \in seen : k <= j
    <3> HIDE DEF seen
    <3> QED
      BY ZenonT(30), <1>2, <2>1, MaxExists
  <2>3. last \in seen
    BY ZenonT(30), <2>2
  <2> HIDE DEF last
  <2>4. last \in Index /\ GoodLen(last) > 0
    BY ZenonT(30), <2>3, IndexFacts DEF NonEmpty
  <2>5. GoodLen(last) \in 1..Len(file[last])
    <3>1. Len(file[last]) \in Nat
      BY <2>4 DEF TypeOK
    <3>2. QED
      BY <2>4, <3>1, GoodLenProperties
  <2>6. file[last][GoodLen(last)] \in Record
    BY ZenonT(30), <2>4, <2>5, SeqElement DEF TypeOK
  <2>7. NextIDAfter(i) = file[last][GoodLen(last)].id + 1
    BY ZenonT(30), <1>2 DEF NextIDAfter, last
  <2>8. QED
    BY <2>6, <2>7 DEF Record
<1>3. QED
  BY ZenonT(30), <1>1, <1>2

----------------------------------------------------------------------------
(* Type correctness. *)

LEMMA InitType == Init => TypeOK
<1>1. 0 \in Index
  BY WalAssumption DEF Index
<1>2. SUFFICES ASSUME Init PROVE TypeOK
  BY ZenonT(30)
<1>3. NoRecord \in Record
  BY ZenonT(30) DEF NoRecord, Record
<1>4. Idle \in [pc : {"idle", "write", "sync", "wait"}, end : Nat, rec : Record]
  BY ZenonT(30), <1>3 DEF Idle
<1>5. NoFlush \in [pc : {"idle", "sync", "publish"}, snap : Nat, seg : Index, err : BOOLEAN]
  BY ZenonT(30), <1>1 DEF NoFlush
<1>6. file \in [Index -> Seq(Record)]
  <2>1. << >> \in Seq(Record)
    BY ZenonT(30), SeqEmpty
  <2>2. file = [i \in Index |-> << >>]
    BY ZenonT(30), <1>2 DEF Init
  <2>3. QED
    BY ZenonT(30), <2>1, <2>2
<1>7. QED
  BY <1>1, <1>2, <1>4, <1>5, <1>6 DEF Init, TypeOK

\* rotate's fsync writes numbers where numbers are expected.
LEMMA SealSyncType ==
  ASSUME TypeOK, SealSync
  PROVE  synced' \in [Index -> Nat] /\ committed' \in Nat
<1>1. Len(file[active]) \in Nat
  BY ZenonT(30), FileFacts DEF TypeOK
<1>2. CASE written > committed
  BY ZenonT(30), <1>1, <1>2 DEF SealSync, TypeOK
<1>3. CASE ~(written > committed)
  BY ZenonT(30), <1>3 DEF SealSync, TypeOK
<1>4. QED
  BY ZenonT(30), <1>2, <1>3

LEMMA AppendType ==
  ASSUME TypeOK, NEW w \in Writers,
         \/ AppendStart(w) \/ RotateFails(w) \/ AppendWrite(w)
         \/ AppendWriteFails(w) \/ AppendSync(w) \/ AppendReturn(w)
  PROVE  TypeOK'
<1> DEFINE Pc == {"idle", "write", "sync", "wait"}
           App == [pc : Pc, end : Nat, rec : Record]
<1>0. Idle \in App
  BY ZenonT(30) DEF Idle, NoRecord, Record
<1>1. CASE AppendStart(w)
  <2>1. app' \in [Writers -> App]
    BY ZenonT(30), <1>1 DEF AppendStart, TypeOK
  <2>2. CASE NeedsRotation /\ Rotate
    <3>1. active' \in Index /\ first <= active'
      BY <2>2, IndexFacts, WalAssumption DEF Rotate, TypeOK, Index
    <3>2. base' \in [Index -> Nat] /\ baseMsgID' \in [Index -> Nat]
      BY ZenonT(30), <2>2 DEF Rotate, TypeOK
    <3>3. synced' \in [Index -> Nat] /\ committed' \in Nat
      BY ZenonT(30), <2>2, SealSyncType DEF Rotate
    <3>4. stopping' \in {"no", "asked", "final", "done"} \cup Closed
      BY ZenonT(30), <1>1 DEF AppendStart, TypeOK, Closed
    <3>5. QED
      BY ZenonT(30), <1>1, <2>1, <3>1, <3>2, <3>3, <3>4 DEF AppendStart, TypeOK, histVars
  <2>3. CASE ~NeedsRotation /\ UNCHANGED <<synced, committed, active, base, baseMsgID, stopping>>
    BY ZenonT(30), <1>1, <2>1, <2>3 DEF AppendStart, TypeOK, histVars
  <2>4. QED
    BY ZenonT(30), <1>1, <2>2, <2>3 DEF AppendStart
<1>2. CASE RotateFails(w)
  <2>1. synced' \in [Index -> Nat] /\ committed' \in Nat
    BY ZenonT(30), <1>2, SealSyncType DEF RotateFails
  <2>2. QED
    BY ZenonT(30), <1>2, <2>1 DEF RotateFails, TypeOK, procVars, histVars
<1>3. CASE AppendWrite(w)
  <2> DEFINE rec == [id |-> nextMsgID, val |-> appends]
  <2>1. rec \in Record
    BY ZenonT(30) DEF TypeOK, Record
  <2>2. Append(file[active], rec) \in Seq(Record)
    BY ZenonT(30), <2>1, SeqAppend DEF TypeOK
  <2>3. file' \in [Index -> Seq(Record)]
    BY ZenonT(30), <1>3, <2>2 DEF AppendWrite, TypeOK
  <2>4. nextMsgID' \in Nat /\ written' \in Nat /\ appends' \in Nat /\ written + 1 \in Nat
    BY <1>3 DEF AppendWrite, TypeOK
  <2>5. app' \in [Writers -> App]
    <3>1. [pc |-> "wait", end |-> written + 1, rec |-> rec] \in App
      BY ZenonT(30), <2>1, <2>4
    <3>2. [pc |-> "sync", end |-> written + 1, rec |-> rec] \in App
      BY ZenonT(30), <2>1, <2>4
    <3>3. \E x \in App : app' = [app EXCEPT ![w] = x]
      BY ZenonT(30), <1>0, <1>3, <3>1, <3>2 DEF AppendWrite
    <3> HIDE DEF App
    <3>4. app \in [Writers -> App]
      BY ZenonT(30) DEF TypeOK, App
    <3>5. QED
      BY ZenonT(30), <3>3, <3>4
  <2>6. committed' \in Nat /\ acked' \subseteq Record
    BY ZenonT(30), <1>3, <2>1, <2>4 DEF AppendWrite, TypeOK
  <2>7. QED
    BY ZenonT(30), <1>3, <2>3, <2>4, <2>5, <2>6 DEF AppendWrite, TypeOK
<1>4. CASE AppendWriteFails(w)
  <2>1. torn' \in [Index -> SUBSET Nat]
    <3>1. torn[active] \cup {Len(file[active])} \in SUBSET Nat
      BY ZenonT(30), FileFacts DEF TypeOK
    <3>2. QED
      BY ZenonT(30), <1>4, <3>1 DEF AppendWriteFails, TypeOK
  <2>2. app' \in [Writers -> App]
    BY ZenonT(30), <1>0, <1>4 DEF AppendWriteFails, TypeOK
  <2>3. QED
    BY ZenonT(30), <1>4, <2>1, <2>2 DEF AppendWriteFails, TypeOK, memVars, histVars
<1>5. CASE AppendSync(w)
  <2>1. app' \in [Writers -> App]
    BY ZenonT(30), <1>0, <1>5 DEF AppendSync, TypeOK
  <2>2. synced' \in [Index -> Nat] /\ committed' \in Nat /\ acked' \subseteq Record
    <3>1. Len(file[active]) \in Nat
      BY ZenonT(30), FileFacts DEF TypeOK
    <3>2. app[w].end \in Nat /\ app[w].rec \in Record
      BY ZenonT(30) DEF TypeOK
    <3>3. CASE /\ synced' = [synced EXCEPT ![active] = Len(file[active])]
               /\ committed' = app[w].end
               /\ acked' = acked \cup {app[w].rec}
      BY ZenonT(30), <3>1, <3>2, <3>3 DEF TypeOK
    <3>4. CASE UNCHANGED <<synced, committed, acked>>
      BY ZenonT(30), <3>4 DEF TypeOK
    <3>5. QED
      BY ZenonT(30), <1>5, <3>3, <3>4 DEF AppendSync
  <2>3. QED
    BY ZenonT(30), <1>5, <2>1, <2>2 DEF AppendSync, TypeOK
<1>6. CASE AppendReturn(w)
  <2>1. app' \in [Writers -> App]
    BY ZenonT(30), <1>0, <1>6 DEF AppendReturn, TypeOK
  <2>2. acked' \subseteq Record
    BY SMTT(30), <1>6 DEF AppendReturn, TypeOK
  <2>3. QED
    BY ZenonT(30), <1>6, <2>1, <2>2 DEF AppendReturn, TypeOK, diskVars, memVars
<1>7. QED
  BY ZenonT(30), <1>1, <1>2, <1>3, <1>4, <1>5, <1>6

LEMMA FlushType ==
  ASSUME TypeOK, FlushSnapshot \/ FlushSync \/ FlushPublish
  PROVE  TypeOK'
<1>1. CASE FlushSnapshot
  BY ZenonT(30), <1>1 DEF FlushSnapshot, TypeOK, diskVars, memVars, histVars
<1>2. CASE FlushSync
  <2>1. flush.seg \in Index /\ Len(file[flush.seg]) \in Nat
    BY ZenonT(30), FileFacts DEF TypeOK
  <2>2. synced' \in [Index -> Nat]
    BY ZenonT(30), <1>2, <2>1 DEF FlushSync, TypeOK
  <2>3. flush' \in [pc : {"idle", "sync", "publish"}, snap : Nat, seg : Index, err : BOOLEAN]
    BY ZenonT(30), <1>2 DEF FlushSync, TypeOK
  <2>4. QED
    BY ZenonT(30), <1>2, <2>2, <2>3 DEF FlushSync, TypeOK, memVars, histVars
<1>3. CASE FlushPublish
  <2>1. commitErr' \in BOOLEAN
    BY ZenonT(30), <1>3 DEF FlushPublish, PublishErr, TypeOK
  <2>2. committed' \in Nat
    BY ZenonT(30), <1>3 DEF FlushPublish, PublishOffset, TypeOK
  <2>3. flush' \in [pc : {"idle", "sync", "publish"}, snap : Nat, seg : Index, err : BOOLEAN]
    BY <1>3, WalAssumption DEF FlushPublish, NoFlush, Index
  <2>4. QED
    BY ZenonT(30), <1>3, <2>1, <2>2, <2>3 DEF FlushPublish, TypeOK, diskVars, histVars
<1>4. QED
  BY ZenonT(30), <1>1, <1>2, <1>3

LEMMA DropType ==
  ASSUME TypeOK, NEW keepIndex \in Index, DropSegmentsBefore(keepIndex)
  PROVE  TypeOK'
<1>1. Clamp(keepIndex) \in Nat /\ Clamp(keepIndex) <= active
  BY IndexFacts, WalAssumption DEF Clamp
<1>2. first' \in Index /\ first' <= active'
  <2>1. first' = Clamp(keepIndex) /\ active' = active
    BY ZenonT(30) DEF DropSegmentsBefore
  <2>2. active <= MaxSegments
    BY DEF TypeOK, Index
  <2>3. QED
    BY <1>1, <2>1, <2>2, IndexFacts DEF Index
<1>3. \A i \in first..(Clamp(keepIndex) - 1) : RecordsIn(i) \subseteq Record
  <2>1. \A i \in first..(Clamp(keepIndex) - 1) : i \in Index
    <3>1. ASSUME NEW i \in first..(Clamp(keepIndex) - 1) PROVE i \in first..active
      BY <1>1, IndexFacts
    <3>2. first <= active
      BY ZenonT(30) DEF TypeOK
    <3>3. QED
      BY ZenonT(30), <3>1, <3>2, IndexFacts
  <2>2. QED
    BY ZenonT(30), <2>1, FileFacts, SeqElement DEF RecordsIn
<1>4. dropped' \subseteq Record
  BY <1>3 DEF DropSegmentsBefore, TypeOK
<1>5. QED
  BY ZenonT(30), <1>2, <1>4 DEF DropSegmentsBefore, TypeOK, memVars, procVars

LEMMA StoppedType ==
  ASSUME TypeOK, Stopped,
         file' \in [Index -> Seq(Record)], synced' \in [Index -> Nat],
         torn' \in [Index -> SUBSET Nat], active' \in first..active
  PROVE  TypeOK'
<1>1. active' \in Index /\ first' = first /\ first <= active'
  BY IndexFacts DEF Stopped
<1>2. flush' \in [pc : {"idle", "sync", "publish"}, snap : Nat, seg : Index, err : BOOLEAN]
  BY WalAssumption DEF Stopped, NoFlush, Index
<1>3. app' \in [Writers -> [pc : {"idle", "write", "sync", "wait"}, end : Nat, rec : Record]]
  BY ZenonT(30) DEF Stopped, Idle, NoRecord, Record
<1>4. phase' \in {"up", "down", "failed"} /\ stops' \in Nat /\ stopping' = "no"
  BY DEF Stopped, TypeOK
<1>5. UNCHANGED <<base, baseMsgID, nextMsgID, written, committed, commitErr,
                  first, acked, dropped, appends>>
  BY ZenonT(30) DEF Stopped
<1>6. QED
  BY ZenonT(30), <1>1, <1>2, <1>3, <1>4, <1>5 DEF TypeOK

\* Cutting a segment file leaves a prefix of its records.
LEMMA PrefixFacts ==
  ASSUME TypeOK, NEW i \in Index, NEW n \in 0..Len(file[i])
  PROVE  /\ SubSeq(file[i], 1, n) \in Seq(Record)
         /\ Len(SubSeq(file[i], 1, n)) = n
         /\ \A k \in 1..n : SubSeq(file[i], 1, n)[k] = file[i][k]
<1>1. n \in Int /\ n >= 0 /\ file[i] \in Seq(Record) /\ Len(file[i]) \in Nat
  BY FileFacts
<1>2. \A k \in 1..n : file[i][k] \in Record
  BY SMTT(30), <1>1, SeqElement
<1>3. QED
  BY <1>1, SeqTake

\* What a machine failure leaves of each segment.
LEMMA PowerLossFacts ==
  ASSUME TypeOK, PowerLoss
  PROVE  /\ Stopped
         /\ active' \in first..active
         /\ \A i \in (active' + 1)..active : synced[i] = 0
         /\ \A i \in Index :
              /\ file'[i] \in Seq(Record)
              /\ synced'[i] = Len(file'[i])
              /\ Len(file'[i]) <= Len(file[i])
              /\ \A k \in 1..Len(file'[i]) : file'[i][k] = file[i][k]
              /\ \A t \in torn'[i] : t = Len(file'[i]) \/ (t \in torn[i] /\ t < Len(file'[i]))
              /\ i \in first..active' /\ synced[i] <= Len(file[i]) => synced[i] <= synced'[i]
              /\ i > active' => Len(file'[i]) = 0 /\ torn'[i] = {}
              /\ i \notin Loose /\ i # active => torn'[i] \subseteq torn[i]
         /\ DOMAIN file' = Index /\ DOMAIN synced' = Index /\ DOMAIN torn' = Index
         /\ torn' \in [Index -> SUBSET Nat]
<1>1. PICK last \in first..active, keep \in [Loose -> 0..MaxAppends],
           partial \in SUBSET (Loose \cup {active}) :
          /\ \A i \in (last + 1)..active : synced[i] = 0
          /\ \A i \in Loose : synced[i] <= keep[i] /\ keep[i] <= Len(file[i])
          /\ \A i \in partial :
                \/ i \in Loose /\ keep[i] < Len(file[i])
                \/ i = active /\ \E w \in Writers : app[w].pc = "write"
          /\ LET left(i) == IF i > last THEN 0 ELSE IF i \in Loose THEN keep[i] ELSE Len(file[i])
                 gone(i) == left(i) < Len(file[i])
             IN /\ file' = [i \in Index |-> SubSeq(file[i], 1, left(i))]
                /\ synced' = [i \in Index |-> left(i)]
                /\ torn' = [i \in Index |->
                              {t \in torn[i] : t < left(i) \/ (t = left(i) /\ ~gone(i) /\ i <= last)}
                              \cup (IF i \in partial /\ i <= last THEN {left(i)} ELSE {})]
          /\ active' = last
  BY ZenonT(30) DEF PowerLoss
<1> DEFINE left(i) == IF i > last THEN 0 ELSE IF i \in Loose THEN keep[i] ELSE Len(file[i])
<1>2. \A i \in Index : left(i) \in 0..Len(file[i])
  <2> SUFFICES ASSUME NEW i \in Index PROVE left(i) \in 0..Len(file[i])
    BY ZenonT(30)
  <2>1. Len(file[i]) \in Nat
    BY ZenonT(30), FileFacts
  <2>2. i \in Loose => keep[i] \in Nat /\ keep[i] <= Len(file[i])
    BY SMTT(30), <1>1, IndexFacts
  <2>3. QED
    BY <2>1, <2>2
<1>3. Stopped
  BY ZenonT(30) DEF PowerLoss
<1>4. ASSUME NEW i \in Index
      PROVE  /\ file'[i] \in Seq(Record)
             /\ Len(file'[i]) = left(i)
             /\ \A k \in 1..left(i) : file'[i][k] = file[i][k]
  <2>1. file'[i] = SubSeq(file[i], 1, left(i))
    BY ZenonT(30), <1>1
  <2>2. QED
    BY SMTT(30), <2>1, <1>2, PrefixFacts
<1>5. ASSUME NEW i \in Index
      PROVE  /\ synced'[i] = left(i)
             /\ i > last => left(i) = 0 /\ torn'[i] = {}
             /\ \A t \in torn'[i] : t = left(i) \/ (t \in torn[i] /\ t < left(i))
             /\ i \notin Loose /\ i # active => torn'[i] \subseteq torn[i]
  <2>1. torn'[i] = {t \in torn[i] : t < left(i) \/ (t = left(i) /\ ~(left(i) < Len(file[i])) /\ i <= last)}
                      \cup (IF i \in partial /\ i <= last THEN {left(i)} ELSE {})
    BY ZenonT(30), <1>1
  <2>2. synced'[i] = left(i)
    BY ZenonT(30), <1>1
  <2>3. torn[i] \subseteq Nat /\ i \in Nat /\ last \in Nat
    BY ZenonT(30), IndexFacts DEF TypeOK
  <2>4. i > last => left(i) = 0 /\ torn'[i] = {}
    BY <2>1, <2>3
  <2>5. i \notin Loose /\ i # active => torn'[i] \subseteq torn[i]
    BY ZenonT(30), <2>1
  <2>6. \A t \in torn'[i] : t = left(i) \/ (t \in torn[i] /\ t < left(i))
    BY ZenonT(30), <2>1
  <2> HIDE DEF left
  <2>7. QED
    BY ZenonT(30), <2>2, <2>4, <2>5, <2>6
<1>6. ASSUME NEW i \in Index, i \in first..last, synced[i] <= Len(file[i])
      PROVE  synced[i] <= left(i)
  <2>1. CASE i \in Loose
    BY SMTT(30), <2>1, <1>1, <1>6, IndexFacts
  <2>2. CASE i \notin Loose
    <3>2. ~(i > last)
      BY SMTT(30), <1>1, <1>6, IndexFacts
    <3>3. left(i) = Len(file[i])
      BY ZenonT(30), <2>2, <3>2
    <3>4. QED
      BY ONLY ZenonT(30), <1>6, <3>3
  <2>3. QED
    BY ZenonT(30), <2>1, <2>2
<1>7. torn' \in [Index -> SUBSET Nat]
  <2>1. \A i \in Index : torn'[i] \in SUBSET Nat
    <3> SUFFICES ASSUME NEW i \in Index, NEW t \in torn'[i] PROVE t \in Nat
      BY ZenonT(30)
    <3>1. left(i) \in Nat /\ torn[i] \subseteq Nat
      <4>1. Len(file[i]) \in Nat /\ torn[i] \subseteq Nat
        BY ZenonT(30), FileFacts DEF TypeOK
      <4>2. left(i) \in 0..Len(file[i])
        BY ZenonT(30), <1>2
      <4> HIDE DEF left
      <4>3. QED
        BY <4>1, <4>2
    <3> HIDE DEF left
    <3>2. QED
      BY ZenonT(30), <1>5, <3>1
  <2>2. DOMAIN torn' = Index
    BY ZenonT(30), <1>1
  <2>3. torn' = [i \in Index |-> torn'[i]]
    BY ZenonT(30), <1>1
  <2>4. QED
    BY ZenonT(30), <2>1, <2>3
<1>8. DOMAIN file' = Index /\ DOMAIN synced' = Index /\ DOMAIN torn' = Index
  BY ZenonT(30), <1>1
<1>9. active' = last /\ last \in first..active
  BY ZenonT(30), <1>1
<1>10. \A i \in (active' + 1)..active : synced[i] = 0
  BY ZenonT(30), <1>1
<1> HIDE DEF left
<1>11. \A i \in Index : Len(file'[i]) <= Len(file[i])
  BY SMTT(30), <1>2, <1>4
<1>12. QED
  BY SMTT(30), <1>3, <1>4, <1>5, <1>6, <1>7, <1>8, <1>9, <1>10, <1>11

\* What recovery leaves of each segment.
LEMMA OpenFacts ==
  ASSUME TypeOK, Open
  PROVE  /\ file' \in [Index -> Seq(Record)]
         /\ \A i \in Index : i # active => file'[i] = file[i] /\ synced'[i] = synced[i] /\ torn'[i] = torn[i]
         /\ Len(file'[active]) = GoodLen(active)
         /\ \A k \in 1..GoodLen(active) : file'[active][k] = file[active][k]
         /\ synced' \in [Index -> Nat]
         /\ synced'[active] <= synced[active] /\ synced'[active] <= GoodLen(active)
         /\ synced[active] <= GoodLen(active) => synced'[active] = synced[active]
         /\ torn' \in [Index -> SUBSET Nat] /\ torn'[active] = {}
<1>0. active \in Index /\ synced[active] \in Nat
  BY ZenonT(30) DEF TypeOK
<1>1. active \in Index /\ GoodLen(active) \in 0..Len(file[active]) /\ synced[active] \in Nat
        /\ GoodLen(active) \in Nat
  BY SMTT(30), <1>0, GoodLenProperties, FileFacts
<1>2. /\ SubSeq(file[active], 1, GoodLen(active)) \in Seq(Record)
      /\ Len(SubSeq(file[active], 1, GoodLen(active))) = GoodLen(active)
      /\ \A k \in 1..GoodLen(active) : SubSeq(file[active], 1, GoodLen(active))[k] = file[active][k]
  BY ZenonT(30), <1>1, PrefixFacts
<1>3. /\ file' = [file EXCEPT ![active] = SubSeq(file[active], 1, GoodLen(active))]
      /\ synced' = [synced EXCEPT ![active] = MinOf({synced[active], GoodLen(active)})]
      /\ torn' = [torn EXCEPT ![active] = {}]
  BY ZenonT(30) DEF Open, TruncateAt, TypeOK
<1>4. /\ MinOf({synced[active], GoodLen(active)}) \in {synced[active], GoodLen(active)}
      /\ \A n \in {synced[active], GoodLen(active)} : MinOf({synced[active], GoodLen(active)}) <= n
  <2>1. {synced[active], GoodLen(active)} \in SUBSET Nat
    BY ZenonT(30), <1>1
  <2>2. QED
    BY ZenonT(30), <2>1, MinOfProperties
<1>5. file' \in [Index -> Seq(Record)] /\ synced' \in [Index -> Nat] /\ torn' \in [Index -> SUBSET Nat]
  BY ZenonT(30), <1>1, <1>2, <1>3, <1>4 DEF TypeOK
<1>6. /\ file'[active] = SubSeq(file[active], 1, GoodLen(active))
      /\ synced'[active] = MinOf({synced[active], GoodLen(active)})
      /\ torn'[active] = {}
      /\ \A i \in Index : i # active => file'[i] = file[i] /\ synced'[i] = synced[i] /\ torn'[i] = torn[i]
  BY ZenonT(30), <1>1, <1>3 DEF TypeOK
<1>7. QED
  BY SMTT(30), <1>1, <1>2, <1>4, <1>5, <1>6

LEMMA StopOpenType ==
  ASSUME TypeOK,
         \/ CloseStart \/ FinalFlushEmpty \/ CloseFinish \/ Kill \/ Exit \/ PowerLoss
         \/ OpenFails \/ Open
  PROVE  TypeOK'
<1>1. CASE CloseStart
  BY ZenonT(30), <1>1 DEF CloseStart, TypeOK, diskVars, memVars, histVars
<1>2. CASE FinalFlushEmpty
  BY ZenonT(30), <1>2 DEF FinalFlushEmpty, TypeOK, diskVars, memVars, histVars
<1>3. CASE CloseFinish
  BY ZenonT(30), <1>3 DEF CloseFinish, Closed, TypeOK, diskVars, memVars, histVars
<1>4. CASE Kill \/ Exit
  <2>1. active' \in first..active
    <3>1. active' = active
      BY ZenonT(30), <1>4 DEF Kill, Exit, MaybeTorn
    <3>2. first <= active
      BY ZenonT(30) DEF TypeOK
    <3>3. QED
      BY <3>1, <3>2, IndexFacts
  <2>2. torn' \in [Index -> SUBSET Nat]
    <3>1. torn[active] \cup {Len(file[active])} \in SUBSET Nat
      BY ZenonT(30), FileFacts DEF TypeOK
    <3>2. QED
      BY ZenonT(30), <1>4, <3>1 DEF Kill, Exit, MaybeTorn, TypeOK
  <2>3. QED
    BY ZenonT(30), <1>4, <2>1, <2>2, StoppedType DEF Kill, Exit, MaybeTorn, TypeOK
<1>5. CASE PowerLoss
  <2>1. file' \in [Index -> Seq(Record)] /\ synced' \in [Index -> Nat]
    <3>1. file' = [i \in Index |-> file'[i]] /\ synced' = [i \in Index |-> synced'[i]]
      BY SMTT(30), <1>5 DEF PowerLoss
    <3>2. \A i \in Index : file'[i] \in Seq(Record) /\ synced'[i] = Len(file'[i])
      BY <1>5, PowerLossFacts
    <3>3. \A i \in Index : synced'[i] \in Nat
      BY ZenonT(30), <3>2, SeqLen
    <3>4. QED
      BY SMTT(30), <3>1, <3>2, <3>3
  <2>2. QED
    BY ZenonT(30), <1>5, <2>1, PowerLossFacts, StoppedType
<1>6. CASE OpenFails
  BY ZenonT(30), <1>6 DEF OpenFails, TypeOK, diskVars, procVars, histVars
<1>7. CASE Open
  <2>1. file' \in [Index -> Seq(Record)] /\ synced' \in [Index -> Nat] /\ torn' \in [Index -> SUBSET Nat]
    BY ZenonT(30), <1>7, OpenFacts
  <2>2. base' \in [Index -> Nat]
    BY <1>7, ScannedFinite DEF Open
  <2>3. \A i \in NonEmpty : file[i][1].id \in Nat
    <3>1. ASSUME NEW i \in NonEmpty PROVE file[i][1] \in Record
      <4>1. i \in Index /\ GoodLen(i) > 0
        BY ZenonT(30), IndexFacts DEF NonEmpty
      <4>2. 1 \in 1..Len(file[i])
        BY SMTT(30), <4>1, FileFacts, GoodLenProperties
      <4>3. QED
        BY ZenonT(30), <4>1, <4>2, FileFacts, SeqElement
    <3>2. QED
      BY ZenonT(30), <3>1 DEF Record
  <2>4. baseMsgID' \in [Index -> Nat]
    BY <1>7, <2>3, NextIDAfterType DEF Open
  <2>5. GoodLen(active) \in Nat /\ ScannedBefore(active) \in Nat
    BY ZenonT(30), GoodLenProperties, ScannedFinite DEF TypeOK
  <2>6. committed' \in Nat /\ written' \in Nat /\ nextMsgID' \in Nat
    BY SMTT(30), <1>7, <2>5, NextIDAfterType DEF Open
  <2>7. phase' \in {"up", "down", "failed"} /\ commitErr' \in BOOLEAN
    BY ZenonT(30), <1>7 DEF Open
  <2>8. UNCHANGED <<first, active, procVars, histVars>>
    BY ZenonT(30), <1>7 DEF Open
  <2>9. QED
    BY ZenonT(30), <2>1, <2>2, <2>4, <2>6, <2>7, <2>8 DEF TypeOK, procVars, histVars
<1>8. QED
  BY ZenonT(30), <1>1, <1>2, <1>3, <1>4, <1>5, <1>6, <1>7

LEMMA StutterType == TypeOK /\ UNCHANGED vars => TypeOK'
BY ZenonT(30) DEF TypeOK, vars, state, diskVars, memVars, procVars, histVars

LEMMA TypeStep == TypeOK /\ [Next]_vars => TypeOK'
BY ZenonT(30), AppendType, FlushType, DropType, StopOpenType, StutterType DEF Next

\* Every reachable state of the log is well typed: in particular the retained
\* segments are never empty (first <= active) whatever keepIndex retention asks
\* DropSegmentsBefore for.
THEOREM TypeCorrect == Spec => []TypeOK
BY InitType, TypeStep, PTL DEF Spec

----------------------------------------------------------------------------
(* The book-keeping. *)

\* An interval cut at b, and the part of an interval above a cut.
LEMMA IntervalSplit ==
  ASSUME NEW a \in Int, NEW b \in Int, NEW c \in Int, NEW i \in a..c
  PROVE  i \in b..c \/ i \in a..(b - 1)
OBVIOUS

LEMMA IntervalUpTo ==
  ASSUME NEW a \in Int, NEW b \in Int, NEW c \in Int, NEW i \in a..b, i \notin (c + 1)..b
  PROVE  i \in a..c
OBVIOUS

Holder(w) == app[w].pc \in {"write", "sync"}

Lengths ==
    /\ appends <= MaxAppends
    /\ \A i \in Index :
          /\ synced[i] <= Len(file[i])
          /\ Len(file[i]) <= appends
          /\ i > active => Len(file[i]) = 0 /\ torn[i] = {}

Mutex ==
    /\ \A v, w \in Writers : Holder(v) /\ Holder(w) => v = w
    /\ \A w \in Writers : app[w].pc = "write" => appends < MaxAppends
    /\ phase # "up" => (\A w \in Writers : app[w].pc = "idle") /\ flush.pc = "idle"

Layout ==
    phase = "up" =>
        /\ written = base[active] + Len(file[active])
        /\ base[active] <= committed
        /\ committed <= written
        /\ \A i \in first..(active - 1) :
              base[i + 1] = base[i] + Len(file[i]) /\ base[i] + Len(file[i]) <= base[active]
        /\ \A w \in Writers : app[w].pc = "sync" => app[w].end = written
        /\ flush.pc # "idle" =>
              /\ flush.snap <= written
              /\ flush.seg <= active
              /\ flush.snap > committed => flush.seg = active

Struct == TypeOK /\ Lengths /\ Mutex /\ Layout

----------------------------------------------------------------------------
(* The book-keeping is inductive. *)

LEMMA StructInit == Init => Struct
<1> SUFFICES ASSUME Init PROVE Struct
  BY ZenonT(30)
<1>1. TypeOK
  BY ZenonT(30), InitType
<1>2. Lengths
  BY WalAssumption, SeqEmpty DEF Init, Lengths, Index
<1>3. Mutex
  BY ZenonT(30) DEF Init, Mutex, Holder, Idle, NoFlush
<1>4. Layout
  BY SMTT(30), <1>1, IndexFacts, SeqEmpty, WalAssumption DEF Init, Layout, Idle, NoFlush, Index
<1>5. QED
  BY ZenonT(30), <1>1, <1>2, <1>3, <1>4 DEF Struct

\* An fsync of segment j covers what the file holds and disturbs no other file.
LEMMA FsyncFacts ==
  ASSUME Struct, NEW j \in Index, synced' = [synced EXCEPT ![j] = Len(file[j])]
  PROVE  /\ synced'[j] = Len(file[j])
         /\ \A i \in Index : i # j => synced'[i] = synced[i]
         /\ \A i \in Index : synced[i] <= synced'[i] /\ synced'[i] <= Len(file[i])
<1>1. \A i \in Index : synced[i] \in Nat /\ Len(file[i]) \in Nat /\ synced[i] <= Len(file[i])
  BY ZenonT(30), FileFacts DEF Struct, TypeOK, Lengths
<1>2. synced'[j] = Len(file[j]) /\ \A i \in Index : i # j => synced'[i] = synced[i]
  BY ZenonT(30) DEF Struct, TypeOK
<1>3. ASSUME NEW i \in Index PROVE synced[i] <= synced'[i] /\ synced'[i] <= Len(file[i])
  <2>1. CASE i = j
    BY <1>1, <1>2, <2>1
  <2>2. CASE i # j
    BY <1>1, <1>2, <2>2
  <2>3. QED
    BY ZenonT(30), <2>1, <2>2
<1>4. QED
  BY ZenonT(30), <1>2, <1>3

\* Sealing leaves nothing written that is not committed.
LEMMA SealFacts ==
  ASSUME Struct, phase = "up", SealSync
  PROVE  /\ committed' = written
         /\ \A i \in Index : i # active => synced'[i] = synced[i]
         /\ \A i \in Index : synced[i] <= synced'[i] /\ synced'[i] <= Len(file[i])
         /\ written > committed => synced'[active] = Len(file[active])
         /\ ~(written > committed) => synced' = synced
<1>1. active \in Index /\ committed <= written /\ committed \in Nat /\ written \in Nat
  BY ZenonT(30) DEF Struct, TypeOK, Layout
<1>2. \A i \in Index : synced[i] \in Nat /\ Len(file[i]) \in Nat /\ synced[i] <= Len(file[i])
  BY ZenonT(30), FileFacts DEF Struct, TypeOK, Lengths
<1>3. CASE written > committed
  <2>1. synced' = [synced EXCEPT ![active] = Len(file[active])] /\ committed' = written
    BY ZenonT(30), <1>3 DEF SealSync
  <2>2. QED
    BY SMTT(30), <1>1, <1>2, <1>3, <2>1 DEF Struct, TypeOK
<1>4. CASE ~(written > committed)
  <2>1. synced' = synced /\ committed' = committed
    BY ZenonT(30), <1>4 DEF SealSync
  <2>2. QED
    BY <1>1, <1>2, <1>4, <2>1
<1>5. QED
  BY ZenonT(30), <1>3, <1>4

LEMMA StructAppendStart ==
  ASSUME Struct, NEW w \in Writers, AppendStart(w), TypeOK'
  PROVE  Struct'
<1>1. /\ phase = "up" /\ MuFree /\ appends < MaxAppends
      /\ app' = [app EXCEPT ![w].pc = "write"]
      /\ UNCHANGED <<file, torn, first, phase, nextMsgID, written, commitErr,
                     flush, acked, dropped, appends, stops>>
  BY ZenonT(30) DEF AppendStart, histVars
<1>2. Mutex'
  <2>1. \A v \in Writers : v # w => app'[v] = app[v]
    BY ZenonT(30), <1>1 DEF Struct, TypeOK
  <2>2. app'[w].pc = "write"
    BY <1>1 DEF Struct, TypeOK
  <2>3. \A v \in Writers : v # w => ~Holder(v)'
    BY ZenonT(30), <1>1, <2>1 DEF MuFree, Holder
  <2>4. QED
    BY ZenonT(30), <1>1, <2>1, <2>2, <2>3 DEF Mutex, Struct, Holder
<1>3. \A v \in Writers : app'[v].pc # "sync"
  BY <1>1 DEF MuFree, Struct, TypeOK
<1>4. CASE NeedsRotation /\ Rotate
  <2>1. /\ SealSync /\ active' = active + 1 /\ active < MaxSegments
        /\ base' = [base EXCEPT ![active + 1] = written]
    BY ZenonT(30), <1>4 DEF Rotate
  <2>2. /\ active \in Index /\ active + 1 \in Index /\ first \in Nat /\ active \in Nat
        /\ written \in Nat /\ first <= active
    BY ZenonT(30), <2>1, IndexFacts, WalAssumption DEF Struct, TypeOK, Index
  <2>3. base'[active + 1] = written /\ \A i \in Index : i # active + 1 => base'[i] = base[i]
    BY ZenonT(30), <2>1, <2>2 DEF Struct, TypeOK
  <2>4. \A i \in Index : Len(file[i]) \in Nat /\ synced[i] \in Nat /\ i \in Nat /\ base[i] \in Nat
    BY ZenonT(30), FileFacts, IndexFacts DEF Struct, TypeOK
  <2>5. Lengths'
    <3>1. \A i \in Index : synced'[i] <= Len(file[i])
      BY ZenonT(30), <1>1, <2>1, SealFacts
    <3>2. QED
      BY SMTT(30), <1>1, <2>1, <2>2, <2>4, <3>1 DEF Struct, Lengths
  <2>6. written = base[active] + Len(file[active]) /\ committed' = written /\ Len(file[active + 1]) = 0
    BY SMTT(30), <1>1, <2>1, <2>2, <2>4, SealFacts DEF Struct, Layout, Lengths
  <2>7. ASSUME NEW i \in first..active
        PROVE  base'[i + 1] = base'[i] + Len(file[i]) /\ base'[i] + Len(file[i]) <= written
    <3>1. i \in Index /\ i + 1 \in Index /\ i # active + 1 /\ i \in Nat
      BY <2>2, IndexFacts DEF Struct, Index
    <3>2. CASE i = active
      BY SMTT(30), <2>3, <2>4, <2>6, <3>1, <3>2
    <3>3. CASE i # active
      <4>1. i \in first..(active - 1) /\ i + 1 # active + 1
        BY SMTT(30), <3>1, <3>3, <2>2
      <4>2. base[i + 1] = base[i] + Len(file[i]) /\ base[i] + Len(file[i]) <= base[active]
        BY ZenonT(30), <1>1, <4>1 DEF Struct, Layout
      <4>3. QED
        BY SMTT(30), <2>2, <2>3, <2>4, <2>6, <3>1, <4>1, <4>2
    <3>4. QED
      BY ZenonT(30), <3>2, <3>3
  <2>8. flush.pc # "idle" => flush.snap <= written /\ flush.seg <= active
    BY ZenonT(30), <1>1 DEF Struct, Layout
  <2>9. flush.snap \in Nat /\ flush.seg \in Nat
    BY ZenonT(30), IndexFacts DEF Struct, TypeOK
  <2>10. Layout'
    <3>1. written' = base'[active'] + Len(file'[active'])
      BY SMTT(30), <1>1, <2>1, <2>2, <2>3, <2>6
    <3>2. base'[active'] <= committed' /\ committed' <= written'
      BY SMTT(30), <1>1, <2>1, <2>2, <2>3, <2>6
    <3>3. \A i \in first'..(active' - 1) :
             base'[i + 1] = base'[i] + Len(file'[i]) /\ base'[i] + Len(file'[i]) <= base'[active']
      BY SMTT(30), <1>1, <2>1, <2>2, <2>3, <2>7
    <3>4. flush'.pc # "idle" =>
              /\ flush'.snap <= written'
              /\ flush'.seg <= active'
              /\ flush'.snap > committed' => flush'.seg = active'
      BY SMTT(30), <1>1, <2>1, <2>2, <2>6, <2>8, <2>9
    <3>5. QED
      BY ZenonT(30), <3>1, <3>2, <3>3, <3>4, <1>3 DEF Layout
  <2>11. QED
    BY ZenonT(30), <1>2, <2>5, <2>10 DEF Struct
<1>5. CASE ~NeedsRotation /\ UNCHANGED <<synced, committed, active, base, baseMsgID>>
  <2>1. Lengths'
    BY ZenonT(30), <1>1, <1>5 DEF Struct, Lengths
  <2>2. Layout'
    BY ZenonT(30), <1>1, <1>3, <1>5 DEF Struct, Layout
  <2>3. QED
    BY ZenonT(30), <1>2, <2>1, <2>2 DEF Struct
<1>6. QED
  BY ZenonT(30), <1>4, <1>5 DEF AppendStart

LEMMA StructRotateFails ==
  ASSUME Struct, NEW w \in Writers, RotateFails(w), TypeOK'
  PROVE  Struct'
<1>1. /\ phase = "up" /\ MuFree /\ SealSync
      /\ UNCHANGED <<file, torn, first, active, phase, base, written, app, flush, appends>>
  BY ZenonT(30) DEF RotateFails, procVars, histVars
<1>2. Lengths'
  BY ZenonT(30), <1>1, SealFacts DEF Struct, Lengths
<1>3. Mutex'
  BY ZenonT(30), <1>1 DEF Struct, Mutex, Holder
<1>4. Layout'
  <2>1. committed' = written
    BY ZenonT(30), <1>1, SealFacts
  <2>2. \A v \in Writers : app[v].pc # "sync"
    BY ZenonT(30), <1>1 DEF MuFree
  <2>3. flush.snap \in Nat /\ written \in Nat /\ committed \in Nat /\ base[active] \in Nat
    BY ZenonT(30) DEF Struct, TypeOK
  <2>4. QED
    BY SMTT(30), <1>1, <2>1, <2>2, <2>3 DEF Struct, Layout
<1>5. QED
  BY ZenonT(30), <1>2, <1>3, <1>4 DEF Struct

\* The active segment gains one record, the others are as before.
LEMMA AppendWriteFacts ==
  ASSUME Struct, NEW w \in Writers, AppendWrite(w)
  PROVE  /\ phase = "up" /\ app[w].pc = "write"
         /\ Len(file'[active]) = Len(file[active]) + 1
         /\ file'[active][Len(file[active]) + 1] = [id |-> nextMsgID, val |-> appends]
         /\ \A i \in Index : i # active => file'[i] = file[i]
         /\ \A i \in Index : Len(file[i]) <= Len(file'[i])
         /\ \A i \in Index : \A k \in 1..Len(file[i]) : file'[i][k] = file[i][k]
<1>1. file' = [file EXCEPT ![active] = Append(file[active], [id |-> nextMsgID, val |-> appends])]
  BY ZenonT(30) DEF AppendWrite
<1>2. [id |-> nextMsgID, val |-> appends] \in Record /\ file[active] \in Seq(Record) /\ active \in Index
  BY ZenonT(30) DEF Struct, TypeOK, Record
<1>3. file'[active] = Append(file[active], [id |-> nextMsgID, val |-> appends])
  BY ZenonT(30), <1>1, <1>2 DEF Struct, TypeOK
<1>4. \A i \in Index : i # active => file'[i] = file[i]
  BY ZenonT(30), <1>1 DEF Struct, TypeOK
<1>5. /\ Len(file'[active]) = Len(file[active]) + 1
      /\ file'[active][Len(file[active]) + 1] = [id |-> nextMsgID, val |-> appends]
      /\ \A k \in 1..Len(file[active]) : file'[active][k] = file[active][k]
  BY <1>2, <1>3, SeqAppend
<1>6. \A i \in Index : Len(file[i]) \in Nat
  BY ZenonT(30), FileFacts DEF Struct
<1>7. phase = "up" /\ app[w].pc = "write"
  BY ZenonT(30) DEF AppendWrite
<1>8. \A i \in Index : Len(file[i]) <= Len(file'[i])
  BY SMTT(30), <1>4, <1>5, <1>6
<1>9. QED
  BY ZenonT(30), <1>4, <1>5, <1>7, <1>8

LEMMA StructAppendWrite ==
  ASSUME Struct, NEW w \in Writers, AppendWrite(w), TypeOK'
  PROVE  Struct'
<1>1. /\ phase = "up" /\ app[w].pc = "write"
      /\ written' = written + 1 /\ appends' = appends + 1
      /\ UNCHANGED <<synced, torn, first, active, phase, base, flush>>
  BY ZenonT(30) DEF AppendWrite
<1>2. \A v \in Writers : v # w => app'[v] = app[v] /\ ~Holder(v)
  <2>1. \A v \in Writers : v # w => app'[v] = app[v]
    BY ZenonT(30) DEF AppendWrite, Struct, TypeOK
  <2>2. \A v \in Writers : v # w => ~Holder(v)
    BY ZenonT(30), <1>1 DEF Struct, Mutex, Holder
  <2>3. QED
    BY ZenonT(30), <2>1, <2>2
<1>3. app'[w].pc # "write" /\ (app'[w].pc = "sync" => app'[w].end = written')
  <2>1. PICK rec : \E x \in {"wait", "sync"} :
            \/ app' = [app EXCEPT ![w] = [pc |-> x, end |-> written + 1, rec |-> rec]]
            \/ app' = [app EXCEPT ![w] = Idle]
    BY ZenonT(30) DEF AppendWrite
  <2>2. w \in DOMAIN app
    BY ZenonT(30) DEF Struct, TypeOK
  <2>3. QED
    BY SMTT(30), <1>1, <2>1, <2>2 DEF Idle
<1>4. \A i \in Index : Len(file[i]) \in Nat /\ synced[i] \in Nat /\ i \in Nat /\ base[i] \in Nat
  BY ZenonT(30), FileFacts, IndexFacts DEF Struct, TypeOK
<1>5. active \in Index /\ appends \in Nat /\ written \in Nat /\ committed \in Nat /\ MaxAppends \in Nat
  BY ZenonT(30), WalAssumption DEF Struct, TypeOK
<1>6. Lengths'
  <2>1. appends + 1 <= MaxAppends
    BY <1>1, <1>5 DEF Struct, Mutex
  <2>2. ASSUME NEW i \in Index
        PROVE  /\ synced[i] <= Len(file'[i])
               /\ Len(file'[i]) <= appends + 1
               /\ i > active => Len(file'[i]) = 0 /\ torn[i] = {}
    <3>1. synced[i] <= Len(file[i]) /\ Len(file[i]) <= appends /\ (i > active => Len(file[i]) = 0 /\ torn[i] = {})
      BY ZenonT(30) DEF Struct, Lengths
    <3>2. CASE i = active
      BY SMTT(30), <1>4, <1>5, <3>1, <3>2, AppendWriteFacts
    <3>3. CASE i # active
      <4>1. file'[i] = file[i]
        BY ZenonT(30), <3>3, AppendWriteFacts
      <4>2. QED
        BY SMTT(30), <1>4, <1>5, <3>1, <4>1
    <3>4. QED
      BY ZenonT(30), <3>2, <3>3
  <2>3. QED
    BY ZenonT(30), <1>1, <2>1, <2>2 DEF Lengths
<1>7. Mutex'
  <2>1. \A v \in Writers : v # w => ~Holder(v)'
    BY ZenonT(30), <1>2 DEF Holder
  <2>2. \A v \in Writers : app'[v].pc # "write"
    BY ZenonT(30), <1>2, <1>3 DEF Holder
  <2>3. QED
    BY ZenonT(30), <1>1, <2>1, <2>2 DEF Mutex
<1>8. Layout'
  <2>1. written' = base[active] + Len(file'[active]) /\ base[active] <= committed /\ committed <= written
    BY SMTT(30), <1>1, <1>4, <1>5, AppendWriteFacts DEF Struct, Layout
  <2>2. committed' = committed \/ committed' = written'
    BY ZenonT(30), <1>1 DEF AppendWrite
  <2>3. ASSUME NEW i \in first..(active - 1) PROVE file'[i] = file[i]
    <3>1. TypeOK
      BY ZenonT(30) DEF Struct
    <3>2. i \in Index /\ i # active
      <4>1. i \in Index /\ active \in Nat /\ first \in Nat
        BY ZenonT(30), <3>1, IndexFacts
      <4>2. QED
        BY <4>1
    <3>3. QED
      BY ZenonT(30), <3>2, AppendWriteFacts
  <2>4. \A i \in first..(active - 1) :
              base[i + 1] = base[i] + Len(file'[i]) /\ base[i] + Len(file'[i]) <= base[active]
    BY ZenonT(30), <1>1, <2>3 DEF Struct, Layout
  <2>5. \A v \in Writers : app'[v].pc = "sync" => app'[v].end = written'
    BY ZenonT(30), <1>2, <1>3 DEF Holder
  <2>6. flush.pc # "idle" =>
              /\ flush.snap <= written'
              /\ flush.seg <= active
              /\ flush.snap > committed' => flush.seg = active
    <3>1. flush.snap \in Nat
      BY ZenonT(30) DEF Struct, TypeOK
    <3>2. flush.pc # "idle" =>
              /\ flush.snap <= written
              /\ flush.seg <= active
              /\ flush.snap > committed => flush.seg = active
      BY ZenonT(30), <1>1 DEF Struct, Layout
    <3>3. QED
      BY SMTT(30), <1>1, <1>5, <2>1, <2>2, <3>1, <3>2
  <2>7. base[active] <= committed' /\ committed' <= written'
    BY SMTT(30), <1>1, <1>4, <1>5, <2>1, <2>2
  <2>8. QED
    BY ZenonT(30), <1>1, <2>1, <2>4, <2>5, <2>6, <2>7 DEF Layout
<1>9. QED
  BY ZenonT(30), <1>6, <1>7, <1>8 DEF Struct

LEMMA StructAppendWriteFails ==
  ASSUME Struct, NEW w \in Writers, AppendWriteFails(w), TypeOK'
  PROVE  Struct'
<1>1. /\ phase = "up" /\ app[w].pc = "write" /\ app' = [app EXCEPT ![w] = Idle]
      /\ UNCHANGED <<file, synced, first, active, phase, base, written, committed, flush, appends>>
  BY ZenonT(30) DEF AppendWriteFails, memVars, histVars
<1>2. \A v \in Writers : app'[v] = app[v] \/ app'[v].pc = "idle"
  BY ZenonT(30), <1>1 DEF Struct, TypeOK, Idle
<1>3. \A i \in Index : i # active => torn'[i] = torn[i]
  BY ZenonT(30) DEF AppendWriteFails, Struct, TypeOK
<1>4. \A i \in Index : i > active => i # active
  BY IndexFacts DEF Struct
<1>5. Lengths'
  BY ZenonT(30), <1>1, <1>3, <1>4 DEF Struct, Lengths
<1>6. Mutex'
  BY ZenonT(30), <1>1, <1>2 DEF Struct, Mutex, Holder
<1>7. Layout'
  BY ZenonT(30), <1>1, <1>2 DEF Struct, Layout
<1>8. QED
  BY ZenonT(30), <1>5, <1>6, <1>7 DEF Struct

LEMMA StructAppendSync ==
  ASSUME Struct, NEW w \in Writers, AppendSync(w), TypeOK'
  PROVE  Struct'
<1>1. /\ phase = "up" /\ app[w].pc = "sync" /\ app' = [app EXCEPT ![w] = Idle]
      /\ UNCHANGED <<file, torn, first, active, phase, base, written, flush, appends>>
  BY ZenonT(30) DEF AppendSync
<1>2. \A v \in Writers : app'[v] = app[v] \/ app'[v].pc = "idle"
  BY ZenonT(30), <1>1 DEF Struct, TypeOK, Idle
<1>3. app[w].end = written
  BY ZenonT(30), <1>1 DEF Struct, Layout
<1>4. /\ committed' = committed \/ committed' = written
      /\ synced' = synced \/ synced' = [synced EXCEPT ![active] = Len(file[active])]
  BY ZenonT(30), <1>3 DEF AppendSync
<1>5. active \in Index
  BY ZenonT(30) DEF Struct, TypeOK
<1>6. \A i \in Index : synced'[i] <= Len(file[i])
  <2>1. CASE synced' = synced
    BY ZenonT(30), <2>1 DEF Struct, Lengths
  <2>2. CASE synced' = [synced EXCEPT ![active] = Len(file[active])]
    BY ZenonT(30), <1>5, <2>2, FsyncFacts
  <2>3. QED
    BY ZenonT(30), <1>4, <2>1, <2>2
<1>7. Lengths'
  BY ZenonT(30), <1>1, <1>6 DEF Struct, Lengths
<1>8. Mutex'
  BY ZenonT(30), <1>1, <1>2 DEF Struct, Mutex, Holder
<1>9. Layout'
  <2>1. base[active] \in Nat /\ committed \in Nat /\ written \in Nat /\ flush.snap \in Nat
    BY ZenonT(30) DEF Struct, TypeOK
  <2>2. QED
    BY SMTT(30), <1>1, <1>2, <1>4, <2>1 DEF Struct, Layout
<1>10. QED
  BY ZenonT(30), <1>7, <1>8, <1>9 DEF Struct

LEMMA StructAppendReturn ==
  ASSUME Struct, NEW w \in Writers, AppendReturn(w), TypeOK'
  PROVE  Struct'
<1>1. /\ app' = [app EXCEPT ![w] = Idle]
      /\ UNCHANGED <<file, synced, torn, first, active, phase, base, written, committed, flush, appends>>
  BY ZenonT(30) DEF AppendReturn, diskVars, memVars
<1>2. \A v \in Writers : app'[v] = app[v] \/ app'[v].pc = "idle"
  BY ZenonT(30), <1>1 DEF Struct, TypeOK, Idle
<1>3. QED
  BY ZenonT(30), <1>1, <1>2 DEF Struct, Lengths, Mutex, Layout, Holder

LEMMA StructFlush ==
  ASSUME Struct, FlushSnapshot \/ FlushSync \/ FlushPublish, TypeOK'
  PROVE  Struct'
<1>0. base[active] \in Nat /\ committed \in Nat /\ written \in Nat /\ flush.snap \in Nat /\ active \in Nat
  BY ZenonT(30), IndexFacts DEF Struct, TypeOK
<1>1. CASE FlushSnapshot
  <2>1. /\ phase = "up"
        /\ flush' = [pc |-> "sync", snap |-> written, seg |-> active, err |-> FALSE]
        /\ UNCHANGED <<file, synced, torn, first, active, phase, base, written, committed, app, appends>>
    BY ZenonT(30), <1>1 DEF FlushSnapshot, diskVars, memVars, histVars
  <2>2. Layout'
    BY <1>0, <2>1 DEF Struct, Layout
  <2>3. QED
    BY ZenonT(30), <2>1, <2>2 DEF Struct, Lengths, Mutex, Holder
<1>2. CASE FlushSync
  <2>1. /\ phase = "up" /\ flush.pc = "sync"
        /\ flush'.pc = "publish" /\ flush'.snap = flush.snap /\ flush'.seg = flush.seg
        /\ synced' = synced \/ synced' = [synced EXCEPT ![flush.seg] = Len(file[flush.seg])]
        /\ UNCHANGED <<file, torn, first, active, phase, base, written, committed, app, appends>>
    BY ZenonT(30), <1>2 DEF FlushSync, memVars, histVars, Struct, TypeOK
  <2>2. flush.seg \in Index
    BY ZenonT(30) DEF Struct, TypeOK
  <2>3. \A i \in Index : synced'[i] <= Len(file[i])
    <3>1. CASE synced' = synced
      BY ZenonT(30), <3>1 DEF Struct, Lengths
    <3>2. CASE synced' = [synced EXCEPT ![flush.seg] = Len(file[flush.seg])]
      BY ZenonT(30), <2>2, <3>2, FsyncFacts
    <3>3. QED
      BY ZenonT(30), <2>1, <3>1, <3>2
  <2>4. Lengths'
    BY ZenonT(30), <2>1, <2>3 DEF Struct, Lengths
  <2>5. Layout'
    BY ZenonT(30), <2>1 DEF Struct, Layout
  <2>6. Mutex'
    BY ZenonT(30), <2>1 DEF Struct, Mutex, Holder
  <2>7. QED
    BY ZenonT(30), <2>4, <2>5, <2>6 DEF Struct
<1>3. CASE FlushPublish
  <2>1. /\ phase = "up" /\ flush.pc = "publish" /\ flush' = NoFlush
        /\ committed' = PublishOffset
        /\ UNCHANGED <<file, synced, torn, first, active, phase, base, written, app, appends>>
    BY ZenonT(30), <1>3 DEF FlushPublish, diskVars, histVars
  <2>2. base[active] <= committed' /\ committed' <= written
    BY SMTT(30), <1>0, <2>1 DEF PublishOffset, Struct, Layout
  <2>3. flush'.pc = "idle"
    BY ZenonT(30), <2>1 DEF NoFlush
  <2>4. Layout'
    BY ZenonT(30), <2>1, <2>2, <2>3 DEF Struct, Layout
  <2>5. QED
    BY ZenonT(30), <2>1, <2>3, <2>4 DEF Struct, Lengths, Mutex, Holder
<1>4. QED
  BY ZenonT(30), <1>1, <1>2, <1>3

LEMMA StructDrop ==
  ASSUME Struct, NEW keepIndex \in Index, DropSegmentsBefore(keepIndex), TypeOK'
  PROVE  Struct'
<1>1. /\ phase = "up" /\ first < first'
      /\ UNCHANGED <<file, synced, torn, active, phase, base, written, committed, app, flush, appends>>
  BY ZenonT(30) DEF DropSegmentsBefore, memVars, procVars
<1>2. first \in Nat /\ first' \in Nat /\ active \in Nat
  <2>1. Index \subseteq Nat
    BY ZenonT(30), IndexFacts DEF Struct
  <2>2. QED
    BY ZenonT(30), <2>1 DEF Struct, TypeOK
<1>3. \A i \in first'..(active - 1) : i \in first..(active - 1)
  BY <1>1, <1>2
<1>4. Layout'
  BY ZenonT(30), <1>1, <1>3 DEF Struct, Layout
<1>5. QED
  BY ZenonT(30), <1>1, <1>4 DEF Struct, Lengths, Mutex, Holder

\* The process is gone: no lock is held and no flush is under way.
LEMMA StructStopped ==
  ASSUME Struct, Stopped, TypeOK', Lengths'
  PROVE  Struct'
<1>1. Mutex'
  BY ZenonT(30) DEF Stopped, Mutex, Holder, Idle, NoFlush
<1>2. Layout'
  BY ZenonT(30) DEF Stopped, Layout
<1>3. QED
  BY ZenonT(30), <1>1, <1>2 DEF Struct

LEMMA StructStops ==
  ASSUME Struct, TypeOK',
         CloseStart \/ FinalFlushEmpty \/ CloseFinish \/ Kill \/ Exit \/ PowerLoss \/ OpenFails
  PROVE  Struct'
<1>1. CASE CloseStart \/ FinalFlushEmpty \/ CloseFinish
  <2>1. UNCHANGED <<file, synced, torn, first, active, phase, base, written, committed, app, flush, appends>>
    BY ZenonT(30), <1>1 DEF CloseStart, FinalFlushEmpty, CloseFinish, diskVars, memVars, histVars
  <2>2. QED
    BY ZenonT(30), <2>1 DEF Struct, Lengths, Mutex, Layout, Holder
<1>2. CASE Kill \/ Exit
  <2>1. Stopped /\ UNCHANGED <<file, synced, active, appends>>
    BY ZenonT(30), <1>2 DEF Kill, Exit, MaybeTorn, Stopped
  <2>2. \A i \in Index : i > active => torn'[i] = torn[i]
    <3>1. \A i \in Index : i # active => torn'[i] = torn[i]
      BY ZenonT(30), <1>2 DEF Kill, Exit, MaybeTorn, Struct, TypeOK
    <3>2. \A i \in Index : i > active => i # active
      BY IndexFacts DEF Struct
    <3>3. QED
      BY ZenonT(30), <3>1, <3>2
  <2>3. Lengths'
    BY ZenonT(30), <2>1, <2>2 DEF Struct, Lengths
  <2>4. QED
    BY ZenonT(30), <2>1, <2>3, StructStopped
<1>3. CASE PowerLoss
  <2>1. Stopped /\ appends' = appends
    BY ZenonT(30), <1>3, PowerLossFacts DEF Stopped, Struct
  <2>2. appends \in Nat /\ \A i \in Index : Len(file[i]) \in Nat
    BY ZenonT(30), FileFacts DEF Struct, TypeOK
  <2>3. ASSUME NEW i \in Index
        PROVE  /\ synced'[i] <= Len(file'[i])
               /\ Len(file'[i]) <= appends
               /\ i > active' => Len(file'[i]) = 0 /\ torn'[i] = {}
    <3>1. /\ file'[i] \in Seq(Record) /\ synced'[i] = Len(file'[i])
          /\ Len(file'[i]) <= Len(file[i])
          /\ i > active' => Len(file'[i]) = 0 /\ torn'[i] = {}
      BY ZenonT(30), <1>3, PowerLossFacts DEF Struct
    <3>2. Len(file'[i]) \in Nat
      BY ZenonT(30), <3>1, SeqLen
    <3>3. Len(file[i]) <= appends
      BY ZenonT(30) DEF Struct, Lengths
    <3>4. QED
      BY SMTT(30), <2>2, <3>1, <3>2, <3>3
  <2>4. Lengths'
    BY SMTT(30), <2>1, <2>3 DEF Struct, Lengths
  <2>5. QED
    BY ZenonT(30), <2>1, <2>4, StructStopped
<1>4. CASE OpenFails
  <2>1. /\ phase = "down" /\ phase' = "failed"
        /\ UNCHANGED <<file, synced, torn, first, active, app, flush, appends>>
    BY ZenonT(30), <1>4 DEF OpenFails, diskVars, procVars, histVars
  <2>2. QED
    BY ZenonT(30), <2>1 DEF Struct, Lengths, Mutex, Layout, Holder
<1>5. QED
  BY ZenonT(30), <1>1, <1>2, <1>3, <1>4

LEMMA StructOpen ==
  ASSUME Struct, Open, TypeOK'
  PROVE  Struct'
<1>1. /\ phase = "down" /\ phase' = "up"
      /\ UNCHANGED <<first, active, app, flush, appends>>
      /\ \A i \in first..(active - 1) : torn[i] = {}
  BY ZenonT(30) DEF Open, procVars, histVars, SealedSegments
<1>2. active \in Index /\ active \in Nat /\ first \in Nat /\ first <= active /\ appends \in Nat
        /\ MaxAppends \in Nat
  BY ZenonT(30), IndexFacts DEF Struct, TypeOK
<1>3. \A i \in Index : Len(file[i]) \in Nat /\ i \in Nat /\ GoodLen(i) \in Nat
        /\ GoodLen(i) <= Len(file[i]) /\ synced[i] \in Nat
  BY ZenonT(30), FileFacts, IndexFacts, GoodLenProperties DEF Struct, TypeOK
<1>4. \A i \in Index : Len(file[i]) <= MaxAppends
  BY SMTT(30), <1>2, <1>3 DEF Struct, Lengths
<1>5. Lengths'
  <2>1. ASSUME NEW i \in Index
        PROVE  /\ synced'[i] <= Len(file'[i])
               /\ Len(file'[i]) <= appends
               /\ i > active => Len(file'[i]) = 0 /\ torn'[i] = {}
    <3>1. synced[i] <= Len(file[i]) /\ Len(file[i]) <= appends /\ (i > active => Len(file[i]) = 0 /\ torn[i] = {})
      BY ZenonT(30) DEF Struct, Lengths
    <3>2. CASE i = active
      <4>1. Len(file'[active]) = GoodLen(active) /\ synced'[active] <= GoodLen(active)
        BY ZenonT(30), OpenFacts DEF Struct
      <4>2. QED
        BY SMTT(30), <1>2, <1>3, <3>1, <3>2, <4>1
    <3>3. CASE i # active
      <4>1. file'[i] = file[i] /\ synced'[i] = synced[i] /\ torn'[i] = torn[i]
        BY ZenonT(30), <3>3, OpenFacts DEF Struct
      <4>2. QED
        BY ZenonT(30), <3>1, <4>1
    <3>4. QED
      BY ZenonT(30), <3>2, <3>3
  <2>2. QED
    BY ZenonT(30), <1>1, <2>1 DEF Struct, Lengths
<1>6. Mutex'
  BY ZenonT(30), <1>1 DEF Struct, Mutex, Holder
<1>7. \A i \in first..active : base'[i] = ScannedBefore(i) /\ ScannedBefore(i) \in Nat
  BY SMTT(30), IndexFacts, ScannedFinite DEF Open, Struct
<1>8. committed' = ScannedBefore(active) + GoodLen(active) /\ written' = committed'
  BY SMTT(30) DEF Open
<1>9. ASSUME NEW i \in first..(active - 1)
      PROVE  base'[i + 1] = base'[i] + Len(file'[i]) /\ base'[i] + Len(file'[i]) <= base'[active]
  <2>1. i \in Index /\ i \in first..active /\ i + 1 \in first..active /\ i # active /\ i \in Int
          /\ active \in first..active /\ i + 1 <= active
    BY SMTT(30), <1>2, IndexFacts DEF Struct
  <2>2. file'[i] = file[i]
    BY ZenonT(30), <2>1, OpenFacts DEF Struct
  <2>3. GoodLen(i) = Len(file[i])
    BY ZenonT(30), <1>1, <2>1, GoodLenProperties DEF Struct
  <2>4. ScannedBefore(i + 1) = ScannedBefore(i) + GoodLen(i)
    BY ZenonT(30), <1>4, ScannedNext DEF Struct
  <2>5. ScannedBefore(i + 1) <= ScannedBefore(active)
    BY SMTT(30), <1>2, <2>1, ScannedMonotonic DEF Struct
  <2>6. QED
    BY SMTT(30), <1>7, <2>1, <2>2, <2>3, <2>4, <2>5
<1>10. Layout'
  <2>1. active \in first..active /\ Len(file'[active]) = GoodLen(active)
    BY SMTT(30), <1>2, OpenFacts DEF Struct
  <2>2. flush.pc = "idle" /\ \A w \in Writers : app[w].pc = "idle"
    BY ZenonT(30), <1>1 DEF Struct, Mutex
  <2>3. written' = base'[active] + Len(file'[active]) /\ base'[active] <= committed' /\ committed' <= written'
    BY SMTT(30), <1>2, <1>3, <1>7, <1>8, <2>1
  <2>4. QED
    BY ZenonT(30), <1>1, <1>9, <2>2, <2>3 DEF Layout
<1>11. QED
  BY ZenonT(30), <1>5, <1>6, <1>10 DEF Struct

LEMMA StructStutter == Struct /\ UNCHANGED vars => Struct'
<1> SUFFICES ASSUME Struct, UNCHANGED vars PROVE Struct'
  BY ZenonT(30)
<1>1. UNCHANGED <<file, synced, torn, first, active, phase, base, written, committed, app, flush, appends>>
  BY ZenonT(30) DEF vars, state, diskVars, memVars, procVars, histVars
<1>2. TypeOK'
  BY ZenonT(30), StutterType DEF Struct
<1>3. QED
  BY ZenonT(30), <1>1, <1>2 DEF Struct, Lengths, Mutex, Layout, Holder

LEMMA StructStep == Struct /\ [Next]_vars => Struct'
<1> SUFFICES ASSUME Struct, [Next]_vars PROVE Struct'
  BY ZenonT(30)
<1>1. TypeOK'
  BY ZenonT(30), TypeStep DEF Struct
<1>2. QED
  BY SMTT(30), <1>1, StructAppendStart, StructRotateFails, StructAppendWrite, StructAppendWriteFails,
     StructAppendSync, StructAppendReturn, StructFlush, StructDrop, StructStops, StructOpen,
     StructStutter DEF Next

\* The numbers that arithmetic about the log needs.
LEMMA StructNumbers ==
  ASSUME Struct
  PROVE  /\ active \in Index /\ active \in Nat /\ first \in Nat /\ first <= active /\ active \in first..active
         /\ \A i \in first..active : i \in Index /\ i \in Nat
         /\ \A i \in Index : Len(file[i]) \in Nat /\ synced[i] \in Nat /\ base[i] \in Nat
                              /\ synced[i] <= Len(file[i])
         /\ committed \in Nat /\ written \in Nat
         /\ \A w \in Writers : app[w].end \in Nat
         /\ flush.snap \in Nat
<1>1. active \in Index /\ active \in Nat /\ first \in Nat /\ first <= active
  BY ZenonT(30), IndexFacts DEF Struct, TypeOK
<1>2. \A i \in first..active : i \in Index /\ i \in Nat
  BY ZenonT(30), <1>1, IndexFacts DEF Struct
<1>3. \A i \in Index : Len(file[i]) \in Nat /\ synced[i] \in Nat /\ base[i] \in Nat
                              /\ synced[i] <= Len(file[i])
  BY ZenonT(30), FileFacts DEF Struct, TypeOK, Lengths
<1>4. committed \in Nat /\ written \in Nat /\ flush.snap \in Nat /\ \A w \in Writers : app[w].end \in Nat
  BY ZenonT(30) DEF Struct, TypeOK
<1>5. active \in first..active
  BY <1>1
<1>6. QED
  BY ZenonT(30), <1>1, <1>2, <1>3, <1>4, <1>5

LEMMA SetupFixed == [Next]_vars => setup' = setup
BY ZenonT(30) DEF Next, vars

----------------------------------------------------------------------------
(* What a crash leaves of the files, and what is about to be published. *)

\* Garbage is only ever at the end of a file, and recovery removes it.
Garbage ==
    /\ \A i \in Index : \A t \in torn[i] : t = Len(file[i])
    /\ phase = "up" => \A i \in first..active : torn[i] = {}

\* What the committer is about to publish has been fsynced.
Covered ==
    phase = "up" /\ flush.pc = "publish" /\ ~flush.err /\ flush.snap > committed =>
        flush.snap - base[active] <= synced[active]

----------------------------------------------------------------------------
(* Nothing is readable that is not durable, when only machine failures end the process. *)

Guarded == SyncMode # "none" /\ Stops \subseteq {"power"}

\* committed does not pass the fsynced part of the active segment, and every other
\* retained segment is fsynced to its end; after a machine failure all of them are.
Flushed ==
    /\ SealedDurable
    /\ phase = "up" => committed <= base[active] + synced[active]
    /\ phase # "up" => \A i \in first..active : synced[i] = Len(file[i])

Tight == Guarded => stopping = "no" /\ Covered /\ Flushed

LEMMA TightInit == Init => Tight
<1> SUFFICES ASSUME Init PROVE Tight
  BY ZenonT(30)
<1>1. stopping = "no" /\ phase = "up" /\ flush.pc = "idle" /\ first = 0 /\ active = 0 /\ committed = 0
  BY ZenonT(30) DEF Init, NoFlush
<1>2. base[active] = 0 /\ synced[active] = 0
  BY WalAssumption DEF Init, Index
<1>3. \A i \in first..(active - 1) : FALSE
  BY <1>1
<1>4. committed <= base[active] + synced[active]
  BY <1>1, <1>2
<1>5. Flushed /\ Covered
  BY ZenonT(30), <1>1, <1>3, <1>4 DEF Flushed, SealedDurable, Covered
<1>6. QED
  BY ZenonT(30), <1>1, <1>5 DEF Tight

\* A step that leaves alone what Flushed and Covered speak of.
LEMMA FlushedSame ==
  ASSUME Flushed, UNCHANGED <<file, synced, first, active, phase, base, committed>>
  PROVE  Flushed'
BY ZenonT(30) DEF Flushed, SealedDurable

LEMMA CoveredSame ==
  ASSUME Covered, UNCHANGED <<synced, active, phase, base, committed, flush>>
  PROVE  Covered'
BY ZenonT(30) DEF Covered

\* The committer has nothing to publish once committed has reached written.
LEMMA CoveredAll ==
  ASSUME Struct, phase = "up", flush' = flush, committed' = written
  PROVE  Covered'
<1>1. flush.pc # "idle" => flush.snap <= written
  BY ZenonT(30) DEF Struct, Layout
<1>2. ~(flush.pc = "publish" /\ flush.snap > written)
  BY <1>1, StructNumbers
<1>3. QED
  BY ZenonT(30), <1>2 DEF Covered

\* Sealing leaves the active segment fsynced to its end.
LEMMA SealDurable ==
  ASSUME Struct, Flushed, phase = "up", SealSync
  PROVE  synced'[active] = Len(file[active])
<1>1. CASE written > committed
  BY ZenonT(30), <1>1, SealFacts
<1>2. CASE ~(written > committed)
  <2>1. synced' = synced
    BY ZenonT(30), <1>2, SealFacts
  <2>2. committed <= base[active] + synced[active] /\ written = base[active] + Len(file[active])
    BY ZenonT(30) DEF Flushed, Struct, Layout
  <2>3. /\ committed \in Nat /\ written \in Nat /\ base[active] \in Nat /\ synced[active] \in Nat
        /\ Len(file[active]) \in Nat /\ synced[active] <= Len(file[active])
    BY ZenonT(30), StructNumbers
  <2>4. QED
    BY ONLY SMTT(30), <1>2, <2>1, <2>2, <2>3
<1>3. QED
  BY ZenonT(30), <1>1, <1>2

LEMMA TightAppendStart ==
  ASSUME Struct, Struct', Tight, Guarded, NEW w \in Writers, AppendStart(w)
  PROVE  stopping' = "no" /\ Covered' /\ Flushed'
<1>1. /\ phase = "up" /\ stopping = "no" /\ Covered /\ Flushed
      /\ UNCHANGED <<file, first, phase, flush, stopping, written>>
  BY ZenonT(30) DEF AppendStart, Tight
<1>2. CASE UNCHANGED <<synced, committed, active, base, baseMsgID>>
  BY ZenonT(30), <1>1, <1>2, FlushedSame, CoveredSame
<1>3. CASE Rotate
  <2>1. /\ active < MaxSegments /\ SealSync /\ active' = active + 1
        /\ base' = [base EXCEPT ![active + 1] = written]
    BY ZenonT(30), <1>3 DEF Rotate
  <2>2. committed' = written /\ \A i \in Index : i # active => synced'[i] = synced[i]
    BY ZenonT(30), <1>1, <2>1, SealFacts
  <2>3. synced'[active] = Len(file[active])
    BY ZenonT(30), <1>1, <2>1, SealDurable
  <2>4. \A i \in first..(active' - 1) : i \in Index /\ (i = active \/ (i \in first..(active - 1) /\ i # active))
    <3>1. \A i \in first..((active + 1) - 1) : i \in first..active /\ (i = active \/ (i \in first..(active - 1) /\ i # active))
      BY StructNumbers
    <3>2. QED
      BY ZenonT(30), <2>1, <3>1, StructNumbers
  <2>5. \A i \in first..(active' - 1) : synced'[i] = Len(file[i])
    BY ZenonT(30), <1>1, <2>2, <2>3, <2>4 DEF Flushed, SealedDurable
  <2>6. active + 1 \in Index
    BY ZenonT(30), <2>1 DEF Struct, TypeOK
  <2>7. base'[active'] = written
    BY ZenonT(30), <2>1, <2>6 DEF Struct, TypeOK
  <2>8. synced'[active'] \in Nat /\ written \in Nat
    BY ZenonT(30), StructNumbers DEF Struct, TypeOK
  <2>9. committed' <= base'[active'] + synced'[active']
    BY <2>2, <2>7, <2>8
  <2>10. Flushed'
    BY ZenonT(30), <1>1, <2>5, <2>9 DEF Flushed, SealedDurable
  <2>11. QED
    BY ZenonT(30), <1>1, <2>2, <2>10, CoveredAll
<1>4. QED
  BY ZenonT(30), <1>2, <1>3 DEF AppendStart

LEMMA TightRotateFails ==
  ASSUME Struct, Tight, Guarded, NEW w \in Writers, RotateFails(w)
  PROVE  stopping' = "no" /\ Covered' /\ Flushed'
<1>1. /\ phase = "up" /\ stopping = "no" /\ Flushed /\ SealSync
      /\ UNCHANGED <<file, first, active, phase, base, flush, stopping, written>>
  BY ZenonT(30) DEF RotateFails, procVars, Tight
<1>2. committed' = written /\ \A i \in Index : i # active => synced'[i] = synced[i]
  BY ZenonT(30), <1>1, SealFacts
<1>3. synced'[active] = Len(file[active])
  BY ZenonT(30), <1>1, SealDurable
<1>4. written <= base[active] + Len(file[active])
  <2>1. written = base[active] + Len(file[active])
    BY ZenonT(30), <1>1 DEF Struct, Layout
  <2>2. QED
    BY <2>1, StructNumbers
<1>5. \A i \in first..(active - 1) : i \in Index /\ i # active
  BY StructNumbers, IndexFacts DEF Struct
<1>6. SealedDurable'
  BY ZenonT(30), <1>1, <1>2, <1>5 DEF Flushed, SealedDurable
<1>7. committed' <= base'[active'] + synced'[active']
  BY ZenonT(30), <1>1, <1>2, <1>3, <1>4
<1>8. QED
  BY ZenonT(30), <1>1, <1>2, <1>6, <1>7, CoveredAll DEF Flushed

LEMMA TightAppendWrite ==
  ASSUME Struct, Tight, Guarded, NEW w \in Writers, AppendWrite(w)
  PROVE  stopping' = "no" /\ Covered' /\ Flushed'
<1>1. /\ phase = "up" /\ stopping = "no" /\ Covered /\ Flushed
      /\ UNCHANGED <<synced, first, active, phase, base, flush, stopping>>
  BY ZenonT(30) DEF AppendWrite, Tight
<1>2. committed' = committed
  BY ZenonT(30) DEF AppendWrite, Guarded
<1>3. \A i \in first..(active - 1) : i \in Index /\ i # active
  BY StructNumbers, IndexFacts DEF Struct
<1>4. \A i \in first..(active - 1) : file'[i] = file[i]
  BY ZenonT(30), <1>3, AppendWriteFacts
<1>5. Flushed'
  BY ZenonT(30), <1>1, <1>2, <1>4 DEF Flushed, SealedDurable
<1>6. QED
  BY ZenonT(30), <1>1, <1>2, <1>5, CoveredSame

LEMMA TightAppendSync ==
  ASSUME Struct, Tight, Guarded, NEW w \in Writers, AppendSync(w)
  PROVE  stopping' = "no" /\ Covered' /\ Flushed'
<1>1. /\ phase = "up" /\ stopping = "no" /\ Covered /\ Flushed /\ app[w].pc = "sync"
      /\ UNCHANGED <<file, first, active, phase, base, flush, stopping>>
  BY ZenonT(30) DEF AppendSync, Tight
<1>2. CASE UNCHANGED <<synced, committed>>
  BY ZenonT(30), <1>1, <1>2, CoveredSame, FlushedSame
<1>3. CASE synced' = [synced EXCEPT ![active] = Len(file[active])] /\ committed' = app[w].end
  <2>1. committed' = written /\ written = base[active] + Len(file[active])
    BY ZenonT(30), <1>1, <1>3 DEF Struct, Layout
  <2>2. synced'[active] = Len(file[active]) /\ \A i \in Index : i # active => synced'[i] = synced[i]
    BY ZenonT(30), <1>3, FsyncFacts, StructNumbers
  <2>3. \A i \in first..(active - 1) : i \in Index /\ i # active
    BY StructNumbers, IndexFacts DEF Struct
  <2>4. SealedDurable'
    BY ZenonT(30), <1>1, <2>2, <2>3 DEF Flushed, SealedDurable
  <2>5. written <= base[active] + Len(file[active])
    BY <2>1, StructNumbers
  <2>6. committed' <= base'[active'] + synced'[active']
    BY ZenonT(30), <1>1, <2>1, <2>2, <2>5
  <2>7. QED
    BY ZenonT(30), <1>1, <2>1, <2>4, <2>6, CoveredAll DEF Flushed
<1>4. QED
  BY ZenonT(30), <1>2, <1>3 DEF AppendSync

LEMMA TightFlushSync ==
  ASSUME Struct, Tight, Guarded, FlushSync
  PROVE  stopping' = "no" /\ Covered' /\ Flushed'
<1>1. /\ phase = "up" /\ stopping = "no" /\ Flushed /\ flush.pc = "sync"
      /\ UNCHANGED <<file, first, active, phase, base, committed, stopping>>
  BY ZenonT(30) DEF FlushSync, memVars, Tight
<1>2. CASE UNCHANGED synced /\ flush' = [flush EXCEPT !.pc = "publish", !.err = TRUE]
  <2>1. flush'.err
    BY ZenonT(30), <1>2 DEF Struct, TypeOK
  <2>2. QED
    BY ZenonT(30), <1>1, <1>2, <2>1, FlushedSame DEF Covered
<1>3. CASE synced' = [synced EXCEPT ![flush.seg] = Len(file[flush.seg])] /\ flush' = [flush EXCEPT !.pc = "publish"]
  <2>1. flush.seg \in Index /\ flush'.snap = flush.snap
    BY ZenonT(30), <1>3 DEF Struct, TypeOK
  <2>2. /\ synced'[flush.seg] = Len(file[flush.seg])
        /\ \A i \in Index : i # flush.seg => synced'[i] = synced[i]
        /\ \A i \in Index : synced[i] <= synced'[i]
    BY ZenonT(30), <1>3, <2>1, FsyncFacts
  <2>3. \A i \in first..(active - 1) : i \in Index
    BY ZenonT(30), IndexFacts DEF Struct
  <2>4. SealedDurable'
    BY ZenonT(30), <1>1, <2>2, <2>3 DEF Flushed, SealedDurable
  <2>5. committed <= base[active] + synced'[active]
    <3>1. synced'[active] \in Nat
      BY ZenonT(30), <2>2, StructNumbers
    <3>2. committed <= base[active] + synced[active] /\ synced[active] <= synced'[active]
      BY ZenonT(30), <1>1, <2>2, StructNumbers DEF Flushed
    <3>3. QED
      BY SMTT(30), <3>1, <3>2, StructNumbers
  <2>6. Covered'
    <3> SUFFICES ASSUME flush.snap > committed PROVE flush.snap - base[active] <= synced'[active]
      BY ZenonT(30), <1>1, <2>1 DEF Covered
    <3>1. flush.seg = active /\ flush.snap <= written /\ written = base[active] + Len(file[active])
      BY ZenonT(30), <1>1 DEF Struct, Layout
    <3>2. synced'[active] = Len(file[active])
      BY ZenonT(30), <2>2, <3>1
    <3>3. QED
      BY SMTT(30), <3>1, <3>2, StructNumbers
  <2>7. QED
    BY ZenonT(30), <1>1, <2>4, <2>5, <2>6 DEF Flushed
<1>4. QED
  BY ZenonT(30), <1>2, <1>3 DEF FlushSync

LEMMA TightFlushPublish ==
  ASSUME Struct, Tight, Guarded, FlushPublish
  PROVE  stopping' = "no" /\ Covered' /\ Flushed'
<1>1. /\ phase = "up" /\ stopping = "no" /\ Covered /\ Flushed /\ flush.pc = "publish"
      /\ UNCHANGED <<file, synced, first, active, phase, base>>
      /\ committed' = PublishOffset /\ flush' = NoFlush
  BY ZenonT(30) DEF FlushPublish, diskVars, Tight
<1>2. stopping' = "no"
  BY ZenonT(30), <1>1 DEF FlushPublish
<1>3. Covered'
  BY ZenonT(30), <1>1 DEF Covered, NoFlush
<1>4. committed <= base[active] + synced[active]
  BY ZenonT(30), <1>1 DEF Flushed
<1>5. committed' <= base[active] + synced[active]
  <2>1. CASE ~flush.err /\ flush.snap > committed
    <3>1. committed' = flush.snap /\ flush.snap - base[active] <= synced[active]
      BY ZenonT(30), <1>1, <2>1 DEF PublishOffset, Covered
    <3>2. QED
      BY <3>1, StructNumbers
  <2>2. CASE ~(~flush.err /\ flush.snap > committed)
    <3>1. committed' = committed
      BY ZenonT(30), <1>1, <2>2 DEF PublishOffset
    <3>2. QED
      BY ZenonT(30), <1>4, <3>1
  <2>3. QED
    BY ZenonT(30), <2>1, <2>2
<1>6. QED
  BY ZenonT(30), <1>1, <1>2, <1>3, <1>5 DEF Flushed, SealedDurable

LEMMA TightDrop ==
  ASSUME Struct, Struct', Tight, Guarded, NEW keepIndex \in Index, DropSegmentsBefore(keepIndex)
  PROVE  stopping' = "no" /\ Covered' /\ Flushed'
<1>1. /\ phase = "up" /\ stopping = "no" /\ Covered /\ Flushed /\ first < first'
      /\ UNCHANGED <<file, synced, active, phase, base, committed, flush, stopping>>
  BY ZenonT(30) DEF DropSegmentsBefore, memVars, procVars, Tight
<1>2. \A i \in first'..(active - 1) : i \in first..(active - 1)
  <2>1. first' \in Nat
    BY ZenonT(30), IndexFacts DEF Struct, TypeOK
  <2>2. QED
    BY <1>1, <2>1, StructNumbers
<1>3. QED
  BY ZenonT(30), <1>1, <1>2, CoveredSame DEF Flushed, SealedDurable

LEMMA TightPowerLoss ==
  ASSUME Struct, PowerLoss
  PROVE  stopping' = "no" /\ Covered' /\ Flushed'
<1>1. phase' = "down" /\ stopping' = "no"
  BY ZenonT(30), PowerLossFacts DEF Struct, Stopped
<1>2. \A i \in Index : synced'[i] = Len(file'[i])
  BY ZenonT(30), PowerLossFacts DEF Struct
<1>3. \A i \in first'..active' : i \in Index
  <2>1. first' = first /\ active' \in first..active
    BY ZenonT(30), PowerLossFacts DEF Struct, Stopped
  <2>2. QED
    BY SMTT(30), <2>1, StructNumbers
<1>4. QED
  BY ZenonT(30), <1>1, <1>2, <1>3 DEF Covered, Flushed, SealedDurable

\* Recovery cuts an fsynced file to its decodable prefix and takes that as committed.
LEMMA TightOpen ==
  ASSUME Struct, Tight, Guarded, Open
  PROVE  stopping' = "no" /\ Covered' /\ Flushed'
<1>1. /\ phase = "down" /\ phase' = "up" /\ stopping = "no" /\ Flushed
      /\ UNCHANGED <<first, active, flush, stopping>>
      /\ committed' = ScannedBefore(active) + GoodLen(active)
      /\ base' = [i \in Index |-> IF i \in first..active THEN ScannedBefore(i) ELSE 0]
      /\ synced' = [synced EXCEPT ![active] = MinOf({@, TruncateAt(active)})]
  BY ZenonT(30) DEF Open, procVars, Tight
<1>2. Covered'
  BY ZenonT(30), <1>1 DEF Covered, Struct, Mutex
<1>3. \A i \in first..(active - 1) : i \in Index /\ i # active /\ i \in first..active
  BY SMTT(30), StructNumbers, IndexFacts DEF Struct
<1>4. \A i \in first..(active - 1) : synced'[i] = Len(file'[i])
  <2>1. \A i \in first..(active - 1) : synced'[i] = synced[i] /\ file'[i] = file[i]
    BY ZenonT(30), <1>3, OpenFacts DEF Struct
  <2>2. \A i \in first..(active - 1) : synced[i] = Len(file[i])
    BY ZenonT(30), <1>1, <1>3 DEF Flushed
  <2>3. QED
    BY ZenonT(30), <2>1, <2>2
<1>5. base'[active] = ScannedBefore(active)
  BY ZenonT(30), <1>1, StructNumbers
<1>6. synced'[active] = GoodLen(active)
  <2>1. GoodLen(active) \in Nat /\ GoodLen(active) <= Len(file[active]) /\ synced[active] = Len(file[active])
          /\ synced[active] \in Nat
    BY ZenonT(30), <1>1, StructNumbers, GoodLenProperties DEF Struct, Flushed
  <2>2. synced'[active] = MinOf({synced[active], GoodLen(active)})
    BY ZenonT(30), <1>1, StructNumbers DEF TruncateAt, Struct, TypeOK
  <2>3. {synced[active], GoodLen(active)} \in SUBSET Nat
    BY ZenonT(30), <2>1
  <2>4. MinOf({synced[active], GoodLen(active)}) \in {synced[active], GoodLen(active)}
          /\ \A n \in {synced[active], GoodLen(active)} : MinOf({synced[active], GoodLen(active)}) <= n
    BY ZenonT(30), <2>3, MinOfProperties
  <2>5. QED
    BY SMTT(30), <2>1, <2>2, <2>4
<1>7. ScannedBefore(active) \in Nat /\ GoodLen(active) \in Nat
  <2>1. GoodLen(active) \in Nat
    BY ZenonT(30), StructNumbers, GoodLenProperties DEF Struct
  <2>2. ScannedBefore(active) \in Nat
    BY ZenonT(30), ScannedFinite DEF Struct
  <2>3. QED
    BY ZenonT(30), <2>1, <2>2
<1>8. committed' <= base'[active'] + synced'[active']
  <2>1. ScannedBefore(active) + GoodLen(active) <= ScannedBefore(active) + GoodLen(active)
    BY <1>7
  <2>2. QED
    BY ZenonT(30), <1>1, <1>5, <1>6, <2>1
<1>9. QED
  BY ZenonT(30), <1>1, <1>2, <1>4, <1>8 DEF Flushed, SealedDurable

LEMMA TightOthers ==
  ASSUME Tight, Guarded,
         \/ \E w \in Writers : AppendWriteFails(w) \/ AppendReturn(w)
         \/ FlushSnapshot \/ CloseStart \/ FinalFlushEmpty \/ CloseFinish \/ Kill \/ Exit \/ OpenFails
         \/ UNCHANGED vars
  PROVE  stopping' = "no" /\ Covered' /\ Flushed'
<1>1. stopping = "no" /\ Covered /\ Flushed /\ "close" \notin Stops /\ "kill" \notin Stops
  BY ZenonT(30) DEF Tight, Guarded
<1>2. CASE \/ \E w \in Writers : AppendWriteFails(w) \/ AppendReturn(w)
           \/ UNCHANGED vars
  <2>1. UNCHANGED <<file, synced, first, active, phase, base, committed, flush, stopping>>
    BY ZenonT(30), <1>2 DEF AppendWriteFails, AppendReturn, vars, state, diskVars, memVars, procVars
  <2>2. QED
    BY ZenonT(30), <1>1, <2>1, CoveredSame, FlushedSame
<1>3. CASE FlushSnapshot
  <2>1. UNCHANGED <<file, synced, first, active, phase, base, committed>> /\ flush'.pc = "sync" /\ stopping' = "no"
    BY ZenonT(30), <1>1, <1>3 DEF FlushSnapshot, diskVars, memVars
  <2>2. QED
    BY ZenonT(30), <1>1, <2>1, FlushedSame DEF Covered
<1>4. CASE OpenFails
  <2>1. UNCHANGED <<file, synced, first, active, stopping>> /\ phase = "down" /\ phase' = "failed"
    BY ZenonT(30), <1>4 DEF OpenFails, diskVars, procVars
  <2>2. QED
    BY ZenonT(30), <1>1, <2>1 DEF Covered, Flushed, SealedDurable
<1>5. CASE CloseStart \/ FinalFlushEmpty \/ CloseFinish \/ Kill \/ Exit
  BY ZenonT(30), <1>1, <1>5 DEF CloseStart, FinalFlushEmpty, CloseFinish, Kill, Exit, MaybeTorn, Closed
<1>6. QED
  BY ZenonT(30), <1>2, <1>3, <1>4, <1>5

LEMMA TightStep == Struct /\ Struct' /\ Tight /\ [Next]_vars => Tight'
<1> SUFFICES ASSUME Struct, Struct', Tight, [Next]_vars PROVE Tight'
  BY ZenonT(30)
<1>1. Guarded' <=> Guarded
  BY ZenonT(30), SetupFixed DEF Guarded, SyncMode, Stops
<1>2. CASE Guarded
  <2>1. stopping' = "no" /\ Covered' /\ Flushed'
    BY ZenonT(30), <1>2, TightAppendStart, TightRotateFails, TightAppendWrite, TightAppendSync, TightFlushSync,
       TightFlushPublish, TightDrop, TightPowerLoss, TightOpen, TightOthers DEF Next
  <2>2. QED
    BY ZenonT(30), <2>1 DEF Tight
<1>3. QED
  BY ZenonT(30), <1>1, <1>2 DEF Tight

LEMMA ReadableCovered ==
  ASSUME Struct, Tight
  PROVE  CommittedDurable
<1> SUFFICES ASSUME Guarded, phase = "up", NEW i \in first..active
             PROVE  ReadableLen(i) <= synced[i]
  BY ZenonT(30) DEF CommittedDurable, Guarded
<1>1. committed <= base[active] + synced[active]
  BY ZenonT(30) DEF Tight, Flushed
<1>2. CASE i = active
  <2>1. ReadableLen(i) = committed - base[active]
    BY ZenonT(30), <1>2 DEF ReadableLen
  <2>2. QED
    BY SMTT(30), <1>1, <1>2, <2>1, StructNumbers
<1>3. CASE i # active
  <2>1. i \in first..(active - 1) /\ ~(i + 1 < first) /\ i \in Index /\ Len(file[i]) \in Nat
          /\ base[i] \in Nat
    BY SMTT(30), <1>3, StructNumbers
  <2>2. ReadableLen(i) = base[i + 1] - base[i]
    BY ZenonT(30), <1>3, <2>1 DEF ReadableLen, SegmentAfter
  <2>3. base[i + 1] = base[i] + Len(file[i]) /\ synced[i] = Len(file[i])
    BY ZenonT(30), <2>1 DEF Struct, Layout, Tight, Flushed, SealedDurable
  <2>4. QED
    BY ONLY SMTT(30), <2>1, <2>2, <2>3
<1>4. QED
  BY ZenonT(30), <1>2, <1>3

\* What a Reader is allowed to consume is fsynced, unless recovery after a SIGKILL or
\* a graceful stop takes what it decodes for committed.
THEOREM ReadableIsDurable == Spec => []CommittedDurable
<1>1. Struct /\ Tight => CommittedDurable
  BY ZenonT(30), ReadableCovered
<1>2. Struct /\ Tight /\ [Next]_vars => Struct' /\ Tight'
  BY ZenonT(30), StructStep, TightStep
<1>3. QED
  BY <1>1, <1>2, StructInit, TightInit, PTL DEF Spec

----------------------------------------------------------------------------
(* A directory without half-done writes is recovered whole. *)

\* Only the active segment's file can have garbage, at its end, and no Open has failed.
Clean ==
    /\ Garbage
    /\ \A i \in first..(active - 1) : torn[i] = {}
    /\ phase # "failed"

\* Every segment but the active one has records; MsgIDs are dense from baseMsgID on.
Dense ==
    /\ \A i \in first..(active - 1) : Len(file[i]) > 0 /\ baseMsgID[i + 1] = baseMsgID[i] + Len(file[i])
    /\ \A i \in first..active : \A k \in 1..Len(file[i]) : file[i][k].id = baseMsgID[i] + k - 1
    /\ phase = "up" => nextMsgID = baseMsgID[active] + Len(file[active])

Whole == Intact => Clean /\ Dense

LEMMA WholeInit == Init => Whole
<1> SUFFICES ASSUME Init PROVE Clean /\ Dense
  BY ZenonT(30) DEF Whole
<1>1. /\ first = 0 /\ active = 0 /\ phase = "up" /\ nextMsgID = 0 /\ active \in Index
      /\ \A i \in Index : torn[i] = {} /\ file[i] = << >> /\ baseMsgID[i] = 0
  BY WalAssumption DEF Init, Index
<1>2. /\ \A i \in first..(active - 1) : FALSE
      /\ \A i \in first..active : i \in Index
  BY <1>1
<1>3. Clean
  BY ZenonT(30), <1>1, <1>2 DEF Clean, Garbage
<1>4. Len(<< >>) = 0 /\ \A k \in 1..0 : FALSE
  BY SeqEmpty
<1>5. nextMsgID = baseMsgID[active] + Len(file[active])
  BY <1>1, <1>4
<1>6. Dense
  BY ZenonT(30), <1>1, <1>2, <1>4, <1>5 DEF Dense
<1>7. QED
  BY ZenonT(30), <1>3, <1>6

LEMMA CleanSame ==
  ASSUME Clean, UNCHANGED <<file, torn, first, active, phase>>
  PROVE  Clean'
BY ZenonT(30) DEF Clean, Garbage

LEMMA DenseSame ==
  ASSUME Dense, UNCHANGED <<file, first, active, baseMsgID>>, phase' = "up" => phase = "up" /\ nextMsgID' = nextMsgID
  PROVE  Dense'
BY ZenonT(30) DEF Dense

LEMMA CleanAppendStart ==
  ASSUME Struct, Clean, NEW w \in Writers, AppendStart(w)
  PROVE  Clean'
<1>1. phase = "up" /\ UNCHANGED <<file, torn, first, phase>>
  BY ZenonT(30) DEF AppendStart
<1>2. CASE active' = active
  BY ZenonT(30), <1>1, <1>2, CleanSame
<1>3. CASE active' = active + 1 /\ active < MaxSegments
  <2>1. active + 1 \in Index /\ torn[active + 1] = {}
    BY <1>3, StructNumbers, WalAssumption DEF Struct, Lengths, Index
  <2>2. \A i \in first..active' : i \in first..active \/ i = active + 1
    BY <1>3, StructNumbers
  <2>3. \A i \in first..(active' - 1) : i \in first..active
    BY <1>3, StructNumbers
  <2>4. QED
    BY ZenonT(30), <1>1, <2>1, <2>2, <2>3 DEF Clean, Garbage
<1>4. QED
  BY ZenonT(30), <1>2, <1>3 DEF AppendStart, Rotate

LEMMA CleanAppendWrite ==
  ASSUME Struct, Clean, NEW w \in Writers, AppendWrite(w)
  PROVE  Clean'
<1>1. phase = "up" /\ UNCHANGED <<torn, first, active, phase>>
  BY ZenonT(30) DEF AppendWrite
<1>2. torn[active] = {}
  BY ZenonT(30), <1>1, StructNumbers DEF Clean, Garbage
<1>3. \A i \in Index : i # active => file'[i] = file[i]
  BY ZenonT(30), AppendWriteFacts
<1>4. QED
  BY ZenonT(30), <1>1, <1>2, <1>3 DEF Clean, Garbage

LEMMA CleanDrop ==
  ASSUME Struct, Struct', Clean, NEW keepIndex \in Index, DropSegmentsBefore(keepIndex)
  PROVE  Clean'
<1>1. first < first' /\ UNCHANGED <<file, torn, active, phase>>
  BY ZenonT(30) DEF DropSegmentsBefore, memVars
<1>2. first' \in Nat
  BY ZenonT(30), IndexFacts DEF Struct, TypeOK
<1>3. /\ \A i \in first'..active : i \in first..active
      /\ \A i \in first'..(active - 1) : i \in first..(active - 1)
  BY <1>1, <1>2, StructNumbers
<1>4. QED
  BY ZenonT(30), <1>1, <1>3 DEF Clean, Garbage

LEMMA CleanEnds ==
  ASSUME Struct, Clean, Kill \/ Exit
  PROVE  Clean'
<1>1. phase' = "down" /\ UNCHANGED <<file, first, active>>
  BY ZenonT(30) DEF Kill, Exit, MaybeTorn, Stopped
<1>2. torn' = torn \/ torn' = [torn EXCEPT ![active] = @ \cup {Len(file[active])}]
  BY ZenonT(30) DEF Kill, Exit, MaybeTorn
<1>3. \A i \in Index : torn'[i] = torn[i] \/ (i = active /\ torn'[i] = torn[i] \cup {Len(file[i])})
  BY ZenonT(30), <1>2, StructNumbers DEF Struct, TypeOK
<1>4. \A i \in first..(active - 1) : i \in Index /\ i # active
  BY SMTT(30), StructNumbers, IndexFacts DEF Struct
<1>5. QED
  BY ZenonT(30), <1>1, <1>3, <1>4 DEF Clean, Garbage

LEMMA CleanOpen ==
  ASSUME Struct, Clean, Open
  PROVE  Clean'
<1>1. phase' = "up" /\ UNCHANGED <<first, active>>
  BY ZenonT(30) DEF Open
<1>2. torn'[active] = {} /\ \A i \in Index : i # active => file'[i] = file[i] /\ torn'[i] = torn[i]
  BY ZenonT(30), OpenFacts DEF Struct
<1>3. \A i \in first..active : i \in Index /\ (i = active \/ (i \in first..(active - 1) /\ i # active))
  BY SMTT(30), StructNumbers
<1>4. \A i \in first..active : torn'[i] = {}
  BY ZenonT(30), <1>2, <1>3 DEF Clean
<1>5. \A i \in first..(active - 1) : i \in first..active
  BY ZenonT(30), IndexFacts DEF Struct
<1>6. \A i \in Index : \A t \in torn'[i] : t = Len(file'[i])
  BY ZenonT(30), <1>2 DEF Clean, Garbage
<1>7. QED
  BY ZenonT(30), <1>1, <1>4, <1>5, <1>6 DEF Clean, Garbage

LEMMA CleanOthers ==
  ASSUME Clean, "short" \notin Faults,
         \/ \E w \in Writers : RotateFails(w) \/ AppendWriteFails(w) \/ AppendSync(w) \/ AppendReturn(w)
         \/ FlushSnapshot \/ FlushSync \/ FlushPublish
         \/ CloseStart \/ FinalFlushEmpty \/ CloseFinish \/ UNCHANGED vars
  PROVE  Clean'
<1>1. UNCHANGED <<file, torn, first, active, phase>>
  BY ZenonT(30) DEF RotateFails, AppendWriteFails, AppendSync, AppendReturn, FlushSnapshot, FlushSync,
     FlushPublish, CloseStart, FinalFlushEmpty, CloseFinish, vars, state, diskVars, memVars
<1>2. QED
  BY ZenonT(30), <1>1, CleanSame

LEMMA CleanOpenFails ==
  ASSUME Clean, OpenFails
  PROVE  Clean'
BY ZenonT(30) DEF OpenFails, Clean, SealedSegments

LEMMA IntervalBelow ==
  ASSUME NEW a \in Nat, NEW b \in Nat, NEW c \in a..b
  PROVE  \A i \in a..(c - 1) : i \in a..(b - 1)
OBVIOUS

\* A machine failure leaves every sealed segment as it is: they are fsynced.
LEMMA SealedSurvive ==
  ASSUME Struct, Flushed, Dense, PowerLoss, NEW i \in first..(active - 1)
  PROVE  /\ i \in Index /\ i # active /\ i <= active'
         /\ Len(file'[i]) = Len(file[i]) /\ torn'[i] \subseteq torn[i]
<1>1. i \in Index /\ i \in first..active /\ i # active /\ i \in Nat
  BY SMTT(30), StructNumbers
<1>2. synced[i] = Len(file[i]) /\ Len(file[i]) > 0
  BY ZenonT(30), <1>1 DEF Flushed, SealedDurable, Dense
<1>3. synced[i] \in Nat /\ Len(file[i]) \in Nat /\ active \in Nat
  BY ZenonT(30), <1>1, StructNumbers
<1>4. active' \in first..active /\ \A j \in (active' + 1)..active : synced[j] = 0
  BY ZenonT(30), PowerLossFacts DEF Struct
<1>5. i \notin (active' + 1)..active
  <2> SUFFICES ASSUME i \in (active' + 1)..active PROVE FALSE
    BY ZenonT(30)
  <2>1. synced[i] = 0
    BY ZenonT(30), <1>4
  <2>2. QED
    BY ONLY SMTT(30), <1>2, <2>1
<1>6. i <= active' /\ i \in first..active'
  <2>1. first \in Int /\ active \in Int /\ active' \in Int
    BY <1>4, StructNumbers
  <2>2. i \in first..active'
    BY ZenonT(30), <1>1, <1>5, <2>1, IntervalUpTo
  <2>3. QED
    BY <2>1, <2>2
<1>7. i \notin Loose
  BY SMTT(30), <1>2, <1>3 DEF Loose
<1>8. /\ file'[i] \in Seq(Record) /\ synced'[i] = Len(file'[i]) /\ Len(file'[i]) <= Len(file[i])
      /\ synced[i] <= Len(file[i]) => synced[i] <= synced'[i]
      /\ torn'[i] \subseteq torn[i]
  BY ZenonT(30), <1>1, <1>6, <1>7, PowerLossFacts DEF Struct
<1>9. Len(file'[i]) \in Nat
  BY ZenonT(30), <1>8, SeqLen
<1>10. Len(file'[i]) = Len(file[i])
  BY ONLY SMTT(30), <1>2, <1>3, <1>8, <1>9
<1>11. QED
  BY ZenonT(30), <1>1, <1>6, <1>8, <1>10

LEMMA CleanPowerLoss ==
  ASSUME Struct, Clean, Flushed, Dense, PowerLoss
  PROVE  Clean'
<1>1. phase' = "down" /\ first' = first /\ active' \in first..active
  BY ZenonT(30), PowerLossFacts DEF Struct, Stopped
<1>2. ASSUME NEW i \in Index, NEW t \in torn'[i] PROVE t = Len(file'[i])
  <2>1. /\ file'[i] \in Seq(Record) /\ Len(file'[i]) <= Len(file[i])
        /\ t = Len(file'[i]) \/ (t \in torn[i] /\ t < Len(file'[i]))
    BY ZenonT(30), PowerLossFacts DEF Struct
  <2>2. CASE t \in torn[i] /\ t < Len(file'[i])
    <3>1. t = Len(file[i])
      BY ZenonT(30), <2>2 DEF Clean, Garbage
    <3>2. Len(file'[i]) \in Nat /\ Len(file[i]) \in Nat
      BY ZenonT(30), <2>1, SeqLen, StructNumbers
    <3>3. QED
      BY ONLY SMTT(30), <2>1, <2>2, <3>1, <3>2
  <2>3. QED
    BY ZenonT(30), <2>1, <2>2
<1>3. \A i \in first..(active' - 1) : i \in first..(active - 1)
  BY ZenonT(30), <1>1, IntervalBelow, StructNumbers
<1>4. \A i \in first..(active' - 1) : torn'[i] = {}
  <2>1. \A i \in first..(active - 1) : torn'[i] \subseteq torn[i] /\ torn[i] = {}
    BY ZenonT(30), SealedSurvive DEF Clean
  <2>2. QED
    BY ZenonT(30), <1>3, <2>1
<1>5. QED
  BY ZenonT(30), <1>1, <1>2, <1>4 DEF Clean, Garbage

LEMMA DensePowerLoss ==
  ASSUME Struct, Flushed, Dense, PowerLoss
  PROVE  Dense'
<1>1. phase' = "down" /\ UNCHANGED <<first, baseMsgID>> /\ active' \in first..active
  BY ZenonT(30), PowerLossFacts DEF Struct, Stopped
<1>2. /\ \A i \in first..(active' - 1) : i \in first..(active - 1)
      /\ \A i \in first..active' : i \in first..active /\ i \in Index
  <2>1. first \in Nat /\ active \in Nat
    BY ZenonT(30), StructNumbers
  <2>2. \A i \in first..(active' - 1) : i \in first..(active - 1)
    BY ZenonT(30), <1>1, <2>1, IntervalBelow
  <2>3. \A i \in first..active' : i \in first..active
    BY ONLY SMTT(30), <1>1, <2>1
  <2>4. QED
    BY ZenonT(30), <2>2, <2>3, StructNumbers
<1>3. \A i \in first..(active' - 1) : Len(file'[i]) > 0 /\ baseMsgID[i + 1] = baseMsgID[i] + Len(file'[i])
  BY ZenonT(30), <1>2, SealedSurvive DEF Dense
<1>4. ASSUME NEW i \in first..active', NEW k \in 1..Len(file'[i])
      PROVE  file'[i][k].id = baseMsgID[i] + k - 1
  <2>1. file'[i] \in Seq(Record) /\ Len(file'[i]) <= Len(file[i]) /\ file'[i][k] = file[i][k]
    BY ZenonT(30), <1>2, PowerLossFacts DEF Struct
  <2>2. Len(file'[i]) \in Nat /\ Len(file[i]) \in Nat
    BY ZenonT(30), <1>2, <2>1, SeqLen, StructNumbers
  <2>3. k \in 1..Len(file[i])
    BY <2>1, <2>2
  <2>4. QED
    BY ZenonT(30), <1>2, <2>1, <2>3 DEF Dense
<1>5. QED
  BY ZenonT(30), <1>1, <1>3, <1>4 DEF Dense

LEMMA DenseAppendStart ==
  ASSUME Struct, Dense, NEW w \in Writers, AppendStart(w)
  PROVE  Dense'
<1>1. phase = "up" /\ UNCHANGED <<file, first, phase, nextMsgID>>
  BY ZenonT(30) DEF AppendStart
<1>2. CASE UNCHANGED <<active, baseMsgID>>
  BY ZenonT(30), <1>1, <1>2, DenseSame
<1>3. CASE NeedsRotation /\ Rotate
  <2>1. /\ active < MaxSegments /\ active' = active + 1
        /\ baseMsgID' = [baseMsgID EXCEPT ![active + 1] = nextMsgID]
        /\ written - base[active] > 0 /\ written = base[active] + Len(file[active])
        /\ nextMsgID = baseMsgID[active] + Len(file[active])
    BY ZenonT(30), <1>1, <1>3 DEF Rotate, NeedsRotation, Struct, Layout, Dense
  <2>2. active + 1 \in Index /\ Len(file[active + 1]) = 0
    <3>1. active + 1 \in Index /\ active + 1 > active
      BY SMTT(30), <2>1, StructNumbers, WalAssumption DEF Index
    <3>2. QED
      BY ZenonT(30), <3>1 DEF Struct, Lengths
  <2>3. Len(file[active]) > 0
    BY SMTT(30), <2>1, StructNumbers
  <2>4. baseMsgID'[active + 1] = nextMsgID /\ \A i \in Index : i # active + 1 => baseMsgID'[i] = baseMsgID[i]
    BY ZenonT(30), <2>1, <2>2 DEF Struct, TypeOK
  <2>5. /\ \A i \in first..active : i \in Index /\ i # active + 1
        /\ \A i \in first..active' : i \in first..active \/ i = active + 1
        /\ \A i \in first..(active' - 1) : i \in first..active
        /\ \A i \in first..active : i = active \/ (i \in first..(active - 1) /\ i + 1 \in Index /\ i + 1 # active + 1)
    BY SMTT(30), <2>1, StructNumbers, WalAssumption DEF Index
  <2>6. \A i \in first..active :
           Len(file[i]) > 0 /\ baseMsgID'[i + 1] = baseMsgID'[i] + Len(file[i])
    <3>1. Len(file[active]) > 0 /\ baseMsgID'[active + 1] = baseMsgID'[active] + Len(file[active])
      BY ZenonT(30), <2>1, <2>3, <2>4, <2>5, StructNumbers
    <3>2. \A i \in first..(active - 1) : Len(file[i]) > 0 /\ baseMsgID[i + 1] = baseMsgID[i] + Len(file[i])
      BY ZenonT(30) DEF Dense
    <3>3. QED
      BY ZenonT(30), <2>4, <2>5, <3>1, <3>2
  <2>7. \A i \in first..active : \A k \in 1..Len(file[i]) : file[i][k].id = baseMsgID'[i] + k - 1
    BY ZenonT(30), <2>4, <2>5 DEF Dense
  <2>8. \A k \in 1..Len(file[active + 1]) : FALSE
    BY <2>2
  <2>9. nextMsgID = baseMsgID'[active'] + Len(file[active'])
    <3>1. nextMsgID \in Nat
      BY ZenonT(30) DEF Struct, TypeOK
    <3>2. QED
      BY <2>1, <2>2, <2>4, <3>1
  <2>10. QED
    BY ZenonT(30), <1>1, <2>5, <2>6, <2>7, <2>8, <2>9 DEF Dense
<1>4. QED
  BY ZenonT(30), <1>2, <1>3 DEF AppendStart

LEMMA DenseAppendWrite ==
  ASSUME Struct, Dense, NEW w \in Writers, AppendWrite(w)
  PROVE  Dense'
<1> DEFINE n == Len(file[active])
<1>1. phase = "up" /\ nextMsgID' = nextMsgID + 1 /\ UNCHANGED <<first, active, baseMsgID>>
  BY ZenonT(30) DEF AppendWrite
<1>2. /\ Len(file'[active]) = n + 1
      /\ file'[active][n + 1].id = nextMsgID
      /\ \A i \in Index : i # active => file'[i] = file[i]
      /\ \A i \in Index : \A k \in 1..Len(file[i]) : file'[i][k] = file[i][k]
  BY SMTT(30), AppendWriteFacts
<1>3. n \in Nat /\ baseMsgID[active] \in Nat /\ nextMsgID \in Nat /\ nextMsgID = baseMsgID[active] + n
  BY ZenonT(30), <1>1, StructNumbers DEF Struct, TypeOK, Dense
<1> HIDE DEF n
<1>4. \A i \in first..(active - 1) : i \in Index /\ i # active
  BY SMTT(30), StructNumbers, IndexFacts DEF Struct
<1>5. \A i \in first..(active - 1) : Len(file'[i]) > 0 /\ baseMsgID[i + 1] = baseMsgID[i] + Len(file'[i])
  BY ZenonT(30), <1>2, <1>4 DEF Dense
<1>6. ASSUME NEW i \in first..active, NEW k \in 1..Len(file'[i])
      PROVE  file'[i][k].id = baseMsgID[i] + k - 1
  <2>1. CASE k \in 1..Len(file[i])
    BY ZenonT(30), <1>2, <2>1, StructNumbers DEF Dense
  <2>2. CASE k \notin 1..Len(file[i])
    <3>1. i = active
      BY ZenonT(30), <1>2, <2>2, StructNumbers
    <3>2. k \in 1..(n + 1) /\ k \notin 1..n
      BY ZenonT(30), <1>2, <2>2, <3>1 DEF n
    <3>3. k = n + 1
      BY ONLY SMTT(30), <1>3, <3>2
    <3>4. file'[i][k].id = nextMsgID
      BY ZenonT(30), <1>2, <3>1, <3>3
    <3>5. QED
      BY SMTT(30), <1>3, <3>1, <3>3, <3>4
  <2>3. QED
    BY ZenonT(30), <2>1, <2>2
<1>7. nextMsgID' = baseMsgID[active] + Len(file'[active])
  BY SMTT(30), <1>1, <1>2, <1>3
<1>8. QED
  BY ZenonT(30), <1>1, <1>5, <1>6, <1>7 DEF Dense

LEMMA DenseDrop ==
  ASSUME Struct, Struct', Dense, NEW keepIndex \in Index, DropSegmentsBefore(keepIndex)
  PROVE  Dense'
<1>1. first < first' /\ UNCHANGED <<file, active, phase, baseMsgID, nextMsgID>>
  BY ZenonT(30) DEF DropSegmentsBefore, memVars
<1>2. first' \in Nat
  BY ZenonT(30), IndexFacts DEF Struct, TypeOK
<1>3. /\ \A i \in first'..active : i \in first..active
      /\ \A i \in first'..(active - 1) : i \in first..(active - 1)
  BY <1>1, <1>2, StructNumbers
<1>4. QED
  BY ZenonT(30), <1>1, <1>3 DEF Dense

\* The next MsgID follows the last record of the newest segment that has any.
LEMMA NextIDFollows ==
  ASSUME Struct, NEW l \in first..active, GoodLen(l) > 0, \A j \in first..active : GoodLen(j) > 0 => j <= l
  PROVE  NextIDAfter(active) = file[l][GoodLen(l)].id + 1
<1> DEFINE seen == {j \in NonEmpty : j <= active}
           last == CHOOSE j \in seen : \A m \in seen : m <= j
<1>1. l \in Nat /\ l <= active /\ \A i \in first..active : i \in Nat
  BY SMTT(30), StructNumbers
<1>2. l \in seen /\ \A m \in seen : m <= l
  BY ZenonT(30), <1>1 DEF NonEmpty
<1>3. last \in seen /\ \A m \in seen : m <= last
  BY ZenonT(30), <1>2
<1>4. NextIDAfter(active) = file[last][GoodLen(last)].id + 1
  BY ZenonT(30), <1>2 DEF NextIDAfter
<1>5. last \in Nat /\ last <= l /\ l <= last
  BY ZenonT(30), <1>1, <1>2, <1>3 DEF NonEmpty
<1> HIDE DEF last
<1>6. last = l
  BY ONLY SMTT(30), <1>1, <1>5
<1>7. QED
  BY ZenonT(30), <1>4, <1>6

\* Recovery finds every MsgID and every segment's first MsgID again.
LEMMA DenseOpen ==
  ASSUME Struct, Clean, Dense, Open
  PROVE  Dense'
<1>1. /\ phase' = "up" /\ UNCHANGED <<first, active>> /\ nextMsgID' = NextIDAfter(active)
      /\ baseMsgID' = [i \in Index |->
                        IF i \notin first..active THEN 0
                        ELSE IF i \in NonEmpty THEN file[i][1].id
                        ELSE NextIDAfter(i)]
  BY ZenonT(30) DEF Open
<1>2. \A i \in first..active : i \in Index /\ i \in Nat /\ Len(file[i]) \in Nat /\ baseMsgID[i] \in Nat
  BY ZenonT(30), StructNumbers DEF Struct, TypeOK
<1>3. \A i \in first..active : GoodLen(i) = Len(file[i])
  BY ZenonT(30), <1>2, GoodLenProperties DEF Struct, Clean, Garbage
<1>4. \A i \in first..active : Len(file'[i]) = Len(file[i]) /\ \A k \in 1..Len(file[i]) : file'[i][k] = file[i][k]
  BY ZenonT(30), <1>2, <1>3, OpenFacts DEF Struct
<1>5. ASSUME NEW i \in first..active, Len(file[i]) > 0
      PROVE  baseMsgID'[i] = baseMsgID[i]
  <2>1. i \in NonEmpty
    BY ZenonT(30), <1>3, <1>5 DEF NonEmpty
  <2>2. baseMsgID'[i] = file[i][1].id
    BY ZenonT(30), <1>1, <1>2, <2>1
  <2>3. 1 \in 1..Len(file[i])
    BY <1>2, <1>5
  <2>4. file[i][1].id = baseMsgID[i] + 1 - 1
    BY ZenonT(30), <2>3 DEF Dense
  <2>5. QED
    BY <1>2, <2>2, <2>4
\* The MsgID that follows segment l, when no later one has a record.
<1>6. ASSUME NEW l \in first..active, Len(file[l]) > 0, \A j \in first..active : Len(file[j]) > 0 => j <= l
      PROVE  NextIDAfter(active) = baseMsgID[l] + Len(file[l])
  <2>1. NextIDAfter(active) = file[l][Len(file[l])].id + 1
    BY ZenonT(30), <1>3, <1>6, NextIDFollows
  <2>2. Len(file[l]) \in 1..Len(file[l])
    BY <1>2, <1>6
  <2>3. file[l][Len(file[l])].id = baseMsgID[l] + Len(file[l]) - 1
    BY ZenonT(30), <2>2 DEF Dense
  <2>4. Len(file[l]) \in Nat /\ baseMsgID[l] \in Nat
    BY ZenonT(30), <1>2
  <2>5. QED
    BY ONLY SMTT(30), <2>1, <2>3, <2>4
<1>7. \A i \in first..(active - 1) :
        /\ i \in first..active /\ i + 1 \in first..active /\ (i + 1 = active \/ i + 1 \in first..(active - 1))
        /\ Len(file[i]) > 0 /\ baseMsgID[i + 1] = baseMsgID[i] + Len(file[i])
  <2>1. \A i \in first..(active - 1) :
          i \in first..active /\ i + 1 \in first..active /\ (i + 1 = active \/ i + 1 \in first..(active - 1))
    BY SMTT(30), StructNumbers
  <2>2. QED
    BY ZenonT(30), <2>1 DEF Dense
<1>8. ASSUME NEW i \in first..active, NEW k \in 1..Len(file'[i])
      PROVE  file'[i][k].id = baseMsgID'[i] + k - 1
  <2>1. k \in 1..Len(file[i]) /\ file'[i][k] = file[i][k]
    BY ZenonT(30), <1>4
  <2>2. Len(file[i]) > 0
    BY <1>2, <2>1
  <2>3. baseMsgID'[i] = baseMsgID[i] /\ file[i][k].id = baseMsgID[i] + k - 1
    BY ZenonT(30), <1>5, <2>1, <2>2 DEF Dense
  <2>4. QED
    BY ZenonT(30), <2>1, <2>3
<1>9. CASE Len(file[active]) > 0
  <2>1. \A i \in first..active : baseMsgID'[i] = baseMsgID[i]
    <3>1. \A i \in first..active : i = active \/ i \in first..(active - 1)
      BY SMTT(30), StructNumbers
    <3>2. QED
      BY ZenonT(30), <1>5, <1>7, <1>9, <3>1
  <2>2. NextIDAfter(active) = baseMsgID[active] + Len(file[active])
    <3>1. \A j \in first..active : j <= active
      BY SMTT(30), StructNumbers
    <3>2. QED
      BY ZenonT(30), <1>6, <1>9, <3>1, StructNumbers
  <2>3. \A i \in first..(active - 1) : Len(file'[i]) > 0 /\ baseMsgID'[i + 1] = baseMsgID'[i] + Len(file'[i])
    BY ZenonT(30), <1>4, <1>7, <2>1
  <2>4. nextMsgID' = baseMsgID'[active] + Len(file'[active])
    BY ZenonT(30), <1>1, <1>4, <2>1, <2>2, StructNumbers
  <2>5. QED
    BY ZenonT(30), <1>1, <1>8, <2>3, <2>4 DEF Dense
<1>10. CASE ~(Len(file[active]) > 0)
  <2>1. Len(file[active]) = 0
    BY <1>2, <1>10, StructNumbers
  <2>2. baseMsgID'[active] = NextIDAfter(active)
    <3>1. active \notin NonEmpty
      BY ZenonT(30), <1>3, <1>10, StructNumbers DEF NonEmpty
    <3>2. QED
      BY ZenonT(30), <1>1, <3>1, StructNumbers
  <2>3. nextMsgID' = baseMsgID'[active] + Len(file'[active])
    <3>1. NextIDAfter(active) \in Nat /\ Len(file'[active]) = 0
      BY ZenonT(30), <1>4, <2>1, NextIDAfterType, StructNumbers DEF Struct
    <3>2. QED
      BY <1>1, <2>2, <3>1
  <2>4. ASSUME NEW i \in first..(active - 1) PROVE baseMsgID'[i + 1] = baseMsgID'[i] + Len(file[i])
    <3>1. baseMsgID'[i] = baseMsgID[i]
      BY ZenonT(30), <1>5, <1>7
    <3>2. CASE i + 1 = active
      <4>1. \A j \in first..active : j = active \/ j <= i
        BY SMTT(30), <3>2, StructNumbers
      <4>2. NextIDAfter(active) = baseMsgID[i] + Len(file[i])
        BY ZenonT(30), <1>6, <1>7, <1>10, <4>1
      <4>3. QED
        BY ZenonT(30), <2>2, <3>1, <3>2, <4>2
    <3>3. CASE i + 1 \in first..(active - 1)
      BY ZenonT(30), <1>5, <1>7, <3>1, <3>3
    <3>4. QED
      BY ZenonT(30), <1>7, <3>2, <3>3
  <2>5. QED
    BY ZenonT(30), <1>1, <1>4, <1>7, <1>8, <2>3, <2>4 DEF Dense
<1>11. QED
  BY ZenonT(30), <1>9, <1>10

LEMMA WholeStep == Struct /\ Struct' /\ Tight /\ Whole /\ [Next]_vars => Whole'
<1> SUFFICES ASSUME Struct, Struct', Tight, Whole, [Next]_vars PROVE Whole'
  BY ZenonT(30)
<1>1. Intact' <=> Intact
  BY ZenonT(30), SetupFixed DEF Intact, Faults, Stops, SyncMode
<1>2. CASE Intact
  <2>1. Clean /\ Dense /\ "short" \notin Faults
    BY ZenonT(30), <1>2 DEF Whole, Intact
  <2>2. CASE PowerLoss
    <3>1. Flushed
      BY ZenonT(30), <1>2, <2>2 DEF PowerLoss, Intact, Tight, Guarded
    <3>2. QED
      BY ZenonT(30), <2>1, <2>2, <3>1, CleanPowerLoss, DensePowerLoss DEF Whole
  <2>3. CASE \/ \E w \in Writers : AppendStart(w) \/ AppendWrite(w)
             \/ \E keepIndex \in Index : DropSegmentsBefore(keepIndex)
             \/ Open
    <3>1. Clean'
      BY ZenonT(30), <2>1, <2>3, CleanAppendStart, CleanAppendWrite, CleanDrop, CleanOpen
    <3>2. Dense'
      BY ZenonT(30), <2>1, <2>3, DenseAppendStart, DenseAppendWrite, DenseDrop, DenseOpen
    <3>3. QED
      BY ZenonT(30), <3>1, <3>2 DEF Whole
  <2>4. CASE \/ \E w \in Writers : RotateFails(w) \/ AppendWriteFails(w) \/ AppendSync(w) \/ AppendReturn(w)
             \/ FlushSnapshot \/ FlushSync \/ FlushPublish
             \/ CloseStart \/ FinalFlushEmpty \/ CloseFinish \/ Kill \/ Exit \/ OpenFails
             \/ UNCHANGED vars
    <3>1. Clean'
      BY ZenonT(30), <2>1, <2>4, CleanOthers, CleanOpenFails, CleanEnds
    <3>2. UNCHANGED <<file, first, active, baseMsgID>> /\ (phase' = "up" => phase = "up" /\ nextMsgID' = nextMsgID)
      BY ZenonT(30), <2>4 DEF RotateFails, AppendWriteFails, AppendSync, AppendReturn, FlushSnapshot, FlushSync,
         FlushPublish, CloseStart, FinalFlushEmpty, CloseFinish, Kill, Exit, MaybeTorn, OpenFails, Stopped,
         vars, state, diskVars, memVars
    <3>3. QED
      BY ZenonT(30), <2>1, <3>1, <3>2, DenseSame DEF Whole
  <2>5. QED
    BY ZenonT(30), <2>2, <2>3, <2>4 DEF Next
<1>3. QED
  BY ZenonT(30), <1>1, <1>2 DEF Whole

\* What holds of the log whoever reads it.
LogInv == Struct /\ Tight /\ Whole

LEMMA LogInvInit == Init => LogInv
BY ZenonT(30), StructInit, TightInit, WholeInit DEF LogInv

LEMMA LogInvStep == LogInv /\ [Next]_vars => LogInv'
BY ZenonT(30), StructStep, TightStep, WholeStep DEF LogInv

LEMMA LogInvariant == Spec => []LogInv
BY LogInvInit, LogInvStep, PTL DEF Spec

\* Recovery never meets damage in front of the active segment's tail: the broker is
\* never refused its own directory.
THEOREM RecoverySucceeds == Spec => []OpenSucceeds
<1>1. Whole => OpenSucceeds
  BY ZenonT(30) DEF Whole, Clean, OpenSucceeds
<1>2. QED
  BY <1>1, LogInvariant, PTL DEF LogInv

\* The retained MsgIDs have no gap, and baseMsgID finds the segment of each.
THEOREM DenseIDs == Spec => []MsgIDsDense
<1>1. Whole => MsgIDsDense
  BY ZenonT(30) DEF Whole, Dense, MsgIDsDense
<1>2. QED
  BY <1>1, LogInvariant, PTL DEF LogInv

=============================================================================
