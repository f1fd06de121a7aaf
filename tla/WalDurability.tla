--------------------------- MODULE WalDurability ---------------------------
(***************************************************************************)
(* What is never lost, for every number of writers, segment size, and      *)
(* bound: the order of the MsgIDs, what an OK promises, that no MsgID is   *)
(* handed out twice, and that Wal implements PartitionLog.                 *)
(***************************************************************************)
EXTENDS WalProofs, WalRefines

(* Most steps are about sets, functions and records: Zenon is the prover of  *)
(* a step that names no other.                                              *)
USE ZenonT(30)

----------------------------------------------------------------------------
(* MsgIDs ascend along the retained segments, in every configuration: what *)
(* recovery derives the next MsgID from is the greatest one there is.      *)

Older(i, k, j, l) == i < j \/ (i = j /\ k < l)

Ascending ==
    \A i, j \in first..active : \A k \in 1..Len(file[i]), l \in 1..Len(file[j]) :
        Older(i, k, j, l) => file[i][k].id < file[j][l].id

Below == phase = "up" => \A i \in first..active : \A k \in 1..Len(file[i]) : file[i][k].id < nextMsgID

Ordered == Ascending /\ Below

\* Every record that is retained after the step was so before, in the same place.
NothingNew ==
    \A i \in first'..active' : \A k \in 1..Len(file'[i]) :
        i \in first..active /\ k \in 1..Len(file[i]) /\ file'[i][k] = file[i][k]

LEMMA AscendingKept == Ascending /\ NothingNew => Ascending'
<1> SUFFICES ASSUME Ascending, NothingNew,
                    NEW i \in first'..active', NEW j \in first'..active',
                    NEW k \in 1..Len(file'[i]), NEW l \in 1..Len(file'[j]), Older(i, k, j, l)
             PROVE  file'[i][k].id < file'[j][l].id
  BY DEF Ascending, Older
<1>1. i \in first..active /\ k \in 1..Len(file[i]) /\ file'[i][k] = file[i][k]
  BY DEF NothingNew
<1>2. j \in first..active /\ l \in 1..Len(file[j]) /\ file'[j][l] = file[j][l]
  BY DEF NothingNew
<1> USE <1>1, <1>2
<1>3. file[i][k].id < file[j][l].id
  BY DEF Ascending
<1>4. QED
  BY <1>3

LEMMA OrderedKept ==
  ASSUME Ordered, NothingNew, phase' = "up" => phase = "up" /\ nextMsgID' = nextMsgID
  PROVE  Ordered'
<1>1. Ascending'
  BY AscendingKept DEF Ordered
<1>2. ASSUME phase' = "up", NEW i \in first'..active', NEW k \in 1..Len(file'[i])
      PROVE  file'[i][k].id < nextMsgID'
  <2>1. i \in first..active /\ k \in 1..Len(file[i]) /\ file'[i][k] = file[i][k]
    BY DEF NothingNew
  <2> USE <1>2, <2>1
  <2>2. file[i][k].id < nextMsgID
    BY DEF Ordered, Below
  <2>3. QED
    BY <2>2
<1>3. QED
  BY <1>1, <1>2 DEF Ordered, Below

LEMMA SameFiles == UNCHANGED <<file, first, active>> => NothingNew
BY DEF NothingNew

LEMMA OrderedInit == Init => Ordered
BY SMT, WalAssumption, SeqEmpty DEF Init, Ordered, Ascending, Below, Index

LEMMA OrderedAppendStart ==
  ASSUME Struct, Ordered, NEW w \in Writers, AppendStart(w)
  PROVE  Ordered'
<1>1. UNCHANGED <<file, first, phase, nextMsgID>>
  BY DEF AppendStart
<1>2. active' = active \/ (active' = active + 1 /\ active < MaxSegments)
  BY DEF AppendStart, Rotate
<1>3. NothingNew
  <2>1. CASE active' = active
    BY <1>1, <2>1, SameFiles
  <2>2. CASE active' = active + 1 /\ active < MaxSegments
    <3>1. active + 1 \in Index /\ Len(file[active + 1]) = 0
      BY SMT, <2>2, StructNumbers, WalAssumption DEF Struct, Lengths, Index
    <3>2. \A i \in first..active' : i \in first..active \/ i = active + 1
      BY SMT, <2>2, StructNumbers
    <3>3. QED
      BY SMT, <1>1, <3>1, <3>2 DEF NothingNew
  <2>3. QED
    BY <1>2, <2>1, <2>2
<1>4. QED
  BY <1>1, <1>3, OrderedKept

LEMMA OrderedAppendWrite ==
  ASSUME Struct, Ordered, NEW w \in Writers, AppendWrite(w)
  PROVE  Ordered'
<1> DEFINE n == Len(file[active])
           rec == [id |-> nextMsgID, val |-> appends]
<1>1. phase = "up" /\ nextMsgID' = nextMsgID + 1 /\ UNCHANGED <<first, active>>
  BY DEF AppendWrite
<1>2. /\ Len(file'[active]) = n + 1
      /\ file'[active][n + 1].id = nextMsgID
      /\ \A i \in Index : i # active => file'[i] = file[i]
      /\ \A i \in Index : \A k \in 1..Len(file[i]) : file'[i][k] = file[i][k]
  BY SMT, AppendWriteFacts
<1>3. n \in Nat /\ nextMsgID \in Nat /\ first \in Nat /\ active \in Nat /\ \A i \in first..active : i \in Index /\ i \in Nat
  BY StructNumbers DEF Struct, TypeOK
<1> HIDE DEF n
\* The place of a record is an old one, or the last of the active segment.
<1>4. ASSUME NEW i \in first..active, NEW k \in 1..Len(file'[i])
      PROVE  \/ k \in 1..Len(file[i]) /\ file'[i][k] = file[i][k] /\ file[i][k].id < nextMsgID
             \/ i = active /\ k = n + 1 /\ file'[i][k].id = nextMsgID
  <2>1. CASE i = active /\ k = n + 1
    BY <1>2, <2>1
  <2>2. CASE ~(i = active /\ k = n + 1)
    <3>1. k \in 1..Len(file[i])
      BY SMT, <1>2, <1>3, <2>2 DEF n
    <3> USE <3>1
    <3>2. file[i][k].id < nextMsgID
      BY <1>1 DEF Ordered, Below
    <3>3. QED
      BY <1>2, <1>3, <3>2
  <2>3. QED
    BY <2>1, <2>2
<1>5. ASSUME NEW i \in first..active, NEW j \in first..active,
             NEW k \in 1..Len(file'[i]), NEW l \in 1..Len(file'[j]), Older(i, k, j, l)
      PROVE  file'[i][k].id < file'[j][l].id
  <2>1. CASE i = active /\ k = n + 1
    <3>1. i \in Nat /\ j \in Nat /\ j <= active
      BY SMT, <1>3
    <3>2. j = active /\ n + 1 < l
      BY SMT, <1>5, <2>1, <3>1 DEF Older
    <3> USE <3>2
    <3>3. l \in 1..(n + 1)
      BY <1>2
    <3>4. QED
      BY SMT, <1>3, <3>3
  <2>2. CASE k \in 1..Len(file[i]) /\ file'[i][k] = file[i][k] /\ file[i][k].id < nextMsgID
    <3> USE <2>2
    <3>1. CASE l \in 1..Len(file[j]) /\ file'[j][l] = file[j][l]
      <4> USE <3>1
      <4>1. file[i][k].id < file[j][l].id
        BY <1>5 DEF Ordered, Ascending
      <4>2. QED
        BY <4>1
    <3>2. CASE file'[j][l].id = nextMsgID
      BY <3>2
    <3>3. QED
      BY <1>4, <3>1, <3>2
  <2>3. QED
    BY <1>4, <2>1, <2>2
<1>6. Ascending'
  BY <1>1, <1>5 DEF Ascending, Older
<1>7. ASSUME NEW i \in first..active, NEW k \in 1..Len(file'[i])
      PROVE  file'[i][k].id < nextMsgID + 1
  <2>1. CASE k \in 1..Len(file[i]) /\ file'[i][k] = file[i][k] /\ file[i][k].id < nextMsgID
    <3> USE <2>1
    <3>1. file[i][k].id \in Nat
      <4>1. file[i] \in Seq(Record) /\ k \in 1..Len(file[i])
        BY <1>3 DEF Struct, TypeOK
      <4>2. file[i][k] \in Record
        BY <4>1, SeqElement
      <4>3. QED
        BY <4>2 DEF Record
    <3>2. QED
      BY SMT, <1>3, <3>1
  <2>2. CASE file'[i][k].id = nextMsgID
    BY SMT, <1>3, <2>2
  <2>3. QED
    BY <1>4, <2>1, <2>2
<1>8. Below'
  BY <1>1, <1>7 DEF Below
<1>9. QED
  BY <1>6, <1>8 DEF Ordered

LEMMA OrderedDrop ==
  ASSUME Struct, Struct', Ordered, NEW keepIndex \in Index, DropSegmentsBefore(keepIndex)
  PROVE  Ordered'
<1>1. first < first' /\ UNCHANGED <<file, active, phase, nextMsgID>>
  BY DEF DropSegmentsBefore, memVars
<1>2. first' \in Nat
  BY IndexFacts DEF Struct, TypeOK
<1> USE <1>1
<1>3. \A i \in first'..active : i \in first..active
  BY SMT, <1>2, StructNumbers
<1>4. NothingNew
  BY <1>3 DEF NothingNew
<1>5. QED
  BY <1>4, OrderedKept

LEMMA OrderedPowerLoss ==
  ASSUME Struct, Ordered, PowerLoss
  PROVE  Ordered'
<1>1. first' = first /\ phase' = "down" /\ active' \in first..active
  BY PowerLossFacts DEF Stopped, Struct
<1>2. \A i \in first..active' : i \in first..active /\ i \in Index
  BY SMT, <1>1, StructNumbers
<1>3. ASSUME NEW i \in Index, NEW k \in 1..Len(file'[i])
      PROVE  k \in 1..Len(file[i]) /\ file'[i][k] = file[i][k]
  <2>1. file'[i] \in Seq(Record) /\ Len(file'[i]) <= Len(file[i]) /\ file'[i][k] = file[i][k]
    BY PowerLossFacts DEF Struct
  <2> USE <2>1
  <2>2. Len(file'[i]) \in Nat /\ Len(file[i]) \in Nat
    BY SeqLen, StructNumbers
  <2>3. QED
    BY SMT, <2>2
<1>4. NothingNew
  BY <1>1, <1>2, <1>3 DEF NothingNew
<1>5. QED
  BY <1>1, <1>4, OrderedKept

\* Recovery's next MsgID is above every MsgID a scan decodes.
LEMMA NextIDAbove ==
  ASSUME Struct, Ascending, NEW i \in first..active, NEW k \in 1..GoodLen(i)
  PROVE  file[i][k].id < NextIDAfter(active)
<1> DEFINE seen == {j \in NonEmpty : j <= active}
           last == CHOOSE j \in seen : \A m \in seen : m <= j
<1>1. i \in Index /\ i \in Nat /\ GoodLen(i) \in Nat /\ GoodLen(i) <= Len(file[i]) /\ Len(file[i]) \in Nat
  BY StructNumbers, GoodLenProperties DEF Struct
<1>2. i \in seen
  BY SMT, <1>1, StructNumbers DEF NonEmpty
<1>3. seen \in SUBSET (0..active) /\ active \in Nat
  BY SMT, StructNumbers DEF NonEmpty
<1>4. \E j \in seen : \A m \in seen : m <= j
  <2> HIDE DEF seen
  <2> QED
    BY <1>2, <1>3, MaxExists
<1>5. last \in seen /\ \A m \in seen : m <= last
  BY <1>4
<1>6. NextIDAfter(active) = file[last][GoodLen(last)].id + 1
  BY <1>2 DEF NextIDAfter
<1> HIDE DEF last
<1>7. last \in first..active /\ GoodLen(last) > 0 /\ i <= last
  BY <1>2, <1>5 DEF NonEmpty
<1>8. /\ last \in Index /\ last \in Nat /\ GoodLen(last) \in Nat /\ GoodLen(last) <= Len(file[last])
      /\ Len(file[last]) \in Nat
  BY <1>7, StructNumbers, GoodLenProperties DEF Struct
<1>9. k \in 1..Len(file[i]) /\ GoodLen(last) \in 1..Len(file[last])
  BY SMTT(30), <1>1, <1>7, <1>8
<1>10. file[i][k] \in Record /\ file[last][GoodLen(last)] \in Record
  <2>1. file[i] \in Seq(Record) /\ file[last] \in Seq(Record)
    BY <1>1, <1>8 DEF Struct, TypeOK
  <2>2. QED
    BY <1>9, <2>1, SeqElement
<1>11. CASE i = last /\ k = GoodLen(last)
  BY SMT, <1>6, <1>10, <1>11 DEF Record
<1>12. CASE ~(i = last /\ k = GoodLen(last))
  <2>1. Older(i, k, last, GoodLen(last))
    BY SMTT(30), <1>1, <1>7, <1>8, <1>12 DEF Older
  <2>2. file[i][k].id < file[last][GoodLen(last)].id
    BY <1>7, <1>9, <2>1 DEF Ascending
  <2>3. QED
    BY SMTT(30), <1>6, <1>10, <2>2 DEF Record
<1>13. QED
  BY <1>11, <1>12

LEMMA OrderedOpen ==
  ASSUME Struct, Ordered, Open
  PROVE  Ordered'
<1>1. /\ UNCHANGED <<first, active>> /\ nextMsgID' = NextIDAfter(active)
      /\ \A i \in first..(active - 1) : torn[i] = {}
  BY DEF Open, SealedSegments
\* What is retained afterwards was decoded.
<1>2. ASSUME NEW i \in first..active, NEW k \in 1..Len(file'[i])
      PROVE  k \in 1..Len(file[i]) /\ k \in 1..GoodLen(i) /\ file'[i][k] = file[i][k]
  <2>1. i \in Index /\ Len(file[i]) \in Nat /\ GoodLen(i) \in Nat /\ GoodLen(i) <= Len(file[i])
          /\ GoodLen(i) \in torn[i] \cup {Len(file[i])}
    BY StructNumbers, GoodLenProperties DEF Struct
  <2>2. CASE i = active
    <3> USE <2>2
    <3>1. k \in 1..GoodLen(active) /\ file'[active][k] = file[active][k]
      BY OpenFacts DEF Struct
    <3>2. QED
      BY SMTT(30), <2>1, <3>1
  <2>3. CASE i # active
    <3> USE <2>3
    <3>1. i \in first..(active - 1)
      BY SMT, StructNumbers
    <3>2. GoodLen(i) = Len(file[i])
      BY <1>1, <2>1, <3>1
    <3>3. file'[i] = file[i]
      BY <2>1, OpenFacts DEF Struct
    <3>4. QED
      BY <3>2, <3>3
  <2>4. QED
    BY <2>2, <2>3
<1> USE <1>2
<1>3. Ascending'
  <2>1. NothingNew
    BY <1>1 DEF NothingNew
  <2>2. QED
    BY <2>1, AscendingKept DEF Ordered
<1>4. ASSUME NEW i \in first..active, NEW k \in 1..Len(file'[i])
      PROVE  file'[i][k].id < NextIDAfter(active)
  <2>1. k \in 1..GoodLen(i) /\ file'[i][k] = file[i][k]
    OBVIOUS
  <2> USE <2>1
  <2>2. file[i][k].id < NextIDAfter(active)
    BY NextIDAbove DEF Ordered
  <2>3. QED
    BY <2>2
<1>5. Below'
  BY <1>1, <1>4 DEF Below
<1>6. QED
  BY <1>3, <1>5 DEF Ordered

LEMMA OrderedOthers ==
  ASSUME Ordered,
         \/ \E w \in Writers : RotateFails(w) \/ AppendWriteFails(w) \/ AppendSync(w) \/ AppendReturn(w)
         \/ FlushSnapshot \/ FlushSync \/ FlushPublish
         \/ CloseStart \/ FinalFlushEmpty \/ CloseFinish \/ Kill \/ Exit \/ OpenFails
         \/ UNCHANGED vars
  PROVE  Ordered'
<1>1. /\ UNCHANGED <<file, first, active>>
      /\ phase' = "up" => phase = "up" /\ nextMsgID' = nextMsgID
  BY DEF RotateFails, AppendWriteFails, AppendSync, AppendReturn, FlushSnapshot, FlushSync,
     FlushPublish, CloseStart, FinalFlushEmpty, CloseFinish, Kill, Exit, MaybeTorn, OpenFails, Stopped,
     vars, state, diskVars, memVars
<1>2. QED
  BY <1>1, SameFiles, OrderedKept

LEMMA OrderedStep == Struct /\ Struct' /\ Ordered /\ [Next]_vars => Ordered'
BY OrderedAppendStart, OrderedAppendWrite, OrderedDrop, OrderedPowerLoss, OrderedOpen, OrderedOthers DEF Next

----------------------------------------------------------------------------
(***************************************************************************)
(* What is never lost.  Kept is what makes an OK mean durable when fsync   *)
(* is used: a record is acknowledged only below an fsync of its own        *)
(* segment.                                                                *)
(***************************************************************************)

\* Record r is in a retained segment, below its fsynced length.
Fsynced(r) == \E i \in first..active : \E k \in 1..synced[i] : file[i][k] = r

\* The record w waits for is in a retained segment where w's end offset says, and
\* below the fsynced length if committed has reached it.
Located(w) ==
    \E i \in first..active : \E k \in 1..Len(file[i]) :
        /\ file[i][k] = app[w].rec
        /\ app[w].end = base[i] + k
        /\ committed >= app[w].end => k <= synced[i]

Acknowledged == \A r \in acked : r \in dropped \/ Fsynced(r)

Pending ==
    \A w \in Writers : app[w].pc \in {"wait", "sync"} => app[w].rec \in dropped \/ Located(w)

Kept == Garbage /\ Covered /\ Acknowledged /\ Pending

----------------------------------------------------------------------------
(* An OK'd record is kept. *)

\* A step that only adds to the retained segments.
Grew ==
    /\ first' = first /\ active' \in Nat /\ active <= active'
    /\ \A i \in first..active :
          /\ base'[i] = base[i]
          /\ Len(file'[i]) \in Nat /\ Len(file[i]) <= Len(file'[i])
          /\ synced'[i] \in Nat /\ synced[i] <= synced'[i]
          /\ \A k \in 1..Len(file[i]) : file'[i][k] = file[i][k]
    /\ committed' = committed \/ committed' - base[active] <= synced'[active]
    /\ committed' \in Nat
    /\ dropped' = dropped

\* Where a waiting append's record may be: in the active segment, or in a sealed
\* one and then committed.
LEMMA LocatedActive ==
  ASSUME Struct, phase = "up", NEW w \in Writers, NEW i \in first..active, NEW k \in 1..Len(file[i]),
         app[w].end = base[i] + k, ~(committed >= app[w].end)
  PROVE  i = active
<1> USE StructNumbers
<1>1. CASE i \in first..(active - 1)
  <2>1. base[i] + Len(file[i]) <= base[active] /\ base[active] <= committed
    BY <1>1 DEF Struct, Layout
  <2>2. QED
    BY SMTT(30), <2>1
<1>2. QED
  BY SMT, <1>1

LEMMA FsyncedGrew ==
  ASSUME Struct, Grew, NEW r, Fsynced(r)
  PROVE  Fsynced(r)'
<1>1. PICK i \in first..active : \E k \in 1..synced[i] : file[i][k] = r
  BY DEF Fsynced
<1>2. PICK k \in 1..synced[i] : file[i][k] = r
  BY <1>1
<1> USE StructNumbers
<1>3. k \in 1..Len(file[i]) /\ k \in 1..synced'[i]
  BY SMTT(30) DEF Grew
<1>4. i \in first'..active'
  BY SMT DEF Grew
<1> USE <1>3
<1>5. file'[i][k] = r
  BY <1>2 DEF Grew
<1>6. QED
  BY <1>4, <1>5 DEF Fsynced

LEMMA LocatedGrew ==
  ASSUME Struct, phase = "up", Grew, NEW w \in Writers, app'[w] = app[w], Located(w)
  PROVE  Located(w)'
<1>1. PICK i \in first..active : \E k \in 1..Len(file[i]) :
        /\ file[i][k] = app[w].rec
        /\ app[w].end = base[i] + k
        /\ committed >= app[w].end => k <= synced[i]
  BY DEF Located
<1>2. PICK k \in 1..Len(file[i]) :
        /\ file[i][k] = app[w].rec
        /\ app[w].end = base[i] + k
        /\ committed >= app[w].end => k <= synced[i]
  BY <1>1
<1>3. i \in first'..active' /\ k \in 1..Len(file'[i]) /\ file'[i][k] = app'[w].rec
        /\ app'[w].end = base'[i] + k
  <2>1. i \in first'..active'
    BY SMT, StructNumbers DEF Grew
  <2>2. k \in 1..Len(file'[i])
    BY SMTT(30), StructNumbers DEF Grew
  <2>3. file'[i][k] = app'[w].rec /\ app'[w].end = base'[i] + k
    BY <1>2 DEF Grew
  <2>4. QED
    BY <2>1, <2>2, <2>3
<1>4. ASSUME committed' >= app[w].end PROVE k <= synced'[i]
  <2>1. CASE committed >= app[w].end
    <3>1. k <= synced[i] /\ synced[i] <= synced'[i] /\ synced[i] \in Nat /\ synced'[i] \in Nat /\ k \in Nat
      BY SMTT(30), <1>2, <2>1, StructNumbers DEF Grew
    <3>2. QED
      BY SMT, <3>1
  <2>2. CASE ~(committed >= app[w].end)
    <3>1. i = active
      BY <1>2, <2>2, LocatedActive
    <3> USE <1>4
    <3>2. committed' - base[active] <= synced'[active]
      BY <2>2 DEF Grew
    <3>3. committed' \in Nat /\ synced'[active] \in Nat
      BY StructNumbers DEF Grew
    <3>4. QED
      BY SMTT(30), <1>2, <3>1, <3>2, <3>3, StructNumbers
  <2>3. QED
    BY <2>1, <2>2
<1>5. QED
  BY <1>3, <1>4 DEF Located

\* A waiting append whose end offset is committed, or whose segment has just been
\* fsynced, has its record below the fsynced length.
LEMMA LocatedFsynced ==
  ASSUME Struct, phase = "up", NEW w \in Writers, Located(w), Grew,
         committed >= app[w].end \/ synced'[active] = Len(file[active]),
         NEW r, r = app[w].rec
  PROVE  Fsynced(r)'
<1>1. PICK i \in first..active : \E k \in 1..Len(file[i]) :
        /\ file[i][k] = app[w].rec
        /\ app[w].end = base[i] + k
        /\ committed >= app[w].end => k <= synced[i]
  BY DEF Located
<1>2. PICK k \in 1..Len(file[i]) :
        /\ file[i][k] = app[w].rec
        /\ app[w].end = base[i] + k
        /\ committed >= app[w].end => k <= synced[i]
  BY <1>1
<1> USE StructNumbers
<1>3. k \in 1..synced'[i]
  <2>1. CASE committed >= app[w].end
    <3>1. k <= synced[i] /\ synced[i] <= synced'[i] /\ synced[i] \in Nat /\ synced'[i] \in Nat /\ k \in 1..Len(file[i])
      BY <1>2, <2>1 DEF Grew
    <3>2. QED
      BY SMTT(30), <3>1
  <2>2. CASE ~(committed >= app[w].end)
    BY <1>2, <2>2, LocatedActive DEF Grew
  <2>3. QED
    BY <2>1, <2>2
<1>4. i \in first'..active' /\ file'[i][k] = r
  BY SMTT(30), <1>2 DEF Grew
<1>5. QED
  BY <1>3, <1>4 DEF Fsynced

\* A step that only adds, finishes no append and starts none keeps both.
LEMMA GrewKeeps ==
  ASSUME Struct, phase = "up", Acknowledged, Pending, Grew
  PROVE  /\ \A r \in acked : r \in dropped' \/ Fsynced(r)'
         /\ \A w \in Writers : app'[w] = app[w] /\ app[w].pc \in {"wait", "sync"} =>
                app'[w].rec \in dropped' \/ Located(w)'
<1>1. dropped' = dropped
  BY DEF Grew
<1>2. QED
  BY <1>1, FsyncedGrew, LocatedGrew DEF Acknowledged, Pending

\* A step that leaves the log, and every file, as it is.
LEMMA GrewSame ==
  ASSUME Struct, UNCHANGED <<file, synced, first, active, base, committed, dropped>>
  PROVE  Grew
BY SMT, StructNumbers DEF Grew

\* The same, for what is acknowledged and what is pending.
LEMMA KeepsSame ==
  ASSUME Acknowledged, Pending,
         UNCHANGED <<file, synced, first, active, base, committed, app, acked, dropped>>
  PROVE  Acknowledged' /\ Pending'
<1>1. Acknowledged'
  BY DEF Acknowledged, Fsynced
<1>2. ASSUME NEW w \in Writers PROVE Located(w)' <=> Located(w)
  BY DEF Located
<1>3. Pending'
  BY <1>2 DEF Pending
<1>4. QED
  BY <1>1, <1>3

\* An fsync of some segment, which may move committed up to what it covers.
LEMMA GrewFsync ==
  ASSUME Struct, UNCHANGED <<file, first, active, base, dropped>>,
         \A i \in Index : synced'[i] \in Nat /\ synced[i] <= synced'[i],
         committed' \in Nat, committed' = committed \/ committed' - base[active] <= synced'[active]
  PROVE  Grew
<1> USE StructNumbers
<1>1. active' \in Nat /\ active <= active' /\ \A i \in first..active : i \in Index
  BY SMT
<1>2. \A i \in Index : Len(file'[i]) \in Nat /\ Len(file[i]) <= Len(file'[i])
  BY SMT
<1>3. QED
  BY <1>1, <1>2 DEF Grew

\* A step that does not touch what the garbage and the committer are about.
LEMMA RestSame ==
  ASSUME Garbage, Covered,
         UNCHANGED <<file, synced, torn, first, active, base, committed, flush>>,
         phase' = phase \/ phase' # "up"
  PROVE  Garbage' /\ Covered'
<1>1. Garbage'
  BY DEF Garbage
<1>2. Covered'
  BY DEF Covered
<1>3. QED
  BY <1>1, <1>2

LEMMA KeptInit == Init => Kept
<1> SUFFICES ASSUME Init PROVE Kept
  OBVIOUS
<1>1. Garbage
  BY SMT, WalAssumption DEF Init, Garbage, Index
<1>2. Covered
  BY DEF Init, Covered, NoFlush
<1>3. Acknowledged /\ Pending
  BY DEF Init, Acknowledged, Pending, Idle
<1>4. QED
  BY <1>1, <1>2, <1>3 DEF Kept

LEMMA SealGrew ==
  ASSUME Struct, phase = "up", SealSync, UNCHANGED <<file, first, dropped>>,
         active' \in Nat, active <= active', \A i \in first..active : base'[i] = base[i],
         synced' \in [Index -> Nat]
  PROVE  Grew
<1>1. /\ committed' = written
      /\ \A i \in Index : synced[i] <= synced'[i]
      /\ written > committed => synced'[active] = Len(file[active])
  BY SealFacts
<1>2. written = base[active] + Len(file[active]) /\ committed <= written
  BY DEF Struct, Layout
<1> USE StructNumbers
<1>3. committed' = committed \/ committed' - base[active] <= synced'[active]
  BY SMTT(30), <1>1, <1>2
<1>4. active \in Nat /\ \A i \in first..active : i \in Index
  OBVIOUS
<1>5. \A i \in Index : Len(file'[i]) \in Nat /\ Len(file[i]) <= Len(file'[i])
  BY SMT
<1>6. committed' \in Nat
  BY <1>1
<1>7. \A i \in Index : synced'[i] \in Nat
  OBVIOUS
<1>8. QED
  BY <1>1, <1>3, <1>4, <1>5, <1>6, <1>7 DEF Grew

LEMMA KeptAppendStart ==
  ASSUME Struct, Struct', Kept, NEW w \in Writers, AppendStart(w)
  PROVE  Kept'
<1>1. /\ phase = "up" /\ app[w].pc = "idle"
      /\ app' = [app EXCEPT ![w].pc = "write"]
      /\ UNCHANGED <<file, torn, first, phase, written, flush, acked, dropped>>
  BY DEF AppendStart, histVars
<1>2. \A v \in Writers : v # w => app'[v] = app[v]
  BY <1>1 DEF Struct, TypeOK
<1>3. app'[w].pc = "write"
  BY <1>1 DEF Struct, TypeOK
<1>4. CASE NeedsRotation /\ Rotate
  <2>1. /\ SealSync /\ active' = active + 1 /\ active < MaxSegments
        /\ base' = [base EXCEPT ![active + 1] = written]
    BY <1>4 DEF Rotate
  <2> USE StructNumbers
  <2>2. active' \in Nat /\ active <= active' /\ \A i \in first..active : base'[i] = base[i]
    <3>1. \A i \in first..active : i # active + 1 /\ i \in Index
      BY SMT
    <3>2. active' \in Nat /\ active <= active'
      BY SMTT(30), <2>1
    <3>3. \A i \in Index : i # active + 1 => base'[i] = base[i]
      BY <2>1 DEF Struct, TypeOK
    <3>4. QED
      BY <3>1, <3>2, <3>3
  <2>3. synced' \in [Index -> Nat]
    BY DEF Struct, TypeOK
  <2>4. Grew
    BY <1>1, <2>1, <2>2, <2>3, SealGrew
  <2>5. Garbage'
    <3>1. \A i \in first'..active' : i \in first..active \/ (i \in Index /\ i > active)
      BY SMTT(30), <1>1, <2>1, WalAssumption DEF Index
    <3>2. \A i \in first'..active' : torn'[i] = {}
      BY <1>1, <3>1 DEF Kept, Garbage, Struct, Lengths
    <3>3. QED
      BY <1>1, <3>2 DEF Kept, Garbage
  <2>6. Covered'
    <3>1. committed' = written /\ (flush.pc # "idle" => flush.snap <= written)
      BY <1>1, <2>1, SealFacts DEF Struct, Layout
    <3>2. QED
      BY SMTT(30), <1>1, <3>1 DEF Covered
  <2>7. Acknowledged' /\ Pending'
    BY <1>1, <1>2, <1>3, <2>4, GrewKeeps DEF Kept, Acknowledged, Pending
  <2>8. QED
    BY <2>5, <2>6, <2>7 DEF Kept
<1>5. CASE ~NeedsRotation /\ UNCHANGED <<synced, committed, active, base, baseMsgID>>
  <2> USE <1>5
  <2>1. Grew
    BY SMTT(30), <1>1, GrewSame
  <2>2. Acknowledged' /\ Pending'
    BY <1>1, <1>2, <1>3, <2>1, GrewKeeps DEF Kept, Acknowledged, Pending
  <2>3. Garbage' /\ Covered'
    BY <1>1, RestSame DEF Kept
  <2>4. QED
    BY <2>2, <2>3 DEF Kept
<1>6. QED
  BY <1>4, <1>5 DEF AppendStart

LEMMA KeptRotateFails ==
  ASSUME Struct, Struct', Kept, NEW w \in Writers, RotateFails(w)
  PROVE  Kept'
<1>1. /\ phase = "up" /\ SealSync
      /\ UNCHANGED <<file, torn, first, active, phase, base, written, app, flush, acked, dropped>>
  BY DEF RotateFails, procVars, histVars
<1>2. synced' \in [Index -> Nat]
  BY DEF Struct, TypeOK
<1> USE <1>1, StructNumbers
<1>3. Grew
  BY SMTT(30), <1>2, SealGrew
<1>4. Acknowledged' /\ Pending'
  BY <1>3, GrewKeeps DEF Kept, Acknowledged, Pending
<1>5. Garbage'
  BY DEF Kept, Garbage
<1>6. Covered'
  <2>1. committed' = written /\ (flush.pc # "idle" => flush.snap <= written)
    BY SealFacts DEF Struct, Layout
  <2>2. QED
    BY SMTT(30), <2>1 DEF Covered
<1>7. QED
  BY <1>4, <1>5, <1>6 DEF Kept

LEMMA KeptAppendWrite ==
  ASSUME Struct, Struct', Kept, SyncMode # "none", NEW w \in Writers, AppendWrite(w)
  PROVE  Kept'
<1> DEFINE rec == [id |-> nextMsgID, val |-> appends]
<1>1. /\ phase = "up" /\ written' = written + 1
      /\ UNCHANGED <<synced, torn, first, active, phase, base, flush, dropped, committed, acked>>
  BY DEF AppendWrite
<1>2. app'[w].rec = rec /\ app'[w].end = written + 1 /\ \A v \in Writers : v # w => app'[v] = app[v]
  <2>1. PICK x \in {"wait", "sync"} : app' = [app EXCEPT ![w] = [pc |-> x, end |-> written + 1, rec |-> rec]]
    BY DEF AppendWrite
  <2>2. w \in DOMAIN app /\ DOMAIN app = Writers
    BY DEF Struct, TypeOK
  <2>3. QED
    BY <2>1, <2>2
<1> USE <1>1, StructNumbers
<1>3. Grew
  <2>1. \A i \in first..active : Len(file'[i]) \in Nat
    <3>1. \A i \in first..active : i \in Index
      OBVIOUS
    <3>2. TypeOK'
      BY DEF Struct
    <3>3. \A i \in Index : Len(file'[i]) \in Nat
      BY <3>2, SeqLen DEF TypeOK
    <3>4. QED
      BY <3>1, <3>3
  <2>2. \A i \in first..active :
          Len(file[i]) <= Len(file'[i]) /\ \A k \in 1..Len(file[i]) : file'[i][k] = file[i][k]
    BY AppendWriteFacts
  <2>3. QED
    BY SMTT(30), <2>1, <2>2 DEF Grew
<1>4. Located(w)'
  <2>1. /\ Len(file'[active]) = Len(file[active]) + 1
        /\ file'[active][Len(file[active]) + 1] = rec
    BY AppendWriteFacts
  <2>2. written = base[active] + Len(file[active]) /\ committed <= written
    BY DEF Struct, Layout
  <2> USE <2>1
  <2>3. active \in first'..active' /\ Len(file[active]) + 1 \in 1..Len(file'[active])
    BY SMTT(30)
  <2>4. app'[w].end = base'[active] + (Len(file[active]) + 1) /\ ~(committed' >= app'[w].end)
    <3>1. app'[w].end = written + 1 /\ base' = base /\ committed' = committed
      BY <1>2
    <3>2. base[active] \in Nat /\ Len(file[active]) \in Nat /\ committed \in Nat /\ written \in Nat
      OBVIOUS
    <3>3. QED
      BY ONLY SMTT(30), <2>2, <3>1, <3>2
  <2>5. file'[active][Len(file[active]) + 1] = app'[w].rec
    BY <1>2
  <2> HIDE DEF rec
  <2>6. QED
    BY <2>3, <2>4, <2>5 DEF Located
<1>5. Acknowledged' /\ Pending'
  BY <1>2, <1>3, <1>4, GrewKeeps DEF Kept, Acknowledged, Pending
<1>6. Covered'
  BY DEF Kept, Covered
<1>7. Garbage'
  <2>1. torn[active] = {}
    BY DEF Kept, Garbage
  <2>2. \A i \in Index : i # active => file'[i] = file[i]
    BY AppendWriteFacts
  <2>3. QED
    BY <2>1, <2>2 DEF Kept, Garbage
<1>8. QED
  BY <1>5, <1>6, <1>7 DEF Kept

LEMMA KeptAppendWriteFails ==
  ASSUME Struct, Struct', Kept, "short" \notin Faults, NEW w \in Writers, AppendWriteFails(w)
  PROVE  Kept'
<1>1. /\ phase = "up" /\ app' = [app EXCEPT ![w] = Idle]
      /\ UNCHANGED <<file, synced, torn, first, active, phase, base, committed, flush, acked, dropped>>
  BY DEF AppendWriteFails, memVars, histVars
<1> USE <1>1
<1>2. \A v \in Writers : app'[v] = app[v] \/ app'[v].pc = "idle"
  BY DEF Struct, TypeOK, Idle
<1>3. Acknowledged' /\ Pending'
  BY <1>2, GrewSame, GrewKeeps DEF Kept, Acknowledged, Pending
<1>4. QED
  BY <1>3, RestSame DEF Kept

LEMMA KeptAppendSync ==
  ASSUME Struct, Struct', Kept, NEW w \in Writers, AppendSync(w)
  PROVE  Kept'
<1>1. /\ phase = "up" /\ app[w].pc = "sync" /\ app' = [app EXCEPT ![w] = Idle]
      /\ UNCHANGED <<file, torn, first, active, phase, base, written, flush, dropped>>
  BY DEF AppendSync
<1>2. \A v \in Writers : app'[v] = app[v] \/ app'[v].pc = "idle"
  BY <1>1 DEF Struct, TypeOK, Idle
<1>3. CASE /\ synced' = [synced EXCEPT ![active] = Len(file[active])]
           /\ committed' = app[w].end
           /\ acked' = acked \cup {app[w].rec}
  <2>1. app[w].end = written /\ written = base[active] + Len(file[active])
    BY <1>1 DEF Struct, Layout
  <2>2. /\ synced'[active] = Len(file[active])
        /\ \A i \in Index : synced[i] <= synced'[i]
    BY <1>3, FsyncFacts, StructNumbers
  <2>3. \A i \in Index : synced'[i] \in Nat
    BY DEF Struct, TypeOK
  <2>4. Grew
    <3>1. committed' \in Nat /\ committed' - base[active] <= synced'[active]
      BY SMTT(30), <1>3, <2>1, <2>2, StructNumbers
    <3>2. QED
      BY <1>1, <2>2, <2>3, <3>1, GrewFsync
  <2>5. ASSUME NEW r, r = app[w].rec PROVE r \in dropped \/ Fsynced(r)'
    <3>1. app[w].rec \in dropped \/ Located(w)
      BY <1>1 DEF Kept, Pending
    <3> USE <2>5
    <3>2. CASE Located(w)
      BY SMTT(30), <1>1, <2>2, <2>4, <3>2, LocatedFsynced
    <3>3. QED
      BY <3>1, <3>2
  <2>6. Acknowledged' /\ Pending'
    BY <1>1, <1>2, <1>3, <2>4, <2>5, GrewKeeps DEF Kept, Acknowledged, Pending
  <2>7. Garbage'
    BY <1>1 DEF Kept, Garbage
  <2>8. Covered'
    <3>1. flush.pc # "idle" => flush.snap <= written
      BY <1>1 DEF Struct, Layout
    <3>2. QED
      BY SMTT(30), <1>1, <1>3, <2>1, <3>1, StructNumbers DEF Covered
  <2>9. QED
    BY <2>6, <2>7, <2>8 DEF Kept
<1>4. CASE UNCHANGED <<synced, committed, acked>>
  <2> USE <1>4
  <2>1. Acknowledged' /\ Pending'
    BY <1>1, <1>2, GrewSame, GrewKeeps DEF Kept, Acknowledged, Pending
  <2>2. QED
    BY <1>1, <2>1, RestSame DEF Kept
<1>5. QED
  BY <1>3, <1>4 DEF AppendSync

LEMMA KeptAppendReturn ==
  ASSUME Struct, Struct', Kept, NEW w \in Writers, AppendReturn(w)
  PROVE  Kept'
<1>1. /\ phase = "up" /\ app[w].pc = "wait" /\ app' = [app EXCEPT ![w] = Idle]
      /\ UNCHANGED <<file, synced, torn, first, active, phase, base, committed, flush, dropped>>
      /\ acked' = acked \/ (committed >= app[w].end /\ acked' = acked \cup {app[w].rec})
  BY DEF AppendReturn, GroupCommitted, diskVars, memVars
<1> USE <1>1
<1>2. \A v \in Writers : app'[v] = app[v] \/ app'[v].pc = "idle"
  BY DEF Struct, TypeOK, Idle
<1>3. Grew
  BY GrewSame
<1>4. ASSUME NEW r \in acked', r \notin acked PROVE r \in dropped' \/ Fsynced(r)'
  <2>1. r = app[w].rec /\ committed >= app[w].end
    BY <1>4
  <2>2. app[w].rec \in dropped \/ Located(w)
    BY DEF Kept, Pending
  <2> USE <2>1
  <2>3. CASE Located(w)
    BY SMTT(30), <1>3, <2>3, LocatedFsynced
  <2>4. QED
    BY SMTT(30), <2>2, <2>3
<1>5. Acknowledged' /\ Pending'
  BY <1>2, <1>3, <1>4, GrewKeeps DEF Kept, Acknowledged, Pending
<1>6. QED
  BY <1>5, RestSame DEF Kept

LEMMA KeptFlush ==
  ASSUME Struct, Struct', Kept, FlushSnapshot \/ FlushSync \/ FlushPublish
  PROVE  Kept'
<1>1. CASE FlushSnapshot
  <2>1. /\ phase = "up"
        /\ flush' = [pc |-> "sync", snap |-> written, seg |-> active, err |-> FALSE]
        /\ UNCHANGED <<file, synced, torn, first, active, phase, base, committed, app, acked, dropped>>
    BY <1>1 DEF FlushSnapshot, diskVars, memVars, histVars
  <2> USE <2>1
  <2>2. Acknowledged' /\ Pending'
    BY GrewSame, GrewKeeps DEF Kept, Acknowledged, Pending
  <2>3. QED
    BY <2>2 DEF Kept, Garbage, Covered
<1>2. CASE FlushSync
  <2>1. /\ phase = "up" /\ flush.pc = "sync" /\ flush.seg \in Index
        /\ UNCHANGED <<file, torn, first, active, phase, base, written, committed, app, acked, dropped>>
    BY <1>2 DEF FlushSync, memVars, histVars, Struct, TypeOK
  <2>2. CASE /\ flush.seg >= first
             /\ synced' = [synced EXCEPT ![flush.seg] = Len(file[flush.seg])]
             /\ flush' = [flush EXCEPT !.pc = "publish"]
    <3>1. flush.seg <= active /\ (flush.snap > committed => flush.seg = active) /\ flush.snap <= written
            /\ written = base[active] + Len(file[active])
      BY <2>1 DEF Struct, Layout
    <3>2. flush.seg \in first..active
      BY SMTT(30), <2>1, <2>2, <3>1, StructNumbers, IndexFacts DEF Struct
    <3>3. /\ synced'[flush.seg] = Len(file[flush.seg])
          /\ \A i \in Index : synced[i] <= synced'[i]
      BY <2>1, <2>2, FsyncFacts
    <3>4. \A i \in Index : synced'[i] \in Nat
      BY DEF Struct, TypeOK
    <3>5. Grew
      BY <2>1, <3>3, <3>4, StructNumbers, GrewFsync
    <3>6. Acknowledged' /\ Pending'
      BY <2>1, <3>5, GrewKeeps DEF Kept, Acknowledged, Pending
    <3>7. Garbage'
      BY <2>1 DEF Kept, Garbage
    <3>8. Covered'
      <4>1. flush'.snap = flush.snap
        BY <2>2 DEF Struct, TypeOK
      <4>2. flush.snap > committed => flush.snap - base[active] <= synced'[active]
        BY SMTT(30), <3>1, <3>3, StructNumbers
      <4>3. QED
        BY SMTT(30), <2>1, <4>1, <4>2 DEF Covered
    <3>9. QED
      BY <3>6, <3>7, <3>8 DEF Kept
  <2>3. CASE flush' = [flush EXCEPT !.pc = "publish", !.err = TRUE] /\ UNCHANGED synced
    <3> USE <2>3
    <3>1. flush'.err = TRUE
      BY DEF Struct, TypeOK
    <3>2. Acknowledged' /\ Pending'
      BY <2>1, GrewSame, GrewKeeps DEF Kept, Acknowledged, Pending
    <3>3. QED
      BY <2>1, <3>1, <3>2 DEF Kept, Garbage, Covered
  <2>4. QED
    BY SMTT(30), <1>2, <2>2, <2>3 DEF FlushSync
<1>3. CASE FlushPublish
  <2>1. /\ phase = "up" /\ flush.pc = "publish" /\ flush' = NoFlush
        /\ committed' = PublishOffset
        /\ UNCHANGED <<file, synced, torn, first, active, phase, base, app, acked, dropped>>
    BY <1>3 DEF FlushPublish, diskVars, histVars
  <2> USE <2>1
  <2>2. committed' = committed \/ committed' - base[active] <= synced[active]
    BY DEF Kept, Covered, PublishOffset
  <2>3. committed' \in Nat
    BY DEF Struct, TypeOK
  <2>4. Grew
    BY SMTT(30), <2>2, <2>3, StructNumbers DEF Grew
  <2>5. Acknowledged' /\ Pending'
    BY <2>4, GrewKeeps DEF Kept, Acknowledged, Pending
  <2>6. Garbage' /\ Covered'
    BY DEF Kept, Garbage, Covered, NoFlush
  <2>7. QED
    BY <2>5, <2>6 DEF Kept
<1>4. QED
  BY <1>1, <1>2, <1>3

\* Retention moves the records of the segments it removes to dropped.
LEMMA KeptDrop ==
  ASSUME Struct, Struct', Kept, NEW keepIndex \in Index, DropSegmentsBefore(keepIndex)
  PROVE  Kept'
<1> DEFINE gone == UNION {RecordsIn(i) : i \in first..(first' - 1)}
<1>1. /\ phase = "up" /\ first < first' /\ dropped' = dropped \cup gone
      /\ UNCHANGED <<file, synced, torn, active, phase, base, committed, app, flush, acked>>
  BY DEF DropSegmentsBefore, memVars, procVars
<1> USE StructNumbers
<1>2. first' \in Nat /\ first' <= active
  BY <1>1, IndexFacts DEF Struct, TypeOK
<1>3. \A i \in first'..active : i \in first..active
  BY SMTT(30), <1>1, <1>2
<1>4. \A i \in first..active : i \in first'..active \/ i \in first..(first' - 1)
  <2>1. first \in Int /\ active \in Int /\ first' \in Int
    BY SMTT(30), <1>2
  <2>2. QED
    BY <2>1, IntervalSplit
<1>5. \A i \in first..active : \A k \in 1..Len(file[i]) : i \in first'..active \/ file[i][k] \in gone
  <2>1. ASSUME NEW i \in first..(first' - 1), NEW k \in 1..Len(file[i]) PROVE file[i][k] \in gone
    <3>1. file[i][k] \in RecordsIn(i)
      BY DEF RecordsIn
    <3>2. QED
      BY <3>1
  <2> HIDE DEF gone
  <2>2. QED
    BY <1>4, <2>1
<1> HIDE DEF gone
<1>6. Acknowledged'
  <2>1. ASSUME NEW r, Fsynced(r) PROVE r \in gone \/ Fsynced(r)'
    <3>1. PICK i \in first..active : \E k \in 1..synced[i] : file[i][k] = r
      BY <2>1 DEF Fsynced
    <3>2. PICK k \in 1..synced[i] : file[i][k] = r
      BY <3>1
    <3>3. k \in 1..Len(file[i])
      BY SMTT(30)
    <3>4. QED
      BY <1>1, <1>5, <3>2, <3>3 DEF Fsynced
  <2>2. QED
    BY <1>1, <2>1 DEF Kept, Acknowledged
<1>7. Pending'
  <2>1. ASSUME NEW w \in Writers, Located(w) PROVE app'[w].rec \in gone \/ Located(w)'
    <3>1. PICK i \in first..active : \E k \in 1..Len(file[i]) :
            /\ file[i][k] = app[w].rec
            /\ app[w].end = base[i] + k
            /\ committed >= app[w].end => k <= synced[i]
      BY <2>1 DEF Located
    <3>2. PICK k \in 1..Len(file[i]) :
            /\ file[i][k] = app[w].rec
            /\ app[w].end = base[i] + k
            /\ committed >= app[w].end => k <= synced[i]
      BY <3>1
    <3>3. QED
      BY <1>1, <1>5, <3>2 DEF Located
  <2>2. QED
    BY <1>1, <2>1 DEF Kept, Pending
<1>8. Garbage' /\ Covered'
  BY <1>1, <1>3 DEF Kept, Garbage, Covered
<1>9. QED
  BY <1>6, <1>7, <1>8 DEF Kept

\* Of the records that were fsynced none is lost, and nobody waits any more.
LEMMA KeptStopped ==
  ASSUME Struct, Kept, Stopped, Garbage', \A r : Fsynced(r) => Fsynced(r)'
  PROVE  Kept'
<1>1. acked' = acked /\ dropped' = dropped /\ phase' = "down" /\ app' = [w \in Writers |-> Idle]
  BY DEF Stopped
<1> USE <1>1
<1>2. Acknowledged'
  BY DEF Kept, Acknowledged
<1>3. Pending' /\ Covered'
  BY DEF Pending, Covered, Idle
<1>4. QED
  BY <1>2, <1>3 DEF Kept

\* A machine failure takes nothing that was fsynced.
LEMMA FsyncedPowerLoss ==
  ASSUME Struct, PowerLoss, NEW r, Fsynced(r)
  PROVE  Fsynced(r)'
<1>1. /\ active' \in first..active /\ first' = first
      /\ \A i \in (active' + 1)..active : synced[i] = 0
  BY PowerLossFacts DEF Stopped, Struct
<1>2. PICK i \in first..active : \E k \in 1..synced[i] : file[i][k] = r
  BY DEF Fsynced
<1>3. PICK k \in 1..synced[i] : file[i][k] = r
  BY <1>2
<1>4. i \in first..active'
  <2>1. synced[i] # 0 /\ i \in Nat /\ first \in Nat /\ active \in Nat
    BY SMTT(30), StructNumbers
  <2>2. active' \in Nat
    BY <1>1, StructNumbers
  <2> USE <2>1
  <2>3. i \notin (active' + 1)..active
    BY <1>1
  <2>4. first \in Int /\ active \in Int /\ active' \in Int
    BY SMTT(30), <2>2
  <2>5. QED
    BY <2>3, <2>4, IntervalUpTo
<1>5. i \in Index /\ synced[i] \in Nat /\ synced[i] <= Len(file[i])
  BY StructNumbers
<1> USE <1>5
<1>6. file'[i] \in Seq(Record) /\ synced'[i] = Len(file'[i]) /\ synced[i] <= synced'[i]
        /\ \A m \in 1..Len(file'[i]) : file'[i][m] = file[i][m]
  BY <1>4, PowerLossFacts DEF Struct
<1> USE <1>6
<1>7. k \in 1..synced'[i] /\ k \in 1..Len(file'[i])
  <2>1. Len(file'[i]) \in Nat
    BY SeqLen
  <2>2. QED
    BY SMTT(30), <2>1
<1> USE <1>7
<1>8. file'[i][k] = r
  BY <1>3
<1>9. QED
  BY <1>1, <1>4, <1>8 DEF Fsynced

LEMMA KeptStops ==
  ASSUME Struct, Struct', Kept,
         CloseStart \/ FinalFlushEmpty \/ CloseFinish \/ Kill \/ Exit \/ PowerLoss \/ OpenFails
  PROVE  Kept'
<1>1. CASE CloseStart \/ FinalFlushEmpty \/ CloseFinish \/ OpenFails
  <2>1. /\ UNCHANGED <<file, synced, torn, first, active, base, committed, app, flush, acked, dropped>>
        /\ phase' = phase \/ phase' # "up"
    BY <1>1 DEF CloseStart, FinalFlushEmpty, CloseFinish, OpenFails, diskVars, memVars, procVars,
       histVars
  <2> USE <2>1
  <2>2. Acknowledged' /\ Pending'
    BY KeepsSame DEF Kept
  <2>3. QED
    BY <2>2, RestSame DEF Kept
<1>2. CASE Kill \/ Exit
  <2> USE <1>2
  <2>1. Stopped /\ UNCHANGED <<file, synced, active, first>> /\ phase' = "down"
    BY DEF Kill, Exit, MaybeTorn, Stopped
  <2>2. ASSUME NEW i \in Index, NEW t \in torn'[i] PROVE t = Len(file[i])
    <3>1. t \in torn[i] \/ (i = active /\ t = Len(file[active]))
      <4>1. CASE UNCHANGED torn
        BY <4>1
      <4>2. CASE torn' = [torn EXCEPT ![active] = @ \cup {Len(file[active])}]
        BY <4>2 DEF Struct, TypeOK
      <4>3. QED
        BY <4>1, <4>2 DEF Kill, Exit, MaybeTorn
    <3>2. QED
      BY <3>1 DEF Kept, Garbage
  <2> USE <2>1
  <2>3. Garbage' /\ \A r : Fsynced(r) => Fsynced(r)'
    BY <2>2 DEF Garbage, Fsynced
  <2>4. QED
    BY <2>3, KeptStopped
<1>3. CASE PowerLoss
  <2>1. /\ Stopped /\ active' \in first..active /\ first' = first /\ phase' = "down"
        /\ \A i \in (active' + 1)..active : synced[i] = 0
    BY <1>3, PowerLossFacts DEF Stopped, Struct
  <2>2. ASSUME NEW i \in Index
        PROVE  /\ synced'[i] = Len(file'[i]) /\ Len(file'[i]) \in Nat
               /\ \A k \in 1..Len(file'[i]) : file'[i][k] = file[i][k]
               /\ \A t \in torn'[i] : t = Len(file'[i]) \/ (t \in torn[i] /\ t < Len(file'[i]))
               /\ i \in first..active' => synced[i] <= synced'[i]
    <3>1. file'[i] \in Seq(Record)
      BY <1>3, PowerLossFacts DEF Struct
    <3>2. Len(file'[i]) \in Nat
      BY <3>1, SeqLen
    <3>3. QED
      BY <1>3, <3>2, PowerLossFacts, StructNumbers DEF Struct
  <2>3. ASSUME NEW i \in Index, NEW t \in torn'[i] PROVE t = Len(file'[i])
    <3>1. Len(file'[i]) <= Len(file[i])
      BY SMTT(30), <1>3, PowerLossFacts DEF Struct
    <3> USE <2>2
    <3>2. ~(t \in torn[i] /\ t < Len(file'[i]))
      BY SMTT(30), <3>1, StructNumbers DEF Kept, Garbage
    <3>3. QED
      BY <3>2
  <2>4. \A r : Fsynced(r) => Fsynced(r)'
    BY <1>3, FsyncedPowerLoss
  <2> USE <2>1
  <2>5. Garbage'
    BY <2>3 DEF Garbage
  <2>6. QED
    BY <2>4, <2>5, KeptStopped
<1>4. QED
  BY <1>1, <1>2, <1>3

\* With garbage only at the end of a file, recovery cuts no record off.
LEMMA OpenWhole ==
  ASSUME Struct, Kept, Open
  PROVE  /\ torn'[active] = {} /\ Len(file'[active]) = Len(file[active])
         /\ \A i \in Index : i # active => file'[i] = file[i] /\ torn'[i] = torn[i]
         /\ \A r : Fsynced(r) => Fsynced(r)'
<1>1. UNCHANGED <<first, active>>
  BY DEF Open
<1> USE StructNumbers
<1>2. GoodLen(active) = Len(file[active])
  <2>1. GoodLen(active) \in torn[active] \cup {Len(file[active])}
    BY GoodLenProperties DEF Struct
  <2>2. QED
    BY <2>1 DEF Kept, Garbage
<1>3. /\ torn'[active] = {} /\ Len(file'[active]) = Len(file[active])
      /\ synced'[active] = synced[active]
      /\ \A k \in 1..Len(file[active]) : file'[active][k] = file[active][k]
      /\ \A i \in Index : i # active => file'[i] = file[i] /\ synced'[i] = synced[i] /\ torn'[i] = torn[i]
  BY <1>2, OpenFacts DEF Struct
<1>4. \A i \in Index : synced'[i] = synced[i] /\ \A k \in 1..Len(file[i]) : file'[i][k] = file[i][k]
  BY <1>3
<1>5. ASSUME NEW r, Fsynced(r) PROVE Fsynced(r)'
  <2>1. PICK i \in first..active : \E k \in 1..synced[i] : file[i][k] = r
    BY <1>5 DEF Fsynced
  <2>2. PICK k \in 1..synced[i] : file[i][k] = r
    BY <2>1
  <2>3. i \in Index /\ k \in 1..Len(file[i])
    BY SMT
  <2>4. QED
    BY <1>1, <1>4, <2>2, <2>3 DEF Fsynced
<1>6. QED
  BY <1>3, <1>5

LEMMA KeptOpen ==
  ASSUME Struct, Struct', Kept, Open
  PROVE  Kept'
<1>1. /\ phase = "down" /\ UNCHANGED <<first, active, app, flush, acked, dropped>>
      /\ \A i \in first..(active - 1) : torn[i] = {}
  BY DEF Open, procVars, histVars, SealedSegments
<1>2. /\ torn'[active] = {} /\ Len(file'[active]) = Len(file[active])
      /\ \A i \in Index : i # active => file'[i] = file[i] /\ torn'[i] = torn[i]
  BY OpenWhole
<1>3. \A r : Fsynced(r) => Fsynced(r)'
  BY OpenWhole
<1>4. Garbage'
  <2> USE StructNumbers
  <2>1. \A i \in first..active : i \in first..(active - 1) \/ i = active
    BY SMTT(30)
  <2> USE <1>2
  <2>2. \A i \in first..active : torn'[i] = {}
    BY <1>1, <2>1
  <2>3. \A i \in Index : \A t \in torn'[i] : t = Len(file'[i])
    BY DEF Kept, Garbage
  <2>4. QED
    BY <1>1, <2>2, <2>3 DEF Garbage
<1>5. \A w \in Writers : app'[w].pc = "idle"
  BY <1>1 DEF Struct, Mutex
<1>6. flush'.pc = "idle"
  BY <1>1 DEF Struct, Mutex
<1>7. Acknowledged' /\ Pending' /\ Covered'
  BY SMTT(30), <1>1, <1>3, <1>5, <1>6 DEF Kept, Acknowledged, Pending, Covered
<1>8. QED
  BY <1>4, <1>7 DEF Kept

LEMMA KeptStutter == Kept /\ UNCHANGED vars => Kept'
<1> SUFFICES ASSUME Kept, UNCHANGED vars PROVE Kept'
  OBVIOUS
<1>1. UNCHANGED <<file, synced, torn, first, active, phase, base, committed, app, flush, acked, dropped>>
  BY DEF vars, state, diskVars, memVars, procVars, histVars
<1> USE <1>1
<1>2. Acknowledged' /\ Pending'
  BY KeepsSame DEF Kept
<1>3. QED
  BY <1>2 DEF Kept, Garbage, Covered

LEMMA KeptStep ==
  ASSUME SyncMode # "none", "short" \notin Faults
  PROVE  Struct /\ Struct' /\ Kept /\ [Next]_vars => Kept'
BY SMTT(30), KeptAppendStart, KeptRotateFails, KeptAppendWrite, KeptAppendWriteFails, KeptAppendSync, KeptAppendReturn, KeptFlush, KeptDrop, KeptStops, KeptOpen, KeptStutter DEF Next

LEMMA KeptAcked == Struct /\ Kept => AckedSurvives
<1> SUFFICES ASSUME Struct, Kept, NEW r \in acked, r \notin dropped PROVE r \in Persisted
  BY DEF AckedSurvives
<1>1. PICK i \in first..active : \E k \in 1..synced[i] : file[i][k] = r
  BY DEF Kept, Acknowledged, Fsynced
<1>2. PICK k \in 1..synced[i] : file[i][k] = r
  BY <1>1
<1>3. i \in Index /\ synced[i] \in Nat /\ Len(file[i]) \in Nat /\ synced[i] <= Len(file[i])
  BY StructNumbers
<1> USE <1>3
<1>4. GoodLen(i) = Len(file[i])
  BY GoodLenProperties DEF Struct, Kept, Garbage
<1>5. MinOf({synced[i], GoodLen(i)}) = synced[i]
  <2> USE <1>4
  <2>1. {synced[i], GoodLen(i)} \in SUBSET Nat
    OBVIOUS
  <2>2. MinOf({synced[i], GoodLen(i)}) \in {synced[i], GoodLen(i)}
          /\ \A n \in {synced[i], GoodLen(i)} : MinOf({synced[i], GoodLen(i)}) <= n
    BY <2>1, MinOfProperties
  <2>3. QED
    BY SMTT(30), <2>2
<1>6. r \in {file[i][n] : n \in 1..MinOf({synced[i], GoodLen(i)})}
  BY <1>2, <1>5
<1>7. QED
  BY <1>6 DEF Persisted

\* The setups in which an OK is a promise, and what is kept in them.
Lossless == SyncMode # "none" /\ "short" \notin Faults
Promise  == Lossless => Kept

LEMMA PromiseInit == Init => Struct /\ Promise
BY StructInit, KeptInit DEF Promise

LEMMA PromiseStep == Struct /\ Promise /\ [Next]_vars => Struct' /\ Promise'
<1> SUFFICES ASSUME Struct, Promise, [Next]_vars PROVE Struct' /\ Promise'
  OBVIOUS
<1>1. Struct'
  BY StructStep
<1>2. Lossless' = Lossless
  BY SetupFixed DEF Lossless, SyncMode, Faults
<1> USE <1>1
<1>3. CASE Lossless
  BY <1>3, KeptStep DEF Promise, Lossless
<1>4. CASE ~Lossless
  BY <1>2, <1>4 DEF Promise
<1>5. QED
  BY <1>3, <1>4

\* An OK is durable.  With fsync (per message or batched) and without half-done
\* writes, every record whose Append returned without error stays on disk in front
\* of any damage, through any sequence of graceful stops, SIGKILLs and machine
\* failures, failing fsyncs included, until retention removes its segment.
THEOREM AckedRecordsSurvive == Spec => []AckedSurvives
<1>1. Struct /\ Promise => AckedSurvives
  <2>1. CASE Lossless
    BY <2>1, KeptAcked DEF Promise
  <2>2. CASE ~Lossless
    BY <2>2 DEF AckedSurvives, Lossless
  <2>3. QED
    BY <2>1, <2>2
<1>2. QED
  BY <1>1, PromiseInit, PromiseStep, PTL DEF Spec

----------------------------------------------------------------------------
(* Module Wal implements PartitionLog. *)

\* In a durable log what a scan of the fsynced bytes finds is all of them.
LEMMA PersistedIsFsynced ==
  ASSUME Struct, Garbage, NEW r
  PROVE  r \in Persisted <=> Fsynced(r)
<1>1. ASSUME NEW i \in first..active PROVE MinOf({synced[i], GoodLen(i)}) = synced[i]
  <2>1. i \in Index /\ synced[i] \in Nat /\ Len(file[i]) \in Nat /\ synced[i] <= Len(file[i])
    BY StructNumbers
  <2> USE <2>1
  <2>2. GoodLen(i) = Len(file[i])
    <3>1. GoodLen(i) \in torn[i] \cup {Len(file[i])}
      BY GoodLenProperties DEF Struct
    <3>2. QED
      BY <3>1 DEF Garbage
  <2> USE <2>2
  <2>3. {synced[i], GoodLen(i)} \in SUBSET Nat
    OBVIOUS
  <2>4. MinOf({synced[i], GoodLen(i)}) \in {synced[i], GoodLen(i)}
          /\ \A n \in {synced[i], GoodLen(i)} : MinOf({synced[i], GoodLen(i)}) <= n
    BY <2>3, MinOfProperties
  <2>5. QED
    BY SMTT(30), <2>4
<1>2. r \in Persisted <=> \E i \in first..active : \E k \in 1..MinOf({synced[i], GoodLen(i)}) : file[i][k] = r
  <2> DEFINE In(i) == {file[i][k] : k \in 1..MinOf({synced[i], GoodLen(i)})}
  <2>1. \A i : r \in In(i) <=> \E k \in 1..MinOf({synced[i], GoodLen(i)}) : file[i][k] = r
    OBVIOUS
  <2>2. Persisted = UNION {In(i) : i \in first..active}
    BY DEF Persisted
  <2> HIDE DEF In
  <2>3. r \in Persisted <=> \E i \in first..active : r \in In(i)
    BY <2>2
  <2>4. QED
    BY <2>1, <2>3
<1>3. QED
  BY <1>1, <1>2 DEF Fsynced

\* A MsgID names one record.
LEMMA PersistedUnique ==
  ASSUME Struct, Garbage, Ordered
  PROVE  Log!Unique(Persisted)
<1> SUFFICES ASSUME NEW r \in Persisted, NEW s \in Persisted, r.id = s.id PROVE r = s
  BY DEF Log!Unique
<1>1. Fsynced(r) /\ Fsynced(s)
  BY PersistedIsFsynced
<1>2. PICK i \in first..active : \E k \in 1..synced[i] : file[i][k] = r
  BY <1>1 DEF Fsynced
<1>3. PICK k \in 1..synced[i] : file[i][k] = r
  BY <1>2
<1>4. PICK j \in first..active : \E l \in 1..synced[j] : file[j][l] = s
  BY <1>1 DEF Fsynced
<1>5. PICK l \in 1..synced[j] : file[j][l] = s
  BY <1>4
<1>6. i \in Index /\ j \in Index /\ i \in Nat /\ j \in Nat
  BY StructNumbers
<1>7. k \in 1..Len(file[i]) /\ l \in 1..Len(file[j])
  BY SMTT(30), <1>6, StructNumbers
<1>8. file[i][k].id \in Nat /\ file[j][l].id \in Nat
  <2>1. file[i] \in Seq(Record) /\ file[j] \in Seq(Record)
    BY SMT, <1>6 DEF Struct, TypeOK
  <2>2. file[i][k] \in Record /\ file[j][l] \in Record
    BY SMTT(30), <1>7, <2>1, SeqElement
  <2>3. QED
    BY <2>2 DEF Record
<1>9. ~(file[i][k].id < file[j][l].id) /\ ~(file[j][l].id < file[i][k].id)
  BY SMTT(30), <1>3, <1>5, <1>8
<1>10. ~Older(i, k, j, l) /\ ~Older(j, l, i, k)
  BY <1>7, <1>9 DEF Ordered, Ascending
<1>11. i = j /\ k = l
  BY SMTT(30), <1>6, <1>7, <1>10 DEF Older
<1>12. QED
  BY <1>3, <1>5, <1>11

----------------------------------------------------------------------------
(* Steps other than DropSegmentsBefore only add. *)

LEMMA FsyncedMore ==
  ASSUME Struct, first' = first, active' \in Nat, active <= active',
         \A i \in Index : synced'[i] \in Nat /\ synced[i] <= synced'[i],
         \A i \in Index : \A k \in 1..Len(file[i]) : file'[i][k] = file[i][k],
         NEW r, Fsynced(r)
  PROVE  Fsynced(r)'
<1>1. PICK i \in first..active : \E k \in 1..synced[i] : file[i][k] = r
  BY DEF Fsynced
<1>2. PICK k \in 1..synced[i] : file[i][k] = r
  BY <1>1
<1>3. /\ i \in Index /\ i \in Nat /\ first \in Nat /\ active \in Nat
      /\ synced[i] \in Nat /\ Len(file[i]) \in Nat /\ synced[i] <= Len(file[i])
  BY StructNumbers
<1> USE <1>3
<1>4. i \in first'..active' /\ k \in 1..Len(file[i]) /\ k \in 1..synced'[i]
  BY SMT
<1> USE <1>4
<1>5. file'[i][k] = r
  BY <1>2
<1>6. QED
  BY <1>5 DEF Fsynced

LEMMA AppendAdds ==
  ASSUME Struct, Struct', NEW w \in Writers,
         \/ AppendStart(w) \/ RotateFails(w) \/ AppendWrite(w)
         \/ AppendWriteFails(w) \/ AppendSync(w) \/ AppendReturn(w)
  PROVE  /\ \A r : Fsynced(r) => Fsynced(r)'
         /\ dropped' = dropped /\ acked \subseteq acked'
<1>0. \A i \in Index : synced'[i] \in Nat
  BY DEF Struct, TypeOK
<1>1. active \in Nat /\ active \in Index /\ \A i \in Index : synced[i] \in Nat
  BY StructNumbers
<1> USE <1>1
<1>2. CASE AppendStart(w)
  <2>1. phase = "up" /\ UNCHANGED <<file, first, acked, dropped>>
    BY <1>2 DEF AppendStart, histVars
  <2>2. /\ active' = active \/ active' = active + 1
        /\ SealSync \/ UNCHANGED synced
    BY <1>2 DEF AppendStart, Rotate
  <2> USE <2>2
  <2>3. \A i \in Index : synced[i] <= synced'[i]
    BY SMTT(30), <2>1, SealFacts
  <2>4. active' \in Nat /\ active <= active'
    BY SMT
  <2>5. QED
    BY <1>0, <2>1, <2>3, <2>4, FsyncedMore
<1>3. CASE RotateFails(w)
  <2>1. phase = "up" /\ SealSync /\ UNCHANGED <<file, first, active, acked, dropped>>
    BY <1>3 DEF RotateFails, histVars
  <2> USE <2>1
  <2>2. \A i \in Index : synced[i] <= synced'[i]
    BY SealFacts
  <2>3. active' \in Nat /\ active <= active'
    BY SMTT(30)
  <2>4. QED
    BY <1>0, <2>2, <2>3, FsyncedMore
<1>4. CASE AppendWrite(w)
  <2>1. UNCHANGED <<synced, first, active, dropped>> /\ acked \subseteq acked'
    BY <1>4 DEF AppendWrite
  <2>2. \A i \in Index : \A k \in 1..Len(file[i]) : file'[i][k] = file[i][k]
    BY <1>4, AppendWriteFacts
  <2> USE <2>1
  <2>3. active' \in Nat /\ active <= active' /\ \A i \in Index : synced[i] <= synced'[i]
    BY SMTT(30)
  <2>4. QED
    BY <1>0, <2>2, <2>3, FsyncedMore
<1>5. CASE AppendWriteFails(w) \/ AppendReturn(w)
  <2>1. UNCHANGED <<file, synced, first, active, dropped>> /\ acked \subseteq acked'
    BY <1>5 DEF AppendWriteFails, AppendReturn, diskVars, histVars
  <2>2. QED
    BY <2>1 DEF Fsynced
<1>6. CASE AppendSync(w)
  <2>1. /\ UNCHANGED <<file, first, active, dropped>> /\ acked \subseteq acked'
        /\ UNCHANGED synced \/ synced' = [synced EXCEPT ![active] = Len(file[active])]
    BY <1>6 DEF AppendSync
  <2>2. \A i \in Index : synced[i] <= synced'[i]
    <3>1. CASE UNCHANGED synced
      BY SMTT(30), <3>1
    <3>2. CASE synced' = [synced EXCEPT ![active] = Len(file[active])]
      BY <3>2, FsyncFacts
    <3>3. QED
      BY <2>1, <3>1, <3>2
  <2>3. active' \in Nat /\ active <= active'
    BY SMTT(30), <2>1
  <2>4. QED
    BY <1>0, <2>1, <2>2, <2>3, FsyncedMore
<1>7. QED
  BY <1>2, <1>3, <1>4, <1>5, <1>6

LEMMA FlushAdds ==
  ASSUME Struct, Struct', FlushSnapshot \/ FlushSync \/ FlushPublish
  PROVE  /\ \A r : Fsynced(r) => Fsynced(r)'
         /\ dropped' = dropped /\ acked \subseteq acked'
<1>1. CASE FlushSnapshot \/ FlushPublish
  <2>1. UNCHANGED <<file, synced, first, active, acked, dropped>>
    BY <1>1 DEF FlushSnapshot, FlushPublish, diskVars, histVars
  <2>2. QED
    BY <2>1 DEF Fsynced
<1>2. CASE FlushSync
  <2>1. /\ UNCHANGED <<file, first, active, acked, dropped>>
        /\ UNCHANGED synced \/ synced' = [synced EXCEPT ![flush.seg] = Len(file[flush.seg])]
    BY <1>2 DEF FlushSync, histVars
  <2>2. /\ flush.seg \in Index /\ active \in Nat
        /\ \A i \in Index : synced[i] \in Nat /\ synced'[i] \in Nat
    BY StructNumbers DEF Struct, TypeOK
  <2> USE <2>2
  <2>3. \A i \in Index : synced[i] <= synced'[i]
    <3>1. CASE UNCHANGED synced
      BY SMT, <3>1
    <3>2. CASE synced' = [synced EXCEPT ![flush.seg] = Len(file[flush.seg])]
      BY <3>2, FsyncFacts
    <3>3. QED
      BY <2>1, <3>1, <3>2
  <2>4. active' \in Nat /\ active <= active'
    BY SMTT(30), <2>1
  <2>5. QED
    BY <2>1, <2>3, <2>4, FsyncedMore
<1>3. QED
  BY <1>1, <1>2

LEMMA StopOpenAdds ==
  ASSUME Struct, Kept,
         \/ CloseStart \/ FinalFlushEmpty \/ CloseFinish \/ Kill \/ Exit \/ PowerLoss
         \/ OpenFails \/ Open \/ UNCHANGED vars
  PROVE  /\ \A r : Fsynced(r) => Fsynced(r)'
         /\ dropped' = dropped /\ acked \subseteq acked'
<1>1. UNCHANGED <<acked, dropped>>
  BY DEF CloseStart, FinalFlushEmpty, CloseFinish, Kill, Exit, MaybeTorn, PowerLoss, OpenFails, Open, Stopped,
     vars, state, histVars
<1> USE <1>1
<1>2. CASE CloseStart \/ FinalFlushEmpty \/ CloseFinish \/ Kill \/ Exit \/ OpenFails \/ UNCHANGED vars
  <2>1. UNCHANGED <<file, synced, first, active>>
    BY <1>2 DEF CloseStart, FinalFlushEmpty, CloseFinish, Kill, Exit, MaybeTorn, OpenFails, Stopped,
       vars, state, diskVars
  <2>2. \A r : Fsynced(r) => Fsynced(r)'
    BY <2>1 DEF Fsynced
  <2>3. QED
    BY <2>2
<1>3. CASE PowerLoss
  BY <1>3, FsyncedPowerLoss
<1>4. CASE Open
  BY <1>4, OpenWhole
<1>5. QED
  BY <1>2, <1>3, <1>4

----------------------------------------------------------------------------
(* The refinement. *)

\* What the abstract variables are in a durable log.
View ==
    Durable => /\ \A r : r \in Persisted <=> Fsynced(r)
               /\ Log!Unique(Persisted)

LEMMA Viewed == Struct /\ Promise /\ Ordered => View
<1> SUFFICES ASSUME Struct, Promise, Ordered, Durable
             PROVE  (\A r : r \in Persisted <=> Fsynced(r)) /\ Log!Unique(Persisted)
  BY DEF View
<1>1. Garbage
  BY DEF Promise, Lossless, Durable, Kept
<1>2. QED
  BY <1>1, PersistedIsFsynced, PersistedUnique

\* A step that only adds is an Accept.
LEMMA Accepts ==
  ASSUME Durable, Durable', View, View', Acknowledged',
         \A r : Fsynced(r) => Fsynced(r)', dropped' = dropped, acked \subseteq acked'
  PROVE  Log!Accept
<1>1. \A r : r \in Persisted <=> Fsynced(r)
  BY DEF View
<1>2. (\A r : r \in Persisted' <=> Fsynced(r)') /\ Log!Unique(Persisted')
  BY DEF View, Log!Unique
<1> USE <1>2
<1>3. Persisted \subseteq Persisted'
  BY <1>1
<1>4. acked' \subseteq acked \cup Persisted' \cup dropped
  BY DEF Acknowledged
<1>5. QED
  BY SMTT(30), <1>3, <1>4 DEF Log!Accept

LEMMA IntervalsApart ==
  ASSUME NEW a \in Int, NEW b \in Int, NEW c \in Int, a < b, b <= c, NEW i \in b..c, NEW j \in a..(b - 1)
  PROVE  i \in a..c /\ j \in a..c /\ j < i
BY SMT

\* A dropped segment is a Trim.
LEMMA Trims ==
  ASSUME Struct, Struct', Ordered, Durable, Durable', View, View',
         NEW keepIndex \in Index, DropSegmentsBefore(keepIndex)
  PROVE  Log!Trim
<1> DEFINE gone == UNION {RecordsIn(i) : i \in first..(first' - 1)}
<1>1. /\ first < first' /\ dropped' = dropped \cup gone
      /\ UNCHANGED <<file, synced, active, acked>>
  BY DEF DropSegmentsBefore
<1>2. first' \in Nat /\ first \in Nat /\ active \in Nat /\ first' <= active
  BY <1>1, StructNumbers, IndexFacts DEF Struct, TypeOK
<1>3. /\ \A r : r \in Persisted <=> Fsynced(r)
      /\ \A r : r \in Persisted' <=> Fsynced(r)'
  BY DEF View
<1>4. \A i \in first'..active : i \in first..active
  BY SMTT(30), <1>1, <1>2
<1>5. Persisted' \subseteq Persisted
  BY <1>1, <1>3, <1>4 DEF Fsynced
<1>6. ASSUME NEW s \in Persisted, s \notin Persisted'
      PROVE  \E j \in first..(first' - 1) : \E l \in 1..Len(file[j]) : file[j][l] = s
  <2>1. PICK j \in first..active : \E l \in 1..synced[j] : file[j][l] = s
    BY <1>3 DEF Fsynced
  <2>2. PICK l \in 1..synced[j] : file[j][l] = s
    BY <2>1
  <2>3. j \notin first'..active
    BY <1>1, <1>3, <1>6, <2>2 DEF Fsynced
  <2>4. j \in first..(first' - 1)
    <3>1. first \in Int /\ active \in Int /\ first' \in Int
      BY SMTT(30), <1>2
    <3>2. QED
      BY <2>3, <3>1, IntervalSplit
  <2>5. l \in 1..Len(file[j])
    BY SMTT(30), StructNumbers
  <2>6. QED
    BY <2>2, <2>4, <2>5
<1>7. Persisted \ Persisted' \subseteq gone
  <2> SUFFICES ASSUME NEW s \in Persisted, s \notin Persisted' PROVE s \in gone
    OBVIOUS
  <2>1. PICK j \in first..(first' - 1) : s \in RecordsIn(j)
    BY <1>6 DEF RecordsIn
  <2>2. QED
    BY <2>1
<1> HIDE DEF gone
<1>8. Log!Newer(Persisted', Persisted \ Persisted')
  <2> SUFFICES ASSUME NEW r \in Persisted', NEW s \in Persisted, s \notin Persisted'
               PROVE  s.id < r.id
    BY DEF Log!Newer
  <2>1. PICK j \in first..(first' - 1) : \E l \in 1..Len(file[j]) : file[j][l] = s
    BY <1>6
  <2>2. PICK l \in 1..Len(file[j]) : file[j][l] = s
    BY <2>1
  <2>3. PICK i \in first'..active : \E k \in 1..synced[i] : file[i][k] = r
    BY SMTT(30), <1>1, <1>3 DEF Fsynced
  <2>4. PICK k \in 1..synced[i] : file[i][k] = r
    BY <2>3
  <2>5. i \in first..active /\ j \in first..active /\ j < i
    <3>1. first \in Int /\ active \in Int /\ first' \in Int
      BY SMTT(30), <1>2
    <3>2. QED
      BY <1>1, <1>2, <3>1, IntervalsApart
  <2> USE <2>5
  <2>6. k \in 1..Len(file[i])
    BY SMTT(30), StructNumbers
  <2>7. Older(j, l, i, k)
    BY DEF Older
  <2>8. QED
    BY <2>2, <2>4, <2>6, <2>7 DEF Ordered, Ascending
<1>9. QED
  BY SMTT(30), <1>1, <1>5, <1>7, <1>8 DEF Log!Trim

\* No step takes back an answer or a trim.
LEMMA Remembers == [Next]_vars => acked \subseteq acked' /\ dropped \subseteq dropped'
<1> SUFFICES ASSUME [Next]_vars PROVE acked \subseteq acked' /\ dropped \subseteq dropped'
  OBVIOUS
<1>1. ASSUME NEW w \in Writers,
             \/ AppendStart(w) \/ RotateFails(w) \/ AppendWrite(w)
             \/ AppendWriteFails(w) \/ AppendSync(w) \/ AppendReturn(w)
      PROVE  acked \subseteq acked' /\ dropped \subseteq dropped'
  BY <1>1 DEF AppendStart, RotateFails, AppendWrite, AppendWriteFails, AppendSync, AppendReturn, histVars
<1>2. ASSUME NEW keepIndex \in Index, DropSegmentsBefore(keepIndex)
      PROVE  acked \subseteq acked' /\ dropped \subseteq dropped'
  BY <1>2 DEF DropSegmentsBefore
<1>3. CASE \/ FlushSnapshot \/ FlushSync \/ FlushPublish
           \/ CloseStart \/ FinalFlushEmpty \/ CloseFinish \/ Kill \/ Exit \/ PowerLoss
           \/ OpenFails \/ Open \/ UNCHANGED vars
  BY <1>3 DEF FlushSnapshot, FlushSync, FlushPublish, CloseStart, FinalFlushEmpty, CloseFinish,
     Kill, Exit, MaybeTorn, PowerLoss, OpenFails, Open, Stopped, vars, state, histVars
<1>4. QED
  BY SMTT(30), <1>1, <1>2, <1>3 DEF Next

LEMMA StepImplements ==
  ASSUME Struct, Promise, Ordered, View, Struct', Promise', View', [Next]_vars
  PROVE  Log!Next
<1>1. Durable' = Durable
  BY SetupFixed DEF Durable, SyncMode, Faults
<1>2. CASE ~Durable
  BY <1>1, <1>2, Remembers DEF Log!Next, Log!Lax
<1>3. CASE Durable
  <2>1. Kept /\ Acknowledged' /\ Durable'
    BY <1>1, <1>3 DEF Promise, Lossless, Durable, Kept
  <2> USE <2>1
  <2>2. CASE \E keepIndex \in Index : DropSegmentsBefore(keepIndex)
    BY SMTT(30), <1>1, <1>3, <2>2, Trims DEF Log!Next
  <2>3. CASE ~\E keepIndex \in Index : DropSegmentsBefore(keepIndex)
    <3>1. /\ \A r : Fsynced(r) => Fsynced(r)'
          /\ dropped' = dropped /\ acked \subseteq acked'
      BY SMTT(30), <2>3, AppendAdds, FlushAdds, StopOpenAdds DEF Next
    <3>2. Log!Accept
      BY SMTT(30), <1>3, <3>1, Accepts
    <3>3. QED
      BY <1>1, <3>2 DEF Log!Next
  <2>4. QED
    BY <2>2, <2>3
<1>4. QED
  BY <1>2, <1>3

LEMMA InitImplements == Init => Log!Init
<1> SUFFICES ASSUME Init PROVE Log!Init
  OBVIOUS
<1>1. acked = {} /\ dropped = {}
  BY DEF Init
<1>2. Persisted = {}
  <2>1. Struct /\ \A i \in Index : synced[i] = 0
    BY StructInit DEF Init
  <2>2. Garbage
    BY KeptInit DEF Kept
  <2> USE <2>1
  <2>3. \A r : ~Fsynced(r)
    BY SMTT(30), StructNumbers DEF Fsynced
  <2>4. QED
    BY SMTT(30), <2>2, <2>3, PersistedIsFsynced
<1>3. Durable \in BOOLEAN
  BY DEF Durable
<1>4. QED
  BY <1>1, <1>2, <1>3 DEF Log!Init

\* Package wal implements the abstract log: for every number of writers, segments and
\* appends, and every mix of setups, each step of Append, rotate, the committer,
\* DropSegmentsBefore, Close, a crash and recovery stores, answers or trims records the
\* way PartitionLog lets a log do.
THEOREM Implementation == Spec => Implements
<1>1. Init => Struct /\ Promise /\ Ordered
  BY PromiseInit, OrderedInit
<1>2. Struct /\ Promise /\ Ordered /\ [Next]_vars => Struct' /\ Promise' /\ Ordered'
  BY PromiseStep, OrderedStep
<1>3. Struct /\ Promise /\ Ordered /\ View /\ [Next]_vars /\ Struct' /\ Promise' /\ View'
      => [Log!Next]_Log!vars
  BY StepImplements
<1>4. QED
  BY <1>1, <1>2, <1>3, Viewed, InitImplements, PTL DEF Spec, Implements, Log!Spec


----------------------------------------------------------------------------
(* An OK'd record stays where a scan finds it; its MsgID is not handed out again. *)

InFile(r) == \E i \in first..active : \E k \in 1..Len(file[i]) : file[i][k] = r

\* Without fsync an OK follows the write itself, and nobody waits for a group.
Held ==
    SyncMode = "none" /\ Intact =>
        /\ \A w \in Writers : app[w].pc \notin {"wait", "sync"}
        /\ \A r \in acked : r \in dropped \/ InFile(r)

NotDropped == ~setup.retention => dropped = {}

LEMMA HeldInit == Init => Held /\ NotDropped
<1> SUFFICES ASSUME Init PROVE Held /\ NotDropped
  OBVIOUS
<1>1. acked = {} /\ dropped = {}
  BY DEF Init
<1>2. \A w \in Writers : app[w].pc \notin {"wait", "sync"}
  BY DEF Init, Idle
<1>3. QED
  BY <1>1, <1>2 DEF Held, NotDropped

LEMMA InFileKept ==
  ASSUME Struct, first' = first, active' \in first..active \/ active' = active + 1, active <= active',
         \A i \in first..active : Len(file'[i]) \in Nat /\ Len(file[i]) <= Len(file'[i]),
         \A i \in first..active : \A k \in 1..Len(file[i]) : file'[i][k] = file[i][k],
         NEW r, InFile(r)
  PROVE  InFile(r)'
<1>1. PICK i \in first..active : \E k \in 1..Len(file[i]) : file[i][k] = r
  BY DEF InFile
<1>2. PICK k \in 1..Len(file[i]) : file[i][k] = r
  BY <1>1
<1> USE StructNumbers
<1>3. i \in first..active'
  BY SMTT(30)
<1>4. Len(file[i]) \in Nat /\ Len(file'[i]) \in Nat /\ Len(file[i]) <= Len(file'[i])
  OBVIOUS
<1>5. k \in 1..Len(file'[i])
  BY ONLY SMTT(30), <1>4, k \in 1..Len(file[i])
<1>6. file'[i][k] = r
  BY <1>2
<1>7. QED
  BY <1>3, <1>5, <1>6 DEF InFile

LEMMA InFileSame ==
  ASSUME Struct, UNCHANGED <<file, first>>, active' = active \/ active' = active + 1, NEW r, InFile(r)
  PROVE  InFile(r)'
<1> USE StructNumbers
<1>1. active' \in first..active \/ active' = active + 1
  OBVIOUS
<1>2. active <= active'
  BY SMTT(30)
<1>3. \A i \in first..active : Len(file[i]) \in Nat /\ Len(file[i]) <= Len(file[i])
  BY SMTT(30)
<1>4. QED
  BY <1>1, <1>2, <1>3, InFileKept

LEMMA InFileDrop ==
  ASSUME Struct, Struct', NEW keepIndex \in Index, DropSegmentsBefore(keepIndex), NEW r, InFile(r)
  PROVE  r \in dropped' \/ InFile(r)'
<1> DEFINE gone == UNION {RecordsIn(i) : i \in first..(first' - 1)}
<1>1. dropped' = dropped \cup gone /\ UNCHANGED <<file, active>>
  BY DEF DropSegmentsBefore
<1>2. PICK i \in first..active : \E k \in 1..Len(file[i]) : file[i][k] = r
  BY DEF InFile
<1>3. PICK k \in 1..Len(file[i]) : file[i][k] = r
  BY <1>2
<1>4. i \in first'..active \/ i \in first..(first' - 1)
  <2>1. first \in Int /\ active \in Int /\ first' \in Int
    <3>1. first \in Nat /\ active \in Nat /\ first' \in Nat
      BY StructNumbers, IndexFacts DEF Struct, TypeOK
    <3>2. QED
      BY SMT, <3>1
  <2>2. QED
    BY <2>1, IntervalSplit
<1> USE <1>3
<1>5. ASSUME i \in first..(first' - 1) PROVE r \in gone
  <2>1. r \in RecordsIn(i)
    BY DEF RecordsIn
  <2>2. QED
    BY <1>5, <2>1
<1> HIDE DEF gone
<1>6. QED
  BY <1>1, <1>4, <1>5 DEF InFile

LEMMA HeldAppendWrite ==
  ASSUME Struct, SyncMode = "none", Held, Intact, NEW w \in Writers, AppendWrite(w)
  PROVE  /\ \A v \in Writers : app'[v].pc \notin {"wait", "sync"}
         /\ \A r \in acked' : r \in dropped' \/ InFile(r)'
<1>0. PICK rec : rec = [id |-> nextMsgID, val |-> appends]
  OBVIOUS
<1>1. /\ app' = [app EXCEPT ![w] = Idle] /\ acked' = acked \cup {rec}
      /\ UNCHANGED <<first, active, dropped>>
  BY <1>0 DEF AppendWrite
<1>2. \A v \in Writers : app'[v].pc \notin {"wait", "sync"}
  BY <1>1 DEF Held, Idle, Struct, TypeOK
<1>3. /\ Len(file'[active]) = Len(file[active]) + 1
      /\ file'[active][Len(file[active]) + 1] = rec
      /\ \A i \in Index : i # active => file'[i] = file[i]
      /\ \A i \in Index : Len(file[i]) <= Len(file'[i])
      /\ \A i \in Index : \A k \in 1..Len(file[i]) : file'[i][k] = file[i][k]
  BY <1>0, AppendWriteFacts
<1> USE StructNumbers
<1>4. InFile(rec)'
  <2>1. Len(file[active]) + 1 \in 1..(Len(file[active]) + 1)
    BY SMTT(30)
  <2>2. QED
    BY <1>1, <1>3, <2>1 DEF InFile
<1>5. ASSUME NEW r, InFile(r) PROVE InFile(r)'
  <2>1. Len(file'[active]) \in Nat /\ active <= active
    BY SMT, <1>3
  <2> USE <2>1
  <2>2. \A i \in first..active : Len(file'[i]) \in Nat /\ Len(file[i]) <= Len(file'[i])
    BY <1>3
  <2>3. \A i \in first..active : \A k \in 1..Len(file[i]) : file'[i][k] = file[i][k]
    BY <1>3
  <2>4. QED
    BY <1>1, <1>5, <2>2, <2>3, InFileKept
<1>6. QED
  BY <1>1, <1>2, <1>4, <1>5 DEF Held

LEMMA HeldOpen ==
  ASSUME Struct, Clean, Open, NEW r, InFile(r)
  PROVE  InFile(r)'
<1>1. UNCHANGED <<first, active>>
  BY DEF Open
<1>2. \A i \in first..active : i \in Index /\ Len(file[i]) \in Nat
  BY StructNumbers
<1> USE <1>2
<1>3. \A i \in first..active : GoodLen(i) = Len(file[i])
  BY GoodLenProperties DEF Struct, Clean, Garbage
<1>4. \A i \in first..active : Len(file'[i]) = Len(file[i]) /\ \A k \in 1..Len(file[i]) : file'[i][k] = file[i][k]
  BY <1>3, OpenFacts DEF Struct
<1>5. QED
  BY <1>1, <1>4 DEF InFile

LEMMA HeldOthers ==
  ASSUME Struct, SyncMode = "none", Intact, Held,
         \/ \E w \in Writers : AppendStart(w) \/ RotateFails(w) \/ AppendWriteFails(w) \/ AppendSync(w) \/ AppendReturn(w)
         \/ FlushSnapshot \/ FlushSync \/ FlushPublish
         \/ CloseStart \/ FinalFlushEmpty \/ CloseFinish \/ Kill \/ Exit \/ OpenFails
         \/ UNCHANGED vars
  PROVE  /\ \A v \in Writers : app'[v].pc \notin {"wait", "sync"}
         /\ \A r \in acked' : r \in dropped' \/ InFile(r)'
<1>1. \A w \in Writers : app[w].pc \notin {"wait", "sync"}
  BY DEF Held
<1> USE <1>1
<1>2. /\ UNCHANGED <<file, first, acked, dropped>> /\ (active' = active \/ active' = active + 1)
      /\ \/ app' = app
         \/ \E w \in Writers : app' = [app EXCEPT ![w].pc = "write"] \/ app' = [app EXCEPT ![w] = Idle]
         \/ app' = [w \in Writers |-> Idle]
  BY DEF AppendStart, Rotate, RotateFails, AppendWriteFails, AppendSync, AppendReturn, FlushSnapshot,
     FlushSync, FlushPublish, CloseStart, FinalFlushEmpty, CloseFinish, Kill, Exit, MaybeTorn, OpenFails, Stopped,
     vars, state, diskVars, procVars, histVars
<1>3. app \in [Writers -> [pc : {"idle", "write", "sync", "wait"}, end : Nat, rec : Record]]
  BY DEF Struct, TypeOK
<1> USE <1>2
<1>4. ASSUME NEW v \in Writers PROVE app'[v].pc \notin {"wait", "sync"}
  <2>1. CASE app' = app
    BY <2>1
  <2> USE <1>3
  <2>2. CASE \E w \in Writers : app' = [app EXCEPT ![w].pc = "write"]
    <3>1. PICK w \in Writers : app' = [app EXCEPT ![w].pc = "write"]
      BY <2>2
    <3> USE <3>1
    <3>2. CASE v = w
      <4>1. app'[v] = [app[v] EXCEPT !.pc = "write"]
        BY <3>2
      <4>2. app'[v].pc = "write"
        BY <4>1
      <4>3. QED
        BY <4>2
    <3>3. CASE v # w
      <4>1. app'[v] = app[v]
        BY <3>3
      <4>2. QED
        BY <4>1
    <3>4. QED
      BY <3>2, <3>3
  <2>3. CASE \E w \in Writers : app' = [app EXCEPT ![w] = Idle]
    <3>1. app'[v] = app[v] \/ app'[v] = Idle
      BY <2>3
    <3>2. Idle.pc \notin {"wait", "sync"}
      BY DEF Idle
    <3>3. QED
      BY <3>1, <3>2
  <2>4. CASE app' = [w \in Writers |-> Idle]
    BY <2>4 DEF Idle
  <2>5. QED
    BY <2>1, <2>2, <2>3, <2>4
<1>5. \A r : InFile(r) => InFile(r)'
  BY InFileSame
<1>6. QED
  BY <1>4, <1>5 DEF Held

LEMMA HeldStep == Struct /\ Struct' /\ Whole /\ Held /\ [Next]_vars => Held'
<1> SUFFICES ASSUME Struct, Struct', Whole, Held, [Next]_vars, SyncMode = "none", Intact
             PROVE  /\ \A v \in Writers : app'[v].pc \notin {"wait", "sync"}
                    /\ \A r \in acked' : r \in dropped' \/ InFile(r)'
  BY SetupFixed DEF Held, Intact, Faults, Stops, SyncMode
<1>1. CASE \E w \in Writers : AppendWrite(w)
  BY <1>1, HeldAppendWrite
<1>2. CASE \E keepIndex \in Index : DropSegmentsBefore(keepIndex)
  <2> USE <1>2
  <2>1. UNCHANGED <<app, acked>> /\ dropped \subseteq dropped'
    BY DEF DropSegmentsBefore, procVars
  <2>2. \A r : InFile(r) => r \in dropped' \/ InFile(r)'
    BY InFileDrop
  <2>3. QED
    BY <2>1, <2>2 DEF Held
<1>3. CASE Open
  <2> USE <1>3
  <2>1. UNCHANGED <<app, acked, dropped>>
    BY DEF Open, procVars, histVars
  <2>2. \A r : InFile(r) => InFile(r)'
    BY HeldOpen DEF Whole
  <2>3. QED
    BY <2>1, <2>2 DEF Held
<1>4. CASE PowerLoss
  BY <1>4 DEF PowerLoss, Intact
<1>5. QED
  BY <1>1, <1>2, <1>3, <1>4, HeldOthers DEF Next

LEMMA NotDroppedStep == NotDropped /\ [Next]_vars => NotDropped'
<1> SUFFICES ASSUME NotDropped, [Next]_vars, ~setup.retention PROVE dropped' = {}
  BY SetupFixed DEF NotDropped
<1>1. dropped' = dropped
  BY DEF Next, AppendStart, RotateFails, AppendWrite, AppendWriteFails, AppendSync, AppendReturn,
     FlushSnapshot, FlushSync, FlushPublish, DropSegmentsBefore, CloseStart, FinalFlushEmpty, CloseFinish, Kill, Exit, MaybeTorn,
     PowerLoss, OpenFails, Open, Stopped, vars, state, histVars
<1>2. QED
  BY <1>1 DEF NotDropped

\* The whole invariant of the log.
WalInv == Struct /\ Promise /\ Ordered /\ Tight /\ Whole /\ Held /\ NotDropped

LEMMA WalInvInit == Init => WalInv
BY PromiseInit, OrderedInit, TightInit, WholeInit, HeldInit DEF WalInv

LEMMA WalInvStep == WalInv /\ [Next]_vars => WalInv'
BY PromiseStep, OrderedStep, TightStep, WholeStep, HeldStep, NotDroppedStep DEF WalInv

LEMMA WalInvariant == Spec => []WalInv
BY WalInvInit, WalInvStep, PTL DEF Spec

\* In every mode an OK'd record is in a retained file.
LEMMA AckedInFile ==
  ASSUME WalInv, Intact, NEW r \in acked, r \notin dropped
  PROVE  InFile(r)
<1>1. CASE SyncMode = "none"
  BY <1>1 DEF WalInv, Held
<1>2. CASE SyncMode # "none"
  <2>1. Fsynced(r)
    BY <1>2 DEF WalInv, Promise, Lossless, Intact, Kept, Acknowledged
  <2>2. PICK i \in first..active : \E k \in 1..synced[i] : file[i][k] = r
    BY <2>1 DEF Fsynced
  <2>3. PICK k \in 1..synced[i] : file[i][k] = r
    BY <2>2
  <2>4. synced[i] \in Nat /\ Len(file[i]) \in Nat /\ synced[i] <= Len(file[i])
    BY StructNumbers DEF WalInv
  <2>5. k \in 1..Len(file[i])
    BY ONLY SMTT(30), <2>4, k \in 1..synced[i]
  <2>6. QED
    BY <2>3, <2>5 DEF InFile
<1>3. QED
  BY <1>1, <1>2

\* Without fsync too an OK'd record is found by recovery's scan after a SIGKILL or a
\* graceful restart, until retention drops its segment.
THEOREM AckedRecordsScanned == Spec => []AckedScannable
<1>1. WalInv => AckedScannable
  <2> SUFFICES ASSUME WalInv, Intact, NEW r \in acked, r \notin dropped PROVE r \in Scannable
    BY DEF AckedScannable
  <2>1. PICK i \in first..active : \E k \in 1..Len(file[i]) : file[i][k] = r
    BY AckedInFile DEF InFile
  <2>2. GoodLen(i) = Len(file[i])
    BY GoodLenProperties, StructNumbers DEF WalInv, Struct, Whole, Clean, Garbage
  <2>3. r \in {file[i][k] : k \in 1..GoodLen(i)}
    BY <2>1, <2>2
  <2>4. QED
    BY <2>3 DEF Scannable
<1>2. QED
  BY <1>1, WalInvariant, PTL

\* Where retention is off no MsgID is handed out twice with an OK, across restarts.
THEOREM MsgIDsStayUnique == Spec => []MsgIDsNotReused
<1>1. WalInv => MsgIDsNotReused
  <2> SUFFICES ASSUME WalInv, Intact, ~setup.retention, phase = "up", NEW r \in acked PROVE r.id < nextMsgID
    BY DEF MsgIDsNotReused, MsgIDMonotonic
  <2>1. r \notin dropped
    BY DEF WalInv, NotDropped
  <2>2. PICK i \in first..active : \E k \in 1..Len(file[i]) : file[i][k] = r
    BY <2>1, AckedInFile DEF InFile
  <2>3. QED
    BY <2>2 DEF WalInv, Ordered, Below
<1>2. QED
  BY <1>1, WalInvariant, PTL

=============================================================================
