---------------------------- MODULE WalReading ----------------------------
(***************************************************************************)
(* Proofs about module WalReader: a Reader follows from segment to segment *)
(* what the log was when it passed, gets the records in order of MsgID,    *)
(* and only ones that are durable where only machine failures end the      *)
(* process.                                                                *)
(***************************************************************************)
EXTENDS WalProofs, WalReader

(* Most steps are about sets, functions and records: Zenon is the prover of  *)
(* a step that names no other.                                              *)
USE ZenonT(30)

----------------------------------------------------------------------------
(* A Reader: what a step of an open log does to the segments it is in. *)

Still == UNCHANGED <<file, base, baseMsgID, active, written, nextMsgID>>

Rotated ==
    /\ UNCHANGED <<file, written, nextMsgID>>
    /\ active' = active + 1 /\ active + 1 \in Index
    /\ base' = [base EXCEPT ![active + 1] = written]
    /\ baseMsgID' = [baseMsgID EXCEPT ![active + 1] = nextMsgID]

Wrote ==
    /\ UNCHANGED <<base, baseMsgID, active>>
    /\ written' = written + 1 /\ nextMsgID' = nextMsgID + 1
    /\ Len(file'[active]) = Len(file[active]) + 1
    /\ file'[active][Len(file[active]) + 1].id = nextMsgID
    /\ \A k \in 1..Len(file[active]) : file'[active][k] = file[active][k]
    /\ \A i \in Index : i # active => file'[i] = file[i]

Moves == committed <= committed' /\ (Still \/ Rotated \/ Wrote)

\* Nothing that is on disk goes, and garbage comes only at the end.
Adds ==
    /\ UNCHANGED <<first, dropped>>
    /\ \A i \in Index :
          /\ synced[i] <= synced'[i] /\ Len(file[i]) <= Len(file'[i])
          /\ \A k \in 1..Len(file[i]) : file'[i][k] = file[i][k]
          /\ \A t \in torn'[i] : t \in torn[i] \/ t = Len(file[i])

LEMMA AddsSame ==
  ASSUME Struct, UNCHANGED <<file, synced, torn, first, dropped>>
  PROVE  Adds
<1>1. \A i \in Index : synced[i] <= synced[i] /\ Len(file[i]) <= Len(file[i])
  <2>1. \A i \in Index : synced[i] \in Nat /\ Len(file[i]) \in Nat
    BY StructNumbers
  <2>2. QED
    BY SMT, <2>1
<1>2. QED
  BY <1>1 DEF Adds

LEMMA AppendStep1 ==
  ASSUME Struct, NEW w \in Writers, AppendStart(w) \/ RotateFails(w)
  PROVE  Moves /\ Adds
<1>1. phase = "up" /\ UNCHANGED <<file, torn, first, written, nextMsgID, dropped>>
  BY DEF AppendStart, RotateFails, histVars
<1>2. committed <= committed /\ committed \in Nat /\ written \in Nat /\ committed <= written
  <2>1. committed \in Nat /\ written \in Nat /\ committed <= written
    BY <1>1 DEF Struct, TypeOK, Layout
  <2>2. QED
    BY SMT, <2>1
<1>3. ASSUME SealSync PROVE committed <= committed' /\ Adds
  <2>1. committed' = written /\ \A i \in Index : synced[i] <= synced'[i]
    BY <1>1, <1>3, SealFacts
  <2>2. \A i \in Index : Len(file[i]) <= Len(file[i])
    <3>1. \A i \in Index : Len(file[i]) \in Nat
      BY StructNumbers
    <3>2. QED
      BY SMT, <3>1
  <2>3. QED
    BY <1>1, <1>2, <2>1, <2>2 DEF Adds
<1>4. CASE NeedsRotation /\ Rotate
  <2>1. active + 1 \in Index
    <3>1. active < MaxSegments /\ active \in Nat
      BY <1>4, StructNumbers DEF Rotate
    <3>2. QED
      BY SMT, <3>1, WalAssumption DEF Index
  <2>2. Rotated /\ SealSync
    BY <1>1, <1>4, <2>1 DEF Rotate, Rotated
  <2>3. QED
    BY <1>3, <2>2 DEF Moves
<1>5. CASE UNCHANGED <<synced, committed, active, base, baseMsgID>>
  BY <1>1, <1>2, <1>5, AddsSame DEF Moves, Still
<1>6. CASE RotateFails(w)
  BY <1>1, <1>3, <1>6 DEF RotateFails, Moves, Still
<1>7. QED
  BY <1>4, <1>5, <1>6 DEF AppendStart

LEMMA AppendStep2 ==
  ASSUME Struct, NEW w \in Writers, AppendWrite(w)
  PROVE  Moves /\ Adds
<1>1. /\ phase = "up" /\ UNCHANGED <<synced, torn, first, active, base, baseMsgID, dropped>>
      /\ written' = written + 1 /\ nextMsgID' = nextMsgID + 1 /\ (committed' = written + 1 \/ committed' = committed)
  BY DEF AppendWrite
<1>2. /\ Len(file'[active]) = Len(file[active]) + 1
      /\ file'[active][Len(file[active]) + 1] = [id |-> nextMsgID, val |-> appends]
      /\ \A i \in Index : i # active => file'[i] = file[i]
      /\ \A i \in Index : Len(file[i]) <= Len(file'[i])
      /\ \A i \in Index : \A k \in 1..Len(file[i]) : file'[i][k] = file[i][k]
  BY AppendWriteFacts
<1>3. file'[active][Len(file[active]) + 1].id = nextMsgID /\ active \in Index
  <2>1. PICK rec : rec = [id |-> nextMsgID, val |-> appends]
    OBVIOUS
  <2>2. rec.id = nextMsgID /\ file'[active][Len(file[active]) + 1] = rec
    BY <1>2, <2>1
  <2>3. QED
    BY <2>2, StructNumbers
<1> USE <1>1
<1>4. committed <= committed'
  <2>1. committed \in Nat /\ written \in Nat /\ committed <= written
    BY DEF Struct, TypeOK, Layout
  <2>2. QED
    BY SMT, <2>1
<1>5. \A i \in Index : synced[i] <= synced'[i]
  <2>1. \A i \in Index : synced[i] \in Nat
    BY StructNumbers
  <2>2. QED
    BY SMT, <2>1
<1>6. QED
  BY <1>2, <1>3, <1>4, <1>5 DEF Moves, Wrote, Adds

LEMMA AppendStep3 ==
  ASSUME Struct, NEW w \in Writers, AppendWriteFails(w) \/ AppendReturn(w)
  PROVE  Moves /\ Adds
<1>1. Still /\ UNCHANGED <<file, synced, first, dropped, committed>>
  BY DEF AppendWriteFails, AppendReturn, Still, memVars, histVars, diskVars
<1>2. torn' = torn \/ torn' = [torn EXCEPT ![active] = torn[active] \cup {Len(file[active])}]
  BY DEF AppendWriteFails, AppendReturn, diskVars
<1>3. ASSUME NEW i \in Index, NEW t \in torn'[i] PROVE t \in torn[i] \/ t = Len(file[i])
  <2>1. torn'[i] = torn[i] \/ (i = active /\ torn'[i] = torn[i] \cup {Len(file[i])})
    BY <1>2 DEF Struct, TypeOK
  <2>2. QED
    BY <1>3, <2>1
<1>4. committed <= committed /\ \A i \in Index : synced[i] <= synced[i] /\ Len(file[i]) <= Len(file[i])
  <2>1. committed \in Nat /\ \A i \in Index : synced[i] \in Nat /\ Len(file[i]) \in Nat
    BY StructNumbers
  <2>2. QED
    BY SMT, <2>1
<1>5. QED
  BY <1>1, <1>3, <1>4 DEF Moves, Adds

\* An fsync, and what is published after it.
LEMMA SyncSteps ==
  ASSUME Struct, (\E w \in Writers : AppendSync(w)) \/ FlushSync \/ FlushPublish
  PROVE  Moves /\ Adds
<1>1. Still /\ UNCHANGED <<file, torn, first, dropped>> /\ phase = "up"
  BY DEF AppendSync, FlushSync, FlushPublish, Still, memVars, histVars, diskVars
<1>2. committed \in Nat /\ written \in Nat /\ committed <= written /\ flush.snap \in Nat
  BY <1>1 DEF Struct, TypeOK, Layout
<1>3. committed' = committed \/ committed' = written \/ (committed' = flush.snap /\ flush.snap > committed)
  <2>1. \A w \in Writers : app[w].pc = "sync" => app[w].end = written
    BY <1>1 DEF Struct, Layout
  <2>2. QED
    BY <2>1 DEF AppendSync, FlushSync, FlushPublish, memVars, PublishOffset
<1>4. committed <= committed'
  BY SMT, <1>2, <1>3
<1>5. synced' = synced \/ \E s \in Index : synced' = [synced EXCEPT ![s] = Len(file[s])]
  BY DEF AppendSync, FlushSync, FlushPublish, diskVars, Struct, TypeOK
<1>6. \A i \in Index : synced[i] \in Nat /\ Len(file[i]) \in Nat /\ synced[i] <= Len(file[i])
  BY StructNumbers
<1> USE <1>6
<1>7. \A i \in Index : synced[i] <= synced[i] /\ Len(file[i]) <= Len(file[i])
  BY SMT
<1>8. \A i \in Index : synced'[i] = synced[i] \/ synced'[i] = Len(file[i])
  BY <1>5 DEF Struct, TypeOK
<1> USE <1>7
<1>9. \A i \in Index : synced[i] <= synced'[i]
  BY <1>8
<1>10. QED
  BY <1>1, <1>4, <1>9 DEF Moves, Adds

LEMMA OpenLogStep ==
  ASSUME Struct, phase = "up", phase' = "up", [Next]_vars
  PROVE  Moves /\ (Adds \/ \E keepIndex \in Index : DropSegmentsBefore(keepIndex))
<1>1. committed <= committed
  BY SMT, StructNumbers
<1> USE <1>1
<1>2. ASSUME UNCHANGED <<diskVars, memVars, dropped>> PROVE Moves /\ Adds
  BY <1>2, AddsSame DEF Moves, Still, diskVars, memVars
<1>3. ASSUME UNCHANGED vars \/ FlushSnapshot \/ CloseStart \/ FinalFlushEmpty \/ CloseFinish
      PROVE UNCHANGED <<diskVars, memVars, dropped>>
  BY <1>3 DEF vars, state, FlushSnapshot, CloseStart, FinalFlushEmpty, CloseFinish, histVars
<1>4. ASSUME NEW keepIndex \in Index, DropSegmentsBefore(keepIndex) PROVE Moves
  BY <1>4 DEF DropSegmentsBefore, memVars, Moves, Still
<1>5. ~Exit /\ ~Kill /\ ~PowerLoss /\ ~OpenFails /\ ~Open
  BY DEF Exit, Kill, PowerLoss, OpenFails, Open, Stopped
<1>6. QED
  BY <1>2, <1>3, <1>4, <1>5, AppendStep1, AppendStep2, AppendStep3, SyncSteps DEF Next

----------------------------------------------------------------------------
(* The segments from lo on, dropped ones included, follow one another. *)

Chain(lo) ==
    /\ \A i \in lo..active : baseMsgID[i] + written = nextMsgID + base[i]
    /\ \A i, j \in lo..active : i < j => base[i] + Len(file[i]) <= base[j]
    /\ \A i \in lo..active : \A k \in 1..Len(file[i]) : file[i][k].id = baseMsgID[i] + k - 1

LEMMA IDNumbers ==
  ASSUME Struct
  PROVE  nextMsgID \in Nat /\ \A i \in Index : baseMsgID[i] \in Nat
BY DEF Struct, TypeOK

LEMMA Shifts ==
  ASSUME NEW a \in Nat, NEW w \in Nat, NEW n \in Nat, NEW b \in Nat, NEW l \in Nat
  PROVE  /\ (a + l) + w = n + (b + l) <=> a + w = n + b
         /\ a + (w + 1) = (n + 1) + b <=> a + w = n + b
         /\ w = b + l /\ a + w = n + b => n = a + (l + 1) - 1
BY SMT

\* A walk from the active segment back to the first.
LEMMA ChainFirst ==
  ASSUME Struct, Whole, Intact, phase = "up"
  PROVE  Chain(first)
<1>1. /\ written = base[active] + Len(file[active]) /\ nextMsgID = baseMsgID[active] + Len(file[active])
      /\ \A i \in first..(active - 1) : base[i + 1] = base[i] + Len(file[i])
      /\ \A i \in first..(active - 1) : baseMsgID[i + 1] = baseMsgID[i] + Len(file[i])
      /\ \A i \in first..active : \A k \in 1..Len(file[i]) : file[i][k].id = baseMsgID[i] + k - 1
  BY DEF Struct, Layout, Whole, Dense
<1>2. /\ first \in Nat /\ active \in Nat /\ first <= active /\ written \in Nat /\ nextMsgID \in Nat
      /\ \A i \in first..active : base[i] \in Nat /\ baseMsgID[i] \in Nat /\ Len(file[i]) \in Nat
  BY StructNumbers, IDNumbers
<1>3. /\ active \in first..active /\ \A i \in first..active : i \in 0..active
      /\ \A i \in first..active : i # active => i \in first..(active - 1) /\ i + 1 \in first..active /\ ~ (i + 1 <= i)
  BY SMT, <1>2
<1>4. \A i \in first..active : baseMsgID[i] + written = nextMsgID + base[i]
  <2> DEFINE S == {i \in first..active : ~ (baseMsgID[i] + written = nextMsgID + base[i])}
  <2>1. SUFFICES ASSUME S # {} PROVE FALSE
    OBVIOUS
  <2>2. S \in SUBSET (0..active)
    BY <1>3
  <2>3. PICK m \in S : \A n \in S : n <= m
    <3> HIDE DEF S
    <3>1. QED
      BY <1>2, <2>1, <2>2, MaxExists
  <2>4. m \in first..active /\ ~ (baseMsgID[m] + written = nextMsgID + base[m])
    OBVIOUS
  <2>5. m # active
    <3> PICK a, b, l : a = baseMsgID[active] /\ b = base[active] /\ l = Len(file[active])
      OBVIOUS
    <3>1. baseMsgID[active] + written = nextMsgID + base[active]
      <4>1. a \in Nat /\ b \in Nat /\ l \in Nat /\ written = b + l /\ nextMsgID = a + l
        BY <1>1, <1>2, <1>3
      <4>2. a + written = nextMsgID + b
        BY ONLY SMT, <4>1
      <4>3. QED
        BY <4>2
    <3>2. QED
      BY <2>4, <3>1
  <2>6. m + 1 \in first..active /\ m + 1 \notin S /\ m \in first..(active - 1)
    BY <1>3, <2>3, <2>4, <2>5
  <2>7. baseMsgID[m + 1] + written = nextMsgID + base[m + 1]
    BY <2>6
  <2>8. base[m + 1] = base[m] + Len(file[m]) /\ baseMsgID[m + 1] = baseMsgID[m] + Len(file[m])
    BY <1>1, <2>6
  <2>9. base[m] \in Nat /\ baseMsgID[m] \in Nat /\ Len(file[m]) \in Nat
    BY <1>2, <2>4
  <2>10. baseMsgID[m] + written = nextMsgID + base[m]
    <3>1. PICK a, b, l : a = baseMsgID[m] /\ b = base[m] /\ l = Len(file[m])
      OBVIOUS
    <3>2. a \in Nat /\ b \in Nat /\ l \in Nat /\ (a + l) + written = nextMsgID + (b + l)
      BY <2>7, <2>8, <2>9, <3>1
    <3>3. a + written = nextMsgID + b
      BY SMT, <1>2, <3>2, Shifts
    <3>4. QED
      BY <3>1, <3>3
  <2>11. QED
    BY <2>4, <2>10
<1>5. ASSUME NEW j \in first..active, NEW i \in first..active, i < j PROVE base[i] + Len(file[i]) <= base[j]
  <2> DEFINE S == {x \in first..active : x < j /\ ~ (base[x] + Len(file[x]) <= base[j])}
  <2>1. SUFFICES ASSUME S # {} PROVE FALSE
    BY <1>5
  <2>2. S \in SUBSET (0..active)
    BY <1>3
  <2>3. PICK m \in S : \A n \in S : n <= m
    <3> HIDE DEF S
    <3>1. QED
      BY <1>2, <2>1, <2>2, MaxExists
  <2>4. m \in first..active /\ m < j /\ ~ (base[m] + Len(file[m]) <= base[j])
    OBVIOUS
  <2>5. m # active /\ (m + 1 = j \/ m + 1 < j)
    BY SMT, <1>2, <2>4
  <2>6. m + 1 \in first..active /\ m + 1 \notin S /\ m \in first..(active - 1)
    BY <1>3, <2>3, <2>4, <2>5
  <2>7. m + 1 = j \/ base[m + 1] + Len(file[m + 1]) <= base[j]
    BY <2>5, <2>6
  <2>8. base[m + 1] = base[m] + Len(file[m])
    BY <1>1, <2>6
  <2>9. base[m + 1] \in Nat /\ Len(file[m + 1]) \in Nat /\ base[j] \in Nat
    BY <1>2, <2>6
  <2>10. base[m + 1] <= base[j]
    <3>1. CASE m + 1 = j
      <4>1. base[j] <= base[j]
        BY SMT, <2>9
      <4>2. QED
        BY <3>1, <4>1
    <3>2. CASE base[m + 1] + Len(file[m + 1]) <= base[j]
      BY ONLY SMTT(30), <2>9, <3>2
    <3>3. QED
      BY <2>7, <3>1, <3>2
  <2>11. QED
    BY <2>4, <2>8, <2>10
<1>6. QED
  BY <1>1, <1>4, <1>5 DEF Chain

LEMMA ChainLater ==
  ASSUME NEW lo \in Nat, NEW s \in Nat, lo <= s, active \in Nat, Chain(lo)
  PROVE  Chain(s)
<1>1. \A i \in s..active : i \in lo..active
  BY SMT
<1>2. QED
  BY <1>1 DEF Chain

LEMMA ChainMoves ==
  ASSUME Struct, phase = "up", Moves, NEW lo \in Index, Chain(lo)
  PROVE  Chain(lo)'
<1>1. /\ active \in Nat /\ lo \in Nat /\ written \in Nat /\ nextMsgID \in Nat /\ active \in Index
      /\ \A i \in Index : base[i] \in Nat /\ baseMsgID[i] \in Nat /\ Len(file[i]) \in Nat
      /\ Index \subseteq Nat
  BY StructNumbers, IDNumbers, IndexFacts DEF Struct
<1>2. \A i \in lo..active : i \in Index /\ i # active + 1 /\ ~ (active < i)
  BY SMT, <1>1, WalAssumption DEF Index
<1>3. /\ written = base[active] + Len(file[active]) /\ base[active] <= written
      /\ Len(file[active + 1]) = 0 \/ active + 1 \notin Index
  <2>1. written = base[active] + Len(file[active])
    BY DEF Struct, Layout
  <2>2. \A i \in Index : i > active => Len(file[i]) = 0
    BY DEF Struct, Lengths
  <2>3. QED
    BY SMT, <1>1, <2>1, <2>2
<1>4. CASE Still
  BY <1>4 DEF Still, Chain
<1>5. CASE Rotated
  <2>1. UNCHANGED <<file, written, nextMsgID>> /\ active' = active + 1 /\ active + 1 \in Index
    BY <1>5 DEF Rotated
  <2>2. /\ base'[active + 1] = written /\ baseMsgID'[active + 1] = nextMsgID
        /\ \A i \in lo..active : base'[i] = base[i] /\ baseMsgID'[i] = baseMsgID[i]
    BY <1>2, <1>5, <2>1 DEF Rotated, Struct, TypeOK
  <2>3. /\ \A i \in lo..(active + 1) : i \in lo..active \/ i = active + 1
        /\ \A i \in lo..(active + 1) : i < active + 1 => i \in lo..active
        /\ \A j \in lo..active : ~ (active + 1 < j)
        /\ ~ (active + 1 < active + 1) /\ nextMsgID + written = nextMsgID + written
        /\ \A k \in 1..0 : FALSE
    BY SMT, <1>1
  <2>4. \A i \in lo..(active + 1) : baseMsgID'[i] + written = nextMsgID + base'[i]
    BY <2>2, <2>3 DEF Chain
  <2>5. ASSUME NEW i \in lo..active PROVE base[i] + Len(file[i]) <= written
    <3>1. CASE i = active
      <4>1. written <= written
        BY SMT, <1>1
      <4>2. QED
        BY <1>3, <3>1, <4>1
    <3>2. CASE i # active
      <4>1. i < active /\ active \in lo..active
        BY SMT, <1>1, <3>2
      <4>2. base[i] + Len(file[i]) <= base[active]
        BY <4>1 DEF Chain
      <4>3. base[i] \in Nat /\ Len(file[i]) \in Nat /\ base[active] \in Nat
        BY <1>1, <1>2
      <4>4. QED
        BY ONLY SMTT(30), <1>1, <1>3, <4>2, <4>3
    <3>3. QED
      BY <3>1, <3>2
  <2>6. \A i, j \in lo..(active + 1) : i < j => base'[i] + Len(file[i]) <= base'[j]
    BY <2>2, <2>3, <2>5 DEF Chain
  <2>7. \A i \in lo..(active + 1) : \A k \in 1..Len(file[i]) : file[i][k].id = baseMsgID'[i] + k - 1
    BY <1>3, <2>1, <2>2, <2>3 DEF Chain
  <2>8. QED
    BY <2>1, <2>4, <2>6, <2>7 DEF Chain
<1>6. CASE Wrote
  <2>1. /\ UNCHANGED <<base, baseMsgID, active>> /\ written' = written + 1 /\ nextMsgID' = nextMsgID + 1
        /\ Len(file'[active]) = Len(file[active]) + 1 /\ file'[active][Len(file[active]) + 1].id = nextMsgID
        /\ \A k \in 1..Len(file[active]) : file'[active][k] = file[active][k]
        /\ \A i \in Index : i # active => file'[i] = file[i]
    BY <1>6 DEF Wrote
  <2>2. ASSUME NEW i \in lo..active PROVE baseMsgID[i] + (written + 1) = (nextMsgID + 1) + base[i]
    <3>1. base[i] \in Nat /\ baseMsgID[i] \in Nat /\ baseMsgID[i] + written = nextMsgID + base[i]
      BY <1>1, <1>2 DEF Chain
    <3>2. PICK a, b : a = baseMsgID[i] /\ b = base[i]
      OBVIOUS
    <3>3. a \in Nat /\ b \in Nat /\ a + written = nextMsgID + b
      BY <3>1, <3>2
    <3>4. a + (written + 1) = (nextMsgID + 1) + b
      BY SMT, <1>1, <3>3, Shifts
    <3>5. QED
      BY <3>2, <3>4
  <2>3. \A i, j \in lo..active : i < j => i # active /\ file'[i] = file[i]
    BY <1>2, <2>1
  <2>4. \A i, j \in lo..active : i < j => base[i] + Len(file'[i]) <= base[j]
    BY <2>3 DEF Chain
  <2>5. ASSUME NEW i \in lo..active, NEW k \in 1..Len(file'[i]) PROVE file'[i][k].id = baseMsgID[i] + k - 1
    <3>1. CASE i # active
      BY <1>2, <2>1, <2>5, <3>1 DEF Chain
    <3>2. CASE i = active /\ k \in 1..Len(file[active])
      BY <2>1, <3>2 DEF Chain
    <3>3. CASE i = active /\ ~ (k \in 1..Len(file[active]))
      <4>1. Len(file[active]) \in Nat /\ k \in 1..(Len(file[active]) + 1)
        BY <1>1, <2>1, <2>5, <3>3
      <4>2. k = Len(file[active]) + 1
        BY SMT, <3>3, <4>1
      <4>3. baseMsgID[active] + written = nextMsgID + base[active] /\ baseMsgID[active] \in Nat /\ base[active] \in Nat
        BY <1>1, <3>3 DEF Chain
      <4>4. nextMsgID = baseMsgID[active] + k - 1
        <5>1. PICK a, b, l : a = baseMsgID[active] /\ b = base[active] /\ l = Len(file[active])
          OBVIOUS
        <5>2. a \in Nat /\ b \in Nat /\ l \in Nat /\ written = b + l /\ a + written = nextMsgID + b /\ k = l + 1
          BY <1>3, <4>1, <4>2, <4>3, <5>1
        <5>3. nextMsgID = a + k - 1
          BY SMT, <1>1, <5>2, Shifts
        <5>4. QED
          BY <5>1, <5>3
      <4>5. QED
        BY <2>1, <3>3, <4>2, <4>4
    <3>4. QED
      BY <3>1, <3>2, <3>3
  <2>6. QED
    BY <2>1, <2>2, <2>4, <2>5 DEF Chain
<1>7. QED
  BY <1>4, <1>5, <1>6 DEF Moves

----------------------------------------------------------------------------
(* What the Reader does. *)

ReaderType ==
    [pc : {"none", "refused", "open", "scan", "ready", "roll", "failed"},
     seg : Index, pos : Nat, to : Index, from : Nat]

Stands ==
    /\ rd \in ReaderType /\ got \in Seq(Record)
    /\ rd.seg <= active /\ rd.to <= active /\ rd.pos <= Len(file[rd.seg])
    /\ phase # "up" => rd = NoReader /\ got = << >>

Goes(pc, seg, pos, to) ==
    rd' \in ReaderType /\ rd'.pc = pc /\ rd'.seg = seg /\ rd'.pos = pos /\ rd'.to = to

Stays == rd'.from = rd.from /\ UNCHANGED got

\* The record at localPos.
Here == file[rd.seg][rd.pos + 1]

LEMMA PcFacts ==
  ASSUME rd \in ReaderType, NEW pc \in {"refused", "open", "scan", "ready", "roll", "failed"}, rd' = [rd EXCEPT !.pc = pc]
  PROVE  Goes(pc, rd.seg, rd.pos, rd.to) /\ rd'.from = rd.from
BY DEF ReaderType, Goes

LEMMA ReaderNumbers ==
  ASSUME Struct, Stands
  PROVE  /\ rd.seg \in Index /\ rd.to \in Index /\ rd.pos \in Nat /\ rd.from \in Nat /\ rd.seg \in Nat /\ rd.to \in Nat
         /\ Len(file[rd.seg]) \in Nat /\ rd.pos + 1 \in Nat /\ Len(got) \in Nat /\ active \in Nat /\ first \in Nat
         /\ first <= active /\ rd.seg <= active /\ rd.to <= active /\ rd.pos <= Len(file[rd.seg])
<1>1. rd.seg \in Index /\ rd.to \in Index /\ rd.pos \in Nat /\ rd.from \in Nat /\ got \in Seq(Record)
  BY DEF Stands, ReaderType
<1> USE <1>1
<1>2. Len(got) \in Nat /\ rd.pos + 1 \in Nat
  BY SMT, SeqLen
<1> USE StructNumbers
<1>3. rd.seg \in Nat /\ rd.to \in Nat /\ Len(file[rd.seg]) \in Nat
  BY IndexFacts DEF Struct
<1>4. QED
  BY <1>2, <1>3 DEF Stands

LEMMA NewReaderEffect ==
  ASSUME Struct, Stands, NEW from \in Nat, NewReader(from)
  PROVE  /\ UNCHANGED got /\ rd.pc = "none"
         /\ \/ Goes("refused", 0, 0, 0)
            \/ ~ (from < baseMsgID[first]) /\ Goes("open", 0, 0, SegmentFor(from)) /\ rd'.from = from
               /\ SegmentFor(from) \in first..active
<1>1. 0 \in Index /\ 0 \in Nat
  BY SMT, WalAssumption DEF Index
<1>2. SegmentFor(from) \in first..active
  <2>1. PICK E : E = {i \in first..(active - 1) : from < baseMsgID[i + 1]}
    OBVIOUS
  <2>2. first \in Nat /\ active \in Nat /\ active \in first..active
    BY StructNumbers
  <2> USE <2>2
  <2>3. /\ \A i \in first..(active - 1) : i \in first..active /\ i \in Nat
    BY SMT
  <2> USE <2>1
  <2>4. CASE E = {}
    BY <2>4 DEF SegmentFor
  <2>5. CASE E # {}
    <3> USE <2>3
    <3>1. E \in SUBSET Nat
      OBVIOUS
    <3> USE <2>5
    <3>2. MinOf(E) \in E
      BY <3>1, MinOfProperties
    <3>3. SegmentFor(from) = MinOf(E)
      BY DEF SegmentFor
    <3>4. QED
      BY <3>2, <3>3
  <2>6. QED
    BY <2>4, <2>5
<1> USE <1>2
<1>3. SegmentFor(from) \in Index
  BY StructNumbers
<1>4. UNCHANGED got /\ rd.pc = "none"
  BY DEF NewReader
<1> USE <1>1, <1>4
<1>5. CASE from < baseMsgID[first]
  <2>1. rd' = [NoReader EXCEPT !.pc = "refused"]
    BY <1>5 DEF NewReader
  <2>2. QED
    BY <2>1 DEF Goes, ReaderType, NoReader
<1>6. CASE ~ (from < baseMsgID[first])
  <2>1. PICK to \in Index : to = SegmentFor(from)
    BY <1>3
  <2> USE <1>6, <2>1
  <2>2. rd' = [NoReader EXCEPT !.pc = "open", !.to = to, !.from = from]
    BY DEF NewReader
  <2>3. Goes("open", 0, 0, to) /\ rd'.from = from
    BY <2>2 DEF Goes, ReaderType, NoReader
  <2>4. QED
    BY <2>3
<1>7. QED
  BY <1>5, <1>6

LEMMA OpenSegmentEffect ==
  ASSUME Struct, Stands, OpenSegment
  PROVE  /\ Stays /\ rd.pc \in {"open", "roll"}
         /\ \/ Goes("failed", rd.seg, rd.pos, rd.to)
            \/ ~ (rd.to < first) /\ Goes(IF rd.pc = "open" THEN "scan" ELSE "ready", rd.to, 0, rd.to)
<1>1. UNCHANGED got /\ rd.pc \in {"open", "roll"} /\ rd \in ReaderType
  BY DEF OpenSegment, Stands
<1> USE <1>1
<1>2. CASE rd.to < first
  BY <1>2, PcFacts DEF OpenSegment, Stays
<1>3. CASE ~ (rd.to < first)
  <2>1. PICK pc \in {"scan", "ready"} : pc = IF rd.pc = "open" THEN "scan" ELSE "ready"
    OBVIOUS
  <2> USE <1>3, <2>1
  <2>2. rd' = [rd EXCEPT !.pc = pc, !.seg = rd.to, !.pos = 0] /\ 0 \in Nat
    BY DEF OpenSegment
  <2>3. Goes(pc, rd.to, 0, rd.to) /\ rd'.from = rd.from
    BY <2>2 DEF Goes, ReaderType
  <2>4. QED
    BY <2>3 DEF Stays
<1>4. QED
  BY <1>2, <1>3

LEMMA ScanEffect ==
  ASSUME Struct, Stands, Scan
  PROVE  /\ Stays /\ rd.pc = "scan"
         /\ \/ rd.pos >= ReadableLen(rd.seg) /\ Goes("ready", rd.seg, rd.pos, rd.to)
            \/ Decodes /\ Here.id >= rd.from /\ Goes("ready", rd.seg, rd.pos, rd.to)
            \/ Goes("failed", rd.seg, rd.pos, rd.to)
            \/ Decodes /\ ~ (Here.id >= rd.from) /\ Goes("scan", rd.seg, rd.pos + 1, rd.to)
<1>1. UNCHANGED got /\ rd.pc = "scan" /\ rd \in ReaderType /\ rd.pos + 1 \in Nat
  BY ReaderNumbers DEF Scan, Stands
<1> USE <1>1
<1>2. CASE rd' = [rd EXCEPT !.pc = "ready"] \/ rd' = [rd EXCEPT !.pc = "failed"]
  BY <1>2, PcFacts DEF Scan, Stays, Limit, Here
<1>3. CASE ~ (rd.pos >= Limit(rd.seg)) /\ Decodes /\ ~ (Here.id >= rd.from)
  <2> USE <1>3
  <2>1. rd' = [rd EXCEPT !.pos = rd.pos + 1]
    BY DEF Scan, Here
  <2>2. Goes("scan", rd.seg, rd.pos + 1, rd.to) /\ rd'.from = rd.from
    BY <2>1 DEF Goes, ReaderType
  <2>3. QED
    BY <2>2 DEF Stays
<1>4. QED
  BY <1>2, <1>3 DEF Scan, Here

LEMMA ReadRecordEffect ==
  ASSUME Struct, Stands, ReadRecord
  PROVE  /\ rd.pc = "ready" /\ rd.pos < ReadableLen(rd.seg) /\ rd'.from = rd.from
         /\ \/ Decodes /\ Goes("ready", rd.seg, rd.pos + 1, rd.to) /\ got' = Append(got, Here)
            \/ Goes("failed", rd.seg, rd.pos, rd.to) /\ UNCHANGED got
<1>1. rd.pc = "ready" /\ rd.pos < ReadableLen(rd.seg) /\ rd \in ReaderType /\ rd.pos + 1 \in Nat
  BY ReaderNumbers DEF ReadRecord, Stands, Limit
<1> USE <1>1
<1>2. CASE Decodes
  <2> USE <1>2
  <2>1. rd' = [rd EXCEPT !.pos = rd.pos + 1] /\ got' = Append(got, Here)
    BY DEF ReadRecord, Here
  <2> USE <2>1
  <2>2. Goes("ready", rd.seg, rd.pos + 1, rd.to) /\ rd'.from = rd.from
    BY DEF Goes, ReaderType
  <2>3. QED
    BY <2>2
<1>3. CASE ~Decodes
  BY <1>3, PcFacts DEF ReadRecord
<1>4. QED
  BY <1>2, <1>3

LEMMA RollEffect ==
  ASSUME Struct, Stands, Roll
  PROVE  /\ Stays /\ rd.pc = "ready" /\ rd.pos >= ReadableLen(rd.seg) /\ rd.seg # active /\ rd.seg < active
         /\ Goes("roll", rd.seg, rd.pos, SegmentAfter(rd.seg))
         /\ SegmentAfter(rd.seg) \in Index /\ SegmentAfter(rd.seg) <= active /\ rd.seg < SegmentAfter(rd.seg)
<1>1. UNCHANGED got /\ rd.pc = "ready" /\ rd.pos >= ReadableLen(rd.seg) /\ rd.seg # active /\ rd \in ReaderType
  BY DEF Roll, Stands, Limit
<1>2. PICK s \in Nat : s = rd.seg
  BY ReaderNumbers
<1>3. s < active /\ s # active /\ active \in Nat /\ first \in Nat /\ first <= active /\ MaxSegments \in Nat /\ active <= MaxSegments
  <2>1. s <= active /\ s # active /\ active \in Nat /\ first \in Nat /\ first <= active /\ active \in Index
    BY <1>1, <1>2, ReaderNumbers, StructNumbers
  <2>2. QED
    BY SMT, <2>1, WalAssumption DEF Index
<1>4. PICK to : to = SegmentAfter(s)
  OBVIOUS
<1> USE <1>3, <1>4
<1>5. to \in Index /\ to <= active /\ s < to
  BY SMT DEF SegmentAfter, Index
<1>6. rd' = [rd EXCEPT !.pc = "roll", !.to = to]
  BY <1>2 DEF Roll
<1> USE <1>5
<1>7. Goes("roll", rd.seg, rd.pos, to) /\ rd'.from = rd.from
  BY <1>1, <1>6 DEF Goes, ReaderType
<1>8. QED
  BY <1>1, <1>2, <1>7 DEF Stays

LEMMA ReaderSteps ==
  ASSUME ReaderNext
  PROVE  /\ [Next]_vars
         /\ \/ phase = "up" /\ UNCHANGED vars
               /\ ((\E from \in 0..CommittedEnd : NewReader(from)) \/ OpenSegment \/ Scan \/ ReadRecord \/ Roll)
            \/ phase = "up" /\ phase' = "up" /\ UNCHANGED <<rd, got>>
            \/ rd' = NoReader /\ got' = << >>
BY DEF ReaderNext, ReaderStep, readerVars

LEMMA StandsInit == ReaderInit => Struct /\ Stands
<1> SUFFICES ASSUME ReaderInit PROVE Struct /\ Stands
  OBVIOUS
<1>1. Struct /\ rd = NoReader /\ got = << >>
  BY StructInit DEF ReaderInit
<1>2. 0 \in Index /\ 0 \in Nat /\ << >> \in Seq(Record)
  BY SMT, WalAssumption, SeqEmpty DEF Index
<1>3. rd.seg = 0 /\ rd.to = 0 /\ rd.pos = 0 /\ rd \in ReaderType
  BY <1>1, <1>2 DEF NoReader, ReaderType
<1>4. 0 <= active /\ 0 <= Len(file[0])
  <2>1. active \in Nat /\ Len(file[0]) \in Nat
    BY <1>1, <1>2, StructNumbers
  <2>2. QED
    BY SMT, <2>1
<1>5. QED
  BY <1>1, <1>2, <1>3, <1>4 DEF Stands

\* A step that leaves the log alone.
LEMMA StandsGoes ==
  ASSUME Struct, Stands, phase = "up", UNCHANGED vars, NEW pc, NEW seg \in Index, NEW pos \in Nat, NEW to \in Index,
         Goes(pc, seg, pos, to), seg <= active, to <= active, pos <= Len(file[seg]), got' \in Seq(Record)
  PROVE  Stands'
BY DEF Stands, Goes, vars, state, diskVars, memVars

LEMMA StandsStep ==
  ASSUME Struct, Struct', Stands, ReaderNext
  PROVE  Stands'
<1>1. /\ rd.seg \in Index /\ rd.to \in Index /\ rd.pos \in Nat /\ rd.pos + 1 \in Nat
      /\ rd.seg <= active /\ rd.to <= active /\ rd.pos <= Len(file[rd.seg]) /\ got \in Seq(Record)
      /\ active \in Nat /\ first \in Nat /\ Len(file[rd.seg]) \in Nat
  BY ReaderNumbers DEF Stands
<1>2. 0 \in Index /\ 0 \in Nat /\ << >> \in Seq(Record) /\ 0 <= active
  BY SMT, <1>1, WalAssumption, SeqEmpty DEF Index
<1>3. \A i \in Index : Len(file[i]) \in Nat /\ 0 <= Len(file[i])
  <2>1. \A i \in Index : Len(file[i]) \in Nat
    BY StructNumbers
  <2>2. QED
    BY SMT, <2>1
<1>4. Decodes => rd.pos + 1 <= Len(file[rd.seg])
  <2>1. Decodes => rd.pos < Len(file[rd.seg])
    BY DEF Decodes
  <2>2. QED
    BY SMT, <1>1, <2>1
<1>5. CASE phase = "up" /\ UNCHANGED vars /\ \E from \in 0..CommittedEnd : NewReader(from)
  <2>1. PICK from : from \in 0..CommittedEnd /\ NewReader(from)
    BY <1>5
  <2>2. from \in Nat
    BY SMT, <2>1
  <2>3. \A i \in first..active : i \in Index /\ i <= active
    <3>1. \A i \in first..active : i <= active
      BY SMT, <1>1
    <3>2. QED
      BY <3>1, StructNumbers
  <2>4. QED
    BY <1>1, <1>2, <1>3, <1>5, <2>1, <2>2, <2>3, NewReaderEffect, StandsGoes
<1>6. CASE phase = "up" /\ UNCHANGED vars /\ (OpenSegment \/ Scan)
  BY <1>1, <1>2, <1>3, <1>4, <1>6, OpenSegmentEffect, ScanEffect, StandsGoes DEF Stays
<1>7. CASE phase = "up" /\ UNCHANGED vars /\ (ReadRecord \/ Roll)
  <2>1. Decodes => Append(got, Here) \in Seq(Record)
    <3>1. ASSUME Decodes PROVE Here \in Record
      <4>1. rd.pos + 1 \in 1..Len(file[rd.seg])
        BY SMT, <1>1, <1>4, <3>1
      <4>2. file[rd.seg] \in Seq(Record)
        BY <1>1 DEF Struct, TypeOK
      <4>3. QED
        BY SMT, <4>1, <4>2, SeqElement DEF Here
    <3>2. QED
      BY SMT, <1>1, <3>1, SeqAppend
  <2>2. QED
    BY <1>1, <1>4, <1>7, <2>1, ReadRecordEffect, RollEffect, StandsGoes DEF Stays
<1>8. CASE phase = "up" /\ phase' = "up" /\ UNCHANGED <<rd, got>>
  <2>1. Moves
    BY <1>8, OpenLogStep, ReaderSteps
  <2>2. active <= active' /\ active' \in Nat
    <3>1. active' = active \/ active' = active + 1
      BY <2>1 DEF Moves, Still, Rotated, Wrote
    <3>2. QED
      BY SMT, <1>1, <3>1
  <2>3. rd.seg <= active' /\ rd.to <= active'
    <3>1. rd.seg \in Nat /\ rd.to \in Nat
      BY ReaderNumbers
    <3>2. QED
      BY SMT, <1>1, <2>2, <3>1
  <2>4. file'[rd.seg] = file[rd.seg] \/ Len(file'[rd.seg]) = Len(file[rd.seg]) + 1
    BY <1>1, <2>1 DEF Moves, Still, Rotated, Wrote
  <2>5. rd.pos <= Len(file'[rd.seg])
    <3>1. rd.pos <= Len(file[rd.seg]) + 1
      BY SMT, <1>1
    <3>2. QED
      BY <1>1, <2>4, <3>1
  <2>6. QED
    BY <1>8, <2>3, <2>5 DEF Stands
<1>9. CASE rd' = NoReader /\ got' = << >>
  <2>1. rd'.seg = 0 /\ rd'.to = 0 /\ rd'.pos = 0 /\ rd' \in ReaderType
    BY <1>2, <1>9 DEF NoReader, ReaderType
  <2>2. 0 <= active' /\ 0 <= Len(file'[0])
    <3>1. active' \in Index /\ file' \in [Index -> Seq(Record)]
      BY DEF Struct, TypeOK
    <3>2. file'[0] \in Seq(Record)
      BY <1>2, <3>1
    <3>3. Len(file'[0]) \in Nat
      BY SMT, <3>2, SeqLen
    <3>4. QED
      BY SMT, <3>1, <3>3 DEF Index
  <2>3. QED
    BY <1>2, <1>9, <2>1, <2>2 DEF Stands
<1>10. QED
  BY <1>5, <1>6, <1>7, <1>8, <1>9, ReaderSteps

----------------------------------------------------------------------------
(* Next returns MsgID after MsgID. *)

\* Segment s has the record the Reader was opened for, or its end is where it will be.
Placed(s) ==
    /\ baseMsgID[s] <= rd.from /\ rd.from + written <= nextMsgID + committed
    /\ s < active => rd.from <= baseMsgID[s + 1]

Track ==
    /\ rd.pc \in {"none", "refused", "open", "scan"} => got = << >>
    /\ rd.pc = "open" => Placed(rd.to)
    /\ rd.pc = "scan" => Placed(rd.seg) /\ baseMsgID[rd.seg] + rd.pos <= rd.from
    /\ rd.pc \in {"scan", "ready", "roll"} => Chain(rd.seg)
    /\ rd.pc = "ready" => baseMsgID[rd.seg] + rd.pos = rd.from + Len(got)
    /\ rd.pc = "roll" => baseMsgID[rd.to] = rd.from + Len(got)
    /\ \A k \in 1..Len(got) : got[k].id = rd.from + k - 1

\* The search by baseMsgID.
LEMMA SegmentForFits ==
  ASSUME Struct, Chain(first), phase = "up", NEW from \in Nat, from \in 0..CommittedEnd, ~ (from < baseMsgID[first]),
         NEW s \in first..active, s = SegmentFor(from)
  PROVE  baseMsgID[s] <= from /\ from + written <= nextMsgID + committed /\ (s < active => from <= baseMsgID[s + 1])
<1>1. /\ first \in Nat /\ active \in Nat /\ written \in Nat /\ nextMsgID \in Nat /\ committed \in Nat
      /\ first \in first..active /\ active \in first..active /\ first <= active
      /\ \A i \in first..active : base[i] \in Nat /\ baseMsgID[i] \in Nat
  <2>1. first \in Nat /\ active \in Nat /\ first <= active
    BY StructNumbers
  <2> USE <2>1
  <2>2. first \in first..active
    BY SMT
  <2>3. QED
    BY <2>2, StructNumbers, IDNumbers
<1>2. from + written <= nextMsgID + committed
  <2>1. PICK a, b : a = baseMsgID[active] /\ b = base[active]
    OBVIOUS
  <2>2. a \in Nat /\ b \in Nat /\ from \in 0..(a + committed - b) /\ a + written = nextMsgID + b
    BY <1>1, <2>1 DEF CommittedEnd, Chain
  <2>3. QED
    BY SMT, <1>1, <2>2
<1>3. PICK E : E = {i \in first..(active - 1) : from < baseMsgID[i + 1]}
  OBVIOUS
<1>4. \A i \in first..(active - 1) : i \in first..active /\ i + 1 \in first..active /\ i \in Nat
  BY SMT, <1>1
<1>5. ASSUME s = first \/ (s # first /\ s - 1 \notin E) PROVE baseMsgID[s] <= from
  <2>1. ~ (from < baseMsgID[s])
    <3>1. CASE s = first
      BY <3>1
    <3>2. CASE s # first /\ s - 1 \notin E
      <4> USE <3>2
      <4>1. s - 1 \in first..(active - 1) /\ (s - 1) + 1 = s
        BY SMT, <1>1
      <4> USE <4>1
      <4>2. ~ (from < baseMsgID[(s - 1) + 1])
        BY <1>3
      <4>3. QED
        BY <4>2
    <3>3. QED
      BY <1>5, <3>1, <3>2
  <2>2. baseMsgID[s] \in Nat
    BY <1>1
  <2>3. QED
    BY SMT, <2>1, <2>2
<1>6. CASE E = {}
  <2>1. s = active /\ ~ (s < active)
    <3>1. s = active
      BY <1>3, <1>6 DEF SegmentFor
    <3>2. QED
      BY SMT, <1>1, <3>1
  <2>2. QED
    BY <1>2, <1>5, <1>6, <2>1
<1>7. CASE E # {}
  <2>1. E \in SUBSET Nat
    BY <1>3, <1>4
  <2>2. s = MinOf(E)
    BY <1>3, <1>7 DEF SegmentFor
  <2>3. s \in E /\ \A n \in E : s <= n
    <3>1. MinOf(E) \in E /\ \A n \in E : MinOf(E) <= n
      BY ONLY ZenonT(30), <1>7, <2>1, MinOfProperties
    <3>2. QED
      BY ONLY ZenonT(30), <2>2, <3>1
  <2>4. s - 1 \notin E
    <3>1. ~ (s <= s - 1)
      BY SMT, <1>1
    <3>2. QED
      BY <2>3, <3>1
  <2>5. from < baseMsgID[s + 1] /\ baseMsgID[s + 1] \in Nat
    BY <1>1, <1>3, <1>4, <2>3
  <2>6. from <= baseMsgID[s + 1]
    BY SMT, <2>5
  <2>7. QED
    BY <1>2, <1>5, <2>4, <2>6
<1>8. QED
  BY <1>6, <1>7

\* Where a segment that is not active ends, for a Reader.
LEMMA SealedEnd ==
  ASSUME Struct, NEW s \in Index, s < active, Chain(s), NEW j, j = SegmentAfter(s)
  PROVE  /\ j \in s..active /\ s + 1 \in s..active /\ s < j /\ ReadableLen(s) = base[j] - base[s]
         /\ base[s] + Len(file[s]) <= base[j] /\ base[s + 1] <= base[j]
<1>1. s \in Nat /\ active \in Nat /\ first \in Nat /\ first <= active /\ \A i \in s..active : i \in Index
  <2>1. s \in Nat /\ active \in Nat /\ first \in Nat /\ first <= active /\ active \in Index
    BY StructNumbers, IndexFacts DEF Struct
  <2>2. QED
    BY SMT, <2>1, WalAssumption DEF Index
<1>2. s \in s..active /\ s + 1 \in s..active /\ j \in s..active /\ s < j /\ (j = s + 1 \/ s + 1 < j) /\ s # active
  BY SMT, <1>1 DEF SegmentAfter
<1>3. ReadableLen(s) = base[j] - base[s]
  BY <1>2 DEF ReadableLen
<1>4. base[s] + Len(file[s]) <= base[j]
  BY <1>2 DEF Chain
<1>5. base[s + 1] <= base[j]
  <2>1. base[s + 1] \in Nat /\ base[j] \in Nat /\ Len(file[s + 1]) \in Nat
    BY <1>1, <1>2, StructNumbers
  <2>2. CASE j = s + 1
    <3>1. base[j] <= base[j]
      BY SMT, <2>1
    <3>2. QED
      BY <2>2, <3>1
  <2>3. CASE s + 1 < j
    <3>1. base[s + 1] + Len(file[s + 1]) <= base[j]
      BY <1>2, <2>3 DEF Chain
    <3>2. QED
      BY ONLY SMTT(30), <2>1, <3>1
  <2>4. QED
    BY <1>2, <2>2, <2>3
<1>6. QED
  BY <1>2, <1>3, <1>4, <1>5

LEMMA ScanEnds ==
  ASSUME Struct, Stands, phase = "up", Chain(rd.seg), Placed(rd.seg), baseMsgID[rd.seg] + rd.pos <= rd.from,
         rd.pos >= ReadableLen(rd.seg)
  PROVE  baseMsgID[rd.seg] + rd.pos = rd.from
<1>1. PICK s \in Index : s = rd.seg
  BY ReaderNumbers
<1>2. /\ s \in Nat /\ s <= active /\ active \in Nat /\ rd.pos \in Nat /\ rd.from \in Nat
      /\ base[s] \in Nat /\ baseMsgID[s] \in Nat /\ written \in Nat /\ nextMsgID \in Nat /\ committed \in Nat
  BY <1>1, ReaderNumbers, StructNumbers, IDNumbers
<1> USE <1>2
<1>3. s \in s..active /\ (s = active \/ s < active)
  BY SMT
<1>4. baseMsgID[s] + written = nextMsgID + base[s] /\ rd.from + written <= nextMsgID + committed
  BY <1>1, <1>3 DEF Chain, Placed
<1>5. PICK a, b, p, f : a = baseMsgID[s] /\ b = base[s] /\ p = rd.pos /\ f = rd.from
  OBVIOUS
<1>6. /\ a \in Nat /\ b \in Nat /\ p \in Nat /\ f \in Nat /\ a + p <= f
      /\ a + written = nextMsgID + b /\ f + written <= nextMsgID + committed
  BY <1>1, <1>4, <1>5
<1>7. CASE s = active
  <2>1. p >= committed - b
    BY <1>1, <1>5, <1>7 DEF ReadableLen
  <2>2. a + p = f
    BY SMT, <1>6, <2>1
  <2>3. QED
    BY <1>1, <1>5, <2>2
<1>8. CASE s < active
  <2>1. PICK j : j = SegmentAfter(s)
    OBVIOUS
  <2>2. j \in s..active /\ s + 1 \in s..active /\ ReadableLen(s) = base[j] - base[s] /\ base[s + 1] <= base[j]
    BY <1>1, <1>8, <2>1, SealedEnd
  <2>3. j \in Index /\ s + 1 \in Index
    <3>1. active \in Index
      BY StructNumbers
    <3>2. QED
      BY SMT, <2>2, <3>1, WalAssumption DEF Index
  <2>4. PICK c, d, e : c = base[j] /\ d = base[s + 1] /\ e = baseMsgID[s + 1]
    OBVIOUS
  <2>5. /\ c \in Nat /\ d \in Nat /\ e \in Nat /\ d <= c /\ p >= c - b /\ f <= e
        /\ e + written = nextMsgID + d
    BY <1>1, <1>5, <1>8, <2>2, <2>3, <2>4, StructNumbers, IDNumbers DEF Placed, Chain
  <2>6. a + p = f
    BY SMT, <1>6, <2>5
  <2>7. QED
    BY <1>1, <1>5, <2>6
<1>9. QED
  BY <1>3, <1>7, <1>8

LEMMA RollTo ==
  ASSUME Struct, Stands, Chain(rd.seg), rd.seg < active, rd.pos >= ReadableLen(rd.seg), NEW j, j = SegmentAfter(rd.seg)
  PROVE  baseMsgID[j] = baseMsgID[rd.seg] + rd.pos
<1>1. PICK s \in Index : s = rd.seg
  BY ReaderNumbers
<1>2. j \in s..active /\ ReadableLen(s) = base[j] - base[s] /\ base[s] + Len(file[s]) <= base[j]
  BY <1>1, SealedEnd
<1>3. s \in Nat /\ active \in Nat /\ active \in Index /\ rd.pos \in Nat /\ rd.pos <= Len(file[s]) /\ Len(file[s]) \in Nat
  BY <1>1, ReaderNumbers, StructNumbers
<1>4. j \in Index /\ s \in s..active
  BY SMT, <1>1, <1>2, <1>3, WalAssumption DEF Index
<1>5. PICK a, b, c, d, l, p : a = baseMsgID[s] /\ b = base[s] /\ c = baseMsgID[j] /\ d = base[j] /\ l = Len(file[s]) /\ p = rd.pos
  OBVIOUS
<1>6. /\ a \in Nat /\ b \in Nat /\ c \in Nat /\ d \in Nat /\ l \in Nat /\ p \in Nat /\ written \in Nat /\ nextMsgID \in Nat
      /\ a + written = nextMsgID + b /\ c + written = nextMsgID + d /\ b + l <= d /\ p <= l /\ p >= d - b
  BY <1>1, <1>2, <1>3, <1>4, <1>5, StructNumbers, IDNumbers DEF Chain
<1>7. c = a + p
  BY SMT, <1>6
<1>8. QED
  BY <1>1, <1>5, <1>7

\* The id of the record at localPos.
LEMMA HereID ==
  ASSUME Struct, Stands, Chain(rd.seg), Decodes
  PROVE  Here.id = baseMsgID[rd.seg] + rd.pos
<1>1. PICK s \in Index, p \in Nat : s = rd.seg /\ p = rd.pos
  BY ReaderNumbers
<1>2. /\ p < Len(file[s]) /\ Len(file[s]) \in Nat /\ s <= active /\ s \in Nat /\ active \in Nat
      /\ baseMsgID[s] \in Nat
  BY <1>1, ReaderNumbers, IDNumbers DEF Decodes
<1> USE <1>2
<1>3. p + 1 \in 1..Len(file[s]) /\ s \in s..active
  BY SMT
<1>4. file[s][p + 1].id = baseMsgID[s] + (p + 1) - 1
  BY <1>1, <1>3 DEF Chain
<1>5. baseMsgID[s] + (p + 1) - 1 = baseMsgID[s] + p
  BY SMT
<1>6. QED
  BY <1>1, <1>4, <1>5 DEF Here

LEMMA TrackNew ==
  ASSUME Struct, Whole, Intact, Stands, Track, phase = "up", UNCHANGED vars, \E from \in 0..CommittedEnd : NewReader(from)
  PROVE  Track'
<1>1. PICK from : from \in 0..CommittedEnd /\ NewReader(from)
  OBVIOUS
<1> USE <1>1
<1>2. from \in Nat /\ Len(<< >>) = 0 /\ \A k \in 1..0 : FALSE
  BY SMT
<1>3. UNCHANGED <<baseMsgID, written, nextMsgID, committed, active>>
  BY DEF vars, state, memVars, diskVars
<1> USE <1>2, NewReaderEffect
<1>4. got = << >> /\ got' = << >>
  BY DEF Track
<1> USE <1>4
<1>5. CASE Goes("refused", 0, 0, 0)
  BY <1>5 DEF Goes, Track
<1>6. CASE ~ (from < baseMsgID[first]) /\ Goes("open", 0, 0, SegmentFor(from)) /\ rd'.from = from /\ SegmentFor(from) \in first..active
  <2>1. Chain(first)
    BY ChainFirst
  <2> USE <1>6
  <2>2. PICK s \in first..active : s = SegmentFor(from)
    OBVIOUS
  <2> USE <2>2
  <2>3. baseMsgID[s] <= from /\ from + written <= nextMsgID + committed /\ (s < active => from <= baseMsgID[s + 1])
    BY <2>1, SegmentForFits
  <2>4. rd'.pc = "open" /\ rd'.to = s /\ rd'.from = from
    BY DEF Goes
  <2> USE <2>4
  <2>5. Placed(rd.to)'
    BY <1>3, <2>3 DEF Placed
  <2>6. QED
    BY <2>5 DEF Track
<1>7. QED
  BY <1>5, <1>6

\* A step of the Reader keeps what Track says of the log.
LEMMA SameLog ==
  ASSUME UNCHANGED vars
  PROVE  /\ UNCHANGED <<baseMsgID, written, nextMsgID, committed, active>>
         /\ \A s : Chain(s) => Chain(s)'
<1>1. UNCHANGED <<baseMsgID, written, nextMsgID, committed, active, base, file>>
  BY DEF vars, state, memVars, diskVars
<1>2. QED
  BY <1>1 DEF Chain

LEMMA TrackOpen ==
  ASSUME Struct, Whole, Intact, Stands, Track, phase = "up", UNCHANGED vars, OpenSegment
  PROVE  Track'
<1>1. Stays /\ rd.pc \in {"open", "roll"}
  BY OpenSegmentEffect
<1>2. rd'.from = rd.from /\ got' = got /\ UNCHANGED <<baseMsgID, written, nextMsgID, committed, active>>
  BY <1>1, SameLog DEF Stays
<1>3. CASE Goes("failed", rd.seg, rd.pos, rd.to)
  BY <1>2, <1>3 DEF Goes, Track
<1>4. CASE ~ (rd.to < first) /\ Goes(IF rd.pc = "open" THEN "scan" ELSE "ready", rd.to, 0, rd.to)
  <2>1. Chain(rd.to)
    <3>1. Chain(first)
      BY ChainFirst
    <3>2. rd.to \in Nat /\ first \in Nat /\ first <= rd.to /\ active \in Nat
      <4>1. rd.to \in Nat /\ first \in Nat /\ active \in Nat
        BY ReaderNumbers
      <4>2. QED
        BY SMT, <1>4, <4>1
    <3>3. QED
      BY <3>1, <3>2, ChainLater
  <2>2. baseMsgID[rd.to] + 0 = baseMsgID[rd.to]
    <3>1. baseMsgID[rd.to] \in Nat
      BY ReaderNumbers, IDNumbers
    <3>2. QED
      BY SMT, <3>1
  <2>3. Chain(rd.seg)' /\ rd'.seg = rd.to /\ rd'.pos = 0 /\ rd'.to = rd.to
    <3>1. rd'.seg = rd.to /\ rd'.pos = 0 /\ rd'.to = rd.to /\ Chain(rd.to)'
      BY <1>4, <2>1, SameLog DEF Goes
    <3>2. QED
      BY <3>1 DEF Chain
  <2> USE <2>2, <2>3
  <2>4. CASE rd.pc = "open"
    <3>1. rd'.pc = "scan" /\ Placed(rd.to) /\ got = << >>
      BY <1>4, <2>4 DEF Goes, Track
    <3> USE <3>1
    <3>2. Placed(rd.seg)' /\ baseMsgID[rd.to] + 0 <= rd.from
      BY <1>2 DEF Placed
    <3>3. QED
      BY <1>2, <3>2 DEF Track
  <2>5. CASE rd.pc = "roll"
    <3>1. rd'.pc = "ready" /\ baseMsgID[rd.to] = rd.from + Len(got)
      BY <1>4, <2>5 DEF Goes, Track
    <3>2. QED
      BY <1>2, <3>1 DEF Track
  <2>6. QED
    BY <1>1, <2>4, <2>5
<1>5. QED
  BY <1>3, <1>4, OpenSegmentEffect

LEMMA TrackScan ==
  ASSUME Struct, Stands, Track, phase = "up", UNCHANGED vars, Scan
  PROVE  Track'
<1>1. Stays /\ rd.pc = "scan" /\ Chain(rd.seg) /\ Placed(rd.seg) /\ baseMsgID[rd.seg] + rd.pos <= rd.from /\ got = << >>
  BY ScanEffect DEF Track
<1> USE <1>1
<1>2. rd'.from = rd.from /\ got' = got /\ UNCHANGED <<baseMsgID, written, nextMsgID, committed, active>>
  BY SameLog DEF Stays
<1>3. /\ rd.pos \in Nat /\ rd.from \in Nat /\ baseMsgID[rd.seg] \in Nat /\ Len(got) = 0 /\ rd.from + 0 = rd.from
  <2>1. rd.pos \in Nat /\ rd.from \in Nat /\ baseMsgID[rd.seg] \in Nat
    BY ReaderNumbers, IDNumbers
  <2>2. QED
    BY SMT, <2>1
<1>4. ASSUME rd'.seg = rd.seg PROVE Chain(rd.seg)' /\ Placed(rd.seg)'
  <2>1. UNCHANGED <<base, file>>
    BY DEF vars, state, memVars, diskVars
  <2>2. QED
    BY <1>2, <1>4, <2>1 DEF Chain, Placed
<1> USE <1>3
<1>5. ASSUME Goes("ready", rd.seg, rd.pos, rd.to), baseMsgID[rd.seg] + rd.pos = rd.from PROVE Track'
  <2> USE <1>5
  <2>1. rd'.pc = "ready" /\ rd'.seg = rd.seg /\ rd'.pos = rd.pos
    BY DEF Goes
  <2> USE <2>1
  <2>2. baseMsgID'[rd'.seg] + rd'.pos = rd'.from + Len(got')
    BY <1>2
  <2>3. QED
    BY <1>2, <1>4, <2>2 DEF Track
<1>6. CASE rd.pos >= ReadableLen(rd.seg) /\ Goes("ready", rd.seg, rd.pos, rd.to)
  BY <1>5, <1>6, ScanEnds
<1>7. CASE Decodes /\ Here.id >= rd.from /\ Goes("ready", rd.seg, rd.pos, rd.to)
  <2>1. baseMsgID[rd.seg] + rd.pos >= rd.from
    BY <1>7, HereID
  <2>2. baseMsgID[rd.seg] + rd.pos = rd.from
    BY SMT, <2>1
  <2>3. QED
    BY <1>5, <1>7, <2>2
<1>8. CASE Goes("failed", rd.seg, rd.pos, rd.to)
  BY <1>2, <1>8 DEF Goes, Track
<1>9. CASE Decodes /\ ~ (Here.id >= rd.from) /\ Goes("scan", rd.seg, rd.pos + 1, rd.to)
  <2>1. ~ (baseMsgID[rd.seg] + rd.pos >= rd.from)
    BY <1>9, HereID
  <2>2. baseMsgID[rd.seg] + (rd.pos + 1) <= rd.from
    BY SMT, <2>1
  <2>3. rd'.pc = "scan" /\ rd'.seg = rd.seg /\ rd'.pos = rd.pos + 1
    BY <1>9 DEF Goes
  <2> USE <2>3
  <2>4. baseMsgID'[rd'.seg] + rd'.pos <= rd'.from
    BY <1>2, <2>2
  <2>5. QED
    BY <1>2, <1>4, <2>4 DEF Track
<1>10. QED
  BY <1>6, <1>7, <1>8, <1>9, ScanEffect

LEMMA TrackRead ==
  ASSUME Struct, Stands, Track, phase = "up", UNCHANGED vars, ReadRecord
  PROVE  Track'
<1>1. rd.pc = "ready" /\ rd'.from = rd.from /\ Chain(rd.seg) /\ baseMsgID[rd.seg] + rd.pos = rd.from + Len(got)
  BY ReadRecordEffect DEF Track
<1>2. UNCHANGED <<baseMsgID, written, nextMsgID, committed, active, base, file>>
  BY DEF vars, state, memVars, diskVars
<1>3. rd.pos \in Nat /\ rd.from \in Nat /\ baseMsgID[rd.seg] \in Nat /\ Len(got) \in Nat /\ got \in Seq(Record)
  BY ReaderNumbers, IDNumbers DEF Stands
<1>4. CASE Goes("failed", rd.seg, rd.pos, rd.to) /\ UNCHANGED got
  BY <1>1, <1>4 DEF Goes, Track
<1>5. CASE Decodes /\ Goes("ready", rd.seg, rd.pos + 1, rd.to) /\ got' = Append(got, Here)
  <2>1. Here.id = rd.from + Len(got)
    BY <1>1, <1>5, HereID
  <2>2. Here \in Record
    <3>1. rd.pos + 1 \in 1..Len(file[rd.seg]) /\ file[rd.seg] \in Seq(Record)
      <4>1. rd.pos < Len(file[rd.seg]) /\ Len(file[rd.seg]) \in Nat /\ file[rd.seg] \in Seq(Record)
        BY <1>5, ReaderNumbers DEF Decodes, Struct, TypeOK
      <4>2. QED
        BY SMT, <1>3, <4>1
    <3>2. QED
      BY SMT, <3>1, SeqElement DEF Here
  <2>3. /\ Len(got') = Len(got) + 1 /\ got'[Len(got) + 1] = Here
        /\ \A k \in 1..Len(got) : got'[k] = got[k]
    BY SMT, <1>3, <1>5, <2>2, SeqAppend
  <2>4. /\ \A k \in 1..(Len(got) + 1) : k \in 1..Len(got) \/ k = Len(got) + 1
        /\ rd.from + Len(got) = rd.from + (Len(got) + 1) - 1
        /\ baseMsgID[rd.seg] + (rd.pos + 1) = rd.from + (Len(got) + 1)
    <3>1. PICK a, p, f, l : a = baseMsgID[rd.seg] /\ p = rd.pos /\ f = rd.from /\ l = Len(got)
      OBVIOUS
    <3>2. a \in Nat /\ p \in Nat /\ f \in Nat /\ l \in Nat /\ a + p = f + l
      BY <1>1, <1>3, <3>1
    <3>3. (\A k \in 1..(l + 1) : k \in 1..l \/ k = l + 1) /\ f + l = f + (l + 1) - 1 /\ a + (p + 1) = f + (l + 1)
      BY SMT, <3>2
    <3>4. QED
      BY <3>1, <3>3
  <2> USE <2>3, <2>4
  <2>5. \A k \in 1..(Len(got) + 1) : got'[k].id = rd.from + k - 1
    BY <2>1 DEF Track
  <2>6. rd'.pc = "ready" /\ rd'.seg = rd.seg /\ rd'.pos = rd.pos + 1
    BY <1>5 DEF Goes
  <2> USE <2>6
  <2>7. Chain(rd.seg)' /\ baseMsgID'[rd'.seg] + rd'.pos = rd'.from + Len(got')
    BY <1>1, <1>2 DEF Chain
  <2>8. QED
    BY <1>1, <2>5, <2>7 DEF Track
<1>6. QED
  BY <1>4, <1>5, ReadRecordEffect

LEMMA TrackRoll ==
  ASSUME Struct, Stands, Track, phase = "up", UNCHANGED vars, Roll
  PROVE  Track'
<1>1. /\ Stays /\ rd.pc = "ready" /\ Chain(rd.seg) /\ baseMsgID[rd.seg] + rd.pos = rd.from + Len(got)
      /\ rd.seg < active /\ rd.pos >= ReadableLen(rd.seg) /\ Goes("roll", rd.seg, rd.pos, SegmentAfter(rd.seg))
  BY RollEffect DEF Track
<1>2. UNCHANGED <<baseMsgID, written, nextMsgID, committed, active, base, file>>
  BY DEF vars, state, memVars, diskVars
<1>3. PICK j : j = SegmentAfter(rd.seg)
  OBVIOUS
<1> USE <1>1, <1>3
<1>4. baseMsgID[j] = rd.from + Len(got)
  BY RollTo
<1>5. rd'.pc = "roll" /\ rd'.seg = rd.seg /\ rd'.to = j /\ rd'.from = rd.from /\ got' = got
  BY DEF Goes, Stays
<1> USE <1>5
<1>6. Chain(rd.seg)' /\ baseMsgID'[rd'.to] = rd'.from + Len(got')
  BY <1>2, <1>4 DEF Chain
<1>7. QED
  BY <1>6 DEF Track

\* The log goes on under the Reader.
LEMMA PlacedMoves ==
  ASSUME Struct, Struct', phase = "up", phase' = "up", Moves, UNCHANGED rd, rd.from \in Nat, NEW s \in Index, s <= active, Placed(s)
  PROVE  /\ baseMsgID'[s] <= rd.from /\ rd.from + written' <= nextMsgID' + committed'
         /\ s < active' => rd.from <= baseMsgID'[s + 1]
<1>1. /\ s \in Nat /\ active \in Nat /\ written \in Nat /\ nextMsgID \in Nat /\ committed \in Nat /\ committed' \in Nat
      /\ committed <= committed' /\ committed <= written /\ baseMsgID[s] \in Nat
  BY StructNumbers, IDNumbers, IndexFacts DEF Struct, TypeOK, Layout, Moves
<1>2. /\ baseMsgID[s] <= rd.from /\ rd.from + written <= nextMsgID + committed
      /\ s < active => rd.from <= baseMsgID[s + 1]
  BY DEF Placed
<1> USE <1>1
<1>3. rd.from + written <= nextMsgID + committed'
  BY SMT, <1>2
<1>4. CASE Still
  BY <1>2, <1>3, <1>4 DEF Still
<1>5. CASE Rotated
  <2>1. active' = active + 1 /\ active + 1 \in Index /\ UNCHANGED <<written, nextMsgID>>
    BY <1>5 DEF Rotated
  <2>2. /\ s # active + 1 /\ rd.from <= nextMsgID
        /\ s < active + 1 => s < active \/ s = active
        /\ s < active => s + 1 # active + 1 /\ s + 1 \in Index
    <3>1. active \in Index
      BY StructNumbers
    <3>2. QED
      BY SMT, <1>2, <3>1, WalAssumption DEF Index
  <2> USE <2>1, <2>2
  <2>3. baseMsgID'[s] = baseMsgID[s] /\ baseMsgID'[active + 1] = nextMsgID /\ (s < active => baseMsgID'[s + 1] = baseMsgID[s + 1])
    BY <1>5 DEF Rotated, Struct, TypeOK
  <2>4. QED
    BY <1>2, <1>3, <2>3
<1>6. CASE Wrote
  <2>1. UNCHANGED <<baseMsgID, active>> /\ written' = written + 1 /\ nextMsgID' = nextMsgID + 1
    BY <1>6 DEF Wrote
  <2>2. rd.from + (written + 1) <= (nextMsgID + 1) + committed'
    BY SMT, <1>3
  <2>3. QED
    BY <1>2, <2>1, <2>2
<1>7. QED
  BY <1>4, <1>5, <1>6 DEF Moves

LEMMA TrackMoves ==
  ASSUME Struct, Struct', Stands, Track, phase = "up", phase' = "up", Moves, UNCHANGED <<rd, got>>
  PROVE  Track'
<1>1. rd.seg \in Index /\ rd.to \in Index /\ rd.seg <= active /\ rd.to <= active /\ rd.from \in Nat /\ rd.pos \in Nat
  BY ReaderNumbers
<1>2. ASSUME NEW s \in Index, s <= active PROVE baseMsgID'[s] = baseMsgID[s]
  <2> USE <1>2
  <2>1. s # active + 1
    BY SMT, StructNumbers DEF Index
  <2>2. QED
    BY <2>1 DEF Moves, Still, Rotated, Wrote, Struct, TypeOK
<1> USE <1>1
<1>3. rd.pc \in {"scan", "ready", "roll"} => Chain(rd.seg)'
  <2>1. PICK s \in Index : s = rd.seg
    OBVIOUS
  <2>2. Chain(s) => Chain(s)'
    BY ChainMoves
  <2> USE <2>1
  <2>3. rd'.seg = s
    OBVIOUS
  <2>4. QED
    BY <2>2, <2>3 DEF Track, Chain
<1> USE PlacedMoves
<1>4. rd.pc = "open" => Placed(rd.to)'
  <2>1. PICK s \in Index : s = rd.to
    OBVIOUS
  <2>2. QED
    BY <2>1 DEF Track, Placed
<1>5. rd.pc = "scan" => Placed(rd.seg)'
  <2>1. PICK s \in Index : s = rd.seg
    OBVIOUS
  <2>2. QED
    BY <2>1 DEF Track, Placed
<1>6. baseMsgID'[rd.seg] = baseMsgID[rd.seg] /\ baseMsgID'[rd.to] = baseMsgID[rd.to]
  BY <1>2
<1>7. QED
  BY <1>3, <1>4, <1>5, <1>6 DEF Track

LEMMA TrackStep ==
  ASSUME Struct, Struct', Whole, Stands, Intact => Track, ReaderNext
  PROVE  Intact' => Track'
<1>1. Intact' => Intact
  BY ReaderSteps, SetupFixed DEF Intact, Faults, Stops, SyncMode
<1>2. ASSUME Intact, rd' = NoReader, got' = << >> PROVE Track'
  <2>1. rd'.pc = "none"
    BY <1>2 DEF NoReader
  <2>2. Len(<< >>) = 0 /\ \A k \in 1..0 : FALSE
    BY SMT
  <2>3. QED
    BY <1>2, <2>1, <2>2 DEF Track
<1>3. ASSUME Intact, phase = "up", phase' = "up", UNCHANGED <<rd, got>> PROVE Track'
  BY <1>3, OpenLogStep, ReaderSteps, TrackMoves
<1>4. QED
  BY <1>1, <1>2, <1>3, ReaderSteps, TrackNew, TrackOpen, TrackScan, TrackRead, TrackRoll

\* The log under a Reader is the log without one.
LEMMA WalUnderReader == ReaderSpec => [](LogInv /\ Stands)
<1>1. ReaderInit => LogInv /\ Stands
  BY StandsInit, LogInvInit DEF ReaderInit
<1>2. LogInv /\ Stands /\ [ReaderNext]_<<vars, readerVars>> => (LogInv /\ Stands)'
  <2> SUFFICES ASSUME LogInv, Stands, [ReaderNext]_<<vars, readerVars>> PROVE LogInv' /\ Stands'
    OBVIOUS
  <2> USE LogInvStep
  <2>1. CASE ReaderNext
    <3> USE <2>1
    <3>1. LogInv'
      BY ReaderSteps
    <3>2. QED
      BY <3>1, StandsStep DEF LogInv
  <2>2. CASE UNCHANGED <<vars, readerVars>>
    <3>1. UNCHANGED vars /\ UNCHANGED <<rd, got, active, file, phase>>
      BY <2>2 DEF vars, readerVars, state, diskVars, memVars
    <3>2. QED
      BY <3>1 DEF Stands
  <2>3. QED
    BY <2>1, <2>2
<1>3. QED
  BY <1>1, <1>2, PTL DEF ReaderSpec

\* A Reader returns MsgID after MsgID from the one it was opened for, whatever the log
\* does meanwhile: appends, rotations, fsyncs that fail, retention that drops the
\* segment it is in.  For that the segments it has left to read follow one another in
\* byte offsets and in MsgIDs alike, the dropped ones included.
THEOREM ReadsInOrder == ReaderSpec => []InOrder
<1>1. ReaderInit => (Intact => Track)
  <2> SUFFICES ASSUME ReaderInit PROVE Track
    OBVIOUS
  <2>1. rd.pc = "none" /\ got = << >>
    BY DEF ReaderInit, NoReader
  <2>2. Len(<< >>) = 0 /\ \A k \in 1..0 : FALSE
    BY SMT
  <2>3. QED
    BY <2>1, <2>2 DEF Track
<1>2. LogInv /\ LogInv' /\ Stands /\ (Intact => Track) /\ [ReaderNext]_<<vars, readerVars>> => (Intact => Track)'
  <2> SUFFICES ASSUME LogInv, LogInv', Stands, Intact => Track, [ReaderNext]_<<vars, readerVars>> PROVE Intact' => Track'
    OBVIOUS
  <2>1. CASE ReaderNext
    BY <2>1, TrackStep DEF LogInv
  <2>2. CASE UNCHANGED <<vars, readerVars>>
    <3>1. UNCHANGED <<rd, got, active, file, base, baseMsgID, written, nextMsgID, committed, setup>>
      BY <2>2 DEF vars, readerVars, state, diskVars, memVars
    <3>2. QED
      BY <3>1 DEF Track, Chain, Placed, Intact, Faults, Stops, SyncMode
  <2>3. QED
    BY <2>1, <2>2
<1>3. (Intact => Track) => InOrder
  BY DEF Track, InOrder
<1>4. QED
  BY <1>1, <1>2, <1>3, WalUnderReader, PTL DEF ReaderSpec

----------------------------------------------------------------------------
(* What Next returned is fsynced. *)

\* Record r is where a scan finds it after a machine failure, or its segment is dropped.
DurableRecord(r) ==
    r \in dropped \/ \E i \in first..active : \E k \in 1..synced[i] : file[i][k] = r /\ \A t \in torn[i] : k <= t

Reads ==
    /\ \A k \in 1..Len(got) : DurableRecord(got[k])
    /\ \A t \in torn[rd.seg] : rd.pos <= t
    /\ rd.seg < first /\ rd.pc \in {"scan", "ready", "roll"} => RecordsIn(rd.seg) \subseteq dropped

LEMMA DurableAdds ==
  ASSUME Struct, Struct', Moves, Adds, NEW r, DurableRecord(r)
  PROVE  DurableRecord(r)'
<1>1. CASE r \in dropped
  BY <1>1 DEF DurableRecord, Adds
<1>2. CASE r \notin dropped
  <2>1. PICK i \in first..active : \E k \in 1..synced[i] : file[i][k] = r /\ \A t \in torn[i] : k <= t
    BY <1>2 DEF DurableRecord
  <2>2. PICK k \in 1..synced[i] : file[i][k] = r /\ \A t \in torn[i] : k <= t
    BY <2>1
  <2>3. /\ i \in Index /\ synced[i] \in Nat /\ Len(file[i]) \in Nat /\ synced[i] <= Len(file[i]) /\ synced[i] <= synced'[i]
        /\ first \in Nat /\ active \in Nat /\ first' = first
    BY StructNumbers DEF Adds
  <2> USE <2>3
  <2>4. synced'[i] \in Nat /\ (active' = active \/ active' = active + 1)
    BY DEF Struct, TypeOK, Moves, Still, Rotated, Wrote
  <2>5. k \in 1..synced'[i] /\ k \in 1..Len(file[i]) /\ k <= Len(file[i]) /\ i \in first'..active'
    BY SMT, <2>4
  <2> USE <2>2, <2>5
  <2>6. file'[i][k] = r
    BY DEF Adds
  <2>7. \A t \in torn'[i] : k <= t
    BY DEF Adds
  <2>8. QED
    BY <2>6, <2>7 DEF DurableRecord
<1>3. QED
  BY <1>1, <1>2

\* What retention drops is in dropped from then on.
LEMMA DropFacts ==
  ASSUME Struct, NEW keepIndex \in Index, DropSegmentsBefore(keepIndex)
  PROVE  /\ UNCHANGED <<file, synced, torn, active>> /\ first' \in Nat /\ first < first' /\ dropped \subseteq dropped'
         /\ \A i \in Nat : first <= i /\ i < first' => RecordsIn(i) \subseteq dropped'
<1>1. PICK keep : keep = Clamp(keepIndex)
  OBVIOUS
<1>2. /\ UNCHANGED <<file, synced, torn, active>> /\ first < keep /\ first' = keep
      /\ dropped' = dropped \cup UNION {RecordsIn(i) : i \in first..(keep - 1)}
  BY <1>1 DEF DropSegmentsBefore
<1>3. keep \in Nat /\ first \in Nat
  <2>1. keepIndex \in Nat /\ active \in Nat /\ first \in Nat
    BY StructNumbers, IndexFacts DEF Struct
  <2>2. QED
    BY SMT, <1>1, <2>1 DEF Clamp
<1> USE <1>3
<1>4. \A i \in Nat : first <= i /\ i < keep => i \in first..(keep - 1)
  BY SMT
<1> USE <1>2
<1>5. \A i \in first..(keep - 1) : RecordsIn(i) \subseteq dropped'
  OBVIOUS
<1>6. QED
  BY <1>4, <1>5

LEMMA DurableDrop ==
  ASSUME Struct, NEW keepIndex \in Index, DropSegmentsBefore(keepIndex), NEW r, DurableRecord(r)
  PROVE  DurableRecord(r)'
<1>1. /\ UNCHANGED <<file, synced, torn, active>> /\ first' \in Nat /\ first < first' /\ dropped \subseteq dropped'
      /\ \A i \in Nat : first <= i /\ i < first' => RecordsIn(i) \subseteq dropped'
  BY DropFacts
<1> USE <1>1
<1>2. CASE r \in dropped
  BY <1>2 DEF DurableRecord
<1>3. CASE r \notin dropped
  <2>1. PICK i \in first..active : \E k \in 1..synced[i] : file[i][k] = r /\ \A t \in torn[i] : k <= t
    BY <1>3 DEF DurableRecord
  <2>2. PICK k \in 1..synced[i] : file[i][k] = r /\ \A t \in torn[i] : k <= t
    BY <2>1
  <2>3. /\ i \in Index /\ synced[i] \in Nat /\ Len(file[i]) \in Nat /\ synced[i] <= Len(file[i])
        /\ first \in Nat /\ active \in Nat /\ i \in Nat
    BY StructNumbers
  <2> USE <2>3
  <2>4. k \in 1..Len(file[i]) /\ first <= i /\ (i < first' \/ i \in first'..active)
    BY SMT
  <2> USE <2>2, <2>4
  <2>5. r \in RecordsIn(i)
    BY DEF RecordsIn
  <2>6. CASE i < first'
    BY <2>5, <2>6 DEF DurableRecord
  <2>7. CASE i \in first'..active
    BY <2>7 DEF DurableRecord
  <2>8. QED
    BY <2>6, <2>7
<1>4. QED
  BY <1>2, <1>3

LEMMA ReadsAdds ==
  ASSUME Struct, Struct', Stands, Reads, Moves, Adds, UNCHANGED <<rd, got>>
  PROVE  Reads'
<1>1. \A k \in 1..Len(got') : DurableRecord(got[k])'
  BY DurableAdds DEF Reads
<1>2. rd.seg \in Index /\ rd.pos <= Len(file[rd.seg])
  BY ReaderNumbers
<1>3. \A t \in torn'[rd.seg] : rd.pos <= t
  BY <1>2 DEF Adds, Reads
<1>4. ASSUME rd.seg < first, rd.pc \in {"scan", "ready", "roll"} PROVE RecordsIn(rd.seg)' \subseteq dropped'
  <2> USE <1>4
  <2>1. rd.seg # active
    <3>1. rd.seg \in Nat /\ first \in Nat /\ active \in Nat /\ first <= active
      BY ReaderNumbers
    <3>2. QED
      BY SMT, <3>1
  <2>2. file'[rd.seg] = file[rd.seg]
    BY <1>2, <2>1 DEF Moves, Still, Rotated, Wrote
  <2>3. file'[rd'.seg] = file[rd.seg]
    BY <2>2
  <2>4. RecordsIn(rd.seg)' = RecordsIn(rd.seg)
    BY <2>3 DEF RecordsIn
  <2>5. RecordsIn(rd.seg) \subseteq dropped'
    BY DEF Reads, Adds
  <2>6. QED
    BY <2>4, <2>5
<1>5. QED
  BY <1>1, <1>3, <1>4 DEF Reads, Adds

LEMMA ReadsDrop ==
  ASSUME Struct, Stands, Reads, NEW keepIndex \in Index, DropSegmentsBefore(keepIndex), UNCHANGED <<rd, got>>
  PROVE  Reads'
<1>1. \A k \in 1..Len(got') : DurableRecord(got[k])'
  BY DurableDrop DEF Reads
<1>2. /\ UNCHANGED <<file, synced, torn, active>> /\ first' \in Nat /\ first < first' /\ dropped \subseteq dropped'
      /\ \A i \in Nat : first <= i /\ i < first' => RecordsIn(i) \subseteq dropped'
  BY DropFacts
<1>3. rd.seg \in Nat /\ (rd.seg < first \/ first <= rd.seg)
  <2>1. rd.seg \in Nat /\ first \in Nat
    BY ReaderNumbers
  <2>2. QED
    BY SMT, <2>1
<1> USE <1>2
<1>4. RecordsIn(rd.seg)' = RecordsIn(rd.seg)
  BY DEF RecordsIn
<1>5. QED
  BY <1>1, <1>3, <1>4 DEF Reads

\* The record that Next returns is below the limit, and the limit below the fsynced length.
LEMMA HereDurable ==
  ASSUME Struct, Stands, Reads, CommittedDurable, Guarded, phase = "up", rd.pc = "ready", Decodes, rd.pos < ReadableLen(rd.seg)
  PROVE  DurableRecord(Here) /\ \A t \in torn[rd.seg] : rd.pos + 1 <= t
<1>1. PICK s \in Index, p \in Nat : s = rd.seg /\ p = rd.pos
  BY ReaderNumbers
<1>2. /\ p < Len(file[s]) /\ Len(file[s]) \in Nat /\ synced[s] \in Nat /\ s <= active /\ s \in Nat /\ active \in Nat /\ first \in Nat
      /\ p \notin torn[s] /\ torn[s] \subseteq Nat /\ \A t \in torn[s] : p <= t
  BY <1>1, ReaderNumbers, StructNumbers DEF Decodes, Reads, Struct, TypeOK
<1>3. \A t \in torn[s] : p + 1 <= t
  BY SMT, <1>2
<1>4. p + 1 \in 1..Len(file[s]) /\ (s < first \/ s \in first..active)
  BY SMT, <1>2
<1>5. CASE s < first
  <2>1. file[s][p + 1] \in RecordsIn(s)
    BY <1>4 DEF RecordsIn
  <2>2. file[s][p + 1] \in dropped
    BY <1>1, <1>5, <2>1 DEF Reads
  <2>3. QED
    BY <1>1, <1>3, <2>2 DEF DurableRecord, Here
<1>6. CASE s \in first..active
  <2>1. PICK l : l = ReadableLen(s)
    OBVIOUS
  <2>2. p < l /\ l <= synced[s]
    BY <1>1, <1>6, <2>1 DEF CommittedDurable, Guarded
  <2>3. l \in Int
    <3>1. committed \in Nat /\ \A i \in Index : base[i] \in Nat
      BY StructNumbers
    <3>2. s # active => SegmentAfter(s) \in Index
      <4>1. first \in Index /\ active \in Index
        BY DEF Struct, TypeOK
      <4>2. QED
        BY SMT, <1>2, <4>1, WalAssumption DEF SegmentAfter, Index
    <3>3. CASE s = active
      <4>1. l = committed - base[s] /\ base[s] \in Nat
        BY <2>1, <3>1, <3>3 DEF ReadableLen
      <4>2. QED
        BY SMT, <3>1, <4>1
    <3>4. CASE s # active
      <4>1. PICK j \in Index : j = SegmentAfter(s)
        BY <3>2, <3>4
      <4>2. l = base[j] - base[s] /\ base[s] \in Nat /\ base[j] \in Nat
        BY <2>1, <3>1, <3>4, <4>1 DEF ReadableLen
      <4>3. QED
        BY SMT, <4>2
    <3>5. QED
      BY <3>3, <3>4
  <2>4. p + 1 \in 1..synced[s]
    BY SMT, <1>2, <2>2, <2>3
  <2>5. QED
    BY <1>1, <1>3, <1>6, <2>4 DEF DurableRecord, Here
<1>7. QED
  BY <1>4, <1>5, <1>6

LEMMA ReadsReader ==
  ASSUME Struct, Stands, Reads, CommittedDurable, Guarded, phase = "up", UNCHANGED vars,
         (\E from \in 0..CommittedEnd : NewReader(from)) \/ OpenSegment \/ Scan \/ ReadRecord \/ Roll
  PROVE  Reads'
<1>1. UNCHANGED <<file, synced, torn, active, first, dropped>>
  BY DEF vars, state, diskVars, histVars
<1>2. \A r : DurableRecord(r) => DurableRecord(r)'
  BY <1>1 DEF DurableRecord
<1>3. \A i \in Index : \A t \in torn[i] : 0 <= t
  <2>1. \A i \in Index : torn[i] \subseteq Nat
    BY DEF Struct, TypeOK
  <2>2. QED
    BY SMT, <2>1
<1>4. 0 \in Index /\ rd.to \in Index
  <2>1. rd.to \in Index
    BY ReaderNumbers
  <2>2. QED
    BY SMT, <2>1, WalAssumption DEF Index
<1>5. ASSUME UNCHANGED got, NEW pc, NEW pos, NEW to, Goes(pc, rd.seg, pos, to), \A t \in torn[rd.seg] : pos <= t,
             pc = "failed" \/ rd.pc \in {"scan", "ready", "roll"}
      PROVE  Reads'
  <2> USE <1>5
  <2>1. rd'.pc = pc /\ rd'.seg = rd.seg /\ rd'.pos = pos
    BY DEF Goes
  <2>2. \A k \in 1..Len(got') : DurableRecord(got[k])'
    BY <1>2 DEF Reads
  <2> USE <2>1
  <2>3. RecordsIn(rd.seg)' = RecordsIn(rd.seg)
    BY <1>1 DEF RecordsIn
  <2>4. QED
    BY <1>1, <2>2, <2>3 DEF Reads
<1>6. CASE \E from \in 0..CommittedEnd : NewReader(from)
  <2>1. PICK from : from \in 0..CommittedEnd /\ NewReader(from)
    BY <1>6
  <2> USE <2>1
  <2>2. from \in Nat
    BY SMT
  <2>3. UNCHANGED got /\ \E pc \in {"refused", "open"} : \E to : Goes(pc, 0, 0, to)
    BY <2>2, NewReaderEffect
  <2> USE <2>3
  <2>4. rd'.pc \in {"refused", "open"} /\ rd'.seg = 0 /\ rd'.pos = 0
    BY DEF Goes
  <2>5. \A k \in 1..Len(got') : DurableRecord(got[k])'
    BY <1>2 DEF Reads
  <2>6. QED
    BY <1>1, <1>3, <1>4, <2>4, <2>5 DEF Reads
<1>7. CASE OpenSegment
  <2> USE <1>7, OpenSegmentEffect
  <2>1. CASE Goes("failed", rd.seg, rd.pos, rd.to)
    BY <1>5, <2>1 DEF Reads, Stays
  <2>2. CASE ~ (rd.to < first) /\ Goes(IF rd.pc = "open" THEN "scan" ELSE "ready", rd.to, 0, rd.to)
    <3> USE <2>2
    <3>1. rd'.seg = rd.to /\ rd'.pos = 0 /\ UNCHANGED got
      BY DEF Goes, Stays
    <3> USE <3>1
    <3>2. \A k \in 1..Len(got') : DurableRecord(got[k])'
      BY <1>2 DEF Reads
    <3>3. QED
      BY <1>1, <1>3, <1>4, <3>2 DEF Reads
  <2>3. QED
    BY <2>1, <2>2
<1>8. CASE Scan
  <2>1. Decodes => \A t \in torn[rd.seg] : rd.pos + 1 <= t
    <3>1. /\ rd.pos \in Nat /\ torn[rd.seg] \subseteq Nat /\ (Decodes => rd.pos \notin torn[rd.seg])
          /\ \A t \in torn[rd.seg] : rd.pos <= t
      BY ReaderNumbers DEF Decodes, Reads, Struct, TypeOK
    <3>2. QED
      BY SMT, <3>1
  <2>2. QED
    BY <1>5, <1>8, <2>1, ScanEffect DEF Reads, Stays
<1>9. CASE Roll
  BY <1>5, <1>9, RollEffect DEF Reads, Stays
<1>10. CASE ReadRecord
  <2>1. rd.pc = "ready" /\ rd.pos < ReadableLen(rd.seg)
    BY <1>10, ReadRecordEffect
  <2>2. CASE Goes("failed", rd.seg, rd.pos, rd.to) /\ UNCHANGED got
    BY <1>5, <2>2 DEF Reads
  <2>3. CASE Decodes /\ Goes("ready", rd.seg, rd.pos + 1, rd.to) /\ got' = Append(got, Here)
    <3>1. DurableRecord(Here) /\ \A t \in torn[rd.seg] : rd.pos + 1 <= t
      BY <2>1, <2>3, HereDurable
    <3>2. Here \in Record /\ got \in Seq(Record) /\ Len(got) \in Nat
      <4>1. rd.pos + 1 \in 1..Len(file[rd.seg]) /\ file[rd.seg] \in Seq(Record)
        <5>1. rd.pos < Len(file[rd.seg]) /\ Len(file[rd.seg]) \in Nat /\ file[rd.seg] \in Seq(Record) /\ rd.pos \in Nat
          BY <2>3, ReaderNumbers DEF Decodes, Struct, TypeOK
        <5>2. QED
          BY SMT, <5>1
      <4>2. Here \in Record
        BY SMT, <4>1, SeqElement DEF Here
      <4>3. QED
        BY <4>2, ReaderNumbers DEF Stands
    <3> USE <3>2
    <3>3. /\ Len(got') = Len(got) + 1 /\ got'[Len(got) + 1] = Here
          /\ \A k \in 1..Len(got) : got'[k] = got[k]
      BY SMT, <2>3, SeqAppend
    <3>4. \A k \in 1..(Len(got) + 1) : k \in 1..Len(got) \/ k = Len(got) + 1
      BY SMT
    <3> USE <3>1
    <3>5. ASSUME NEW k \in 1..Len(got') PROVE DurableRecord(got[k])'
      <4>1. PICK r : r = got'[k]
        OBVIOUS
      <4> USE <4>1
      <4>2. DurableRecord(r)
        BY <3>3, <3>4, <3>5 DEF Reads
      <4>3. DurableRecord(r)'
        BY <1>2, <4>2
      <4>4. QED
        BY <4>3 DEF DurableRecord
    <3>6. rd'.seg = rd.seg /\ rd'.pos = rd.pos + 1
      BY <2>3 DEF Goes
    <3> USE <3>6
    <3>7. RecordsIn(rd.seg)' = RecordsIn(rd.seg)
      BY <1>1 DEF RecordsIn
    <3>8. QED
      BY <1>1, <2>1, <3>5, <3>7 DEF Reads
  <2>4. QED
    BY <1>10, <2>2, <2>3, ReadRecordEffect
<1>11. QED
  BY <1>6, <1>7, <1>8, <1>9, <1>10

LEMMA ReadsNone ==
  ASSUME TypeOK, rd = NoReader, got = << >>
  PROVE  Reads
<1>1. rd.pc = "none" /\ rd.seg = 0 /\ rd.pos = 0
  BY DEF NoReader
<1>2. Len(<< >>) = 0 /\ (\A k \in 1..0 : FALSE) /\ 0 \in Index
  BY SMT, WalAssumption DEF Index
<1>3. torn[0] \subseteq Nat
  BY <1>2 DEF TypeOK
<1>4. \A t \in torn[0] : 0 <= t
  BY SMT, <1>3
<1>5. QED
  BY <1>1, <1>2, <1>4 DEF Reads

LEMMA ReadsStep ==
  ASSUME Struct, Struct', Tight, Stands, Guarded => Reads, ReaderNext
  PROVE  Guarded' => Reads'
<1>1. Guarded' => Guarded
  BY ReaderSteps, SetupFixed DEF Guarded, Stops, SyncMode
<1>2. ASSUME Guarded, rd' = NoReader, got' = << >> PROVE Reads'
  <2>1. TypeOK' /\ rd'.pc = "none" /\ rd'.seg = 0 /\ rd'.pos = 0
    BY <1>2 DEF NoReader, Struct
  <2>2. Len(<< >>) = 0 /\ (\A k \in 1..0 : FALSE) /\ 0 \in Index
    BY SMT, WalAssumption DEF Index
  <2>3. torn'[0] \subseteq Nat
    BY <2>1, <2>2 DEF TypeOK
  <2>4. \A t \in torn'[0] : 0 <= t
    BY SMT, <2>3
  <2>5. QED
    BY <1>2, <2>1, <2>2, <2>4 DEF Reads
<1>3. ASSUME Guarded, phase = "up", phase' = "up", UNCHANGED <<rd, got>> PROVE Reads'
  BY <1>3, OpenLogStep, ReaderSteps, ReadsAdds, ReadsDrop
<1>4. ASSUME Guarded, phase = "up", UNCHANGED vars,
             (\E from \in 0..CommittedEnd : NewReader(from)) \/ OpenSegment \/ Scan \/ ReadRecord \/ Roll
      PROVE  Reads'
  BY <1>4, ReadsReader, ReadableCovered
<1>5. QED
  BY <1>1, <1>2, <1>3, <1>4, ReaderSteps

\* What a durable record is to a recovery.
LEMMA DurablePersists ==
  ASSUME Struct, NEW r, DurableRecord(r)
  PROVE  r \in Persisted \cup dropped
<1>1. CASE r \in dropped
  BY <1>1
<1>2. CASE r \notin dropped
  <2>1. PICK i \in first..active : \E k \in 1..synced[i] : file[i][k] = r /\ \A t \in torn[i] : k <= t
    BY <1>2 DEF DurableRecord
  <2>2. PICK k \in 1..synced[i] : file[i][k] = r /\ \A t \in torn[i] : k <= t
    BY <2>1
  <2>3. PICK y \in Nat, g \in Nat, l \in Nat : y = synced[i] /\ g = GoodLen(i) /\ l = Len(file[i])
    BY StructNumbers, GoodLenProperties DEF Struct
  <2> USE <2>3
  <2>4. k \in 1..y /\ y <= l /\ (g = l \/ g \in torn[i])
    BY StructNumbers, GoodLenProperties DEF Struct
  <2>5. k \in Nat /\ 1 <= k /\ k <= y /\ k <= l
    BY SMT, <2>4
  <2> USE <2>5
  <2>6. k <= g
    BY <2>2, <2>4
  <2>7. MinOf({y, g}) \in {y, g}
    BY MinOfProperties
  <2>8. k \in 1..y /\ k \in 1..g
    BY SMT, <2>6
  <2>9. k \in 1..MinOf({synced[i], GoodLen(i)})
    BY <2>7, <2>8
  <2>10. r \in {file[i][n] : n \in 1..MinOf({synced[i], GoodLen(i)})}
    BY <2>2, <2>9
  <2>11. QED
    BY <2>10 DEF Persisted
<1>3. QED
  BY <1>1, <1>2

\* A record that Next returned is fsynced and in front of any damage, or retention has
\* removed it since, when only machine failures end the process: the limit of each
\* segment stays below what is fsynced, and the Reader never passes a half-done write.
THEOREM ReadsAreDurable == ReaderSpec => []ReadsDurable
<1>1. ReaderInit => (Guarded => Reads)
  BY StandsInit, ReadsNone DEF ReaderInit, Struct
<1>2. LogInv /\ LogInv' /\ Stands /\ (Guarded => Reads) /\ [ReaderNext]_<<vars, readerVars>> => (Guarded => Reads)'
  <2> SUFFICES ASSUME LogInv, LogInv', Stands, Guarded => Reads, [ReaderNext]_<<vars, readerVars>> PROVE Guarded' => Reads'
    OBVIOUS
  <2>1. CASE ReaderNext
    BY <2>1, ReadsStep DEF LogInv
  <2>2. CASE UNCHANGED <<vars, readerVars>>
    <3>1. UNCHANGED <<rd, got, active, first, file, synced, torn, dropped, setup>>
      BY <2>2 DEF vars, readerVars, state, diskVars, memVars, histVars
    <3> USE <3>1
    <3>2. (Guarded' => Guarded) /\ \A r : DurableRecord(r) => DurableRecord(r)'
      BY DEF DurableRecord, Guarded, Stops, SyncMode
    <3>3. RecordsIn(rd.seg)' = RecordsIn(rd.seg)
      BY DEF RecordsIn
    <3> USE <3>2
    <3>4. Guarded => \A k \in 1..Len(got') : DurableRecord(got[k])'
      BY DEF Reads
    <3>5. QED
      BY <3>3, <3>4 DEF Reads
  <2>3. QED
    BY <2>1, <2>2
<1>3. LogInv /\ (Guarded => Reads) => ReadsDurable
  BY DurablePersists DEF LogInv, Reads, ReadsDurable, Guarded
<1>4. QED
  BY <1>1, <1>2, <1>3, WalUnderReader, PTL DEF ReaderSpec

=============================================================================
