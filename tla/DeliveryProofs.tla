--------------------------- MODULE DeliveryProofs ---------------------------
(***************************************************************************)
(* Proofs about module Delivery, for any number of connections, SUBs,      *)
(* messages and crashes, any window and any configuration: take-overs, the *)
(* window, wake-ups, offsets.json, the positions of the delivery           *)
(* goroutines and types.                                                   *)
(***************************************************************************)
EXTENDS Delivery, FiniteSetTheorems, WellFoundedInduction, TLAPS

\* The states of a SUB that has replaced the consumer's subscription, and of one whose
\* goroutine was started.
StartedPC == {"start", "open", "credit", "sleep", "read", "parked", "insert", "send", "done"}

SwappedPC == {"swapped", "waiting"} \cup StartedPC

Swapped(n) == sub[n].pc \in SwappedPC

Started(n) == sub[n].pc \in StartedPC

SubType ==
    [pc : {"unused", "refused", "ok", "swapped", "waiting", "start", "open",
           "credit", "sleep", "read", "parked", "insert", "send", "done", "gone"},
     conn : Sessions, prev : Subs \cup {NoSub}, next : 0..MaxMsgs, cancelled : BOOLEAN]

SweepType == [pc : {"idle", "push"}, tasks : SUBSET MsgIDs, dead : SUBSET MsgIDs, to : Sessions]

Types ==
    /\ setup \in Setups
    /\ head \in 0..MaxMsgs
    /\ floor \in 0..MaxMsgs
    /\ offsets \in OffsetsType
    /\ DOMAIN inflight \subseteq MsgIDs
    /\ cur \in Subs \cup {NoSub}
    /\ sub \in [Subs -> SubType]
    /\ sweep \in SweepType
    /\ nacking \in [Sessions -> [pc : {"no", "push", "move"}, msg : Nat]]
    /\ persist \in [pc : {"idle", "snapshot", "write"}, snap : OffsetsType]
    /\ disk \in OffsetsType

\* A goroutine has a message in hand only after it has read one.
Hands == \A n \in Subs : sub[n].pc \in {"parked", "insert", "send"} => sub[n].next > 0

\* The SUBs that have replaced one another, in the order they did: older[n] are those
\* before n.  A goroutine is started only after all older ones are done.
OrderedBy(older) ==
    /\ \A n \in Subs : Swapped(n) =>
         /\ older[n] = IF sub[n].prev = NoSub THEN {} ELSE older[sub[n].prev] \cup {sub[n].prev}
         /\ sub[n].prev # NoSub => Swapped(sub[n].prev)
         /\ Started(n) => \A m \in older[n] : sub[m].pc = "done"
         /\ \A m \in Subs : Swapped(m) => m = n \/ m \in older[n] \/ n \in older[m]
    /\ IF cur = NoSub THEN \A n \in Subs : ~Swapped(n)
       ELSE Swapped(cur) /\ \A n \in Subs : Swapped(n) => n = cur \/ n \in older[cur]

TakeOvers == \E older \in [Subs -> SUBSET Subs] : OrderedBy(older)

\* One delivery goroutine at a time.
Exclusive == \A m, n \in Subs : Running(m) /\ Running(n) => m = n

\* offsets: everything up to lastAcked, and no more than a set above a gap.
Normal(o) ==
    IF o.hasAcked THEN o.lastAcked \in MsgIDs /\ \A m \in o.aboveLast : m > o.lastAcked + 1
    ELSE 0 \notin o.aboveLast

----------------------------------------------------------------------------
(* The offsets: what an acknowledgement does to them. *)

LEMMA LeastExists ==
  ASSUME NEW S \in SUBSET Nat, S # {}
  PROVE  \E m \in S : \A n \in S : m <= n
<1> DEFINE R == StrictSubsetOrdering(Nat)
           T == {1..n : n \in S}
<1>1. T \subseteq FiniteSubsetsOf(Nat) /\ T # {}
  <2>1. \A n \in S : IsFiniteSet(1..n) /\ 1..n \subseteq Nat
    BY FS_Interval
  <2>2. QED
    BY ZenonT(30), <2>1 DEF FiniteSubsetsOf
<1>2. PICK x \in T : \A y \in T : ~ (<<y, x>> \in R)
  <2> HIDE DEF T
  <2> QED
    BY ZenonT(30), <1>1, FS_StrictSubsetOrderingWellFounded, WFMin
<1>3. PICK m \in S : x = 1..m
  BY ZenonT(30), <1>2
<1>4. ASSUME NEW n \in S, ~ (m <= n) PROVE FALSE
  <2>1. 1..n \subseteq 1..m /\ 1..n # 1..m
    <3>1. m \in 1..m /\ m \notin 1..n
      BY <1>4
    <3>2. QED
      BY <1>4, <3>1
  <2>2. <<1..n, 1..m>> \in R
    BY <2>1 DEF StrictSubsetOrdering
  <2>3. QED
    BY ZenonT(30), <2>2, <1>2, <1>3
<1>5. QED
  BY ZenonT(30), <1>4

\* The drain loop stops, at the last of the run of acknowledged messages after m.
LEMMA DrainStops ==
  ASSUME NEW m \in MsgIDs, NEW above \in SUBSET MsgIDs
  PROVE  /\ Drain(m, above) \in MsgIDs /\ m <= Drain(m, above)
         /\ (m + 1)..Drain(m, above) \subseteq above
         /\ Drain(m, above) + 1 \notin above
<1> DEFINE S == {l \in m..MaxMsgs : l + 1 \notin above}
<1>0. MaxMsgs \in Nat /\ m \in Nat /\ m < MaxMsgs
  BY DeliveryAssumption DEF MsgIDs
<1>1. S \in SUBSET Nat /\ MaxMsgs \in S
  BY <1>0 DEF MsgIDs
<1>2. PICK l \in S : \A k \in S : l <= k
  BY ZenonT(30), <1>1, LeastExists
<1>3. (m + 1)..l \subseteq above
  <2> SUFFICES ASSUME NEW k \in (m + 1)..l PROVE k \in above
    BY ZenonT(30)
  <2>1. k - 1 \in m..MaxMsgs /\ k - 1 < l /\ (k - 1) + 1 = k
    BY <1>0, <1>2
  <2>2. k - 1 \notin S
    BY <2>1, <1>0, <1>2
  <2>3. QED
    BY ZenonT(30), <2>1, <2>2
<1>4. \E d \in m..MaxMsgs : (m + 1)..d \subseteq above /\ d + 1 \notin above
  BY ZenonT(30), <1>2, <1>3
<1>5. /\ Drain(m, above) \in m..MaxMsgs
      /\ (m + 1)..Drain(m, above) \subseteq above
      /\ Drain(m, above) + 1 \notin above
  BY ZenonT(30), <1>4 DEF Drain
<1>6. Drain(m, above) = m \/ Drain(m, above) \in (m + 1)..Drain(m, above)
  BY <1>0, <1>5
<1>7. QED
  BY <1>0, <1>5, <1>6 DEF MsgIDs

\* An acknowledgement adds its message to what is covered, and nothing else.
LEMMA AckCovers ==
  ASSUME offsets \in OffsetsType, Normal(offsets), NEW m \in MsgIDs
  PROVE  /\ Advanced(m) \in OffsetsType
         /\ Normal(Advanced(m))
         /\ Covered(Advanced(m)) = Covered(offsets) \cup {m}
<1>0. MaxMsgs \in Nat /\ m \in 0..(MaxMsgs - 1) /\ offsets.aboveLast \in SUBSET MsgIDs
  BY ZenonT(30), DeliveryAssumption DEF MsgIDs, OffsetsType
<1>1. CASE Contiguous(m)
  <2> DEFINE last == Drain(m, offsets.aboveLast)
  <2>1. /\ last \in MsgIDs /\ m <= last /\ (m + 1)..last \subseteq offsets.aboveLast
        /\ last + 1 \notin offsets.aboveLast
    BY ZenonT(30), <1>0, DrainStops
  <2>2. Advanced(m) = [hasAcked |-> TRUE, lastAcked |-> last, aboveLast |-> offsets.aboveLast \ (m..last)]
    BY ZenonT(30), <1>1 DEF Advanced
  <2> HIDE DEF last
  <2>3. \A k \in offsets.aboveLast : k > m
    BY <1>0, <1>1 DEF Contiguous, Normal, OffsetsType, MsgIDs
  <2>4. Advanced(m) \in OffsetsType /\ Normal(Advanced(m))
    BY <1>0, <2>1, <2>2, <2>3 DEF OffsetsType, Normal, MsgIDs
  <2>5. \A k \in MsgIDs : k <= last => k <= m \/ k \in offsets.aboveLast
    BY <1>0, <2>1 DEF MsgIDs
  <2>6. \A k \in MsgIDs : k <= m => k = m \/ (offsets.hasAcked /\ k <= offsets.lastAcked)
    BY <1>0, <1>1 DEF Contiguous, OffsetsType, MsgIDs
  <2>7. \A k \in MsgIDs : offsets.hasAcked /\ k <= offsets.lastAcked => k <= last
    BY <1>0, <1>1, <2>1 DEF Contiguous, OffsetsType, MsgIDs
  <2>8. \A k \in MsgIDs : (k <= last \/ k \in offsets.aboveLast \ (m..last))
                            <=> (k = m \/ (offsets.hasAcked /\ k <= offsets.lastAcked) \/ k \in offsets.aboveLast)
    BY <1>0, <2>1, <2>5, <2>6, <2>7 DEF MsgIDs
  <2>9. QED
    BY <2>2, <2>4, <2>8 DEF Covered
<1>2. CASE ~Contiguous(m) /\ (~offsets.hasAcked \/ m > offsets.lastAcked + 1)
  <2>1. Advanced(m) = [offsets EXCEPT !.aboveLast = @ \cup {m}]
    BY ZenonT(30), <1>2 DEF Advanced
  <2>2. Advanced(m) = [hasAcked |-> offsets.hasAcked, lastAcked |-> offsets.lastAcked,
                       aboveLast |-> offsets.aboveLast \cup {m}]
    BY ZenonT(30), <2>1 DEF OffsetsType
  <2>3. QED
    BY <1>0, <1>2, <2>2 DEF OffsetsType, Normal, Contiguous, Covered, MsgIDs
<1>3. CASE ~Contiguous(m) /\ ~(~offsets.hasAcked \/ m > offsets.lastAcked + 1)
  <2>1. Advanced(m) = offsets
    BY ZenonT(30), <1>3 DEF Advanced
  <2>2. m <= offsets.lastAcked
    BY <1>0, <1>3 DEF Contiguous, OffsetsType
  <2>3. QED
    BY ZenonT(30), <1>3, <2>1, <2>2 DEF Covered
<1>4. QED
  BY ZenonT(30), <1>1, <1>2, <1>3

----------------------------------------------------------------------------
(* The steps, by what they do to the SUBs. *)

\* Steps that leave the SUBs alone.
Around ==
    \/ Publish
    \/ \E f \in setup.floors : Retain(f)
    \/ \E s \in Sessions : \/ Write(s) \/ NackPush(s) \/ NackMove(s)
                           \/ Pause(s) \/ Resume(s) \/ ResumeSignal(s)
                           \/ \E m \in MsgIDs : Ack(s, m) \/ Nack(s, m)
    \/ \E m \in MsgIDs : Expire(m) \/ SweepPush(m) \/ SweepMove(m)
    \/ SweepCollect \/ SweepEnd
    \/ PersistClear \/ PersistSnapshot \/ PersistWrite

LEMMA NextCases ==
  ASSUME Next
  PROVE  /\ setup' = setup
         /\ \/ Around
            \/ \E s \in Sessions, n \in Subs : SubCommand(s, n)
            \/ \E s \in Sessions : Disconnect(s)
            \/ \E n \in Subs : Swap(n) \/ Detach(n) \/ Spawn(n) \/ Deliver(n)
            \/ Crash
BY ZenonT(30) DEF Next, Frame, Subscribe, Redeliver, SweepStep, Persist, Around

LEMMA AroundSubs ==
  ASSUME Around
  PROVE  sub' = sub /\ cur' = cur
<1>1. ASSUME NEW s \in Sessions, NEW m \in MsgIDs, Ack(s, m) \/ Nack(s, m) PROVE sub' = sub /\ cur' = cur
  BY ZenonT(30), <1>1 DEF Ack, Nack, procVars
<1>2. ASSUME NEW s \in Sessions,
             \/ Write(s) \/ NackPush(s) \/ NackMove(s)
             \/ Pause(s) \/ Resume(s) \/ ResumeSignal(s)
      PROVE sub' = sub /\ cur' = cur
  BY ZenonT(30), <1>2 DEF Write, NackPush, NackMove, Pause, Resume, ResumeSignal, conVars, procVars
<1>3. ASSUME NEW m \in MsgIDs, Expire(m) \/ SweepPush(m) \/ SweepMove(m) PROVE sub' = sub /\ cur' = cur
  BY ZenonT(30), <1>3 DEF Expire, SweepPush, SweepMove, conVars, procVars
<1>4. ASSUME SweepCollect \/ SweepEnd \/ PersistClear \/ PersistSnapshot \/ PersistWrite
      PROVE  sub' = sub /\ cur' = cur
  BY ZenonT(30), <1>4 DEF SweepCollect, SweepEnd, PersistClear, PersistSnapshot, PersistWrite, conVars
<1>5. ASSUME Publish \/ \E f \in setup.floors : Retain(f) PROVE sub' = sub /\ cur' = cur
  BY ZenonT(30), <1>5 DEF Publish, Retain, conVars, procVars
<1>6. QED
  BY ZenonT(30), <1>1, <1>2, <1>3, <1>4, <1>5 DEF Around

\* A step of a delivery goroutine.
Moves(n) ==
    /\ Running(n)
    /\ cur' = cur
    /\ \A k \in Subs : k # n => sub'[k] = sub[k]
    /\ sub'[n].pc \in StartedPC
    /\ sub'[n].prev = sub[n].prev

LEMMA GoroutineMoves ==
  ASSUME Types, NEW n \in Subs, Deliver(n)
  PROVE  Moves(n)
<1> USE DEF Types, SubType, Moves, Running, StartedPC, Local, conVars
<1>1. CASE Start(n)
  BY <1>1 DEF Start
<1>2. CASE OpenReader(n)
  BY ZenonT(30), <1>2 DEF OpenReader
<1>3. CASE Credit(n)
  BY ZenonT(30), <1>3 DEF Credit
<1>4. CASE Wake(n)
  BY ZenonT(30), <1>4 DEF Wake
<1>5. CASE Stop(n)
  BY ZenonT(30), <1>5 DEF Stop
<1>6. CASE Read(n)
  BY <1>6 DEF Read
<1>7. CASE ReadFails(n)
  BY ZenonT(30), <1>7 DEF ReadFails
<1>8. CASE Visible(n)
  BY <1>8 DEF Visible
<1>9. CASE Insert(n)
  BY ZenonT(30), <1>9 DEF Insert
<1>10. CASE Send(n)
  BY ZenonT(30), <1>10 DEF Send
<1>11. CASE Rollback(n)
  BY ZenonT(30), <1>11 DEF Rollback
<1>12. QED
  BY ZenonT(30), <1>1, <1>2, <1>3, <1>4, <1>5, <1>6, <1>7, <1>8, <1>9, <1>10, <1>11 DEF Deliver

\* A step that changes no subscription and starts no goroutine.
Onward ==
    /\ cur' = cur
    /\ \A k \in Subs : /\ Swapped(k)' <=> Swapped(k)
                       /\ Swapped(k) => sub'[k].prev = sub[k].prev
                       /\ Started(k)' => Started(k)
                       /\ sub[k].pc = "done" => sub'[k].pc = "done"

LEMMA MovesOnward ==
  ASSUME NEW n \in Subs, Moves(n)
  PROVE  Onward
BY DEF Moves, Onward, Running, Swapped, Started, SwappedPC, StartedPC

LEMMA AroundOnward ==
  ASSUME Around
  PROVE  Onward
BY ZenonT(30), AroundSubs DEF Onward, Swapped, Started

\* Steps of a session's reader on the SUBs, all before a goroutine starts.
Prepares ==
    /\ cur' = cur
    /\ \A k \in Subs : \/ sub'[k].pc = sub[k].pc /\ sub'[k].prev = sub[k].prev /\ sub'[k].next = sub[k].next
                       \/ sub[k].pc = "unused" /\ sub'[k].pc \in {"refused", "ok"}
                       \/ sub[k].pc = "swapped" /\ sub'[k].pc = "waiting" /\ sub'[k].prev = sub[k].prev

LEMMA ReaderPrepares ==
  ASSUME Types,
         \/ \E s \in Sessions, n \in Subs : SubCommand(s, n)
         \/ \E s \in Sessions : Disconnect(s)
         \/ \E n \in Subs : Detach(n)
  PROVE  Prepares
<1> USE DEF Types, SubType, Prepares, Cancel, conVars
<1>1. ASSUME NEW s \in Sessions, NEW n \in Subs, SubCommand(s, n) PROVE Prepares
  BY ZenonT(30), <1>1 DEF SubCommand, NewSub
<1>2. ASSUME NEW s \in Sessions, Disconnect(s) PROVE Prepares
  BY <1>2 DEF Disconnect
<1>3. ASSUME NEW n \in Subs, Detach(n) PROVE Prepares
  BY <1>3 DEF Detach
<1>4. QED
  BY ZenonT(30), <1>1, <1>2, <1>3

LEMMA PreparesOnward ==
  ASSUME Prepares
  PROVE  Onward
BY ZenonT(30) DEF Prepares, Onward, Swapped, Started, SwappedPC, StartedPC

----------------------------------------------------------------------------
(* One delivery goroutine at a time. *)

LEMMA OneAtATime ==
  ASSUME TakeOvers
  PROVE  Exclusive
<1> SUFFICES ASSUME NEW m \in Subs, NEW n \in Subs, Running(m), Running(n), m # n PROVE FALSE
  BY ZenonT(30) DEF Exclusive
<1>1. PICK older \in [Subs -> SUBSET Subs] : OrderedBy(older)
  BY ZenonT(30) DEF TakeOvers
<1>2. Swapped(m) /\ Swapped(n) /\ Started(m) /\ Started(n) /\ sub[m].pc # "done" /\ sub[n].pc # "done"
  BY ZenonT(30) DEF Running, Swapped, Started, SwappedPC, StartedPC
<1>3. m \in older[n] \/ n \in older[m]
  BY ZenonT(30), <1>1, <1>2 DEF OrderedBy
<1>4. QED
  BY ZenonT(30), <1>1, <1>2, <1>3 DEF OrderedBy

LEMMA OrderOnward ==
  ASSUME Types, Types', TakeOvers, Onward
  PROVE  TakeOvers'
<1>1. PICK older \in [Subs -> SUBSET Subs] : OrderedBy(older)
  BY ZenonT(30) DEF TakeOvers
<1>2. \A n \in Subs : sub[n].prev \in Subs \cup {NoSub}
  BY ZenonT(30) DEF Types, SubType
<1>3. \A n \in Subs : Swapped(n)' =>
         /\ older[n] = IF sub'[n].prev = NoSub THEN {} ELSE older[sub'[n].prev] \cup {sub'[n].prev}
         /\ sub'[n].prev # NoSub => sub'[sub'[n].prev].pc \in SwappedPC
  <2> SUFFICES ASSUME NEW n \in Subs, Swapped(n)'
               PROVE  /\ older[n] = IF sub'[n].prev = NoSub THEN {} ELSE older[sub'[n].prev] \cup {sub'[n].prev}
                      /\ sub'[n].prev # NoSub => sub'[sub'[n].prev].pc \in SwappedPC
    BY ZenonT(30)
  <2>1. Swapped(n) /\ sub'[n].prev = sub[n].prev
    BY ZenonT(30) DEF Onward
  <2>2. sub[n].prev # NoSub => sub'[sub[n].prev].pc \in SwappedPC
    BY ZenonT(30), <1>1, <1>2, <2>1 DEF Onward, OrderedBy, Swapped
  <2>3. QED
    BY ZenonT(30), <1>1, <2>1, <2>2 DEF OrderedBy
<1>4. \A n \in Subs : Started(n)' => \A m \in older[n] : sub'[m].pc = "done"
  <2> SUFFICES ASSUME NEW n \in Subs, Started(n)', NEW m \in older[n] PROVE sub'[m].pc = "done"
    BY ZenonT(30)
  <2>1. Started(n) /\ Swapped(n) /\ m \in Subs
    BY ZenonT(30) DEF Onward, Started, Swapped, SwappedPC
  <2>2. QED
    BY ZenonT(30), <1>1, <2>1 DEF OrderedBy, Onward
<1>5. \A n, m \in Subs : Swapped(n)' /\ Swapped(m)' => m = n \/ m \in older[n] \/ n \in older[m]
  BY ZenonT(30), <1>1 DEF Onward, OrderedBy
<1>6. IF cur' = NoSub THEN \A n \in Subs : ~Swapped(n)'
      ELSE sub'[cur'].pc \in SwappedPC /\ \A n \in Subs : Swapped(n)' => n = cur' \/ n \in older[cur']
  BY ZenonT(30), <1>1 DEF Onward, OrderedBy, Types, Swapped
<1>7. OrderedBy(older)'
  BY ZenonT(30), <1>3, <1>4, <1>5, <1>6 DEF OrderedBy, Swapped, Started
<1>8. QED
  BY ZenonT(30), <1>7 DEF TakeOvers

LEMMA SwapOrders ==
  ASSUME Types, TakeOvers, NEW n \in Subs, Swap(n)
  PROVE  TakeOvers'
<1>1. PICK older \in [Subs -> SUBSET Subs] : OrderedBy(older)
  BY ZenonT(30) DEF TakeOvers
<1>a. PICK newer : newer = [older EXCEPT ![n] = IF cur = NoSub THEN {} ELSE older[cur] \cup {cur}]
  BY ZenonT(30)
<1>2. /\ n # NoSub
      /\ cur \in Subs \cup {NoSub}
      /\ cur' = n
      /\ ~Swapped(n)
      /\ Swapped(n)' /\ ~Started(n)' /\ sub'[n].prev = cur
      /\ \A k \in Subs : k # n => sub'[k] = sub[k]
  BY DEF Swap, Types, SubType, Swapped, Started, SwappedPC, StartedPC, Subs, NoSub
<1>3. \A k \in Subs : k # n => (Swapped(k)' <=> Swapped(k)) /\ (Started(k)' <=> Started(k))
  BY ZenonT(30), <1>2 DEF Swapped, Started
<1>4. newer \in [Subs -> SUBSET Subs] /\ \A k \in Subs : k # n => newer[k] = older[k]
  BY ZenonT(30), <1>1, <1>a, <1>2
<1>5. newer[n] = IF cur = NoSub THEN {} ELSE older[cur] \cup {cur}
  BY ZenonT(30), <1>1, <1>a
<1>6. \A k \in Subs : Swapped(k) => k \in newer[n]
  BY ZenonT(30), <1>1, <1>2, <1>5 DEF OrderedBy
<1>7. cur # NoSub => cur \in Subs /\ cur # n /\ Swapped(cur)
  BY ZenonT(30), <1>1, <1>2 DEF OrderedBy
<1>8. ASSUME NEW k \in Subs, k # n, Swapped(k)
      PROVE  /\ newer[k] = IF sub'[k].prev = NoSub THEN {} ELSE newer[sub'[k].prev] \cup {sub'[k].prev}
             /\ sub'[k].prev # NoSub => sub'[sub'[k].prev].pc \in SwappedPC
             /\ Started(k)' => \A m \in newer[k] : sub'[m].pc = "done"
  <2>1. sub'[k] = sub[k] /\ newer[k] = older[k] /\ sub[k].prev \in Subs \cup {NoSub}
    BY ZenonT(30), <1>2, <1>4, <1>8 DEF Types, SubType
  <2>2. sub[k].prev # NoSub => sub[k].prev \in Subs /\ sub[k].prev # n /\ Swapped(sub[k].prev)
    BY ZenonT(30), <1>1, <1>2, <1>8, <2>1 DEF OrderedBy
  <2>3. older[k] = IF sub[k].prev = NoSub THEN {} ELSE older[sub[k].prev] \cup {sub[k].prev}
    BY ZenonT(30), <1>1, <1>8 DEF OrderedBy
  <2>4. /\ newer[k] = IF sub'[k].prev = NoSub THEN {} ELSE newer[sub'[k].prev] \cup {sub'[k].prev}
        /\ sub'[k].prev # NoSub => sub'[sub'[k].prev].pc \in SwappedPC
    BY ZenonT(30), <1>2, <1>4, <2>1, <2>2, <2>3 DEF Swapped
  <2>5. ASSUME Started(k)', NEW m \in newer[k] PROVE sub'[m].pc = "done"
    <3>1. m \in Subs /\ sub[m].pc = "done"
      BY ZenonT(30), <1>1, <1>3, <1>4, <1>8, <2>1, <2>5 DEF OrderedBy
    <3>2. m # n
      BY ZenonT(30), <1>2, <3>1 DEF Swapped, SwappedPC, StartedPC
    <3>3. QED
      BY ZenonT(30), <1>2, <3>1, <3>2
  <2>6. QED
    BY ZenonT(30), <2>4, <2>5
<1>9. \A k, m \in Subs : Swapped(k)' /\ Swapped(m)' => m = k \/ m \in newer[k] \/ k \in newer[m]
  BY ZenonT(30), <1>1, <1>3, <1>4, <1>6 DEF OrderedBy
<1>10. /\ newer[n] = IF sub'[n].prev = NoSub THEN {} ELSE newer[sub'[n].prev] \cup {sub'[n].prev}
       /\ sub'[n].prev # NoSub => sub'[sub'[n].prev].pc \in SwappedPC
  BY ZenonT(30), <1>2, <1>4, <1>5, <1>7 DEF Swapped
<1>11. cur' # NoSub /\ sub'[cur'].pc \in SwappedPC /\ \A k \in Subs : Swapped(k)' => k = cur' \/ k \in newer[cur']
  BY ZenonT(30), <1>2, <1>3, <1>6 DEF Swapped
<1>12. \A k \in Subs : Swapped(k)' =>
         /\ newer[k] = IF sub'[k].prev = NoSub THEN {} ELSE newer[sub'[k].prev] \cup {sub'[k].prev}
         /\ sub'[k].prev # NoSub => sub'[sub'[k].prev].pc \in SwappedPC
         /\ Started(k)' => \A m \in newer[k] : sub'[m].pc = "done"
  <2>1. \A k \in Subs : Swapped(k)' => k = n \/ (k # n /\ Swapped(k))
    BY ZenonT(30), <1>3
  <2>2. QED
    BY ZenonT(30), <1>2, <1>8, <1>10, <2>1
<1>13. OrderedBy(newer)'
  BY ZenonT(30), <1>9, <1>11, <1>12 DEF OrderedBy, Swapped, Started
<1>14. QED
  BY ZenonT(30), <1>4, <1>13 DEF TakeOvers

LEMMA SpawnOrders ==
  ASSUME Types, TakeOvers, NEW n \in Subs, Spawn(n)
  PROVE  TakeOvers'
<1>1. PICK older \in [Subs -> SUBSET Subs] : OrderedBy(older)
  BY ZenonT(30) DEF TakeOvers
<1>2. /\ cur' = cur
      /\ Swapped(n) /\ ~Started(n) /\ Swapped(n)'
      /\ sub[n].prev \in Subs \cup {NoSub}
      /\ sub[n].prev # NoSub => sub[sub[n].prev].pc = "done"
      /\ \A k \in Subs : sub'[k].prev = sub[k].prev /\ (k # n => sub'[k] = sub[k])
  BY DEF Spawn, PrevGone, Types, SubType, Swapped, Started, SwappedPC, StartedPC, conVars
<1>3. \A k \in Subs : Swapped(k)' <=> Swapped(k)
  BY ZenonT(30), <1>2 DEF Swapped
<1>4. \A m \in older[n] : m \in Subs /\ sub[m].pc = "done"
  <2>1. CASE sub[n].prev = NoSub
    BY ZenonT(30), <1>1, <1>2, <2>1 DEF OrderedBy
  <2>2. CASE sub[n].prev # NoSub
    <3>1. Swapped(sub[n].prev) /\ Started(sub[n].prev) /\ sub[n].prev \in Subs
      BY ZenonT(30), <1>2, <2>2 DEF Swapped, Started, SwappedPC, StartedPC
    <3>2. older[n] = older[sub[n].prev] \cup {sub[n].prev}
      BY ZenonT(30), <1>1, <1>2, <2>2 DEF OrderedBy
    <3>3. \A m \in older[sub[n].prev] : sub[m].pc = "done"
      BY ZenonT(30), <1>1, <3>1 DEF OrderedBy
    <3>4. QED
      BY ZenonT(30), <1>1, <1>2, <2>2, <3>1, <3>2, <3>3
  <2>3. QED
    BY ZenonT(30), <2>1, <2>2
<1>5. \A k \in Subs : Started(k)' => \A m \in older[k] : sub'[m].pc = "done"
  <2> SUFFICES ASSUME NEW k \in Subs, Started(k)', NEW m \in older[k] PROVE sub'[m].pc = "done"
    BY ZenonT(30)
  <2>1. m \in Subs /\ sub[m].pc = "done"
    <3>1. CASE k = n
      BY ZenonT(30), <1>4, <3>1
    <3>2. CASE k # n
      BY SMTT(30), <1>1, <1>2, <3>2 DEF OrderedBy, Started, Swapped, SwappedPC
    <3>3. QED
      BY ZenonT(30), <3>1, <3>2
  <2>2. m # n
    BY ZenonT(30), <1>2, <2>1 DEF Started, StartedPC
  <2>3. QED
    BY ZenonT(30), <1>2, <2>1, <2>2
<1>6. \A k \in Subs : Swapped(k)' =>
         /\ older[k] = IF sub'[k].prev = NoSub THEN {} ELSE older[sub'[k].prev] \cup {sub'[k].prev}
         /\ sub'[k].prev # NoSub => sub'[sub'[k].prev].pc \in SwappedPC
  <2> SUFFICES ASSUME NEW k \in Subs, Swapped(k)
               PROVE  /\ older[k] = IF sub'[k].prev = NoSub THEN {} ELSE older[sub'[k].prev] \cup {sub'[k].prev}
                      /\ sub'[k].prev # NoSub => sub'[sub'[k].prev].pc \in SwappedPC
    BY ZenonT(30), <1>3
  <2>1. sub'[k].prev = sub[k].prev /\ sub[k].prev \in Subs \cup {NoSub}
    BY ZenonT(30), <1>2 DEF Types, SubType
  <2>2. sub[k].prev # NoSub => sub'[sub[k].prev].pc \in SwappedPC
    BY ZenonT(30), <1>1, <1>3, <2>1 DEF OrderedBy, Swapped
  <2>3. QED
    BY ZenonT(30), <1>1, <2>1, <2>2 DEF OrderedBy
<1>7. \A k, m \in Subs : Swapped(k)' /\ Swapped(m)' => m = k \/ m \in older[k] \/ k \in older[m]
  BY ZenonT(30), <1>1, <1>3 DEF OrderedBy
<1>8. IF cur' = NoSub THEN \A k \in Subs : ~Swapped(k)'
      ELSE sub'[cur'].pc \in SwappedPC /\ \A k \in Subs : Swapped(k)' => k = cur' \/ k \in older[cur']
  BY ZenonT(30), <1>1, <1>2, <1>3 DEF OrderedBy, Types, Swapped
<1>9. OrderedBy(older)'
  BY ZenonT(30), <1>5, <1>6, <1>7, <1>8 DEF OrderedBy, Swapped, Started
<1>10. QED
  BY ZenonT(30), <1>1, <1>9 DEF TakeOvers

LEMMA CrashClears ==
  ASSUME Types, Crash
  PROVE  /\ cur' = NoSub /\ DOMAIN inflight' = {}
         /\ \A k \in Subs : sub'[k].pc \in {"unused", "gone"}
BY ZenonT(30) DEF Crash, Types, SubType, NewSub, NoInflight

LEMMA OrderKept ==
  ASSUME Types, Types', TakeOvers, Next
  PROVE  TakeOvers'
<1>1. CASE Crash
  <2>1. \A k \in Subs : ~Swapped(k)'
    BY ZenonT(30), <1>1, CrashClears DEF Swapped, SwappedPC, StartedPC
  <2> DEFINE older == [k \in Subs |-> {}]
  <2>2. OrderedBy(older)'
    <3> SUFFICES /\ \A k \in Subs : ~Swapped(k)'
                 /\ cur' = NoSub
      BY ZenonT(30) DEF OrderedBy
    <3> QED
      BY ZenonT(30), <1>1, <2>1, CrashClears
  <2>3. older \in [Subs -> SUBSET Subs]
    BY ZenonT(30)
  <2>4. QED
    BY ZenonT(30), <2>2, <2>3 DEF TakeOvers
<1>2. ASSUME NEW n \in Subs, Swap(n) PROVE TakeOvers'
  BY ZenonT(30), <1>2, SwapOrders
<1>3. ASSUME NEW n \in Subs, Spawn(n) PROVE TakeOvers'
  BY ZenonT(30), <1>3, SpawnOrders
<1>4. ASSUME NEW n \in Subs, Deliver(n) PROVE TakeOvers'
  BY ZenonT(30), <1>4, GoroutineMoves, MovesOnward, OrderOnward
<1>5. CASE Around
  BY ZenonT(30), <1>5, AroundOnward, OrderOnward
<1>6. CASE \/ \E s \in Sessions, n \in Subs : SubCommand(s, n)
           \/ \E s \in Sessions : Disconnect(s)
           \/ \E n \in Subs : Detach(n)
  BY ZenonT(30), <1>6, ReaderPrepares, PreparesOnward, OrderOnward
<1>7. QED
  BY ZenonT(30), <1>1, <1>2, <1>3, <1>4, <1>5, <1>6, NextCases

----------------------------------------------------------------------------
(* Types. *)

LEMMA FreshTypes ==
  /\ NoOffsets \in OffsetsType
  /\ NewSub \in SubType
  /\ NoSweep \in SweepType
  /\ DOMAIN NoInflight = {}
<1>1. (CHOOSE s \in Sessions : TRUE) \in Sessions
  BY ZenonT(30), DeliveryAssumption
<1>2. QED
  BY <1>1, DeliveryAssumption
     DEF NoOffsets, OffsetsType, NewSub, SubType, NoSweep, SweepType, NoInflight, MsgIDs, NoSub

\* What StartID returns to a consumer that may start.
LEMMA StartInLog ==
  ASSUME Types, Normal(offsets)
  PROVE  StartID \in 0..MaxMsgs
BY SMTT(30), DeliveryAssumption DEF Types, Normal, StartID, OffsetsType, MsgIDs

LEMMA OnlySubs ==
  ASSUME Types, sub' \in [Subs -> SubType], DOMAIN inflight' \subseteq MsgIDs, cur' \in Subs \cup {NoSub},
         UNCHANGED <<setup, head, floor, offsets, sweep, nacking, persist, disk>>
  PROVE  Types'
BY ZenonT(30) DEF Types

LEMMA CancelTypes ==
  ASSUME Types, NEW S
  PROVE  /\ Cancel(sub, S) \in [Subs -> SubType]
         /\ \A k \in Subs : Cancel(sub, S)[k].pc = sub[k].pc /\ Cancel(sub, S)[k].next = sub[k].next
<1>1. ASSUME NEW k \in Subs
      PROVE  /\ Cancel(sub, S)[k] \in SubType
             /\ Cancel(sub, S)[k].pc = sub[k].pc /\ Cancel(sub, S)[k].next = sub[k].next
  BY ZenonT(30) DEF Cancel, Types, SubType
<1>2. QED
  BY ZenonT(30), <1>1 DEF Cancel

LEMMA SubTypes ==
  ASSUME Types, Hands, setup' = setup,
         \/ \E s \in Sessions, n \in Subs : SubCommand(s, n)
         \/ \E s \in Sessions : Disconnect(s)
         \/ \E n \in Subs : Swap(n) \/ Detach(n) \/ Spawn(n)
  PROVE  Types' /\ Hands'
<1>1. ASSUME NEW s \in Sessions, NEW n \in Subs, SubCommand(s, n) PROVE Types' /\ Hands'
  <2>1. PICK r \in SubType : /\ r.pc \in {"ok", "refused"}
                             /\ sub' = [Cancel(sub, CurrentSub(s)) EXCEPT ![n] = r]
    BY ZenonT(30), <1>1, FreshTypes DEF SubCommand, SubType, NewSub
  <2>2. sub' \in [Subs -> SubType] /\ Hands'
    BY ZenonT(30), <2>1, CancelTypes DEF Hands
  <2>3. QED
    BY ZenonT(30), <1>1, <2>2, OnlySubs DEF SubCommand, conVars, Types
<1>2. ASSUME NEW s \in Sessions, Disconnect(s) PROVE Types' /\ Hands'
  <2>1. sub' \in [Subs -> SubType] /\ Hands'
    BY ZenonT(30), <1>2, CancelTypes DEF Disconnect, Hands
  <2>2. QED
    BY ZenonT(30), <1>2, <2>1, OnlySubs DEF Disconnect, conVars, Types
<1>3. ASSUME NEW n \in Subs, Swap(n) PROVE Types' /\ Hands'
  <2>1. sub' \in [Subs -> SubType] /\ Hands'
    BY SMTT(30), <1>3 DEF Swap, Types, SubType, Hands
  <2>2. QED
    BY ZenonT(30), <1>3, <2>1, OnlySubs DEF Swap, Types
<1>4. ASSUME NEW n \in Subs, Detach(n) PROVE Types' /\ Hands'
  <2>1. PICK c : c = Cancel(sub, {sub[n].prev} \ {NoSub})
    BY ZenonT(30)
  <2>2. c \in [Subs -> SubType] /\ \A k \in Subs : c[k].pc = sub[k].pc /\ c[k].next = sub[k].next
    BY <2>1, CancelTypes
  <2>3. sub' = [c EXCEPT ![n].pc = "waiting"]
    BY ZenonT(30), <1>4, <2>1 DEF Detach
  <2>4. sub' \in [Subs -> SubType] /\ Hands'
    BY SMTT(30), <2>2, <2>3 DEF SubType, Hands
  <2>5. QED
    BY ZenonT(30), <1>4, <2>4, OnlySubs DEF Detach, conVars, Types
<1>5. ASSUME NEW n \in Subs, Spawn(n) PROVE Types' /\ Hands'
  <2>1. sub' \in [Subs -> SubType] /\ Hands'
    BY SMTT(30), <1>5 DEF Spawn, Types, SubType, Hands
  <2>2. QED
    BY ZenonT(30), <1>5, <2>1, OnlySubs DEF Spawn, conVars, Types
<1>6. QED
  BY ZenonT(30), <1>1, <1>2, <1>3, <1>4, <1>5

\* A step of goroutine n to pc that changes nothing else but its position.
LEMMA GoroutineTypes ==
  ASSUME Types, Hands, NEW n \in Subs, NEW pc \in StartedPC, NEW next \in 0..MaxMsgs,
         pc \in {"parked", "insert", "send"} => next > 0,
         \/ sub' = [sub EXCEPT ![n].pc = pc, ![n].next = next]
         \/ next = sub[n].next /\ sub' = [sub EXCEPT ![n].pc = pc],
         DOMAIN inflight' \subseteq MsgIDs,
         UNCHANGED <<setup, head, floor, offsets, cur, sweep, nacking, persist, disk>>
  PROVE  Types' /\ Hands'
<1>1. sub' \in [Subs -> SubType] /\ Hands'
  BY DEF Types, SubType, StartedPC, Hands
<1>2. QED
  BY ZenonT(30), <1>1, OnlySubs DEF Types

LEMMA LocalTypes ==
  ASSUME Types, Hands, setup' = setup, NEW n \in Subs, NEW pc \in StartedPC,
         pc \in {"parked", "insert", "send"} => sub[n].next > 0, Local(n, pc)
  PROVE  Types' /\ Hands'
<1>1. sub[n].next \in 0..MaxMsgs /\ DOMAIN inflight \subseteq MsgIDs
  BY ZenonT(30) DEF Types, SubType
<1>2. sub' = [sub EXCEPT ![n].pc = pc]
  BY ZenonT(30) DEF Local
<1>3. UNCHANGED <<head, floor, offsets, inflight, cur, sweep, nacking, persist, disk>>
  BY ZenonT(30) DEF Local, conVars
<1>4. QED
  BY ZenonT(30), <1>1, <1>2, <1>3, GoroutineTypes

LEMMA DeliverTypes ==
  ASSUME Types, Hands, Normal(offsets), setup' = setup, NEW n \in Subs, Deliver(n)
  PROVE  Types' /\ Hands'
<1>0. /\ sub[n].next \in 0..MaxMsgs /\ DOMAIN inflight \subseteq MsgIDs
      /\ {"credit", "read", "sleep", "send", "open", "insert", "parked", "done"} \subseteq StartedPC
      /\ sub[n].pc \in {"parked", "insert", "send"} => sub[n].next > 0
  BY ZenonT(30) DEF Types, SubType, Hands, StartedPC
<1>1. CASE Start(n)
  <2>1. CASE OutOfRange
    BY ZenonT(30), <1>0, <1>1, <2>1, LocalTypes DEF Start
  <2>2. CASE ~OutOfRange
    <3>1. sub' = [sub EXCEPT ![n].pc = "open", ![n].next = StartID]
      BY ZenonT(30), <1>1, <2>2 DEF Start
    <3>2. UNCHANGED <<head, floor, offsets, inflight, cur, sweep, nacking, persist, disk>>
      BY ZenonT(30), <1>1, <2>2 DEF Start, conVars
    <3>3. QED
      BY ZenonT(30), <1>0, <3>1, <3>2, StartInLog, GoroutineTypes
  <2>3. QED
    BY ZenonT(30), <2>1, <2>2
<1>2. CASE OpenReader(n)
  BY ZenonT(30), <1>0, <1>2, LocalTypes DEF OpenReader
<1>3. CASE Credit(n)
  BY ZenonT(30), <1>0, <1>3, LocalTypes DEF Credit
<1>4. CASE Stop(n) \/ ReadFails(n)
  BY ZenonT(30), <1>0, <1>4, LocalTypes DEF Stop, ReadFails
<1>5. CASE Visible(n)
  BY ZenonT(30), <1>0, <1>5, LocalTypes DEF Visible
<1>6. CASE Wake(n) \/ Send(n)
  <2>1. sub' = [sub EXCEPT ![n].pc = "credit"]
    BY ZenonT(30), <1>6 DEF Wake, Send
  <2>2. UNCHANGED <<head, floor, offsets, inflight, cur, sweep, nacking, persist, disk>>
    BY ZenonT(30), <1>6 DEF Wake, Send, conVars
  <2>3. QED
    BY ZenonT(30), <1>0, <2>1, <2>2, GoroutineTypes
<1>7. CASE Read(n)
  <2>1. PICK pc \in {"parked", "insert"} : sub' = [sub EXCEPT ![n].pc = pc, ![n].next = sub[n].next + 1]
    BY <1>7 DEF Read, Types, SubType
  <2>2. sub[n].next + 1 \in 0..MaxMsgs /\ sub[n].next + 1 > 0
    BY <1>0, <1>7, DeliveryAssumption DEF Read, Types
  <2>3. UNCHANGED <<head, floor, offsets, inflight, cur, sweep, nacking, persist, disk>>
    BY ZenonT(30), <1>7 DEF Read, conVars
  <2>4. QED
    BY ZenonT(30), <1>0, <2>1, <2>2, <2>3, GoroutineTypes
<1>8. CASE Insert(n)
  <2>1. InHand(n) \in MsgIDs
    BY <1>0, <1>8, DeliveryAssumption DEF Insert, InHand, MsgIDs
  <2>2. DOMAIN inflight' \subseteq MsgIDs
    BY ZenonT(30), <1>0, <1>8, <2>1 DEF Insert, With
  <2>3. sub' = [sub EXCEPT ![n].pc = "send"] /\ sub[n].next > 0
    BY ZenonT(30), <1>0, <1>8 DEF Insert
  <2>4. UNCHANGED <<head, floor, offsets, cur, sweep, nacking, persist, disk>>
    BY ZenonT(30), <1>8 DEF Insert
  <2>5. QED
    BY ZenonT(30), <1>0, <2>2, <2>3, <2>4, GoroutineTypes
<1>9. CASE Rollback(n)
  <2>1. DOMAIN inflight' \subseteq MsgIDs
    BY ZenonT(30), <1>0, <1>9 DEF Rollback, Without
  <2>2. sub' = [sub EXCEPT ![n].pc = "done"]
    BY ZenonT(30), <1>9 DEF Rollback
  <2>3. UNCHANGED <<head, floor, offsets, cur, sweep, nacking, persist, disk>>
    BY ZenonT(30), <1>9 DEF Rollback
  <2>4. QED
    BY ZenonT(30), <1>0, <2>1, <2>2, <2>3, GoroutineTypes
<1>10. QED
  BY ZenonT(30), <1>1, <1>2, <1>3, <1>4, <1>5, <1>6, <1>7, <1>8, <1>9 DEF Deliver

LEMMA AroundTypes ==
  ASSUME Types, Hands, Normal(offsets), setup' = setup, Around
  PROVE  Types' /\ Hands'
<1> USE DEF Types, conVars, procVars
<1>0. sub' = sub /\ Hands'
  BY ZenonT(30), AroundSubs DEF Hands
<1>1. CASE Publish
  <2>1. setup.msgs \in 0..MaxMsgs
    BY ZenonT(30), DeliveryAssumption DEF SetupType
  <2>2. head' \in 0..MaxMsgs
    BY <1>1, <2>1, DeliveryAssumption DEF Publish
  <2>3. UNCHANGED <<floor, offsets, inflight, cur, sweep, nacking, persist, disk>>
    BY ZenonT(30), <1>1 DEF Publish
  <2>4. QED
    BY ZenonT(30), <1>0, <2>2, <2>3
<1>2. ASSUME NEW f \in setup.floors, Retain(f) PROVE Types'
  <2>1. f \in MsgIDs
    BY ZenonT(30), DeliveryAssumption DEF SetupType
  <2>2. floor' \in 0..MaxMsgs
    BY <1>2, <2>1, DeliveryAssumption DEF Retain, MsgIDs
  <2>3. UNCHANGED <<head, offsets, inflight, cur, sweep, nacking, persist, disk>>
    BY ZenonT(30), <1>2 DEF Retain
  <2>4. QED
    BY ZenonT(30), <1>0, <2>2, <2>3
<1>3. ASSUME NEW s \in Sessions, Write(s) \/ Pause(s) \/ Resume(s) \/ ResumeSignal(s) PROVE Types'
  <2>1. UNCHANGED <<head, floor, offsets, inflight, cur, sweep, nacking, persist, disk>>
    BY <1>3 DEF Write, Pause, Resume, ResumeSignal
  <2>2. QED
    BY ZenonT(30), <1>0, <2>1
<1>4. ASSUME NEW s \in Sessions, NackPush(s) \/ NackMove(s) PROVE Types'
  <2>1. nacking' = [nacking EXCEPT ![s] = NoNack]
    BY ZenonT(30), <1>4 DEF NackPush, NackMove
  <2>2. NoNack \in [pc : {"no", "push", "move"}, msg : Nat]
    BY ZenonT(30) DEF NoNack
  <2>3. nacking' \in [Sessions -> [pc : {"no", "push", "move"}, msg : Nat]]
    BY ZenonT(30), <2>1, <2>2
  <2>4. UNCHANGED <<head, floor, offsets, inflight, cur, sweep, persist, disk>>
    BY ZenonT(30), <1>4 DEF NackPush, NackMove
  <2>5. QED
    BY ZenonT(30), <1>0, <2>3, <2>4
<1>5. ASSUME NEW s \in Sessions, NEW m \in MsgIDs, Ack(s, m) PROVE Types'
  <2>1. offsets' \in OffsetsType
    BY <1>5, AckCovers DEF Ack
  <2>2. DOMAIN inflight' \subseteq MsgIDs
    BY ZenonT(30), <1>5 DEF Ack, Without
  <2>3. UNCHANGED <<head, floor, cur, sweep, nacking, persist, disk>>
    BY <1>5 DEF Ack
  <2>4. QED
    BY ZenonT(30), <1>0, <2>1, <2>2, <2>3
<1>6. ASSUME NEW s \in Sessions, NEW m \in MsgIDs, Nack(s, m) PROVE Types'
  <2>1. DOMAIN inflight' \subseteq MsgIDs
    <3>1. inflight' = Without(inflight, {m}) \/ \E x : inflight' = With(inflight, m, x)
      BY ZenonT(30), <1>6 DEF Nack
    <3>2. QED
      BY ONLY SMTT(30), <3>1, DOMAIN inflight \subseteq MsgIDs, m \in MsgIDs DEF Without, With
  <2>2. PICK w \in {"push", "move"} : nacking' = [nacking EXCEPT ![s] = [pc |-> w, msg |-> m]]
    BY <1>6 DEF Nack
  <2>3. [pc |-> w, msg |-> m] \in [pc : {"no", "push", "move"}, msg : Nat]
    BY DeliveryAssumption DEF MsgIDs
  <2>4. nacking' \in [Sessions -> [pc : {"no", "push", "move"}, msg : Nat]]
    BY ZenonT(30), <2>2, <2>3
  <2>5. UNCHANGED <<head, floor, offsets, cur, sweep, persist, disk>>
    BY <1>6 DEF Nack
  <2>6. QED
    BY ZenonT(30), <1>0, <2>1, <2>4, <2>5
<1>7. ASSUME NEW m \in MsgIDs, Expire(m) PROVE Types'
  <2>1. DOMAIN inflight' \subseteq MsgIDs
    BY ZenonT(30), <1>7 DEF Expire
  <2>2. UNCHANGED <<head, floor, offsets, cur, sweep, nacking, persist, disk>>
    BY ZenonT(30), <1>7 DEF Expire
  <2>3. QED
    BY ZenonT(30), <1>0, <2>1, <2>2
<1>8. ASSUME NEW m \in MsgIDs, SweepPush(m) \/ SweepMove(m) PROVE Types'
  <2>1. sweep' \in SweepType
    <3>1. CASE SweepPush(m)
      BY ZenonT(30), <3>1 DEF SweepPush, SweepType
    <3>2. CASE SweepMove(m)
      BY ZenonT(30), <3>2 DEF SweepMove, SweepType
    <3>3. QED
      BY ZenonT(30), <1>8, <3>1, <3>2
  <2>2. UNCHANGED <<head, floor, offsets, inflight, cur, nacking, persist, disk>>
    BY ZenonT(30), <1>8 DEF SweepPush, SweepMove
  <2>3. QED
    BY ZenonT(30), <1>0, <2>1, <2>2
<1>9. CASE SweepCollect
  <2>1. DOMAIN inflight' \subseteq MsgIDs
    BY ZenonT(30), <1>9 DEF SweepCollect
  <2>2. Expired \subseteq MsgIDs /\ sub[cur].conn \in Sessions
    BY ZenonT(30), <1>9 DEF SweepCollect, Expired, SubType
  <2>3. sweep' \in SweepType
    BY ZenonT(30), <1>9, <2>2 DEF SweepCollect, SweepType
  <2>4. UNCHANGED <<head, floor, offsets, cur, nacking, persist, disk>>
    BY ZenonT(30), <1>9 DEF SweepCollect
  <2>5. QED
    BY ZenonT(30), <1>0, <2>1, <2>3, <2>4
<1>10. CASE SweepEnd
  <2>1. sweep' \in SweepType
    BY ZenonT(30), <1>10, FreshTypes DEF SweepEnd
  <2>2. UNCHANGED <<head, floor, offsets, inflight, cur, nacking, persist, disk>>
    BY ZenonT(30), <1>10 DEF SweepEnd
  <2>3. QED
    BY ZenonT(30), <1>0, <2>1, <2>2
<1>11. CASE PersistClear \/ PersistSnapshot \/ PersistWrite
  <2>1. persist' \in [pc : {"idle", "snapshot", "write"}, snap : OffsetsType] /\ disk' \in OffsetsType
    BY <1>11, FreshTypes DEF PersistClear, PersistSnapshot, PersistWrite, NoPersist
  <2>2. UNCHANGED <<head, floor, offsets, inflight, cur, nacking, sweep>>
    BY ZenonT(30), <1>11 DEF PersistClear, PersistSnapshot, PersistWrite
  <2>3. QED
    BY ZenonT(30), <1>0, <2>1, <2>2
<1>12. QED
  BY ZenonT(30), <1>0, <1>1, <1>2, <1>3, <1>4, <1>5, <1>6, <1>7, <1>8, <1>9, <1>10, <1>11 DEF Around

LEMMA TypesKept ==
  ASSUME Types, Hands, Normal(offsets), Next
  PROVE  Types' /\ Hands'
<1>1. CASE Crash
  <2>1. setup' = setup
    BY ZenonT(30), NextCases
  <2>2. sub' \in [Subs -> SubType] /\ Hands'
    BY ZenonT(30), <1>1, FreshTypes, CrashClears DEF Crash, Types, SubType, Hands
  <2>3. persist' \in [pc : {"idle", "snapshot", "write"}, snap : OffsetsType]
    BY ZenonT(30), <1>1, FreshTypes DEF Crash, NoPersist
  <2>4. nacking' \in [Sessions -> [pc : {"no", "push", "move"}, msg : Nat]]
    BY ZenonT(30), <1>1 DEF Crash, NoNack
  <2>5. QED
    BY ZenonT(30), <1>1, <2>1, <2>2, <2>3, <2>4, FreshTypes, CrashClears DEF Crash, Types, Loaded
<1>2. QED
  BY ZenonT(30), <1>1, NextCases, SubTypes, DeliverTypes, AroundTypes

----------------------------------------------------------------------------
(* The window, the offsets and the positions. *)

\* A goroutine past the gate has its place in the window.
Admitted ==
    \A n \in Subs : sub[n].pc \in {"read", "parked", "insert"} => Cardinality(DOMAIN inflight) < Window

\* How offsets.json follows the offsets.
Saved ==
    /\ \A o \in {offsets, disk, persist.snap} : Normal(o) /\ Covered(o) \subseteq acked
    /\ Covered(disk) \subseteq Covered(offsets)
    /\ persist.pc = "write" => /\ Covered(disk) \subseteq Covered(persist.snap)
                               /\ Covered(persist.snap) \subseteq Covered(offsets)
                               /\ ~dirty => persist.snap = offsets

\* What needs no goroutine to look after it.
Accounted == Covered(offsets) \cup DOMAIN inflight \cup Killed

Positions ==
    "dlq" \notin setup.faults =>
        \A n \in Subs : Running(n) /\ sub[n].pc # "start" =>
            \A m \in floor..(sub[n].next - 1) :
                m \in Accounted \/ (m = InHand(n) /\ sub[n].pc \in {"parked", "insert"})

\* The sweep starts with nothing left to move.
Dying == sweep.pc = "idle" => sweep.dead = {}

DeliveryInv ==
    /\ Types
    /\ Hands
    /\ TakeOvers
    /\ Admitted
    /\ WindowBound
    /\ NoLostWakeup
    /\ Saved
    /\ OffsetsPersisted
    /\ Dying
    /\ Positions

----------------------------------------------------------------------------
(* The window. *)

LEMMA InflightFinite ==
  ASSUME Types
  PROVE  IsFiniteSet(DOMAIN inflight) /\ Cardinality(DOMAIN inflight) \in Nat /\ Window \in Nat \ {0}
<1>1. IsFiniteSet(MsgIDs)
  BY DeliveryAssumption, FS_Interval DEF MsgIDs
<1>2. IsFiniteSet(DOMAIN inflight)
  BY ZenonT(30), <1>1, FS_Subset DEF Types
<1>3. QED
  BY ZenonT(30), <1>2, FS_CardinalityType, DeliveryAssumption DEF Types, Window, SetupType

\* No message enters the window, and no goroutine passes its gate.
Narrower ==
    /\ setup' = setup
    /\ DOMAIN inflight' \subseteq DOMAIN inflight
    /\ \A k \in Subs : sub'[k].pc \in {"read", "parked", "insert"} => sub[k].pc \in {"read", "parked", "insert"}

LEMMA WindowNarrower ==
  ASSUME Types, Admitted, WindowBound, Narrower
  PROVE  Admitted' /\ WindowBound'
<1>1. /\ Cardinality(DOMAIN inflight') \in Nat
      /\ Cardinality(DOMAIN inflight') <= Cardinality(DOMAIN inflight)
  BY ZenonT(30), InflightFinite, FS_Subset, FS_CardinalityType DEF Narrower
<1>2. Window' = Window
  BY ZenonT(30) DEF Window, Narrower
<1>3. QED
  BY <1>1, <1>2, InflightFinite DEF Narrower, Admitted, WindowBound

LEMMA AroundNarrower ==
  ASSUME Types, setup' = setup, Around
  PROVE  Narrower
<1>0. \A k \in Subs : sub'[k] = sub[k]
  BY ZenonT(30), AroundSubs
<1>1. ASSUME NEW s \in Sessions, NEW m \in MsgIDs, Ack(s, m) \/ Nack(s, m)
      PROVE  DOMAIN inflight' \subseteq DOMAIN inflight
  BY ZenonT(30), <1>1 DEF Ack, Nack, Without, With
<1>2. ASSUME NEW s \in Sessions,
             \/ Write(s) \/ NackPush(s) \/ NackMove(s)
             \/ Pause(s) \/ Resume(s) \/ ResumeSignal(s)
      PROVE inflight' = inflight
  BY ZenonT(30), <1>2 DEF Write, NackPush, NackMove, Pause, Resume, ResumeSignal, conVars
<1>3. ASSUME NEW m \in MsgIDs, Expire(m) \/ SweepPush(m) \/ SweepMove(m)
      PROVE  DOMAIN inflight' \subseteq DOMAIN inflight
  BY ZenonT(30), <1>3 DEF Expire, SweepPush, SweepMove, conVars
<1>4. ASSUME SweepCollect PROVE DOMAIN inflight' \subseteq DOMAIN inflight
  BY ZenonT(30), <1>4 DEF SweepCollect
<1>5. ASSUME \/ SweepEnd \/ PersistClear \/ PersistSnapshot \/ PersistWrite
             \/ Publish \/ \E f \in setup.floors : Retain(f)
      PROVE  inflight' = inflight
  BY ZenonT(30), <1>5 DEF SweepEnd, PersistClear, PersistSnapshot, PersistWrite, Publish, Retain, conVars
<1>6. DOMAIN inflight' \subseteq DOMAIN inflight
  BY ZenonT(30), <1>1, <1>2, <1>3, <1>4, <1>5 DEF Around
<1>7. QED
  BY ZenonT(30), <1>0, <1>6 DEF Narrower

LEMMA DeliverWindow ==
  ASSUME Types, Exclusive, Admitted, WindowBound, setup' = setup, NEW n \in Subs, Deliver(n)
  PROVE  Admitted' /\ WindowBound'
<1>1. CASE Insert(n)
  <2>1. Cardinality(DOMAIN inflight) < Window /\ Window' = Window
    BY ZenonT(30), <1>1 DEF Insert, Admitted, Window
  <2>2. DOMAIN inflight' = DOMAIN inflight \cup {InHand(n)}
    BY ZenonT(30), <1>1 DEF Insert, With
  <2>3. Cardinality(DOMAIN inflight \cup {InHand(n)})
          = IF InHand(n) \in DOMAIN inflight THEN Cardinality(DOMAIN inflight) ELSE Cardinality(DOMAIN inflight) + 1
    BY ZenonT(30), InflightFinite, FS_AddElement
  <2>4. WindowBound'
    BY <2>1, <2>2, <2>3, InflightFinite DEF WindowBound
  <2>5. \A k \in Subs : sub'[k].pc \notin {"read", "parked", "insert"}
    <3>1. sub'[n].pc = "send" /\ \A k \in Subs : k # n => sub'[k] = sub[k]
      BY ZenonT(30), <1>1 DEF Insert, Types, SubType
    <3>2. QED
      BY ZenonT(30), <1>1, <3>1 DEF Insert, Exclusive, Running
  <2>6. QED
    BY ZenonT(30), <2>4, <2>5 DEF Admitted
<1>2. CASE Credit(n)
  <2>1. inflight' = inflight /\ Window' = Window
    BY ZenonT(30), <1>2 DEF Credit, Local, conVars, Window
  <2>2. \A k \in Subs : k # n => sub'[k] = sub[k]
    BY ZenonT(30), <1>2 DEF Credit, Local, Types, SubType
  <2>3. sub'[n].pc = "read" => HasCredit
    BY ZenonT(30), <1>2 DEF Credit, Local, Types, SubType
  <2>4. sub'[n].pc \in {"read", "sleep"}
    BY <1>2 DEF Credit, Local, Types, SubType
  <2>5. QED
    BY ZenonT(30), <2>1, <2>2, <2>3, <2>4 DEF Admitted, WindowBound, HasCredit
<1>3. CASE Start(n) \/ OpenReader(n) \/ Wake(n) \/ Stop(n) \/ Send(n) \/ ReadFails(n)
  <2>1. inflight' = inflight
    BY ZenonT(30), <1>3 DEF Start, OpenReader, Wake, Stop, Send, ReadFails, Local, conVars
  <2>2. sub'[n].pc \notin {"read", "parked", "insert"} /\ \A k \in Subs : k # n => sub'[k] = sub[k]
    BY <1>3 DEF Start, OpenReader, Wake, Stop, Send, ReadFails, Local, Types, SubType
  <2>3. QED
    BY ZenonT(30), <2>1, <2>2, WindowNarrower DEF Narrower
<1>4. CASE Read(n) \/ Visible(n)
  <2>1. inflight' = inflight
    BY ZenonT(30), <1>4 DEF Read, Visible, Local, conVars
  <2>2. \A k \in Subs : k # n => sub'[k] = sub[k]
    BY ZenonT(30), <1>4 DEF Read, Visible, Local, Types, SubType
  <2>3. sub[n].pc \in {"read", "parked"}
    BY ZenonT(30), <1>4 DEF Read, Visible
  <2>4. QED
    BY ZenonT(30), <2>1, <2>2, <2>3, WindowNarrower DEF Narrower
<1>5. CASE Rollback(n)
  <2>1. DOMAIN inflight' \subseteq DOMAIN inflight
    BY ZenonT(30), <1>5 DEF Rollback, Without
  <2>2. sub'[n].pc = "done" /\ \A k \in Subs : k # n => sub'[k] = sub[k]
    BY ZenonT(30), <1>5 DEF Rollback, Types, SubType
  <2>3. QED
    BY ZenonT(30), <2>1, <2>2, WindowNarrower DEF Narrower
<1>6. QED
  BY ZenonT(30), <1>1, <1>2, <1>3, <1>4, <1>5 DEF Deliver

LEMMA WindowKept ==
  ASSUME Types, TakeOvers, Admitted, WindowBound, Next
  PROVE  Admitted' /\ WindowBound'
<1>0. setup' = setup
  BY ZenonT(30), NextCases
<1>1. CASE Around
  BY ZenonT(30), <1>0, <1>1, AroundNarrower, WindowNarrower
<1>2. ASSUME NEW n \in Subs, Deliver(n) PROVE Admitted' /\ WindowBound'
  BY ZenonT(30), <1>0, <1>2, DeliverWindow, OneAtATime
<1>3. CASE Crash
  <2>1. Narrower
    BY ZenonT(30), <1>0, <1>3, CrashClears DEF Narrower
  <2>2. QED
    BY ZenonT(30), <2>1, WindowNarrower
<1>4. CASE \/ \E s \in Sessions, n \in Subs : SubCommand(s, n)
           \/ \E s \in Sessions : Disconnect(s)
           \/ \E n \in Subs : Detach(n)
  <2>1. inflight' = inflight
    BY ZenonT(30), <1>4 DEF SubCommand, Disconnect, Detach, conVars
  <2>2. Narrower
    BY ZenonT(30), <1>0, <1>4, <2>1, ReaderPrepares DEF Prepares, Narrower
  <2>3. QED
    BY ZenonT(30), <2>2, WindowNarrower
<1>5. ASSUME NEW n \in Subs, Swap(n) \/ Spawn(n) PROVE Admitted' /\ WindowBound'
  <2>1. inflight' = inflight
    BY ZenonT(30), <1>5 DEF Swap, Spawn, conVars
  <2>2. sub'[n].pc \in {"swapped", "start"} /\ \A k \in Subs : k # n => sub'[k] = sub[k]
    BY <1>5 DEF Swap, Spawn, Types, SubType
  <2>3. Narrower
    BY ZenonT(30), <1>0, <2>1, <2>2 DEF Narrower
  <2>4. QED
    BY ZenonT(30), <2>3, WindowNarrower
<1>6. QED
  BY ZenonT(30), <1>1, <1>2, <1>3, <1>4, <1>5, NextCases

----------------------------------------------------------------------------
(* Wake-ups. *)

\* The gate does not open, and no goroutine goes to sleep.
Drowsy ==
    /\ setup' = setup
    /\ DOMAIN inflight' = DOMAIN inflight
    /\ paused' = paused /\ wake' = wake /\ resuming' = resuming
    /\ \A k \in Subs : sub'[k].pc = "sleep" => sub[k].pc = "sleep"

LEMMA WakeDrowsy ==
  ASSUME NoLostWakeup, Drowsy
  PROVE  NoLostWakeup'
<1>1. HasCredit' => HasCredit
  BY ZenonT(30) DEF Drowsy, HasCredit, Window
<1>2. QED
  BY ZenonT(30), <1>1 DEF Drowsy, NoLostWakeup

LEMMA AroundWakes ==
  ASSUME Types, NoLostWakeup, setup' = setup, Around
  PROVE  NoLostWakeup'
<1>0. \A k \in Subs : sub'[k] = sub[k]
  BY ZenonT(30), AroundSubs
<1>1. ASSUME NEW s \in Sessions, NEW m \in MsgIDs, Ack(s, m) PROVE NoLostWakeup'
  <2>1. wake'
    BY ZenonT(30), <1>1 DEF Ack, AckWakes
  <2>2. QED
    BY ZenonT(30), <2>1 DEF NoLostWakeup
<1>2. ASSUME NEW s \in Sessions, NEW m \in MsgIDs, Nack(s, m) PROVE NoLostWakeup'
  <2>1. CASE wake' = TRUE
    BY ZenonT(30), <2>1 DEF NoLostWakeup
  <2>2. CASE ~(wake' = TRUE)
    <3>1. wake' = wake /\ DOMAIN inflight' = DOMAIN inflight \cup {m} /\ m \in DOMAIN inflight
      BY ZenonT(30), <1>2, <2>2 DEF Nack, With
    <3>2. paused' = paused /\ resuming' = resuming
      BY ZenonT(30), <1>2 DEF Nack
    <3>3. Drowsy
      BY ZenonT(30), <1>0, <3>1, <3>2 DEF Drowsy
    <3>4. QED
      BY ZenonT(30), <3>3, WakeDrowsy
  <2>3. QED
    BY ZenonT(30), <2>1, <2>2
<1>3. ASSUME NEW s \in Sessions, Resume(s) PROVE NoLostWakeup'
  <2>1. resuming' # {}
    BY ZenonT(30), <1>3 DEF Resume
  <2>2. QED
    BY ZenonT(30), <2>1 DEF NoLostWakeup
<1>4. ASSUME NEW s \in Sessions, ResumeSignal(s) PROVE NoLostWakeup'
  <2>1. wake'
    BY ZenonT(30), <1>4 DEF ResumeSignal, ResumeWakes
  <2>2. QED
    BY ZenonT(30), <2>1 DEF NoLostWakeup
<1>5. ASSUME NEW s \in Sessions, Pause(s) PROVE NoLostWakeup'
  <2>1. ~HasCredit'
    BY ZenonT(30), <1>5 DEF Pause, HasCredit
  <2>2. QED
    BY ZenonT(30), <2>1 DEF NoLostWakeup
<1>6. CASE SweepCollect
  <2> DEFINE dead == {m \in Expired : Dead(m)}
  <2>1. CASE dead = {}
    <3>1. DOMAIN inflight' = DOMAIN inflight
      BY ZenonT(30), <1>6, <2>1 DEF SweepCollect
    <3>2. wake' = (wake \/ dead # {})
      BY ZenonT(30), <1>6 DEF SweepCollect, KillWakes
    <3>3. paused' = paused /\ resuming' = resuming
      BY ZenonT(30), <1>6 DEF SweepCollect
    <3> HIDE DEF dead
    <3>4. HasCredit' => HasCredit
      BY ZenonT(30), <3>1, <3>3 DEF HasCredit, Window
    <3>5. wake => wake'
      BY <3>2
    <3>6. QED
      BY ZenonT(30), <1>0, <3>3, <3>4, <3>5 DEF NoLostWakeup
  <2>2. CASE dead # {}
    <3>1. wake' = (wake \/ dead # {})
      BY ZenonT(30), <1>6 DEF SweepCollect, KillWakes
    <3>2. QED
      BY ZenonT(30), <2>2, <3>1 DEF NoLostWakeup
  <2>3. QED
    BY ZenonT(30), <2>1, <2>2
<1>7. ASSUME NEW m \in MsgIDs, Expire(m) PROVE NoLostWakeup'
  <2>1. DOMAIN inflight' = DOMAIN inflight /\ UNCHANGED <<paused, wake, resuming>>
    BY ZenonT(30), <1>7 DEF Expire, procVars
  <2>2. QED
    BY ZenonT(30), <1>0, <2>1, WakeDrowsy DEF Drowsy
<1>8. ASSUME \/ \E s \in Sessions : Write(s) \/ NackPush(s) \/ NackMove(s)
             \/ \E m \in MsgIDs : SweepPush(m) \/ SweepMove(m)
             \/ SweepEnd \/ PersistClear \/ PersistSnapshot \/ PersistWrite
             \/ Publish \/ \E f \in setup.floors : Retain(f)
      PROVE  NoLostWakeup'
  <2>1. UNCHANGED <<inflight, paused, wake, resuming>>
    BY <1>8 DEF Write, NackPush, NackMove, SweepPush, SweepMove, SweepEnd, PersistClear, PersistSnapshot,
                PersistWrite, Publish, Retain, conVars, procVars
  <2>2. QED
    BY <1>0, <2>1, WakeDrowsy DEF Drowsy
<1>9. QED
  BY ZenonT(30), <1>1, <1>2, <1>3, <1>4, <1>5, <1>6, <1>7, <1>8 DEF Around

LEMMA DeliverWakes ==
  ASSUME Types, Exclusive, NoLostWakeup, setup' = setup, NEW n \in Subs, Deliver(n)
  PROVE  NoLostWakeup'
<1>1. \A k \in Subs : k # n => sub'[k].pc # "sleep"
  BY ZenonT(30), GoroutineMoves DEF Moves, Exclusive, Running
<1>2. CASE Credit(n)
  <2>1. sub'[n].pc = "sleep" => ~HasCredit
    BY <1>2 DEF Credit, Local, Types, SubType
  <2>2. HasCredit' => HasCredit
    BY ZenonT(30), <1>2 DEF Credit, Local, HasCredit, Window, conVars
  <2>3. QED
    BY ZenonT(30), <1>1, <2>1, <2>2 DEF NoLostWakeup
<1>3. CASE ~Credit(n)
  <2>1. sub'[n].pc # "sleep"
    <3> USE DEF Types, SubType, Local
    <3>1. CASE Start(n) \/ OpenReader(n) \/ Wake(n) \/ Stop(n)
      BY <3>1 DEF Start, OpenReader, Wake, Stop
    <3>2. CASE Read(n) \/ ReadFails(n) \/ Visible(n)
      BY SMTT(30), <3>2 DEF Read, ReadFails, Visible
    <3>3. CASE Insert(n) \/ Send(n) \/ Rollback(n)
      BY <3>3 DEF Insert, Send, Rollback
    <3>4. QED
      BY ZenonT(30), <1>3, <3>1, <3>2, <3>3 DEF Deliver
  <2>2. QED
    BY ZenonT(30), <1>1, <2>1 DEF NoLostWakeup
<1>4. QED
  BY ZenonT(30), <1>2, <1>3

LEMMA WakeUpsKept ==
  ASSUME Types, TakeOvers, NoLostWakeup, Next
  PROVE  NoLostWakeup'
<1>0. setup' = setup
  BY ZenonT(30), NextCases
<1>1. CASE Around
  BY ZenonT(30), <1>0, <1>1, AroundWakes
<1>2. ASSUME NEW n \in Subs, Deliver(n) PROVE NoLostWakeup'
  BY ZenonT(30), <1>0, <1>2, DeliverWakes, OneAtATime
<1>3. CASE Crash
  BY ZenonT(30), <1>3, CrashClears DEF NoLostWakeup
<1>4. CASE \/ \E s \in Sessions, n \in Subs : SubCommand(s, n)
           \/ \E s \in Sessions : Disconnect(s)
           \/ \E n \in Subs : Detach(n)
  <2>1. UNCHANGED <<inflight, paused, wake, resuming>>
    BY ZenonT(30), <1>4 DEF SubCommand, Disconnect, Detach, conVars
  <2>2. Drowsy
    BY ZenonT(30), <1>0, <1>4, <2>1, ReaderPrepares DEF Prepares, Drowsy
  <2>3. QED
    BY ZenonT(30), <2>2, WakeDrowsy
<1>5. ASSUME NEW n \in Subs, Swap(n) \/ Spawn(n) PROVE NoLostWakeup'
  <2>1. UNCHANGED <<inflight, paused, wake, resuming>>
    BY ZenonT(30), <1>5 DEF Swap, Spawn, conVars
  <2>2. sub'[n].pc \in {"swapped", "start"} /\ \A k \in Subs : k # n => sub'[k] = sub[k]
    BY SMTT(30), <1>5 DEF Swap, Spawn, Types, SubType
  <2>3. QED
    BY ZenonT(30), <1>0, <2>1, <2>2, WakeDrowsy DEF Drowsy
<1>6. QED
  BY ZenonT(30), <1>1, <1>2, <1>3, <1>4, <1>5, NextCases

----------------------------------------------------------------------------
(* offsets.json. *)

\* Steps that leave the offsets and their file alone; a message may become dirty.
Unsaved ==
    /\ setup' = setup
    /\ UNCHANGED <<offsets, disk, persist, acked>>
    /\ dirty => dirty'

LEMMA SavedUnsaved ==
  ASSUME Saved, OffsetsPersisted, Unsaved
  PROVE  Saved' /\ OffsetsPersisted' /\ disk' = disk
BY ZenonT(30) DEF Saved, OffsetsPersisted, Unsaved, Normal, Covered

\* The steps that change the offsets or their file.
Saves == Crash \/ PersistClear \/ PersistSnapshot \/ PersistWrite \/ \E s \in Sessions, m \in MsgIDs : Ack(s, m)

LEMMA OthersUnsaved ==
  ASSUME Next, ~Saves
  PROVE  Unsaved
<1> USE DEF conVars, procVars, histVars, Unsaved
<1>0. setup' = setup
  BY ZenonT(30), NextCases
<1>1. ASSUME NEW n \in Subs, Deliver(n) PROVE Unsaved
  <2>1. CASE Start(n) \/ OpenReader(n) \/ Credit(n) \/ Stop(n) \/ ReadFails(n) \/ Visible(n)
    BY SMTT(30), <1>0, <2>1 DEF Start, OpenReader, Credit, Stop, ReadFails, Visible, Local
  <2>2. CASE Wake(n) \/ Read(n) \/ Insert(n) \/ Send(n) \/ Rollback(n)
    BY SMTT(30), <1>0, <2>2 DEF Wake, Read, Insert, Send, Rollback
  <2>3. QED
    BY ZenonT(30), <1>1, <2>1, <2>2 DEF Deliver
<1>2. ASSUME NEW n \in Subs, Swap(n) \/ Detach(n) \/ Spawn(n) PROVE Unsaved
  BY <1>0, <1>2 DEF Swap, Detach, Spawn
<1>3. ASSUME NEW s \in Sessions, Disconnect(s) \/ \E n \in Subs : SubCommand(s, n) PROVE Unsaved
  BY SMTT(30), <1>0, <1>3 DEF Disconnect, SubCommand
<1>4. ASSUME NEW s \in Sessions, Write(s) \/ NackPush(s) \/ NackMove(s) PROVE Unsaved
  BY SMTT(30), <1>0, <1>4 DEF Write, NackPush, NackMove
<1>5. ASSUME NEW s \in Sessions, Pause(s) \/ Resume(s) \/ ResumeSignal(s) PROVE Unsaved
  BY SMTT(30), <1>0, <1>5 DEF Pause, Resume, ResumeSignal
<1>6. ASSUME NEW s \in Sessions, NEW m \in MsgIDs, Nack(s, m) PROVE Unsaved
  BY ZenonT(30), <1>0, <1>6 DEF Nack
<1>7. ASSUME NEW m \in MsgIDs, Expire(m) \/ SweepPush(m) \/ SweepMove(m) PROVE Unsaved
  BY <1>0, <1>7 DEF Expire, SweepPush, SweepMove
<1>8. ASSUME SweepCollect PROVE Unsaved
  <2>1. UNCHANGED <<offsets, disk, persist, acked>>
    BY ZenonT(30), <1>8 DEF SweepCollect
  <2>2. dirty => dirty'
    BY ZenonT(30), <1>8 DEF SweepCollect
  <2>3. QED
    BY ZenonT(30), <1>0, <2>1, <2>2
<1>9. ASSUME SweepEnd \/ Publish PROVE Unsaved
  BY <1>0, <1>9 DEF SweepEnd, Publish
<1>f. ASSUME NEW f \in setup.floors, Retain(f) PROVE Unsaved
  BY ZenonT(30), <1>0, <1>f DEF Retain
<1>10. QED
  BY ZenonT(30), <1>1, <1>2, <1>3, <1>4, <1>5, <1>6, <1>7, <1>8, <1>9, <1>f, NextCases DEF Around, Saves

LEMMA NothingCovered == Normal(NoOffsets) /\ Covered(NoOffsets) = {}
BY ZenonT(30) DEF Normal, NoOffsets, Covered

LEMMA SavedKept ==
  ASSUME Types, Saved, OffsetsPersisted, Next
  PROVE  Saved' /\ OffsetsPersisted' /\ Covered(disk) \subseteq Covered(disk')
<1>1. ASSUME NEW s \in Sessions, NEW m \in MsgIDs, Ack(s, m)
      PROVE  Saved' /\ OffsetsPersisted' /\ disk' = disk
  <2>1. Normal(offsets') /\ Covered(offsets') = Covered(offsets) \cup {m}
    BY ZenonT(30), <1>1, AckCovers DEF Ack, Saved, Types
  <2>2. dirty' /\ acked' = acked \cup {m} /\ persist' = persist /\ disk' = disk
    BY ZenonT(30), <1>1 DEF Ack, procVars
  <2>3. \A o \in {offsets', disk', persist'.snap} : Normal(o) /\ Covered(o) \subseteq acked'
    BY ZenonT(30), <2>1, <2>2 DEF Saved
  <2>4. /\ Covered(disk') \subseteq Covered(offsets')
        /\ persist'.pc = "write" => /\ Covered(disk') \subseteq Covered(persist'.snap)
                                    /\ Covered(persist'.snap) \subseteq Covered(offsets')
    BY ZenonT(30), <2>1, <2>2 DEF Saved
  <2>5. QED
    BY ZenonT(30), <2>2, <2>3, <2>4 DEF Saved, OffsetsPersisted, Normal, Covered
<1>2. CASE PersistClear
  <2>1. UNCHANGED <<offsets, disk, acked>> /\ persist' = [persist EXCEPT !.pc = "snapshot"]
    BY ZenonT(30), <1>2 DEF PersistClear, histVars
  <2>2. persist'.pc = "snapshot" /\ persist'.snap = persist.snap
    BY ZenonT(30), <2>1 DEF Types
  <2>3. QED
    BY <2>1, <2>2 DEF Saved, OffsetsPersisted, Normal, Covered
<1>3. CASE PersistSnapshot
  <2>1. UNCHANGED <<offsets, disk, acked, dirty>> /\ persist'.pc = "write" /\ persist'.snap = offsets
    BY ZenonT(30), <1>3 DEF PersistSnapshot, conVars, histVars
  <2>2. QED
    BY SMTT(30), <2>1 DEF Saved, OffsetsPersisted, Normal, Covered
<1>4. CASE PersistWrite
  <2>1. /\ UNCHANGED <<offsets, acked>> /\ dirty' = dirty
        /\ persist'.pc = "idle" /\ persist'.snap = NoOffsets
        /\ disk' = persist.snap \/ ("offsets" \in setup.faults /\ disk' = disk)
        /\ persist.pc = "write" /\ setup' = setup
    BY ZenonT(30), <1>4, NextCases DEF PersistWrite, NoPersist, DirtyAtEnd, histVars
  <2>2. /\ Normal(disk') /\ Covered(disk') \subseteq acked
        /\ Covered(disk') \subseteq Covered(offsets) /\ Covered(disk) \subseteq Covered(disk')
    BY ZenonT(30), <2>1 DEF Saved
  <2>3. Saved'
    BY SMTT(30), <2>1, <2>2, NothingCovered DEF Saved, Normal, Covered
  <2>4. OffsetsPersisted'
    BY ZenonT(30), <2>1 DEF OffsetsPersisted, Saved
  <2>5. QED
    BY ZenonT(30), <2>2, <2>3, <2>4
<1>5. CASE Crash
  <2>1. offsets' = disk /\ disk' = disk /\ acked' = acked /\ persist' = NoPersist /\ ~dirty'
    BY ZenonT(30), <1>5 DEF Crash, Loaded
  <2>2. persist'.pc = "idle" /\ persist'.snap = NoOffsets
    BY ZenonT(30), <2>1 DEF NoPersist
  <2>3. QED
    BY <2>1, <2>2, NothingCovered DEF Saved, OffsetsPersisted, Normal, Covered
<1>6. CASE ~Saves
  BY ZenonT(30), <1>6, OthersUnsaved, SavedUnsaved
<1>7. QED
  BY ZenonT(30), <1>1, <1>2, <1>3, <1>4, <1>5, <1>6 DEF Saves

----------------------------------------------------------------------------
(* No gaps. *)

LEMMA DyingKept ==
  ASSUME Types, Dying, Next
  PROVE  Dying'
<1>1. CASE SweepCollect \/ SweepEnd \/ \E m \in MsgIDs : SweepPush(m) \/ SweepMove(m)
  BY <1>1 DEF SweepCollect, SweepEnd, SweepPush, SweepMove, NoSweep, Dying, Types, SweepType
<1>2. CASE Crash
  BY ZenonT(30), <1>2 DEF Crash, NoSweep, Dying
<1>3. ASSUME NEW n \in Subs, Deliver(n) PROVE sweep' = sweep
  BY <1>3 DEF Deliver, Start, OpenReader, Credit, Stop, ReadFails, Visible, Local, Wake, Read, Insert, Send, Rollback
<1>4. ASSUME NEW n \in Subs, Swap(n) \/ Detach(n) \/ Spawn(n) PROVE sweep' = sweep
  BY ZenonT(30), <1>4 DEF Swap, Detach, Spawn
<1>5. ASSUME NEW s \in Sessions, Frame(s) \/ Write(s) \/ Disconnect(s) PROVE sweep' = sweep
  BY ZenonT(30), <1>5 DEF Frame, SubCommand, Ack, Nack, NackPush, NackMove, Pause, Resume, ResumeSignal, Write, Disconnect, procVars
<1>6. CASE Publish \/ (\E f \in setup.floors : Retain(f)) \/ (\E m \in MsgIDs : Expire(m)) \/ Persist
  <2>1. sweep' = sweep
    BY ZenonT(30), <1>6 DEF Publish, Retain, Expire, Persist, PersistClear, PersistSnapshot, PersistWrite, procVars
  <2>2. QED
    BY ZenonT(30), <2>1 DEF Dying
<1>7. QED
  <2>1. \/ SweepCollect \/ SweepEnd \/ \E m \in MsgIDs : SweepPush(m) \/ SweepMove(m)
        \/ Crash
        \/ \E n \in Subs : Deliver(n) \/ Swap(n) \/ Detach(n) \/ Spawn(n)
        \/ \E s \in Sessions : Frame(s) \/ Write(s) \/ Disconnect(s)
        \/ Publish \/ (\E f \in setup.floors : Retain(f)) \/ (\E m \in MsgIDs : Expire(m)) \/ Persist
    BY ZenonT(30) DEF Next, Subscribe, Redeliver, SweepStep
  <2>2. QED
    BY SMTT(30), <1>1, <1>2, <1>3, <1>4, <1>5, <1>6, <2>1 DEF Dying

\* No goroutine moves on.
Stays ==
    \A k \in Subs : Running(k)' /\ sub'[k].pc # "start" =>
        /\ Running(k) /\ sub[k].pc # "start" /\ sub'[k].next = sub[k].next
        /\ sub[k].pc \in {"parked", "insert"} => sub'[k].pc \in {"parked", "insert"}

\* Nothing is lost, and no goroutine moves on.
Steady ==
    /\ setup' = setup
    /\ floor' \in Nat /\ floor <= floor'
    /\ "dlq" \notin setup.faults => Accounted \subseteq Accounted'
    /\ Stays

LEMMA PositionsSteady ==
  ASSUME Types, Positions, Steady
  PROVE  Positions'
<1> SUFFICES ASSUME "dlq" \notin setup'.faults, NEW n \in Subs, Running(n)', sub'[n].pc # "start",
                    NEW m \in floor'..(sub'[n].next - 1)
             PROVE  m \in Accounted' \/ (m = InHand(n)' /\ sub'[n].pc \in {"parked", "insert"})
  BY ZenonT(30) DEF Positions
<1>1. /\ Running(n) /\ sub[n].pc # "start" /\ sub'[n].next = sub[n].next
      /\ sub[n].pc \in {"parked", "insert"} => sub'[n].pc \in {"parked", "insert"}
      /\ "dlq" \notin setup.faults /\ Accounted \subseteq Accounted'
  BY ZenonT(30) DEF Steady, Stays
<1>2. m \in floor..(sub[n].next - 1)
  BY SMTT(30), <1>1 DEF Steady, Types, SubType
<1>3. m \in Accounted \/ (m = InHand(n) /\ sub[n].pc \in {"parked", "insert"})
  BY ZenonT(30), <1>1, <1>2 DEF Positions
<1>4. QED
  BY ZenonT(30), <1>1, <1>3 DEF InHand

\* Messages on their way to the dead-letter topic after a NACK.
Leaving == {nacking[s].msg : s \in {t \in Sessions : nacking[t].pc = "move"}}

LEMMA AroundAccounted ==
  ASSUME Types, Normal(offsets), Dying, "dlq" \notin setup.faults, Around
  PROVE  Accounted \subseteq Accounted'
<1>1. ASSUME NEW s \in Sessions, NEW m \in MsgIDs, Ack(s, m) PROVE Accounted \subseteq Accounted'
  <2>1. Covered(offsets') = Covered(offsets) \cup {m}
    BY ZenonT(30), <1>1, AckCovers DEF Ack, Types
  <2>2. DOMAIN inflight \subseteq DOMAIN inflight' \cup {m} /\ UNCHANGED <<sweep, nacking, dlq>>
    BY ZenonT(30), <1>1 DEF Ack, Without, procVars
  <2>3. QED
    BY ZenonT(30), <2>1, <2>2 DEF Accounted, Killed, Covered
<1>2. ASSUME NEW s \in Sessions, NEW m \in MsgIDs, Nack(s, m) PROVE Accounted \subseteq Accounted'
  <2>1. UNCHANGED <<sweep, dlq, offsets>> /\ nacking[s].pc = "no"
    BY ZenonT(30), <1>2 DEF Nack, Reading, histVars
  <2>2. DOMAIN inflight \subseteq DOMAIN inflight' \/ (DOMAIN inflight \subseteq DOMAIN inflight' \cup {m} /\ nacking'[s] = [pc |-> "move", msg |-> m])
    <3>1. CASE Dead(m)
      <4>1. inflight' = Without(inflight, {m}) /\ nacking' = [nacking EXCEPT ![s] = [pc |-> "move", msg |-> m]]
        BY ZenonT(30), <1>2, <3>1 DEF Nack
      <4>2. QED
        BY ZenonT(30), <4>1 DEF Without, Types
    <3>2. CASE ~Dead(m)
      BY ZenonT(30), <1>2, <3>2 DEF Nack, With
    <3>3. QED
      BY ZenonT(30), <3>1, <3>2
  <2>3. \A t \in Sessions : t # s => nacking'[t] = nacking[t]
    BY ZenonT(30), <1>2 DEF Nack, Types
  <2>4. Leaving \subseteq Leaving'
    BY ZenonT(30), <2>1, <2>3 DEF Leaving
  <2>5. nacking'[s] = [pc |-> "move", msg |-> m] => m \in Leaving'
    BY DEF Leaving
  <2>6. Covered(offsets') = Covered(offsets)
    BY ZenonT(30), <2>1 DEF Covered
  <2>7. QED
    BY ZenonT(30), <2>1, <2>2, <2>4, <2>5, <2>6 DEF Accounted, Killed, Leaving
<1>3. ASSUME NEW s \in Sessions, NackPush(s) \/ NackMove(s) PROVE Accounted \subseteq Accounted'
  <2>1. UNCHANGED <<inflight, sweep, offsets>> /\ dlq \subseteq dlq'
    BY ZenonT(30), <1>3 DEF NackPush, NackMove, DlqMove, Moved, conVars, histVars
  <2>2. nacking[s].pc = "move" => nacking[s].msg \in dlq'
    BY ZenonT(30), <1>3 DEF NackPush, NackMove, DlqMove, Moved
  <2>3. \A t \in Sessions : t # s => nacking'[t] = nacking[t]
    BY ZenonT(30), <1>3 DEF NackPush, NackMove, Types
  <2>4. Leaving \subseteq Leaving' \cup dlq'
    BY ZenonT(30), <2>2, <2>3 DEF Leaving
  <2>5. Covered(offsets') = Covered(offsets)
    BY ZenonT(30), <2>1 DEF Covered
  <2>6. QED
    BY ZenonT(30), <2>1, <2>4, <2>5 DEF Accounted, Killed, Leaving
<1>4. CASE SweepCollect
  <2>1. UNCHANGED <<nacking, dlq, offsets>> /\ sweep.dead = {}
    BY ZenonT(30), <1>4 DEF SweepCollect, Dying, histVars
  <2>2. DOMAIN inflight \subseteq DOMAIN inflight' \cup sweep'.dead
    BY <1>4 DEF SweepCollect
  <2>3. QED
    BY ZenonT(30), <2>1, <2>2 DEF Accounted, Killed, Covered
<1>5. ASSUME NEW m \in MsgIDs, SweepPush(m) \/ SweepMove(m) PROVE Accounted \subseteq Accounted'
  <2>1. UNCHANGED <<inflight, nacking, offsets>> /\ dlq \subseteq dlq'
    BY ZenonT(30), <1>5 DEF SweepPush, SweepMove, DlqMove, Moved, conVars, histVars
  <2>2. sweep.dead \subseteq sweep'.dead \cup dlq'
    <3>1. CASE SweepPush(m)
      BY ZenonT(30), <3>1 DEF SweepPush, Types, SweepType
    <3>2. CASE SweepMove(m)
      <4>1. dlq' = dlq \cup {m} /\ sweep' = [sweep EXCEPT !.dead = @ \ {m}]
        BY ZenonT(30), <3>2 DEF SweepMove, DlqMove, Moved
      <4>2. QED
        BY ZenonT(30), <4>1 DEF Types, SweepType
    <3>3. QED
      BY ZenonT(30), <1>5, <3>1, <3>2
  <2>3. QED
    BY ZenonT(30), <2>1, <2>2 DEF Accounted, Killed, Covered
<1>6. CASE SweepEnd
  <2>1. UNCHANGED <<inflight, nacking, offsets, dlq>> /\ sweep.dead = {}
    BY ZenonT(30), <1>6 DEF SweepEnd, conVars, histVars
  <2>2. QED
    BY ZenonT(30), <2>1 DEF Accounted, Killed, Covered
<1>7. ASSUME NEW m \in MsgIDs, Expire(m) PROVE Accounted \subseteq Accounted'
  <2>1. UNCHANGED <<nacking, offsets, dlq, sweep>> /\ DOMAIN inflight' = DOMAIN inflight
    BY ZenonT(30), <1>7 DEF Expire, procVars, histVars
  <2>2. QED
    BY ZenonT(30), <2>1 DEF Accounted, Killed, Covered
<1>8. CASE \/ \E s \in Sessions : Write(s) \/ Pause(s) \/ Resume(s) \/ ResumeSignal(s)
           \/ PersistClear \/ PersistSnapshot \/ PersistWrite
           \/ Publish \/ \E f \in setup.floors : Retain(f)
  <2>1. UNCHANGED <<inflight, nacking, offsets, dlq, sweep>>
    BY <1>8 DEF Write, Pause, Resume, ResumeSignal, PersistClear, PersistSnapshot, PersistWrite,
                Publish, Retain, conVars, procVars, histVars
  <2>2. QED
    BY SMTT(30), <2>1 DEF Accounted, Killed, Covered
<1>9. QED
  BY ZenonT(30), <1>1, <1>2, <1>3, <1>4, <1>5, <1>6, <1>7, <1>8 DEF Around

LEMMA AroundPositions ==
  ASSUME Types, Types', Normal(offsets), Dying, Positions, setup' = setup, Around
  PROVE  Positions'
<1>1. floor <= floor'
  <2>1. CASE \E f \in setup.floors : Retain(f)
    BY SMTT(30), <2>1 DEF Retain, Types
  <2>2. CASE ~\E f \in setup.floors : Retain(f)
    <3>1. floor' = floor
      BY ZenonT(30), <2>2 DEF Around, Publish, Write, NackPush, NackMove, Pause, Resume, ResumeSignal, Ack, Nack, Expire,
                  SweepPush, SweepMove, SweepCollect, SweepEnd, PersistClear, PersistSnapshot, PersistWrite
    <3>2. QED
      BY SMTT(30), <3>1 DEF Types
  <2>3. QED
    BY ZenonT(30), <2>1, <2>2
<1>2. Stays
  BY ZenonT(30), AroundSubs DEF Stays, Running
<1>3. floor' \in Nat
  BY DeliveryAssumption DEF Types
<1>4. "dlq" \notin setup.faults => Accounted \subseteq Accounted'
  BY ZenonT(30), AroundAccounted
<1>5. QED
  BY ZenonT(30), <1>1, <1>2, <1>3, <1>4, PositionsSteady DEF Steady

\* Steps that touch neither the messages nor the floor.
Untouched == UNCHANGED <<setup, floor, offsets, inflight, sweep, nacking, dlq>>

LEMMA UntouchedAccounted ==
  ASSUME Untouched
  PROVE  Accounted' = Accounted
BY ZenonT(30) DEF Untouched, Accounted, Killed, Covered

LEMMA UntouchedPositions ==
  ASSUME Types, Positions, Untouched, Stays
  PROVE  Positions'
<1>1. setup' = setup /\ floor' \in Nat /\ floor <= floor'
  BY DeliveryAssumption DEF Types, Untouched
<1>2. QED
  BY ZenonT(30), <1>1, UntouchedAccounted, PositionsSteady DEF Steady

LEMMA DeliverPositions ==
  ASSUME Types, Types', Hands, Exclusive, Normal(offsets), Positions, setup' = setup, NEW n \in Subs, Deliver(n)
  PROVE  Positions'
<1>1. \A k \in Subs : k # n => ~Running(k)'
  BY ZenonT(30), GoroutineMoves DEF Moves, Exclusive, Running
<1>2. CASE Start(n)
  <2>1. Untouched
    BY ZenonT(30), <1>2 DEF Start, Local, Untouched, conVars, histVars
  <2>2. sub'[n].pc = "open" => ~OutOfRange /\ sub'[n].next = StartID
    BY SMTT(30), <1>2 DEF Start, Local, Types, SubType
  <2>3. \A m \in floor..(StartID - 1) : m \in Covered(offsets)
    BY DeliveryAssumption DEF StartID, Covered, Types, OffsetsType, Normal, MsgIDs
  <2>4. sub'[n].pc \in {"open", "done"}
    BY <1>2 DEF Start, Local, Types, SubType
  <2>5. QED
    BY ZenonT(30), <1>1, <2>1, <2>2, <2>3, <2>4, UntouchedAccounted DEF Positions, Untouched, Accounted, Running
<1>3. CASE OpenReader(n) \/ Credit(n) \/ Wake(n) \/ Stop(n) \/ ReadFails(n) \/ Visible(n) \/ Send(n)
  <2>1. Untouched
    BY ZenonT(30), <1>3 DEF OpenReader, Credit, Wake, Stop, ReadFails, Visible, Send, Local, Untouched, conVars, histVars
  <2>2. /\ Running(n) /\ sub[n].pc # "start" /\ sub'[n].next = sub[n].next
        /\ Running(n)' /\ sub[n].pc \in {"parked", "insert"} => sub'[n].pc \in {"parked", "insert"}
    <3> USE DEF Local, Types, SubType, Running
    <3>1. CASE OpenReader(n) \/ Credit(n) \/ Wake(n)
      BY SMTT(30), <3>1 DEF OpenReader, Credit, Wake
    <3>2. CASE Stop(n) \/ ReadFails(n) \/ Visible(n) \/ Send(n)
      BY SMTT(30), <3>2 DEF Stop, ReadFails, Visible, Send
    <3>3. QED
      BY ZenonT(30), <1>3, <3>1, <3>2
  <2>3. Stays
    BY ZenonT(30), <1>1, <2>2 DEF Stays
  <2>4. QED
    BY ZenonT(30), <2>1, <2>3, UntouchedPositions
<1>4. CASE Read(n)
  <2>1. Untouched
    BY ZenonT(30), <1>4 DEF Read, Untouched, conVars, histVars
  <2>2. /\ sub[n].pc = "read" /\ sub[n].next \in Nat
        /\ sub'[n].next = sub[n].next + 1 /\ sub'[n].pc \in {"parked", "insert"}
    BY SMTT(30), <1>4 DEF Read, Types, SubType
  <2>3. "dlq" \notin setup.faults => \A m \in floor..(sub[n].next - 1) : m \in Accounted
    BY ZenonT(30), <2>2 DEF Positions, Running
  <2>4. \A m \in floor'..(sub'[n].next - 1) : m \in floor..(sub[n].next - 1) \/ m = sub'[n].next - 1
    BY SMTT(30), <2>1, <2>2 DEF Untouched, Types
  <2>5. QED
    BY ZenonT(30), <1>1, <2>1, <2>2, <2>3, <2>4, UntouchedAccounted DEF Positions, Untouched, InHand
<1>5. CASE Insert(n)
  <2>1. UNCHANGED <<setup, floor, offsets, sweep, nacking, dlq>> /\ DOMAIN inflight' = DOMAIN inflight \cup {InHand(n)}
    BY ZenonT(30), <1>5 DEF Insert, With, histVars
  <2>2. Accounted' = Accounted \cup {InHand(n)}
    BY <2>1 DEF Accounted, Killed, Covered
  <2>3. sub[n].pc = "insert" /\ sub'[n].next = sub[n].next
    BY SMTT(30), <1>5 DEF Insert, Types, SubType
  <2>4. "dlq" \notin setup.faults => \A m \in floor..(sub[n].next - 1) : m \in Accounted'
    BY ZenonT(30), <2>2, <2>3 DEF Positions, Running
  <2>5. QED
    BY <1>1, <2>1, <2>3, <2>4 DEF Positions
<1>6. CASE Rollback(n)
  <2>1. ~Running(n)'
    BY <1>6 DEF Rollback, Types, SubType, Running
  <2>2. QED
    BY <1>1, <2>1 DEF Positions
<1>7. QED
  BY ZenonT(30), <1>2, <1>3, <1>4, <1>5, <1>6 DEF Deliver

LEMMA PositionsKept ==
  ASSUME Types, Types', Hands, TakeOvers, Normal(offsets), Dying, Positions, Next
  PROVE  Positions'
<1>0. setup' = setup
  BY ZenonT(30), NextCases
<1>1. CASE Around
  BY ZenonT(30), <1>0, <1>1, AroundPositions
<1>2. ASSUME NEW n \in Subs, Deliver(n) PROVE Positions'
  BY ZenonT(30), <1>0, <1>2, DeliverPositions, OneAtATime
<1>3. CASE Crash
  BY ZenonT(30), <1>3, CrashClears DEF Positions, Running
<1>4. CASE \/ \E s \in Sessions, n \in Subs : SubCommand(s, n)
           \/ \E s \in Sessions : Disconnect(s)
           \/ \E n \in Subs : Detach(n)
  <2>1. Untouched
    BY ZenonT(30), <1>0, <1>4 DEF SubCommand, Disconnect, Detach, Untouched, conVars, histVars
  <2>2. Stays
    BY <1>4, ReaderPrepares DEF Prepares, Stays, Running
  <2>3. QED
    BY ZenonT(30), <2>1, <2>2, UntouchedPositions
<1>5. ASSUME NEW n \in Subs, Swap(n) \/ Spawn(n) PROVE Positions'
  <2>1. Untouched
    BY ZenonT(30), <1>0, <1>5 DEF Swap, Spawn, Untouched, conVars, histVars
  <2>2. sub'[n].pc \in {"swapped", "start"} /\ \A k \in Subs : k # n => sub'[k] = sub[k]
    BY SMTT(30), <1>5 DEF Swap, Spawn, Types, SubType
  <2>3. Stays
    BY ZenonT(30), <2>2 DEF Stays, Running
  <2>4. QED
    BY ZenonT(30), <2>1, <2>3, UntouchedPositions
<1>6. QED
  BY ZenonT(30), <1>1, <1>2, <1>3, <1>4, <1>5, NextCases

----------------------------------------------------------------------------
(* The theorems. *)

LEMMA InitInv == Init => DeliveryInv
<1> SUFFICES ASSUME Init PROVE DeliveryInv
  BY ZenonT(30)
<1>1. /\ inflight = NoInflight /\ offsets = NoOffsets /\ disk = NoOffsets /\ cur = NoSub /\ floor = 0 /\ head = 0
      /\ sub = [n \in Subs |-> NewSub] /\ sweep = NoSweep /\ persist = NoPersist
      /\ nacking = [s \in Sessions |-> NoNack] /\ setup \in Setups /\ acked = {} /\ dirty = FALSE
  BY ZenonT(30) DEF Init
<1>2. \A n \in Subs : sub[n].pc = "unused"
  BY ZenonT(30), <1>1 DEF NewSub
<1>3. Types
  BY SMTT(30), <1>1, FreshTypes, DeliveryAssumption DEF Types, NoPersist, NoNack
<1>4. Hands /\ Admitted /\ NoLostWakeup /\ Positions
  BY ZenonT(30), <1>2 DEF Hands, Admitted, NoLostWakeup, Positions, Running
<1>5. TakeOvers
  <2>1. OrderedBy([k \in Subs |-> {}])
    BY ZenonT(30), <1>1, <1>2 DEF OrderedBy, Swapped, SwappedPC, StartedPC
  <2>2. QED
    BY ZenonT(30), <2>1 DEF TakeOvers
<1>6. WindowBound
  BY SMTT(30), <1>1, <1>3, FreshTypes, FS_EmptySet, InflightFinite DEF WindowBound
<1>7. Saved /\ OffsetsPersisted
  BY ZenonT(30), <1>1, NothingCovered DEF Saved, OffsetsPersisted, NoPersist
<1>8. Dying
  BY ZenonT(30), <1>1 DEF Dying, NoSweep
<1>9. QED
  BY ZenonT(30), <1>3, <1>4, <1>5, <1>6, <1>7, <1>8 DEF DeliveryInv

LEMMA NextInv == DeliveryInv /\ [Next]_vars => DeliveryInv' /\ Covered(disk) \subseteq Covered(disk')
<1>1. ASSUME DeliveryInv, Next PROVE DeliveryInv' /\ Covered(disk) \subseteq Covered(disk')
  <2>1. Types /\ Hands /\ TakeOvers /\ Admitted /\ WindowBound /\ NoLostWakeup /\ Dying /\ Positions
    BY ZenonT(30), <1>1 DEF DeliveryInv
  <2>2. Saved /\ OffsetsPersisted /\ Normal(offsets)
    BY ZenonT(30), <1>1 DEF DeliveryInv, Saved
  <2>3. Types' /\ Hands'
    BY ZenonT(30), <1>1, <2>1, <2>2, TypesKept
  <2>4. TakeOvers'
    BY ZenonT(30), <1>1, <2>1, <2>3, OrderKept
  <2>5. Admitted' /\ WindowBound'
    BY ZenonT(30), <1>1, <2>1, WindowKept
  <2>6. NoLostWakeup'
    BY ZenonT(30), <1>1, <2>1, WakeUpsKept
  <2>7. Saved' /\ OffsetsPersisted' /\ Covered(disk) \subseteq Covered(disk')
    BY ZenonT(30), <1>1, <2>1, <2>2, SavedKept
  <2>8. Dying' /\ Positions'
    BY ZenonT(30), <1>1, <2>1, <2>2, <2>3, DyingKept, PositionsKept
  <2>9. QED
    BY ZenonT(30), <2>3, <2>4, <2>5, <2>6, <2>7, <2>8 DEF DeliveryInv
<1>2. ASSUME DeliveryInv, UNCHANGED vars PROVE DeliveryInv' /\ Covered(disk) \subseteq Covered(disk')
  <2>1. UNCHANGED <<setup, head, floor, offsets, inflight, cur, paused, wake, dirty, sub, resuming, sweep, nacking,
                    persist, disk, acked, dlq>>
    BY ZenonT(30), <1>2 DEF vars, state, conVars, procVars, histVars
  <2>2. Types' /\ Hands'
    BY ZenonT(30), <1>2, <2>1 DEF DeliveryInv, Types, Hands
  <2>3. TakeOvers'
    <3>1. PICK older \in [Subs -> SUBSET Subs] : OrderedBy(older)
      BY ZenonT(30), <1>2 DEF DeliveryInv, TakeOvers
    <3>2. OrderedBy(older)'
      BY ZenonT(30), <2>1, <3>1 DEF OrderedBy, Swapped, Started
    <3>3. QED
      BY ZenonT(30), <3>2 DEF TakeOvers
  <2>4. Admitted' /\ WindowBound' /\ NoLostWakeup'
    BY ZenonT(30), <1>2, <2>1 DEF DeliveryInv, Admitted, WindowBound, NoLostWakeup, Window, HasCredit
  <2>5. Saved' /\ OffsetsPersisted' /\ disk' = disk
    BY ZenonT(30), <1>2, <2>1, SavedUnsaved DEF DeliveryInv, Unsaved
  <2>6. Dying'
    BY ZenonT(30), <1>2, <2>1 DEF DeliveryInv, Dying
  <2>7. Positions'
    <3>1. Accounted' = Accounted
      BY ZenonT(30), <2>1, UntouchedAccounted DEF Untouched
    <3>2. QED
      BY ZenonT(30), <1>2, <2>1, <3>1 DEF DeliveryInv, Positions, Running, InHand
  <2>8. QED
    BY ZenonT(30), <2>2, <2>3, <2>4, <2>5, <2>6, <2>7 DEF DeliveryInv
<1>3. QED
  BY ZenonT(30), <1>1, <1>2

LEMMA DeliveryInvariant == Spec => []DeliveryInv
BY InitInv, NextInv, PTL DEF Spec

\* However SUBs of any number of connections take the consumer over from one another
\* (Partition.subscribe), at most one runDelivery of it runs at a time.
THEOREM OneGoroutine == Spec => []Exclusive
<1>1. DeliveryInv => Exclusive
  BY ZenonT(30), OneAtATime DEF DeliveryInv
<1>2. QED
  BY <1>1, DeliveryInvariant, PTL

\* The receive window holds: what awaitCredit saw is still true at the insertion.
THEOREM WindowHolds == Spec => []WindowBound
<1>1. DeliveryInv => WindowBound
  BY ZenonT(30) DEF DeliveryInv
<1>2. QED
  BY <1>1, DeliveryInvariant, PTL

\* The wake channel of capacity one loses no signal that a sleeping goroutine needs.
THEOREM WakeUpsArrive == Spec => []NoLostWakeup
<1>1. DeliveryInv => NoLostWakeup
  BY ZenonT(30) DEF DeliveryInv
<1>2. QED
  BY <1>1, DeliveryInvariant, PTL

\* Unless a move to the dead-letter topic fails, no retained message behind a delivery
\* goroutine is forgotten.
THEOREM NoGaps == Spec => []NothingSkipped
<1>1. DeliveryInv => NothingSkipped
  BY DEF DeliveryInv, Positions, Accounted, NothingSkipped
<1>2. QED
  BY <1>1, DeliveryInvariant, PTL

\* Offsets, in memory and on disk, cover only acknowledged messages, and delivery
\* resumes at the first message they do not cover.
THEOREM ResumesRight == Spec => []ResumePoint
<1>1. ASSUME DeliveryInv PROVE ResumePoint
  <2>1. Types /\ Saved /\ Normal(offsets)
    BY ZenonT(30), <1>1 DEF DeliveryInv, Saved
  <2>2. \A o \in {offsets, disk, persist.snap} : Covered(o) \subseteq acked
    BY ZenonT(30), <2>1 DEF Saved
  <2>3. floor = 0 => StartID \notin Covered(offsets)
    BY SMTT(30), <2>1, DeliveryAssumption DEF Types, Normal, StartID, Covered, OffsetsType, MsgIDs
  <2>4. \A m \in floor..(StartID - 1) : m \in Covered(offsets)
    BY <2>1, DeliveryAssumption DEF Types, Normal, StartID, Covered, OffsetsType, MsgIDs
  <2>5. QED
    BY ZenonT(30), <2>2, <2>3, <2>4 DEF ResumePoint
<1>2. QED
  BY <1>1, DeliveryInvariant, PTL

\* Where no flush of offsets.json fails, it says what memory says whenever nothing is
\* dirty and no flush is under way.
THEOREM OffsetsOnDisk == Spec => []OffsetsPersisted
<1>1. DeliveryInv => OffsetsPersisted
  BY ZenonT(30) DEF DeliveryInv
<1>2. QED
  BY <1>1, DeliveryInvariant, PTL

\* offsets.json never goes back, whatever flushes, failed writes and restarts do.
THEOREM DiskNeverForgets == Spec => DiskMonotonic
<1>1. DeliveryInv /\ [Next]_vars => [Covered(disk) \subseteq Covered(disk')]_vars
  BY ZenonT(30), NextInv
<1>2. QED
  BY <1>1, DeliveryInvariant, PTL DEF Spec, DiskMonotonic

----------------------------------------------------------------------------
(* Types, continued: what the proofs above do not need. *)

Slot == [attempts : Nat, expired : BOOLEAN]

Slots == \A m \in DOMAIN inflight : inflight[m] \in Slot

Flags == paused \in BOOLEAN /\ wake \in BOOLEAN /\ dirty \in BOOLEAN

Frames ==
    /\ chan \in [Sessions -> Seq(MsgIDs)]
    /\ \A s \in Sessions : Len(chan[s]) <= ChanCap

Ends ==
    /\ conn \in [Sessions -> {"new", "open", "closed"}]
    /\ resuming \subseteq Sessions
    /\ \A s \in Sessions : nacking[s].msg \in MsgIDs

History ==
    /\ writes \in [MsgIDs -> Nat]
    /\ acked \subseteq MsgIDs /\ dlq \subseteq MsgIDs /\ pausers \subseteq Sessions
    /\ crashes \in 0..MaxCrashes

RestTypes == Slots /\ Flags /\ Frames /\ Ends /\ History

LEMMA RestType == Types /\ RestTypes => TypeOK
<1> SUFFICES ASSUME Types, RestTypes PROVE TypeOK
  BY ZenonT(30)
<1>1. ASSUME NEW s \in Sessions PROVE nacking[s] \in [pc : {"no", "push", "move"}, msg : MsgIDs]
  BY SMTT(30) DEF Types, RestTypes, Ends
<1>2. nacking \in [Sessions -> [pc : {"no", "push", "move"}, msg : MsgIDs]]
  BY ZenonT(30), <1>1 DEF Types
<1>3. QED
  BY ZenonT(30), <1>2 DEF Types, SubType, SweepType, RestTypes, Slots, Slot, Flags, Frames, Ends, History, TypeOK

\* An entry leaves inflight, or is put in.
LEMMA SlotsEdited ==
  ASSUME Slots, \/ \E S : inflight' = Without(inflight, S)
                \/ \E m : \E a \in Nat : inflight' = With(inflight, m, Fresh(a))
  PROVE  Slots'
<1>1. \A a \in Nat : Fresh(a) \in Slot
  BY SMTT(30) DEF Fresh, Slot
<1>2. ASSUME NEW S, inflight' = Without(inflight, S) PROVE Slots'
  BY ZenonT(30), <1>2 DEF Without, Slots
<1>3. ASSUME NEW m, NEW a \in Nat, inflight' = With(inflight, m, Fresh(a)) PROVE Slots'
  <2>1. PICK v \in Slot : inflight' = With(inflight, m, v)
    BY ZenonT(30), <1>1, <1>3
  <2>2. DOMAIN inflight' = DOMAIN inflight \cup {m}
    BY ZenonT(30), <2>1 DEF With
  <2>3. \A k \in DOMAIN inflight' : inflight'[k] = v \/ (k \in DOMAIN inflight /\ inflight'[k] = inflight[k])
    BY ZenonT(30), <2>1 DEF With
  <2>4. QED
    BY ZenonT(30), <2>3 DEF Slots
<1>4. QED
  BY ZenonT(30), <1>2, <1>3

LEMMA BumpType ==
  ASSUME Types, Slots, NEW m \in DOMAIN inflight
  PROVE  Bump(inflight[m].attempts) \in Nat
<1>1. inflight[m].attempts \in Nat /\ Threshold \in Nat
  BY SMTT(30), DeliveryAssumption DEF Slots, Slot, Types, Threshold, SetupType
<1>2. QED
  BY <1>1 DEF Bump

\* A frame is queued only where there is room for it.
LEMMA FramesQueued ==
  ASSUME Types, Frames, setup' = setup, NEW s \in Sessions, NEW m \in MsgIDs, Room(s),
         chan' = [chan EXCEPT ![s] = Append(@, m)]
  PROVE  Frames'
<1>1. PICK q, c : q = chan[s] /\ c = ChanCap
  BY ZenonT(30)
<1>2. q \in Seq(MsgIDs) /\ c \in Nat /\ Len(q) < c
  BY ZenonT(30), <1>1, DeliveryAssumption DEF Frames, Types, ChanCap, SetupType, Room
<1>3. Append(q, m) \in Seq(MsgIDs) /\ Len(Append(q, m)) <= c
  BY ONLY SMTT(30), <1>2, m \in MsgIDs
<1>4. chan' = [chan EXCEPT ![s] = Append(q, m)] /\ ChanCap' = c
  BY ZenonT(30), <1>1 DEF ChanCap
<1>5. \A k \in Sessions : chan'[k] = IF k = s THEN Append(q, m) ELSE chan[k]
  BY ZenonT(30), <1>4 DEF Frames
<1>6. \A k \in Sessions : chan'[k] \in Seq(MsgIDs) /\ Len(chan'[k]) <= c
  BY ZenonT(30), <1>1, <1>3, <1>5 DEF Frames
<1>7. chan' \in [Sessions -> Seq(MsgIDs)]
  BY ZenonT(30), <1>3, <1>4 DEF Frames
<1>8. QED
  BY ZenonT(30), <1>4, <1>6, <1>7 DEF Frames

LEMMA FrameWritten ==
  ASSUME Types, Frames, History, setup' = setup, NEW s \in Sessions, Write(s)
  PROVE  Frames' /\ History'
<1>1. PICK q, c : q = chan[s] /\ c = ChanCap
  BY ZenonT(30)
<1>2. q \in Seq(MsgIDs) /\ c \in Nat /\ Len(q) <= c /\ q # << >>
  BY ZenonT(30), <1>1, DeliveryAssumption DEF Frames, Types, ChanCap, SetupType, Write
<1>3. Tail(q) \in Seq(MsgIDs) /\ Len(Tail(q)) <= c /\ Head(q) \in MsgIDs
  BY ONLY SMTT(30), <1>2
<1>4. chan' = [chan EXCEPT ![s] = Tail(q)] /\ ChanCap' = c
  BY ZenonT(30), <1>1 DEF ChanCap, Write
<1>5. \A k \in Sessions : chan'[k] = IF k = s THEN Tail(q) ELSE chan[k]
  BY ZenonT(30), <1>4 DEF Frames
<1>6. \A k \in Sessions : chan'[k] \in Seq(MsgIDs) /\ Len(chan'[k]) <= c
  BY ZenonT(30), <1>1, <1>3, <1>5 DEF Frames
<1>7. chan' \in [Sessions -> Seq(MsgIDs)]
  BY ZenonT(30), <1>3, <1>4 DEF Frames
<1>8. Frames'
  BY ZenonT(30), <1>4, <1>6, <1>7 DEF Frames
<1>9. PICK h \in MsgIDs : h = Head(q)
  BY ZenonT(30), <1>3
<1>10. writes' = [writes EXCEPT ![h] = IF @ = 0 \/ @ < Threshold THEN @ + 1 ELSE @]
  BY ZenonT(30), <1>1, <1>9 DEF Write
<1>11. writes' \in [MsgIDs -> Nat]
  BY SMTT(30), <1>10 DEF History
<1>12. QED
  BY ZenonT(30), <1>8, <1>11 DEF History, Write

----------------------------------------------------------------------------
LEMMA SubRest ==
  ASSUME Types, RestTypes, setup' = setup,
         \/ \E s \in Sessions, n \in Subs : SubCommand(s, n)
         \/ \E s \in Sessions : Disconnect(s)
         \/ \E n \in Subs : Swap(n) \/ Detach(n) \/ Spawn(n)
  PROVE  RestTypes'
<1>1. UNCHANGED <<inflight, paused, wake, dirty, chan, resuming, nacking, writes, acked, dlq, pausers, crashes>>
  BY ZenonT(30) DEF SubCommand, Disconnect, Swap, Detach, Spawn, conVars, histVars
<1>2. conn' \in [Sessions -> {"new", "open", "closed"}]
  BY ZenonT(30) DEF SubCommand, Disconnect, Swap, Detach, Spawn, RestTypes, Ends
<1>3. QED
  BY ZenonT(30), <1>1, <1>2 DEF RestTypes, Slots, Flags, Frames, Ends, History, ChanCap

LEMMA DeliverRest ==
  ASSUME Types, Hands, RestTypes, setup' = setup, NEW n \in Subs, Deliver(n)
  PROVE  RestTypes'
<1>1. UNCHANGED <<paused, dirty, conn, resuming, nacking, writes, acked, dlq, pausers, crashes>>
  BY ZenonT(30) DEF Deliver, Start, OpenReader, Credit, Wake, Stop, Read, ReadFails, Visible, Insert, Send, Rollback,
                    Local, conVars, histVars
<1>2. wake' \in BOOLEAN
  BY ZenonT(30) DEF RestTypes, Flags, Deliver, Start, OpenReader, Credit, Wake, Stop, Read, ReadFails, Visible, Insert,
                    Send, Rollback, Local, conVars
<1>3. Flags' /\ Ends' /\ History'
  BY ZenonT(30), <1>1, <1>2 DEF RestTypes, Flags, Ends, History
<1>4. Slots'
  <2>1. CASE Insert(n)
    <3>1. 1 \in Nat
      OBVIOUS
    <3>2. QED
      BY ZenonT(30), <2>1, <3>1, SlotsEdited DEF Insert, RestTypes
  <2>2. CASE Rollback(n)
    BY ZenonT(30), <2>2, SlotsEdited DEF Rollback, RestTypes
  <2>3. CASE UNCHANGED inflight
    BY ZenonT(30), <2>3 DEF RestTypes, Slots
  <2>4. QED
    BY ZenonT(30), <2>1, <2>2, <2>3
       DEF Deliver, Start, OpenReader, Credit, Wake, Stop, Read, ReadFails, Visible, Send, Local, conVars
<1>5. Frames'
  <2>1. CASE Send(n)
    <3>1. sub[n].conn \in Sessions /\ sub[n].next \in 0..MaxMsgs /\ sub[n].next > 0
      BY ZenonT(30), <2>1 DEF Types, SubType, Hands, Send
    <3>2. InHand(n) \in MsgIDs
      BY <3>1, DeliveryAssumption DEF InHand, MsgIDs
    <3>3. QED
      BY ZenonT(30), <2>1, <3>1, <3>2, FramesQueued DEF Send, RestTypes
  <2>2. CASE UNCHANGED chan
    BY ZenonT(30), <2>2 DEF RestTypes, Frames, ChanCap
  <2>3. QED
    BY ZenonT(30), <2>1, <2>2
       DEF Deliver, Start, OpenReader, Credit, Wake, Stop, Read, ReadFails, Visible, Insert, Rollback, Local
<1>6. QED
  BY ZenonT(30), <1>3, <1>4, <1>5 DEF RestTypes

LEMMA FrameRest ==
  ASSUME Types, RestTypes, setup' = setup, NEW s \in Sessions,
         \/ Write(s) \/ NackPush(s) \/ NackMove(s)
         \/ Pause(s) \/ Resume(s) \/ ResumeSignal(s)
         \/ \E m \in MsgIDs : Ack(s, m) \/ Nack(s, m)
  PROVE  RestTypes'
<1> USE DEF RestTypes, conVars, procVars, histVars
<1>0. /\ UNCHANGED chan => Frames'
      /\ UNCHANGED inflight => Slots'
      /\ UNCHANGED <<paused, wake, dirty>> => Flags'
      /\ UNCHANGED <<conn, resuming, nacking>> => Ends'
      /\ UNCHANGED <<writes, acked, dlq, pausers, crashes>> => History'
  BY ZenonT(30) DEF Slots, Flags, Frames, Ends, History, ChanCap
<1>1. NoNack.msg \in MsgIDs
  <2>1. NoNack.msg = 0
    BY ZenonT(30) DEF NoNack
  <2>2. QED
    BY <2>1, DeliveryAssumption DEF MsgIDs
<1>2. ASSUME NEW v, v.msg \in MsgIDs, nacking' = [nacking EXCEPT ![s] = v], UNCHANGED <<conn, resuming>> PROVE Ends'
  BY ZenonT(30), <1>2 DEF Ends, Types
<1>3. CASE Write(s)
  <2>1. UNCHANGED <<inflight, paused, wake, dirty, conn, resuming, nacking>>
    BY ZenonT(30), <1>3 DEF Write
  <2>2. QED
    BY ZenonT(30), <1>0, <1>3, <2>1, FrameWritten
<1>4. CASE NackPush(s)
  <2>1. UNCHANGED <<inflight, paused, wake, dirty, conn, resuming, writes, acked, dlq, pausers, crashes>>
    BY ZenonT(30), <1>4 DEF NackPush
  <2>2. Ends'
    BY ZenonT(30), <1>1, <1>2, <1>4, <2>1 DEF NackPush
  <2>3. nacking[s].msg \in MsgIDs
    BY ZenonT(30) DEF Ends
  <2>4. Frames'
    BY ZenonT(30), <1>0, <1>4, <2>3, FramesQueued DEF NackPush
  <2>5. QED
    BY ZenonT(30), <1>0, <2>1, <2>2, <2>4
<1>5. CASE NackMove(s)
  <2>1. UNCHANGED <<inflight, paused, wake, dirty, conn, chan, resuming, writes, acked, pausers, crashes>>
    BY ZenonT(30), <1>5 DEF NackMove
  <2>2. Ends'
    BY ZenonT(30), <1>1, <1>2, <1>5, <2>1 DEF NackMove
  <2>3. nacking[s].msg \in MsgIDs
    BY ZenonT(30) DEF Ends
  <2>4. History'
    BY ZenonT(30), <1>5, <2>1, <2>3 DEF NackMove, DlqMove, Moved, History
  <2>5. QED
    BY ZenonT(30), <1>0, <2>1, <2>2, <2>4
<1>6. CASE Pause(s) \/ Resume(s) \/ ResumeSignal(s)
  <2>1. UNCHANGED <<inflight, dirty, conn, chan, nacking, writes, acked, dlq, crashes>>
    BY ZenonT(30), <1>6 DEF Pause, Resume, ResumeSignal
  <2>2. paused' \in BOOLEAN /\ wake' \in BOOLEAN
    BY ZenonT(30), <1>6 DEF Pause, Resume, ResumeSignal, ResumeWakes, Flags
  <2>3. pausers' \subseteq Sessions /\ resuming' \subseteq Sessions
    BY ZenonT(30), <1>6 DEF Pause, Resume, ResumeSignal, Ends, History
  <2>4. QED
    BY ZenonT(30), <1>0, <2>1, <2>2, <2>3 DEF Flags, Ends, History
<1>7. ASSUME NEW m \in MsgIDs, Ack(s, m) PROVE RestTypes'
  <2>1. UNCHANGED <<paused, conn, chan, resuming, nacking, writes, dlq, pausers, crashes>>
    BY ZenonT(30), <1>7 DEF Ack
  <2>2. wake' \in BOOLEAN /\ dirty' \in BOOLEAN /\ acked' \subseteq MsgIDs
    BY ZenonT(30), <1>7 DEF Ack, AckWakes, History
  <2>3. Slots'
    BY ZenonT(30), <1>7, SlotsEdited DEF Ack
  <2>4. QED
    BY ZenonT(30), <1>0, <2>1, <2>2, <2>3 DEF Flags, History
<1>8. ASSUME NEW m \in MsgIDs, Nack(s, m) PROVE RestTypes'
  <2>1. UNCHANGED <<paused, conn, chan, resuming, writes, acked, dlq, pausers, crashes>>
    BY ZenonT(30), <1>8 DEF Nack
  <2>2. wake' \in BOOLEAN /\ dirty' \in BOOLEAN
    BY ZenonT(30), <1>8 DEF Nack, Flags
  <2>3. Slots'
    BY ZenonT(30), <1>8, BumpType, SlotsEdited DEF Nack
  <2>4. Ends'
    <3>1. PICK pc : nacking' = [nacking EXCEPT ![s] = [pc |-> pc, msg |-> m]]
      BY ZenonT(30), <1>8 DEF Nack
    <3>2. PICK v : v = [pc |-> pc, msg |-> m]
      BY ZenonT(30)
    <3>3. v.msg = m /\ nacking' = [nacking EXCEPT ![s] = v]
      BY ZenonT(30), <3>1, <3>2
    <3>4. QED
      BY ZenonT(30), <1>2, <2>1, <3>3
  <2>5. QED
    BY ZenonT(30), <1>0, <2>1, <2>2, <2>3, <2>4 DEF Flags
<1>9. QED
  BY ZenonT(30), <1>3, <1>4, <1>5, <1>6, <1>7, <1>8

LEMMA SweepRest ==
  ASSUME Types, RestTypes, setup' = setup,
         SweepCollect \/ \E m \in MsgIDs : Expire(m) \/ SweepPush(m) \/ SweepMove(m)
  PROVE  RestTypes'
<1> USE DEF RestTypes, conVars, procVars, histVars
<1>0. /\ UNCHANGED chan => Frames'
      /\ UNCHANGED inflight => Slots'
      /\ UNCHANGED <<paused, wake, dirty>> => Flags'
      /\ UNCHANGED <<conn, resuming, nacking>> => Ends'
      /\ UNCHANGED <<writes, acked, dlq, pausers, crashes>> => History'
  BY ZenonT(30) DEF Slots, Flags, Frames, Ends, History, ChanCap
<1>1. ASSUME NEW m \in MsgIDs, Expire(m) PROVE RestTypes'
  <2>1. UNCHANGED <<paused, wake, dirty, conn, chan, resuming, nacking, writes, acked, dlq, pausers, crashes>>
    BY ZenonT(30), <1>1 DEF Expire
  <2>2. Slots'
    <3>1. m \in DOMAIN inflight /\ inflight' = [inflight EXCEPT ![m].expired = TRUE]
      BY ZenonT(30), <1>1 DEF Expire
    <3>2. PICK v : v = [inflight[m] EXCEPT !.expired = TRUE]
      BY ZenonT(30)
    <3>3. v \in Slot
      BY ZenonT(30), <3>1, <3>2 DEF Slots, Slot
    <3>4. /\ DOMAIN inflight' = DOMAIN inflight
          /\ \A k \in DOMAIN inflight : inflight'[k] = v \/ inflight'[k] = inflight[k]
      BY ZenonT(30), <3>1, <3>2
    <3>5. QED
      BY ZenonT(30), <3>3, <3>4 DEF Slots
  <2>3. QED
    BY ZenonT(30), <1>0, <2>1, <2>2
<1>2. ASSUME NEW m \in MsgIDs, SweepPush(m) PROVE RestTypes'
  <2>1. UNCHANGED <<inflight, paused, wake, dirty, conn, resuming, nacking, writes, acked, dlq, pausers, crashes>>
    BY ZenonT(30), <1>2 DEF SweepPush
  <2>2. sweep.to \in Sessions
    BY ZenonT(30) DEF Types, SweepType
  <2>3. Frames'
    BY ZenonT(30), <1>0, <1>2, <2>2, FramesQueued DEF SweepPush
  <2>4. QED
    BY ZenonT(30), <1>0, <2>1, <2>3
<1>3. ASSUME NEW m \in MsgIDs, SweepMove(m) PROVE RestTypes'
  <2>1. UNCHANGED <<inflight, paused, wake, dirty, conn, chan, resuming, nacking, writes, acked, pausers, crashes>>
    BY ZenonT(30), <1>3 DEF SweepMove
  <2>2. History'
    BY ZenonT(30), <1>3, <2>1 DEF SweepMove, DlqMove, Moved, History
  <2>3. QED
    BY ZenonT(30), <1>0, <2>1, <2>2
<1>4. CASE SweepCollect
  <2>1. UNCHANGED <<paused, conn, chan, resuming, nacking, writes, acked, dlq, pausers, crashes>>
    BY ZenonT(30), <1>4 DEF SweepCollect
  <2>2. dirty' \in BOOLEAN /\ wake' \in BOOLEAN
    BY ZenonT(30), <1>4 DEF SweepCollect, KillWakes
  <2>3. Slots'
    <3>1. PICK dead : inflight' = [m \in DOMAIN inflight \ dead |->
                                     IF m \in Expired THEN Fresh(Bump(inflight[m].attempts)) ELSE inflight[m]]
      BY ZenonT(30), <1>4 DEF SweepCollect
    <3>2. \A m \in DOMAIN inflight : Fresh(Bump(inflight[m].attempts)) \in Slot
      <4>1. ASSUME NEW m \in DOMAIN inflight PROVE Fresh(Bump(inflight[m].attempts)) \in Slot
        <5>1. PICK a \in Nat : a = Bump(inflight[m].attempts)
          BY ZenonT(30), BumpType
        <5>2. Fresh(a) \in Slot
          BY SMTT(30) DEF Fresh, Slot
        <5>3. QED
          BY ZenonT(30), <5>1, <5>2
      <4>2. QED
        BY ZenonT(30), <4>1
    <3>3. QED
      BY ZenonT(30), <3>1, <3>2 DEF Slots
  <2>4. QED
    BY ZenonT(30), <1>0, <2>1, <2>2, <2>3 DEF Flags
<1>5. QED
  BY ZenonT(30), <1>1, <1>2, <1>3, <1>4

LEMMA LoopRest ==
  ASSUME Types, RestTypes, setup' = setup,
         \/ Publish \/ (\E f \in setup.floors : Retain(f))
         \/ SweepEnd \/ PersistClear \/ PersistSnapshot \/ PersistWrite
  PROVE  RestTypes'
<1>1. UNCHANGED <<inflight, paused, wake, conn, chan, resuming, nacking, writes, acked, dlq, pausers, crashes>>
  BY ZenonT(30) DEF Publish, Retain, SweepEnd, PersistClear, PersistSnapshot, PersistWrite, conVars, procVars, histVars
<1>2. dirty' \in BOOLEAN
  BY ZenonT(30) DEF RestTypes, Flags, Publish, Retain, SweepEnd, PersistClear, PersistSnapshot, PersistWrite, DirtyAtEnd,
                    conVars
<1>3. QED
  BY ZenonT(30), <1>1, <1>2 DEF RestTypes, Slots, Flags, Frames, Ends, History, ChanCap

LEMMA CrashRest ==
  ASSUME Types, RestTypes, setup' = setup, Crash
  PROVE  RestTypes'
<1>1. Slots' /\ Flags'
  BY ZenonT(30), CrashClears DEF Crash, Slots, Flags
<1>2. Frames'
  <2>1. << >> \in Seq(MsgIDs) /\ Len(<< >>) = 0
    OBVIOUS
  <2>2. ChanCap' \in Nat
    BY ZenonT(30), DeliveryAssumption DEF Types, ChanCap, SetupType
  <2>3. 0 <= ChanCap'
    BY <2>2
  <2>4. QED
    BY ZenonT(30), <2>1, <2>3 DEF Crash, Frames
<1>3. Ends'
  <2>1. 0 \in MsgIDs
    BY DeliveryAssumption DEF MsgIDs
  <2>2. NoNack.msg = 0
    BY ZenonT(30) DEF NoNack
  <2>3. QED
    BY ZenonT(30), <2>1, <2>2 DEF Crash, Ends, RestTypes
<1>4. History'
  <2>1. setup.crashes \in 0..MaxCrashes /\ crashes \in 0..MaxCrashes /\ crashes < setup.crashes /\ crashes' = crashes + 1
    BY ZenonT(30), DeliveryAssumption DEF Types, SetupType, Crash, RestTypes, History
  <2>2. crashes' \in 0..MaxCrashes
    BY <2>1, DeliveryAssumption
  <2>3. QED
    BY ZenonT(30), <2>2 DEF Crash, History, RestTypes
<1>5. QED
  BY ZenonT(30), <1>1, <1>2, <1>3, <1>4 DEF RestTypes

LEMMA RestInit == Init => RestTypes
<1> SUFFICES ASSUME Init PROVE RestTypes
  BY ZenonT(30)
<1>1. Slots /\ Flags
  BY ZenonT(30) DEF Init, Slots, Flags, NoInflight
<1>2. Frames
  <2>1. << >> \in Seq(MsgIDs) /\ Len(<< >>) = 0
    OBVIOUS
  <2>2. ChanCap \in Nat
    BY ZenonT(30), DeliveryAssumption DEF Init, ChanCap, SetupType
  <2>3. 0 <= ChanCap
    BY <2>2
  <2>4. QED
    BY ZenonT(30), <2>1, <2>3 DEF Init, Frames
<1>3. Ends
  <2>1. 0 \in MsgIDs
    BY DeliveryAssumption DEF MsgIDs
  <2>2. NoNack.msg = 0
    BY ZenonT(30) DEF NoNack
  <2>3. QED
    BY ZenonT(30), <2>1, <2>2 DEF Init, Ends
<1>4. History
  <2>1. 0 \in 0..MaxCrashes /\ 0 \in Nat
    BY DeliveryAssumption
  <2>2. QED
    BY ZenonT(30), <2>1 DEF Init, History
<1>5. QED
  BY ZenonT(30), <1>1, <1>2, <1>3, <1>4 DEF RestTypes

\* Every variable keeps its type; no sendCh holds more than its capacity, though the
\* delivery goroutine, NACK and the sweep all send to it.
THEOREM DeliveryTypes == Spec => []TypeOK
<1>1. DeliveryInv /\ RestTypes /\ [Next]_vars => RestTypes'
  <2> SUFFICES ASSUME DeliveryInv, RestTypes, [Next]_vars PROVE RestTypes'
    BY ZenonT(30)
  <2>1. Types /\ Hands
    BY ZenonT(30) DEF DeliveryInv
  <2>2. CASE Next
    BY ZenonT(30), <2>1, <2>2, NextCases, SubRest, DeliverRest, FrameRest, SweepRest, LoopRest, CrashRest DEF Around
  <2>3. CASE UNCHANGED vars
    <3>1. UNCHANGED <<setup, inflight, paused, wake, dirty, conn, chan, resuming, nacking, writes, acked, dlq, pausers, crashes>>
      BY ZenonT(30), <2>3 DEF vars, state, conVars, procVars, histVars
    <3>2. QED
      BY ZenonT(30), <3>1 DEF RestTypes, Slots, Flags, Frames, Ends, History, ChanCap
  <2>4. QED
    BY ZenonT(30), <2>2, <2>3
<1>2. DeliveryInv /\ RestTypes => TypeOK
  BY ZenonT(30), RestType DEF DeliveryInv
<1>3. QED
  BY <1>1, <1>2, RestInit, DeliveryInvariant, PTL DEF Spec

=============================================================================
