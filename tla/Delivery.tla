------------------------------ MODULE Delivery ------------------------------
(***************************************************************************)
(* One consumer of one partition: internal/broker's Consumer, Partition's  *)
(* subscribe and runDelivery, the redelivery sweep, the dead-letter move   *)
(* and offsets.json, with the sessions whose SUB, ACK, NACK, PAUSE and     *)
(* RESUME frames drive them.                                               *)
(*                                                                         *)
(* The actors are the sessions' readers and writers, one delivery          *)
(* goroutine per SUB, the sweep and the persist loop.  They meet at c.mu   *)
(* and at the sessions' sendCh; every critical section and every channel   *)
(* operation is a step.  The log is its length: committed records have     *)
(* MsgIDs 0..head - 1, and floor is the oldest one retained (module Wal).  *)
(* The clock is the set of inflight messages older than the visibility     *)
(* timeout.                                                                *)
(***************************************************************************)
EXTENDS Integers, Sequences, FiniteSets

CONSTANTS
    Sessions,      \* client connections
    Setups,        \* configurations and environments, see SetupType
    MaxMsgs,       \* bound: records published
    MaxSubs,       \* bound: SUB frames
    MaxCrashes     \* bound: process restarts

MsgIDs == 0..(MaxMsgs - 1)

Subs == 1..MaxSubs

NoSub == 0

\* How the broker was started and what happens around it.
SetupType ==
    [sessions  : SUBSET Sessions,
     window    : Nat \ {0},             \* --recv-window
     chanCap   : Nat \ {0},             \* capacity of a session's sendCh
     threshold : Nat,                   \* --dlq-after-nacks; 0: off, or a .dlq topic
     delayed   : SUBSET MsgIDs,         \* MsgIDs published with a delay
     floors    : SUBSET MsgIDs,         \* values retention may raise floor to
     faults    : SUBSET {"offsets", "dlq"},  \* writing offsets.json fails; the move fails
     events    : SUBSET {"ack", "nack", "pause", "end", "timeout", "flush"},
                   \* "ack": the client acknowledges whatever it has received; a client
                   \* sends NACK, PAUSE and RESUME, a connection ends, the visibility
                   \* timeout passes, offsets are flushed
     msgs      : 0..MaxMsgs, subs : 0..MaxSubs, crashes : 0..MaxCrashes]

ASSUME DeliveryAssumption ==
    /\ Sessions # {}
    /\ MaxMsgs \in Nat /\ MaxMsgs > 0
    /\ MaxSubs \in Nat
    /\ MaxCrashes \in Nat
    /\ \A c \in Setups : c \in SetupType

VARIABLES
    setup,       \* chosen from Setups before the broker starts
    head, floor,
    \* Consumer, under c.mu.
    offsets,     \* hasAcked, lastAcked, aboveLast
    inflight,    \* MsgID -> its Attempts, and whether its timer has run out
    cur,         \* c.sub
    paused,
    wake,        \* the token in the buffered-1 wake channel
    dirty,       \* persistDirty
    \* The goroutines.
    sub,         \* sub[n]: the n-th SUB and its delivery goroutine
    conn,        \* conn[s]: "new", "open" or "closed"
    chan,        \* chan[s]: sendCh
    resuming,    \* a RESUME has cleared paused and not yet signalled wake
    sweep,       \* the redelivery sweep
    nacking,     \* nacking[s]: what the NACK that s is handling has still to do
    persist,     \* the persist loop
    disk,        \* offsets.json
    \* History.
    writes,      \* writes[m]: MSG frames written for m, up to the limit that matters
    acked,       \* messages whose ACK was answered with OK
    dlq,         \* messages appended to the dead-letter topic
    pausers,     \* sessions whose last PAUSE/RESUME was a PAUSE
    crashes

conVars  == <<offsets, inflight, cur, paused, wake, dirty>>
procVars == <<sub, conn, chan, resuming, sweep, nacking, persist>>
histVars == <<writes, acked, dlq, pausers, crashes>>
state    == <<head, floor, conVars, procVars, disk, histVars>>
vars     == <<setup, state>>

Window    == setup.window
ChanCap   == setup.chanCap
Threshold == setup.threshold

NoOffsets == [hasAcked |-> FALSE, lastAcked |-> 0, aboveLast |-> {}]

NoInflight == [m \in {} |-> 0]

NewSub == [pc |-> "unused", conn |-> CHOOSE s \in Sessions : TRUE, prev |-> NoSub,
           next |-> 0, cancelled |-> FALSE]

NoSweep == [pc |-> "idle", tasks |-> {}, dead |-> {}, to |-> CHOOSE s \in Sessions : TRUE]

NoNack == [pc |-> "no", msg |-> 0]

NoPersist == [pc |-> "idle", snap |-> NoOffsets]

Expired == {m \in DOMAIN inflight : inflight[m].expired}

Without(f, S) == [m \in DOMAIN f \ S |-> f[m]]

With(f, m, v) == [k \in DOMAIN f \cup {m} |-> IF k = m THEN v ELSE f[k]]

Fresh(attempts) == [attempts |-> attempts, expired |-> FALSE]

\* Attempts above the threshold are not told apart.
Bump(attempts) == IF attempts < Threshold THEN attempts + 1 ELSE attempts

\* A message that has failed once more: dead, or redelivered with Attempts bumped.
Dead(m) == Threshold > 0 /\ inflight[m].attempts >= Threshold

\* Delivery goroutines that have started and not closed done.
Running(n) == sub[n].pc \in {"start", "open", "credit", "sleep", "read", "parked", "insert", "send"}

\* A session's reader is inside handleSub.
Subscribing(s) == \E n \in Subs : sub[n].conn = s /\ sub[n].pc \in {"ok", "swapped", "waiting"}

\* The SUBs of a session that have replaced the consumer's subscription, and the
\* last one it sent.
SubsOf(s) == {n \in Subs : sub[n].conn = s /\ sub[n].pc \notin {"unused", "refused", "gone"}}

LastSub(s) ==
    CHOOSE n \in Subs : /\ sub[n].conn = s /\ sub[n].pc \notin {"unused", "gone"}
                        /\ \A k \in (n + 1)..MaxSubs : sub[k].conn # s \/ sub[k].pc = "unused"

\* currentSubs is not empty: the last SUB was not refused.
HasSub(s) == SubsOf(s) # {} /\ LastSub(s) \in SubsOf(s)

CurrentSub(s) == IF HasSub(s) THEN {LastSub(s)} ELSE {}

\* A session whose reader can take the next frame.
Reading(s) == conn[s] = "open" /\ ~Subscribing(s) /\ s \notin resuming /\ nacking[s].pc = "no"

\* Mutant: off by one.
RoomForOneMore(s) == Len(chan[s]) <= ChanCap

Room(s) == Len(chan[s]) < ChanCap

Cancel(f, S) == [n \in Subs |-> IF n \in S THEN [f[n] EXCEPT !.cancelled = TRUE] ELSE f[n]]

----------------------------------------------------------------------------
(***************************************************************************)
(* The log                                                                 *)
(***************************************************************************)

Publish ==
    /\ head < setup.msgs
    /\ head' = head + 1
    /\ UNCHANGED <<floor, conVars, procVars, disk, histVars>>

\* A retention sweep drops segments; the floor is a MsgID in the log.
Retain(f) ==
    /\ floor < f
    /\ f <= head
    /\ floor' = f
    /\ UNCHANGED <<head, conVars, procVars, disk, histVars>>

----------------------------------------------------------------------------
(***************************************************************************)
(* SUB                                                                     *)
(***************************************************************************)

\* Where delivery to this consumer begins.
StartID == IF offsets.hasAcked THEN offsets.lastAcked + 1 ELSE floor

OutOfRange == offsets.hasAcked /\ offsets.lastAcked + 1 < floor

\* handleSub, first half (the connection's first frame, or a later one): cancel
\* the session's own subscription, refuse an offset below the floor, queue the OK.
SubCommand(s, n) ==
    /\ s \in setup.sessions
    /\ n <= setup.subs
    /\ conn[s] = "new" \/ Reading(s)
    /\ conn' = [conn EXCEPT ![s] = "open"]
    /\ sub[n].pc = "unused"
    /\ \A k \in 1..(n - 1) : sub[k].pc # "unused"
    /\ sub' = [Cancel(sub, CurrentSub(s)) EXCEPT
                  ![n] = [NewSub EXCEPT !.conn = s,
                                        !.pc = IF OutOfRange THEN "refused" ELSE "ok"]]
    /\ UNCHANGED <<head, floor, conVars, chan, resuming, sweep, nacking, persist,
                   disk, histVars>>

\* subscribe: the new Subscription replaces the previous one under c.mu.
Swap(n) ==
    /\ sub[n].pc = "ok"
    /\ sub' = [sub EXCEPT ![n].pc = "swapped", ![n].prev = cur]
    /\ cur' = n
    /\ UNCHANGED <<head, floor, offsets, inflight, paused, wake, dirty, conn, chan,
                   resuming, sweep, nacking, persist, disk, histVars>>

\* prev.cancel().
Detach(n) ==
    /\ sub[n].pc = "swapped"
    /\ sub' = [Cancel(sub, {sub[n].prev} \ {NoSub}) EXCEPT ![n].pc = "waiting"]
    /\ UNCHANGED <<head, floor, conVars, conn, chan, resuming, sweep, nacking, persist,
                   disk, histVars>>

\* <-prev.done.
PrevGone(n) == sub[n].prev # NoSub => sub[sub[n].prev].pc = "done"

\* go p.runDelivery.
Spawn(n) ==
    /\ sub[n].pc = "waiting"
    /\ PrevGone(n)
    /\ sub' = [sub EXCEPT ![n].pc = "start"]
    /\ UNCHANGED <<head, floor, conVars, conn, chan, resuming, sweep, nacking, persist,
                   disk, histVars>>

----------------------------------------------------------------------------
(***************************************************************************)
(* runDelivery                                                             *)
(***************************************************************************)

\* Steps of goroutine n that touch nothing but its own state.
Local(n, pc) ==
    /\ sub' = [sub EXCEPT ![n].pc = pc]
    /\ UNCHANGED <<head, floor, conVars, conn, chan, resuming, sweep, nacking, persist,
                   disk, histVars>>

\* consumerStartID.
Start(n) ==
    /\ sub[n].pc = "start"
    /\ IF OutOfRange
       THEN Local(n, "done")
       ELSE /\ sub' = [sub EXCEPT ![n].pc = "open", ![n].next = StartID]
            /\ UNCHANGED <<head, floor, conVars, conn, chan, resuming, sweep, nacking,
                           persist, disk, histVars>>

\* log.NewReader, which has its own look at the floor.
OpenReader(n) ==
    /\ sub[n].pc = "open"
    /\ Local(n, IF sub[n].next < floor THEN "done" ELSE "credit")

\* Mutant: off by one.
CreditForOneMore == ~paused /\ Cardinality(DOMAIN inflight) <= Window

\* The gate of the receive window.
HasCredit == ~paused /\ Cardinality(DOMAIN inflight) < Window

\* awaitCredit, the test under c.mu.
Credit(n) ==
    /\ sub[n].pc = "credit"
    /\ Local(n, IF HasCredit THEN "read" ELSE "sleep")

\* awaitCredit, the select: take the wake token and test again, or stop.
Wake(n) ==
    /\ sub[n].pc = "sleep"
    /\ wake
    /\ wake' = FALSE
    /\ sub' = [sub EXCEPT ![n].pc = "credit"]
    /\ UNCHANGED <<head, floor, offsets, inflight, cur, paused, dirty, conn, chan,
                   resuming, sweep, nacking, persist, disk, histVars>>

\* ctx is done where the goroutine waits for credit, for a record or for a
\* delayed record's time.
Stop(n) ==
    /\ sub[n].pc \in {"sleep", "read", "parked"}
    /\ sub[n].cancelled
    /\ Local(n, "done")

\* reader.Next returns the record after the last one read.
Read(n) ==
    /\ sub[n].pc = "read"
    /\ ~sub[n].cancelled
    /\ sub[n].next < head
    /\ sub' = [sub EXCEPT ![n].next = @ + 1,
                          ![n].pc = IF sub[n].next \in setup.delayed THEN "parked" ELSE "insert"]
    /\ UNCHANGED <<head, floor, conVars, conn, chan, resuming, sweep, nacking, persist,
                   disk, histVars>>

\* reader.Next fails because retention has removed the segment it is in.
ReadFails(n) ==
    /\ sub[n].pc = "read"
    /\ sub[n].next < floor
    /\ Local(n, "done")

\* awaitVisible: the timer fires.
Visible(n) ==
    /\ sub[n].pc = "parked"
    /\ Local(n, "insert")

\* The record goroutine n has in hand.
InHand(n) == sub[n].next - 1

Insert(n) ==
    /\ sub[n].pc = "insert"
    /\ inflight' = With(inflight, InHand(n), Fresh(1))
    /\ sub' = [sub EXCEPT ![n].pc = "send"]
    /\ UNCHANGED <<head, floor, offsets, cur, paused, wake, dirty, conn, chan, resuming,
                   sweep, nacking, persist, disk, histVars>>

Send(n) ==
    /\ sub[n].pc = "send"
    /\ Room(sub[n].conn)
    /\ chan' = [chan EXCEPT ![sub[n].conn] = Append(@, InHand(n))]
    /\ sub' = [sub EXCEPT ![n].pc = "credit"]
    /\ UNCHANGED <<head, floor, conVars, conn, resuming, sweep, nacking, persist, disk, histVars>>

\* ctx is done before the send: the inflight entry is rolled back.
Rollback(n) ==
    /\ sub[n].pc = "send"
    /\ sub[n].cancelled
    /\ inflight' = Without(inflight, {InHand(n)})
    /\ sub' = [sub EXCEPT ![n].pc = "done"]
    /\ UNCHANGED <<head, floor, offsets, cur, paused, wake, dirty, conn, chan, resuming,
                   sweep, nacking, persist, disk, histVars>>

----------------------------------------------------------------------------
(***************************************************************************)
(* The session's writer, ACK, NACK, PAUSE, RESUME, disconnection           *)
(***************************************************************************)

\* runWriter writes the next MSG frame.
Write(s) ==
    /\ conn[s] = "open"
    /\ chan[s] # << >>
    /\ chan' = [chan EXCEPT ![s] = Tail(@)]
    /\ writes' = [writes EXCEPT ![Head(chan[s])] = IF @ = 0 \/ @ < Threshold THEN @ + 1 ELSE @]
    /\ UNCHANGED <<head, floor, conVars, sub, conn, resuming, sweep, nacking, persist,
                   disk, acked, dlq, pausers, crashes>>

\* The drain loop: lastAcked moves up while aboveLast holds its successor.
Drain(last, above) ==
    CHOOSE l \in last..MaxMsgs : (last + 1)..l \subseteq above /\ l + 1 \notin above

\* Mutant: any acknowledgement above lastAcked moves it.
AnyAbove(m) == ~offsets.hasAcked \/ m > offsets.lastAcked

Contiguous(m) == IF offsets.hasAcked THEN m = offsets.lastAcked + 1 ELSE m = 0

\* Consumer.Ack's effect on the offsets.
Advanced(m) ==
    LET last == Drain(m, offsets.aboveLast) IN
    IF Contiguous(m)
    THEN [hasAcked |-> TRUE, lastAcked |-> last, aboveLast |-> offsets.aboveLast \ (m..last)]
    ELSE IF ~offsets.hasAcked \/ m > offsets.lastAcked + 1
    THEN [offsets EXCEPT !.aboveLast = @ \cup {m}]
    ELSE offsets

\* Mutant: an acknowledgement does not signal the gate.
AckKeepsWake == wake

AckWakes == TRUE

\* ACK of a message some connection of this consumer has received.
Ack(s, m) ==
    /\ Reading(s)
    /\ SubsOf(s) # {}
    /\ writes[m] > 0
    /\ m \in DOMAIN inflight
    /\ inflight' = Without(inflight, {m})
    /\ offsets' = Advanced(m)
    /\ dirty' = TRUE
    /\ wake' = AckWakes
    /\ acked' = acked \cup {m}
    /\ UNCHANGED <<head, floor, cur, paused, procVars, disk, writes, dlq, pausers, crashes>>

\* NACK, under c.mu (nackOrKill): kill, or bump Attempts and redeliver.
Nack(s, m) ==
    /\ "nack" \in setup.events
    /\ Reading(s)
    /\ SubsOf(s) # {}
    /\ writes[m] > 0
    /\ m \in DOMAIN inflight
    /\ dirty' = TRUE
    /\ \/ /\ Dead(m)
          /\ inflight' = Without(inflight, {m})
          /\ wake' = TRUE
          /\ nacking' = [nacking EXCEPT ![s] = [pc |-> "move", msg |-> m]]
       \/ /\ ~Dead(m)
          /\ inflight' = With(inflight, m, Fresh(Bump(inflight[m].attempts)))
          /\ nacking' = [nacking EXCEPT ![s] = [pc |-> "push", msg |-> m]]
          /\ UNCHANGED wake
    /\ UNCHANGED <<head, floor, offsets, cur, paused, sub, conn, chan, resuming, sweep,
                   persist, disk, histVars>>

\* One non-blocking send; a full channel drops it.
NackPush(s) ==
    /\ nacking[s].pc = "push"
    /\ nacking' = [nacking EXCEPT ![s] = NoNack]
    /\ chan' = IF Room(s) THEN [chan EXCEPT ![s] = Append(@, nacking[s].msg)] ELSE chan
    /\ UNCHANGED <<head, floor, conVars, sub, conn, resuming, sweep, persist, disk, histVars>>

\* Mutant: the dead message is only taken out of inflight.
NotMoved(m) == dlq

Moved(m) == dlq \cup {m}

\* dlqMove: create <topic>.dlq and publish the payload there, best effort.
DlqMove(m) ==
    \/ dlq' = Moved(m)
    \/ "dlq" \in setup.faults /\ UNCHANGED dlq

NackMove(s) ==
    /\ nacking[s].pc = "move"
    /\ nacking' = [nacking EXCEPT ![s] = NoNack]
    /\ DlqMove(nacking[s].msg)
    /\ UNCHANGED <<head, floor, conVars, sub, conn, chan, resuming, sweep, persist, disk,
                   writes, acked, pausers, crashes>>

Pause(s) ==
    /\ "pause" \in setup.events
    /\ Reading(s)
    /\ HasSub(s)
    /\ paused' = TRUE
    /\ pausers' = pausers \cup {s}
    /\ UNCHANGED <<head, floor, offsets, inflight, cur, wake, dirty, procVars, disk,
                   writes, acked, dlq, crashes>>

\* setPaused(false), up to the unlock.
Resume(s) ==
    /\ "pause" \in setup.events
    /\ Reading(s)
    /\ HasSub(s)
    /\ paused' = FALSE
    /\ resuming' = resuming \cup {s}
    /\ pausers' = pausers \ {s}
    /\ UNCHANGED <<head, floor, offsets, inflight, cur, wake, dirty, sub, conn, chan, sweep,
                   nacking, persist, disk, writes, acked, dlq, crashes>>

\* Mutant: RESUME only clears the flag.
ResumeKeepsWake == wake

ResumeWakes == TRUE

\* signalWake after the unlock.
ResumeSignal(s) ==
    /\ s \in resuming
    /\ resuming' = resuming \ {s}
    /\ wake' = ResumeWakes
    /\ UNCHANGED <<head, floor, offsets, inflight, cur, paused, dirty, sub, conn, chan,
                   sweep, nacking, persist, disk, histVars>>

\* The connection ends: the session cancels its subscription and its writer stops.
\* The consumer keeps c.sub and its inflight messages.
Disconnect(s) ==
    /\ "end" \in setup.events
    /\ Reading(s)
    /\ conn' = [conn EXCEPT ![s] = "closed"]
    /\ sub' = Cancel(sub, CurrentSub(s))
    /\ UNCHANGED <<head, floor, conVars, chan, resuming, sweep, nacking, persist, disk, histVars>>

----------------------------------------------------------------------------
(***************************************************************************)
(* The redelivery sweep                                                    *)
(***************************************************************************)

\* The visibility timeout of m passes.
Expire(m) ==
    /\ "timeout" \in setup.events
    /\ m \in DOMAIN inflight
    /\ ~inflight[m].expired
    /\ inflight' = [inflight EXCEPT ![m].expired = TRUE]
    /\ UNCHANGED <<head, floor, offsets, cur, paused, wake, dirty, procVars, disk, histVars>>

\* signalWake if inflight slots were freed.
KillWakes(dead) == wake \/ dead # {}

\* collectExpired: under c.mu, take the dead out of inflight, restart the timers
\* of the others, and note which channel they go to.
SweepCollect ==
    LET dead == {m \in Expired : Dead(m)} IN
    /\ sweep.pc = "idle"
    /\ cur # NoSub
    /\ ~paused
    /\ Expired # {}
    /\ inflight' = [m \in DOMAIN inflight \ dead |->
                       IF m \in Expired THEN Fresh(Bump(inflight[m].attempts)) ELSE inflight[m]]
    /\ sweep' = [pc |-> "push", tasks |-> Expired \ dead, dead |-> dead, to |-> sub[cur].conn]
    /\ dirty' = (dirty \/ dead # {})
    /\ wake' = KillWakes(dead)
    /\ UNCHANGED <<head, floor, offsets, cur, paused, sub, conn, chan, resuming, nacking,
                   persist, disk, histVars>>

\* One non-blocking send; a full channel drops it.
SweepPush(m) ==
    /\ sweep.pc = "push"
    /\ m \in sweep.tasks
    /\ sweep' = [sweep EXCEPT !.tasks = @ \ {m}]
    /\ chan' = IF Room(sweep.to) THEN [chan EXCEPT ![sweep.to] = Append(@, m)] ELSE chan
    /\ UNCHANGED <<head, floor, conVars, sub, conn, resuming, nacking, persist, disk, histVars>>

\* After the sends, the dead go to the dead-letter topic one by one.
SweepMove(m) ==
    /\ sweep.pc = "push"
    /\ sweep.tasks = {}
    /\ m \in sweep.dead
    /\ sweep' = [sweep EXCEPT !.dead = @ \ {m}]
    /\ DlqMove(m)
    /\ UNCHANGED <<head, floor, conVars, sub, conn, chan, resuming, nacking, persist, disk,
                   writes, acked, pausers, crashes>>

SweepEnd ==
    /\ sweep.pc = "push"
    /\ sweep.tasks = {}
    /\ sweep.dead = {}
    /\ sweep' = NoSweep
    /\ UNCHANGED <<head, floor, conVars, sub, conn, chan, resuming, nacking, persist, disk, histVars>>

----------------------------------------------------------------------------
(***************************************************************************)
(* The persist loop and restarts                                           *)
(***************************************************************************)

\* flushOffsets, first loop.
PersistClear ==
    /\ "flush" \in setup.events
    /\ persist.pc = "idle"
    /\ dirty
    /\ dirty' = FALSE
    /\ persist' = [persist EXCEPT !.pc = "snapshot"]
    /\ UNCHANGED <<head, floor, offsets, inflight, cur, paused, wake, sub, conn, chan,
                   resuming, sweep, nacking, disk, histVars>>

\* Mutant: opens offsets.json itself for writing, not a temporary beside it.
PersistSnapshotInPlace ==
    /\ persist.pc = "snapshot"
    /\ persist' = [pc |-> "write", snap |-> offsets]
    /\ disk' = NoOffsets
    /\ UNCHANGED <<head, floor, conVars, sub, conn, chan, resuming, sweep, nacking, histVars>>

\* snapshotOffsets, under c.mu.
PersistSnapshot ==
    /\ persist.pc = "snapshot"
    /\ persist' = [pc |-> "write", snap |-> offsets]
    /\ UNCHANGED <<head, floor, conVars, sub, conn, chan, resuming, sweep, nacking, disk, histVars>>

\* Mutant: the flag is cleared when the flush is done.
ClearAtEnd == FALSE

\* What the end of a flush leaves in the flag: an ACK since the first loop keeps it.
DirtyAtEnd == dirty

\* Write offsets.json.tmp, fsync, rename; or fail and leave the old file.
PersistWrite ==
    /\ persist.pc = "write"
    /\ persist' = NoPersist
    /\ \/ disk' = persist.snap
       \/ "offsets" \in setup.faults /\ UNCHANGED disk
    /\ dirty' = DirtyAtEnd
    /\ UNCHANGED <<head, floor, offsets, inflight, cur, paused, wake, sub, conn, chan, resuming, sweep, nacking, histVars>>

\* loadOffsets.
Loaded == disk

\* SIGKILL and restart: the consumer is rebuilt from offsets.json, the
\* connections are gone.
Crash ==
    /\ crashes < setup.crashes
    /\ crashes' = crashes + 1
    /\ offsets' = Loaded
    /\ inflight' = NoInflight
    /\ cur' = NoSub
    /\ paused' = FALSE
    /\ wake' = FALSE
    /\ dirty' = FALSE
    /\ sub' = [n \in Subs |-> IF sub[n].pc = "unused" THEN sub[n] ELSE [NewSub EXCEPT !.pc = "gone"]]
    /\ conn' = [s \in Sessions |-> IF conn[s] = "open" THEN "closed" ELSE conn[s]]
    /\ chan' = [s \in Sessions |-> << >>]
    /\ resuming' = {}
    /\ sweep' = NoSweep
    /\ nacking' = [s \in Sessions |-> NoNack]
    /\ persist' = NoPersist
    /\ pausers' = {}
    /\ UNCHANGED <<head, floor, disk, writes, acked, dlq>>

----------------------------------------------------------------------------

Init ==
    /\ setup \in Setups
    /\ head = 0
    /\ floor = 0
    /\ offsets = NoOffsets
    /\ inflight = NoInflight
    /\ cur = NoSub
    /\ paused = FALSE
    /\ wake = FALSE
    /\ dirty = FALSE
    /\ sub = [n \in Subs |-> NewSub]
    /\ conn = [s \in Sessions |-> "new"]
    /\ chan = [s \in Sessions |-> << >>]
    /\ resuming = {}
    /\ sweep = NoSweep
    /\ nacking = [s \in Sessions |-> NoNack]
    /\ persist = NoPersist
    /\ disk = NoOffsets
    /\ writes = [m \in MsgIDs |-> 0]
    /\ acked = {}
    /\ dlq = {}
    /\ pausers = {}
    /\ crashes = 0

Deliver(n) ==
    \/ Start(n) \/ OpenReader(n) \/ Credit(n) \/ Wake(n) \/ Stop(n) \/ Read(n) \/ ReadFails(n)
    \/ Visible(n) \/ Insert(n) \/ Send(n) \/ Rollback(n)

Subscribe(n) == Swap(n) \/ Detach(n) \/ Spawn(n)

Frame(s) ==
    \/ \E n \in Subs : SubCommand(s, n)
    \/ \E m \in MsgIDs : Ack(s, m) \/ Nack(s, m)
    \/ NackPush(s) \/ NackMove(s)
    \/ Pause(s) \/ Resume(s) \/ ResumeSignal(s)

SweepStep == SweepEnd \/ \E m \in MsgIDs : SweepPush(m) \/ SweepMove(m)

Redeliver == SweepCollect \/ SweepStep

Persist == PersistClear \/ PersistSnapshot \/ PersistWrite

Next ==
    /\ UNCHANGED setup
    /\ \/ Publish
       \/ \E f \in setup.floors : Retain(f)
       \/ \E s \in Sessions : Frame(s) \/ Write(s) \/ Disconnect(s)
       \/ \E n \in Subs : Subscribe(n) \/ Deliver(n)
       \/ \E m \in MsgIDs : Expire(m)
       \/ Redeliver
       \/ Persist
       \/ Crash

Spec == Init /\ [][Next]_vars

----------------------------------------------------------------------------
(***************************************************************************)
(* Fairness.  Goroutines that can run do, timers fire and the sweep's      *)
(* ticker keeps ticking; no lock or select has to be fair to a goroutine   *)
(* that is ready only now and then.  Clients are not obliged to subscribe  *)
(* or to stay connected.                                                   *)
(***************************************************************************)
BrokerFairness ==
    /\ \A n \in Subs : WF_state(Subscribe(n)) /\ WF_state(Deliver(n))
    /\ \A m \in MsgIDs : WF_state(Expire(m))
    /\ WF_state(SweepCollect)
    /\ WF_state(SweepStep)
    /\ \A s \in Sessions : WF_state(ResumeSignal(s) \/ NackPush(s) \/ NackMove(s))

\* Clients read their sockets; one that acknowledges ("ack") does so for whatever it
\* has received.
FairSpec ==
    /\ Spec
    /\ BrokerFairness
    /\ \A s \in Sessions : WF_state(Write(s))
    /\ \A m \in MsgIDs : WF_state("ack" \in setup.events /\ \E s \in Sessions : Ack(s, m))

----------------------------------------------------------------------------
(***************************************************************************)
(* Properties                                                              *)
(***************************************************************************)

OffsetsType == [hasAcked : BOOLEAN, lastAcked : Nat, aboveLast : SUBSET MsgIDs]

TypeOK ==
    /\ setup \in Setups
    /\ head \in 0..MaxMsgs
    /\ floor \in 0..MaxMsgs
    /\ offsets \in OffsetsType
    /\ DOMAIN inflight \subseteq MsgIDs
    /\ \A m \in DOMAIN inflight : inflight[m] \in [attempts : Nat, expired : BOOLEAN]
    /\ cur \in Subs \cup {NoSub}
    /\ paused \in BOOLEAN /\ wake \in BOOLEAN /\ dirty \in BOOLEAN
    /\ sub \in [Subs -> [pc : {"unused", "refused", "ok", "swapped", "waiting", "start", "open",
                               "credit", "sleep", "read", "parked", "insert", "send", "done", "gone"},
                         conn : Sessions, prev : Subs \cup {NoSub}, next : 0..MaxMsgs,
                         cancelled : BOOLEAN]]
    /\ conn \in [Sessions -> {"new", "open", "closed"}]
    /\ chan \in [Sessions -> Seq(MsgIDs)]
    /\ \A s \in Sessions : Len(chan[s]) <= ChanCap
    /\ resuming \subseteq Sessions
    /\ sweep \in [pc : {"idle", "push"}, tasks : SUBSET MsgIDs, dead : SUBSET MsgIDs, to : Sessions]
    /\ nacking \in [Sessions -> [pc : {"no", "push", "move"}, msg : MsgIDs]]
    /\ persist \in [pc : {"idle", "snapshot", "write"}, snap : OffsetsType]
    /\ disk \in OffsetsType
    /\ writes \in [MsgIDs -> Nat]
    /\ acked \subseteq MsgIDs /\ dlq \subseteq MsgIDs /\ pausers \subseteq Sessions
    /\ crashes \in 0..MaxCrashes

\* The receive window bounds the inflight messages of a consumer, through any
\* take-over of its subscription: awaitCredit's test is still true when the
\* record it admits is inserted.
WindowBound == Cardinality(DOMAIN inflight) <= Window

\* What an offsets record says has been acknowledged.
Covered(o) == {m \in MsgIDs : (o.hasAcked /\ m <= o.lastAcked) \/ m \in o.aboveLast}

\* Messages taken out of inflight by the dead-letter policy.
Killed == sweep.dead \cup {nacking[s].msg : s \in {t \in Sessions : nacking[t].pc = "move"}} \cup dlq

\* Delivery leaves no gap: behind the position of a delivery goroutine every
\* retained message is acknowledged, inflight, dead-lettered or in its hand.  (When
\* the move to the dead-letter topic fails the message waits for the next SUB.)
NothingSkipped ==
    \A n \in Subs : "dlq" \notin setup.faults /\ Running(n) /\ sub[n].pc \notin {"start", "open"} =>
        \A m \in floor..(sub[n].next - 1) :
            \/ m \in Covered(offsets) \cup DOMAIN inflight \cup Killed
            \/ m = InHand(n) /\ sub[n].pc \in {"parked", "insert"}

\* A goroutine asleep in awaitCredit while the gate is open has a wake-up coming:
\* no signal is lost between its test and its receive.
NoLostWakeup ==
    \A n \in Subs : sub[n].pc = "sleep" /\ HasCredit => wake \/ resuming # {}

\* Delivery resumes at the oldest message the client has not acknowledged, and
\* nothing counts as acknowledged, in memory or in offsets.json, that was not.  (A
\* consumer that first subscribes above a raised floor restarts at the floor.)
ResumePoint ==
    /\ \A o \in {offsets, disk, persist.snap} : Covered(o) \subseteq acked
    /\ ~OutOfRange /\ floor = 0 =>
          /\ StartID \notin Covered(offsets)
          /\ \A m \in floor..(StartID - 1) : m \in Covered(offsets)

\* Where no flush fails, with no flush under way and nothing dirty offsets.json is
\* what memory says, so a crash loses no acknowledgement.  (A failed flush has cleared
\* the flag already and is not retried by itself: the file stays stale until an ack.)
OffsetsPersisted ==
    "offsets" \notin setup.faults /\ persist.pc = "idle" /\ ~dirty => disk = offsets

\* offsets.json never forgets an acknowledgement.
DiskMonotonic == [][Covered(disk) \subseteq Covered(disk')]_vars

\* A reconnect starts unpaused: pausing is the state of a connection.
PausePerConnection == cur # NoSub /\ paused => sub[cur].conn \in pausers

\* A message goes to the dead-letter topic after Threshold deliveries.
DeadWasDelivered == \A m \in dlq : writes[m] >= Threshold

\* A dead-lettered message is gone from the source.
DeadIsGone == dlq \cap DOMAIN inflight = {}

\* The consumer's subscription is live: its session connected, not paused.
Attached == cur # NoSub /\ conn[sub[cur].conn] = "open" /\ ~sub[cur].cancelled /\ ~paused

\* Every published message is acknowledged or dead-lettered once a subscription
\* lasts, whatever sessions came and went before: with a client that acknowledges
\* what it receives, and, when the dead-letter policy is on, with one that never
\* does.
AllConsumed ==
    <>[]Attached => \A m \in MsgIDs : (m < head) ~> (m \in acked \cup dlq)

=============================================================================
