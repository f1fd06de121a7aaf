---------------------------- MODULE Replication ----------------------------
(***************************************************************************)
(* A replicated topic: the broker's Propose and Apply paths and its        *)
(* recovery, on every node of a toyraft cluster.                           *)
(*                                                                         *)
(* toyraft is external.  It is the sequence of committed commands, a       *)
(* leader that may change at any time, and an apply goroutine per node     *)
(* that runs the commands in order and, having no persistent applied       *)
(* index, runs all of them again after a restart.                          *)
(***************************************************************************)
EXTENDS Integers, Sequences, FiniteSets

CONSTANTS
    Nodes,
    Keys,        \* dedupe keys of publishes
    Parts,       \* number of partitions CREATE asks for
    Setups,      \* environments, see SetupType
    MaxLog,      \* bound: commands committed
    MaxRestarts

NoKey == "-"
NoLeader == "none"
PartIDs == 0..Parts - 1
IDs == 0..MaxLog - 1

SetupType ==
    [keys     : SUBSET (Keys \cup {NoKey}),
     cap      : Nat \ {0},                \* DedupeCap
     default  : 1..Parts,                 \* DefaultPartitions
     sync     : {"fsync", "none"},        \* per-message or batched, or SyncNone
     cmds     : 0..MaxLog,                \* commands proposed
     restarts : 0..MaxRestarts,
     dlq      : Nat,                      \* dlqAfterNacks, 0 is off
     events   : SUBSET {"create", "deliver", "stale", "ack", "nack"}]

ASSUME ReplicationAssumption ==
    /\ IsFiniteSet(Nodes) /\ NoLeader \notin Nodes
    /\ IsFiniteSet(Keys) /\ NoKey \notin Keys
    /\ Parts \in Nat \ {0} /\ MaxLog \in Nat \ {0} /\ MaxRestarts \in Nat
    /\ Setups \subseteq SetupType

VARIABLES
    setup,
    log,        \* committed commands
    leader,
    applied,    \* per node: commands its apply goroutine has run, in this process
    blocked,    \* per node: its apply goroutine waits in Propose
    waiting,    \* per node: indexes of the PUBs whose Propose waits there
    count,      \* per node: partitions of the topic, 0 when it does not exist
    wal,        \* per node and partition: records with their RaftIndex and key
    dedupe,     \* per node and partition: the LRU, most recent first
    highWater,  \* per node: appliedHighWater
    inflight,   \* per node: messages delivered by a session there, with Attempts
    acked,      \* per node: messages acknowledged by the consumer
    saved,      \* per node: acked in offsets.json
    oks,        \* what PUB returned to clients
    restarts

brokerVars == <<count, wal, dedupe, highWater, inflight, acked, saved>>
state == <<log, leader, applied, blocked, waiting, brokerVars, oks, restarts>>
vars == <<setup, state>>

-----------------------------------------------------------------------------
(* The dedupe index *)

\* DedupeIndex.Lookup: the position of a key, 0 on a miss.
Find(lru, key) ==
    LET at == {i \in DOMAIN lru : lru[i].key = key}
    IN  IF at = {} THEN 0 ELSE CHOOSE i \in at : TRUE

\* The list with the entry at i taken out and e in front.
ToFront(lru, i, e) == [j \in DOMAIN lru |-> IF j = 1 THEN e ELSE IF j <= i THEN lru[j - 1] ELSE lru[j]]

MoveToFront(lru, i) == ToFront(lru, i, lru[i])

\* Entries left after one more is inserted.
Keep(lru) == IF Len(lru) < setup.cap THEN Len(lru) + 1 ELSE setup.cap

\* DedupeIndex.Insert.
Insert(lru, key, id) ==
    LET entry == [key |-> key, id |-> id]
        i == Find(lru, key)
    IN  IF i > 0 THEN ToFront(lru, i, entry)
        ELSE SubSeq(<<entry>> \o lru, 1, Keep(lru))

\* Mutant: the index starts empty.
NoRebuild(records) == << >>

\* rebuildIndexes over a recovered partition, in WAL order.
Rebuild(records) ==
    LET lru[i \in 0..Len(records)] ==
          IF i = 0 THEN << >>
          ELSE IF records[i].key = NoKey THEN lru[i - 1]
          ELSE Insert(lru[i - 1], records[i].key, i - 1)
    IN  lru[Len(records)]

-----------------------------------------------------------------------------
(* Apply *)

\* getOrCreateTopic: a topic nobody created gets the node's default count.
Opened(n) == IF count[n] = 0 THEN setup.default ELSE count[n]

\* Mutant: replayed publishes are not recognised.
NeverReplayed(n, index) == FALSE

\* ApplyPublish's guard: the record was recovered from the WAL.
Replayed(n, index) == index <= highWater[n]

\* What a PUB returns to its client, when it waits on this node.
Answer(n, index, p, id) ==
    /\ oks' = IF index \in waiting[n]
              THEN oks \cup {[index |-> index, part |-> p, id |-> id]} ELSE oks
    /\ waiting' = [waiting EXCEPT ![n] = @ \ {index}]

Forget(n, index) ==
    /\ waiting' = [waiting EXCEPT ![n] = @ \ {index}]
    /\ UNCHANGED oks

\* Partition.applyPublish: a hit in the dedupe index or a new record.
ApplyToPartition(n, index, p, key) ==
    LET lru == dedupe[n][p]
        hit == Find(lru, key)
        id == Len(wal[n][p])
    IN  IF key # NoKey /\ hit > 0
        THEN /\ dedupe' = [dedupe EXCEPT ![n][p] = MoveToFront(lru, hit)]
             /\ Answer(n, index, p, lru[hit].id)
             /\ UNCHANGED wal
        ELSE /\ wal' = [wal EXCEPT ![n][p] = Append(@, [index |-> index, key |-> key])]
             /\ dedupe' = [dedupe EXCEPT ![n][p] = IF key = NoKey THEN @ ELSE Insert(@, key, id)]
             /\ Answer(n, index, p, id)

ApplyPublish(n, index, cmd) ==
    IF Replayed(n, index)
    THEN Forget(n, index) /\ UNCHANGED <<brokerVars, blocked>>
    ELSE /\ count' = [count EXCEPT ![n] = Opened(n)]
         /\ IF cmd.part < Opened(n)
            THEN ApplyToPartition(n, index, cmd.part, cmd.key)
            ELSE Forget(n, index) /\ UNCHANGED <<wal, dedupe>>
         /\ UNCHANGED <<blocked, highWater, inflight, acked, saved>>

Sent(n, p, id) == {m \in inflight[n] : m.part = p /\ m.id = id}

\* applyAck and Consumer.Ack: an error unless this node has the message inflight.
ApplyAck(n, cmd) ==
    LET m == Sent(n, cmd.part, cmd.id) IN
    /\ count' = [count EXCEPT ![n] = Opened(n)]
    /\ inflight' = [inflight EXCEPT ![n] = @ \ m]
    /\ acked' = [acked EXCEPT ![n] = @ \cup {<<x.part, x.id>> : x \in m}]
    /\ UNCHANGED <<wal, dedupe, highWater, saved, waiting, oks, blocked>>

\* dlqMove calls CreateTopic for the dead-letter topic, which on the leader
\* proposes and waits for the apply goroutine that is running this.  On a follower
\* CreateTopic is refused and the move is logged as failed.
DlqMove(n, dead) == blocked' = [blocked EXCEPT ![n] = (dead # {} /\ n = leader)]

\* applyNack and nackOrKill.
ApplyNack(n, cmd) ==
    LET m == Sent(n, cmd.part, cmd.id)
        dead == {x \in m : setup.dlq > 0 /\ x.attempts >= setup.dlq}
    IN  /\ count' = [count EXCEPT ![n] = Opened(n)]
        /\ inflight' = [inflight EXCEPT ![n] =
                          (@ \ m) \cup {[x EXCEPT !.attempts = @ + 1] : x \in m \ dead}]
        /\ DlqMove(n, dead)
        /\ UNCHANGED <<wal, dedupe, highWater, acked, saved, waiting, oks>>

\* createTopicLocal: an error when the topic exists with another count.
ApplyCreateTopic(n, cmd) ==
    /\ count' = [count EXCEPT ![n] = IF @ = 0 THEN cmd.part ELSE @]
    /\ UNCHANGED <<wal, dedupe, highWater, inflight, acked, saved, waiting, oks, blocked>>

\* BrokerSM.Apply.
Apply(n) ==
    /\ ~blocked[n]
    /\ applied[n] < Len(log)
    /\ LET index == applied[n] + 1
           cmd == log[index]
       IN  /\ applied' = [applied EXCEPT ![n] = index]
           /\ \/ cmd.kind = "pub" /\ ApplyPublish(n, index, cmd)
              \/ cmd.kind = "ack" /\ ApplyAck(n, cmd)
              \/ cmd.kind = "nack" /\ ApplyNack(n, cmd)
              \/ cmd.kind = "create" /\ ApplyCreateTopic(n, cmd)
    /\ UNCHANGED <<log, leader, restarts>>

-----------------------------------------------------------------------------
(* Commands *)

Propose(cmd) == Len(log) < setup.cmds /\ log' = Append(log, cmd)

\* PublishCtx on any node: the topic is opened there, and only the leader's
\* Propose succeeds.  The partition is whatever route picks.
Publish(n, key, p) ==
    /\ Len(log) < setup.cmds
    /\ p < Opened(n)
    /\ count' = [count EXCEPT ![n] = Opened(n)]
    /\ IF n = leader
       THEN /\ Propose([kind |-> "pub", part |-> p, key |-> key, id |-> 0])
            /\ waiting' = [waiting EXCEPT ![n] = @ \cup {Len(log) + 1}]
       ELSE UNCHANGED <<log, waiting>>
    /\ UNCHANGED <<leader, applied, blocked, wal, dedupe, highWater, inflight, acked, saved, oks, restarts>>

\* CreateTopic on the leader.
CreateTopic ==
    /\ "create" \in setup.events
    /\ leader # NoLeader
    /\ Propose([kind |-> "create", part |-> Parts, key |-> NoKey, id |-> 0])
    /\ UNCHANGED <<leader, applied, blocked, waiting, brokerVars, oks, restarts>>

\* A session of the leader, or of a follower for SUB STALE, delivers a message
\* from that node's WAL to the consumer.
Deliver(n, p) ==
    /\ "deliver" \in setup.events
    /\ n = leader \/ "stale" \in setup.events
    /\ \E id \in IDs :
         /\ id < Len(wal[n][p])
         /\ Sent(n, p, id) = {}
         /\ <<p, id>> \notin acked[n]
         /\ inflight' = [inflight EXCEPT ![n] = @ \cup {[part |-> p, id |-> id, attempts |-> 1]}]
    /\ UNCHANGED <<log, leader, applied, blocked, waiting, count, wal, dedupe, highWater, acked, saved,
                   oks, restarts>>

\* AckCtx and NackCtx on the leader, for a message the client received from some
\* node.
Settle(kind, p, id) ==
    /\ kind \in setup.events
    /\ leader # NoLeader
    /\ \E n \in Nodes : Sent(n, p, id) # {}
    /\ Propose([kind |-> kind, part |-> p, key |-> NoKey, id |-> id])
    /\ UNCHANGED <<leader, applied, blocked, waiting, brokerVars, oks, restarts>>

\* The persist loop writes offsets.json (module Delivery has its steps).
Persist(n) ==
    /\ saved[n] # acked[n]
    /\ saved' = [saved EXCEPT ![n] = acked[n]]
    /\ UNCHANGED <<log, leader, applied, blocked, waiting, count, wal, dedupe, highWater, inflight, acked,
                   oks, restarts>>

\* toyraft elects a leader.  A Propose that waits on the old one returns.
Elect(n) ==
    /\ leader # n
    /\ leader' = n
    /\ blocked' = [m \in Nodes |-> blocked[m] /\ m = n]
    /\ UNCHANGED <<log, applied, waiting, brokerVars, oks, restarts>>

\* What a stop of the machine leaves of a partition: module Wal shows that with
\* fsync nothing appended is lost.
Survivors(records) ==
    IF setup.sync = "none" THEN {SubSeq(records, 1, i) : i \in 0..Len(records)} ELSE {records}

\* Mutant: every publish of the log is taken as applied.
HighWaterOfLog(n, records) == Len(log)

\* advanceAppliedHighWater over the recovered records of all partitions.
RecoveredHighWater(n, records) ==
    LET indexes == UNION {{records[p][i].index : i \in DOMAIN records[p]} : p \in PartIDs}
    IN  IF indexes = {} THEN 0 ELSE CHOOSE i \in indexes : \A j \in indexes : j <= i

\* The node stops and starts: newBroker recovers the topic, and raft replays the
\* log from its first entry.
Restart(n) ==
    /\ restarts < setup.restarts
    /\ restarts' = restarts + 1
    /\ \E records \in [PartIDs -> UNION {Survivors(wal[n][p]) : p \in PartIDs}] :
         /\ \A p \in PartIDs : records[p] \in Survivors(wal[n][p])
         /\ wal' = [wal EXCEPT ![n] = records]
         /\ dedupe' = [dedupe EXCEPT ![n] = [p \in PartIDs |-> Rebuild(records[p])]]
         /\ highWater' = [highWater EXCEPT ![n] = RecoveredHighWater(n, records)]
    /\ applied' = [applied EXCEPT ![n] = 0]
    /\ blocked' = [blocked EXCEPT ![n] = FALSE]
    /\ waiting' = [waiting EXCEPT ![n] = {}]
    /\ inflight' = [inflight EXCEPT ![n] = {}]
    /\ acked' = [acked EXCEPT ![n] = saved[n]]
    /\ leader' = IF leader = n THEN NoLeader ELSE leader
    /\ UNCHANGED <<log, count, saved, oks>>

-----------------------------------------------------------------------------
Init ==
    /\ setup \in Setups
    /\ log = << >>
    /\ leader = NoLeader
    /\ applied = [n \in Nodes |-> 0]
    /\ blocked = [n \in Nodes |-> FALSE]
    /\ waiting = [n \in Nodes |-> {}]
    /\ count = [n \in Nodes |-> 0]
    /\ wal = [n \in Nodes |-> [p \in PartIDs |-> << >>]]
    /\ dedupe = [n \in Nodes |-> [p \in PartIDs |-> << >>]]
    /\ highWater = [n \in Nodes |-> 0]
    /\ inflight = [n \in Nodes |-> {}]
    /\ acked = [n \in Nodes |-> {}]
    /\ saved = [n \in Nodes |-> {}]
    /\ oks = {}
    /\ restarts = 0

Next ==
    /\ \/ \E n \in Nodes :
            \/ Apply(n) \/ Elect(n) \/ Restart(n) \/ Persist(n)
            \/ \E p \in PartIDs : Deliver(n, p) \/ \E key \in setup.keys : Publish(n, key, p)
       \/ CreateTopic
       \/ \E kind \in {"ack", "nack"}, p \in PartIDs, id \in IDs : Settle(kind, p, id)
    /\ UNCHANGED setup

Spec == Init /\ [][Next]_vars

-----------------------------------------------------------------------------
Command == [kind : {"pub", "ack", "nack", "create"}, part : 0..Parts, key : Keys \cup {NoKey}, id : IDs]
Record == [index : 1..MaxLog, key : Keys \cup {NoKey}]
Entry == [key : Keys, id : IDs]
Messages == [part : PartIDs, id : IDs, attempts : 1..MaxLog + 1]

TypeOK ==
    /\ setup \in Setups
    /\ log \in Seq(Command) /\ Len(log) <= MaxLog
    /\ leader \in Nodes \cup {NoLeader}
    /\ applied \in [Nodes -> 0..MaxLog]
    /\ blocked \in [Nodes -> BOOLEAN]
    /\ waiting \in [Nodes -> SUBSET (1..MaxLog)]
    /\ count \in [Nodes -> 0..Parts]
    /\ wal \in [Nodes -> [PartIDs -> Seq(Record)]]
    /\ dedupe \in [Nodes -> [PartIDs -> Seq(Entry)]]
    /\ \A n \in Nodes, p \in PartIDs : Len(dedupe[n][p]) <= setup.cap
    /\ highWater \in [Nodes -> 0..MaxLog]
    /\ inflight \in [Nodes -> SUBSET Messages]
    /\ acked \in [Nodes -> SUBSET (PartIDs \X IDs)]
    /\ saved \in [Nodes -> SUBSET (PartIDs \X IDs)]
    /\ oks \subseteq [index : 1..MaxLog, part : PartIDs, id : IDs]
    /\ restarts \in 0..MaxRestarts

\* A replayed log writes nothing twice: the records of a partition carry strictly
\* increasing raft indexes however often the node restarts (ApplyPublish's guard).
AppliedOnce ==
    \A n \in Nodes, p \in PartIDs :
      \A i, j \in DOMAIN wal[n][p] : i < j => wal[n][p][i].index < wal[n][p][j].index

\* The high-water skips nothing that is missing: every publish a node has applied
\* is in its WAL, or an earlier record with its dedupe key is.  SyncNone can lose
\* one partition's record and keep a later one of another partition.
NothingSkipped ==
    setup.sync = "fsync" =>
      \A n \in Nodes : \A i \in 1..applied[n] :
        (log[i].kind = "pub" /\ log[i].part < count[n]) =>
          \E r \in DOMAIN wal[n][log[i].part] :
            LET record == wal[n][log[i].part][r]
            IN  record.index = i \/ (record.index < i /\ record.key = log[i].key /\ record.key # NoKey)

\* The circumstances under which replicas hold the same records: fsync, the same
\* partition count everywhere, and an LRU that either never evicts or is never
\* rebuilt (a rebuilt one forgets which entries a duplicate refreshed).
Deterministic ==
    /\ setup.sync = "fsync"
    /\ setup.default = Parts \/ "create" \notin setup.events
    /\ setup.restarts = 0 \/ Cardinality(setup.keys) <= setup.cap

\* The MsgID a PUB returned names the same message on every node that has applied
\* it, through changes of leader and restarts: MsgIDs are assigned by Apply, in
\* log order, and nowhere else (applyPublish).
MsgIDsAgree ==
    Deterministic =>
      \A ok \in oks, n \in Nodes :
        ok.index <= applied[n] =>
          /\ ok.id < Len(wal[n][ok.part])
          /\ LET record == wal[n][ok.part][ok.id + 1]
             IN  record.index = ok.index \/ (record.index < ok.index /\ record.key = log[ok.index].key)

\* The comment above the Apply methods: they produce byte-identical state
\* everywhere, so nodes that have applied the whole log hold the same records and
\* offsets.
ReplicasAgree ==
    \A m, n \in Nodes :
      (applied[m] = Len(log) /\ applied[n] = Len(log)) => wal[m] = wal[n] /\ acked[m] = acked[n]

\* ApplyCreateTopic's comment: Apply cannot recurse back into Propose.
ApplyNeverProposes == \A n \in Nodes : ~blocked[n]

=============================================================================
