# toymq in TLA+

A specification of toymq, the message broker in this repository, for TLC and
TLAPS. TLC checks every module on small instances; TLAPS proves the safety properties
of the passing runs, those of `Cluster` excepted, for all values of the constants.
`PROJECT.json` lists the runs, the
source lines behind every definition, a mutation of the code for every property, the
hazards and the theorems.

## The system

A topic is a set of partitions. Each has a segmented write-ahead log, a dedupe
index, and consumers with offsets. A client opens a connection, on which a session
of the broker answers its commands and pushes it messages. In cluster mode PUB, ACK,
NACK and CREATE go through toyraft and are applied by every node; the cluster client
looks for the leader.

| Part | State | Operations | Interacts with |
|---|---|---|---|
| WAL (`internal/wal`) | segment files, written and committed offsets, next MsgID | Append, rotate, flush, DropSegmentsBefore, Close, Open | appenders, committer goroutine, sweeper, the disk |
| Reader (`wal/reader.go`) | segment, position | NewReader, Next | WAL under `l.mu`, files outside it |
| Registry (`broker/broker.go`, `topic.go`, `meta.go`) | topics map, topic directories, `meta.json`, round-robin cursor | newBroker, CreateTopic, getOrCreateTopic, route, Close | WAL, sessions, the disk |
| Consumer, delivery (`broker/consumer.go`, `partition.go`, `redelivery.go`) | inflight, lastAcked, aboveLast, paused, current subscription | Subscribe, deliver, Ack, Nack, Pause, Resume, sweep | Reader, session channels, DLQ |
| Offsets (`broker/offsets.go`) | dirty flags, `offsets.json` | flush, load | consumers, crashes |
| DLQ (`broker/dlq.go`) | a topic `<t>.dlq` | dlqMove | NACK, sweep, CreateTopic |
| Retention (`broker/retention.go`) | policy, segment snapshot | sweep | WAL, delayed messages |
| Dedupe (`broker/dedupe.go`) | an LRU per partition | Lookup, Insert, rebuild | publish, recovery |
| Replication (`internal/replication`, `broker.go`) | raft log, high-water | Propose, Apply, replay, WAIT barrier | toyraft (external) |
| Session, server (`internal/server`) | respCh, sendCh, current subscription | handshake, commands, writer, shutdown | broker, socket |
| Client (`pkg/client`) | pending queue, deliveryCh, done | Dial, calls, readLoop, Close | socket, application |
| Cluster client (`pkg/client/cluster.go`) | current member, live connection | DialCluster, redirect loop, Close | several clients, the leader |

What makes these hard: the committer's fsync runs outside the lock; a crash can come
between any two disk steps; a new subscription takes over from a running delivery
goroutine; a wake-up channel holds one signal; responses are matched to requests by
position alone; raft replays its whole log after a restart; a publish is retried
after an answer got lost; a topic's directory is made in several steps; retention works
on a snapshot. The properties are about those places.

## Modules

| Module | Models | Extends |
|---|---|---|
| `Wal` | `internal/wal` without Readers | |
| `WalReader` | a Reader beside the whole of `Wal` | `Wal` |
| `PartitionLog` | what a durable log promises, without files | |
| `WalRefines` | the mapping of `Wal` to `PartitionLog` | `Wal` |
| `Registry` | topics, their directories, routing | |
| `Delivery` | one consumer of one partition | |
| `Retention` | the sweep policy and the drop | |
| `Replication` | propose, apply, recovery on every node | |
| `Cluster` | cluster clients and the WAIT barrier | `Replication` |
| `Wire` | a TCP connection | |
| `Session` | the broker's side of it | `Wire` |
| `Client` | the Go client's side | `Wire` |
| `Connection` | both, composed | `Client`, `Session` |
| `WalProofs` | theorems about `Wal`: types, recovery, what is readable | `Wal` |
| `WalDurability` | theorems about `Wal`: acknowledged records, refinement | `WalProofs`, `WalRefines` |
| `WalReading` | theorems about `WalReader` | `WalProofs`, `WalReader` |
| `BrokerProofs` | theorems about `Registry` and about `Retention` | `Registry`, `Retention` |
| `DeliveryProofs` | theorems about `Delivery` | `Delivery` |
| `ReplicationProofs` | theorems about `Replication`: what is stored | `Replication` |
| `ReplicationAgreement` | theorem about `Replication`: the replicas' MsgIDs agree | `ReplicationProofs` |
| `ConnectionProofs` | theorems about `Connection` | `Connection` |
| `MC*` | instances for TLC | |

Most modules have a constant `Setups`, a set of configurations and environments (the
sync mode, which faults and events happen). A behaviour picks one in `setup` and
keeps it, so one run covers several configurations with a bound for each. `Cluster`
has `Plans` besides: who publishes what, through which client, and what happens to the
nodes meanwhile.

**Wal.** Records have length 1, so `SegmentBytes` counts records. `file[i]` is what
was written to segment `i`, `synced[i]` how much an fsync covered, `torn[i]` where an
interrupted write left garbage. An Append is `AppendStart` (lock, rotate if full),
`AppendWrite`, and then `AppendSync` (per-message), nothing (none) or a wait for
`AppendReturn` (batched). The committer is `FlushSnapshot`, `FlushSync` outside the
lock, `FlushPublish`. `Kill` keeps the page cache; `PowerLoss` keeps the fsynced part of
every file, any prefix of the rest, perhaps part of a frame, and may lose new files that
no fsync has covered. `Open` is recovery.

A graceful stop is `CloseStart` (stopCommit), the committer's last flush, `CloseFinish` (the
descriptors are closed) and `Exit` (the process ends, `cmd/toymq/main.go`). Between the last
two the log's memory is still there: an append can write nothing to the closed file, and
one that waits stays in `cond.Wait`, because Close does not broadcast. An Append that has to
rotate opens a new file all the same.

**WalReader.** `NewReader` picks a segment under the lock, `OpenSegment` opens it
outside, `Scan` positions it, `ReadRecord` and `Roll` are `Next`.

**PartitionLog.** A set of stored records with distinct MsgIDs that grows or is trimmed
from the oldest, and a set of records answered with OK, each stored or trimmed. `Wal`
implements it with the stored records read off the fsynced files. A log without
fsync, or with half-written frames in front of good ones, promises nothing (`Lax`).

**Registry.** `made`, `meta` and `stored` are a topic's directory, its `meta.json` and
the partitions its records are in; `topics` and `logs` are the map and the open Logs. A
CREATE, PUB or SUB is a call that goes through `Look` (the read lock), `Lock`, and the
disk steps `Mkdir`, `MetaCreate`, `MetaWrite`, `OpenPartition` with `b.mu` held, each of
which may fail (`IOError`) or be the last before a `Kill`. `Publish` is `Topic.route`
and the append. newBroker is `Start`, a call for each directory, and `Serve`.

**Delivery.** A SUB is `SubCommand`, `Swap` (replace the current subscription),
`Detach`, `Spawn`; the goroutine then goes through `Start`, `OpenReader`, `Credit` or
sleep, `Read`, `Visible`, `Insert`, `Send` or `Rollback`. The sweep collects under the
lock and pushes or moves afterwards. A flush of offsets is clear, snapshot, write.

**Retention.** A sweep is `SweepStart`, which takes the snapshot, and `SweepDrop`;
publishes (`PublishAppend`) come in between. Of the active segment the snapshot has the
committed bytes, which may be any number of those written (`Infos`); its times are those of
all its records. Timestamps have `TimeWidth` bits and wrap. `BytesFrom` is the running
total of `keepIndexByBytes`.

**Replication.** toyraft is external: a sequence of committed commands, a leader that
may change at any time, and one apply goroutine per node that starts from the first
command after a restart. Each node has its partitions, LRUs, high-water, inflight
table and offsets. `blocked` says that the apply goroutine waits inside Propose. Every
entry decodes.

**Cluster.** A call is `Start`, then `Connect`, `Send`, an answer (`Answered`, `Dropped`,
`Broken`), and on a redirect or a broken connection `Redirect` and again `Connect`, as
often as the backoff allows; calls of one client share its connection. A PUB with WAIT
goes on to `Check` and `Select` on the node that answered. Of raft the module adds what
the barrier reads: how much of the log each node holds, what the leader knows of that,
and the one-place progress signal. A proposal is committed (`Proposes`), or it blocks on a
leader that reaches no quorum (`Blocks`, the call is "stuck"), from where it is committed or
dropped when the partition heals (`Heals`), or its connection breaks.

**Wire, Session, Client, Connection.** Requests are numbered and a frame says which
request it answers; the real frame does not, and no action looks at the number. A call is
`Push`, `Write`, `Await`, or `ContextEnds` in place of the last. A command is parsed, or
answered with an error ("bad"), or ends the session without an answer ("garbled": bad
framing). An ACK or NACK of a message that is not in flight is an error. The session's reader handles a command, queues its frames
one by one, and for SUB starts delivery afterwards; the writer has the two selects
of `runWriter`.

## Runs

| Run | Checks | Bounds |
|---|---|---|
| `wal_safety` | the log implements `PartitionLog`; only fsynced bytes are readable; recovery accepts an intact directory; MsgIDs dense and not reused | 2 appenders, 5 records, 4 segments of 2, 3 stops, all sync modes |
| `reader_tail` | consecutive, durable records; an OK'd record survives; the Reader catches up; an append that waits when Close begins, or earlier, returns | 2 appenders, 3 records, 3 segments of 1, 1 stop |
| `registry` | one Log per directory, a count fixed at creation, a key in one partition, records reachable, calls return | 2 callers, 2 topics, up to 3 partitions, 2 stops |
| `delivery_safety` | window, no gap, no lost wake-up, resume point, `offsets.json` | 3 messages, 3 subscriptions, 2 connections, 1 crash |
| `delivery_live` | every message is acknowledged or dead-lettered | 2 messages, 2 subscriptions |
| `connection_calls` | responses reach their requests, calls return, sessions end | 2 callers, 3 requests, 2 messages, all channels of capacity 1 |
| `replication_apply` | replay writes nothing twice and skips nothing; an OK names one message everywhere | 2 nodes, 4 commands, 2 partitions, 2 restarts |
| `cluster_publish` | a keyed publish is stored once, what a call returns is stored, WAIT is honest and misses no advance, calls return unless their leader stays isolated | 3 nodes, 2 callers, 2 clients, 3 attempts, 2 terms, 1 restart |
| `retention_sweep` | nothing delayed or still retained is dropped, the budget is met | 4 records of 2 sizes, 3 policies, clock 2..4 |
| `wal_msgid_reuse`, `connection_misrouted`, `replication_diverges` | a promise of a doc or comment that the code does not keep | see below |

The bounds are the least at which the cases that matter happen: two appenders are a
group, three segments are a dropped, a sealed and an active one; a window of one
makes every message wait for credit, and channels of capacity one are full as often as
they can be; two nodes are a leader and a follower that trade places, and a barrier
for two followers needs a third; three keys overflow an LRU of two; two callers meet at
a topic, and a third partition leaves one open and one not when the next fails. Deadlock
is not checked: every instance may stop, when its bounds are used up or when the client
has nothing more to do.

Every module has a type invariant. Those of `Wal` and `Delivery` are among the runs; the
others hold on the same instances.

Permutations of appenders and of nodes are symmetries of the safety runs.

**Fairness.** Goroutines that can run are scheduled. Where a step needs `l.mu` or `b.mu`
it may be disabled now and then by others, and Go's mutexes do not starve a waiter: strong
fairness. The committer's ticker and the redelivery ticker keep firing. In
`delivery_live` clients read their sockets, and the one that acknowledges does so for
what it has received. In `connection_calls` the application receives its deliveries.
In `cluster_publish` a node that has a command applies it.
Nothing is assumed of new calls, of contexts (`Cancel` in `Connection` has no fairness), of
retention, of elections, of restarts, of replication to followers, of the healing of a
partition or of the network. So a call of a cluster client that is blocked on an isolated
leader may stay there, and `CallsReturn` of `Cluster` has the premise that every caller is
again and again not so blocked (`Isolated`). That is what ADR 0031 and
`cluster_partition_test.go` say of it: Propose blocks until its context ends.

Some properties carry a premise, where the code does not promise more. `Intact`,
`CommittedDurable` and `Durable` leave out SyncNone under machine failures, short writes,
and a machine failure after a kill. `InOrder` in `Connection` is what the head-of-queue
rule needs. `Deterministic` in `Replication` is what replicas need to agree, and with them
what `ResultStored` needs in `Cluster`; `KeyedStoredOnce` there needs a key that leads to one
partition and an index with a place for every key, so it says nothing of a key that was
evicted. `NoAdvanceMissed` is about the only barrier there is. `OffsetsPersisted` needs
flushes that do not fail. `~Powered` in `Registry` leaves out machine failures, because
`meta.json` is not fsynced. The next section says what happens without them.

What the properties do not reach, by the hazards of `PROJECT.json`: `AckedSurvives` and
`Implements` say nothing once a write has stopped half way. `PowerLoss` keeps the directory
entry of every file that was fsynced, although nothing fsyncs the directory
(`segment.go:53`), so that part of the hazard is not in the model. `CallsReturn` of
`Connection` has an application that receives its deliveries; a consumer that has stalled is
`SlowConsumerHarmless`, below.
`SessionEnds` is about a connection that is gone; an idle reader on a live connection, which
does not notice a shutdown, violates no property.

## Where code and documentation disagree

Runs that end in a violation, with the quotes in `PROJECT.json`:

- `wal_msgid_reuse`: retention leaves only an empty active segment; after a restart
  MsgIDs start at 0 again.
- `connection_misrouted`: a call cancelled after its request was written leaves its
  response to the next call.
- `replication_diverges`: a replicated ACK is an error on nodes that did not deliver the
  message, so offsets are not replicated.

More of the same kind, which are definitions of the modules and not runs. TLC refutes each
with the setups named here, an instance away from the runs above:

- `SealedDurable` (`log.go:294`): in SyncNone `rotate` does not fsync what it seals.
- `CommittedDurable` without its premise, setups with "kill" and "power"
  (`log.go:67`): recovery takes as committed what may only be in the page cache. The same
  setups lead to a torn sealed segment, which `Open` refuses.
- `AckedSurvives` without its premise, fault "short" (`PERSISTENCE.md:258`): records
  behind a half-written frame are lost at the next recovery.
- `CloseReleases` with `TailSetups` (`log.go:383-385`, Close "makes any pending appends durable
  and releases their waiters"): an append that writes behind the snapshot of the last flush
  waits until the process exits, and the record is not committed.
- `NoSpuriousSyncFailure` (`log.go:351`): retention can close the file a flush is about to
  fsync.
- `ReaderSurvives` (`wal/retention.go:70`): `Next` can fail in a dropped segment.
- `CountFixed` and `Reachable` without `~Powered` (ADR 0021, "fixed at creation"): a machine
  failure can take `meta.json` away and leave the partitions; the topic then opens with one
  partition, and the records are in none it has.
- A kill or an I/O error inside the write of `meta.json` leaves a file that does not parse
  (`meta` is `Torn` with the process down), and newBroker then refuses to start with any
  topic until somebody removes it. This happens to a topic that was never open; after a
  machine failure, to any topic. A
  CREATE repeated after a first attempt that failed behind the mkdir is answered "already
  exists with 1 partitions" (ADR 0021: "re-creating with the same count is `OK`").
- `PausePerConnection` (ADR 0022): a consumer stays paused over a reconnect.
- `DeadWasDelivered`, `DeadIsGone` (ADR 0024): attempts are counted without a delivery;
  a dead-lettered message comes back with the next SUB.
- `ResumePoint` without `floor = 0` (ADR 0011): a consumer that starts above the floor
  never counts as having acked.
- `OffsetsPersisted` with fault "offsets" (ADR 0006): a failed flush has cleared the dirty
  flag and is not retried, so the file stays stale until the next ack.
- `SubOKFirst` (`session.go:462`): a MSG can precede the OK of its SUB.
- `SlowConsumerHarmless` with `StallSetups` (`CONCURRENCY.md`): a consumer that does not
  receive blocks every call on that client.
- `ReplicasAgree` with `EvictSetups` (ADR 0018: "the same set the live LRU would hold")
  and with `CreateSetups` (a follower opens a topic with its default count).
- `ApplyNeverProposes` with `NackSetups` (`broker.go:307-308`): a NACK over the
  dead-letter threshold makes the leader's apply goroutine wait for itself.
- `NoAdvanceMissedByAny` with `BothWaiting` (`broker.go:754-756`, "no advance is missed"):
  two barriers share a signal of capacity one, and the one that does not get it sleeps
  over an advance that satisfies it, until the next or its timeout.
- `DialSweeps` (`cluster.go:43`, "It dials members in order until one connects"):
  `DialCluster` gives up when the first member cannot be reached.
- `CONCURRENCY.md:53-57` describes a shutdown that drains; an idle reader notices
  the cancelled context only at its next command, and the writer drops what is
  queued.

## Proofs

Every safety property of a passing run but `cluster_publish` is a theorem, for any values of
the constants: any number of appenders, nodes, connections, messages, restarts. The
assumptions are `WalAssumption`, `RegistryAssumption`, `DeliveryAssumption`,
`RetentionAssumption`, `ReplicationAssumption` and those of the connection's modules: bounds
are natural numbers, sets of the right kind, the sets of keys finite, and the clock starts
within its range. (That `2^TimeWidth`
is a number is assumed too, because the prover does not know exponentiation.) None of the
properties is inductive; what follows is the invariants that are.

**The log.** `WalProofs` proves `TypeCorrect`, `Spec => []TypeOK`. The work is in recovery:
the offsets and MsgIDs that `Open` computes come from a scan (`ScannedBefore`,
`NextIDAfter`) over finite sets that must have a least or greatest element.

`LogInv` has three layers. `Struct`, in every configuration: at most one append holds the
lock (`Mutex`); the offsets follow from the lengths of the files (`Layout`), in particular a
snapshot that would still move `committed` is one of the active segment; no file is longer
than what was appended (`Lengths`). `Tight`: with fsync and no stops but machine failures,
every sealed segment is fsynced and `committed` is not past the fsynced part of the active
one (`ReadableIsDurable`). `Whole`: under `Intact`, only the active file has garbage, and
segments follow one another without a gap in their MsgIDs, recovery included
(`RecoverySucceeds`, `DenseIDs`).

**Durability.** `WalDurability` adds what an answer promises. `AckedRecordsSurvive`,
`Spec => []AckedSurvives`: with fsync, and when no write stops half way, a record whose
Append returned without error is fsynced, in front of any garbage, until retention drops its
segment. It rests on `Kept`: garbage is only at the end of a file (`Garbage`); what the
committer will publish is fsynced (`Covered`); a record waiting for its commit is where its
end offset says (`Pending`); acknowledged records are fsynced or dropped (`Acknowledged`).
`Held` says the weaker thing that is left without fsync: what was answered OK is in a file
(`AckedRecordsScanned`).

`Ordered` says that MsgIDs ascend through the files and stay below the next one
(`MsgIDsStayUnique`), so that a trim takes the oldest. With it `Implementation`,
`Spec => Implements`: the log implements `PartitionLog`. Each step maps to `Accept`, `Trim`,
`Lax` or a stutter; `View` says what the fsynced records are in terms of the files, once for
all actions.

**Readers.** A Reader outlives the segments it reads, so nothing about the retained
segments suffices. `Chain(lo)` says that from segment `lo` on, dropped ones included,
MsgIDs and byte offsets advance together; `Track` says that this holds from the Reader's
segment on, where the scan or the roll will put it (`Placed`), and that its position in
the segment is the number of records it has returned (`ReadsInOrder`). `Reads` says that
what it has returned stays where a scan finds it (`DurableRecord`) and that it is never past
an interrupted write (`ReadsAreDurable`).

**The registry.** `BrokerProofs` proves `TypeCorrect` and `LogsUnique`,
`Spec => []OneLogEach`. `Shape` says who may hold `b.mu` and in which step (`Calls`,
`Holder`), that a process that is down has nothing open (`Down`), and which Logs are open:
those of registered topics, and those the holder of the lock has opened so far (`Logs`).
For `CountKept`, `KeysKept` and `RecordsReachable` (`CountFixed`, `KeyedTogether`,
`Reachable`), `OnDisk` says, for a machine that does not fail, what a directory looks like
when its topic was ever open (`Promised`), while a call is making it (`Opening`), and
before (`Untouched`), and where records may be (`Placed`).

**Delivery.** `DeliveryProofs` proves all of `delivery_safety`, and `OneGoroutine`.

The heart is that at most one delivery goroutine of a consumer runs (`Exclusive`). A
goroutine waits only for its predecessor, so this needs the whole chain: `TakeOvers` says
that there is an order of the SUBs that have replaced one another in which each comes
right after its `prev`, the consumer's own is the last, and all before a started one are
done. With it the test in `awaitCredit` is still true at the insertion (`Admitted`), a
wake-up cannot go to the wrong goroutine, and a goroutine's position accounts for
everything behind it (`Positions`). `Saved` relates the offsets, the snapshot a flush holds
and the file; `AckCovers` says that an acknowledgement covers its message and nothing
else, through the drain loop.

**Retention.** `BrokerProofs` also proves the three properties of `retention_sweep`. `Stored`
says that the segments are numbered without a gap, that no delayed record is later than
its segment's mark (`Numbered`), and that since the snapshot the log has changed only from
the snapshot's last segment on (`Grown`). So the index that the sweep computes from its
snapshot cuts the log at the same segment (`DropFacts`), and what is dropped has not
changed since. `BytesFromGrows` is the fact about the running total: it only grows towards
older segments, so the loop's first segment past the budget separates all of them.

**Replication.** In `ReplicationProofs`, `Core` holds in every configuration: a record's raft
index is not above what its node has reached (`Order`, with `Reach` the higher of applied
and high-water), and every entry of the dedupe index names a record with its key
(`Indexed`); `WrittenOnce` is `Order`. `Present` says that with fsync each command up to
`Reach` is stored or stands behind an earlier record with its key (`NoneSkipped`).

`ReplicasAgreeOnIDs`, in `ReplicationAgreement`, needs what nodes would hold that are never in the same state at the
same time. `Agreed` says that there is a history: records and index of each partition
after each number of commands (`History`), such that every node's records are those of the
history at what it has reached (`Follows`), and an answer is in the history at its command
(`OksHold`). The step is to continue the history by each appended command, and to show
that Apply, replay and `rebuildIndexes` follow it: a rebuilt index is not the one before
the restart, but where there is a place for every key it holds the same keys (`Covers`).

**Connection.** Responses carry no number on the wire, so that they match is a fact about
every queue between the two ends. `Stages` cuts the requests at three points: read by the
session, taken by its writer, written to the socket; between two of them the answers are
the next numbers in order, and `Arriving` says the same of the socket and the pending
queue, also after the connection broke (`AnswersMatch`). `ConnectionTypes` has the
capacities of the channels.

**Model-checked only:** liveness (`TailsToEnd`, `AppendsReturn`, `AllConsumed`,
`SessionEnds` and the three `CallsReturn`), which the prover does not do; the safety
properties of `Cluster`; and the violations.

## Not modelled

Raft itself, its transport, TLS and tokens, metrics, tracing, configuration, the
command-line tools and the test harnesses: external, or without effect on the state above.

Left out of the modules there are: sessions that change topic (`Session` has one); SUB,
ACK and CREATE through the cluster client, which take the same loop as PUB; callers'
contexts in `Cluster`; I/O errors under replication, and entries that do not decode; an
`os.Remove` that fails in DropSegmentsBefore, which leaves a file behind for the next
recovery to find (`wal/retention.go:95-98`); the loss of a directory entry whose file was
fsynced; the bytes of frames and envelopes. Five hazards of `PROJECT.json` have no property,
each with the reason.

## Plan

Done: the log, its reader and its refinement of `PartitionLog`; registry; delivery; the
two ends of a connection; replication, cluster client and barrier; retention; proofs of
the safety properties of all of them but the cluster client.

Next: proofs for `Cluster` on top of `ReplicationProofs`; an at-least-once queue that
`Delivery` implements; a replicated log that `Cluster` implements, with the barrier's
promise in it; sessions that change topic.
