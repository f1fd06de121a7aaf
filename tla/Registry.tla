------------------------------ MODULE Registry ------------------------------
(***************************************************************************)
(* The topic registry of a broker: the map of open topics under b.mu, the  *)
(* topic directories behind it, and the routing of publishes to            *)
(* partitions.                                                             *)
(*                                                                         *)
(* A topic directory either holds the files of its only partition, or a    *)
(* meta.json with a count and a directory for each partition.  Opening a   *)
(* topic takes several disk steps.  b.mu is held across them, but an I/O   *)
(* error or a crash can come after each.  What a partition does with its   *)
(* records is in modules Wal and Delivery; here a publish is one step.     *)
(***************************************************************************)
EXTENDS Integers, FiniteSets

CONSTANTS
    Topics,
    Callers,       \* sessions
    RoutingKeys,
    Hash,          \* fnv1a of each routing key
    MaxParts,      \* bound: partitions of a topic
    Setups         \* environments, see SetupType

SetupType ==
    [topics   : SUBSET Topics,
     creates  : SUBSET (1..MaxParts),     \* counts that CREATE asks for
     defaults : SUBSET (1..MaxParts),     \* values of -default-partitions, one per process
     parts    : SUBSET (0..MaxParts),     \* partitions that PUB asks for explicitly
     records  : Nat,                      \* records published to a topic, without repetitions
     stops    : Nat,
     events   : SUBSET {"io", "power"}]

Main == "main"          \* newBroker's loop over the topic directories
Nobody == "nobody"

ASSUME RegistryAssumption ==
    /\ MaxParts \in Nat \ {0}
    /\ Hash \in [RoutingKeys -> Nat]
    /\ Main \notin Callers /\ Nobody \notin Callers
    /\ Setups \subseteq SetupType

NoKey == "-"
Keys == RoutingKeys \cup {NoKey}
NoPart == -1
Flat == -1              \* the directory of a topic's only partition is the topic's own
Slots == {Flat} \cup 0..MaxParts - 1
NoMeta == -1
Torn == 0               \* a meta.json that does not parse, or whose count is below 1

Procs == Callers \cup {Main}

VARIABLES
    setup,
    made,       \* per topic: its directory exists
    meta,       \* per topic: the count in meta.json, NoMeta or Torn
    stored,     \* per topic: slot of each record on disk and the routing key that chose it, or NoKey
    phase,      \* "down", "starting" or "up"
    default,    \* defaultPartitions of this process
    entries,    \* topic directories newBroker has still to open
    mu,         \* who holds b.mu for writing
    topics,     \* per topic: its partition count in b.topics, 0 when it is not there
    logs,       \* per topic and slot: wal.Logs open on that directory
    rr,         \* per topic: the round-robin cursor, modulo the count
    call,       \* per process: the call it is in
    told,       \* per topic: counts it has been open with
    stops

diskVars == <<made, meta, stored>>
memVars == <<phase, default, entries, topics, logs, rr>>
state == <<diskVars, memVars, mu, call, told, stops>>
vars == <<setup, state>>

Idle == [pc |-> "idle", op |-> "none", topic |-> "none", want |-> 0, key |-> NoKey, part |-> NoPart,
         count |-> 0, next |-> 0]

-----------------------------------------------------------------------------
(* The directory of a topic *)

\* topicPartitionCount: 0 when there is no directory, Torn as an error of its own.
Exists(t) == made[t]
Unreadable(t) == meta[t] = Torn
DiskCount(t) == IF meta[t] > 0 THEN meta[t] ELSE 1

\* openTopicLocked's directory of partition p.
SlotOf(n, p) == IF n = 1 THEN Flat ELSE p

SlotsOf(n) == {SlotOf(n, p) : p \in 0..n - 1}

-----------------------------------------------------------------------------
(* Calls *)

Return(c) == call' = [call EXCEPT ![c] = Idle]

\* Mutant: a path without the deferred unlock.
KeepsLock == UNCHANGED mu

Unlock == mu' = Nobody

Begin(c, op, t, want, key, part) ==
    /\ call[c] = Idle
    /\ call' = [call EXCEPT ![c] =
                  [pc |-> IF op = "create" THEN "lock" ELSE "look", op |-> op, topic |-> t,
                   want |-> want, key |-> key, part |-> part, count |-> 0, next |-> 0]]
    /\ UNCHANGED <<diskVars, memVars, mu, told, stops>>

\* CREATE, PUB, and SUB's TopicPartitions and EnsureTopic.
Request(c) ==
    /\ phase = "up" /\ c # Main
    /\ \E t \in setup.topics :
         \/ \E n \in setup.creates : Begin(c, "create", t, n, NoKey, NoPart)
         \/ /\ Cardinality(stored[t]) < setup.records
            /\ \E key \in Keys, p \in setup.parts \cup {NoPart} : Begin(c, "pub", t, 0, key, p)
         \/ Begin(c, "sub", t, 0, NoKey, NoPart)

\* newBroker calls getOrCreateTopic for the next directory.
Recover ==
    /\ phase = "starting"
    /\ \E t \in entries : Begin(Main, "recover", t, 0, NoKey, NoPart)

\* What follows getOrCreateTopic.
Proceed(c) ==
    IF call[c].op = "pub" THEN call' = [call EXCEPT ![c].pc = "route"] ELSE Return(c)

\* getOrCreateTopic's lookup under b.mu.RLock.
Look(c) ==
    /\ call[c].pc = "look"
    /\ mu = Nobody
    /\ IF topics[call[c].topic] > 0 THEN Proceed(c)
       ELSE call' = [call EXCEPT ![c].pc = "lock"]
    /\ UNCHANGED <<diskVars, memVars, mu, told, stops>>

\* The count openTopicLocked settles on.
Count(c, t) ==
    IF Exists(t) THEN DiskCount(t)
    ELSE IF call[c].want > 0 THEN call[c].want
    ELSE default

\* Mutant: the file is written by every open of the topic.
AlwaysNeedsMeta(c, t) == Count(c, t) > 1

\* openTopicLocked writes meta.json.
NeedsMeta(c, t) == ~Exists(t) /\ Count(c, t) > 1

\* openTopicLocked's errors before it writes anything.
Refused(c, t) ==
    \/ Unreadable(t)
    \/ Exists(t) /\ call[c].want > 0 /\ DiskCount(t) # call[c].want

\* newBroker returns the error and the process ends.
Exit ==
    /\ phase' = "down"
    /\ entries' = {}
    /\ topics' = [t \in Topics |-> 0]
    /\ logs' = [t \in Topics |-> [s \in Slots |-> 0]]
    /\ rr' = [t \in Topics |-> 0]
    /\ UNCHANGED default

\* A call of openTopicLocked that fails with the logs in closed shut again.
Fail(c, closed) ==
    /\ Unlock
    /\ Return(c)
    /\ IF c = Main THEN Exit
       ELSE /\ logs' = [logs EXCEPT ![call[c].topic] =
                          [s \in Slots |-> IF s \in closed THEN @[s] - 1 ELSE @[s]]]
            /\ UNCHANGED <<phase, default, entries, topics, rr>>

\* Mutant: the map is not looked at again.
NoSecondLookup(t) == FALSE

\* The lookup under b.mu.Lock: another call may have opened the topic in between.
Registered(t) == topics[t] > 0

\* createTopicLocal and the second half of getOrCreateTopic, up to the first disk step.
Lock(c) ==
    LET t == call[c].topic IN
    /\ call[c].pc = "lock"
    /\ mu = Nobody
    /\ \/ /\ Registered(t)
          /\ IF call[c].op = "create" THEN Return(c) ELSE Proceed(c)
          /\ UNCHANGED <<mu, memVars>>
       \/ /\ ~Registered(t) /\ Refused(c, t)
          /\ Fail(c, {})
       \/ /\ ~Registered(t) /\ ~Refused(c, t)
          /\ mu' = c
          /\ call' = [call EXCEPT ![c].pc = IF NeedsMeta(c, t) THEN "mkdir" ELSE "open",
                                  ![c].count = Count(c, t)]
          /\ UNCHANGED memVars
    /\ UNCHANGED <<diskVars, told, stops>>

\* writeTopicMeta: MkdirAll, then WriteFile, which creates an empty file and fills it.
Mkdir(c) ==
    /\ call[c].pc = "mkdir"
    /\ made' = [made EXCEPT ![call[c].topic] = TRUE]
    /\ call' = [call EXCEPT ![c].pc = "create"]
    /\ UNCHANGED <<meta, stored, memVars, mu, told, stops>>

MetaCreate(c) ==
    /\ call[c].pc = "create"
    /\ meta' = [meta EXCEPT ![call[c].topic] = Torn]
    /\ call' = [call EXCEPT ![c].pc = "write"]
    /\ UNCHANGED <<made, stored, memVars, mu, told, stops>>

MetaWrite(c) ==
    /\ call[c].pc = "write"
    /\ meta' = [meta EXCEPT ![call[c].topic] = call[c].count]
    /\ call' = [call EXCEPT ![c].pc = "open"]
    /\ UNCHANGED <<made, stored, memVars, mu, told, stops>>

\* openPartition for the next partition; after the last one the topic is registered.
OpenPartition(c) ==
    LET t == call[c].topic
        n == call[c].count
        p == call[c].next
    IN  /\ call[c].pc = "open"
        /\ made' = [made EXCEPT ![t] = TRUE]
        /\ logs' = [logs EXCEPT ![t][SlotOf(n, p)] = @ + 1]
        /\ IF p + 1 < n
           THEN /\ call' = [call EXCEPT ![c].next = p + 1]
                /\ UNCHANGED <<mu, topics, rr, told, entries>>
           ELSE /\ topics' = [topics EXCEPT ![t] = n]
                /\ rr' = [rr EXCEPT ![t] = 0]
                /\ told' = [told EXCEPT ![t] = @ \cup {n}]
                /\ entries' = entries \ {t}
                /\ Unlock
                /\ Proceed(c)
        /\ UNCHANGED <<meta, stored, phase, default, stops>>

\* The partitions that openTopicLocked closes when the next one fails.
Opened(c) == {SlotOf(call[c].count, p) : p \in 0..call[c].next - 1}

\* One of these steps fails.  By then the directory of a flat topic may be there, and
\* meta.json may be complete.
IOError(c) ==
    /\ "io" \in setup.events
    /\ call[c].pc \in {"mkdir", "create", "write", "open"}
    /\ Fail(c, IF call[c].pc = "open" THEN Opened(c) ELSE {})
    /\ \/ UNCHANGED <<made, meta>>
       \/ call[c].pc = "open" /\ made' = [made EXCEPT ![call[c].topic] = TRUE] /\ UNCHANGED meta
       \/ call[c].pc = "write" /\ meta' = [meta EXCEPT ![call[c].topic] = call[c].count] /\ UNCHANGED made
    /\ UNCHANGED <<stored, told, stops>>

\* Mutant: the routing key is not looked at.
IgnoresKey(c) ==
    IF call[c].part # NoPart THEN call[c].part ELSE rr[call[c].topic] % topics[call[c].topic]

\* Topic.route: an explicit partition, the hash of the routing key, or the next in turn.
Route(c) ==
    LET n == topics[call[c].topic] IN
    IF call[c].part # NoPart THEN call[c].part
    ELSE IF call[c].key # NoKey THEN Hash[call[c].key] % n
    ELSE rr[call[c].topic] % n

\* Mutant: off by one.
OneMore(p, n) == p <= n

\* route's check of an explicit partition.
InRange(p, n) == p < n

\* An explicit partition wins over a routing key.
RoutedBy(c) == IF call[c].part = NoPart THEN call[c].key ELSE NoKey

\* PublishCtx routes and appends, in a topic that stays open as long as the process.
Publish(c) ==
    LET t == call[c].topic
        n == topics[t]
    IN  /\ call[c].pc = "route"
        /\ IF InRange(Route(c), n)
           THEN stored' = [stored EXCEPT ![t] = @ \cup {<<SlotOf(n, Route(c)), RoutedBy(c)>>}]
           ELSE UNCHANGED stored
        /\ rr' = IF n > 1 /\ call[c].part = NoPart /\ call[c].key = NoKey
                 THEN [rr EXCEPT ![t] = (@ + 1) % n] ELSE rr
        /\ Return(c)
        /\ UNCHANGED <<made, meta, phase, default, entries, topics, logs, mu, told, stops>>

-----------------------------------------------------------------------------
(* The process *)

\* newBroker, up to its loop.
Start ==
    /\ phase = "down"
    /\ phase' = "starting"
    /\ default' \in setup.defaults
    /\ entries' = {t \in Topics : made[t]}
    /\ UNCHANGED <<diskVars, topics, logs, rr, mu, call, told, stops>>

Serve ==
    /\ phase = "starting"
    /\ entries = {}
    /\ phase' = "up"
    /\ UNCHANGED <<diskVars, default, entries, topics, logs, rr, mu, call, told, stops>>

Stopped ==
    /\ phase # "down"
    /\ stops < setup.stops
    /\ stops' = stops + 1
    /\ Exit
    /\ Unlock
    /\ call' = [c \in Procs |-> Idle]
    /\ UNCHANGED told

Kill == Stopped /\ UNCHANGED diskVars

\* Broker.Close takes b.mu before it closes the logs, and the process ends.
Close == phase = "up" /\ mu = Nobody /\ Stopped /\ UNCHANGED diskVars

\* meta.json is not fsynced: a machine failure can leave it empty or not at all.
PowerLoss ==
    /\ "power" \in setup.events
    /\ Stopped
    /\ meta' \in [Topics -> NoMeta..MaxParts]
    /\ \A t \in Topics : meta'[t] \in {meta[t], Torn, NoMeta} /\ (meta[t] = NoMeta => meta'[t] = NoMeta)
    /\ UNCHANGED <<made, stored>>

-----------------------------------------------------------------------------
Init ==
    /\ setup \in Setups
    /\ made = [t \in Topics |-> FALSE]
    /\ meta = [t \in Topics |-> NoMeta]
    /\ stored = [t \in Topics |-> {}]
    /\ phase = "down"
    /\ default \in setup.defaults
    /\ entries = {}
    /\ mu = Nobody
    /\ topics = [t \in Topics |-> 0]
    /\ logs = [t \in Topics |-> [s \in Slots |-> 0]]
    /\ rr = [t \in Topics |-> 0]
    /\ call = [c \in Procs |-> Idle]
    /\ told = [t \in Topics |-> {}]
    /\ stops = 0

Open(c) == Mkdir(c) \/ MetaCreate(c) \/ MetaWrite(c) \/ OpenPartition(c) \/ IOError(c)

Next ==
    /\ \/ \E c \in Procs : Request(c) \/ Look(c) \/ Lock(c) \/ Open(c) \/ Publish(c)
       \/ Recover \/ Start \/ Serve \/ Kill \/ Close \/ PowerLoss
    /\ UNCHANGED setup

Spec == Init /\ [][Next]_vars

\* A call goes on while its process runs, and a sync.RWMutex does not starve a waiter.
Fairness ==
    \A c \in Procs :
      /\ WF_vars(Open(c) /\ UNCHANGED setup)
      /\ WF_vars(Publish(c) /\ UNCHANGED setup)
      /\ SF_vars(Look(c) /\ UNCHANGED setup)
      /\ SF_vars(Lock(c) /\ UNCHANGED setup)

FairSpec == Spec /\ Fairness

-----------------------------------------------------------------------------
Call ==
    [pc    : {"idle", "look", "lock", "mkdir", "create", "write", "open", "route"},
     op    : {"none", "create", "pub", "sub", "recover"},
     topic : Topics \cup {"none"},
     want  : 0..MaxParts,
     key   : Keys,
     part  : {NoPart} \cup 0..MaxParts,
     count : 0..MaxParts,
     next  : 0..MaxParts]

TypeOK ==
    /\ setup \in Setups
    /\ made \in [Topics -> BOOLEAN]
    /\ meta \in [Topics -> NoMeta..MaxParts]
    /\ stored \in [Topics -> SUBSET (Slots \X Keys)]
    /\ phase \in {"down", "starting", "up"}
    /\ default \in 1..MaxParts
    /\ entries \in SUBSET Topics
    /\ mu \in Procs \cup {Nobody}
    /\ topics \in [Topics -> 0..MaxParts]
    /\ logs \in [Topics -> [Slots -> Nat]]
    /\ rr \in [Topics -> Nat]
    /\ call \in [Procs -> Call]
    /\ told \in [Topics -> SUBSET (1..MaxParts)]
    /\ stops \in Nat

Powered == "power" \in setup.events

\* Two Logs on one directory would both hand out its next MsgID.  Whichever callers meet
\* at a topic nobody has opened, and whatever fails while one opens it, a directory has
\* at most one open Log, and an open topic has one for each of its partitions
\* (getOrCreateTopic's second lookup, openTopicLocked's clean-up).
OneLogEach ==
    \A t \in Topics :
      /\ \A s \in Slots : logs[t][s] <= 1
      /\ topics[t] > 0 => \A s \in Slots : logs[t][s] = 1 <=> s \in SlotsOf(topics[t])

\* A topic's count is fixed at creation (ADR 0021): the directory of a topic that was
\* ever open says so, readably, in the middle of any call and after any crash, and
\* another value of -default-partitions or a CREATE with another count changes nothing.
CountFixed ==
    ~Powered =>
      \A t \in Topics : \A n \in told[t] :
        /\ Exists(t) /\ ~Unreadable(t) /\ DiskCount(t) = n
        /\ topics[t] \in {0, n}

\* A keyed producer always lands on the same partition (ADR 0021), in this process and
\* in later ones, so the records it routes are ordered.
KeyedTogether ==
    ~Powered =>
      \A t \in Topics : \A a, b \in stored[t] : a[2] = b[2] /\ a[2] # NoKey => a[1] = b[1] 

\* A published record is in a partition that the topic has whenever it is opened again.
Reachable ==
    ~Powered =>
      \A t \in Topics : \A r \in stored[t] : ~Unreadable(t) /\ r[1] \in SlotsOf(DiskCount(t))

\* A call returns, and lets go of b.mu, on every path through openTopicLocked.
CallsReturn == \A c \in Procs : call[c].pc # "idle" ~> call[c].pc = "idle"

=============================================================================
