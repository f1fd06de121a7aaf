------------------------------ MODULE Cluster ------------------------------
(***************************************************************************)
(* The cluster client (pkg/client/cluster.go) and the WAIT barrier, over   *)
(* the replicated topic of module Replication.                             *)
(*                                                                         *)
(* A ClusterClient has one live connection, shared by the goroutines that  *)
(* call it.  A call goes through redirectLoop: connect, run the operation, *)
(* and on a redirect or a broken connection back off, move to another      *)
(* member and run it again.  The operation is a PUB, with a dedupe key or  *)
(* without, and perhaps with WAIT.                                         *)
(*                                                                         *)
(* Of toyraft the module adds what the barrier looks at: how much of the   *)
(* log each node holds, what the leader knows of it (MatchIndex), and the  *)
(* progress signal.  An entry is in the log once it is committed.  A       *)
(* leader cut off from its quorum keeps a proposal waiting: that entry is  *)
(* committed later, or it is truncated and the proposal dropped.  The      *)
(* callers' contexts do not end.                                           *)
(***************************************************************************)
EXTENDS Replication, Functions

CONSTANTS
    Clients,
    Callers,      \* goroutines, one call each
    Plans,        \* what they do and what happens meanwhile, see PlanType
    MaxAttempts,  \* bound on the retry limit
    MaxTerms      \* bound on the number of elections

AnyPart == -1   \* no routing key: round-robin

PlanType ==
    [callers  : SUBSET Callers,                       \* those that make their call
     client   : [Callers -> Clients],
     key      : [Callers -> Keys \cup {NoKey}],
     part     : [Callers -> PartIDs \cup {AnyPart}],  \* where the routing key leads
     wait     : [Callers -> Nat],                     \* WAIT replicas, 0 without
     members  : Seq(Nodes),
     tagged   : BOOLEAN,                              \* members given as id@addr
     attempts : 1..MaxAttempts,                       \* backoff.attempts
     terms    : 1..MaxTerms,                          \* elections, 1 for a leader that stays
     events   : SUBSET {"restart", "dial", "drop", "stale", "close", "isolated"}]

ASSUME ClusterAssumption ==
    /\ IsFiniteSet(Callers) /\ IsFiniteSet(Clients)
    /\ MaxAttempts \in Nat \ {0} /\ MaxTerms \in Nat \ {0}
    /\ Plans \subseteq PlanType
    /\ \A pl \in Plans : pl.members # << >>
    /\ \A pl \in Plans, s \in Setups, c \in Callers : pl.key[c] \in s.keys

VARIABLES
    plan,
    idx,        \* per client: position in addrs
    cur,        \* per client: the live connection, see NoConn
    status,     \* per client: "new", "open", "failed" (no DialCluster) or "closed"
    call,       \* per caller: where its redirectLoop is
    held,       \* per node: entries durable in its raft log
    match,      \* per node: what the leader's MatchIndex says of it
    notify,     \* per node: a signal waits in NotifyC
    term        \* elections so far

clientVars == <<idx, cur, status, call>>
raftVars == <<held, match, notify, term>>
clusterState == <<state, clientVars, raftVars>>
clusterVars == <<setup, plan, clusterState>>

NoConn == [node |-> NoLeader, up |-> FALSE]
NoCall == [pc |-> "idle", attempt |-> 0, link |-> "none", hint |-> NoLeader, index |-> 0,
           res |-> "none", part |-> 0, id |-> 0]

Client(c) == plan.client[c]
Node(c) == cur[Client(c)].node

\* Callers that hold client k's connection find it closed.
Lost(calls, k) ==
    [c \in Callers |-> IF Client(c) = k /\ calls[c].link = "live"
                       THEN [calls[c] EXCEPT !.link = "lost"] ELSE calls[c]]

-----------------------------------------------------------------------------
(* redirectLoop *)

Return(c, res) == [call[c] EXCEPT !.pc = "done", !.link = "none", !.res = res]

\* Mutant: the limit is not looked at.
RetryForever(c, hint) == [call[c] EXCEPT !.pc = "backoff", !.link = "none", !.hint = hint]

\* An attempt failed: give up at the limit, or back off.
Retry(c, hint) ==
    IF call[c].attempt + 1 >= plan.attempts
    THEN [Return(c, "limit") EXCEPT !.attempt = @ + 1]
    ELSE [call[c] EXCEPT !.pc = "backoff", !.link = "none", !.hint = hint, !.attempt = @ + 1]

Fails(c, hint) == call' = [call EXCEPT ![c] = Retry(c, hint)]

\* DialCluster dials the first member.
DialCluster(k) ==
    /\ status[k] = "new"
    /\ \/ /\ status' = [status EXCEPT ![k] = "open"]
          /\ cur' = [cur EXCEPT ![k] = [node |-> plan.members[idx[k]], up |-> TRUE]]
       \/ /\ "dial" \in plan.events
          /\ status' = [status EXCEPT ![k] = "failed"]
          /\ UNCHANGED cur
    /\ UNCHANGED <<state, idx, call, raftVars>>

Start(c) ==
    /\ call[c].pc = "idle" /\ c \in plan.callers
    /\ status[Client(c)] \in {"open", "closed"}
    /\ plan.terms = 1 => leader # NoLeader
    /\ call' = [call EXCEPT ![c].pc = "conn"]
    /\ UNCHANGED <<state, idx, cur, status, raftVars>>

\* conn: the live connection, or a Dial of the current address.
Connect(c) ==
    LET k == Client(c) IN
    /\ call[c].pc = "conn"
    /\ \/ /\ status[k] = "closed"
          /\ call' = [call EXCEPT ![c] = Return(c, "closed")]
          /\ UNCHANGED cur
       \/ /\ status[k] = "open" /\ cur[k] # NoConn
          /\ call' = [call EXCEPT ![c].pc = "send", ![c].link = IF cur[k].up THEN "live" ELSE "lost"]
          /\ UNCHANGED cur
       \/ /\ status[k] = "open" /\ cur[k] = NoConn
          /\ cur' = [cur EXCEPT ![k] = [node |-> plan.members[idx[k]], up |-> TRUE]]
          /\ call' = [call EXCEPT ![c].pc = "send", ![c].link = "live"]
       \/ /\ status[k] = "open" /\ cur[k] = NoConn
          /\ "dial" \in plan.events
          /\ Fails(c, NoLeader)
          /\ UNCHANGED cur
    /\ UNCHANGED <<state, idx, status, raftVars>>

Position(n) == CHOOSE i \in DOMAIN plan.members : plan.members[i] = n

\* Mutant: without a usable hint the client stays where it is.
StayPut(k, hint) ==
    IF plan.tagged /\ hint \in Range(plan.members) THEN Position(hint) ELSE idx[k]

\* The hinted member when its id is known, else the next one.
Target(k, hint) ==
    IF plan.tagged /\ hint \in Range(plan.members) THEN Position(hint)
    ELSE (idx[k] % Len(plan.members)) + 1

\* backoff.wait, then redirect: it closes whatever connection is live by now.  A
\* closed client ends the wait, unless the timer was first.
Redirect(c) ==
    LET k == Client(c) IN
    /\ call[c].pc = "backoff"
    /\ \/ /\ status[k] = "closed"
          /\ call' = [call EXCEPT ![c] = Return(c, "closed")]
          /\ UNCHANGED <<idx, cur>>
       \/ /\ cur' = [cur EXCEPT ![k] = NoConn]
          /\ idx' = [idx EXCEPT ![k] = Target(k, call[c].hint)]
          /\ call' = [Lost(call, k) EXCEPT ![c].pc = "conn"]
    /\ UNCHANGED <<state, status, raftVars>>

\* Close.
Close(k) ==
    /\ "close" \in plan.events
    /\ status[k] = "open"
    /\ status' = [status EXCEPT ![k] = "closed"]
    /\ cur' = [cur EXCEPT ![k] = NoConn]
    /\ call' = Lost(call, k)
    /\ UNCHANGED <<state, idx, raftVars>>

-----------------------------------------------------------------------------
(* The operation: PUB on the connected node *)

\* The session of a connection runs one command at a time.
SessionFree(c) ==
    \A d \in Callers \ {c} : Client(d) = Client(c) /\ call[d].link = "live" =>
        call[d].pc \notin {"stuck", "propose", "check", "select"}

\* NotLeaderHint: what the node believes, perhaps nothing, perhaps out of date.
Hints == {NoLeader, leader} \cup IF "stale" \in plan.events THEN Nodes ELSE {}

\* A committed entry is on a majority, and the leader has heard so.
Committed(n, index) ==
    \E Q \in SUBSET Nodes :
      /\ n \in Q /\ 2 * Cardinality(Q) > Cardinality(Nodes)
      /\ held' = [m \in Nodes |-> IF m \in Q THEN index ELSE held[m]]
      /\ match' = [m \in Nodes |-> IF m \in Q THEN index ELSE match[m]]
      /\ notify' = [notify EXCEPT ![n] = TRUE]
      /\ UNCHANGED term

Routes(c) == IF plan.part[c] = AnyPart THEN PartIDs ELSE {plan.part[c]}

\* handlePub and PublishCtx: the entry is committed and its proposal waits for Apply,
\* or the node does not lead and the client is redirected.
Proposes(c) ==
    \E p \in Routes(c) :
      /\ Publish(Node(c), plan.key[c], p)
      /\ \/ /\ Node(c) = leader
            /\ Committed(leader, Len(log) + 1)
            /\ call' = [call EXCEPT ![c].pc = "propose", ![c].index = Len(log) + 1, ![c].part = p]
         \/ /\ Node(c) # leader
            /\ \E hint \in Hints : Fails(c, hint)
            /\ UNCHANGED raftVars

\* The node leads, or led in an earlier term and has not heard of its successor, and
\* reaches no quorum: Propose blocks.
Blocks(c) ==
    /\ "isolated" \in plan.events
    /\ Node(c) = leader \/ term > 1
    /\ call' = [call EXCEPT ![c].pc = "stuck"]
    /\ UNCHANGED <<state, raftVars>>

\* The PUB reaches its session, unless the connection is gone.
Send(c) ==
    /\ call[c].pc = "send"
    /\ \/ /\ call[c].link = "lost"
          /\ Fails(c, NoLeader)
          /\ UNCHANGED <<state, raftVars>>
       \/ /\ call[c].link = "live" /\ SessionFree(c)
          /\ Proposes(c) \/ Blocks(c)
    /\ UNCHANGED <<idx, cur, status>>

\* The partition heals under a blocked proposal: its entry is committed, or truncated
\* and the proposal dropped, which redirects the client.
Heals(c) ==
    /\ call[c].pc = "stuck" /\ call[c].link = "live"
    /\ Proposes(c)
    /\ UNCHANGED <<idx, cur, status>>

\* The node stops being leader while Propose waits: ErrProposalDropped, a redirect
\* for the client, although the entry is in the log.
Dropped(c) ==
    /\ call[c].pc = "propose" /\ call[c].link = "live"
    /\ "drop" \in plan.events
    /\ Node(c) # leader
    /\ waiting' = [waiting EXCEPT ![Node(c)] = @ \ {call[c].index}]
    /\ \E hint \in Hints : Fails(c, hint)
    /\ UNCHANGED <<log, leader, applied, blocked, brokerVars, oks, restarts, idx, cur, status, raftVars>>

\* The connection goes while the call waits for its response.
Broken(c) ==
    /\ call[c].pc \in {"stuck", "propose", "check", "select"}
    /\ call[c].link = "lost"
    /\ Fails(c, NoLeader)
    /\ UNCHANGED <<state, idx, cur, status, raftVars>>

IsDup(n, ok) == wal[n][ok.part][ok.id + 1].index # ok.index

\* Mutant: the MsgID is read back from the partition.
TailID(n, ok) == Len(wal[n][ok.part]) - 1

\* The MsgID that Apply returned.
ReadBack(n, ok) == ok.id

\* Propose returns what Apply returned.  A new record may have to wait for
\* replicas; a duplicate does not.
Answered(c) ==
    /\ call[c].pc = "propose" /\ call[c].link = "live"
    /\ call[c].index \notin waiting[Node(c)]
    /\ \E ok \in oks :
         /\ ok.index = call[c].index
         /\ call' = [call EXCEPT ![c] =
              [ CASE IsDup(Node(c), ok) -> Return(c, "dup")
                  [] ~IsDup(Node(c), ok) /\ plan.wait[c] = 0 -> Return(c, "ok")
                  [] OTHER -> [@ EXCEPT !.pc = "check"]
                EXCEPT !.id = ReadBack(Node(c), ok) ]]
    /\ UNCHANGED <<state, idx, cur, status, raftVars>>

-----------------------------------------------------------------------------
(* waitForReplication *)

\* Mutant: MatchIndex has an entry for the leader itself.
CountsLeader(n, index) == IF n = leader THEN Cardinality({m \in Nodes : match[m] >= index}) ELSE 0

\* followerAckCount; a node that is not leader has no MatchIndex.
FollowerAcks(n, index) ==
    IF n = leader THEN Cardinality({m \in Nodes \ {n} : match[m] >= index}) ELSE 0

Satisfied(c) == FollowerAcks(Node(c), call[c].index) >= plan.wait[c]

\* Enough followers, or into the select.
Check(c) ==
    /\ call[c].pc = "check" /\ call[c].link = "live"
    /\ call' = [call EXCEPT ![c] = IF Satisfied(c) THEN Return(c, "ok") ELSE [@ EXCEPT !.pc = "select"]]
    /\ UNCHANGED <<state, idx, cur, status, raftVars>>

\* Mutant: the count is not read again after a wake-up.
SleepsOn(c) ==
    /\ call[c].pc = "select" /\ call[c].link = "live"
    /\ \/ /\ notify[Node(c)]
          /\ notify' = [notify EXCEPT ![Node(c)] = FALSE]
          /\ UNCHANGED call
       \/ /\ call' = [call EXCEPT ![c] = Return(c, "timeout")]
          /\ UNCHANGED notify
    /\ UNCHANGED <<state, idx, cur, status, held, match, term>>

\* The signal, which one waiter of the node gets, or the deadline: WAITTIMEOUT,
\* which the cluster client does not retry.
Select(c) ==
    /\ call[c].pc = "select" /\ call[c].link = "live"
    /\ \/ /\ notify[Node(c)]
          /\ notify' = [notify EXCEPT ![Node(c)] = FALSE]
          /\ call' = [call EXCEPT ![c].pc = "check"]
       \/ /\ call' = [call EXCEPT ![c] = Return(c, "timeout")]
          /\ UNCHANGED notify
    /\ UNCHANGED <<state, idx, cur, status, held, match, term>>

-----------------------------------------------------------------------------
(* The cluster *)

\* A follower stores the log and the leader hears of it.
Replicate(m) ==
    /\ leader # NoLeader /\ m # leader
    /\ match[m] < Len(log)
    /\ held' = [held EXCEPT ![m] = Len(log)]
    /\ match' = [match EXCEPT ![m] = Len(log)]
    /\ notify' = [notify EXCEPT ![leader] = TRUE]
    /\ UNCHANGED <<state, clientVars, term>>

\* A node applies what its raft log holds.
NodeApplies(n) ==
    /\ applied[n] < held[n]
    /\ Apply(n)
    /\ UNCHANGED <<clientVars, raftVars>>

\* Only a node with every committed entry is elected; it knows of itself alone.
Failover(n) ==
    /\ term < plan.terms
    /\ term' = term + 1
    /\ held[n] = Len(log)
    /\ Elect(n)
    /\ match' = [m \in Nodes |-> IF m = n THEN Len(log) ELSE 0]
    /\ UNCHANGED <<clientVars, held, notify>>

\* A restart breaks the connections to the node.
NodeRestarts(n) ==
    /\ "restart" \in plan.events
    /\ Restart(n)
    /\ cur' = [k \in Clients |-> IF cur[k].node = n THEN [cur[k] EXCEPT !.up = FALSE] ELSE cur[k]]
    /\ call' = [c \in Callers |-> IF Node(c) = n /\ call[c].link = "live"
                                  THEN [call[c] EXCEPT !.link = "lost"] ELSE call[c]]
    /\ notify' = [notify EXCEPT ![n] = FALSE]
    /\ UNCHANGED <<idx, status, held, match, term>>

ClusterInit ==
    /\ Init
    /\ plan \in Plans
    /\ idx = [k \in Clients |-> 1]
    /\ cur = [k \in Clients |-> NoConn]
    /\ status = [k \in Clients |-> "new"]
    /\ call = [c \in Callers |-> NoCall]
    /\ held = [n \in Nodes |-> 0]
    /\ match = [n \in Nodes |-> 0]
    /\ notify = [n \in Nodes |-> FALSE]
    /\ term = 0

CallStep(c) ==
    \/ Connect(c) \/ Redirect(c)
    \/ Send(c) \/ Dropped(c) \/ Broken(c) \/ Answered(c)
    \/ Check(c) \/ Select(c)

ClusterNext ==
    /\ \/ \E c \in Callers : Start(c) \/ CallStep(c) \/ Heals(c)
       \/ \E k \in Clients : DialCluster(k) \/ Close(k)
       \/ \E n \in Nodes : Replicate(n) \/ NodeApplies(n) \/ Failover(n) \/ NodeRestarts(n)
    /\ UNCHANGED <<setup, plan>>

\* Goroutines are scheduled, and a node applies what it holds.  Nothing is assumed of
\* elections, restarts, followers, or the healing of a partition.
ClusterSpec ==
    /\ ClusterInit /\ [][ClusterNext]_clusterVars
    /\ \A c \in Callers : WF_clusterState(CallStep(c))
    /\ \A n \in Nodes : WF_clusterState(NodeApplies(n))

-----------------------------------------------------------------------------
ClusterTypeOK ==
    /\ plan \in Plans
    /\ idx \in [Clients -> DOMAIN plan.members]
    /\ cur \in [Clients -> [node : Nodes \cup {NoLeader}, up : BOOLEAN]]
    /\ status \in [Clients -> {"new", "open", "failed", "closed"}]
    /\ call \in [Callers -> [pc : {"idle", "conn", "send", "stuck", "propose", "check", "select", "backoff", "done"},
                             attempt : 0..MaxAttempts, link : {"none", "live", "lost"},
                             hint : Nodes \cup {NoLeader}, index : 0..MaxLog,
                             res : {"none", "ok", "dup", "timeout", "limit", "closed"},
                             part : PartIDs, id : IDs]]
    /\ held \in [Nodes -> 0..MaxLog]
    /\ match \in [Nodes -> 0..MaxLog]
    /\ notify \in [Nodes -> BOOLEAN]
    /\ term \in 0..MaxTerms

\* Where key is stored on node n.
Copies(n, key) == {pi \in PartIDs \X (1..MaxLog) : pi[2] <= Len(wal[n][pi[1]]) /\ wal[n][pi[1]][pi[2]].key = key}

\* A publish with a dedupe key and a stable routing key (ADR 0021) is stored once on
\* every node, however often redirectLoop has run it, on whichever leaders, and
\* whoever else uses the key: replays after a broken connection, a dropped proposal or
\* a failover are recognised by the index that Apply and recovery maintain.  The key
\* leads to one partition, and the index has a place for every key: what the index
\* evicts can be stored again.
KeyedStoredOnce ==
    ( /\ \A c, d \in Callers : plan.part[c] # AnyPart /\ (plan.key[c] = plan.key[d] => plan.part[c] = plan.part[d])
      /\ Cardinality(setup.keys) <= setup.cap ) =>
      \A n \in Nodes, key \in Keys : Cardinality(Copies(n, key)) <= 1

\* What a call returned names its message: every node that has applied the entry holds,
\* at that MsgID, the record of the attempt that was answered, or for a DUP an older
\* record with the caller's key, where the replicas apply deterministically.
ResultStored ==
    Deterministic => \A c \in Callers, n \in Nodes :
      (call[c].res \in {"ok", "dup", "timeout"} /\ call[c].index <= applied[n]) =>
        LET records == wal[n][call[c].part] IN
        /\ call[c].id < Len(records)
        /\ records[call[c].id + 1].key = plan.key[c]
        /\ IF call[c].res = "dup" THEN records[call[c].id + 1].index < call[c].index
           ELSE records[call[c].id + 1].index = call[c].index

\* ADR 0032: the redirect converges.  With a leader that stays, members that answer, and
\* one caller to a client, the sweep or the hint reaches the leader within as many
\* attempts as there are members, so no call gives up.
Converges ==
    ( /\ plan.events = {} /\ plan.terms = 1
      /\ \A c, d \in Callers : Client(c) = Client(d) => c = d
      /\ plan.attempts >= Len(plan.members) /\ Nodes = Range(plan.members) ) =>
      \A c \in Callers : call[c].res # "limit"

\* PublishCtx: WAIT n answers OK only when n followers, besides the leader, hold the
\* entry in their logs (waitForReplication never over-reports).
BarrierHonest ==
    \A c \in Callers :
      call[c].res = "ok" /\ plan.wait[c] > 0 =>
        Cardinality({m \in Nodes : held[m] >= call[c].index}) > plan.wait[c]

Asleep(c) == call[c].pc = "select" /\ call[c].link = "live" /\ ~notify[Node(c)]

\* waitForReplication's comment, "no advance is missed", for the only barrier there is:
\* it never sleeps, with no signal pending, when its bar is met.
NoAdvanceMissed ==
    \A c \in Callers :
      Asleep(c) /\ (\A d \in Callers \ {c} : plan.wait[d] = 0) => ~Satisfied(c)

\* The same for any number of barriers, as the comment on waitForReplication has it ("no
\* advance is missed").  It fails: they share one channel of capacity one, and a signal
\* wakes one of them.
NoAdvanceMissedByAny == \A c \in Callers : Asleep(c) => ~Satisfied(c)

\* DialCluster's comment: it dials members in order until one connects.
DialSweeps == \A k \in Clients : status[k] = "failed" => idx[k] = Len(plan.members)

\* A proposal waits on a leader without a quorum, and its session with it.
Isolated(c) == call[c].pc = "stuck" /\ call[c].link = "live"

\* Every call returns where every isolated leader is reached again, or its connection
\* closed: the attempts are bounded, each one ends, and a closed client ends the wait
\* between them and the proposal that blocks.  (ADR 0031: on a leader that stays
\* isolated a Propose blocks until its context fires.)
CallsReturn ==
    (\A c \in Callers : []<>~Isolated(c)) => \A c \in Callers : call[c].pc = "conn" ~> call[c].pc = "done"

=============================================================================
