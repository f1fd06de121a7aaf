----------------------------- MODULE MCCluster -----------------------------
(* Instances of Cluster for TLC. *)
EXTENDS Cluster, TLC

CONSTANTS n1, n2, n3

ThreeNodes == {n1, n2, n3}
TwoCallers == {"c1", "c2"}
TwoClients == {"k1", "k2"}

\* Replication's environment: the callers are the only publishers.
Quiet == [keys |-> {"a", NoKey}, cap |-> 2, default |-> 1, sync |-> "fsync", cmds |-> MaxLog, restarts |-> 1, dlq |-> 0,
          events |-> {}]
QuietSetup == {Quiet}

Both(x) == [c \in TwoCallers |-> x]
OwnClient == [c \in TwoCallers |-> IF c = "c1" THEN "k1" ELSE "k2"]

Plan == [callers |-> TwoCallers, client |-> Both("k1"), key |-> Both("a"), part |-> Both(0), wait |-> Both(0),
         members |-> <<n1, n2>>, tagged |-> TRUE, attempts |-> 2, terms |-> 1, events |-> {}]

\* A call is retried while leaders stop, come back, change and lose their quorum.
Failing == [Plan EXCEPT !.callers = {"c1"}, !.events = {"restart", "drop", "isolated"}, !.terms = 2]
\* Two calls with one key on a shared connection, with wrong hints and a leader that
\* may lose its quorum.
Sharing == [Plan EXCEPT !.events = {"stale", "isolated"}]
\* A call without a key, with members that cannot be reached, and Close.
Closing == [Plan EXCEPT !.callers = {"c1"}, !.key["c1"] = NoKey, !.events = {"dial", "close", "isolated"}, !.terms = 2]
\* A leader that stays, found by sweeping or by its hint.
Stable == [Plan EXCEPT !.client = OwnClient, !.members = <<n1, n2, n3>>, !.attempts = 3, !.tagged = FALSE]
Hinted == [Stable EXCEPT !.tagged = TRUE]
\* One barrier, and a call without.
Waiting == [Stable EXCEPT !.wait["c1"] = 2, !.members = <<n1, n2>>, !.attempts = 1, !.key = Both(NoKey),
                          !.terms = 2]

\* Two barriers.
BothWaiting == [Waiting EXCEPT !.wait = Both(2), !.terms = 1]

PassPlans == {Failing, Sharing, Closing, Stable, Hinted, Waiting}
=============================================================================
