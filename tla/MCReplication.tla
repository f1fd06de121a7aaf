--------------------------- MODULE MCReplication ---------------------------
EXTENDS Replication, TLC

CONSTANTS n1, n2

TwoNodes == {n1, n2}
NodeSymmetry == Permutations(TwoNodes)

Base == [keys |-> {NoKey}, cap |-> 2, default |-> 1, sync |-> "fsync", cmds |-> 3, restarts |-> 0, dlq |-> 0,
         events |-> {}]

\* Publishes with and without keys over two partitions, and restarts.
Restarting == [Base EXCEPT !.keys = {NoKey, "a"}, !.default = 2, !.restarts = 2]
\* More keys than the dedupe index holds.
Evicting == [Base EXCEPT !.keys = {"a", "b", "c"}, !.cmds = 4]
\* The same, with restarts.
Rebuilding == [Evicting EXCEPT !.cmds = 3, !.restarts = 1]
\* A CREATE that asks for another count than the default.
Creating == [Base EXCEPT !.events = {"create"}, !.restarts = 1]
\* A consumer on either node, and failover.
Consuming == [Base EXCEPT !.events = {"deliver", "stale", "ack", "nack"}, !.dlq = 1, !.restarts = 1]
\* SyncNone.
Unsynced == [Base EXCEPT !.default = 2, !.sync = "none", !.restarts = 1]

PassSetups == {Restarting, Evicting, Rebuilding, Creating, Consuming, Unsynced}

\* ACKs of a consumer of the leader.
AckSetups == {[Base EXCEPT !.events = {"deliver", "ack"}]}
\* Eviction and a restart.
EvictSetups == {[Base EXCEPT !.keys = {"a", "b", "c"}, !.cmds = 5, !.restarts = 1]}
\* A PUB to a follower, and CREATE.
CreateSetups == {[Base EXCEPT !.events = {"create"}]}
\* NACKs with the dead-letter policy on.
NackSetups == {[Base EXCEPT !.events = {"deliver", "nack"}, !.dlq = 1]}

=============================================================================
