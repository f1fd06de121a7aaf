----------------------------- MODULE WalRefines -----------------------------
(* How the log of module Wal is a PartitionLog. *)
EXTENDS Wal

\* The log is durable when it fsyncs and no write stops half way.
Durable == SyncMode # "none" /\ "short" \notin Faults

Log == INSTANCE PartitionLog
         WITH durable <- Durable, stored <- Persisted, oks <- acked, trimmed <- dropped

\* Package wal keeps the promises of an abstract durable log: an Append returns nil only
\* for a record that is fsynced or was dropped by retention, MsgIDs are unique, and
\* whatever appends, rotations, flushes, kills, machine failures and recoveries do, and
\* in whatever order, a fsynced record goes only with its segment, oldest first.
Implements == Log!Spec

=============================================================================
