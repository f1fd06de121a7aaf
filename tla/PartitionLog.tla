---------------------------- MODULE PartitionLog ----------------------------
(***************************************************************************)
(* What a partition's log promises to the broker, without segments, files, *)
(* offsets, a committer or recovery.                                       *)
(*                                                                         *)
(* A durable log stores records that a machine failure does not take away. *)
(* It answers OK for a record only when that record is stored, or has been *)
(* trimmed in the meantime.  Stored records have different MsgIDs, and go  *)
(* only by a trim, from the oldest.  A log that is not durable promises    *)
(* none of this.                                                           *)
(***************************************************************************)
EXTENDS Naturals

VARIABLES
    durable,   \* what kind of log this is
    stored,    \* records that a machine failure leaves
    oks,       \* records the broker was told are in the log
    trimmed    \* records removed on request

vars == <<durable, stored, oks, trimmed>>

Unique(S) == \A r, s \in S : r.id = s.id => r = s

Newer(R, S) == \A r \in R, s \in S : s.id < r.id

\* Records are stored, or answered, or both.  Crashes and recovery are among the steps
\* that may only add.
Accept ==
    /\ stored \subseteq stored'
    /\ Unique(stored')
    /\ oks \subseteq oks'
    /\ oks' \subseteq oks \cup stored' \cup trimmed
    /\ UNCHANGED trimmed

\* The oldest records are removed.
Trim ==
    /\ stored' \subseteq stored
    /\ Newer(stored', stored \ stored')
    /\ trimmed \subseteq trimmed'
    /\ stored \ stored' \subseteq trimmed'
    /\ UNCHANGED oks

\* Anything may happen to a log that is not durable, but answers are not taken back.
Lax ==
    /\ ~durable
    /\ oks \subseteq oks'
    /\ trimmed \subseteq trimmed'

Init ==
    /\ durable \in BOOLEAN
    /\ stored = {} /\ oks = {} /\ trimmed = {}

Next ==
    /\ UNCHANGED durable
    /\ Accept \/ Trim \/ Lax

Spec == Init /\ [][Next]_vars

=============================================================================
