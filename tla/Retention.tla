----------------------------- MODULE Retention -----------------------------
(***************************************************************************)
(* The retention sweep of one partition: internal/broker/retention.go over *)
(* the segments of internal/wal.  A sweep takes a snapshot of the segments *)
(* and decides what to keep; appends and rotations go on before it drops.  *)
(* Timestamps are unsigned integers of TimeWidth bits.                     *)
(***************************************************************************)
EXTENDS Integers, Sequences, FiniteSets, FiniteSetsExt

CONSTANTS
    SegmentBytes,  \* segment size cap
    Sizes,         \* record sizes
    Delays,        \* DELAY of a publish, 0 for none
    Policies,      \* configurations: retainBytes and retainDur, 0 for off
    TimeWidth,
    Epoch,         \* the clock when the partition opens
    MaxClock,      \* bound: the clock
    MaxAppends     \* bound: records appended

Times == 0..2^TimeWidth - 1

ASSUME RetentionAssumption ==
    /\ SegmentBytes \in Nat \ {0} /\ MaxAppends \in Nat
    /\ TimeWidth \in Nat /\ 2^TimeWidth \in Nat   \* the prover knows nothing of ^
    /\ Sizes \subseteq Nat \ {0} /\ Delays \subseteq Nat
    /\ MaxClock \in Times /\ Epoch \in 1..MaxClock
    /\ Policies \subseteq [retainBytes : Nat, retainDur : Nat]

VARIABLES
    policy,
    clock,
    segments,  \* oldest first; the last one is active
    appended,
    sweep      \* a sweep under way: its snapshot and its clock

retentionVars == <<policy, clock, segments, appended, sweep>>

NoSweep == [now |-> 0, infos |-> << >>]

\* delayed holds the VisibleAtNs of the delayed records, maxVisible the mark that
\* the code keeps of them.
NewSegment(index) == [index |-> index, bytes |-> 0, maxTs |-> 0, maxVisible |-> 0, delayed |-> {}]

Largest(a, b) == IF a > b THEN a ELSE b

Active(segs) == segs[Len(segs)]

Full(seg, size) == seg.bytes > 0 /\ seg.bytes + size > SegmentBytes

\* Mutant: a record that is not delayed resets the mark.
LastVisible(seg, visible) == visible

\* Append's update of the delayed-record mark.
MaxVisible(seg, visible) == Largest(seg.maxVisible, visible)

\* What writing a record does to the book-keeping of its segment.
Written(seg, size, ts, visible) ==
    [seg EXCEPT !.bytes = @ + size, !.maxTs = Largest(@, ts),
                !.maxVisible = MaxVisible(seg, visible), !.delayed = @ \cup ({visible} \ {0})]

\* publishCtx and Log.Append.  The timestamp is read before the partition's lock is
\* taken, so a record may carry an older one than its predecessor.
PublishAppend(size, delay, lag) ==
    /\ appended < MaxAppends
    /\ appended' = appended + 1
    /\ LET rolled == IF Full(Active(segments), size)
                     THEN Append(segments, NewSegment(Active(segments).index + 1)) ELSE segments
           ts == clock - lag
           visible == IF delay = 0 THEN 0 ELSE ts + delay
       IN  segments' = [rolled EXCEPT ![Len(rolled)] = Written(@, size, ts, visible)]
    /\ UNCHANGED <<policy, clock, sweep>>

Tick ==
    /\ clock < MaxClock
    /\ clock' = clock + 1
    /\ UNCHANGED <<policy, segments, appended, sweep>>

-----------------------------------------------------------------------------
(* What to keep: positions in the snapshot *)

\* keepIndexByBytes adds up the segments, newest first: the total at segment i.
BytesFrom(infos, i) ==
    LET total[n \in 0..Len(infos)] == IF n = 0 THEN 0 ELSE total[n - 1] + infos[Len(infos) - n + 1].bytes
    IN  total[Len(infos) - i + 1]

\* Mutant: the budget may be passed by one segment.
OverBudgetLate(infos, i) == i < Len(infos) /\ BytesFrom(infos, i + 1) > policy.retainBytes

OverBudget(infos, i) == BytesFrom(infos, i) > policy.retainBytes

\* keepIndexByBytes: the loop stops at the first segment, newest first, that passes
\* the budget.
KeepByBytes(infos) ==
    LET over == {i \in DOMAIN infos : OverBudget(infos, i)}
    IN  IF policy.retainBytes = 0 \/ over = {} THEN 1
        ELSE IF Max(over) = Len(infos) THEN Len(infos) ELSE Max(over) + 1

\* Mutant: a segment at the cutoff is dropped.
FreshPastCutoff(seg, cutoff) == seg.maxTs = 0 \/ seg.maxTs > cutoff

Fresh(seg, cutoff) == seg.maxTs = 0 \/ seg.maxTs >= cutoff

Cutoff(now) == (now - policy.retainDur) % 2^TimeWidth

\* keepIndexByAge: the oldest sealed segment with a record young enough.
KeepByAge(infos, now) ==
    LET fresh == {i \in 1..Len(infos) - 1 : Fresh(infos[i], Cutoff(now))}
    IN  IF policy.retainDur = 0 THEN 1 ELSE Min(fresh \cup {Len(infos)})

\* oldestUnfiredDelaySegment.
Unfired(infos, now) == {i \in DOMAIN infos : infos[i].maxVisible > now}

\* retentionKeepIndex.
Keep(infos, now) ==
    LET keep == Largest(KeepByBytes(infos), KeepByAge(infos, now))
    IN  Min(Unfired(infos, now) \cup {keep})

\* SegmentInfos: of the active segment it counts the committed bytes, any number of
\* those written (what the committer has fsynced is not in this module).
Infos(bytes) == [segments EXCEPT ![Len(segments)].bytes = bytes]

\* sweepPartitionRetention, up to the snapshot.
SweepStart ==
    /\ sweep = NoSweep
    /\ \E bytes \in 0..Active(segments).bytes : sweep' = [now |-> clock, infos |-> Infos(bytes)]
    /\ UNCHANGED <<policy, clock, segments, appended>>

\* DropSegmentsBefore's scan.
Cut(keepIndex) == Cardinality({i \in DOMAIN segments : segments[i].index < keepIndex})

\* The rest of it: retentionKeepIndex and DropSegmentsBefore.
SweepDrop ==
    /\ sweep # NoSweep
    /\ LET keepIndex == sweep.infos[Keep(sweep.infos, sweep.now)].index
       IN  segments' = SubSeq(segments, Cut(keepIndex) + 1, Len(segments))
    /\ sweep' = NoSweep
    /\ UNCHANGED <<policy, clock, appended>>

RetentionInit ==
    /\ policy \in Policies
    /\ clock = Epoch
    /\ segments = <<NewSegment(0)>>
    /\ appended = 0
    /\ sweep = NoSweep

RetentionNext ==
    \/ \E size \in Sizes, delay \in Delays, lag \in {0, 1} : PublishAppend(size, delay, lag)
    \/ Tick
    \/ SweepStart
    \/ SweepDrop

RetentionSpec == RetentionInit /\ [][RetentionNext]_retentionVars

-----------------------------------------------------------------------------
SegmentType == [index : 0..MaxAppends, bytes : Nat, maxTs : Times, maxVisible : Nat, delayed : SUBSET Nat]

RetentionTypeOK ==
    /\ policy \in Policies
    /\ clock \in Epoch..MaxClock
    /\ segments \in Seq(SegmentType) /\ segments # << >>
    /\ appended \in 0..MaxAppends
    /\ sweep \in [now : Times, infos : Seq(SegmentType)]

\* The segments a step drops: those of the log, and those the sweep saw.
Dropped(segs) == {i \in DOMAIN segs : segs[i].index < segments'[1].index}

\* A sweep never drops a delayed message that had not fired when the sweep began,
\* whatever is appended meanwhile (the guard of retentionKeepIndex, ADR 0025).
DelayedKept == [][\A i \in Dropped(segments) : \A v \in segments[i].delayed : v <= sweep.now]_retentionVars

\* A sweep drops nothing the configuration retains: the bytes from a dropped
\* segment on passed the budget when the sweep began, or its newest record was
\* older than the retention time.
DropsJustified ==
    [][policy.retainDur <= sweep.now =>
         \A i \in Dropped(sweep.infos) :
           \/ policy.retainBytes > 0 /\ BytesFrom(sweep.infos, i) > policy.retainBytes
           \/ policy.retainDur > 0 /\ sweep.infos[i].maxTs + policy.retainDur < sweep.now]_retentionVars

\* A sweep reclaims enough: of the segments it saw, those left fit the budget, or
\* only the active one is left, or a delayed message holds the oldest of them.
BudgetMet ==
    [][(SweepDrop /\ policy.retainBytes > 0) =>
         LET first == Min(DOMAIN sweep.infos \ Dropped(sweep.infos))
         IN  \/ BytesFrom(sweep.infos, first) <= policy.retainBytes
             \/ first = Len(sweep.infos)
             \/ sweep.infos[first].maxVisible > sweep.now]_retentionVars

=============================================================================
