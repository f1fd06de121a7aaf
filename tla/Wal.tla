-------------------------------- MODULE Wal --------------------------------
(***************************************************************************)
(* One partition's write-ahead log: package internal/wal, Log without its  *)
(* Readers.                                                                *)
(*                                                                         *)
(* Appenders, the group committer, retention and the end of the process    *)
(* (graceful Close, SIGKILL, machine failure) interleave at the points     *)
(* where the code gives up l.mu or may be interrupted.  Byte offsets are   *)
(* counted in records: every record has length 1, so SegmentBytes is the   *)
(* number of records a segment holds.  A segment file is the sequence of   *)
(* its records; garbage left by an interrupted write is kept beside it, as *)
(* the set of positions (records before it) at which it sits.              *)
(*                                                                         *)
(* Segments are created in ascending order and dropped from the front, so  *)
(* the slice l.segments, and the *.log files in the directory, are always  *)
(* first..active.                                                          *)
(***************************************************************************)
EXTENDS Integers, Sequences, FiniteSets

CONSTANTS
    Writers,       \* concurrent callers of Append
    SegmentBytes,  \* records per segment; 0 disables rotation
    Setups,        \* configurations and environments, see SetupType
    MaxAppends,    \* bound: records written in a behaviour
    MaxSegments,   \* bound: highest segment index
    MaxStops       \* bound: times the process ends

\* How the log is opened and what happens to it.
SetupType ==
    [mode      : {"per-message", "batched", "none"},          \* Config.SyncMode
     retention : BOOLEAN,                                     \* the sweeper runs
     stops     : SUBSET {"close", "kill", "power"},           \* ways the process ends
     faults    : SUBSET {"sync", "open", "write", "short"}]   \* I/O errors that happen

ASSUME WalAssumption ==
    /\ SegmentBytes \in Nat
    /\ Setups \subseteq SetupType
    /\ MaxAppends \in Nat
    /\ MaxSegments \in Nat
    /\ MaxStops \in Nat

Index == 0..MaxSegments

\* A record: its MsgID and which write produced it.
Record == [id : Nat, val : Nat]

VARIABLES
    setup,       \* chosen from Setups before the log is first opened
    \* On disk.
    file,        \* file[i]: the records written to segment i
    synced,      \* synced[i]: how many of them an fsync has covered
    torn,        \* torn[i]: positions of garbage in the file of segment i
    first,       \* oldest segment still in the directory
    active,      \* newest segment, the one appended to
    \* In memory.
    phase,       \* "up", "down", or "failed": Open returned an error
    base,        \* segment.baseByteOffset
    baseMsgID,   \* segment.baseMsgID
    nextMsgID,
    written,
    committed,
    commitErr,
    app,         \* app[w]: where Append of caller w is, its record and end offset
    flush,       \* the group committer: snapshot taken and outcome of its fsync
    stopping,    \* Close: "no", "asked", "final" flush running, "done", then see Closed
    \* History.
    acked,       \* records whose Append returned without error
    dropped,     \* records whose segment retention removed
    appends, stops

diskVars == <<file, synced, torn, first, active>>
memVars  == <<phase, base, baseMsgID, nextMsgID, written, committed, commitErr>>
procVars == <<app, flush, stopping>>
histVars == <<acked, dropped, appends, stops>>
state    == <<diskVars, memVars, procVars, histVars>>
vars     == <<setup, state>>

SyncMode == setup.mode
Stops    == setup.stops
Faults   == setup.faults

NoFlush == [pc |-> "idle", snap |-> 0, seg |-> 0, err |-> FALSE]

NoRecord == [id |-> 0, val |-> 0]

Idle == [pc |-> "idle", end |-> 0, rec |-> NoRecord]

\* l.mu is held across Append from its first line to the return, or to the
\* cond.Wait of a batched append.
MuFree == \A w \in Writers : app[w].pc \notin {"write", "sync"}

\* Close has returned and the process has not exited yet: "closed", and "reopened"
\* when an append has rotated since, to a segment with a descriptor of its own.
Closed == {"closed", "reopened"}

MinOf(S) == CHOOSE m \in S : \A n \in S : m <= n

----------------------------------------------------------------------------
(***************************************************************************)
(* Append                                                                  *)
(***************************************************************************)

NeedsRotation ==
    LET localSize == written - base[active] IN
    /\ SegmentBytes > 0
    /\ localSize > 0
    /\ localSize + 1 > SegmentBytes

\* rotate's fsync of the segment about to be sealed, an error if Close has closed it.
SealSync ==
    IF written > committed
    THEN /\ stopping # "closed"
         /\ synced' = [synced EXCEPT ![active] = Len(file[active])]
         /\ committed' = written
    ELSE UNCHANGED <<synced, committed>>

Rotate ==
    /\ active < MaxSegments
    /\ SealSync
    /\ active' = active + 1
    /\ base' = [base EXCEPT ![active + 1] = written]
    /\ baseMsgID' = [baseMsgID EXCEPT ![active + 1] = nextMsgID]

\* Lock l.mu, encode, and roll to a fresh segment when the record would carry
\* the active one past its cap.
AppendStart(w) ==
    /\ phase = "up"
    /\ app[w].pc = "idle"
    /\ MuFree
    /\ appends < MaxAppends
    /\ \/ /\ NeedsRotation /\ Rotate
          /\ stopping' = IF stopping = "closed" THEN "reopened" ELSE stopping
       \/ ~NeedsRotation /\ UNCHANGED <<synced, committed, active, base, baseMsgID, stopping>>
    /\ app' = [app EXCEPT ![w].pc = "write"]
    /\ UNCHANGED <<file, torn, first, phase, nextMsgID, written, commitErr, flush, histVars>>

\* openSegment fails after rotate has fsynced the old one: Append returns the
\* error.  (A failing fsync in rotate returns before anything has changed.)
RotateFails(w) ==
    /\ phase = "up"
    /\ app[w].pc = "idle"
    /\ MuFree
    /\ NeedsRotation
    /\ "open" \in Faults
    /\ SealSync
    /\ UNCHANGED <<file, torn, first, active, phase, base, baseMsgID, nextMsgID,
                   written, commitErr, procVars, histVars>>

\* The frame reaches the file in full.
AppendWrite(w) ==
    /\ phase = "up"
    /\ app[w].pc = "write"
    /\ stopping # "closed"
    /\ LET rec == [id |-> nextMsgID, val |-> appends]
           end == written + 1
       IN /\ file' = [file EXCEPT ![active] = Append(@, rec)]
          /\ nextMsgID' = nextMsgID + 1
          /\ written' = end
          /\ appends' = appends + 1
          /\ \/ /\ SyncMode = "batched"
                /\ app' = [app EXCEPT ![w] = [pc |-> "wait", end |-> end, rec |-> rec]]
                /\ UNCHANGED <<committed, acked>>
             \/ /\ SyncMode = "none"
                /\ committed' = end
                /\ acked' = acked \cup {rec}
                /\ app' = [app EXCEPT ![w] = Idle]
             \/ /\ SyncMode = "per-message"
                /\ app' = [app EXCEPT ![w] = [pc |-> "sync", end |-> end, rec |-> rec]]
                /\ UNCHANGED <<committed, acked>>
    /\ UNCHANGED <<synced, torn, first, active, phase, base, baseMsgID, commitErr,
                   flush, stopping, dropped, stops>>

\* Mutant: without fsync the error of f.Write is not looked at.
AppendWriteUnchecked(w) ==
    /\ phase = "up"
    /\ app[w].pc = "write"
    /\ "write" \in Faults
    /\ SyncMode = "none"
    /\ nextMsgID' = nextMsgID + 1
    /\ written' = written + 1
    /\ committed' = written + 1
    /\ appends' = appends + 1
    /\ acked' = acked \cup {[id |-> nextMsgID, val |-> appends]}
    /\ app' = [app EXCEPT ![w] = Idle]
    /\ UNCHANGED <<diskVars, phase, base, baseMsgID, commitErr, flush, stopping, dropped, stops>>

\* f.Write returns an error, having written nothing or part of the frame.  After Close
\* it finds the descriptor closed.
AppendWriteFails(w) ==
    /\ phase = "up"
    /\ app[w].pc = "write"
    /\ \/ /\ "write" \in Faults \/ stopping = "closed"
          /\ UNCHANGED torn
       \/ /\ "short" \in Faults /\ stopping # "closed"
          /\ torn' = [torn EXCEPT ![active] = @ \cup {Len(file[active])}]
    /\ app' = [app EXCEPT ![w] = Idle]
    /\ UNCHANGED <<file, synced, first, active, memVars, flush, stopping, histVars>>

\* SyncPerMessage: fsync inline, publish the new committed offset, return.
AppendSync(w) ==
    /\ phase = "up"
    /\ app[w].pc = "sync"
    /\ \/ /\ synced' = [synced EXCEPT ![active] = Len(file[active])]
          /\ committed' = app[w].end
          /\ acked' = acked \cup {app[w].rec}
       \/ "sync" \in Faults /\ UNCHANGED <<synced, committed, acked>>
    /\ app' = [app EXCEPT ![w] = Idle]
    /\ UNCHANGED <<file, torn, first, active, phase, base, baseMsgID, nextMsgID,
                   written, commitErr, flush, stopping, dropped, appends, stops>>

\* Mutant: any broadcast releases the waiter, its group committed or not.
ReleasedByAnyBroadcast(w) == TRUE

\* The predicate the waiting append rechecks under l.mu.
GroupCommitted(w) == committed >= app[w].end

\* SyncBatched: the waiting append wakes and finds itself committed, or finds
\* the committer's error.
AppendReturn(w) ==
    /\ phase = "up"
    /\ app[w].pc = "wait"
    /\ MuFree
    /\ \/ GroupCommitted(w) /\ acked' = acked \cup {app[w].rec}
       \/ ~GroupCommitted(w) /\ commitErr /\ UNCHANGED acked
    /\ app' = [app EXCEPT ![w] = Idle]
    /\ UNCHANGED <<diskVars, memVars, flush, stopping, dropped, appends, stops>>

----------------------------------------------------------------------------
(***************************************************************************)
(* The group committer                                                     *)
(***************************************************************************)

HasUnflushed == written > committed /\ ~commitErr

\* flush, first critical section: snapshot written and the active segment's
\* Sync.  The tick that finds nothing to do changes nothing.
FlushSnapshot ==
    /\ SyncMode = "batched"
    /\ phase = "up"
    /\ flush.pc = "idle"
    /\ stopping \in {"no", "asked"}
    /\ MuFree
    /\ HasUnflushed
    /\ flush' = [pc |-> "sync", snap |-> written, seg |-> active, err |-> FALSE]
    \* Once Close has asked, this may still be the tick or already the last one.
    /\ stopping' \in IF stopping = "asked" THEN {"asked", "final"} ELSE {stopping}
    /\ UNCHANGED <<diskVars, memVars, app, histVars>>

\* syncFn() outside the lock.  DropSegmentsBefore closes the descriptors of the
\* segments it removes, and fsync of a closed file is an error.
FlushSync ==
    /\ phase = "up"
    /\ flush.pc = "sync"
    /\ \/ /\ flush.seg >= first
          /\ synced' = [synced EXCEPT ![flush.seg] = Len(file[flush.seg])]
          /\ flush' = [flush EXCEPT !.pc = "publish"]
       \/ /\ flush.seg < first \/ "sync" \in Faults
          /\ flush' = [flush EXCEPT !.pc = "publish", !.err = TRUE]
          /\ UNCHANGED synced
    /\ UNCHANGED <<file, torn, first, active, memVars, app, stopping, histVars>>

\* Mutant: publishes l.written as it is after the fsync, not the snapshot.
PublishLatest == IF flush.err THEN committed ELSE written

\* committed after the fsync: the snapshot, unless a rotation has passed it.
PublishOffset == IF ~flush.err /\ flush.snap > committed THEN flush.snap ELSE committed

\* Mutant: a failed fsync is forgotten.
PublishNoErr == commitErr

PublishErr == commitErr \/ flush.err

\* flush, second critical section.
FlushPublish ==
    /\ phase = "up"
    /\ flush.pc = "publish"
    /\ MuFree
    /\ commitErr' = PublishErr
    /\ committed' = PublishOffset
    /\ flush' = NoFlush
    /\ stopping' = IF stopping = "final" THEN "done" ELSE stopping
    /\ UNCHANGED <<diskVars, phase, base, baseMsgID, nextMsgID, written, app, histVars>>

----------------------------------------------------------------------------
(***************************************************************************)
(* Retention, Close, crashes, Open                                         *)
(***************************************************************************)

RecordsIn(i) == {file[i][k] : k \in 1..Len(file[i])}

\* Mutant: keepIndex is taken as it comes.
Unclamped(keepIndex) == keepIndex

\* The active segment is kept whatever the sweeper asks for.
Clamp(keepIndex) == IF keepIndex > active THEN active ELSE keepIndex

\* DropSegmentsBefore(keepIndex): the sweeper's policy chooses keepIndex (module
\* Retention).  Every os.Remove succeeds; a file one leaves behind would be read again
\* by the next recovery.
DropSegmentsBefore(keepIndex) ==
    LET keep == Clamp(keepIndex) IN
    /\ setup.retention
    /\ phase = "up"
    /\ MuFree
    /\ first < keep
    /\ first' = keep
    /\ dropped' = dropped \cup UNION {RecordsIn(i) : i \in first..(keep - 1)}
    /\ UNCHANGED <<file, synced, torn, active, memVars, procVars, acked, appends, stops>>

\* Close, up to the wait for the committer.
CloseStart ==
    /\ "close" \in Stops
    /\ phase = "up"
    /\ stopping = "no"
    /\ stops < MaxStops
    /\ stopping' = IF SyncMode = "batched" THEN "asked" ELSE "done"
    /\ UNCHANGED <<diskVars, memVars, app, flush, histVars>>

\* The committer's last flush finds nothing to do.
FinalFlushEmpty ==
    /\ phase = "up"
    /\ stopping = "asked"
    /\ flush.pc = "idle"
    /\ MuFree
    /\ ~HasUnflushed
    /\ stopping' = "done"
    /\ UNCHANGED <<diskVars, memVars, app, flush, histVars>>

\* Close takes l.mu and closes the descriptors.  It neither broadcasts nor sets
\* commitErr: an append that wrote after the last flush's snapshot goes on waiting.
CloseFinish ==
    /\ phase = "up"
    /\ stopping = "done"
    /\ MuFree
    /\ stopping' = "closed"
    /\ UNCHANGED <<diskVars, memVars, app, flush, histVars>>

\* The process ends, and the goroutines inside Append with it.
Stopped ==
    /\ phase' = "down"
    /\ app' = [w \in Writers |-> Idle]
    /\ flush' = NoFlush
    /\ stopping' = "no"
    /\ stops' = stops + 1
    /\ UNCHANGED <<base, baseMsgID, nextMsgID, written, committed, commitErr,
                   first, acked, dropped, appends>>

\* A write under way when the process ends may have left part of its frame.
MaybeTorn ==
    \/ UNCHANGED torn
    \/ /\ stopping # "closed"
       /\ \E w \in Writers : app[w].pc = "write"
       /\ torn' = [torn EXCEPT ![active] = @ \cup {Len(file[active])}]

\* main returns after Broker.Close, whatever the sessions it has not drained are doing.
Exit ==
    /\ phase = "up"
    /\ stopping \in Closed
    /\ MaybeTorn
    /\ Stopped
    /\ UNCHANGED <<file, synced, active>>

\* SIGKILL: the page cache outlives the process.
Kill ==
    /\ "kill" \in Stops
    /\ phase = "up"
    /\ stops < MaxStops
    /\ MaybeTorn
    /\ Stopped
    /\ UNCHANGED <<file, synced, active>>

\* Retained files with records no fsync has covered.
Loose == {i \in first..active : synced[i] < Len(file[i])}

\* A machine failure: of each file the fsynced part survives, of the rest any
\* prefix (keep), perhaps with part of the frame that followed it (partial).  A
\* new file no fsync has touched may be gone altogether (those after last).  The name
\* of a file is taken to be durable with its first fsync, as the file systems the broker
\* runs on do; openSegment does not fsync the directory.
PowerLoss ==
    /\ "power" \in Stops
    /\ phase \in {"up", "down"}
    /\ stops < MaxStops
    /\ \E last \in first..active, keep \in [Loose -> 0..MaxAppends],
          partial \in SUBSET (Loose \cup {active}) :
          /\ \A i \in (last + 1)..active : synced[i] = 0
          /\ \A i \in Loose : synced[i] <= keep[i] /\ keep[i] <= Len(file[i])
          /\ \A i \in partial :
                \/ i \in Loose /\ keep[i] < Len(file[i])
                \/ i = active /\ \E w \in Writers : app[w].pc = "write"
          /\ LET left(i) == IF i > last THEN 0 ELSE IF i \in Loose THEN keep[i] ELSE Len(file[i])
                 gone(i) == left(i) < Len(file[i])
             IN /\ file' = [i \in Index |-> SubSeq(file[i], 1, left(i))]
                /\ synced' = [i \in Index |-> left(i)]
                /\ torn' = [i \in Index |->
                              {t \in torn[i] : t < left(i) \/ (t = left(i) /\ ~gone(i) /\ i <= last)}
                              \cup (IF i \in partial /\ i <= last THEN {left(i)} ELSE {})]
          /\ active' = last
    /\ Stopped

\* The records of segment i a scan decodes: up to its end or the first garbage.
GoodLen(i) == MinOf(torn[i] \cup {Len(file[i])})

\* Where recovery cuts the active segment's file.
TruncateAt(i) == GoodLen(i)

\* Records the scan has seen before it reaches segment i: globalPos in recover.
ScannedBefore(i) ==
    Cardinality({p \in (first..active) \X (1..MaxAppends) : p[1] < i /\ p[2] <= GoodLen(p[1])})

NonEmpty == {i \in first..active : GoodLen(i) > 0}

\* Mutant: an empty newest segment resets the next MsgID.
NextIDOfSegment(i) == IF GoodLen(i) = 0 THEN 0 ELSE file[i][GoodLen(i)].id + 1

\* Mutant: counts the last record twice.
NextIDTooHigh(i) ==
    LET seen == {j \in NonEmpty : j <= i}
        last == CHOOSE j \in seen : \A k \in seen : k <= j
    IN  IF seen = {} THEN 0 ELSE file[last][GoodLen(last)].id + 2

\* MsgID of the last record the scan decodes in or before segment i, plus one;
\* 0 when it decodes none.
NextIDAfter(i) ==
    LET seen == {j \in NonEmpty : j <= i}
        last == CHOOSE j \in seen : \A k \in seen : k <= j
    IN  IF seen = {} THEN 0 ELSE file[last][GoodLen(last)].id + 1

\* Mutant: the active segment must decode to its end too.
AllSegments == first..active

\* Segments in which a frame that does not decode is an error.
SealedSegments == first..(active - 1)

\* Garbage in a sealed segment is a hard error.
OpenFails ==
    /\ phase = "down"
    /\ \E i \in SealedSegments : torn[i] # {}
    /\ phase' = "failed"
    /\ UNCHANGED <<diskVars, base, baseMsgID, nextMsgID, written, committed, commitErr,
                   procVars, histVars>>

\* Open: discover the segments, scan them, truncate a torn tail of the active
\* one, and take everything that decoded as committed.
Open ==
    /\ phase = "down"
    /\ \A i \in SealedSegments : torn[i] = {}
    /\ phase' = "up"
    /\ file' = [file EXCEPT ![active] = SubSeq(@, 1, TruncateAt(active))]
    /\ synced' = [synced EXCEPT ![active] = MinOf({@, TruncateAt(active)})]
    /\ torn' = [torn EXCEPT ![active] = {}]
    /\ base' = [i \in Index |-> IF i \in first..active THEN ScannedBefore(i) ELSE 0]
    /\ baseMsgID' = [i \in Index |->
                        IF i \notin first..active THEN 0
                        ELSE IF i \in NonEmpty THEN file[i][1].id
                        ELSE NextIDAfter(i)]
    /\ nextMsgID' = NextIDAfter(active)
    /\ committed' = ScannedBefore(active) + GoodLen(active)
    /\ written' = ScannedBefore(active) + GoodLen(active)
    /\ commitErr' = FALSE
    /\ UNCHANGED <<first, active, procVars, histVars>>

----------------------------------------------------------------------------

Init ==
    /\ setup \in Setups
    /\ file = [i \in Index |-> << >>]
    /\ synced = [i \in Index |-> 0]
    /\ torn = [i \in Index |-> {}]
    /\ first = 0
    /\ active = 0
    /\ phase = "up"
    /\ base = [i \in Index |-> 0]
    /\ baseMsgID = [i \in Index |-> 0]
    /\ nextMsgID = 0
    /\ written = 0
    /\ committed = 0
    /\ commitErr = FALSE
    /\ app = [w \in Writers |-> Idle]
    /\ flush = NoFlush
    /\ stopping = "no"
    /\ acked = {}
    /\ dropped = {}
    /\ appends = 0
    /\ stops = 0

Next ==
    /\ UNCHANGED setup
    /\ \/ \E w \in Writers :
             \/ AppendStart(w)
             \/ RotateFails(w)
             \/ AppendWrite(w)
             \/ AppendWriteFails(w)
             \/ AppendSync(w)
             \/ AppendReturn(w)
       \/ FlushSnapshot
       \/ FlushSync
       \/ FlushPublish
       \/ \E keepIndex \in Index : DropSegmentsBefore(keepIndex)
       \/ CloseStart
       \/ FinalFlushEmpty
       \/ CloseFinish
       \/ Exit
       \/ Kill
       \/ PowerLoss
       \/ OpenFails
       \/ Open

Spec == Init /\ [][Next]_vars

----------------------------------------------------------------------------
(***************************************************************************)
(* Fairness.  A goroutine inside Append finishes its call, the committer's *)
(* ticker keeps firing (runCommitter) and l.mu is a starvation-free        *)
(* sync.Mutex.  Nothing obliges a caller to append, an operator to stop    *)
(* the broker, a closed broker to exit, or retention to run.               *)
(***************************************************************************)
AppendStep(w) == AppendWrite(w) \/ AppendWriteFails(w) \/ AppendSync(w) \/ AppendReturn(w)

WalFairness ==
    /\ \A w \in Writers : SF_state(AppendStep(w))
    /\ SF_state(FlushSnapshot)
    /\ WF_state(FlushSync)
    /\ SF_state(FlushPublish)
    /\ SF_state(FinalFlushEmpty)
    /\ SF_state(CloseFinish)
    /\ WF_state(Open)

FairSpec == Spec /\ WalFairness

----------------------------------------------------------------------------
(***************************************************************************)
(* Properties                                                              *)
(***************************************************************************)

TypeOK ==
    /\ file \in [Index -> Seq(Record)]
    /\ synced \in [Index -> Nat]
    /\ torn \in [Index -> SUBSET Nat]
    /\ first \in Index
    /\ active \in Index
    /\ first <= active
    /\ phase \in {"up", "down", "failed"}
    /\ base \in [Index -> Nat]
    /\ baseMsgID \in [Index -> Nat]
    /\ nextMsgID \in Nat
    /\ written \in Nat
    /\ committed \in Nat
    /\ commitErr \in BOOLEAN
    /\ app \in [Writers -> [pc : {"idle", "write", "sync", "wait"}, end : Nat, rec : Record]]
    /\ flush \in [pc : {"idle", "sync", "publish"}, snap : Nat, seg : Index, err : BOOLEAN]
    /\ stopping \in {"no", "asked", "final", "done"} \cup Closed
    /\ acked \subseteq Record
    /\ dropped \subseteq Record
    /\ appends \in Nat
    /\ stops \in Nat

\* The segment after i in l.segments: the smallest retained index above i.
SegmentAfter(i) == IF i + 1 < first THEN first ELSE i + 1

\* Records of segment i a Reader may consume.
ReadableLen(i) ==
    IF i = active THEN committed - base[i] ELSE base[SegmentAfter(i)] - base[i]

\* Setups in which the promises about a whole directory hold.  Elsewhere a write stops
\* half way, or a machine failure meets a segment sealed without its fsync: in mode
\* "none", or because recovery had taken unsynced records for committed.
Intact ==
    /\ "short" \notin Faults
    /\ "power" \in Stops => SyncMode # "none" /\ Stops = {"power"}

\* Readers are never allowed past what an fsync has covered: committed advances,
\* and a segment is sealed, only after the bytes are durable.  (After a SIGKILL
\* recovery takes what it decodes as committed, fsynced or not.)
CommittedDurable ==
    phase = "up" /\ SyncMode # "none" /\ Stops \subseteq {"power"} => \A i \in first..active : ReadableLen(i) <= synced[i]

\* A sealed segment is fully durable.
SealedDurable ==
    phase = "up" => \A i \in first..(active - 1) : synced[i] = Len(file[i])

\* What a scan would find if the machine failed now and kept nothing but the
\* fsynced bytes.
Persisted ==
    UNION {{file[i][k] : k \in 1..MinOf({synced[i], GoodLen(i)})} : i \in first..active}

\* A record whose Append returned without error (the client got OK) stays on disk,
\* fsynced and in front of any damage, until retention removes its segment: in the
\* modes that fsync, as long as no write fails half way.
AckedSurvives ==
    SyncMode # "none" /\ "short" \notin Faults => acked \subseteq Persisted \cup dropped

\* The records an intact directory holds, fsynced or not.
Scannable == UNION {{file[i][k] : k \in 1..GoodLen(i)} : i \in first..active}

\* Without fsync the same holds across SIGKILL and graceful restarts, which the page
\* cache survives.
AckedScannable == Intact => acked \subseteq Scannable \cup dropped

\* Recovery never meets damage in a sealed segment, so Open never refuses to
\* start the broker.
OpenSucceeds == Intact => phase # "failed"

\* MsgIDs are dense across the retained segments and every baseMsgID is the
\* MsgID of its segment's first record, so NewReader's search by baseMsgID finds
\* the segment a MsgID is in.
MsgIDsDense ==
    Intact /\ phase = "up" =>
        /\ \A i \in first..active : \A k \in 1..Len(file[i]) :
              file[i][k].id = baseMsgID[i] + k - 1
        /\ \A i \in first..(active - 1) : baseMsgID[i + 1] = baseMsgID[i] + Len(file[i])
        /\ nextMsgID = baseMsgID[active] + Len(file[active])

\* MsgID is monotonic per partition: nextMsgID stays above every MsgID handed
\* out with an OK, across restarts too.
MsgIDMonotonic == phase = "up" => \A r \in acked : r.id < nextMsgID

\* It holds where retention is off: retention may leave nothing but an empty active
\* segment, from which recovery cannot tell the next MsgID.
MsgIDsNotReused == Intact /\ ~setup.retention => MsgIDMonotonic

\* The committer's fsync fails only when the disk fails: the Sync it has
\* snapshotted is safe to call.
NoSpuriousSyncFailure == "sync" \notin Faults => ~commitErr

\* An append waiting for its group returns: the committer commits it or releases it
\* with the error, and Close's last flush releases those that were waiting by then.
\* One that writes behind that flush's snapshot is left in cond.Wait (see CloseFinish).
AppendsReturn ==
    \A w \in Writers : app[w].pc = "wait" /\ stopping \in {"no", "asked"} ~> app[w].pc = "idle"

\* Close "makes any pending appends durable and releases their waiters" (log.go:383):
\* every waiting append returns, or the process exits.
CloseReleases == \A w \in Writers : app[w].pc = "wait" ~> app[w].pc = "idle" \/ phase # "up"

=============================================================================
