----------------------------- MODULE WalReader -----------------------------
(***************************************************************************)
(* A Reader tailing the log of module Wal, which keeps appending,          *)
(* rotating, flushing, dropping segments and crashing underneath it.       *)
(*                                                                         *)
(* The Reader has a descriptor of its own on the segment it is in, so it   *)
(* can read the file of a dropped segment; what it may read of a segment,  *)
(* and which segment comes next, it asks the log under l.mu.  os.Open is   *)
(* outside the lock.                                                       *)
(***************************************************************************)
EXTENDS Wal

VARIABLES
    rd,     \* where the Reader is: pc, segment, localPos, the segment it opens next
    got     \* the records Next has returned

readerVars == <<rd, got>>

NoReader == [pc |-> "none", seg |-> 0, pos |-> 0, to |-> 0, from |-> 0]

\* Mutant: the loop over the segments goes on after the first match.
SegmentNoBreak(from) ==
    LET earlier == {i \in first..(active - 1) : from < baseMsgID[i + 1]}
    IN  IF earlier = {} THEN active ELSE CHOOSE i \in earlier : \A j \in earlier : j <= i

\* The segment whose MsgID range contains from: the active one by default.
SegmentFor(from) ==
    LET earlier == {i \in first..(active - 1) : from < baseMsgID[i + 1]}
    IN  IF earlier = {} THEN active ELSE MinOf(earlier)

\* NewReader, under l.mu: refuse a MsgID below the floor, choose the segment.
NewReader(from) ==
    /\ phase = "up"
    /\ rd.pc = "none"
    /\ MuFree
    /\ rd' = IF from < baseMsgID[first]
             THEN [NoReader EXCEPT !.pc = "refused"]
             ELSE [NoReader EXCEPT !.pc = "open", !.to = SegmentFor(from), !.from = from]
    /\ UNCHANGED got

\* openSegment: the file may have been removed since it was chosen.
OpenSegment ==
    /\ rd.pc \in {"open", "roll"}
    /\ IF rd.to < first
       THEN rd' = [rd EXCEPT !.pc = "failed"]
       ELSE rd' = [rd EXCEPT !.pc = IF rd.pc = "open" THEN "scan" ELSE "ready",
                             !.seg = rd.to, !.pos = 0]
    /\ UNCHANGED got

\* Decode at localPos succeeds: there is a whole record there.
Decodes == rd.pos < Len(file[rd.seg]) /\ rd.pos \notin torn[rd.seg]

\* Mutant: the active segment is readable as far as it is written.
WrittenLen(i) == Len(file[i])

\* Mutant: off by one.
LimitOneShort(i) == ReadableLen(i) - 1

\* readableLen of the segment the Reader is in.
Limit(i) == ReadableLen(i)

\* NewReader's scan to the first record with MsgID >= from.
Scan ==
    /\ rd.pc = "scan"
    /\ MuFree
    /\ rd' = IF rd.pos >= Limit(rd.seg) THEN [rd EXCEPT !.pc = "ready"]
             ELSE IF ~Decodes THEN [rd EXCEPT !.pc = "failed"]
             ELSE IF file[rd.seg][rd.pos + 1].id >= rd.from THEN [rd EXCEPT !.pc = "ready"]
             ELSE [rd EXCEPT !.pos = @ + 1]
    /\ UNCHANGED got

\* Next: decode the next frame below the limit.
ReadRecord ==
    /\ rd.pc = "ready"
    /\ MuFree
    /\ rd.pos < Limit(rd.seg)
    /\ IF Decodes
       THEN /\ rd' = [rd EXCEPT !.pos = @ + 1]
            /\ got' = Append(got, file[rd.seg][rd.pos + 1])
       ELSE /\ rd' = [rd EXCEPT !.pc = "failed"]
            /\ UNCHANGED got

\* Next: a sealed segment is used up, roll to its successor.  On the active one
\* Next waits on the log's condition variable.
Roll ==
    /\ rd.pc = "ready"
    /\ MuFree
    /\ rd.pos >= Limit(rd.seg)
    /\ rd.seg # active
    /\ rd' = [rd EXCEPT !.pc = "roll", !.to = SegmentAfter(rd.seg)]
    /\ UNCHANGED got

\* The first MsgID not committed.
CommittedEnd == baseMsgID[active] + committed - base[active]

\* A delivery goroutine starts its Reader at the floor or after a record that was
\* delivered, hence committed.
ReaderStep ==
    \/ \E from \in 0..CommittedEnd : NewReader(from)
    \/ OpenSegment
    \/ Scan
    \/ ReadRecord
    \/ Roll

ReaderInit ==
    /\ Init
    /\ rd = NoReader
    /\ got = << >>

ReaderNext ==
    \/ phase = "up" /\ ReaderStep /\ UNCHANGED vars
    \/ /\ Next
       /\ IF phase' = "up" /\ phase = "up"
          THEN UNCHANGED readerVars
          ELSE rd' = NoReader /\ got' = << >>

ReaderSpec == ReaderInit /\ [][ReaderNext]_<<vars, readerVars>>

\* The Reader keeps calling Next, appends and the committer go on (WalFairness).
ReaderFairSpec ==
    /\ ReaderSpec
    /\ WalFairness
    /\ WF_<<state, readerVars>>(phase = "up" /\ (OpenSegment \/ Scan \/ ReadRecord \/ Roll) /\ UNCHANGED vars)

----------------------------------------------------------------------------
(***************************************************************************)
(* Properties                                                              *)
(***************************************************************************)

ReaderTypeOK ==
    /\ rd \in [pc : {"none", "refused", "open", "scan", "ready", "roll", "failed"},
               seg : Index, pos : Nat, to : Index, from : Nat]
    /\ got \in Seq(Record)

\* Next returns the records in MsgID order from the requested one on, none
\* skipped and none twice, across rotations and dropped segments, where the
\* directory itself has no gap (see Intact).
InOrder == Intact => \A k \in 1..Len(got) : got[k].id = rd.from + k - 1

\* Consumers never see data that is not fsynced: what the Reader has returned
\* survives a machine failure, unless retention has removed it.  (What recovery found
\* after a SIGKILL, or after a Close that raced an append, may not be fsynced.)
ReadsDurable ==
    SyncMode # "none" /\ Stops \subseteq {"power"} =>
        \A k \in 1..Len(got) : got[k] \in Persisted \cup dropped

\* A Reader that holds a dropped segment rolls forward normally: Next never fails.
ReaderSurvives ==
    [][rd.pc \in {"ready", "roll"} => rd'.pc # "failed"]_<<vars, readerVars>>

\* The Reader has returned every record it was opened for that is OK'd and retained.
CaughtUp ==
    \A r \in acked \ dropped : r.id >= rd.from => r \in {got[k] : k \in 1..Len(got)}

\* A tailing Reader that stays open catches up with the log again and again, across
\* rotations: no OK'd record stays unread, unless retention removes it first.
TailsToEnd == []<>(rd.pc = "ready" => CaughtUp)

=============================================================================
