----------------------------- MODULE Connection -----------------------------
(***************************************************************************)
(* A client and its session, composed over one connection.                 *)
(***************************************************************************)
EXTENDS Client, Session

state == <<req, wireVars, clientVars, sessionVars>>
vars == <<setup, state>>

Init ==
    /\ setup \in Setups
    /\ link = "up"
    /\ up = << >>
    /\ down = << >>
    /\ req = << >>
    /\ ClientInit
    /\ SessionInit

\* The network drops the connection.
Break ==
    /\ "break" \in setup.events
    /\ link = "up"
    /\ Cut
    /\ UNCHANGED <<req, clientVars, sessionVars>>

\* The caller's Dial reads the answer to its HELLO.
DialReturns ==
    /\ hello # "sent"
    /\ \E ok \in {hello = "ok", FALSE} : (ok \/ hello = "refused" \/ link = "down") /\ Dial(ok)
    /\ UNCHANGED <<wireVars, sessionVars>>

\* A goroutine of the application begins a call.
Call(c) == (\E kind \in setup.kinds : Push(c, kind)) /\ UNCHANGED <<wireVars, sessionVars>>

\* ... and goes on with it.
CallerStep(c) == (Write(c) \/ Await(c)) /\ UNCHANGED sessionVars
Cancel(c) == ContextEnds(c) /\ UNCHANGED sessionVars
LoopRuns == LoopStep /\ UNCHANGED sessionVars
ReaderRuns == ReaderStep /\ UNCHANGED <<req, clientVars>>
WriterRuns == WriterStep /\ UNCHANGED <<req, clientVars>>

Next ==
    /\ \/ DialReturns
       \/ Break
       \/ \E c \in setup.callers : Call(c) \/ CallerStep(c) \/ Cancel(c)
       \/ LoopRuns
       \/ Close /\ UNCHANGED sessionVars
       \/ Receive /\ UNCHANGED sessionVars
       \/ ReaderRuns
       \/ WriterRuns
       \/ (PushMessage \/ Shutdown) /\ UNCHANGED <<req, clientVars>>
    /\ UNCHANGED setup

Spec == Init /\ [][Next]_vars

\* Every goroutine that can run is scheduled, and so is an application that
\* receives its deliveries.  Nothing is assumed of new calls, of contexts, of the
\* network, or of when messages arrive.
Fairness ==
    /\ WF_state(DialReturns)
    /\ \A c \in Callers : WF_state(CallerStep(c))
    /\ WF_state(LoopRuns)
    /\ WF_state(Receive /\ UNCHANGED sessionVars)
    /\ WF_state(ReaderRuns)
    /\ WF_state(WriterRuns)

FairSpec == Spec /\ Fairness

-----------------------------------------------------------------------------
TypeOK ==
    /\ setup \in Setups
    /\ link \in {"up", "down"}
    /\ up \in Seq(Reqs) /\ Len(up) <= SockCap
    /\ down \in Seq(Frame) /\ Len(down) <= SockCap
    /\ req \in Seq([kind : Kinds, caller : Callers])
    /\ ClientTypeOK
    /\ SessionTypeOK

\* What the head-of-queue rule needs: the requests were written in the order of
\* their entries, no entry was cancelled while its answer was to come, and no
\* request gets two frames.
InOrder ==
    /\ \A i \in DOMAIN written : written[i] = i
    /\ cancelled = {}
    /\ \A n \in DOMAIN req : req[n].kind # "dup"

\* A call returns the answer to its own request: under InOrder, through every
\* interleaving of callers, readLoop, session reader and writer, and with the
\* connection breaking anywhere (pendingQueue.deliver, sendResp, runWriter).
ResponsesMatch ==
    InOrder => \A n \in DOMAIN req : outcome[n].answers \in {0, n}

\* The same without InOrder: CONCURRENCY.md says the next response frame always
\* belongs to the entry at the head of the pending queue.
ResponsesAlwaysMatch ==
    \A n \in DOMAIN req : outcome[n].answers \in {0, n}

\* handleSub's comment: the OK of a SUB precedes the first message it delivers, so
\* that none is on the wire ahead of it.
SubOKFirst ==
    \A n \in DOMAIN req :
      LET ok == [kind |-> "OK", answers |-> n]
          behind(i) == {down[j] : j \in i..Len(down)} \cup {respCh[j] : j \in DOMAIN respCh}
      IN  \A i \in DOMAIN down : (req[n].kind = "sub" /\ down[i].kind = "MSG") => ok \notin behind(i)

\* No call hangs while the application receives its deliveries: a live session
\* answers it, and a broken or closed connection releases it (drainErr, c.done,
\* writerDone).  A cancelled Sub can strand readLoop in a send nobody receives.
CallsReturn ==
    \A c \in Callers :
      (call[c].pc # "idle" /\ "consume" \in setup.events /\ ~("cancel" \in setup.events /\ "sub" \in setup.kinds))
        ~> call[c].pc = "idle"

\* A session whose connection is gone ends: its reader and writer goroutines exit
\* whatever is queued, so that Shutdown can drain.
SessionEnds == (link = "down") ~> (reader.pc = "closed")

\* CONCURRENCY.md: a slow consumer of deliveryCh does not block in-flight calls.
SlowConsumerHarmless ==
    \A c \in Callers : call[c].pc # "idle" ~> call[c].pc = "idle"

=============================================================================
