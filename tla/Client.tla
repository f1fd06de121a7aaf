------------------------------- MODULE Client -------------------------------
(***************************************************************************)
(* The Go client library: pkg/client, one Client over one connection.      *)
(*                                                                         *)
(* Every call (Pub, Sub, Ack, Nack, Pause, Resume, CreateTopic, Info)      *)
(* pushes an entry on the pending queue, writes its request under writeMu, *)
(* and waits for its response, for its context or for the client to        *)
(* close.  readLoop hands every response frame to the entry at the head of *)
(* the queue and every MSG frame to deliveryCh.                            *)
(***************************************************************************)
EXTENDS Wire

CONSTANT DeliveryCap  \* capacity of deliveryCh

ASSUME ClientAssumption == DeliveryCap \in Nat \ {0}

VARIABLES
    dialed,     \* Dial: "wait", "open" or "failed"
    call,       \* per caller: pc and its request
    queue,      \* pendingQueue: the entries, as request numbers
    cancelled,  \* the entries marked cancelled
    resp,       \* per request: the frame in its resp channel
    outcome,    \* per request: what the call returned
    written,    \* the requests in the order they were written
    closed,     \* c.done is closed
    loop,       \* pc of readLoop
    subActive,
    chan,       \* deliveryCh is not nil
    delivery    \* number of deliveries buffered in deliveryCh

clientVars == <<dialed, call, queue, cancelled, resp, outcome, written, closed, loop,
                subActive, chan, delivery>>

None == [kind |-> "none", answers |-> 0]
Returned(how) == [kind |-> how, answers |-> 0]
Outcomes == Frame \cup {Returned(how) : how \in {"none", "TRANSPORT", "closed", "cancelled"}}

\* Dial, after its handshake.  The caller of a failed Dial has no client.
Dial(helloDone) ==
    /\ dialed = "wait"
    /\ dialed' = IF helloDone THEN "open" ELSE "failed"
    /\ loop' = IF helloDone THEN "read" ELSE "exited"
    /\ UNCHANGED <<req, call, queue, cancelled, resp, outcome, written, closed, subActive, chan, delivery>>

\* pubFull, sub, sendAckLike, sendControl, Info and CreateTopic up to the push on
\* the pending queue.  A closed client returns ErrClosed and a second Sub
\* ErrSubInUse before that.
Push(c, kind) ==
    /\ dialed = "open"
    /\ call[c].pc = "idle"
    /\ ~closed
    /\ Len(req) < setup.reqs
    /\ kind = "sub" => ~subActive
    /\ req' = Append(req, [kind |-> kind, caller |-> c])
    /\ queue' = Append(queue, Len(req) + 1)
    /\ call' = [call EXCEPT ![c] = [pc |-> "write", n |-> Len(req) + 1]]
    /\ IF kind = "sub" THEN subActive' = TRUE /\ chan' = TRUE /\ delivery' = 0
                       ELSE UNCHANGED <<subActive, chan, delivery>>
    /\ UNCHANGED <<dialed, cancelled, resp, outcome, written, closed, loop>>

\* The call of c returns.  A Sub that returns an error rolls back: deliveryCh is
\* set to nil, and readLoop may be left in a send to the channel there was.
Return(c, out) ==
    LET n == call[c].n
        rollback == req[n].kind = "sub" /\ out.kind # "OK"
    IN  /\ outcome' = [outcome EXCEPT ![n] = out]
        /\ call' = [call EXCEPT ![c].pc = "idle"]
        /\ subActive' = (subActive /\ ~rollback)
        /\ chan' = (chan /\ ~rollback)
        /\ delivery' = IF rollback THEN 0 ELSE delivery
        /\ loop' = IF rollback /\ loop = "send" THEN "orphan" ELSE loop

\* The write under writeMu.  On a broken connection it fails, or the kernel
\* accepts the request and it is lost.
Write(c) ==
    /\ call[c].pc = "write"
    /\ LET n == call[c].n IN
       \/ /\ closed
          /\ cancelled' = cancelled \cup {n}
          /\ Return(c, Returned("closed"))
          /\ UNCHANGED <<up, written>>
       \/ /\ ~closed
          /\ link = "up"
          /\ Len(up) < SockCap
          /\ up' = Append(up, n)
          /\ written' = Append(written, n)
          /\ call' = [call EXCEPT ![c].pc = "wait"]
          /\ UNCHANGED <<cancelled, outcome, loop, subActive, chan, delivery>>
       \/ /\ link = "down"
          /\ cancelled' = cancelled \cup {n}
          /\ Return(c, Returned("TRANSPORT"))
          /\ UNCHANGED <<up, written>>
       \/ /\ link = "down"
          /\ ~closed
          /\ call' = [call EXCEPT ![c].pc = "wait"]
          /\ UNCHANGED <<up, written, cancelled, outcome, loop, subActive, chan, delivery>>
    /\ UNCHANGED <<link, down, req, dialed, queue, resp, closed>>

\* The select every call ends in: its response, or the client closed.
Await(c) ==
    /\ call[c].pc = "wait"
    /\ LET n == call[c].n IN
       \/ /\ resp[n] # None
          /\ Return(c, resp[n])
          /\ UNCHANGED cancelled
       \/ /\ closed
          /\ Return(c, Returned("closed"))
          /\ UNCHANGED cancelled
    /\ UNCHANGED <<wireVars, req, dialed, queue, resp, written, closed>>

\* ... or its context done, which leaves a cancelled entry in the queue.
ContextEnds(c) ==
    /\ "cancel" \in setup.events
    /\ call[c].pc = "wait"
    /\ cancelled' = cancelled \cup {call[c].n}
    /\ Return(c, Returned("cancelled"))
    /\ UNCHANGED <<wireVars, req, dialed, queue, resp, written, closed>>

\* The position of the first entry of the queue that is not cancelled.
FirstLive ==
    LET live == {i \in DOMAIN queue : queue[i] \notin cancelled}
    IN  IF live = {} THEN Len(queue) + 1 ELSE CHOOSE i \in live : \A j \in live : i <= j

\* Mutant: the newest entry is popped.
DeliverToNewest(f) ==
    IF queue = << >> THEN UNCHANGED <<queue, resp>>
    ELSE /\ queue' = SubSeq(queue, 1, Len(queue) - 1)
         /\ resp' = [resp EXCEPT ![queue[Len(queue)]] = f]

\* pendingQueue.deliver: pop up to the first live entry and hand it the frame.
Deliver(f) ==
    /\ queue' = SubSeq(queue, FirstLive + 1, Len(queue))
    /\ resp' = IF FirstLive > Len(queue) THEN resp
               ELSE [resp EXCEPT ![queue[FirstLive]] = f]

DeliveryFull == delivery = DeliveryCap

\* readFrame and dispatch.  A message goes to deliveryCh, which may be full.
Dispatch ==
    /\ loop = "read"
    /\ down # << >>
    /\ down' = Tail(down)
    /\ IF Head(down).kind # "MSG"
       THEN Deliver(Head(down)) /\ UNCHANGED <<loop, delivery>>
       ELSE /\ loop' = IF chan /\ DeliveryFull THEN "send" ELSE "read"
            /\ delivery' = IF chan /\ ~DeliveryFull THEN delivery + 1 ELSE delivery
            /\ UNCHANGED <<queue, resp>>
    /\ UNCHANGED <<link, up, req, dialed, call, cancelled, outcome, written, closed, subActive, chan>>

\* dispatch's select: the send goes through, or the client is closed.
Unblock ==
    /\ \/ loop = "send" /\ ~DeliveryFull /\ delivery' = delivery + 1
       \/ loop \in {"send", "orphan"} /\ closed /\ UNCHANGED delivery
    /\ loop' = "read"
    /\ UNCHANGED <<wireVars, req, dialed, call, queue, cancelled, resp, outcome, written, closed,
                   subActive, chan>>

\* pendingQueue.drainErr: every live entry gets the transport error.
DrainErr ==
    /\ queue' = << >>
    /\ resp' = [n \in Reqs |-> IF \E i \in DOMAIN queue : queue[i] = n /\ n \notin cancelled
                               THEN Returned("TRANSPORT") ELSE resp[n]]

\* readLoop's error path: drainErr first, Close next.
LoopFails ==
    /\ loop = "read"
    /\ down = << >>
    /\ link = "down"
    /\ DrainErr
    /\ loop' = "closing"
    /\ UNCHANGED <<wireVars, req, dialed, call, cancelled, outcome, written, closed, subActive, chan,
                   delivery>>

\* Mutant: readLoop ends without Close.
LoopExitsOpen ==
    /\ loop = "closing"
    /\ loop' = "exited"
    /\ chan' = FALSE
    /\ UNCHANGED <<wireVars, req, dialed, call, queue, cancelled, resp, outcome, written, closed,
                   subActive, delivery>>

\* The Close at its end, which finds the connection broken.
LoopExits ==
    /\ loop = "closing"
    /\ closed' = TRUE
    /\ loop' = "exited"
    /\ chan' = FALSE
    /\ UNCHANGED <<wireVars, req, dialed, call, queue, cancelled, resp, outcome, written, subActive,
                   delivery>>

\* The application calls Close; only the first call does anything.
Close ==
    /\ "close" \in setup.events
    /\ dialed = "open"
    /\ ~closed
    /\ closed' = TRUE
    /\ IF link = "up" THEN Cut ELSE UNCHANGED wireVars
    /\ UNCHANGED <<req, dialed, call, queue, cancelled, resp, outcome, written, loop, subActive, chan,
                   delivery>>

\* The application receives from the channel a successful Sub returned.
Receive ==
    /\ "consume" \in setup.events
    /\ \E n \in DOMAIN req : req[n].kind = "sub" /\ outcome[n].kind = "OK"
    /\ delivery > 0
    /\ delivery' = delivery - 1
    /\ UNCHANGED <<wireVars, req, dialed, call, queue, cancelled, resp, outcome, written, closed, loop,
                   subActive, chan>>

ClientInit ==
    /\ dialed = "wait"
    /\ call = [c \in Callers |-> [pc |-> "idle", n |-> 0]]
    /\ queue = << >>
    /\ cancelled = {}
    /\ resp = [n \in Reqs |-> None]
    /\ outcome = [n \in Reqs |-> None]
    /\ written = << >>
    /\ closed = FALSE
    /\ loop = "none"
    /\ subActive = FALSE
    /\ chan = FALSE
    /\ delivery = 0

LoopStep == Dispatch \/ Unblock \/ LoopFails \/ LoopExits

ClientTypeOK ==
    /\ dialed \in {"wait", "open", "failed"}
    /\ call \in [Callers -> [pc : {"idle", "write", "wait"}, n : 0..MaxReqs]]
    /\ queue \in Seq(Reqs)
    /\ cancelled \subseteq Reqs
    /\ resp \in [Reqs -> Outcomes]
    /\ outcome \in [Reqs -> Outcomes]
    /\ written \in Seq(Reqs)
    /\ closed \in BOOLEAN /\ subActive \in BOOLEAN /\ chan \in BOOLEAN
    /\ loop \in {"none", "read", "send", "orphan", "closing", "exited"}
    /\ delivery \in 0..DeliveryCap

=============================================================================
