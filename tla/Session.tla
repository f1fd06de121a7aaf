------------------------------ MODULE Session ------------------------------
(***************************************************************************)
(* One connection in the broker: internal/server, Session.                 *)
(*                                                                         *)
(* The reader goroutine turns every command into its response frames and   *)
(* queues them on respCh; the delivery goroutines of the current           *)
(* subscription push messages on sendCh (module Delivery); the writer      *)
(* goroutine drains both.  Broker calls are atomic here and answer "OK" or *)
(* an error.                                                               *)
(***************************************************************************)
EXTENDS Wire

CONSTANTS
    RespCap,  \* respChBuf
    SendCap,  \* sendChBuf
    Window    \* receive window of the consumer

ASSUME SessionAssumption == RespCap \in Nat \ {0} /\ SendCap \in Nat \ {0} /\ Window \in Nat \ {0}

VARIABLES
    hello,     \* the handshake: "sent", "ok" or "refused"
    reader,    \* pc and the frames it still has to queue
    respCh,
    sendCh,    \* number of messages queued
    writer,    \* pc and the frame it is writing
    quit,
    topic,     \* currentTopic is set
    subs,      \* currentSubs is not empty
    inflight,  \* messages pushed and not acknowledged
    pushed,    \* messages pushed so far
    shutdown   \* the server's context is cancelled

sessionVars == <<hello, reader, respCh, sendCh, writer, quit, topic, subs, inflight, pushed, shutdown>>

\* handshake: the HELLO exchange, before the writer goroutine exists.
Handshake ==
    /\ hello = "sent"
    /\ \/ /\ link = "up"
          /\ hello' = "ok"
          /\ reader' = [reader EXCEPT !.pc = "read"]
          /\ writer' = [writer EXCEPT !.pc = "first"]
          /\ UNCHANGED wireVars
       \/ /\ "fail" \in setup.events \/ link = "down"
          /\ hello' = "refused"
          /\ reader' = [reader EXCEPT !.pc = "closed"]
          /\ writer' = [writer EXCEPT !.pc = "exited"]
          /\ Cut
    /\ UNCHANGED <<respCh, sendCh, quit, topic, subs, inflight, pushed, shutdown>>

\* The response frames a command of this kind can get.  An ACK or a NACK may name a
\* message that is not in flight.
Answers(kind) ==
    LET refused == IF "fail" \in setup.events THEN {<<"ERR">>} ELSE {}
    IN  CASE kind \in {"pub", "create", "sub"} -> {<<"OK">>} \cup refused
          [] kind = "dup" -> {<<"DUP", "OK">>}
          [] kind = "bad" -> {<<"ERR">>}
          [] kind \in {"ack", "nack"} -> {<<"ERR">>} \cup IF topic /\ inflight > 0 THEN {<<"OK">>} ELSE {}
          [] kind = "ctl" -> IF subs THEN {<<"OK">>} ELSE {<<"ERR">>}
          [] kind = "info" -> {<<"INFO">>}

\* ReadCommand: what the parser makes of request n; "bad" is an invalid or oversized
\* command, "garbled" one with bad framing.
Parsed(n) == req[n].kind

\* The frames the writer will encode for the answer to request n.
Reply(n, answer) == [i \in DOMAIN answer |-> [kind |-> answer[i], answers |-> n]]

\* handleParsed and handleCommand: one command up to its first sendResp.  A SUB
\* first cancels the subscription there was; a NACK offers its message to sendCh
\* again.  What fails to parse is answered even after shutdown.
HandleCommand ==
    /\ reader.pc = "read"
    /\ up # << >>
    /\ Parsed(Head(up)) # "garbled"
    /\ ~shutdown \/ Parsed(Head(up)) = "bad"
    /\ up' = Tail(up)
    /\ LET n == Head(up)
           kind == Parsed(n)
       IN \E answer \in Answers(kind) :
            /\ reader' = [pc |-> "reply", kind |-> kind, out |-> Reply(n, answer)]
            /\ subs' = (subs /\ kind # "sub")
            /\ inflight' = IF kind = "ack" /\ answer = <<"OK">> THEN inflight - 1 ELSE inflight
            /\ sendCh' = IF kind = "nack" /\ answer = <<"OK">> /\ sendCh < SendCap
                         THEN sendCh + 1 ELSE sendCh
    /\ UNCHANGED <<link, down, hello, respCh, writer, quit, topic, pushed, shutdown>>

\* Mutant: a plain send on respCh.
RespBlocks == FALSE

\* sendResp's way out: nobody will write the frame.
RespGone == writer.pc = "exited"

\* What the reader does once its last frame is queued.
AfterReply(frame) == IF reader.kind = "sub" /\ frame.kind = "OK" THEN "subscribe" ELSE "read"

\* sendResp: queue a frame on respCh, or give up when the writer has exited.
SendResp ==
    /\ reader.pc = "reply"
    /\ \/ Len(respCh) < RespCap /\ respCh' = Append(respCh, Head(reader.out))
       \/ RespGone /\ UNCHANGED respCh
    /\ reader' = [reader EXCEPT !.out = Tail(@),
                                !.pc = IF Len(reader.out) > 1 THEN "reply"
                                       ELSE AfterReply(Head(reader.out))]
    /\ UNCHANGED <<wireVars, hello, sendCh, writer, quit, topic, subs, inflight, pushed, shutdown>>

\* handleSub, after its OK is queued: Subscribe starts the delivery goroutines.
StartDelivery ==
    /\ reader.pc = "subscribe"
    /\ topic' = TRUE
    /\ subs' = TRUE
    /\ reader' = [reader EXCEPT !.pc = "read"]
    /\ UNCHANGED <<wireVars, hello, respCh, sendCh, writer, quit, inflight, pushed, shutdown>>

\* The reader loop ends: EOF, a stream that is broken or out of step, or a command
\* after the server's context is cancelled.  Run then cancels the subscription and
\* closes quit.
ReaderEnds ==
    /\ reader.pc = "read"
    /\ \/ up = << >> /\ link = "down" /\ UNCHANGED up
       \/ up # << >> /\ shutdown /\ Parsed(Head(up)) # "bad" /\ up' = Tail(up)
       \/ up # << >> /\ Parsed(Head(up)) = "garbled" /\ up' = Tail(up)
    /\ reader' = [reader EXCEPT !.pc = "ended"]
    /\ subs' = FALSE
    /\ quit' = TRUE
    /\ UNCHANGED <<link, down, hello, respCh, sendCh, writer, topic, inflight, pushed, shutdown>>

\* A delivery goroutine of module Delivery pushes the next message; its context
\* is a child of the server's.
PushMessage ==
    /\ subs
    /\ ~shutdown
    /\ inflight < Window
    /\ pushed < setup.msgs
    /\ sendCh < SendCap
    /\ sendCh' = sendCh + 1
    /\ inflight' = inflight + 1
    /\ pushed' = pushed + 1
    /\ UNCHANGED <<wireVars, hello, reader, respCh, writer, quit, topic, subs, shutdown>>

TakeResponse ==
    /\ respCh # << >>
    /\ respCh' = Tail(respCh)
    /\ writer' = [pc |-> "write", frame |-> Head(respCh)]
    /\ UNCHANGED sendCh

TakeMessage ==
    /\ sendCh > 0
    /\ sendCh' = sendCh - 1
    /\ writer' = [pc |-> "write", frame |-> [kind |-> "MSG", answers |-> 0]]
    /\ UNCHANGED respCh

WriterQuits ==
    /\ quit
    /\ writer' = [writer EXCEPT !.pc = "exited"]
    /\ UNCHANGED <<respCh, sendCh>>

\* runWriter's first select: a queued response, quit, or neither.
WriterFirst ==
    /\ writer.pc = "first"
    /\ \/ TakeResponse
       \/ WriterQuits
       \/ /\ respCh = << >> /\ ~quit
          /\ writer' = [writer EXCEPT !.pc = "second"]
          /\ UNCHANGED <<respCh, sendCh>>
    /\ UNCHANGED <<wireVars, hello, reader, quit, topic, subs, inflight, pushed, shutdown>>

\* Its second select takes any that is ready.
WriterSecond ==
    /\ writer.pc = "second"
    /\ TakeResponse \/ TakeMessage \/ WriterQuits
    /\ UNCHANGED <<wireVars, hello, reader, quit, topic, subs, inflight, pushed, shutdown>>

\* The frame goes to the socket, which blocks while it is full.  On a broken
\* connection the write fails, or the kernel accepts it for nobody.
WriterWrites ==
    /\ writer.pc = "write"
    /\ \/ /\ link = "up"
          /\ Len(down) < SockCap
          /\ down' = Append(down, writer.frame)
          /\ writer' = [writer EXCEPT !.pc = "first"]
       \/ /\ link = "down"
          /\ writer' \in {[writer EXCEPT !.pc = "first"], [writer EXCEPT !.pc = "exited"]}
          /\ UNCHANGED down
    /\ UNCHANGED <<link, up, hello, reader, respCh, sendCh, quit, topic, subs, inflight, pushed, shutdown>>

\* Run, after the writer is done: the connection is closed.
SessionCloses ==
    /\ reader.pc = "ended"
    /\ writer.pc = "exited"
    /\ reader' = [reader EXCEPT !.pc = "closed"]
    /\ IF link = "up" THEN Cut ELSE UNCHANGED wireVars
    /\ UNCHANGED <<hello, respCh, sendCh, writer, quit, topic, subs, inflight, pushed, shutdown>>

\* SIGTERM: the context passed to Serve is cancelled.
Shutdown ==
    /\ "shutdown" \in setup.events
    /\ ~shutdown
    /\ shutdown' = TRUE
    /\ UNCHANGED <<wireVars, hello, reader, respCh, sendCh, writer, quit, topic, subs, inflight, pushed>>

NoFrame == [kind |-> "MSG", answers |-> 0]

SessionInit ==
    /\ hello = "sent"
    /\ reader = [pc |-> "hello", kind |-> "bad", out |-> << >>]
    /\ respCh = << >>
    /\ sendCh = 0
    /\ writer = [pc |-> "none", frame |-> NoFrame]
    /\ quit = FALSE
    /\ topic = FALSE
    /\ subs = FALSE
    /\ inflight = 0
    /\ pushed = 0
    /\ shutdown = FALSE

ReaderStep == Handshake \/ HandleCommand \/ SendResp \/ StartDelivery \/ ReaderEnds \/ SessionCloses
WriterStep == WriterFirst \/ WriterSecond \/ WriterWrites

SessionTypeOK ==
    /\ hello \in {"sent", "ok", "refused"}
    /\ reader \in [pc : {"hello", "read", "reply", "subscribe", "ended", "closed"}, kind : Kinds,
                   out : Seq(Frame)]
    /\ respCh \in Seq(Frame) /\ Len(respCh) <= RespCap
    /\ sendCh \in 0..SendCap
    /\ writer \in [pc : {"none", "first", "second", "write", "exited"}, frame : Frame]
    /\ quit \in BOOLEAN /\ topic \in BOOLEAN /\ subs \in BOOLEAN /\ shutdown \in BOOLEAN
    /\ inflight \in 0..Window
    /\ pushed \in 0..setup.msgs

=============================================================================
