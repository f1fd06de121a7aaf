-------------------------- MODULE ConnectionProofs --------------------------
(***************************************************************************)
(* Proofs about module Connection, for any number of callers and requests, *)
(* any capacities of channels and sockets, and every environment.          *)
(***************************************************************************)
EXTENDS Connection, FiniteSetTheorems, WellFoundedInduction, TLAPS

\* Entries that have left the pending queue.
Popped == Len(req) - Len(queue)

\* The queue holds the latest requests, in the order they were issued.
Queued ==
    /\ Len(queue) <= Len(req)
    /\ \A i \in 1..Len(queue) : queue[i] = Popped + i

\* Requests in hand are requests that were issued.
Issued ==
    /\ Len(req) <= MaxReqs
    /\ \A c \in Callers : call[c].pc # "idle" => call[c].n \in 1..Len(req)
    /\ \A i \in 1..Len(written) : written[i] \in 1..Len(req)
    /\ \A i \in 1..Len(up) : up[i] \in 1..Len(req)

\* The writer starts with the reader, and ends when the connection is broken or
\* the reader has ended.
Ends ==
    /\ hello = "sent" => reader.pc = "hello" /\ writer.pc = "none"
    /\ quit => reader.pc \in {"ended", "closed"}
    /\ writer.pc = "exited" => link = "down" \/ quit

\* A message answers no request; everything else does.
Marked(frame) == frame.answers = 0 <=> frame.kind = "MSG"

Framed ==
    /\ \A i \in 1..Len(down) : Marked(down[i])
    /\ \A i \in 1..Len(respCh) : Marked(respCh[i])
    /\ \A i \in 1..Len(reader.out) : Marked(reader.out[i])
    /\ Marked(writer.frame)
    /\ reader.pc = "reply" => reader.out # << >>

InDown(n) == \E i \in 1..Len(down) : down[i].answers = n

\* The answers on the socket: in the order of their requests, none missing.
Arriving ==
    /\ \A i \in 1..Len(down) : down[i].answers # 0 =>
          down[i].answers > Popped /\ down[i].answers <= Len(written)
    /\ \A i, j \in 1..Len(down) : i < j /\ down[i].answers # 0 /\ down[j].answers # 0 =>
          down[i].answers < down[j].answers
    /\ \A i \in 1..Len(down) : \A n \in (Popped + 1)..(down[i].answers - 1) : InDown(n)

\* The session has read the requests up to t, and answers t if it is replying.
Taken(t) ==
    /\ reader.pc = "reply" => Len(reader.out) = 1 /\ reader.out[1].answers = t
    /\ reader.pc \notin {"ended", "closed"} =>
          t = Len(written) - Len(up) /\ \A i \in 1..Len(up) : up[i] = t + i

\* The answers after w are queued on respCh ...
Replying == IF reader.pc = "reply" THEN 1 ELSE 0
Answering(t, w) ==
    w = t - Replying - Len(respCh) /\ \A i \in 1..Len(respCh) : respCh[i].answers = w + i

\* ... the writer holds the answer to w, or none ...
Writing == IF writer.pc = "write" /\ writer.frame.answers # 0 THEN 1 ELSE 0
Held(w, s) == s = w - Writing /\ (Writing = 1 => writer.frame.answers = w)

\* ... and those up to s have been written to the socket.
Sent(s) ==
    /\ Popped <= s
    /\ \A i \in 1..Len(down) : down[i].answers <= s
    /\ \A n \in (Popped + 1)..s : InDown(n)

Stages ==
    \E t, w, s \in 0..Len(written) : Taken(t) /\ Answering(t, w) /\ Held(w, s) /\ Sent(s)

Matched ==
    \A n \in Reqs : resp[n].answers \in {0, n} /\ outcome[n].answers \in {0, n}

Pipeline == Arriving /\ (link = "up" => Stages) /\ Matched

ConnInv == TypeOK /\ Queued /\ Issued /\ Ends /\ Framed /\ (InOrder => Pipeline)

----------------------------------------------------------------------------
(* Sequences. *)

LEMMA SeqLen ==
  ASSUME NEW S, NEW seq \in Seq(S)
  PROVE  Len(seq) \in Nat /\ DOMAIN seq = 1..Len(seq) /\ \A i \in 1..Len(seq) : seq[i] \in S
BY SMTT(30)

LEMMA SeqAppend ==
  ASSUME NEW S, NEW seq \in Seq(S), NEW elt \in S
  PROVE  /\ Append(seq, elt) \in Seq(S)
         /\ Len(Append(seq, elt)) = Len(seq) + 1
         /\ \A i \in 1..Len(seq) : Append(seq, elt)[i] = seq[i]
         /\ Append(seq, elt)[Len(seq) + 1] = elt
BY SMTT(30)

LEMMA SeqTail ==
  ASSUME NEW S, NEW seq \in Seq(S), seq # << >>
  PROVE  /\ Tail(seq) \in Seq(S)
         /\ Head(seq) = seq[1] /\ seq[1] \in S
         /\ Len(seq) \in Nat /\ Len(seq) >= 1
         /\ Len(Tail(seq)) = Len(seq) - 1
         /\ \A i \in 1..(Len(seq) - 1) : Tail(seq)[i] = seq[i + 1]
BY SMTT(30)

LEMMA SeqLonger ==
  ASSUME NEW S, NEW seq \in Seq(S), Len(seq) > 1
  PROVE  Tail(seq) # << >>
<1>1. seq # << >>
  OBVIOUS
<1>2. PICK rest : rest = Tail(seq)
  BY ZenonT(30)
<1>3. rest \in Seq(S) /\ Len(rest) = Len(seq) - 1 /\ Len(seq) \in Nat
  BY ZenonT(30), <1>1, <1>2, SeqTail
<1>4. rest # << >>
  BY <1>3
<1>5. QED
  BY ZenonT(30), <1>2, <1>4

LEMMA SeqSuffix ==
  ASSUME NEW S, NEW seq \in Seq(S), NEW k \in 1..(Len(seq) + 1)
  PROVE  /\ SubSeq(seq, k + 1, Len(seq)) \in Seq(S)
         /\ Len(SubSeq(seq, k + 1, Len(seq))) = IF k <= Len(seq) THEN Len(seq) - k ELSE 0
         /\ \A i \in 1..(Len(seq) - k) : SubSeq(seq, k + 1, Len(seq))[i] = seq[k + i]
BY SMTT(30)

LEMMA SeqPrefix ==
  ASSUME NEW S, NEW seq \in Seq(S), NEW pre \in Prefixes(seq)
  PROVE  /\ pre \in Seq(S)
         /\ Len(pre) \in Nat /\ Len(pre) <= Len(seq)
         /\ \A i \in 1..Len(pre) : pre[i] = seq[i]
BY SMTT(30) DEF Prefixes

----------------------------------------------------------------------------
(* Types. *)

LEMMA SetupFacts ==
  ASSUME setup \in Setups
  PROVE  setup.callers \subseteq Callers /\ setup.kinds \subseteq Kinds /\ setup.reqs \in 0..MaxReqs /\ setup.msgs \in Nat
BY WireAssumption DEF SetupType

LEMMA OutcomeTypes ==
  /\ \A how \in {"none", "TRANSPORT", "closed", "cancelled"} : Returned(how) \in Outcomes
  /\ Frame \subseteq Outcomes
  /\ None \in Outcomes
BY DEF Outcomes, None, Returned

LEMMA TypeInit == Init => TypeOK
<1> SUFFICES ASSUME Init PROVE TypeOK
  BY ZenonT(30)
<1>1. /\ setup \in Setups /\ link \in {"up", "down"}
      /\ up \in Seq(Reqs) /\ Len(up) <= SockCap
      /\ down \in Seq(Frame) /\ Len(down) <= SockCap
      /\ req \in Seq([kind : Kinds, caller : Callers])
  BY SMTT(30), WireAssumption DEF Init
<1>2. ClientTypeOK
  <2>1. 0 \in 0..DeliveryCap /\ 0 \in 0..MaxReqs /\ << >> \in Seq(Reqs)
    BY ClientAssumption, WireAssumption
  <2>2. [pc |-> "idle", n |-> 0] \in [pc : {"idle", "write", "wait"}, n : 0..MaxReqs]
    BY ZenonT(30), <2>1
  <2>3. QED
    BY ZenonT(30), <2>1, <2>2, OutcomeTypes DEF Init, ClientInit, ClientTypeOK
<1>3. SessionTypeOK
  <2>1. /\ 0 \in 0..SendCap /\ 0 \in 0..Window /\ 0 \in 0..setup.msgs /\ 0 \in 0..MaxReqs
        /\ << >> \in Seq(Frame) /\ Len(<< >>) <= RespCap
    BY SessionAssumption, WireAssumption, <1>1, SetupFacts
  <2>2. /\ [pc |-> "hello", kind |-> "bad", out |-> << >>] \in
             [pc : {"hello", "read", "reply", "subscribe", "ended", "closed"}, kind : Kinds, out : Seq(Frame)]
        /\ [pc |-> "none", frame |-> NoFrame] \in [pc : {"none", "first", "second", "write", "exited"}, frame : Frame]
    BY ZenonT(30), <2>1 DEF NoFrame, Frame, Kinds
  <2>3. QED
    BY ZenonT(30), <2>1, <2>2 DEF Init, SessionInit, SessionTypeOK
<1>4. QED
  BY ZenonT(30), <1>1, <1>2, <1>3 DEF TypeOK

LEMMA CutType ==
  ASSUME TypeOK, Cut
  PROVE  /\ link' \in {"up", "down"}
         /\ up' \in Seq(Reqs) /\ Len(up') <= SockCap
         /\ down' \in Seq(Frame) /\ Len(down') <= SockCap
<1>1. up \in Seq(Reqs) /\ Len(up) <= SockCap /\ down \in Seq(Frame) /\ Len(down) <= SockCap
  BY ZenonT(30) DEF TypeOK
<1>2. link' = "down" /\ up' \in Prefixes(up) /\ down' \in Prefixes(down)
  BY ZenonT(30) DEF Cut
<1>3. up' \in Seq(Reqs) /\ Len(up') \in Nat /\ Len(up') <= Len(up)
  BY ZenonT(30), <1>1, <1>2, SeqPrefix
<1>4. down' \in Seq(Frame) /\ Len(down') \in Nat /\ Len(down') <= Len(down)
  BY ZenonT(30), <1>1, <1>2, SeqPrefix
<1>5. Len(up) \in Nat /\ Len(down) \in Nat /\ SockCap \in Nat
  BY ZenonT(30), <1>1, SeqLen, WireAssumption
<1>6. QED
  BY <1>1, <1>2, <1>3, <1>4, <1>5

LEMMA ReturnType ==
  ASSUME TypeOK, NEW c \in Callers, call[c].n \in Reqs, NEW out \in Outcomes, Return(c, out)
  PROVE  /\ outcome' \in [Reqs -> Outcomes]
         /\ call' \in [Callers -> [pc : {"idle", "write", "wait"}, n : 0..MaxReqs]]
         /\ subActive' \in BOOLEAN /\ chan' \in BOOLEAN
         /\ delivery' \in 0..DeliveryCap
         /\ loop' \in {"none", "read", "send", "orphan", "closing", "exited"}
BY SMTT(30), ClientAssumption DEF TypeOK, ClientTypeOK, Return

WireType ==
    /\ link \in {"up", "down"}
    /\ up \in Seq(Reqs) /\ Len(up) <= SockCap
    /\ down \in Seq(Frame) /\ Len(down) <= SockCap
    /\ req \in Seq([kind : Kinds, caller : Callers])

LEMMA TypeParts == TypeOK <=> setup \in Setups /\ WireType /\ ClientTypeOK /\ SessionTypeOK
BY ZenonT(30) DEF TypeOK, WireType

LEMMA WireSame == WireType /\ UNCHANGED <<wireVars, req>> => WireType'
BY ZenonT(30) DEF WireType, wireVars

LEMMA ClientSame == ClientTypeOK /\ UNCHANGED clientVars => ClientTypeOK'
BY ZenonT(30) DEF ClientTypeOK, clientVars

LEMMA SessionSame == SessionTypeOK /\ UNCHANGED <<setup, sessionVars>> => SessionTypeOK'
BY ZenonT(30) DEF SessionTypeOK, sessionVars

LEMMA CallIssued ==
  ASSUME TypeOK, Issued, NEW c \in Callers, call[c].pc # "idle"
  PROVE  call[c].n \in Reqs /\ call[c].n \in 1..Len(req)
<1>1. call[c].n \in 1..Len(req) /\ Len(req) <= MaxReqs /\ MaxReqs \in Nat /\ Len(req) \in Nat
  BY ZenonT(30), WireAssumption, SeqLen DEF TypeOK, Issued
<1>2. QED
  BY <1>1 DEF Reqs

LEMMA CallTypes ==
  ASSUME TypeOK, Issued, NEW c \in Callers, UNCHANGED <<setup, sessionVars>>,
         ((\E kind \in setup.kinds : Push(c, kind)) /\ UNCHANGED wireVars) \/ Write(c) \/ Await(c) \/ ContextEnds(c)
  PROVE  TypeOK'
<1>1. setup \in Setups /\ WireType /\ ClientTypeOK /\ SessionTypeOK /\ SessionTypeOK'
  BY ZenonT(30), TypeParts, SessionSame
<1>2. ASSUME NEW kind \in setup.kinds, Push(c, kind), UNCHANGED wireVars PROVE WireType' /\ ClientTypeOK'
  <2>1. kind \in Kinds /\ req \in Seq([kind : Kinds, caller : Callers]) /\ queue \in Seq(Reqs) /\ Len(req) + 1 \in Reqs
    <3>1. kind \in Kinds /\ req \in Seq([kind : Kinds, caller : Callers]) /\ queue \in Seq(Reqs) /\ Len(req) < setup.reqs
      BY ZenonT(30), <1>1, <1>2, SetupFacts DEF WireType, ClientTypeOK, Push
    <3>2. Len(req) \in Nat /\ setup.reqs \in 0..MaxReqs /\ MaxReqs \in Nat
      BY ZenonT(30), <1>1, <3>1, SetupFacts, SeqLen, WireAssumption
    <3>3. QED
      BY <3>1, <3>2 DEF Reqs
  <2>2. req' \in Seq([kind : Kinds, caller : Callers]) /\ queue' \in Seq(Reqs)
    BY SMTT(30), <1>2, <2>1 DEF Push
  <2>3. WireType'
    BY ZenonT(30), <1>1, <1>2, <2>2 DEF WireType, wireVars
  <2>4. call' \in [Callers -> [pc : {"idle", "write", "wait"}, n : 0..MaxReqs]] /\ delivery' \in 0..DeliveryCap
        /\ subActive' \in BOOLEAN /\ chan' \in BOOLEAN
    <3>1. 0 \in 0..DeliveryCap /\ Len(req) + 1 \in 0..MaxReqs
      BY <2>1, ClientAssumption, WireAssumption DEF Reqs
    <3>2. [pc |-> "write", n |-> Len(req) + 1] \in [pc : {"idle", "write", "wait"}, n : 0..MaxReqs]
      BY ZenonT(30), <3>1
    <3>3. QED
      BY ZenonT(30), <1>1, <1>2, <3>1, <3>2 DEF Push, ClientTypeOK
  <2>5. UNCHANGED <<dialed, cancelled, resp, outcome, written, closed, loop>>
    BY ZenonT(30), <1>2 DEF Push
  <2>6. ClientTypeOK'
    BY ZenonT(30), <1>1, <2>2, <2>4, <2>5 DEF ClientTypeOK
  <2>7. QED
    BY ZenonT(30), <2>3, <2>6
<1>3. ASSUME Write(c) PROVE WireType' /\ ClientTypeOK'
  <2>1. call[c].n \in Reqs /\ cancelled \cup {call[c].n} \subseteq Reqs /\ up \in Seq(Reqs) /\ written \in Seq(Reqs)
    <3>1. call[c].pc = "write" /\ cancelled \subseteq Reqs /\ up \in Seq(Reqs) /\ written \in Seq(Reqs)
      BY ZenonT(30), <1>1, <1>3 DEF Write, ClientTypeOK, WireType
    <3>2. call[c].n \in Reqs
      BY ZenonT(30), <3>1, CallIssued
    <3>3. QED
      BY ZenonT(30), <3>1, <3>2
  <2>2. UNCHANGED <<link, down, req, dialed, queue, resp, closed>>
    BY ZenonT(30), <1>3 DEF Write
  <2>3. CASE cancelled' = cancelled \cup {call[c].n} /\ UNCHANGED <<up, written>>
               /\ (Return(c, Returned("closed")) \/ Return(c, Returned("TRANSPORT")))
    <3>1. PICK out \in Outcomes : Return(c, out)
      BY ZenonT(30), <2>3, OutcomeTypes
    <3>2. QED
      BY ZenonT(30), <1>1, <2>1, <2>2, <2>3, <3>1, ReturnType DEF WireType, ClientTypeOK
  <2>4. CASE /\ call' = [call EXCEPT ![c].pc = "wait"]
             /\ UNCHANGED <<cancelled, outcome, loop, subActive, chan, delivery>>
             /\ \/ UNCHANGED <<up, written>>
                \/ up' = Append(up, call[c].n) /\ written' = Append(written, call[c].n) /\ Len(up) < SockCap
    <3>1. up' \in Seq(Reqs) /\ Len(up') <= SockCap /\ written' \in Seq(Reqs)
      <4>1. CASE UNCHANGED <<up, written>>
        BY ZenonT(30), <1>1, <4>1 DEF WireType, ClientTypeOK
      <4>2. CASE up' = Append(up, call[c].n) /\ written' = Append(written, call[c].n) /\ Len(up) < SockCap
        <5>1. up' \in Seq(Reqs) /\ written' \in Seq(Reqs) /\ Len(up') = Len(up) + 1
          BY ZenonT(30), <2>1, <4>2, SeqAppend
        <5>2. Len(up) \in Nat /\ SockCap \in Nat
          BY ZenonT(30), <2>1, SeqLen, WireAssumption
        <5>3. QED
          BY <4>2, <5>1, <5>2
      <4>3. QED
        BY ZenonT(30), <2>4, <4>1, <4>2
    <3>2. call' \in [Callers -> [pc : {"idle", "write", "wait"}, n : 0..MaxReqs]]
      BY ZenonT(30), <1>1, <2>4 DEF ClientTypeOK
    <3>3. QED
      BY ZenonT(30), <1>1, <2>2, <2>4, <3>1, <3>2 DEF WireType, ClientTypeOK
  <2>5. QED
    BY ZenonT(30), <1>3, <2>3, <2>4 DEF Write
<1>4. ASSUME Await(c) \/ ContextEnds(c) PROVE WireType' /\ ClientTypeOK'
  <2>1. call[c].n \in Reqs /\ cancelled \cup {call[c].n} \subseteq Reqs
    <3>1. call[c].pc = "wait" /\ cancelled \subseteq Reqs
      BY ZenonT(30), <1>1, <1>4 DEF Await, ContextEnds, ClientTypeOK
    <3>2. call[c].n \in Reqs
      BY ZenonT(30), <3>1, CallIssued
    <3>3. QED
      BY ZenonT(30), <3>1, <3>2
  <2>2. UNCHANGED <<wireVars, req, dialed, queue, resp, written, closed>>
    BY ZenonT(30), <1>4 DEF Await, ContextEnds
  <2>3. PICK out \in Outcomes : Return(c, out)
    <3>1. resp[call[c].n] \in Outcomes
      BY ZenonT(30), <1>1, <2>1 DEF ClientTypeOK
    <3>2. QED
      BY ZenonT(30), <1>4, <3>1, OutcomeTypes DEF Await, ContextEnds
  <2>4. cancelled' \subseteq Reqs
    BY ZenonT(30), <1>1, <1>4, <2>1 DEF Await, ContextEnds, ClientTypeOK
  <2>5. QED
    BY ZenonT(30), <1>1, <2>1, <2>2, <2>3, <2>4, ReturnType DEF WireType, ClientTypeOK, wireVars
<1>5. QED
  BY ZenonT(30), <1>1, <1>2, <1>3, <1>4, TypeParts DEF TypeOK, WireType

\* A set of naturals has a smallest element.
LEMMA MinExists ==
  ASSUME NEW S \in SUBSET Nat, S # {}
  PROVE  \E m \in S : \A n \in S : m <= n
<1> DEFINE R == StrictSubsetOrdering(Nat)
           T == {1..n : n \in S}
<1>1. T \subseteq FiniteSubsetsOf(Nat) /\ T # {}
  <2>1. \A n \in S : IsFiniteSet(1..n) /\ 1..n \subseteq Nat
    BY FS_Interval
  <2>2. QED
    BY ZenonT(30), <2>1 DEF FiniteSubsetsOf
<1>2. PICK x \in T : \A y \in T : ~ (<<y, x>> \in R)
  <2> HIDE DEF T
  <2> QED
    BY ZenonT(30), <1>1, FS_StrictSubsetOrderingWellFounded, WFMin
<1>3. PICK m \in S : x = 1..m
  BY ZenonT(30), <1>2
<1>4. ASSUME NEW n \in S, ~ (m <= n) PROVE FALSE
  <2>1. 1..n \subseteq 1..m /\ 1..n # 1..m
    <3>1. m \in 1..m /\ m \notin 1..n
      BY <1>4
    <3>2. QED
      BY <1>4, <3>1
  <2>2. <<1..n, 1..m>> \in R
    BY <2>1 DEF StrictSubsetOrdering
  <2>3. QED
    BY ZenonT(30), <2>2, <1>2, <1>3
<1>5. QED
  BY ZenonT(30), <1>4

LEMMA LiveFacts ==
  ASSUME queue \in Seq(Reqs)
  PROVE  /\ FirstLive \in 1..(Len(queue) + 1)
         /\ FirstLive <= Len(queue) => queue[FirstLive] \in Reqs
         /\ cancelled = {} => FirstLive = 1
<1> DEFINE live == {i \in DOMAIN queue : queue[i] \notin cancelled}
<1>1. Len(queue) \in Nat /\ DOMAIN queue = 1..Len(queue) /\ \A i \in 1..Len(queue) : queue[i] \in Reqs
  BY ZenonT(30), SeqLen
<1>2. live \subseteq 1..Len(queue)
  BY ZenonT(30), <1>1
<1>3. CASE live = {}
  <2>1. FirstLive = Len(queue) + 1
    BY ZenonT(30), <1>3 DEF FirstLive
  <2>2. cancelled = {} => Len(queue) = 0
    <3>1. cancelled = {} => \A i \in 1..Len(queue) : FALSE
      BY ZenonT(30), <1>1, <1>3
    <3>2. QED
      BY <1>1, <3>1
  <2>3. QED
    BY <1>1, <2>1, <2>2
<1>4. CASE live # {}
  <2>1. \E i \in live : \A j \in live : i <= j
    <3>1. live \in SUBSET Nat
      <4>1. \A i \in 1..Len(queue) : i \in Nat
        BY <1>1
      <4>2. QED
        BY ZenonT(30), <1>2, <4>1
    <3> HIDE DEF live
    <3>2. QED
      BY ZenonT(30), <1>4, <3>1, MinExists
  <2>2. FirstLive \in live /\ \A j \in live : FirstLive <= j
    BY ZenonT(30), <1>4, <2>1 DEF FirstLive
  <2>3. cancelled = {} => 1 \in live
    <3>1. 1 \in 1..Len(queue)
      BY <1>1, <1>2, <2>2
    <3>2. QED
      BY ZenonT(30), <1>1, <3>1
  <2>4. QED
    BY <1>1, <1>2, <2>2, <2>3
<1>5. QED
  BY ZenonT(30), <1>3, <1>4

LEMMA DeliverType ==
  ASSUME ClientTypeOK, NEW f \in Frame, Deliver(f)
  PROVE  queue' \in Seq(Reqs) /\ resp' \in [Reqs -> Outcomes]
<1>1. queue \in Seq(Reqs) /\ resp \in [Reqs -> Outcomes] /\ f \in Outcomes
  BY ZenonT(30), OutcomeTypes DEF ClientTypeOK
<1>2. FirstLive \in 1..(Len(queue) + 1) /\ (FirstLive <= Len(queue) => queue[FirstLive] \in Reqs)
  BY ZenonT(30), <1>1, LiveFacts
<1>3. queue' \in Seq(Reqs)
  BY ZenonT(30), <1>1, <1>2, SeqSuffix DEF Deliver
<1>4. CASE FirstLive > Len(queue)
  BY ZenonT(30), <1>1, <1>3, <1>4 DEF Deliver
<1>5. CASE ~(FirstLive > Len(queue))
  <2>1. FirstLive <= Len(queue)
    BY <1>1, <1>2, <1>5, SeqLen
  <2>2. QED
    BY ZenonT(30), <1>1, <1>2, <1>3, <1>5, <2>1 DEF Deliver
<1>6. QED
  BY ZenonT(30), <1>4, <1>5

LEMMA LoopTypes ==
  ASSUME TypeOK, LoopStep, UNCHANGED <<setup, sessionVars>>
  PROVE  TypeOK'
<1>1. setup \in Setups /\ WireType /\ ClientTypeOK /\ SessionTypeOK /\ SessionTypeOK'
  BY ZenonT(30), TypeParts, SessionSame
<1>2. ASSUME Dispatch PROVE WireType' /\ ClientTypeOK'
  <2>1. down \in Seq(Frame) /\ down # << >> /\ Len(down) <= SockCap /\ SockCap \in Nat
    BY ZenonT(30), <1>1, <1>2, WireAssumption DEF Dispatch, WireType
  <2>2. Head(down) \in Frame /\ down' \in Seq(Frame) /\ Len(down') <= SockCap
    <3>1. /\ Head(down) \in Frame /\ down' \in Seq(Frame) /\ Len(down') = Len(down) - 1
          /\ Len(down) \in Nat
      BY ZenonT(30), <1>2, <2>1, SeqTail DEF Dispatch
    <3>2. QED
      BY <2>1, <3>1
  <2>3. UNCHANGED <<link, up, req, dialed, call, cancelled, outcome, written, closed, subActive, chan>>
    BY ZenonT(30), <1>2 DEF Dispatch
  <2>4. queue' \in Seq(Reqs) /\ resp' \in [Reqs -> Outcomes] /\ delivery' \in 0..DeliveryCap
        /\ loop' \in {"none", "read", "send", "orphan", "closing", "exited"}
    <3>1. CASE Head(down).kind # "MSG"
      BY ZenonT(30), <1>1, <1>2, <2>2, <3>1, DeliverType DEF Dispatch, ClientTypeOK
    <3>2. CASE Head(down).kind = "MSG"
      <4>1. delivery # DeliveryCap => delivery + 1 \in 0..DeliveryCap
        BY <1>1, ClientAssumption DEF ClientTypeOK
      <4>2. QED
        BY ZenonT(30), <1>1, <1>2, <3>2, <4>1 DEF Dispatch, ClientTypeOK, DeliveryFull
    <3>3. QED
      BY ZenonT(30), <3>1, <3>2
  <2>5. QED
    BY ZenonT(30), <1>1, <2>2, <2>3, <2>4 DEF WireType, ClientTypeOK
<1>3. ASSUME Unblock PROVE WireType' /\ ClientTypeOK'
  <2>1. delivery # DeliveryCap => delivery + 1 \in 0..DeliveryCap
    BY <1>1, ClientAssumption DEF ClientTypeOK
  <2>2. QED
    BY ZenonT(30), <1>1, <1>3, <2>1 DEF Unblock, ClientTypeOK, WireType, DeliveryFull, wireVars
<1>4. ASSUME LoopFails PROVE WireType' /\ ClientTypeOK'
  <2>1. << >> \in Seq(Reqs)
    OBVIOUS
  <2>2. resp' \in [Reqs -> Outcomes]
    BY ZenonT(30), <1>1, <1>4, OutcomeTypes DEF LoopFails, DrainErr, ClientTypeOK
  <2>3. QED
    BY ZenonT(30), <1>1, <1>4, <2>1, <2>2 DEF LoopFails, DrainErr, ClientTypeOK, WireType, wireVars
<1>5. ASSUME LoopExits PROVE WireType' /\ ClientTypeOK'
  BY ZenonT(30), <1>1, <1>5 DEF LoopExits, ClientTypeOK, WireType, wireVars
<1>6. QED
  BY ZenonT(30), <1>1, <1>2, <1>3, <1>4, <1>5, TypeParts DEF LoopStep, TypeOK, WireType

LEMMA OtherTypes ==
  ASSUME TypeOK, UNCHANGED <<setup, sessionVars>>,
         \/ DialReturns \/ Break \/ Close \/ Receive
  PROVE  TypeOK'
<1>1. setup \in Setups /\ WireType /\ ClientTypeOK /\ SessionTypeOK /\ SessionTypeOK'
  BY ZenonT(30), TypeParts, SessionSame
<1>2. ASSUME DialReturns PROVE WireType' /\ ClientTypeOK'
  BY ZenonT(30), <1>1, <1>2 DEF DialReturns, Dial, WireType, ClientTypeOK, wireVars
<1>3. ASSUME Break PROVE WireType' /\ ClientTypeOK'
  BY ZenonT(30), <1>1, <1>3, CutType, ClientSame DEF Break, WireType
<1>4. ASSUME Close PROVE WireType' /\ ClientTypeOK'
  <2>1. WireType'
    BY ZenonT(30), <1>1, <1>4, CutType DEF Close, WireType, wireVars
  <2>2. QED
    BY ZenonT(30), <1>1, <1>4, <2>1 DEF Close, ClientTypeOK
<1>5. ASSUME Receive PROVE WireType' /\ ClientTypeOK'
  <2>1. delivery > 0 => delivery - 1 \in 0..DeliveryCap
    BY <1>1, ClientAssumption DEF ClientTypeOK
  <2>2. QED
    BY ZenonT(30), <1>1, <1>5, <2>1 DEF Receive, ClientTypeOK, WireType, wireVars
<1>6. QED
  BY ZenonT(30), <1>1, <1>2, <1>3, <1>4, <1>5, TypeParts DEF TypeOK, WireType

LEMMA ReplyTypes ==
  ASSUME TypeOK, NEW kind \in Kinds, kind # "garbled", NEW n \in Reqs, NEW answer \in Answers(kind)
  PROVE  /\ Reply(n, answer) \in Seq(Frame) /\ Reply(n, answer) # << >>
         /\ \A i \in 1..Len(Reply(n, answer)) : Reply(n, answer)[i].answers = n /\ Reply(n, answer)[i].kind # "MSG"
         /\ kind # "dup" => Len(Reply(n, answer)) = 1
         /\ kind = "ack" /\ answer = <<"OK">> => inflight > 0
<1>0. kind = "ack" /\ answer = <<"OK">> => inflight > 0
  BY DEF Answers
<1>1. answer \in {<<"OK">>, <<"ERR">>, <<"INFO">>, <<"DUP", "OK">>} /\ (kind # "dup" => answer # <<"DUP", "OK">>)
  BY DEF Answers, Kinds
<1>2. n \in 0..MaxReqs
  BY WireAssumption DEF Reqs
<1>3. ASSUME NEW k \in {"OK", "ERR", "INFO"}, answer = <<k>>
      PROVE  Reply(n, answer) = <<[kind |-> k, answers |-> n]>>
  BY <1>3 DEF Reply
<1>4. ASSUME answer = <<"DUP", "OK">>
      PROVE  Reply(n, answer) = <<[kind |-> "DUP", answers |-> n], [kind |-> "OK", answers |-> n]>>
  BY <1>4 DEF Reply
<1>5. ASSUME NEW k \in {"OK", "ERR", "INFO", "DUP"} PROVE [kind |-> k, answers |-> n] \in Frame
  BY ZenonT(30), <1>2 DEF Frame
<1>6. CASE answer = <<"DUP", "OK">>
  <2>1. PICK s : s = Reply(n, answer)
    BY ZenonT(30)
  <2>2. PICK f \in Frame, g \in Frame : s = <<f, g>> /\ f.answers = n /\ f.kind # "MSG" /\ g.answers = n /\ g.kind # "MSG"
    BY <1>4, <1>5, <1>6, <2>1
  <2>3. s \in Seq(Frame) /\ s # << >> /\ \A i \in 1..Len(s) : s[i] = f \/ s[i] = g
    BY <2>2
  <2>4. QED
    BY ZenonT(30), <1>0, <1>1, <1>6, <2>1, <2>2, <2>3
<1>7. CASE answer # <<"DUP", "OK">>
  <2>1. PICK s : s = Reply(n, answer)
    BY ZenonT(30)
  <2>2. PICK f \in Frame : s = <<f>> /\ f.answers = n /\ f.kind # "MSG"
    BY <1>1, <1>3, <1>5, <1>7, <2>1
  <2>3. s \in Seq(Frame) /\ s # << >> /\ Len(s) = 1 /\ \A i \in 1..Len(s) : s[i] = f
    BY <2>2
  <2>4. QED
    BY ZenonT(30), <1>0, <2>1, <2>2, <2>3
<1>8. QED
  BY ZenonT(30), <1>6, <1>7

LEMMA HeadParsed ==
  ASSUME TypeOK, Issued, up # << >>
  PROVE  Head(up) = up[1] /\ up[1] \in Reqs /\ up[1] \in 1..Len(req) /\ Parsed(Head(up)) \in Kinds
<1>1. up \in Seq(Reqs) /\ req \in Seq([kind : Kinds, caller : Callers])
  BY ZenonT(30) DEF TypeOK
<1>2. Head(up) = up[1] /\ up[1] \in Reqs /\ Len(up) \in Nat /\ Len(up) >= 1
  BY ZenonT(30), <1>1, SeqTail
<1>3. up[1] \in 1..Len(req)
  <2>1. 1 \in 1..Len(up)
    BY <1>2
  <2>2. QED
    BY ZenonT(30), <2>1 DEF Issued
<1>4. req[up[1]] \in [kind : Kinds, caller : Callers]
  BY ZenonT(30), <1>1, <1>3, SeqLen
<1>5. QED
  BY ZenonT(30), <1>2, <1>3, <1>4 DEF Parsed

LEMMA CommandTypes ==
  ASSUME TypeOK, Issued, HandleCommand, UNCHANGED <<setup, req, clientVars>>
  PROVE  TypeOK'
<1>1. setup \in Setups /\ WireType /\ ClientTypeOK /\ SessionTypeOK /\ ClientTypeOK'
  BY ZenonT(30), TypeParts, ClientSame
<1>2. up \in Seq(Reqs) /\ up # << >> /\ Len(up) <= SockCap /\ SockCap \in Nat
  BY ZenonT(30), <1>1, WireAssumption DEF HandleCommand, WireType
<1>3. /\ Head(up) = up[1] /\ up[1] \in Reqs /\ up' \in Seq(Reqs) /\ Len(up') = Len(up) - 1
      /\ Len(up) \in Nat /\ Len(up) >= 1
  BY ZenonT(30), <1>2, SeqTail DEF HandleCommand
<1>4. Parsed(Head(up)) \in Kinds /\ Parsed(Head(up)) # "garbled"
  BY ZenonT(30), <1>2, HeadParsed DEF HandleCommand
<1>5. WireType'
  <2>1. Len(up') <= SockCap
    BY <1>2, <1>3
  <2>2. QED
    BY ZenonT(30), <1>1, <1>3, <2>1 DEF WireType, HandleCommand
<1>6. reader' \in [pc : {"hello", "read", "reply", "subscribe", "ended", "closed"}, kind : Kinds, out : Seq(Frame)]
  <2>1. PICK n : n = Head(up)
    BY ZenonT(30)
  <2>2. PICK answer \in Answers(Parsed(n)) :
          reader' = [pc |-> "reply", kind |-> Parsed(n), out |-> Reply(n, answer)]
    BY ZenonT(30), <2>1 DEF HandleCommand
  <2>3. Reply(n, answer) \in Seq(Frame)
    BY ZenonT(30), <1>3, <1>4, <2>1, <2>2, ReplyTypes
  <2>4. QED
    BY ZenonT(30), <1>4, <2>1, <2>2, <2>3
<1>7. subs' \in BOOLEAN /\ inflight' \in 0..Window /\ sendCh' \in 0..SendCap
  <2>1. inflight > 0 => inflight - 1 \in 0..Window
    BY <1>1, SessionAssumption DEF SessionTypeOK
  <2>2. sendCh < SendCap => sendCh + 1 \in 0..SendCap
    BY <1>1, SessionAssumption DEF SessionTypeOK
  <2>3. PICK answer \in Answers(Parsed(Head(up))) :
          /\ subs' = (subs /\ Parsed(Head(up)) # "sub")
          /\ inflight' = IF Parsed(Head(up)) = "ack" /\ answer = <<"OK">> THEN inflight - 1 ELSE inflight
          /\ sendCh' = IF Parsed(Head(up)) = "nack" /\ answer = <<"OK">> /\ sendCh < SendCap
                       THEN sendCh + 1 ELSE sendCh
    BY ZenonT(30) DEF HandleCommand
  <2>4. Parsed(Head(up)) = "ack" /\ answer = <<"OK">> => inflight > 0
    BY ZenonT(30), <1>3, <1>4, <2>3, ReplyTypes
  <2>5. QED
    BY ZenonT(30), <1>1, <2>1, <2>2, <2>3, <2>4 DEF SessionTypeOK
<1>8. SessionTypeOK'
  BY ZenonT(30), <1>1, <1>6, <1>7 DEF SessionTypeOK, HandleCommand
<1>9. QED
  BY ZenonT(30), <1>1, <1>5, <1>8 DEF TypeOK, WireType

LEMMA ReaderTypes ==
  ASSUME TypeOK, Framed, UNCHANGED <<setup, req, clientVars>>,
         Handshake \/ SendResp \/ StartDelivery \/ ReaderEnds \/ SessionCloses
  PROVE  TypeOK'
<1>1. setup \in Setups /\ WireType /\ ClientTypeOK /\ SessionTypeOK /\ ClientTypeOK'
  BY ZenonT(30), TypeParts, ClientSame
<1>2. ASSUME Handshake PROVE WireType' /\ SessionTypeOK'
  <2>1. WireType'
    BY ZenonT(30), <1>1, <1>2, CutType DEF Handshake, WireType, wireVars
  <2>2. hello' \in {"sent", "ok", "refused"} /\ UNCHANGED <<respCh, sendCh, quit, topic, subs, inflight, pushed, shutdown>>
    BY ZenonT(30), <1>2 DEF Handshake
  <2>3. reader' \in [pc : {"hello", "read", "reply", "subscribe", "ended", "closed"}, kind : Kinds, out : Seq(Frame)]
        /\ writer' \in [pc : {"none", "first", "second", "write", "exited"}, frame : Frame]
    BY ZenonT(30), <1>1, <1>2 DEF Handshake, SessionTypeOK
  <2>4. QED
    BY ZenonT(30), <1>1, <2>1, <2>2, <2>3 DEF SessionTypeOK
<1>3. ASSUME SendResp PROVE WireType' /\ SessionTypeOK'
  <2>1. /\ respCh \in Seq(Frame) /\ reader.out \in Seq(Frame) /\ Len(respCh) <= RespCap /\ RespCap \in Nat
        /\ reader.out # << >>
    BY ZenonT(30), <1>1, <1>3, SessionAssumption DEF SessionTypeOK, SendResp, Framed
  <2>2. Head(reader.out) \in Frame /\ Tail(reader.out) \in Seq(Frame)
    BY ZenonT(30), <2>1, SeqTail
  <2>3. respCh' \in Seq(Frame) /\ Len(respCh') <= RespCap
    <3>1. CASE Len(respCh) < RespCap /\ respCh' = Append(respCh, Head(reader.out))
      <4>1. respCh' \in Seq(Frame) /\ Len(respCh') = Len(respCh) + 1
        BY ZenonT(30), <2>1, <2>2, <3>1, SeqAppend
      <4>2. Len(respCh) \in Nat
        BY ZenonT(30), <2>1, SeqLen
      <4>3. QED
        BY <2>1, <3>1, <4>1, <4>2
    <3>2. CASE UNCHANGED respCh
      BY ZenonT(30), <2>1, <3>2
    <3>3. QED
      BY ZenonT(30), <1>3, <3>1, <3>2 DEF SendResp
  <2>4. reader' \in [pc : {"hello", "read", "reply", "subscribe", "ended", "closed"}, kind : Kinds, out : Seq(Frame)]
    <3>1. PICK pc : pc = IF Len(reader.out) > 1 THEN "reply" ELSE AfterReply(Head(reader.out))
      BY ZenonT(30)
    <3>2. pc \in {"reply", "subscribe", "read"}
      BY ZenonT(30), <3>1 DEF AfterReply
    <3>3. reader' = [reader EXCEPT !.out = Tail(@), !.pc = pc]
      BY ZenonT(30), <1>3, <3>1 DEF SendResp
    <3>4. QED
      BY ZenonT(30), <1>1, <2>2, <3>2, <3>3 DEF SessionTypeOK
  <2>5. QED
    BY ZenonT(30), <1>1, <1>3, <2>3, <2>4 DEF SendResp, SessionTypeOK, WireType, wireVars
<1>4. ASSUME StartDelivery PROVE WireType' /\ SessionTypeOK'
  BY ZenonT(30), <1>1, <1>4 DEF StartDelivery, SessionTypeOK, WireType, wireVars
<1>5. ASSUME ReaderEnds PROVE WireType' /\ SessionTypeOK'
  <2>1. up' \in Seq(Reqs) /\ Len(up') <= SockCap
    <3>1. up \in Seq(Reqs) /\ Len(up) <= SockCap /\ SockCap \in Nat
      BY ZenonT(30), <1>1, WireAssumption DEF WireType
    <3>2. CASE up # << >> /\ up' = Tail(up)
      <4>1. up' \in Seq(Reqs) /\ Len(up') = Len(up) - 1 /\ Len(up) \in Nat
        BY ZenonT(30), <3>1, <3>2, SeqTail
      <4>2. QED
        BY <3>1, <4>1
    <3>3. QED
      BY ZenonT(30), <1>5, <3>1, <3>2 DEF ReaderEnds
  <2>2. QED
    BY ZenonT(30), <1>1, <1>5, <2>1 DEF ReaderEnds, SessionTypeOK, WireType
<1>6. ASSUME SessionCloses PROVE WireType' /\ SessionTypeOK'
  <2>1. WireType'
    BY ZenonT(30), <1>1, <1>6, CutType DEF SessionCloses, WireType, wireVars
  <2>2. QED
    BY ZenonT(30), <1>1, <1>6, <2>1 DEF SessionCloses, SessionTypeOK
<1>7. QED
  BY ZenonT(30), <1>1, <1>2, <1>3, <1>4, <1>5, <1>6 DEF TypeOK, WireType

LEMMA WriterTypes ==
  ASSUME TypeOK, UNCHANGED <<setup, req, clientVars>>, WriterStep \/ PushMessage \/ Shutdown
  PROVE  TypeOK'
<1>1. setup \in Setups /\ WireType /\ ClientTypeOK /\ SessionTypeOK /\ ClientTypeOK'
  BY ZenonT(30), TypeParts, ClientSame
<1>2. /\ respCh \in Seq(Frame) /\ Len(respCh) <= RespCap /\ RespCap \in Nat /\ Len(respCh) \in Nat
      /\ down \in Seq(Frame) /\ Len(down) <= SockCap /\ SockCap \in Nat /\ Len(down) \in Nat
      /\ writer.frame \in Frame
  BY ZenonT(30), <1>1, SessionAssumption, WireAssumption, SeqLen DEF SessionTypeOK, WireType
<1>3. ASSUME WriterFirst \/ WriterSecond PROVE WireType' /\ SessionTypeOK'
  <2>1. respCh' \in Seq(Frame) /\ Len(respCh') <= RespCap
    <3>1. CASE respCh # << >> /\ respCh' = Tail(respCh)
      <4>1. respCh' \in Seq(Frame) /\ Len(respCh') = Len(respCh) - 1
        BY ZenonT(30), <1>2, <3>1, SeqTail
      <4>2. QED
        BY <1>2, <4>1
    <3>2. CASE UNCHANGED respCh
      BY ZenonT(30), <1>2, <3>2
    <3>3. QED
      BY ZenonT(30), <1>3, <3>1, <3>2 DEF WriterFirst, WriterSecond, TakeResponse, TakeMessage, WriterQuits
  <2>2. sendCh' \in 0..SendCap
    <3>1. sendCh > 0 => sendCh - 1 \in 0..SendCap
      BY <1>1, SessionAssumption DEF SessionTypeOK
    <3>2. QED
      BY ZenonT(30), <1>1, <1>3, <3>1
         DEF SessionTypeOK, WriterFirst, WriterSecond, TakeResponse, TakeMessage, WriterQuits
  <2>3. writer' \in [pc : {"none", "first", "second", "write", "exited"}, frame : Frame]
    <3>1. respCh # << >> => Head(respCh) \in Frame
      BY ZenonT(30), <1>2, SeqTail
    <3>2. [kind |-> "MSG", answers |-> 0] \in Frame
      <4>1. 0 \in 0..MaxReqs
        BY WireAssumption
      <4>2. QED
        BY ZenonT(30), <4>1 DEF Frame
    <3>3. CASE TakeResponse \/ TakeMessage
      <4>1. PICK m : m = [kind |-> "MSG", answers |-> 0]
        BY ZenonT(30)
      <4>2. TakeMessage => writer' = [pc |-> "write", frame |-> m]
        BY ZenonT(30), <4>1 DEF TakeMessage
      <4>3. TakeResponse => respCh # << >> /\ writer' = [pc |-> "write", frame |-> Head(respCh)]
        BY ZenonT(30) DEF TakeResponse
      <4>4. PICK f \in Frame : writer' = [pc |-> "write", frame |-> f]
        BY ZenonT(30), <3>1, <3>2, <3>3, <4>1, <4>2, <4>3
      <4>5. QED
        BY ZenonT(30), <4>4
    <3>4. CASE writer' = [writer EXCEPT !.pc = "exited"] \/ writer' = [writer EXCEPT !.pc = "second"]
      BY ZenonT(30), <1>1, <3>4 DEF SessionTypeOK
    <3>5. QED
      BY ZenonT(30), <1>3, <3>3, <3>4 DEF WriterFirst, WriterSecond, WriterQuits
  <2>4. UNCHANGED <<wireVars, hello, reader, quit, topic, subs, inflight, pushed, shutdown>>
    BY ZenonT(30), <1>3 DEF WriterFirst, WriterSecond
  <2>5. QED
    BY ZenonT(30), <1>1, <2>1, <2>2, <2>3, <2>4 DEF SessionTypeOK, WireType, wireVars
<1>4. ASSUME WriterWrites PROVE WireType' /\ SessionTypeOK'
  <2>1. down' \in Seq(Frame) /\ Len(down') <= SockCap
    <3>1. CASE Len(down) < SockCap /\ down' = Append(down, writer.frame)
      <4>1. down' \in Seq(Frame) /\ Len(down') = Len(down) + 1
        BY ZenonT(30), <1>2, <3>1, SeqAppend
      <4>2. QED
        BY <1>2, <3>1, <4>1
    <3>2. CASE UNCHANGED down
      BY ZenonT(30), <1>2, <3>2
    <3>3. QED
      BY ZenonT(30), <1>4, <3>1, <3>2 DEF WriterWrites
  <2>2. writer' \in [pc : {"none", "first", "second", "write", "exited"}, frame : Frame]
    BY ZenonT(30), <1>1, <1>4 DEF SessionTypeOK, WriterWrites
  <2>3. QED
    BY ZenonT(30), <1>1, <1>4, <2>1, <2>2 DEF SessionTypeOK, WireType, WriterWrites
<1>5. ASSUME PushMessage PROVE WireType' /\ SessionTypeOK'
  <2>1. sendCh' \in 0..SendCap /\ inflight' \in 0..Window /\ pushed' \in 0..setup.msgs
    <3>1. /\ sendCh \in 0..SendCap /\ inflight \in 0..Window /\ pushed \in 0..setup.msgs /\ setup.msgs \in Nat
          /\ sendCh < SendCap /\ inflight < Window /\ pushed < setup.msgs
          /\ sendCh' = sendCh + 1 /\ inflight' = inflight + 1 /\ pushed' = pushed + 1
      BY ZenonT(30), <1>1, <1>5, SetupFacts DEF SessionTypeOK, PushMessage
    <3>2. QED
      BY <3>1, SessionAssumption
  <2>2. QED
    BY ZenonT(30), <1>1, <1>5, <2>1 DEF SessionTypeOK, WireType, wireVars, PushMessage
<1>6. ASSUME Shutdown PROVE WireType' /\ SessionTypeOK'
  <2>1. WireType'
    BY ZenonT(30), <1>1, <1>6 DEF WireType, wireVars, Shutdown
  <2>2. SessionTypeOK'
    BY ZenonT(30), <1>1, <1>6 DEF SessionTypeOK, Shutdown
  <2>3. QED
    BY ZenonT(30), <2>1, <2>2
<1>7. QED
  BY ZenonT(30), <1>1, <1>3, <1>4, <1>5, <1>6 DEF TypeOK, WireType, WriterStep

----------------------------------------------------------------------------
(* The steps, by what they do to the pipeline. *)

piping == <<link, up, down, req, call, queue, cancelled, resp, outcome, written, hello, reader, writer, respCh, quit>>

LEMMA QuietSteps ==
  ASSUME Next,
         \/ DialReturns
         \/ (Unblock \/ LoopExits \/ Receive) /\ UNCHANGED sessionVars
         \/ (PushMessage \/ Shutdown) /\ UNCHANGED <<req, clientVars>>
  PROVE  UNCHANGED piping
BY ZenonT(30) DEF DialReturns, Dial, Unblock, LoopExits, Receive, PushMessage, Shutdown, piping,
   wireVars, clientVars, sessionVars

LEMMA QuietInv ==
  ASSUME UNCHANGED piping, Queued, Issued, Ends, Framed, InOrder => Pipeline
  PROVE  Queued' /\ Issued' /\ Ends' /\ Framed' /\ (InOrder' => Pipeline')
<1>1. /\ UNCHANGED <<link, up, down, req, call, queue, cancelled, resp, outcome>>
      /\ UNCHANGED <<written, hello, reader, writer, respCh, quit>>
  BY ZenonT(30) DEF piping
<1>2. Queued' /\ Issued' /\ Ends' /\ Framed'
  BY ZenonT(30), <1>1 DEF Queued, Issued, Ends, Framed, Popped, Marked
<1>3. (InOrder' => InOrder) /\ (Arriving => Arriving') /\ (Matched => Matched')
  BY ZenonT(30), <1>1 DEF InOrder, Arriving, InDown, Popped, Matched
<1>4. ASSUME NEW t, NEW w, NEW s, Taken(t) /\ Answering(t, w) /\ Held(w, s) /\ Sent(s)
      PROVE  Taken(t)' /\ Answering(t, w)' /\ Held(w, s)' /\ Sent(s)'
  BY ZenonT(30), <1>1, <1>4 DEF Taken, Answering, Replying, Held, Writing, Sent, Popped, InDown
<1>5. Stages => Stages'
  BY ZenonT(30), <1>1, <1>4 DEF Stages
<1>6. QED
  BY ZenonT(30), <1>1, <1>2, <1>3, <1>5 DEF Pipeline

\* What InOrder says never becomes true again.
LEMMA OrderBack ==
  ASSUME TypeOK, InOrder', cancelled \subseteq cancelled',
         written' = written \/ (\E n \in Reqs : written' = Append(written, n)),
         req' = req \/ (\E r \in [kind : Kinds, caller : Callers] : req' = Append(req, r))
  PROVE  InOrder
<1>1. req \in Seq([kind : Kinds, caller : Callers]) /\ written \in Seq(Reqs)
  BY ZenonT(30) DEF TypeOK, ClientTypeOK
<1>2. \A i \in DOMAIN written : i \in DOMAIN written' /\ written'[i] = written[i]
  <2>1. CASE written' = written
    BY ZenonT(30), <2>1
  <2>2. ASSUME NEW n \in Reqs, written' = Append(written, n)
        PROVE  \A i \in DOMAIN written : i \in DOMAIN written' /\ written'[i] = written[i]
    BY SMTT(30), <1>1, <2>2
  <2>3. QED
    BY ZenonT(30), <2>1, <2>2
<1>3. \A i \in DOMAIN req : i \in DOMAIN req' /\ req'[i] = req[i]
  <2> DEFINE R == [kind : Kinds, caller : Callers]
  <2>1. req \in Seq(R) /\ (req' = req \/ \E r \in R : req' = Append(req, r))
    BY ZenonT(30), <1>1
  <2> HIDE DEF R
  <2>2. QED
    BY <2>1, SMTT(30)
<1>4. QED
  BY ZenonT(30), <1>2, <1>3 DEF InOrder

LEMMA OrderSame == InOrder' /\ UNCHANGED <<written, cancelled, req>> => InOrder
BY ZenonT(30) DEF InOrder

----------------------------------------------------------------------------
(* The parts of the invariant that hold with or without InOrder. *)

LEMMA QueuedStep ==
  ASSUME TypeOK, TypeOK', Queued, Next
  PROVE  Queued'
<1>1. /\ queue \in Seq(Reqs) /\ req \in Seq([kind : Kinds, caller : Callers])
      /\ Len(queue) \in Nat /\ Len(req) \in Nat /\ Len(queue') \in Nat /\ Len(req') \in Nat
  BY ZenonT(30), SeqLen DEF TypeOK, ClientTypeOK
<1>2. CASE UNCHANGED <<queue, req>>
  BY ZenonT(30), <1>2 DEF Queued, Popped
<1>3. ASSUME NEW c \in Callers, NEW kind \in Kinds, Push(c, kind) PROVE Queued'
  <2>1. Len(req') = Len(req) + 1
    <3>1. PICK r \in [kind : Kinds, caller : Callers] : req' = Append(req, r)
      BY ZenonT(30), <1>3 DEF Push
    <3>2. QED
      BY ZenonT(30), <1>1, <3>1, SeqAppend
  <2>2. PICK n : n = Len(req) + 1
    BY ZenonT(30)
  <2>3. queue' = Append(queue, n)
    BY ZenonT(30), <1>3, <2>2 DEF Push
  <2>4. \A i \in 1..Len(queue) : queue[i] \in Nat
    BY <1>1, SeqLen, WireAssumption DEF Reqs
  <2>5. queue \in Seq(Nat) /\ n \in Nat
    BY <1>1, <2>2, <2>4
  <2>6. /\ Len(queue') = Len(queue) + 1 /\ queue'[Len(queue) + 1] = n
        /\ \A i \in 1..Len(queue) : queue'[i] = queue[i]
    BY ONLY SMTT(30), <2>3, <2>5
  <2>7. Len(queue) <= Len(req) /\ \A i \in 1..Len(queue) : queue[i] = Len(req) - Len(queue) + i
    BY ZenonT(30) DEF Queued, Popped
  <2>8. /\ Len(queue') <= Len(req')
        /\ \A i \in 1..Len(queue') : queue'[i] = Len(req') - Len(queue') + i
    <3>1. Len(queue') <= Len(req') /\ Len(req') - Len(queue') = Len(req) - Len(queue)
      BY <1>1, <2>1, <2>6, <2>7
    <3>2. ASSUME NEW i \in 1..Len(queue') PROVE queue'[i] = Len(req) - Len(queue) + i
      <4>1. i \in 1..Len(queue) \/ i = Len(queue) + 1
        BY <1>1, <2>6
      <4>2. Len(req) - Len(queue) + (Len(queue) + 1) = n
        BY <1>1, <2>2
      <4>3. QED
        BY ZenonT(30), <2>6, <2>7, <4>1, <4>2
    <3>3. QED
      BY ZenonT(30), <3>1, <3>2
  <2>9. QED
    BY ZenonT(30), <2>8 DEF Queued, Popped
<1>4. ASSUME NEW f, Deliver(f), UNCHANGED req PROVE Queued'
  <2>1. PICK k : k = FirstLive
    BY ZenonT(30)
  <2>2. k \in 1..(Len(queue) + 1) /\ queue' = SubSeq(queue, k + 1, Len(queue))
    BY ZenonT(30), <1>1, <1>4, <2>1, LiveFacts DEF Deliver
  <2>3. /\ Len(queue') = IF k <= Len(queue) THEN Len(queue) - k ELSE 0
        /\ \A i \in 1..(Len(queue) - k) : queue'[i] = queue[k + i]
    BY ZenonT(30), <1>1, <2>2, SeqSuffix
  <2>4. Len(queue) <= Len(req) /\ (\A i \in 1..Len(queue) : queue[i] = Len(req) - Len(queue) + i) /\ req' = req
    BY ZenonT(30), <1>4 DEF Queued, Popped
  <2>5. /\ Len(queue') <= Len(req')
        /\ \A i \in 1..Len(queue') : queue'[i] = Len(req') - Len(queue') + i
    <3>1. CASE k <= Len(queue)
      <4>1. Len(queue') <= Len(req') /\ Len(req') - Len(queue') = Len(req) - Len(queue) + k
        <5>1. Len(queue') = Len(queue) - k /\ Len(req') = Len(req)
          BY ZenonT(30), <2>3, <2>4, <3>1
        <5>2. Len(queue) <= Len(req) /\ k \in 1..(Len(queue) + 1) /\ Len(queue) \in Nat /\ Len(req) \in Nat
          BY ZenonT(30), <1>1, <2>2, <2>4
        <5>3. QED
          BY <3>1, <5>1, <5>2
      <4>2. ASSUME NEW i \in 1..Len(queue') PROVE queue'[i] = Len(req) - Len(queue) + k + i
        <5>1. i \in 1..(Len(queue) - k) /\ k + i \in 1..Len(queue)
          BY <1>1, <2>2, <2>3, <3>1
        <5>2. queue'[i] = Len(req) - Len(queue) + (k + i)
          BY ZenonT(30), <2>3, <2>4, <5>1
        <5>3. QED
          BY <1>1, <2>2, <5>2
      <4>3. QED
        BY ZenonT(30), <4>1, <4>2
    <3>2. CASE ~(k <= Len(queue))
      <4>1. Len(queue') = 0
        BY ZenonT(30), <2>3, <3>2
      <4>2. QED
        BY <1>1, <4>1
    <3>3. QED
      BY ZenonT(30), <3>1, <3>2
  <2>6. QED
    BY ZenonT(30), <2>5 DEF Queued, Popped
<1>5. ASSUME queue' = << >>, UNCHANGED req PROVE Queued'
  BY <1>1, <1>5 DEF Queued, Popped
<1>6. ASSUME NEW c \in setup.callers, Call(c) PROVE Queued'
  <2>1. setup.callers \subseteq Callers /\ setup.kinds \subseteq Kinds
    BY ZenonT(30), SetupFacts DEF TypeOK
  <2>2. QED
    BY ZenonT(30), <1>3, <1>6, <2>1 DEF Call
<1>7. ASSUME LoopRuns PROVE Queued'
  BY ZenonT(30), <1>2, <1>4, <1>5, <1>7
     DEF LoopRuns, LoopStep, Dispatch, Unblock, LoopFails, DrainErr, LoopExits
<1>8. ASSUME DialReturns \/ Break \/ (\E c \in setup.callers : CallerStep(c) \/ Cancel(c)) \/ Close \/ Receive
             \/ UNCHANGED <<req, clientVars>>
      PROVE  UNCHANGED <<queue, req>>
  BY ZenonT(30), <1>8 DEF DialReturns, Dial, Break, CallerStep, Cancel, Write, Await, ContextEnds, Close, Receive, clientVars
<1>9. QED
  BY ZenonT(30), <1>2, <1>6, <1>7, <1>8 DEF Next, ReaderRuns, WriterRuns

LEMMA IssuedStep ==
  ASSUME TypeOK, TypeOK', Issued, Next
  PROVE  Issued'
<1>1. /\ up \in Seq(Reqs) /\ written \in Seq(Reqs) /\ req \in Seq([kind : Kinds, caller : Callers])
      /\ Len(up) \in Nat /\ Len(req) \in Nat /\ Len(written) \in Nat
      /\ call \in [Callers -> [pc : {"idle", "write", "wait"}, n : 0..MaxReqs]]
      /\ Len(up') \in Nat
  BY ZenonT(30), SeqLen DEF TypeOK, ClientTypeOK
<1>2. ASSUME UNCHANGED <<req, call, written>>, Len(up') <= Len(up), \A i \in 1..Len(up') : up'[i] = up[i]
      PROVE  Issued'
  <2>1. \A i \in 1..Len(up') : i \in 1..Len(up)
    BY <1>1, <1>2
  <2>2. QED
    BY ZenonT(30), <1>2, <2>1 DEF Issued
<1>3. ASSUME Cut, UNCHANGED <<req, call, written>> PROVE Issued'
  <2>1. up' \in Prefixes(up)
    BY ZenonT(30), <1>3 DEF Cut
  <2>2. Len(up') <= Len(up) /\ \A i \in 1..Len(up') : up'[i] = up[i]
    <3>1. up \in Seq(Reqs)
      BY ZenonT(30), <1>1
    <3>2. QED
      BY ZenonT(30), <2>1, <3>1, SeqPrefix
  <2>3. QED
    BY ZenonT(30), <1>2, <1>3, <2>2
<1>4. ASSUME up # << >>, up' = Tail(up), UNCHANGED <<req, call, written>> PROVE Issued'
  <2>1. Len(up') = Len(up) - 1 /\ \A i \in 1..(Len(up) - 1) : up'[i] = up[i + 1]
    BY ZenonT(30), <1>1, <1>4, SeqTail
  <2>2. \A i \in 1..Len(up') : i + 1 \in 1..Len(up) /\ up'[i] = up[i + 1]
    BY <1>1, <2>1
  <2>3. QED
    BY ZenonT(30), <1>4, <2>2 DEF Issued
<1>5. CASE UNCHANGED <<req, call, written, up>>
  BY ZenonT(30), <1>5 DEF Issued
<1>6. ASSUME NEW c \in Callers, NEW kind \in Kinds, Push(c, kind), UNCHANGED wireVars PROVE Issued'
  <2>1. Len(req') = Len(req) + 1 /\ Len(req) + 1 <= MaxReqs
    <3>1. setup.reqs \in 0..MaxReqs /\ Len(req) < setup.reqs
      BY ZenonT(30), <1>6, SetupFacts DEF TypeOK, Push
    <3>2. PICK r \in [kind : Kinds, caller : Callers] : req' = Append(req, r)
      BY ZenonT(30), <1>6 DEF Push
    <3>3. Len(req') = Len(req) + 1
      BY ZenonT(30), <1>1, <3>2, SeqAppend
    <3>4. QED
      BY <1>1, <3>1, <3>3, WireAssumption
  <2>2. \A n \in 1..Len(req) : n \in 1..Len(req')
    BY <1>1, <2>1
  <2>3. Len(req) + 1 \in 1..Len(req') /\ Len(req') <= MaxReqs
    BY <1>1, <2>1
  <2>4. UNCHANGED <<up, written>> /\ call' = [call EXCEPT ![c] = [pc |-> "write", n |-> Len(req) + 1]]
    BY ZenonT(30), <1>6 DEF Push, wireVars
  <2>5. \A d \in Callers : call'[d].pc # "idle" => call'[d].n \in 1..Len(req')
    BY ZenonT(30), <1>1, <2>2, <2>3, <2>4 DEF Issued
  <2>6. QED
    BY ZenonT(30), <2>2, <2>3, <2>4, <2>5 DEF Issued
<1>7. ASSUME NEW c \in Callers, call[c].pc # "idle", UNCHANGED req,
             \E pc \in {"idle", "wait"} : call' = [call EXCEPT ![c].pc = pc],
             \/ UNCHANGED <<up, written>>
             \/ up' = Append(up, call[c].n) /\ written' = Append(written, call[c].n)
      PROVE  Issued'
  <2>1. \A d \in Callers : call'[d].pc # "idle" => call[d].pc # "idle" /\ call'[d].n = call[d].n
    <3>1. PICK pc \in {"idle", "wait"} : call' = [call EXCEPT ![c].pc = pc]
      BY ZenonT(30), <1>7
    <3>2. \A d \in Callers : d # c => call'[d] = call[d]
      BY ZenonT(30), <1>1, <3>1
    <3>3. call'[c].n = call[c].n
      BY ZenonT(30), <1>1, <3>1
    <3>4. QED
      BY ZenonT(30), <1>7, <3>2, <3>3
  <2>2. call[c].n \in 1..Len(req) /\ call[c].n \in Reqs
    BY ZenonT(30), <1>7, CallIssued
  <2>3. /\ \A i \in 1..Len(written') : written'[i] \in 1..Len(req)
        /\ \A i \in 1..Len(up') : up'[i] \in 1..Len(req)
    <3>1. CASE UNCHANGED <<up, written>>
      BY ZenonT(30), <3>1 DEF Issued
    <3>2. CASE up' = Append(up, call[c].n) /\ written' = Append(written, call[c].n)
      <4> PICK n \in Reqs : n = call[c].n
        BY ZenonT(30), <2>2
      <4>0. up' = Append(up, n) /\ written' = Append(written, n)
        BY ZenonT(30), <3>2
      <4>c. up \in Seq(Reqs) /\ written \in Seq(Reqs)
        BY ZenonT(30), <1>1
      <4>a. Len(up') = Len(up) + 1 /\ up'[Len(up) + 1] = n /\ \A i \in 1..Len(up) : up'[i] = up[i]
        BY SMTT(30), <4>c, <4>0
      <4>b. /\ Len(written') = Len(written) + 1 /\ written'[Len(written) + 1] = n
            /\ \A i \in 1..Len(written) : written'[i] = written[i]
        BY SMTT(30), <4>c, <4>0
      <4>1. /\ Len(up') = Len(up) + 1 /\ up'[Len(up) + 1] = call[c].n /\ \A i \in 1..Len(up) : up'[i] = up[i]
            /\ Len(written') = Len(written) + 1 /\ written'[Len(written) + 1] = call[c].n
            /\ \A i \in 1..Len(written) : written'[i] = written[i]
        BY ZenonT(30), <4>a, <4>b
      <4>2. /\ \A i \in 1..Len(up') : i \in 1..Len(up) \/ i = Len(up) + 1
            /\ \A i \in 1..Len(written') : i \in 1..Len(written) \/ i = Len(written) + 1
        <5>1. Len(up) \in Nat /\ Len(written) \in Nat
          BY ZenonT(30), <4>c, SeqLen
        <5>2. QED
          BY ONLY SMT, <4>a, <4>b, <5>1
      <4>3. QED
        BY ZenonT(30), <2>2, <4>1, <4>2 DEF Issued
    <3>3. QED
      BY ZenonT(30), <1>7, <3>1, <3>2
  <2>4. QED
    BY ZenonT(30), <1>7, <2>1, <2>3 DEF Issued
<1>8. ASSUME NEW c \in Callers, CallerStep(c) \/ Cancel(c) PROVE Issued'
  BY ZenonT(30), <1>7, <1>8 DEF CallerStep, Cancel, Write, Await, ContextEnds, Return, wireVars
<1>9. ASSUME NEW c \in setup.callers, Call(c) \/ CallerStep(c) \/ Cancel(c) PROVE Issued'
  <2>1. setup.callers \subseteq Callers /\ setup.kinds \subseteq Kinds
    BY ZenonT(30), SetupFacts DEF TypeOK
  <2>2. QED
    BY ZenonT(30), <1>6, <1>8, <1>9, <2>1 DEF Call
<1>10. ASSUME DialReturns \/ LoopRuns \/ Receive PROVE UNCHANGED <<req, call, written, up>>
  BY ZenonT(30), <1>10 DEF DialReturns, Dial, LoopRuns, LoopStep, Dispatch, Unblock, LoopFails, LoopExits, Receive,
     wireVars
<1>11. ASSUME Break \/ Close PROVE Issued'
  BY ZenonT(30), <1>3, <1>5, <1>11 DEF Break, Close, clientVars, wireVars
<1>12. ASSUME ReaderRuns PROVE Issued'
  <2>1. UNCHANGED <<req, call, written>>
    BY ZenonT(30), <1>12 DEF ReaderRuns, clientVars
  <2>2. CASE SendResp \/ StartDelivery
    BY ZenonT(30), <1>5, <2>1, <2>2 DEF SendResp, StartDelivery, wireVars
  <2>3. CASE Handshake \/ SessionCloses
    BY ZenonT(30), <1>3, <1>5, <2>1, <2>3 DEF Handshake, SessionCloses, wireVars
  <2>4. CASE HandleCommand \/ ReaderEnds
    BY ZenonT(30), <1>4, <1>5, <2>1, <2>4 DEF HandleCommand, ReaderEnds
  <2>5. QED
    BY ZenonT(30), <1>12, <2>2, <2>3, <2>4 DEF ReaderRuns, ReaderStep
<1>13. ASSUME WriterRuns \/ ((PushMessage \/ Shutdown) /\ UNCHANGED <<req, clientVars>>) PROVE Issued'
  BY ZenonT(30), <1>5, <1>13 DEF WriterRuns, WriterStep, WriterFirst, WriterSecond, WriterWrites, PushMessage, Shutdown,
     clientVars, wireVars
<1>14. ASSUME DialReturns \/ LoopRuns \/ Receive PROVE Issued'
  BY ZenonT(30), <1>5, <1>10, <1>14
<1>15. \/ DialReturns \/ LoopRuns \/ Receive
       \/ Break \/ Close
       \/ \E c \in setup.callers : Call(c) \/ CallerStep(c) \/ Cancel(c)
       \/ ReaderRuns
       \/ WriterRuns \/ ((PushMessage \/ Shutdown) /\ UNCHANGED <<req, clientVars>>)
  BY ZenonT(30) DEF Next
<1>16. QED
  BY ZenonT(30), <1>9, <1>11, <1>12, <1>13, <1>14, <1>15

LEMMA WriterMoves ==
  ASSUME writer \in [pc : {"none", "first", "second", "write", "exited"}, frame : Frame], WriterFirst \/ WriterSecond
  PROVE  /\ writer.pc \in {"first", "second"}
         /\ UNCHANGED <<link, up, down, hello, reader, quit>>
         /\ \/ /\ respCh # << >> /\ respCh' = Tail(respCh)
               /\ writer'.pc = "write" /\ writer'.frame = Head(respCh)
            \/ /\ respCh' = respCh
               /\ writer'.pc = "write" /\ writer'.frame.answers = 0 /\ writer'.frame.kind = "MSG"
            \/ /\ respCh' = respCh
               /\ writer'.pc = "second" \/ (writer'.pc = "exited" /\ quit)
               /\ writer'.frame = writer.frame
<1>1. writer.pc \in {"first", "second"} /\ UNCHANGED <<link, up, down, hello, reader, quit>>
  BY ZenonT(30) DEF WriterFirst, WriterSecond, wireVars
<1>2. CASE TakeResponse
  BY ZenonT(30), <1>1, <1>2 DEF TakeResponse
<1>3. CASE TakeMessage
  <2>1. PICK m : m = [kind |-> "MSG", answers |-> 0]
    BY ZenonT(30)
  <2>2. writer' = [pc |-> "write", frame |-> m] /\ respCh' = respCh
    BY ZenonT(30), <1>3, <2>1 DEF TakeMessage
  <2>3. writer'.frame = m /\ writer'.pc = "write" /\ m.answers = 0 /\ m.kind = "MSG"
    BY ZenonT(30), <2>1, <2>2
  <2>4. QED
    BY ZenonT(30), <1>1, <2>2, <2>3
<1>4. CASE WriterQuits \/ (writer' = [writer EXCEPT !.pc = "second"] /\ UNCHANGED respCh)
  BY ZenonT(30), <1>1, <1>4 DEF WriterQuits
<1>5. QED
  BY ZenonT(30), <1>2, <1>3, <1>4 DEF WriterFirst, WriterSecond

LEMMA EndsStep ==
  ASSUME TypeOK, Ends, Next
  PROVE  Ends'
<1>1. /\ reader \in [pc : {"hello", "read", "reply", "subscribe", "ended", "closed"}, kind : Kinds, out : Seq(Frame)]
      /\ writer \in [pc : {"none", "first", "second", "write", "exited"}, frame : Frame]
  BY ZenonT(30) DEF TypeOK, SessionTypeOK
<1>2. ASSUME UNCHANGED sessionVars, UNCHANGED link \/ link' = "down" PROVE Ends'
  BY ZenonT(30), <1>2 DEF Ends, sessionVars
<1>3. ASSUME ReaderStep PROVE Ends'
  <2>1. CASE Handshake
    <3>1. hello = "sent" /\ ~quit /\ UNCHANGED quit /\ hello' # "sent" /\ (writer'.pc = "first" \/ link' = "down")
      BY ZenonT(30), <1>1, <2>1 DEF Handshake, Ends, Cut
    <3>2. QED
      BY ZenonT(30), <3>1 DEF Ends
  <2>2. CASE HandleCommand
    <3>1. reader.pc = "read" /\ UNCHANGED <<hello, link, writer, quit>>
      BY ZenonT(30), <2>2 DEF HandleCommand
    <3>2. QED
      BY ZenonT(30), <3>1 DEF Ends
  <2>3. CASE SendResp
    BY ZenonT(30), <1>1, <2>3 DEF SendResp, Ends, wireVars
  <2>4. CASE StartDelivery
    BY ZenonT(30), <1>1, <2>4 DEF StartDelivery, Ends, wireVars
  <2>5. CASE ReaderEnds
    BY ZenonT(30), <1>1, <2>5 DEF ReaderEnds, Ends
  <2>6. CASE SessionCloses
    BY ZenonT(30), <1>1, <2>6 DEF SessionCloses, Ends, wireVars, Cut
  <2>7. QED
    BY ZenonT(30), <1>3, <2>1, <2>2, <2>3, <2>4, <2>5, <2>6 DEF ReaderStep
<1>4. ASSUME WriterStep \/ PushMessage \/ Shutdown PROVE Ends'
  <2>1. UNCHANGED <<link, reader, quit>>
    BY ZenonT(30), <1>4 DEF WriterStep, WriterFirst, WriterSecond, WriterWrites, PushMessage, Shutdown, wireVars
  <2>2. ASSUME WriterStep
        PROVE  writer.pc # "none" /\ UNCHANGED hello /\ (writer'.pc # "exited" \/ link = "down" \/ quit)
    <3>1. CASE WriterFirst \/ WriterSecond
      BY ZenonT(30), <1>1, <3>1, WriterMoves
    <3>2. CASE WriterWrites
      BY ZenonT(30), <1>1, <3>2 DEF WriterWrites
    <3>3. QED
      BY ZenonT(30), <2>2, <3>1, <3>2 DEF WriterStep
  <2>3. ASSUME PushMessage \/ Shutdown PROVE UNCHANGED <<hello, writer>>
    BY ZenonT(30), <2>3 DEF PushMessage, Shutdown
  <2>4. QED
    BY ZenonT(30), <1>4, <2>1, <2>2, <2>3 DEF Ends
<1>5. ASSUME DialReturns \/ Break \/ (\E c \in setup.callers : Call(c) \/ CallerStep(c) \/ Cancel(c)) \/ LoopRuns
             \/ ((Close \/ Receive) /\ UNCHANGED sessionVars)
      PROVE  UNCHANGED sessionVars /\ (UNCHANGED link \/ link' = "down")
  BY ZenonT(30), <1>5 DEF DialReturns, Break, Cut, Call, CallerStep, Cancel, Write, Await, ContextEnds, LoopRuns, LoopStep, Dispatch, Unblock,
     LoopFails, LoopExits, Close, Receive, wireVars
<1>6. QED
  BY ZenonT(30), <1>2, <1>3, <1>4, <1>5 DEF Next, ReaderRuns, WriterRuns

LEMMA FramedStep ==
  ASSUME TypeOK, TypeOK', Issued, Framed, Next
  PROVE  Framed'
<1>1. /\ down \in Seq(Frame) /\ respCh \in Seq(Frame) /\ reader.out \in Seq(Frame) /\ writer.frame \in Frame
      /\ Len(down) \in Nat /\ Len(respCh) \in Nat /\ Len(reader.out) \in Nat
      /\ reader \in [pc : {"hello", "read", "reply", "subscribe", "ended", "closed"}, kind : Kinds, out : Seq(Frame)]
      /\ writer \in [pc : {"none", "first", "second", "write", "exited"}, frame : Frame]
  <2>1. /\ down \in Seq(Frame) /\ respCh \in Seq(Frame)
        /\ reader \in [pc : {"hello", "read", "reply", "subscribe", "ended", "closed"}, kind : Kinds, out : Seq(Frame)]
        /\ writer \in [pc : {"none", "first", "second", "write", "exited"}, frame : Frame]
    BY ZenonT(30) DEF TypeOK, SessionTypeOK
  <2>2. reader.out \in Seq(Frame) /\ writer.frame \in Frame
    BY ZenonT(30), <2>1
  <2>3. QED
    BY ZenonT(30), <2>1, <2>2, SeqLen
<1> DEFINE Good(s) == \A i \in 1..Len(s) : Marked(s[i])
<1>2. Good(down) /\ Good(respCh) /\ Good(reader.out) /\ Marked(writer.frame) /\ (reader.pc = "reply" => reader.out # << >>)
  BY ZenonT(30) DEF Framed
<1>3. (Good(down))' /\ (Good(respCh))' /\ (Good(reader.out))' /\ Marked(writer.frame)'
        /\ (reader'.pc = "reply" => reader'.out # << >>) => Framed'
  BY ZenonT(30) DEF Framed
<1>4. ASSUME NEW s \in Seq(Frame), NEW pre \in Prefixes(s), Good(s) PROVE Good(pre)
  <2>1. Len(s) \in Nat /\ Len(pre) \in Nat /\ Len(pre) <= Len(s) /\ \A i \in 1..Len(pre) : pre[i] = s[i]
    BY ZenonT(30), SeqLen, SeqPrefix
  <2>2. \A i \in 1..Len(pre) : i \in 1..Len(s)
    BY <2>1
  <2>3. QED
    BY ZenonT(30), <1>4, <2>1, <2>2
<1>5. ASSUME NEW s \in Seq(Frame), s # << >>, Good(s) PROVE Good(Tail(s)) /\ Marked(Head(s))
  <2>1. /\ Len(s) \in Nat /\ Len(s) >= 1 /\ Len(Tail(s)) = Len(s) - 1 /\ Head(s) = s[1]
        /\ \A i \in 1..(Len(s) - 1) : Tail(s)[i] = s[i + 1]
    BY ZenonT(30), <1>5, SeqTail
  <2>2. 1 \in 1..Len(s) /\ \A i \in 1..Len(Tail(s)) : i + 1 \in 1..Len(s) /\ Tail(s)[i] = s[i + 1]
    BY <2>1
  <2>3. QED
    BY ZenonT(30), <1>5, <2>1, <2>2
<1>6. ASSUME NEW s \in Seq(Frame), NEW f \in Frame, Good(s), Marked(f) PROVE Good(Append(s, f))
  <2>0. Len(s) \in Nat
    BY ZenonT(30), SeqLen
  <2>1. /\ Len(Append(s, f)) = Len(s) + 1 /\ Append(s, f)[Len(s) + 1] = f
        /\ \A i \in 1..Len(s) : Append(s, f)[i] = s[i]
    BY SMTT(30)
  <2>2. \A i \in 1..Len(Append(s, f)) : i \in 1..Len(s) \/ i = Len(s) + 1
    BY <2>0, <2>1
  <2>3. QED
    BY ZenonT(30), <1>6, <2>1, <2>2
<1> HIDE DEF Good
<1>7. ASSUME UNCHANGED sessionVars, down' = down \/ down' \in Prefixes(down) \/ (down # << >> /\ down' = Tail(down))
      PROVE  Framed'
  <2>1. UNCHANGED <<respCh, reader, writer>>
    BY ZenonT(30), <1>7 DEF sessionVars
  <2>2. (Good(down))'
    <3>1. CASE down' = down
      BY ZenonT(30), <1>2, <3>1 DEF Good
    <3>2. CASE down' \in Prefixes(down)
      BY ZenonT(30), <1>1, <1>2, <1>4, <3>2
    <3>3. CASE down # << >> /\ down' = Tail(down)
      BY ZenonT(30), <1>1, <1>2, <1>5, <3>3
    <3>4. QED
      BY ZenonT(30), <1>7, <3>1, <3>2, <3>3
  <2>3. QED
    BY ZenonT(30), <1>2, <1>3, <2>1, <2>2 DEF Good
<1>8. ASSUME ReaderStep PROVE Framed'
  <2>1. CASE Handshake \/ SessionCloses
    <3>1. UNCHANGED respCh /\ reader'.out = reader.out /\ reader'.pc # "reply" /\ writer'.frame = writer.frame
      BY ZenonT(30), <1>1, <2>1 DEF Handshake, SessionCloses
    <3>2. down' = down \/ down' \in Prefixes(down)
      BY ZenonT(30), <2>1 DEF Handshake, SessionCloses, wireVars, Cut
    <3>3. (Good(down))'
      <4>1. CASE down' = down
        BY ZenonT(30), <1>2, <4>1 DEF Good
      <4>2. CASE down' \in Prefixes(down)
        BY ZenonT(30), <1>1, <1>2, <1>4, <4>2
      <4>3. QED
        BY ZenonT(30), <3>2, <4>1, <4>2
    <3>4. QED
      BY ZenonT(30), <1>2, <1>3, <3>1, <3>3 DEF Good, Marked
  <2>2. CASE HandleCommand
    <3>1. PICK n : n = Head(up)
      BY ZenonT(30)
    <3>2. PICK answer \in Answers(Parsed(n)) :
            reader' = [pc |-> "reply", kind |-> Parsed(n), out |-> Reply(n, answer)]
      BY ZenonT(30), <2>2, <3>1 DEF HandleCommand
    <3>3. n \in Reqs /\ Parsed(n) \in Kinds /\ Parsed(n) # "garbled"
      BY ZenonT(30), <2>2, <3>1, HeadParsed DEF HandleCommand
    <3>4. /\ Reply(n, answer) # << >>
          /\ \A i \in 1..Len(Reply(n, answer)) : Reply(n, answer)[i].answers = n /\ Reply(n, answer)[i].kind # "MSG"
      BY ZenonT(30), <3>2, <3>3, ReplyTypes
    <3>5. n # 0
      BY <3>3, WireAssumption DEF Reqs
    <3>6. reader'.out = Reply(n, answer) /\ UNCHANGED <<respCh, writer, down>>
      BY ZenonT(30), <2>2, <3>2 DEF HandleCommand
    <3>7. QED
      BY ZenonT(30), <1>2, <1>3, <3>4, <3>5, <3>6 DEF Good, Marked
  <2>3. CASE SendResp
    <3>1. /\ reader.out # << >> /\ UNCHANGED <<writer, down>>
          /\ respCh' = respCh \/ respCh' = Append(respCh, Head(reader.out))
      BY ZenonT(30), <1>2, <2>3 DEF SendResp, wireVars
    <3>2. reader'.out = Tail(reader.out)
      BY ZenonT(30), <1>1, <2>3 DEF SendResp
    <3>3. reader'.pc = "reply" => reader'.out # << >>
      <4>1. reader'.pc = "reply" => Len(reader.out) > 1
        BY ZenonT(30), <1>1, <2>3 DEF SendResp, AfterReply
      <4>2. Len(reader.out) > 1 => Tail(reader.out) # << >>
        <5>1. reader.out \in Seq(Frame)
          BY ZenonT(30), <1>1
        <5>2. QED
          BY ZenonT(30), <5>1, SeqLonger
      <4>3. QED
        BY ZenonT(30), <3>2, <4>1, <4>2
    <3>4. Good(Tail(reader.out)) /\ Marked(Head(reader.out)) /\ Head(reader.out) \in Frame
      <4>1. reader.out \in Seq(Frame) /\ reader.out # << >> /\ Good(reader.out)
        BY ZenonT(30), <1>1, <1>2, <3>1
      <4>2. Head(reader.out) \in Frame
        BY ZenonT(30), <4>1, SeqTail
      <4>3. QED
        BY ZenonT(30), <1>5, <4>1, <4>2
    <3>5. Good(respCh')
      BY ZenonT(30), <1>1, <1>2, <1>6, <3>1, <3>4
    <3>6. QED
      BY ZenonT(30), <1>2, <1>3, <3>1, <3>2, <3>3, <3>4, <3>5 DEF Good, Marked
  <2>4. CASE StartDelivery \/ ReaderEnds
    <3>1. UNCHANGED <<respCh, down, writer>> /\ reader'.out = reader.out /\ reader'.pc # "reply"
      BY ZenonT(30), <1>1, <2>4 DEF StartDelivery, ReaderEnds, wireVars
    <3>2. QED
      BY ZenonT(30), <1>2, <1>3, <3>1 DEF Good, Marked
  <2>5. QED
    BY ZenonT(30), <1>8, <2>1, <2>2, <2>3, <2>4 DEF ReaderStep
<1>9. ASSUME WriterStep PROVE Framed'
  <2>1. UNCHANGED reader /\ (WriterWrites \/ UNCHANGED down)
    BY ZenonT(30), <1>9 DEF WriterStep, WriterFirst, WriterSecond, WriterWrites, wireVars
  <2>2. Good(respCh') /\ Marked(writer'.frame)
    <3>1. CASE respCh # << >> /\ respCh' = Tail(respCh) /\ writer'.frame = Head(respCh)
      <4>1. respCh \in Seq(Frame) /\ Good(respCh)
        BY ZenonT(30), <1>1, <1>2
      <4>2. Good(Tail(respCh)) /\ Marked(Head(respCh))
        BY ZenonT(30), <1>5, <3>1, <4>1
      <4>3. QED
        BY ZenonT(30), <3>1, <4>2
    <3>2. CASE respCh' = respCh /\ writer'.frame.answers = 0 /\ writer'.frame.kind = "MSG"
      BY ZenonT(30), <1>2, <3>2 DEF Marked
    <3>3. CASE respCh' = respCh /\ writer'.frame = writer.frame
      BY ZenonT(30), <1>2, <3>3
    <3>4. CASE WriterWrites
      BY ZenonT(30), <1>1, <3>3, <3>4 DEF WriterWrites
    <3>5. QED
      BY ZenonT(30), <1>1, <1>9, <3>1, <3>2, <3>3, <3>4, WriterMoves DEF WriterStep
  <2>3. (Good(down))'
    <3>1. CASE down' = down
      BY ZenonT(30), <1>2, <3>1 DEF Good
    <3>2. CASE down' = Append(down, writer.frame)
      BY ZenonT(30), <1>1, <1>2, <1>6, <3>2
    <3>3. QED
      BY ZenonT(30), <2>1, <3>1, <3>2 DEF WriterWrites
  <2>4. QED
    BY ZenonT(30), <1>2, <1>3, <2>1, <2>2, <2>3 DEF Good
<1>10. ASSUME PushMessage \/ Shutdown PROVE Framed'
  BY ZenonT(30), <1>10 DEF PushMessage, Shutdown, wireVars, Framed
<1>11. ASSUME DialReturns \/ Break \/ (\E c \in setup.callers : Call(c) \/ CallerStep(c) \/ Cancel(c)) \/ LoopRuns
              \/ ((Close \/ Receive) /\ UNCHANGED sessionVars)
       PROVE  UNCHANGED sessionVars /\ (down' = down \/ down' \in Prefixes(down) \/ (down # << >> /\ down' = Tail(down)))
  BY ZenonT(30), <1>11 DEF DialReturns, Break, Cut, Call, CallerStep, Cancel, Write, Await, ContextEnds, LoopRuns, LoopStep, Dispatch, Unblock,
     LoopFails, LoopExits, Close, Receive, wireVars
<1>12. QED
  BY ZenonT(30), <1>7, <1>8, <1>9, <1>10, <1>11 DEF Next, ReaderRuns, WriterRuns

----------------------------------------------------------------------------
(* The pipeline. *)

LEMMA Numbers ==
  ASSUME TypeOK, Queued
  PROVE  /\ Len(req) \in Nat /\ Len(queue) \in Nat /\ Len(written) \in Nat /\ Len(up) \in Nat
         /\ Len(down) \in Nat /\ Len(respCh) \in Nat /\ Popped \in Nat
         /\ \A i \in 1..Len(down) : down[i].answers \in Nat
         /\ \A i \in 1..Len(respCh) : respCh[i].answers \in Nat
         /\ writer.frame.answers \in Nat
<1>1. /\ req \in Seq([kind : Kinds, caller : Callers]) /\ queue \in Seq(Reqs) /\ written \in Seq(Reqs)
      /\ up \in Seq(Reqs) /\ down \in Seq(Frame) /\ respCh \in Seq(Frame)
      /\ writer \in [pc : {"none", "first", "second", "write", "exited"}, frame : Frame]
  BY ZenonT(30) DEF TypeOK, ClientTypeOK, SessionTypeOK
<1>2. /\ Len(req) \in Nat /\ Len(queue) \in Nat /\ Len(written) \in Nat /\ Len(up) \in Nat
      /\ Len(down) \in Nat /\ Len(respCh) \in Nat
  BY ZenonT(30), <1>1, SeqLen
<1>3. \A f \in Frame : f.answers \in Nat
  <2>1. \A k \in 0..MaxReqs : k \in Nat
    BY WireAssumption
  <2>2. QED
    BY ZenonT(30), <2>1 DEF Frame
<1>4. /\ \A i \in 1..Len(down) : down[i] \in Frame
      /\ \A i \in 1..Len(respCh) : respCh[i] \in Frame
      /\ writer.frame \in Frame
  BY ZenonT(30), <1>1, SeqLen
<1>5. Popped \in Nat
  BY <1>2 DEF Queued, Popped
<1>6. QED
  BY ZenonT(30), <1>2, <1>3, <1>4, <1>5

\* Cutting the socket short loses answers at the end.
LEMMA ArrivingPrefix ==
  ASSUME TypeOK, Queued, Arriving, Popped' = Popped, Len(written') \in Nat, Len(written) <= Len(written'),
         down' = down \/ down' \in Prefixes(down)
  PROVE  Arriving'
<1>1. /\ Len(down) \in Nat /\ Popped \in Nat /\ Len(written) \in Nat
      /\ \A i \in 1..Len(down) : down[i].answers \in Nat
  BY ZenonT(30), Numbers
<1>2. Len(down') \in Nat /\ Len(down') <= Len(down) /\ \A i \in 1..Len(down') : down'[i] = down[i]
  <2>1. CASE down' = down
    BY <1>1, <2>1
  <2>2. CASE down' \in Prefixes(down)
    <3>1. down \in Seq(Frame)
      BY ZenonT(30) DEF TypeOK
    <3>2. QED
      BY ZenonT(30), <2>2, <3>1, SeqPrefix
  <2>3. QED
    BY ZenonT(30), <2>1, <2>2
<1>3. \A i \in 1..Len(down') : i \in 1..Len(down) /\ down'[i] = down[i]
  BY <1>1, <1>2
<1>4. ASSUME NEW i \in 1..Len(down'), down'[i].answers # 0
      PROVE  down'[i].answers > Popped /\ down'[i].answers <= Len(written')
  <2>1. down[i].answers \in Nat /\ down'[i].answers = down[i].answers
        /\ down[i].answers > Popped /\ down[i].answers <= Len(written)
    BY ZenonT(30), <1>1, <1>3, <1>4 DEF Arriving
  <2>2. QED
    BY <1>1, <2>1
<1>5. ASSUME NEW i \in 1..Len(down'), NEW j \in 1..Len(down'), i < j, down'[i].answers # 0, down'[j].answers # 0
      PROVE  down'[i].answers < down'[j].answers
  BY ZenonT(30), <1>3, <1>5 DEF Arriving
<1>6. ASSUME NEW i \in 1..Len(down'), NEW n \in (Popped + 1)..(down'[i].answers - 1)
      PROVE  InDown(n)'
  <2>1. i \in 1..Len(down) /\ down'[i] = down[i] /\ down[i].answers \in Nat
    BY ZenonT(30), <1>1, <1>3
  <2>2. n \in Nat /\ n # 0 /\ n < down[i].answers
    BY <1>1, <1>6, <2>1
  <2>3. PICK j \in 1..Len(down) : down[j].answers = n
    BY ZenonT(30), <1>6, <2>1 DEF Arriving, InDown
  <2>4. ~(i < j) /\ i # j
    <3>1. i < j => down[i].answers < n
      <4>1. down[i].answers # 0
        BY <2>1, <2>2
      <4>2. QED
        BY ZenonT(30), <2>1, <2>2, <2>3, <4>1 DEF Arriving
    <3>2. ~(down[i].answers < n) /\ down[i].answers # n
      BY <2>1, <2>2
    <3>3. QED
      BY ZenonT(30), <2>3, <3>1, <3>2
  <2>5. j \in 1..Len(down')
    BY <1>1, <1>2, <2>1, <2>4
  <2>6. QED
    BY ZenonT(30), <1>3, <2>3, <2>5 DEF InDown
<1>7. QED
  BY ZenonT(30), <1>4, <1>5, <1>6 DEF Arriving

\* The answer at the head of the socket is the one the queue expects.
LEMMA HeadExpected ==
  ASSUME TypeOK, Queued, Arriving, down # << >>, down[1].answers # 0
  PROVE  /\ 1 \in 1..Len(down) /\ down[1].answers = Popped + 1
         /\ \A j \in 1..Len(down) : j # 1 => down[j].answers = 0 \/ down[j].answers > Popped + 1
<1>1. /\ Len(down) \in Nat /\ Popped \in Nat
      /\ \A i \in 1..Len(down) : down[i].answers \in Nat
  BY ZenonT(30), Numbers
<1>2. 1 \in 1..Len(down)
  <2>1. down \in Seq(Frame)
    BY ZenonT(30) DEF TypeOK
  <2>2. Len(down) >= 1
    BY ZenonT(30), <2>1, SeqTail
  <2>3. QED
    BY <1>1, <2>2
<1>3. ASSUME NEW j \in 1..Len(down), j # 1, down[j].answers # 0 PROVE down[1].answers < down[j].answers
  <2>1. 1 < j
    BY <1>3
  <2>2. QED
    BY ZenonT(30), <1>2, <1>3, <2>1 DEF Arriving
<1>4. down[1].answers > Popped /\ down[1].answers \in Nat
  BY ZenonT(30), <1>1, <1>2 DEF Arriving
<1>5. ~(down[1].answers > Popped + 1)
  <2>1. SUFFICES ASSUME down[1].answers > Popped + 1 PROVE FALSE
    BY ZenonT(30)
  <2>2. PICK n : n = Popped + 1
    BY ZenonT(30)
  <2>3. n \in (Popped + 1)..(down[1].answers - 1) /\ n # 0 /\ n # down[1].answers /\ ~(down[1].answers < n)
    BY <1>1, <1>4, <2>1, <2>2
  <2>4. PICK j \in 1..Len(down) : down[j].answers = n
    BY ZenonT(30), <1>2, <2>3 DEF Arriving, InDown
  <2>5. QED
    BY ZenonT(30), <1>3, <2>3, <2>4
<1>6. down[1].answers = Popped + 1
  BY <1>1, <1>4, <1>5
<1>7. ASSUME NEW j \in 1..Len(down), j # 1, down[j].answers # 0 PROVE down[j].answers > Popped + 1
  <2>1. down[1].answers < down[j].answers /\ down[j].answers \in Nat
    BY ZenonT(30), <1>1, <1>3, <1>7
  <2>2. QED
    BY <1>1, <1>6, <2>1
<1>8. QED
  BY ZenonT(30), <1>2, <1>6, <1>7

LEMMA TailDown ==
  ASSUME TypeOK, down # << >>, down' = Tail(down)
  PROVE  /\ Len(down) \in Nat /\ Len(down') \in Nat /\ Head(down) = down[1]
         /\ \A i \in 1..Len(down') : i + 1 \in 1..Len(down) /\ down'[i] = down[i + 1] /\ i + 1 # 1
         /\ \A j \in 1..Len(down) : j # 1 => j - 1 \in 1..Len(down') /\ down'[j - 1] = down[j]
         /\ \A i, j \in 1..Len(down') : i < j => i + 1 < j + 1
<1>1. down \in Seq(Frame)
  BY ZenonT(30) DEF TypeOK
<1>2. /\ Len(down) \in Nat /\ Len(down) >= 1 /\ Len(down') = Len(down) - 1 /\ Head(down) = down[1]
      /\ \A i \in 1..(Len(down) - 1) : down'[i] = down[i + 1]
  BY ZenonT(30), <1>1, SeqTail
<1>3. ASSUME NEW i \in 1..Len(down') PROVE i + 1 \in 1..Len(down) /\ down'[i] = down[i + 1] /\ i + 1 # 1
  BY <1>2
<1>4. ASSUME NEW j \in 1..Len(down), j # 1 PROVE j - 1 \in 1..Len(down') /\ down'[j - 1] = down[j]
  <2>1. PICK i : i = j - 1
    BY ZenonT(30)
  <2>2. i \in 1..(Len(down) - 1) /\ j = i + 1 /\ i \in 1..Len(down')
    BY <1>2, <1>4, <2>1
  <2>3. QED
    BY ZenonT(30), <1>2, <2>1, <2>2
<1>5. \A i, j \in 1..Len(down') : i < j => i + 1 < j + 1
  BY <1>2
<1>6. Len(down') \in Nat
  BY <1>2
<1>7. QED
  BY ZenonT(30), <1>2, <1>3, <1>4, <1>5, <1>6

\* readLoop takes a frame off the socket.
LEMMA ArrivingTail ==
  ASSUME TypeOK, Queued, Arriving, down # << >>, down' = Tail(down), written' = written,
         Popped' = IF down[1].answers = 0 THEN Popped ELSE Popped + 1
  PROVE  /\ Arriving'
         /\ \A s : Sent(s) => Sent(s)'
<1>1. /\ Len(down) \in Nat /\ Popped \in Nat /\ Len(written) \in Nat
      /\ \A i \in 1..Len(down) : down[i].answers \in Nat
  BY ZenonT(30), Numbers
<1>2. /\ \A i \in 1..Len(down') : i + 1 \in 1..Len(down) /\ down'[i] = down[i + 1] /\ i + 1 # 1
      /\ \A j \in 1..Len(down) : j # 1 => j - 1 \in 1..Len(down') /\ down'[j - 1] = down[j]
      /\ \A i, j \in 1..Len(down') : i < j => i + 1 < j + 1
  BY ZenonT(30), TailDown
<1>3. Popped' \in Nat /\ Popped <= Popped' /\ Popped' <= Popped + 1
  BY <1>1
<1>4. \A j \in 1..Len(down) : j # 1 /\ down[j].answers # 0 => down[j].answers > Popped'
  <2>1. CASE down[1].answers = 0
    BY ZenonT(30), <2>1 DEF Arriving
  <2>2. CASE down[1].answers # 0
    BY ZenonT(30), <2>2, HeadExpected
  <2>3. QED
    BY ZenonT(30), <2>1, <2>2
<1>5. ASSUME NEW n \in Nat, n > Popped', InDown(n) PROVE InDown(n)'
  <2>1. PICK j \in 1..Len(down) : down[j].answers = n
    BY ZenonT(30), <1>5 DEF InDown
  <2>2. j # 1
    <3>1. SUFFICES ASSUME j = 1 PROVE FALSE
      BY ZenonT(30)
    <3>3. CASE down[1].answers = 0
      BY <1>1, <1>3, <1>5, <2>1, <3>1, <3>3
    <3>4. CASE down[1].answers # 0
      <4>1. down[1].answers = Popped + 1 /\ Popped' = Popped + 1
        BY ZenonT(30), <3>4, HeadExpected
      <4>2. QED
        BY <1>1, <1>5, <2>1, <3>1, <4>1
    <3>5. QED
      BY ZenonT(30), <3>3, <3>4
  <2>3. j - 1 \in 1..Len(down') /\ down'[j - 1] = down[j]
    BY ZenonT(30), <1>2, <2>2
  <2>4. QED
    BY ZenonT(30), <2>1, <2>3 DEF InDown
<1>6. ASSUME NEW i \in 1..Len(down'), down'[i].answers # 0
      PROVE  down'[i].answers > Popped' /\ down'[i].answers <= Len(written')
  BY ZenonT(30), <1>2, <1>4, <1>6 DEF Arriving
<1>7. ASSUME NEW i \in 1..Len(down'), NEW j \in 1..Len(down'), i < j, down'[i].answers # 0, down'[j].answers # 0
      PROVE  down'[i].answers < down'[j].answers
  <2>1. /\ i + 1 \in 1..Len(down) /\ down'[i] = down[i + 1]
        /\ j + 1 \in 1..Len(down) /\ down'[j] = down[j + 1] /\ i + 1 < j + 1
    BY ZenonT(30), <1>2, <1>7
  <2>2. QED
    BY ZenonT(30), <1>7, <2>1 DEF Arriving
<1>8. ASSUME NEW i \in 1..Len(down'), NEW n \in (Popped' + 1)..(down'[i].answers - 1)
      PROVE  InDown(n)'
  <2>1. i + 1 \in 1..Len(down) /\ down'[i] = down[i + 1] /\ down[i + 1].answers \in Nat
    BY ZenonT(30), <1>1, <1>2
  <2>2. PICK a \in Nat : a = down[i + 1].answers
    BY ZenonT(30), <2>1
  <2>3. n \in (Popped' + 1)..(a - 1)
    BY ZenonT(30), <1>8, <2>1, <2>2
  <2>4. n \in Nat /\ n > Popped' /\ n \in (Popped + 1)..(a - 1)
    BY <1>1, <1>3, <2>3
  <2>5. InDown(n)
    BY ZenonT(30), <2>1, <2>2, <2>4 DEF Arriving
  <2>6. QED
    BY ZenonT(30), <1>5, <2>4, <2>5
<1>9. Arriving'
  BY ZenonT(30), <1>6, <1>7, <1>8 DEF Arriving
<1>10. ASSUME NEW s, Sent(s) PROVE Sent(s)'
  <2>1. Popped <= s /\ (\A i \in 1..Len(down) : down[i].answers <= s) /\ \A n \in (Popped + 1)..s : InDown(n)
    BY ZenonT(30), <1>10 DEF Sent
  <2>2. Popped' <= s
    <3>1. CASE down[1].answers = 0
      BY ZenonT(30), <2>1, <3>1
    <3>2. CASE down[1].answers # 0
      BY ZenonT(30), <2>1, <3>2, HeadExpected
    <3>3. QED
      BY ZenonT(30), <3>1, <3>2
  <2>3. \A i \in 1..Len(down') : down'[i].answers <= s
    BY ZenonT(30), <1>2, <2>1
  <2>4. ASSUME NEW n \in (Popped' + 1)..s PROVE InDown(n)'
    <3>1. n \in Nat /\ n > Popped' /\ n >= Popped + 1 /\ n <= s /\ n \in Int
      BY <1>1, <1>3
    <3>2. n \in (Popped + 1)..s
      BY <1>1, <1>3
    <3>3. QED
      BY ZenonT(30), <1>5, <2>1, <3>1, <3>2
  <2>5. QED
    BY ZenonT(30), <2>2, <2>3, <2>4 DEF Sent
<1>11. QED
  BY ZenonT(30), <1>9, <1>10

\* The writer puts its frame on the socket.
LEMMA ArrivingAppend ==
  ASSUME TypeOK, Queued, Arriving, down' = Append(down, writer.frame), writer.pc = "write", Popped' = Popped,
         written' = written, NEW w \in 0..Len(written), NEW s \in 0..Len(written), Held(w, s), Sent(s)
  PROVE  Arriving' /\ Sent(w)'
<1>1. /\ Len(down) \in Nat /\ Popped \in Nat /\ Len(written) \in Nat /\ writer.frame.answers \in Nat
      /\ \A i \in 1..Len(down) : down[i].answers \in Nat
  BY ZenonT(30), Numbers
<1>2. PICK a \in Nat : a = writer.frame.answers
  BY ZenonT(30), <1>1
<1>3. /\ Len(down') = Len(down) + 1 /\ down'[Len(down) + 1].answers = a
      /\ \A i \in 1..Len(down) : down'[i] = down[i]
  <2>1. down \in Seq(Frame) /\ writer.frame \in Frame
    BY ZenonT(30) DEF TypeOK, SessionTypeOK
  <2>2. PICK f \in Frame : f = writer.frame
    BY ZenonT(30), <2>1
  <2>3. /\ Len(down') = Len(down) + 1 /\ down'[Len(down) + 1] = f
        /\ \A i \in 1..Len(down) : down'[i] = down[i]
    <3>1. down' = Append(down, f)
      BY ZenonT(30), <2>2
    <3>2. QED
      BY SMTT(30), <2>1, <3>1
  <2>4. QED
    BY ZenonT(30), <1>2, <2>2, <2>3
<1>4. \A i \in 1..Len(down') : i \in 1..Len(down) \/ i = Len(down) + 1
  BY <1>1, <1>3
<1>5. \A i \in 1..Len(down) : i \in 1..Len(down')
  BY <1>1, <1>3
<1>6. Len(down) + 1 \in 1..Len(down')
  BY <1>1, <1>3
<1>7. /\ Popped <= s /\ \A i \in 1..Len(down) : down[i].answers <= s
      /\ \A n \in (Popped + 1)..s : InDown(n)
  BY ZenonT(30) DEF Sent
<1>8. (a = 0 /\ s = w) \/ (a = w /\ s = w - 1 /\ a # 0)
  <2>1. a = 0 => s = w - 0
    BY ZenonT(30), <1>2 DEF Held, Writing
  <2>2. a # 0 => s = w - 1 /\ a = w
    BY ZenonT(30), <1>2 DEF Held, Writing
  <2>3. QED
    BY <2>1, <2>2
<1>9. \A n : InDown(n) => InDown(n)'
  BY ZenonT(30), <1>3, <1>5 DEF InDown
<1>10. a # 0 => InDown(a)'
  BY ZenonT(30), <1>3, <1>6 DEF InDown
<1>11. Sent(w)'
  <2>1. Popped' <= w
    BY <1>1, <1>7, <1>8
  <2>2. \A i \in 1..Len(down') : down'[i].answers <= w
    <3>1. \A i \in 1..Len(down) : down[i].answers <= w
      BY <1>1, <1>7, <1>8
    <3>2. a <= w
      BY <1>8
    <3>3. QED
      BY ZenonT(30), <1>3, <1>4, <3>1, <3>2
  <2>3. ASSUME NEW n \in (Popped + 1)..w PROVE InDown(n)'
    <3>1. n \in (Popped + 1)..s \/ (a # 0 /\ n = a)
      BY <1>1, <1>8
    <3>2. QED
      BY ZenonT(30), <1>7, <1>9, <1>10, <3>1
  <2>4. QED
    BY ZenonT(30), <2>1, <2>2, <2>3 DEF Sent
<1>12. ASSUME NEW i \in 1..Len(down'), down'[i].answers # 0
       PROVE  down'[i].answers > Popped /\ down'[i].answers <= Len(written)
  <2>1. a # 0 => a > Popped /\ a <= Len(written)
    BY <1>1, <1>7, <1>8
  <2>2. QED
    BY ZenonT(30), <1>3, <1>4, <1>12, <2>1 DEF Arriving
<1>13. ASSUME NEW i \in 1..Len(down'), NEW j \in 1..Len(down'), i < j, down'[i].answers # 0, down'[j].answers # 0
       PROVE  down'[i].answers < down'[j].answers
  <2>1. i \in 1..Len(down)
    BY <1>1, <1>3, <1>13
  <2>2. CASE j \in 1..Len(down)
    BY ZenonT(30), <1>3, <1>13, <2>1, <2>2 DEF Arriving
  <2>3. CASE j = Len(down) + 1
    <3>1. a # 0 => down[i].answers < a
      BY <1>1, <1>7, <1>8, <2>1
    <3>2. QED
      BY ZenonT(30), <1>3, <1>13, <2>1, <2>3, <3>1
  <2>4. QED
    BY ZenonT(30), <1>4, <2>2, <2>3
<1>14. ASSUME NEW i \in 1..Len(down'), NEW n \in (Popped + 1)..(down'[i].answers - 1)
       PROVE  InDown(n)'
  <2>1. CASE i \in 1..Len(down)
    BY ZenonT(30), <1>3, <1>9, <1>14, <2>1 DEF Arriving
  <2>2. CASE i = Len(down) + 1
    <3>1. n \in (Popped + 1)..(a - 1)
      BY ZenonT(30), <1>3, <1>14, <2>2
    <3>2. n \in (Popped + 1)..s
      BY <1>1, <1>8, <3>1
    <3>3. QED
      BY ZenonT(30), <1>7, <1>9, <3>2
  <2>3. QED
    BY ZenonT(30), <1>4, <2>1, <2>2
<1>15. QED
  BY ZenonT(30), <1>11, <1>12, <1>13, <1>14 DEF Arriving

LEMMA StagesSession ==
  ASSUME UNCHANGED <<up, written, reader, respCh, writer>>, \A s : Sent(s) => Sent(s)', Stages
  PROVE  Stages'
<1>1. PICK t \in 0..Len(written), w \in 0..Len(written), s \in 0..Len(written) :
         Taken(t) /\ Answering(t, w) /\ Held(w, s) /\ Sent(s)
  BY ZenonT(30) DEF Stages
<1>2. Taken(t)' /\ Answering(t, w)' /\ Held(w, s)'
  BY ZenonT(30), <1>1 DEF Taken, Answering, Held, Replying, Writing
<1>3. QED
  BY ZenonT(30), <1>1, <1>2 DEF Stages

LEMMA DispatchRest ==
  ASSUME TypeOK, Queued, Arriving, link = "up" => Stages, Matched', UNCHANGED sessionVars,
         down # << >>, down' = Tail(down), UNCHANGED <<link, up, written>>,
         Popped' = IF down[1].answers = 0 THEN Popped ELSE Popped + 1
  PROVE  Pipeline'
<1>1. Arriving' /\ \A s : Sent(s) => Sent(s)'
  BY ZenonT(30), ArrivingTail
<1>2. UNCHANGED <<up, written, reader, respCh, writer, link>>
  BY ZenonT(30) DEF sessionVars
<1>3. QED
  BY ZenonT(30), <1>1, <1>2, StagesSession DEF Pipeline

\* A response reaches the entry of its own request.
LEMMA DispatchPipe ==
  ASSUME TypeOK, TypeOK', Queued, Issued, Framed, InOrder, Pipeline, Dispatch, UNCHANGED sessionVars
  PROVE  Pipeline'
<1>1. /\ down # << >> /\ down' = Tail(down) /\ UNCHANGED <<link, up, req, written, outcome>>
      /\ Arriving /\ Matched /\ (link = "up" => Stages)
  BY ZenonT(30) DEF Dispatch, Pipeline
<1>2. /\ Head(down) = down[1] /\ 1 \in 1..Len(down) /\ Marked(down[1]) /\ down[1] \in Frame
  <2>1. down \in Seq(Frame)
    BY ZenonT(30) DEF TypeOK
  <2>2. Head(down) = down[1] /\ down[1] \in Frame /\ Len(down) \in Nat /\ Len(down) >= 1
    BY ZenonT(30), <1>1, <2>1, SeqTail
  <2>3. 1 \in 1..Len(down)
    BY <2>2
  <2>4. QED
    BY ZenonT(30), <2>2, <2>3 DEF Framed
<1>3. /\ Len(req) \in Nat /\ Len(queue) \in Nat /\ Len(written) \in Nat /\ Popped \in Nat
  BY ZenonT(30), Numbers
<1>4. CASE down[1].answers = 0
  <2>1. UNCHANGED <<queue, resp>> /\ Popped' = Popped
    BY ZenonT(30), <1>1, <1>2, <1>4 DEF Dispatch, Marked, Popped
  <2>2. QED
    BY ZenonT(30), <1>1, <1>2, <1>4, <2>1, DispatchRest DEF Matched
<1>5. CASE down[1].answers # 0
  <2>1. Deliver(down[1])
    BY ZenonT(30), <1>1, <1>2, <1>5 DEF Dispatch, Marked
  <2>2. down[1].answers = Popped + 1
    BY ZenonT(30), <1>1, <1>5, HeadExpected
  <2>3. Popped + 1 <= Len(req)
    <3>1. PICK a : a = Popped + 1
      BY ZenonT(30)
    <3>2. a <= Len(written)
      BY ZenonT(30), <1>1, <1>2, <1>5, <2>2, <3>1 DEF Arriving
    <3>3. a \in 1..Len(written)
      BY <1>3, <3>1, <3>2
    <3>4. written[a] = a
      <4>1. DOMAIN written = 1..Len(written)
        <5>1. written \in Seq(Reqs)
          BY ZenonT(30) DEF TypeOK, ClientTypeOK
        <5>2. QED
          BY ZenonT(30), <5>1, SeqLen
      <4>2. QED
        BY ZenonT(30), <3>3, <4>1 DEF InOrder
    <3>5. a \in 1..Len(req)
      BY ZenonT(30), <3>3, <3>4 DEF Issued
    <3>6. QED
      BY <1>3, <3>1, <3>5
  <2>4. Len(queue) >= 1 /\ 1 \in 1..Len(queue)
    BY <1>3, <2>3 DEF Popped
  <2>5. queue[1] = Popped + 1 /\ Popped + 1 \in Reqs
    <3>1. queue \in Seq(Reqs)
      BY ZenonT(30) DEF TypeOK, ClientTypeOK
    <3>2. queue[1] \in Reqs
      BY ZenonT(30), <2>4, <3>1, SeqLen
    <3>3. queue[1] = Popped + 1
      BY ZenonT(30), <2>4 DEF Queued
    <3>4. QED
      BY ZenonT(30), <3>2, <3>3
  <2>6. FirstLive = 1
    BY ZenonT(30), LiveFacts DEF TypeOK, ClientTypeOK, InOrder
  <2>7. queue' = SubSeq(queue, 1 + 1, Len(queue)) /\ resp' = [resp EXCEPT ![Popped + 1] = down[1]]
    <3>1. ~(1 > Len(queue))
      BY <1>3, <2>4
    <3>2. QED
      BY ZenonT(30), <2>1, <2>5, <2>6, <3>1 DEF Deliver
  <2>8. Len(queue') = Len(queue) - 1
    <3>1. queue \in Seq(Reqs)
      BY ZenonT(30) DEF TypeOK, ClientTypeOK
    <3>2. 1 \in 1..(Len(queue) + 1) /\ 1 <= Len(queue)
      BY <1>3, <2>4
    <3>3. Len(SubSeq(queue, 1 + 1, Len(queue))) = Len(queue) - 1
      BY ZenonT(30), <3>1, <3>2, SeqSuffix
    <3>4. QED
      BY ZenonT(30), <2>7, <3>3
  <2>9. Popped' = Popped + 1
    <3>1. Len(req') = Len(req)
      BY ZenonT(30), <1>1
    <3>2. QED
      BY <1>3, <2>8, <3>1 DEF Popped
  <2>10. Matched'
    <3>1. resp \in [Reqs -> Outcomes]
      BY ZenonT(30) DEF TypeOK, ClientTypeOK
    <3>2. \A n \in Reqs : resp'[n] = IF n = Popped + 1 THEN down[1] ELSE resp[n]
      BY ZenonT(30), <2>5, <2>7, <3>1
    <3>3. outcome' = outcome /\ \A n \in Reqs : resp[n].answers \in {0, n} /\ outcome[n].answers \in {0, n}
      BY ZenonT(30), <1>1 DEF Matched
    <3>4. ASSUME NEW n \in Reqs PROVE resp'[n].answers \in {0, n}
      <4>1. CASE n = Popped + 1
        BY ONLY ZenonT(30), n \in Reqs, <2>2, <3>2, <4>1
      <4>2. CASE n # Popped + 1
        BY ONLY ZenonT(30), n \in Reqs, <3>2, <3>3, <4>2
      <4>3. QED
        BY ZenonT(30), <4>1, <4>2
    <3>5. QED
      BY ONLY ZenonT(30), <3>3, <3>4 DEF Matched
  <2>11. QED
    BY ZenonT(30), <1>1, <1>2, <1>5, <2>9, <2>10, DispatchRest
<1>6. QED
  BY ZenonT(30), <1>4, <1>5

LEMMA StagesReader ==
  ASSUME TypeOK, TypeOK', Queued, Issued, Ends, Framed, InOrder, Stages, link = "up", link' = "up",
         ReaderStep, UNCHANGED <<req, clientVars>>
  PROVE  Stages'
<1>1. PICK t \in 0..Len(written), w \in 0..Len(written), s \in 0..Len(written) :
         Taken(t) /\ Answering(t, w) /\ Held(w, s) /\ Sent(s)
  BY ZenonT(30) DEF Stages
<1>2. UNCHANGED <<req, queue, written, cancelled>>
  BY ZenonT(30) DEF clientVars
<1>3. /\ Len(written) \in Nat /\ Len(up) \in Nat /\ Len(respCh) \in Nat
      /\ reader \in [pc : {"hello", "read", "reply", "subscribe", "ended", "closed"}, kind : Kinds, out : Seq(Frame)]
      /\ writer \in [pc : {"none", "first", "second", "write", "exited"}, frame : Frame]
  BY ZenonT(30), Numbers DEF TypeOK, SessionTypeOK
<1>4. ASSUME down' = down PROVE Sent(s)'
  BY ZenonT(30), <1>1, <1>2, <1>4 DEF Sent, InDown, Popped
<1>5. CASE HandleCommand
  <2>1. /\ reader.pc = "read" /\ up # << >> /\ up' = Tail(up) /\ Parsed(Head(up)) # "garbled"
        /\ UNCHANGED <<down, respCh, writer>>
    BY ZenonT(30), <1>5 DEF HandleCommand
  <2>2. PICK n : n = Head(up)
    BY ZenonT(30)
  <2>3. PICK answer \in Answers(Parsed(n)) :
          reader' = [pc |-> "reply", kind |-> Parsed(n), out |-> Reply(n, answer)]
    BY ZenonT(30), <1>5, <2>2 DEF HandleCommand
  <2>4. n = up[1] /\ n \in Reqs /\ n \in 1..Len(req) /\ Parsed(n) \in Kinds /\ Parsed(n) # "garbled"
    BY ZenonT(30), <2>1, <2>2, HeadParsed
  <2>5. Parsed(n) # "dup"
    <3>1. req \in Seq([kind : Kinds, caller : Callers])
      BY ZenonT(30) DEF TypeOK
    <3>2. DOMAIN req = 1..Len(req)
      BY ZenonT(30), <3>1, SeqLen
    <3>3. QED
      BY ZenonT(30), <2>4, <3>2 DEF InOrder, Parsed
  <2>6. /\ Len(Reply(n, answer)) = 1
        /\ \A i \in 1..Len(Reply(n, answer)) : Reply(n, answer)[i].answers = n
    BY ONLY ZenonT(30), TypeOK, <2>3, <2>4, <2>5, ReplyTypes
  <2>7. 1 \in 1..1
    OBVIOUS
  <2>8. reader'.pc = "reply" /\ Len(reader'.out) = 1 /\ reader'.out[1].answers = n
    BY ZenonT(30), <2>3, <2>6, <2>7
  <2>9. t = Len(written) - Len(up) /\ \A i \in 1..Len(up) : up[i] = t + i
    BY ZenonT(30), <1>1, <2>1 DEF Taken
  <2>10. /\ Len(up) >= 1 /\ Len(up') = Len(up) - 1
         /\ \A i \in 1..(Len(up) - 1) : up'[i] = up[i + 1]
    <3>1. up \in Seq(Reqs)
      BY ZenonT(30) DEF TypeOK
    <3>2. QED
      BY ZenonT(30), <2>1, <3>1, SeqTail
  <2>11. n = t + 1 /\ t + 1 \in 0..Len(written)
    <3>1. 1 \in 1..Len(up)
      BY <1>3, <2>10
    <3>2. up[1] = t + 1
      BY ZenonT(30), <2>9, <3>1
    <3>3. QED
      BY <1>3, <2>4, <2>9, <2>10, <3>2
  <2>12. Taken(t + 1)'
    <3>1. t + 1 = Len(written') - Len(up')
      <4>1. Len(written') = Len(written)
        BY ZenonT(30), <1>2
      <4>2. QED
        BY <1>3, <2>9, <2>10, <4>1
    <3>2. ASSUME NEW i \in 1..Len(up') PROVE up'[i] = (t + 1) + i
      <4>1. i \in 1..(Len(up) - 1) /\ i + 1 \in 1..Len(up)
        BY <1>3, <2>10
      <4>2. up'[i] = t + (i + 1)
        BY ZenonT(30), <2>9, <2>10, <4>1
      <4>3. QED
        BY <1>3, <4>2
    <3>3. QED
      BY ZenonT(30), <2>8, <2>11, <3>1, <3>2 DEF Taken
  <2>13. Answering(t + 1, w)'
    <3>1. Replying = 0 /\ Replying' = 1
      BY ZenonT(30), <2>1, <2>8 DEF Replying
    <3>2. w = t - 0 - Len(respCh) /\ \A i \in 1..Len(respCh) : respCh[i].answers = w + i
      BY ZenonT(30), <1>1, <3>1 DEF Answering
    <3>3. w = (t + 1) - 1 - Len(respCh)
      BY <1>3, <3>2
    <3>4. QED
      BY ZenonT(30), <2>1, <3>1, <3>2, <3>3 DEF Answering
  <2>14. Held(w, s)' /\ Sent(s)'
    BY ZenonT(30), <1>1, <1>4, <2>1 DEF Held, Writing
  <2>15. QED
    BY ZenonT(30), <1>1, <1>2, <2>11, <2>12, <2>13, <2>14 DEF Stages
<1>6. CASE SendResp
  <2>1. writer.pc # "exited"
    BY ZenonT(30), <1>6 DEF SendResp, Ends
  <2>2. /\ reader.pc = "reply" /\ respCh' = Append(respCh, Head(reader.out)) /\ UNCHANGED <<up, down, writer>>
    BY ZenonT(30), <1>6, <2>1 DEF SendResp, RespGone, wireVars
  <2>3. Len(reader.out) = 1 /\ reader.out[1].answers = t
    BY ZenonT(30), <1>1, <2>2 DEF Taken
  <2>4. /\ t = Len(written) - Len(up) /\ \A i \in 1..Len(up) : up[i] = t + i
    BY ZenonT(30), <1>1, <2>2 DEF Taken
  <2>5. ~(Len(reader.out) > 1)
    BY <2>3
  <2>6. reader'.pc \in {"subscribe", "read"}
    BY ZenonT(30), <1>3, <1>6, <2>5 DEF SendResp, AfterReply
  <2>7. PICK f \in Frame : f = Head(reader.out) /\ f.answers = t
    <3>1. reader.out \in Seq(Frame) /\ reader.out # << >>
      BY ZenonT(30), <1>3, <2>2 DEF Framed
    <3>2. Head(reader.out) = reader.out[1] /\ reader.out[1] \in Frame
      BY ZenonT(30), <3>1, SeqTail
    <3>3. QED
      BY ZenonT(30), <2>3, <3>2
  <2>8. /\ Len(respCh') = Len(respCh) + 1 /\ respCh'[Len(respCh) + 1] = f
        /\ \A i \in 1..Len(respCh) : respCh'[i] = respCh[i]
    <3>1. respCh \in Seq(Frame) /\ respCh' = Append(respCh, f)
      BY ZenonT(30), <2>2, <2>7 DEF TypeOK, SessionTypeOK
    <3>2. QED
      BY SMTT(30), <3>1
  <2>9. Taken(t)'
    BY ZenonT(30), <1>2, <2>2, <2>4, <2>6 DEF Taken
  <2>10. Answering(t, w)'
    <3>1. Replying = 1 /\ Replying' = 0
      BY ZenonT(30), <2>2, <2>6 DEF Replying
    <3>2. w = t - 1 - Len(respCh) /\ \A i \in 1..Len(respCh) : respCh[i].answers = w + i
      BY ZenonT(30), <1>1, <3>1 DEF Answering
    <3>3. w = t - 0 - Len(respCh') /\ t = w + (Len(respCh) + 1)
      BY <1>3, <2>8, <3>2
    <3>4. ASSUME NEW i \in 1..Len(respCh') PROVE respCh'[i].answers = w + i
      <4>1. i \in 1..Len(respCh) \/ i = Len(respCh) + 1
        BY <1>3, <2>8
      <4>2. QED
        BY ZenonT(30), <2>7, <2>8, <3>2, <3>3, <4>1
    <3>5. QED
      BY ZenonT(30), <3>1, <3>3, <3>4 DEF Answering
  <2>11. Held(w, s)' /\ Sent(s)'
    BY ZenonT(30), <1>1, <1>4, <2>2 DEF Held, Writing
  <2>12. QED
    BY ZenonT(30), <1>1, <1>2, <2>9, <2>10, <2>11 DEF Stages
<1>7. CASE Handshake \/ StartDelivery \/ ReaderEnds
  <2>1. /\ UNCHANGED <<respCh, down>> /\ reader.pc \in {"hello", "read", "subscribe"} /\ reader'.pc \in {"read", "ended"}
        /\ (up' = up \/ reader'.pc = "ended") /\ (writer' = writer \/ (writer.pc = "none" /\ writer'.pc = "first"))
    <3>1. CASE Handshake
      BY ZenonT(30), <1>3, <3>1 DEF Handshake, wireVars, Cut, Ends
    <3>2. CASE StartDelivery \/ ReaderEnds
      BY ZenonT(30), <1>3, <3>2 DEF StartDelivery, ReaderEnds, wireVars
    <3>3. QED
      BY ZenonT(30), <1>7, <3>1, <3>2
  <2>2. Taken(t)' /\ Answering(t, w)'
    BY ZenonT(30), <1>1, <1>2, <2>1 DEF Taken, Answering, Replying
  <2>3. Held(w, s)' /\ Sent(s)'
    <3>1. CASE writer' = writer
      BY ZenonT(30), <1>1, <1>4, <2>1, <3>1 DEF Held, Writing
    <3>2. CASE writer.pc = "none" /\ writer'.pc = "first"
      <4>1. Writing = 0 /\ Writing' = 0 /\ 0 # 1
        BY <3>2 DEF Writing
      <4>2. QED
        BY ZenonT(30), <1>1, <1>4, <2>1, <4>1 DEF Held
    <3>3. QED
      BY ZenonT(30), <2>1, <3>1, <3>2
  <2>4. QED
    BY ZenonT(30), <1>1, <1>2, <2>2, <2>3 DEF Stages
<1>8. CASE SessionCloses
  BY ZenonT(30), <1>8 DEF SessionCloses, Cut
<1>9. QED
  BY ZenonT(30), <1>5, <1>6, <1>7, <1>8 DEF ReaderStep

LEMMA WriterPipe ==
  ASSUME TypeOK, TypeOK', Queued, Pipeline, WriterStep, UNCHANGED <<req, clientVars>>
  PROVE  Pipeline'
<1>1. UNCHANGED <<req, queue, written, resp, outcome, reader, up, link>> /\ Arriving /\ Matched /\ Popped' = Popped
  BY ZenonT(30) DEF clientVars, Pipeline, WriterStep, WriterFirst, WriterSecond, WriterWrites, wireVars, Popped
<1>2. Matched'
  BY ZenonT(30), <1>1 DEF Matched
<1>3. /\ Len(written) \in Nat /\ Len(respCh) \in Nat /\ Popped \in Nat /\ respCh \in Seq(Frame)
      /\ writer \in [pc : {"none", "first", "second", "write", "exited"}, frame : Frame]
  BY ZenonT(30), Numbers DEF TypeOK, SessionTypeOK
<1>4. CASE WriterFirst \/ WriterSecond
  <2>1. /\ writer.pc \in {"first", "second"} /\ UNCHANGED <<link, up, down, reader>>
        /\ \/ respCh # << >> /\ respCh' = Tail(respCh) /\ writer'.pc = "write" /\ writer'.frame = Head(respCh)
           \/ respCh' = respCh /\ (writer'.pc # "write" \/ writer'.frame.answers = 0)
    BY ZenonT(30), <1>3, <1>4, WriterMoves
  <2>2. Arriving'
    BY ZenonT(30), <1>1, <2>1 DEF Arriving, InDown
  <2>3. ASSUME link = "up" PROVE Stages'
    <3>1. PICK t \in 0..Len(written), w \in 0..Len(written), s \in 0..Len(written) :
             Taken(t) /\ Answering(t, w) /\ Held(w, s) /\ Sent(s)
      BY ZenonT(30), <2>3 DEF Pipeline, Stages
    <3>2. Taken(t)' /\ Sent(s)'
      BY ZenonT(30), <1>1, <2>1, <3>1 DEF Taken, Sent, InDown
    <3>3. Writing = 0 /\ s = w
      <4>1. Writing = 0
        BY ZenonT(30), <2>1 DEF Writing
      <4>2. s = w - 0
        BY ZenonT(30), <3>1, <4>1 DEF Held
      <4>3. QED
        BY <4>1, <4>2
    <3>4. CASE respCh' = respCh /\ (writer'.pc # "write" \/ writer'.frame.answers = 0)
      <4>1. Answering(t, w)'
        BY ZenonT(30), <2>1, <3>1, <3>4 DEF Answering, Replying
      <4>2. Writing' = 0 /\ w = w - 0 /\ 0 # 1
        BY <3>4 DEF Writing
      <4>3. Held(w, s)'
        BY ZenonT(30), <3>3, <4>2 DEF Held
      <4>4. QED
        BY ZenonT(30), <1>1, <3>1, <3>2, <4>1, <4>3 DEF Stages
    <3>5. CASE respCh # << >> /\ respCh' = Tail(respCh) /\ writer'.pc = "write" /\ writer'.frame = Head(respCh)
      <4>1. /\ Len(respCh') = Len(respCh) - 1 /\ Len(respCh) >= 1 /\ Head(respCh) = respCh[1]
            /\ \A i \in 1..(Len(respCh) - 1) : respCh'[i] = respCh[i + 1]
        BY ZenonT(30), <1>3, <3>5, SeqTail
      <4>2. w = t - Replying - Len(respCh) /\ (\A i \in 1..Len(respCh) : respCh[i].answers = w + i)
            /\ Replying \in {0, 1} /\ Replying' = Replying
        BY ZenonT(30), <2>1, <3>1 DEF Answering, Replying
      <4>3. w + 1 \in 0..Len(written) /\ w + 1 = t - Replying - Len(respCh') /\ w + 1 # 0 /\ w = (w + 1) - 1
        BY <1>3, <4>1, <4>2
      <4>4. ASSUME NEW i \in 1..Len(respCh') PROVE respCh'[i].answers = (w + 1) + i
        <5>1. i \in 1..(Len(respCh) - 1) /\ i + 1 \in 1..Len(respCh)
          BY <1>3, <4>1
        <5>2. respCh'[i].answers = w + (i + 1)
          BY ZenonT(30), <4>1, <4>2, <5>1
        <5>3. QED
          BY <5>1, <5>2
      <4>5. Answering(t, w + 1)'
        BY ZenonT(30), <4>2, <4>3, <4>4 DEF Answering
      <4>6. writer'.frame.answers = w + 1
        <5>1. 1 \in 1..Len(respCh)
          BY <1>3, <4>1
        <5>2. QED
          BY ZenonT(30), <3>5, <4>1, <4>2, <5>1
      <4>7. Writing' = 1
        BY ZenonT(30), <3>5, <4>3, <4>6 DEF Writing
      <4>8. Held(w + 1, s)'
        BY ZenonT(30), <3>3, <4>3, <4>6, <4>7 DEF Held
      <4>9. QED
        BY ZenonT(30), <1>1, <3>1, <3>2, <4>3, <4>5, <4>8 DEF Stages
    <3>6. QED
      BY ZenonT(30), <2>1, <3>4, <3>5
  <2>4. QED
    BY ZenonT(30), <1>1, <1>2, <2>2, <2>3 DEF Pipeline
<1>5. CASE WriterWrites
  <2>1. /\ writer.pc = "write" /\ UNCHANGED respCh /\ writer'.pc # "write"
        /\ \/ link = "up" /\ down' = Append(down, writer.frame)
           \/ link = "down" /\ UNCHANGED down
    BY ZenonT(30), <1>3, <1>5 DEF WriterWrites
  <2>2. CASE link = "down" /\ UNCHANGED down
    <3>1. Arriving'
      BY ZenonT(30), <1>1, <2>2 DEF Arriving, InDown
    <3>2. QED
      BY ZenonT(30), <1>1, <1>2, <2>2, <3>1 DEF Pipeline
  <2>3. CASE link = "up" /\ down' = Append(down, writer.frame)
    <3>1. PICK t \in 0..Len(written), w \in 0..Len(written), s \in 0..Len(written) :
             Taken(t) /\ Answering(t, w) /\ Held(w, s) /\ Sent(s)
      BY ZenonT(30), <2>3 DEF Pipeline, Stages
    <3>2. Arriving' /\ Sent(w)'
      BY ZenonT(30), <1>1, <2>1, <2>3, <3>1, ArrivingAppend
    <3>3. Taken(t)' /\ Answering(t, w)'
      BY ZenonT(30), <1>1, <2>1, <3>1 DEF Taken, Answering, Replying
    <3>4. Writing' = 0 /\ w = w - 0 /\ 0 # 1
      BY <2>1 DEF Writing
    <3>5. Held(w, w)'
      BY ZenonT(30), <3>4 DEF Held
    <3>6. Stages'
      BY ZenonT(30), <1>1, <3>1, <3>2, <3>3, <3>5 DEF Stages
    <3>7. QED
      BY ZenonT(30), <1>2, <3>2, <3>6 DEF Pipeline
  <2>4. QED
    BY ZenonT(30), <2>1, <2>2, <2>3
<1>6. QED
  BY ZenonT(30), <1>4, <1>5 DEF WriterStep

LEMMA ReaderPipe ==
  ASSUME TypeOK, TypeOK', Queued, Issued, Ends, Framed, InOrder, Pipeline, ReaderStep, UNCHANGED <<req, clientVars>>
  PROVE  Pipeline'
<1>1. UNCHANGED <<req, queue, written, resp, outcome>> /\ Arriving /\ Matched /\ Popped' = Popped
  BY ZenonT(30) DEF clientVars, Pipeline, Popped
<1>2. Matched'
  BY ZenonT(30), <1>1 DEF Matched
<1>3. (down' = down \/ down' \in Prefixes(down)) /\ (link' = link \/ link' = "down")
  BY ZenonT(30) DEF ReaderStep, Handshake, HandleCommand, SendResp, StartDelivery, ReaderEnds, SessionCloses, Cut, wireVars
<1>4. Arriving'
  <2>1. Len(written') \in Nat /\ Len(written) <= Len(written')
    <3>1. Len(written) \in Nat /\ Len(written') = Len(written)
      BY ZenonT(30), <1>1, Numbers
    <3>2. QED
      BY <3>1
  <2>2. QED
    BY ZenonT(30), <1>1, <1>3, <2>1, ArrivingPrefix
<1>5. link' = "up" => Stages'
  <2>1. SUFFICES ASSUME link' = "up" PROVE Stages'
    BY ZenonT(30)
  <2>2. link = "up"
    BY ZenonT(30), <1>3, <2>1
  <2>3. QED
    BY ZenonT(30), <2>1, <2>2, StagesReader DEF Pipeline
<1>6. QED
  BY ZenonT(30), <1>2, <1>4, <1>5 DEF Pipeline

\* Callers and the network.
LEMMA CallerPipe ==
  ASSUME TypeOK, TypeOK', Queued, InOrder', Pipeline, Matched', UNCHANGED sessionVars, Popped' = Popped,
         link' = link \/ link' = "down",
         down' = down \/ (down' \in Prefixes(down) /\ link' = "down"),
         \/ written' = written /\ (up' = up \/ link' = "down")
         \/ \E n \in Reqs : up' = Append(up, n) /\ written' = Append(written, n)
  PROVE  Pipeline'
<1>1. Arriving /\ (link = "up" => Stages) /\ UNCHANGED <<reader, respCh, writer>>
  BY ZenonT(30) DEF Pipeline, sessionVars
<1>2. /\ up \in Seq(Reqs) /\ written \in Seq(Reqs) /\ Len(up) \in Nat /\ Len(written) \in Nat
      /\ written' \in Seq(Reqs) /\ Len(written') \in Nat
  <2>1. up \in Seq(Reqs) /\ written \in Seq(Reqs) /\ written' \in Seq(Reqs)
    BY ZenonT(30) DEF TypeOK, ClientTypeOK
  <2>2. QED
    BY ZenonT(30), <2>1, SeqLen
<1>3. ASSUME NEW n \in Reqs, up' = Append(up, n), written' = Append(written, n)
      PROVE  /\ Len(up') = Len(up) + 1 /\ up'[Len(up) + 1] = n /\ \A i \in 1..Len(up) : up'[i] = up[i]
             /\ Len(written') = Len(written) + 1 /\ n = Len(written) + 1
  <2>1. up \in Seq(Reqs) /\ written \in Seq(Reqs)
    BY ZenonT(30), <1>2
  <2>2. Len(up') = Len(up) + 1 /\ up'[Len(up) + 1] = n /\ \A i \in 1..Len(up) : up'[i] = up[i]
    BY SMTT(30), <1>3, <2>1
  <2>3. Len(written') = Len(written) + 1 /\ written'[Len(written) + 1] = n
    BY SMTT(30), <1>3, <2>1
  <2>4. Len(written) + 1 \in 1..Len(written') /\ DOMAIN written' = 1..Len(written')
    <3>1. DOMAIN written' = 1..Len(written')
      BY ZenonT(30), <1>2, SeqLen
    <3>2. QED
      BY <1>2, <2>3, <3>1
  <2>5. written'[Len(written) + 1] = Len(written) + 1
    BY ZenonT(30), <2>4 DEF InOrder
  <2>6. QED
    BY ZenonT(30), <2>2, <2>3, <2>5
<1>4. Len(written) <= Len(written')
  <2>1. CASE written' = written
    BY <1>2, <2>1
  <2>2. CASE \E n \in Reqs : up' = Append(up, n) /\ written' = Append(written, n)
    <3>1. Len(written') = Len(written) + 1
      BY ZenonT(30), <1>3, <2>2
    <3>2. QED
      BY <1>2, <3>1
  <2>3. QED
    BY ZenonT(30), <2>1, <2>2
<1>5. Arriving'
  BY ZenonT(30), <1>1, <1>2, <1>4, ArrivingPrefix
<1>6. ASSUME link' = "up" PROVE Stages'
  <2>1. link = "up" /\ down' = down
    BY ZenonT(30), <1>6
  <2>2. PICK t \in 0..Len(written), w \in 0..Len(written), s \in 0..Len(written) :
           Taken(t) /\ Answering(t, w) /\ Held(w, s) /\ Sent(s)
    BY ZenonT(30), <1>1, <2>1 DEF Stages
  <2>3. Answering(t, w)' /\ Held(w, s)' /\ Sent(s)'
    BY ZenonT(30), <1>1, <2>1, <2>2 DEF Answering, Replying, Held, Writing, Sent, InDown
  <2>4. Taken(t)'
    <3>1. CASE written' = written /\ up' = up
      BY ZenonT(30), <1>1, <2>2, <3>1 DEF Taken
    <3>2. ASSUME NEW n \in Reqs, up' = Append(up, n), written' = Append(written, n) PROVE Taken(t)'
      <4>1. SUFFICES ASSUME reader.pc \notin {"ended", "closed"}
                     PROVE  t = Len(written') - Len(up') /\ \A i \in 1..Len(up') : up'[i] = t + i
        BY ZenonT(30), <1>1, <2>2 DEF Taken
      <4>2. t = Len(written) - Len(up) /\ \A i \in 1..Len(up) : up[i] = t + i
        BY ZenonT(30), <2>2, <4>1 DEF Taken
      <4>3. /\ Len(up') = Len(up) + 1 /\ up'[Len(up) + 1] = n /\ \A i \in 1..Len(up) : up'[i] = up[i]
            /\ Len(written') = Len(written) + 1 /\ n = Len(written) + 1
        BY ZenonT(30), <1>3, <3>2
      <4>4. t = Len(written') - Len(up') /\ n = t + (Len(up) + 1)
        BY <1>2, <4>2, <4>3
      <4>5. \A i \in 1..Len(up') : i \in 1..Len(up) \/ i = Len(up) + 1
        BY <1>2, <4>3
      <4>6. QED
        BY ZenonT(30), <4>2, <4>3, <4>4, <4>5
    <3>3. (written' = written /\ up' = up) \/ \E n \in Reqs : up' = Append(up, n) /\ written' = Append(written, n)
      <4>1. link' # "down"
        BY ZenonT(30), <1>6
      <4>2. QED
        BY ZenonT(30), <4>1
    <3>4. QED
      BY ZenonT(30), <3>1, <3>2, <3>3
  <2>5. \A k \in 0..Len(written) : k \in 0..Len(written')
    BY <1>2, <1>4
  <2>6. QED
    BY ZenonT(30), <2>2, <2>3, <2>4, <2>5 DEF Stages
<1>7. QED
  BY ZenonT(30), <1>5, <1>6 DEF Pipeline

LEMMA ReturnMatches ==
  ASSUME TypeOK, Matched, resp' = resp, NEW c \in Callers, NEW out \in Outcomes, Return(c, out),
         out.answers \in {0, call[c].n}
  PROVE  Matched'
<1>1. outcome \in [Reqs -> Outcomes] /\ outcome' = [outcome EXCEPT ![call[c].n] = out]
  BY ZenonT(30) DEF TypeOK, ClientTypeOK, Return
<1>2. \A n \in Reqs : outcome'[n] = IF n = call[c].n THEN out ELSE outcome[n]
  BY ZenonT(30), <1>1
<1>3. QED
  BY ZenonT(30), <1>2 DEF Matched

LEMMA MatchedSame == Matched /\ UNCHANGED <<resp, outcome>> => Matched'
BY ZenonT(30) DEF Matched

LEMMA ReturnedMatches == \A how \in {"TRANSPORT", "closed", "cancelled"} : Returned(how) \in Outcomes /\ Returned(how).answers = 0
BY OutcomeTypes DEF Returned

LEMMA CallPipe ==
  ASSUME TypeOK, TypeOK', Queued, Issued, InOrder', InOrder => Pipeline, UNCHANGED sessionVars, NEW c \in Callers,
         ((\E kind \in Kinds : Push(c, kind)) /\ UNCHANGED wireVars) \/ Write(c) \/ Await(c) \/ ContextEnds(c)
  PROVE  Pipeline'
<1>1. ASSUME NEW kind \in Kinds, Push(c, kind), UNCHANGED wireVars PROVE Pipeline'
  <2>1. PICK r \in [kind : Kinds, caller : Callers] : req' = Append(req, r)
    BY ZenonT(30), <1>1 DEF Push
  <2>2. UNCHANGED <<link, up, down, written, cancelled, resp, outcome>> /\ queue' = Append(queue, Len(req) + 1)
    BY ZenonT(30), <1>1 DEF Push, wireVars
  <2>3. InOrder
    BY ZenonT(30), <2>1, <2>2, OrderBack
  <2>4. Popped' = Popped
    <3>1. Len(req) \in Nat /\ Len(queue) \in Nat
      BY ZenonT(30), Numbers
    <3>2. Len(req') = Len(req) + 1
      <4>1. req \in Seq([kind : Kinds, caller : Callers])
        BY ZenonT(30) DEF TypeOK
      <4>2. QED
        BY ZenonT(30), <2>1, <4>1, SeqAppend
    <3>3. Len(queue') = Len(queue) + 1
      <4>1. queue \in Seq(Reqs) /\ queue' \in Seq(Reqs)
        BY ZenonT(30) DEF TypeOK, ClientTypeOK
      <4>2. QED
        BY SMTT(30), <2>2, <3>1, <4>1
    <3>4. QED
      BY <3>1, <3>2, <3>3 DEF Popped
  <2>5. Matched'
    BY ZenonT(30), <2>2, <2>3, MatchedSame DEF Pipeline
  <2>6. QED
    BY ZenonT(30), <2>2, <2>3, <2>4, <2>5, CallerPipe
<1>2. ASSUME Write(c) PROVE Pipeline'
  <2>1. call[c].n \in Reqs
    BY ZenonT(30), <1>2, CallIssued DEF Write
  <2>2. UNCHANGED <<link, down, req, queue, resp>>
    BY ZenonT(30), <1>2 DEF Write
  <2>3. /\ cancelled \subseteq cancelled'
        /\ UNCHANGED <<up, written>> \/ (up' = Append(up, call[c].n) /\ written' = Append(written, call[c].n))
    BY ZenonT(30), <1>2 DEF Write
  <2>4. InOrder
    BY ZenonT(30), <2>1, <2>2, <2>3, OrderBack
  <2>5. Matched'
    <3>1. (\E how \in {"closed", "TRANSPORT"} : Return(c, Returned(how))) \/ UNCHANGED outcome
      BY ZenonT(30), <1>2 DEF Write
    <3>2. QED
      BY ZenonT(30), <2>2, <2>4, <3>1, ReturnMatches, ReturnedMatches, MatchedSame DEF Pipeline
  <2>6. Popped' = Popped
    BY ZenonT(30), <2>2 DEF Popped
  <2>7. QED
    BY ZenonT(30), <2>1, <2>2, <2>3, <2>4, <2>5, <2>6, CallerPipe
<1>3. ASSUME Await(c) \/ ContextEnds(c) PROVE Pipeline'
  <2>1. call[c].n \in Reqs
    BY ZenonT(30), <1>3, CallIssued DEF Await, ContextEnds
  <2>2. UNCHANGED <<link, up, down, written, req, queue, resp>> /\ cancelled \subseteq cancelled'
    BY ZenonT(30), <1>3 DEF Await, ContextEnds, wireVars
  <2>3. InOrder /\ Matched
    BY ZenonT(30), <2>2, OrderBack DEF Pipeline
  <2>4. Matched'
    <3>1. resp[call[c].n] \in Outcomes /\ resp[call[c].n].answers \in {0, call[c].n}
      BY ZenonT(30), <2>1, <2>3 DEF TypeOK, ClientTypeOK, Matched
    <3>2. (\E how \in {"closed", "cancelled"} : Return(c, Returned(how))) \/ Return(c, resp[call[c].n])
      BY ZenonT(30), <1>3 DEF Await, ContextEnds
    <3>3. CASE Return(c, resp[call[c].n])
      BY ZenonT(30), <2>2, <2>3, <3>1, <3>3, ReturnMatches
    <3>4. CASE \E how \in {"closed", "cancelled"} : Return(c, Returned(how))
      BY ZenonT(30), <2>2, <2>3, <3>4, ReturnMatches, ReturnedMatches
    <3>5. QED
      BY ZenonT(30), <3>2, <3>3, <3>4
  <2>5. Popped' = Popped
    BY ZenonT(30), <2>2 DEF Popped
  <2>6. QED
    BY ZenonT(30), <2>2, <2>3, <2>4, <2>5, CallerPipe
<1>4. QED
  BY ZenonT(30), <1>1, <1>2, <1>3

\* readLoop fails: nothing is on the socket, and the entries get the error.
LEMMA FailPipe ==
  ASSUME TypeOK, Pipeline, LoopFails
  PROVE  Pipeline'
<1>1. down' = << >> /\ link' = "down" /\ UNCHANGED outcome /\ DrainErr
  BY ZenonT(30) DEF LoopFails, wireVars
<1>2. Len(down') = 0
  BY <1>1
<1>3. \A i \in 1..Len(down') : FALSE
  BY <1>2
<1>4. Arriving'
  BY ZenonT(30), <1>3 DEF Arriving
<1>5. Returned("TRANSPORT").answers = 0
  BY DEF Returned
<1>6. \A n \in Reqs : resp'[n] = Returned("TRANSPORT") \/ resp'[n] = resp[n]
  BY ZenonT(30), <1>1 DEF DrainErr
<1>7. Matched'
  BY ZenonT(30), <1>1, <1>5, <1>6 DEF Pipeline, Matched
<1>8. QED
  BY ZenonT(30), <1>1, <1>4, <1>7 DEF Pipeline

LEMMA CutPipe ==
  ASSUME TypeOK, TypeOK', Queued, InOrder', InOrder => Pipeline, UNCHANGED sessionVars,
         Break \/ Close
  PROVE  Pipeline'
<1>1. /\ UNCHANGED <<req, queue, cancelled, resp, outcome, written>>
      /\ (Cut \/ UNCHANGED wireVars)
  BY ZenonT(30) DEF Break, Close, clientVars
<1>2. /\ (link' = link \/ link' = "down") /\ (up' = up \/ link' = "down")
      /\ down' = down \/ (down' \in Prefixes(down) /\ link' = "down")
  BY ZenonT(30), <1>1 DEF Cut, wireVars
<1>3. InOrder /\ Popped' = Popped
  BY ZenonT(30), <1>1, OrderSame DEF Popped
<1>4. Matched'
  BY ZenonT(30), <1>1, <1>3, MatchedSame DEF Pipeline
<1>5. QED
  BY ZenonT(30), <1>1, <1>2, <1>3, <1>4, CallerPipe

----------------------------------------------------------------------------
(* The theorem. *)

LEMMA ConnInit == Init => ConnInv
<1> SUFFICES ASSUME Init PROVE ConnInv
  BY ZenonT(30)
<1>1. TypeOK
  BY ZenonT(30), TypeInit
<1>2. /\ req = << >> /\ queue = << >> /\ written = << >> /\ up = << >> /\ down = << >> /\ respCh = << >>
      /\ reader = [pc |-> "hello", kind |-> "bad", out |-> << >>] /\ hello = "sent" /\ ~quit
      /\ writer = [pc |-> "none", frame |-> NoFrame]
      /\ call = [c \in Callers |-> [pc |-> "idle", n |-> 0]]
      /\ resp = [n \in Reqs |-> None] /\ outcome = [n \in Reqs |-> None]
  BY ZenonT(30) DEF Init, ClientInit, SessionInit
<1>3. Len(<< >>) = 0 /\ \A i \in 1..0 : FALSE
  OBVIOUS
<1>4. /\ Len(req) = 0 /\ Len(queue) = 0 /\ Len(written) = 0 /\ Len(up) = 0 /\ Len(down) = 0 /\ Len(respCh) = 0
      /\ Len(reader.out) = 0 /\ reader.pc = "hello" /\ writer.pc = "none"
  BY ZenonT(30), <1>2, <1>3
<1>5. Queued
  BY <1>4 DEF Queued
<1>6. Issued
  <2>1. Len(req) <= MaxReqs
    BY <1>4, WireAssumption
  <2>2. \A c \in Callers : call[c].pc = "idle"
    BY ZenonT(30), <1>2
  <2>3. QED
    BY ZenonT(30), <1>3, <1>4, <2>1, <2>2 DEF Issued
<1>7. Ends
  BY ZenonT(30), <1>2, <1>4 DEF Ends
<1>8. Framed
  <2>1. writer.frame.answers = 0 /\ writer.frame.kind = "MSG"
    <3>1. writer.frame = NoFrame
      BY ZenonT(30), <1>2
    <3>2. QED
      BY <3>1 DEF NoFrame
  <2>2. QED
    BY ZenonT(30), <1>3, <1>4, <2>1 DEF Framed, Marked
<1>9. Pipeline
  <2>1. Arriving
    BY ZenonT(30), <1>3, <1>4 DEF Arriving
  <2>2. Matched
    <3>1. None.answers = 0
      BY DEF None
    <3>2. QED
      BY ZenonT(30), <1>2, <3>1 DEF Matched
  <2>3. Stages
    <3>1. Popped = 0 /\ Replying = 0 /\ Writing = 0 /\ 0 \in 0..Len(written)
      BY <1>4 DEF Popped, Replying, Writing
    <3>2. Taken(0)
      BY <1>4 DEF Taken
    <3>3. Answering(0, 0)
      BY <1>4, <3>1 DEF Answering
    <3>4. Held(0, 0)
      BY <3>1 DEF Held
    <3>5. Sent(0)
      BY <1>4, <3>1 DEF Sent
    <3>6. QED
      BY ZenonT(30), <3>1, <3>2, <3>3, <3>4, <3>5 DEF Stages
  <2>4. QED
    BY ZenonT(30), <2>1, <2>2, <2>3 DEF Pipeline
<1>10. QED
  BY ZenonT(30), <1>1, <1>5, <1>6, <1>7, <1>8, <1>9 DEF ConnInv

LEMMA TypeStep ==
  ASSUME TypeOK, Issued, Framed, Next
  PROVE  TypeOK'
<1>1. setup.callers \subseteq Callers /\ UNCHANGED setup
  BY ZenonT(30), SetupFacts DEF TypeOK, Next
<1>2. CASE DialReturns \/ Break \/ ((Close \/ Receive) /\ UNCHANGED sessionVars)
  <2>1. UNCHANGED sessionVars
    BY ZenonT(30), <1>2 DEF DialReturns, Break
  <2>2. QED
    BY ZenonT(30), <1>1, <1>2, <2>1, OtherTypes
<1>3. ASSUME NEW c \in setup.callers, Call(c) \/ CallerStep(c) \/ Cancel(c) PROVE TypeOK'
  <2>1. c \in Callers /\ UNCHANGED <<setup, sessionVars>>
    BY ZenonT(30), <1>1, <1>3 DEF Call, CallerStep, Cancel
  <2>2. ((\E kind \in setup.kinds : Push(c, kind)) /\ UNCHANGED wireVars) \/ Write(c) \/ Await(c) \/ ContextEnds(c)
    BY ZenonT(30), <1>3 DEF Call, CallerStep, Cancel
  <2>3. QED
    BY ZenonT(30), <2>1, <2>2, CallTypes
<1>4. CASE LoopRuns
  BY ZenonT(30), <1>1, <1>4, LoopTypes DEF LoopRuns
<1>5. CASE ReaderRuns
  BY ZenonT(30), <1>1, <1>5, CommandTypes, ReaderTypes DEF ReaderRuns, ReaderStep
<1>6. CASE WriterRuns \/ ((PushMessage \/ Shutdown) /\ UNCHANGED <<req, clientVars>>)
  BY ZenonT(30), <1>1, <1>6, WriterTypes DEF WriterRuns
<1>7. QED
  BY ZenonT(30), <1>2, <1>3, <1>4, <1>5, <1>6 DEF Next

LEMMA PipeStep ==
  ASSUME TypeOK, TypeOK', Queued, Issued, Ends, Framed, InOrder => Pipeline, InOrder', Next
  PROVE  Pipeline'
<1>1. setup.callers \subseteq Callers /\ setup.kinds \subseteq Kinds
  BY ZenonT(30), SetupFacts DEF TypeOK
<1>2. CASE \/ DialReturns
           \/ (Unblock \/ LoopExits \/ Receive) /\ UNCHANGED sessionVars
           \/ (PushMessage \/ Shutdown) /\ UNCHANGED <<req, clientVars>>
  <2>1. UNCHANGED piping
    BY ZenonT(30), <1>2, QuietSteps
  <2>2. QED
    BY ZenonT(30), <2>1, QuietInv
<1>3. CASE Break \/ (Close /\ UNCHANGED sessionVars)
  <2>1. UNCHANGED sessionVars
    BY ZenonT(30), <1>3 DEF Break
  <2>2. QED
    BY ZenonT(30), <1>3, <2>1, CutPipe
<1>4. ASSUME NEW c \in setup.callers, Call(c) \/ CallerStep(c) \/ Cancel(c) PROVE Pipeline'
  <2>1. c \in Callers /\ UNCHANGED sessionVars
    BY ZenonT(30), <1>1, <1>4 DEF Call, CallerStep, Cancel
  <2>2. ((\E kind \in Kinds : Push(c, kind)) /\ UNCHANGED wireVars) \/ Write(c) \/ Await(c) \/ ContextEnds(c)
    BY ZenonT(30), <1>1, <1>4 DEF Call, CallerStep, Cancel
  <2>3. QED
    BY ZenonT(30), <2>1, <2>2, CallPipe
<1>5. CASE (Dispatch \/ LoopFails) /\ UNCHANGED sessionVars
  <2>1. InOrder
    BY ZenonT(30), <1>5, OrderSame DEF Dispatch, LoopFails
  <2>2. QED
    BY ZenonT(30), <1>5, <2>1, DispatchPipe, FailPipe
<1>6. CASE ReaderRuns \/ WriterRuns
  <2>1. InOrder /\ UNCHANGED <<req, clientVars>>
    BY ZenonT(30), <1>6, OrderSame DEF ReaderRuns, WriterRuns, clientVars
  <2>2. QED
    BY ZenonT(30), <1>6, <2>1, ReaderPipe, WriterPipe DEF ReaderRuns, WriterRuns
<1>7. QED
  BY ZenonT(30), <1>2, <1>3, <1>4, <1>5, <1>6 DEF Next, LoopRuns, LoopStep

LEMMA ConnStep == ConnInv /\ [Next]_vars => ConnInv'
<1> SUFFICES ASSUME ConnInv, [Next]_vars PROVE ConnInv'
  BY ZenonT(30)
<1>1. TypeOK /\ Queued /\ Issued /\ Ends /\ Framed /\ (InOrder => Pipeline)
  BY ZenonT(30) DEF ConnInv
<1>2. CASE Next
  <2>1. TypeOK'
    BY ZenonT(30), <1>1, <1>2, TypeStep
  <2>2. Queued' /\ Issued' /\ Ends' /\ Framed'
    BY ZenonT(30), <1>1, <1>2, <2>1, QueuedStep, IssuedStep, EndsStep, FramedStep
  <2>3. InOrder' => Pipeline'
    BY ZenonT(30), <1>1, <1>2, <2>1, PipeStep
  <2>4. QED
    BY ZenonT(30), <2>1, <2>2, <2>3 DEF ConnInv
<1>3. CASE UNCHANGED vars
  <2>1. UNCHANGED setup /\ UNCHANGED <<wireVars, req>> /\ UNCHANGED clientVars /\ UNCHANGED sessionVars
    BY ZenonT(30), <1>3 DEF vars, state
  <2>2. TypeOK'
    BY ZenonT(30), <1>1, <2>1, TypeParts, WireSame, ClientSame, SessionSame DEF TypeOK, WireType
  <2>3. UNCHANGED piping
    BY ZenonT(30), <2>1 DEF wireVars, clientVars, sessionVars, piping
  <2>4. QED
    BY ZenonT(30), <1>1, <2>2, <2>3, QuietInv DEF ConnInv
<1>4. QED
  BY ZenonT(30), <1>2, <1>3

LEMMA ConnInvariant == Spec => []ConnInv
BY ConnInit, ConnStep, PTL DEF Spec

\* The variables of Connection keep their types.
THEOREM ConnectionTypes == Spec => []TypeOK
<1>1. ConnInv => TypeOK
  BY ZenonT(30) DEF ConnInv
<1>2. QED
  BY <1>1, ConnInvariant, PTL

\* A call returns the answer to its own request as long as InOrder holds, for any
\* number of callers and requests and any capacities, with responses queued at
\* every stage of the pipeline and the connection breaking anywhere
\* (pendingQueue.deliver, sendResp, runWriter).
THEOREM AnswersMatch == Spec => []ResponsesMatch
<1>1. ConnInv => ResponsesMatch
  <2> SUFFICES ASSUME ConnInv, InOrder, NEW n \in DOMAIN req PROVE outcome[n].answers \in {0, n}
    BY ZenonT(30) DEF ResponsesMatch
  <2>1. Matched /\ Len(req) <= MaxReqs /\ req \in Seq([kind : Kinds, caller : Callers])
    BY ZenonT(30) DEF ConnInv, Pipeline, Issued, TypeOK
  <2>2. DOMAIN req = 1..Len(req) /\ Len(req) \in Nat
    BY ZenonT(30), <2>1, SeqLen
  <2>3. n \in Reqs
    BY <2>1, <2>2, WireAssumption DEF Reqs
  <2>4. QED
    BY ZenonT(30), <2>1, <2>3 DEF Matched
<1>2. QED
  BY <1>1, ConnInvariant, PTL

=============================================================================
