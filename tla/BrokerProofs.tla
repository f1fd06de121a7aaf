---------------------------- MODULE BrokerProofs ----------------------------
(***************************************************************************)
(* Proofs about the two tasks of a broker beside its partitions: the topic *)
(* registry (module Registry), for any number of callers, topics and       *)
(* partitions, and the retention sweep (module Retention), for any record  *)
(* sizes, delays, policies, segment size and number of records.            *)
(*                                                                         *)
(* Registry.  Shape: the lock, the calls in progress and the open logs fit *)
(* together.  OnDisk: what the topic directories say, and where the        *)
(* records are.                                                            *)
(***************************************************************************)
EXTENDS Registry, Retention, FiniteSetTheorems, WellFoundedInduction, TLAPS

----------------------------------------------------------------------------
(* The registry. *)

\* The steps of openTopicLocked between its first look at the disk and the end.
Steps == {"mkdir", "create", "write", "open"}

IdleTyped == Idle \in Call

CallOK(c) ==
    /\ call[c].pc # "idle" => /\ call[c].topic \in Topics
                              /\ phase = IF c = Main THEN "starting" ELSE "up"
    /\ call[c].pc \in Steps => /\ mu = c /\ topics[call[c].topic] = 0
                               /\ call[c].count > 0 /\ call[c].next < call[c].count
    /\ call[c].pc \notin {"open", "route"} => call[c].next = 0
    /\ call[c].pc = "route" => topics[call[c].topic] > 0
    /\ c = Main => /\ call[c].op # "pub"
                   /\ call[c].pc # "idle" => call[c].topic \in entries

Calls == \A c \in Procs : CallOK(c)

Holder == mu # Nobody => call[mu].pc \in Steps

Down == phase = "down" => \A t \in Topics : topics[t] = 0

OpenSlot(t, s) ==
    IF topics[t] > 0 THEN s \in SlotsOf(topics[t])
    ELSE mu # Nobody /\ call[mu].topic = t /\ s \in Opened(mu)

Logs == \A t \in Topics, s \in Slots : logs[t][s] = IF OpenSlot(t, s) THEN 1 ELSE 0

Shape == TypeOK /\ Calls /\ Holder /\ Down /\ Logs

----------------------------------------------------------------------------
(* Slots *)

LEMMA SlotFacts ==
  ASSUME NEW n \in 1..MaxParts, NEW p \in Nat, p < n
  PROVE  /\ SlotOf(n, p) \in Slots
         /\ SlotOf(n, p) \notin {SlotOf(n, q) : q \in 0..p - 1}
         /\ {SlotOf(n, q) : q \in 0..p} = {SlotOf(n, q) : q \in 0..p - 1} \cup {SlotOf(n, p)}
<1>1. MaxParts \in Nat
  BY ZenonT(30), RegistryAssumption
<1>2. SlotOf(n, p) \in Slots
  BY <1>1 DEF SlotOf, Slots, Flat
<1>3. \A q \in 0..p - 1 : SlotOf(n, q) # SlotOf(n, p)
  BY DEF SlotOf, Flat
<1>4. \A q \in 0..p : q \in 0..p - 1 \/ q = p
  OBVIOUS
<1>5. \A q \in 0..p - 1 : q \in 0..p
  OBVIOUS
<1>6. p \in 0..p
  OBVIOUS
<1>7. QED
  BY ZenonT(30), <1>2, <1>3, <1>4, <1>5, <1>6

LEMMA NobodyFacts == Nobody \notin Procs /\ Main \in Procs /\ IdleTyped
BY RegistryAssumption DEF Procs, Nobody, Main, IdleTyped, Idle, Call, Keys, NoPart

LEMMA ShapeInit == Init => Shape
<1> SUFFICES ASSUME Init PROVE Shape
  BY ZenonT(30)
<1>1. TypeOK
  BY RegistryAssumption, NobodyFacts DEF Init, TypeOK, SetupType, NoMeta, Nobody, IdleTyped
<1>2. Calls /\ Holder /\ Down
  BY ZenonT(30) DEF Init, Calls, CallOK, Holder, Down, Idle, Steps, Nobody
<1>3. Logs
  BY <1>1 DEF Init, Logs, OpenSlot, TypeOK, Nobody
<1>4. QED
  BY ZenonT(30), <1>1, <1>2, <1>3 DEF Shape

----------------------------------------------------------------------------
(* Every step keeps the shape. *)

\* A step of a call that does not hold b.mu, before or after.
LEMMA QuietShape ==
  ASSUME Shape, TypeOK', NEW c \in Procs, UNCHANGED <<mu, topics, logs, phase, entries>>,
         \A d \in Procs : d # c => call'[d] = call[d],
         call[c].pc \notin Steps, call'[c].pc \notin Steps, CallOK(c)'
  PROVE  Shape'
<1>1. Calls'
  BY DEF Shape, Calls, CallOK
<1>2. mu # Nobody => mu \in Procs /\ call'[mu] = call[mu]
  BY ZenonT(30) DEF Shape, TypeOK, Holder
<1>3. Holder' /\ Down'
  BY ZenonT(30), <1>2 DEF Shape, Holder, Down
<1>4. Logs'
  <2>1. ASSUME NEW t \in Topics, NEW s \in Slots PROVE OpenSlot(t, s)' = OpenSlot(t, s)
    BY ZenonT(30), <1>2 DEF OpenSlot, Opened
  <2>2. QED
    BY ZenonT(30), <2>1 DEF Shape, Logs
<1>5. QED
  BY ZenonT(30), <1>1, <1>3, <1>4 DEF Shape

LEMMA BeginShape ==
  ASSUME Shape, NEW c \in Procs, NEW op \in {"create", "pub", "sub", "recover"}, NEW t \in Topics,
         NEW want \in 0..MaxParts, NEW key \in Keys, NEW part \in {NoPart} \cup 0..MaxParts,
         Begin(c, op, t, want, key, part), UNCHANGED setup,
         phase = IF c = Main THEN "starting" ELSE "up",
         c = Main => op = "recover" /\ t \in entries
  PROVE  Shape'
<1> DEFINE new == [pc |-> IF op = "create" THEN "lock" ELSE "look", op |-> op, topic |-> t,
                   want |-> want, key |-> key, part |-> part, count |-> 0, next |-> 0]
<1>1. /\ call[c] = Idle /\ call' = [call EXCEPT ![c] = new]
      /\ UNCHANGED <<setup, diskVars, memVars, mu, told, stops>>
  BY ZenonT(30) DEF Begin
<1>2. UNCHANGED <<made, meta, stored, phase, default, entries, topics, logs, rr, mu, told, stops>>
  BY ZenonT(30), <1>1 DEF diskVars, memVars
<1>3. /\ new.pc \in {"lock", "look"} /\ new.topic = t /\ new.op = op /\ new.next = 0
      /\ new \in Call
  BY RegistryAssumption DEF Call
<1> HIDE DEF new
<1>4. call \in [Procs -> Call]
  BY ZenonT(30) DEF Shape, TypeOK
<1>5. call'[c] = new /\ \A d \in Procs : d # c => call'[d] = call[d]
  BY ZenonT(30), <1>1, <1>4
<1>6. TypeOK'
  BY ZenonT(30), <1>1, <1>2, <1>3, <1>4 DEF Shape, TypeOK
<1>7. CallOK(c)'
  BY ZenonT(30), <1>2, <1>3, <1>5 DEF CallOK, Steps
<1>8. call[c].pc \notin Steps /\ call'[c].pc \notin Steps
  BY <1>1, <1>3, <1>5 DEF Steps, Idle
<1>9. QED
  BY ZenonT(30), <1>2, <1>5, <1>6, <1>7, <1>8, QuietShape

LEMMA RequestShape ==
  ASSUME Shape, NEW c \in Procs, Request(c), UNCHANGED setup
  PROVE  Shape'
<1>1. phase = "up" /\ c # Main
  BY ZenonT(30) DEF Request
<1>2. /\ setup.topics \subseteq Topics /\ setup.creates \subseteq 1..MaxParts
      /\ setup.parts \subseteq 0..MaxParts
  BY ZenonT(30), RegistryAssumption DEF Shape, TypeOK, SetupType
<1>3. NoKey \in Keys /\ NoPart \in {NoPart} \cup 0..MaxParts /\ 0 \in 0..MaxParts
  BY RegistryAssumption DEF Keys
<1>4. PICK t \in Topics :
        \/ \E n \in setup.creates : Begin(c, "create", t, n, NoKey, NoPart)
        \/ \E key \in Keys, p \in setup.parts \cup {NoPart} : Begin(c, "pub", t, 0, key, p)
        \/ Begin(c, "sub", t, 0, NoKey, NoPart)
  BY ZenonT(30), <1>2 DEF Request
<1>5. ASSUME NEW n \in setup.creates, Begin(c, "create", t, n, NoKey, NoPart) PROVE Shape'
  <2>1. n \in 0..MaxParts
    BY <1>2
  <2>2. QED
    BY ZenonT(30), <1>1, <1>3, <1>5, <2>1, BeginShape
<1>6. ASSUME NEW key \in Keys, NEW p \in setup.parts \cup {NoPart}, Begin(c, "pub", t, 0, key, p) PROVE Shape'
  <2>1. p \in {NoPart} \cup 0..MaxParts
    BY ZenonT(30), <1>2
  <2>2. QED
    BY ZenonT(30), <1>1, <1>3, <1>6, <2>1, BeginShape
<1>7. ASSUME Begin(c, "sub", t, 0, NoKey, NoPart) PROVE Shape'
  BY ZenonT(30), <1>1, <1>3, <1>7, BeginShape
<1>8. QED
  BY ZenonT(30), <1>4, <1>5, <1>6, <1>7

LEMMA RecoverShape ==
  ASSUME Shape, Recover, UNCHANGED setup
  PROVE  Shape'
<1>1. PICK t \in entries : phase = "starting" /\ Begin(Main, "recover", t, 0, NoKey, NoPart)
  BY ZenonT(30) DEF Recover
<1>2. t \in Topics /\ Main \in Procs
  BY ZenonT(30), NobodyFacts DEF Shape, TypeOK
<1>3. NoKey \in Keys /\ NoPart \in {NoPart} \cup 0..MaxParts /\ 0 \in 0..MaxParts
  BY RegistryAssumption DEF Keys
<1>4. QED
  BY ZenonT(30), <1>1, <1>2, <1>3, BeginShape

\* What Return and Proceed do to the call.
LEMMA ReturnFacts ==
  ASSUME Shape, NEW c \in Procs, Return(c)
  PROVE  /\ call'[c] = Idle /\ \A d \in Procs : d # c => call'[d] = call[d]
         /\ call' \in [Procs -> Call]
<1>1. call \in [Procs -> Call] /\ Idle \in Call
  BY ZenonT(30), NobodyFacts DEF Shape, TypeOK, IdleTyped
<1>2. QED
  BY ZenonT(30), <1>1 DEF Return

LEMMA ProceedFacts ==
  ASSUME Shape, NEW c \in Procs, Proceed(c)
  PROVE  /\ \A d \in Procs : d # c => call'[d] = call[d]
         /\ call' \in [Procs -> Call]
         /\ \/ call'[c] = Idle
            \/ call[c].op = "pub" /\ call'[c] = [call[c] EXCEPT !.pc = "route"]
<1>1. call \in [Procs -> Call]
  BY ZenonT(30) DEF Shape, TypeOK
<1>2. CASE call[c].op = "pub"
  <2>1. call' = [call EXCEPT ![c].pc = "route"]
    BY ZenonT(30), <1>2 DEF Proceed
  <2>2. QED
    BY <1>1, <1>2, <2>1 DEF Call
<1>3. CASE call[c].op # "pub"
  BY ZenonT(30), <1>3, ReturnFacts DEF Proceed
<1>4. QED
  BY ZenonT(30), <1>2, <1>3

LEMMA IdleOK ==
  ASSUME NEW c \in Procs, call'[c] = Idle
  PROVE  CallOK(c)'
BY DEF CallOK, Idle, Steps

\* The topic is open: the call goes on, or is done.
LEMMA ProceedShape ==
  ASSUME Shape, NEW c \in Procs, call[c].pc \in {"look", "lock"}, topics[call[c].topic] > 0,
         Proceed(c), UNCHANGED <<setup, diskVars, memVars, mu, told, stops>>
  PROVE  Shape'
<1>1. UNCHANGED <<made, meta, stored, phase, default, entries, topics, logs, rr, mu, told, stops>>
  BY ZenonT(30) DEF diskVars, memVars
<1>2. TypeOK'
  BY ZenonT(30), <1>1, ProceedFacts DEF Shape, TypeOK
<1>3. CASE call'[c] = Idle
  <2>1. CallOK(c)'
    BY ZenonT(30), <1>3, IdleOK
  <2>2. call[c].pc \notin Steps /\ call'[c].pc \notin Steps
    BY <1>3 DEF Steps, Idle
  <2>3. QED
    BY ZenonT(30), <1>1, <1>2, <2>1, <2>2, ProceedFacts, QuietShape
<1>4. CASE call[c].op = "pub" /\ call'[c] = [call[c] EXCEPT !.pc = "route"]
  <2>1. call[c] \in Call
    BY ZenonT(30) DEF Shape, TypeOK
  <2>2. /\ call'[c].pc = "route" /\ call'[c].topic = call[c].topic /\ call'[c].op = call[c].op
    BY ZenonT(30), <1>4, <2>1 DEF Call
  <2>3. CallOK(c)
    BY ZenonT(30) DEF Shape, Calls
  <2>4. CallOK(c)'
    BY ZenonT(30), <1>1, <1>4, <2>2, <2>3 DEF CallOK, Steps
  <2>5. QED
    BY ZenonT(30), <1>1, <1>2, <2>2, <2>4, ProceedFacts, QuietShape DEF Steps
<1>5. QED
  BY ZenonT(30), <1>3, <1>4, ProceedFacts

LEMMA LookShape ==
  ASSUME Shape, NEW c \in Procs, Look(c), UNCHANGED setup
  PROVE  Shape'
<1>1. /\ call[c].pc = "look" /\ UNCHANGED <<setup, diskVars, memVars, mu, told, stops>>
      /\ \/ topics[call[c].topic] > 0 /\ Proceed(c)
         \/ call' = [call EXCEPT ![c].pc = "lock"]
  BY ZenonT(30) DEF Look
<1>2. CASE topics[call[c].topic] > 0 /\ Proceed(c)
  BY ZenonT(30), <1>1, <1>2, ProceedShape
<1>3. CASE call' = [call EXCEPT ![c].pc = "lock"]
  <2>1. UNCHANGED <<made, meta, stored, phase, default, entries, topics, logs, rr, mu, told, stops>>
    BY ZenonT(30), <1>1 DEF diskVars, memVars
  <2>2. call \in [Procs -> Call] /\ CallOK(c)
    BY ZenonT(30) DEF Shape, TypeOK, Calls
  <2>3. call' \in [Procs -> Call]
    BY <1>3, <2>2 DEF Call
  <2>4. /\ call'[c].pc = "lock" /\ call'[c].topic = call[c].topic /\ call'[c].op = call[c].op
        /\ call'[c].next = call[c].next
        /\ \A d \in Procs : d # c => call'[d] = call[d]
    BY ZenonT(30), <1>3, <2>2 DEF Call
  <2>5. TypeOK'
    BY ZenonT(30), <1>1, <2>1, <2>3 DEF Shape, TypeOK
  <2>6. CallOK(c)'
    BY ZenonT(30), <1>1, <2>1, <2>2, <2>4 DEF CallOK, Steps
  <2>7. QED
    BY ZenonT(30), <1>1, <2>1, <2>4, <2>5, <2>6, QuietShape DEF Steps
<1>4. QED
  BY ZenonT(30), <1>1, <1>2, <1>3

\* The end of a process.
LEMMA ExitShape ==
  ASSUME Shape, Exit, mu' = Nobody, UNCHANGED setup, call' \in [Procs -> Call],
         \A c \in Procs : call'[c].pc = "idle" /\ call'[c].next = 0 /\ (c = Main => call'[c].op # "pub"),
         made' \in [Topics -> BOOLEAN], meta' \in [Topics -> NoMeta..MaxParts],
         UNCHANGED <<stored, told>>, stops' \in Nat
  PROVE  Shape'
<1>1. /\ phase' = "down" /\ entries' = {} /\ topics' = [t \in Topics |-> 0]
      /\ logs' = [t \in Topics |-> [s \in Slots |-> 0]]
      /\ rr' = [t \in Topics |-> 0] /\ default' = default
  BY ZenonT(30) DEF Exit
<1>2. TypeOK'
  <2>1. /\ topics' \in [Topics -> 0..MaxParts] /\ logs' \in [Topics -> [Slots -> Nat]]
        /\ rr' \in [Topics -> Nat]
    BY <1>1, RegistryAssumption
  <2>2. QED
    BY ZenonT(30), <1>1, <2>1 DEF Shape, TypeOK
<1>3. Calls' /\ Holder' /\ Down'
  BY ZenonT(30), <1>1 DEF Calls, CallOK, Holder, Down, Steps
<1>4. Logs'
  BY <1>1 DEF Logs, OpenSlot
<1>5. QED
  BY ZenonT(30), <1>2, <1>3, <1>4 DEF Shape

\* A failed open of a topic, after which none of its logs is open.
LEMMA FailShape ==
  ASSUME Shape, NEW c \in Procs, call[c].pc # "idle", NEW closed, Fail(c, closed), UNCHANGED setup,
         made' \in [Topics -> BOOLEAN], meta' \in [Topics -> NoMeta..MaxParts],
         UNCHANGED <<stored, told, stops>>,
         topics[call[c].topic] = 0,
         (mu = Nobody /\ closed = {}) \/ (mu = c /\ closed = Opened(c))
  PROVE  Shape'
<1> DEFINE t == call[c].topic
<1>1. t \in Topics /\ mu' = Nobody /\ Return(c) /\ (phase = IF c = Main THEN "starting" ELSE "up")
  BY ZenonT(30) DEF Fail, Unlock, Shape, Calls, CallOK
<1>2. CASE c = Main
  <2>1. Exit
    BY ZenonT(30), <1>2 DEF Fail
  <2>2. \A d \in Procs : d # c => call[d].pc = "idle" /\ call[d].next = 0
    BY ZenonT(30), <1>1, <1>2 DEF Shape, Calls, CallOK
  <2>3. \A d \in Procs : call'[d].pc = "idle" /\ call'[d].next = 0 /\ (d = Main => call'[d].op # "pub")
    BY <1>1, <1>2, <2>2, ReturnFacts DEF Idle
  <2>4. stops' \in Nat
    BY ZenonT(30) DEF Shape, TypeOK
  <2>5. QED
    BY ZenonT(30), <1>1, <2>1, <2>3, <2>4, ReturnFacts, ExitShape
<1>3. CASE c # Main
  <2>1. /\ logs' = [logs EXCEPT ![t] = [s \in Slots |-> IF s \in closed THEN @[s] - 1 ELSE @[s]]]
        /\ UNCHANGED <<phase, default, entries, topics, rr>>
    BY ZenonT(30), <1>3 DEF Fail
  <2>2. logs \in [Topics -> [Slots -> Nat]]
    BY ZenonT(30) DEF Shape, TypeOK
  <2>3. \A s \in Slots : logs'[t][s] = 0
    <3>1. ASSUME NEW s \in Slots PROVE logs[t][s] = IF s \in closed THEN 1 ELSE 0
      BY SMTT(30), <1>1, NobodyFacts DEF Shape, Logs, OpenSlot
    <3>2. ASSUME NEW s \in Slots PROVE logs'[t][s] = IF s \in closed THEN logs[t][s] - 1 ELSE logs[t][s]
      BY ZenonT(30), <1>1, <2>1, <2>2
    <3>3. QED
      BY SMTT(30), <3>1, <3>2
  <2>4. \A u \in Topics : u # t => logs'[u] = logs[u]
    BY ZenonT(30), <1>1, <2>1, <2>2
  <2>5. logs' \in [Topics -> [Slots -> Nat]]
    <3> DEFINE f == [s \in Slots |-> IF s \in closed THEN logs[t][s] - 1 ELSE logs[t][s]]
    <3>1. logs' = [logs EXCEPT ![t] = f]
      BY ZenonT(30), <1>1, <2>1, <2>2
    <3>2. \A s \in Slots : f[s] = 0
      BY ZenonT(30), <1>1, <2>2, <2>3, <3>1
    <3>3. f \in [Slots -> Nat]
      BY SMTT(30), <3>2
    <3> HIDE DEF f
    <3>4. QED
      BY ZenonT(30), <1>1, <2>2, <3>1, <3>3
  <2>6. TypeOK'
    BY ZenonT(30), <1>1, <2>1, <2>5, ReturnFacts DEF Shape, TypeOK
  <2>7. Calls'
    <3>1. CallOK(c)'
      BY ZenonT(30), <1>1, ReturnFacts, IdleOK
    <3>2. ASSUME NEW d \in Procs, d # c PROVE CallOK(d)'
      <4>1. call'[d] = call[d] /\ CallOK(d)
        BY ZenonT(30), <1>1, <3>2, ReturnFacts DEF Shape, Calls
      <4>2. call[d].pc \notin Steps
        BY ZenonT(30), <3>2, <4>1, NobodyFacts DEF CallOK
      <4>3. QED
        BY ZenonT(30), <2>1, <4>1, <4>2 DEF CallOK
    <3>3. QED
      BY ZenonT(30), <3>1, <3>2 DEF Calls
  <2>8. Holder' /\ Down'
    BY ZenonT(30), <1>1, <2>1 DEF Holder, Down, Shape
  <2>9. Logs'
    <3>1. ASSUME NEW u \in Topics, NEW s \in Slots PROVE (logs[u][s] = IF OpenSlot(u, s) THEN 1 ELSE 0)'
      <4>1. CASE u = t
        BY SMTT(30), <1>1, <2>1, <2>3, <4>1 DEF OpenSlot
      <4>2. CASE u # t
        BY SMTT(30), <1>1, <2>1, <2>4, <4>2 DEF OpenSlot, Shape, Logs
      <4>3. QED
        BY ZenonT(30), <4>1, <4>2
    <3>2. QED
      BY ZenonT(30), <3>1 DEF Logs
  <2>10. QED
    BY ZenonT(30), <2>6, <2>7, <2>8, <2>9 DEF Shape
<1>4. QED
  BY ZenonT(30), <1>2, <1>3

LEMMA LockShape ==
  ASSUME Shape, NEW c \in Procs, Lock(c), UNCHANGED setup
  PROVE  Shape'
<1> DEFINE t == call[c].topic
<1>1. /\ call[c].pc = "lock" /\ mu = Nobody /\ t \in Topics
      /\ UNCHANGED <<setup, made, meta, stored, told, stops>>
  BY ZenonT(30) DEF Lock, diskVars, Shape, Calls, CallOK
<1>2. CASE topics[t] > 0
  <2>1. /\ IF call[c].op = "create" THEN Return(c) ELSE Proceed(c)
        /\ UNCHANGED <<mu, memVars>>
    <3>1. Registered(t)
      BY ZenonT(30), <1>2 DEF Registered
    <3>2. QED
      BY ZenonT(30), <1>1, <3>1 DEF Lock
  <2>2. Proceed(c)
    BY ZenonT(30), <2>1 DEF Proceed
  <2>3. QED
    BY <1>1, <1>2, <2>1, <2>2, ProceedShape DEF diskVars
<1>3. CASE topics[t] = 0 /\ Refused(c, t)
  <2>1. Fail(c, {})
    BY <1>1, <1>3 DEF Lock, Registered
  <2>2. made' \in [Topics -> BOOLEAN] /\ meta' \in [Topics -> NoMeta..MaxParts]
    BY ZenonT(30), <1>1 DEF Shape, TypeOK
  <2>3. QED
    BY ZenonT(30), <1>1, <1>3, <2>1, <2>2, FailShape
<1>4. CASE topics[t] = 0 /\ ~Refused(c, t)
  <2> DEFINE n == Count(c, t)
             pc == IF NeedsMeta(c, t) THEN "mkdir" ELSE "open"
  <2>1. /\ mu' = c /\ call' = [call EXCEPT ![c].pc = pc, ![c].count = n]
        /\ UNCHANGED <<phase, default, entries, topics, logs, rr>>
    BY <1>1, <1>4 DEF Lock, Registered, memVars
  <2>2. /\ call \in [Procs -> Call] /\ CallOK(c) /\ call[c] \in Call
    BY ZenonT(30) DEF Shape, TypeOK, Calls
  <2>3. n \in 1..MaxParts
    <3>1. meta[t] \in NoMeta..MaxParts /\ default \in 1..MaxParts /\ call[c].want \in 0..MaxParts
      BY ZenonT(30), <1>1, <2>2 DEF Shape, TypeOK, Call
    <3>2. QED
      BY <3>1, RegistryAssumption DEF Count, DiskCount, NoMeta
  <2>4. pc \in {"mkdir", "open"}
    BY ZenonT(30)
  <2> HIDE DEF n, pc
  <2>5. call' \in [Procs -> Call]
    <3> DEFINE new == [call[c] EXCEPT !.pc = pc, !.count = n]
    <3>1. new \in Call
      <4>1. n \in 0..MaxParts
        BY <2>3, RegistryAssumption
      <4>2. QED
        BY ZenonT(30), <2>2, <2>4, <4>1 DEF Call
    <3>2. call' = [call EXCEPT ![c] = new]
      BY ZenonT(30), <2>1, <2>2
    <3> HIDE DEF new
    <3>3. QED
      BY ZenonT(30), <2>2, <3>1, <3>2
  <2>6. /\ call'[c].pc = pc /\ call'[c].count = n /\ call'[c].topic = t
        /\ call'[c].next = call[c].next /\ call'[c].op = call[c].op
        /\ \A d \in Procs : d # c => call'[d] = call[d]
    BY ZenonT(30), <2>1, <2>2 DEF Call
  <2>7. TypeOK'
    BY ZenonT(30), <1>1, <2>1, <2>5 DEF Shape, TypeOK
  <2>8. Calls'
    <3>1. CallOK(c)'
      BY SMTT(30), <1>1, <1>4, <2>1, <2>2, <2>3, <2>4, <2>6 DEF CallOK, Steps
    <3>2. ASSUME NEW d \in Procs, d # c PROVE CallOK(d)'
      <4>1. call'[d] = call[d] /\ CallOK(d)
        BY ZenonT(30), <2>6, <3>2 DEF Shape, Calls
      <4>2. call[d].pc \notin Steps
        BY ZenonT(30), <1>1, <4>1, NobodyFacts DEF CallOK
      <4>3. UNCHANGED <<phase, entries, topics>>
        BY ZenonT(30), <2>1
      <4>4. QED
        BY ZenonT(30), <4>1, <4>2, <4>3 DEF CallOK
    <3>3. QED
      BY ZenonT(30), <3>1, <3>2 DEF Calls
  <2>9. Holder' /\ Down'
    BY ZenonT(30), <2>1, <2>4, <2>6 DEF Holder, Down, Shape, Steps
  <2>10. Logs'
    <3>1. Opened(c)' = {}
      <4>1. call'[c].next = 0
        BY ZenonT(30), <1>1, <2>2, <2>6 DEF CallOK
      <4>2. QED
        BY <4>1 DEF Opened
    <3>2. ASSUME NEW u \in Topics, NEW s \in Slots PROVE OpenSlot(u, s)' = OpenSlot(u, s)
      BY ZenonT(30), <1>1, <2>1, <3>1 DEF OpenSlot
    <3>3. QED
      BY ZenonT(30), <2>1, <3>2 DEF Logs, Shape
  <2>11. QED
    BY ZenonT(30), <2>7, <2>8, <2>9, <2>10 DEF Shape
<1>5. QED
  BY <1>1, <1>2, <1>3, <1>4 DEF Shape, TypeOK

\* writeTopicMeta.
LEMMA MetaShape ==
  ASSUME Shape, NEW c \in Procs, call[c].pc \in {"mkdir", "create", "write"},
         NEW pc \in {"create", "write", "open"}, call' = [call EXCEPT ![c].pc = pc],
         UNCHANGED <<setup, stored, memVars, mu, told, stops>>,
         made' \in [Topics -> BOOLEAN], meta' \in [Topics -> NoMeta..MaxParts]
  PROVE  Shape'
<1>1. UNCHANGED <<phase, default, entries, topics, logs, rr>>
  BY ZenonT(30) DEF memVars
<1>2. call \in [Procs -> Call] /\ CallOK(c) /\ call[c] \in Call
  BY ZenonT(30) DEF Shape, TypeOK, Calls
<1>3. call' \in [Procs -> Call]
  BY ZenonT(30), <1>2 DEF Call
<1>4. /\ call'[c].pc = pc /\ call'[c].count = call[c].count /\ call'[c].topic = call[c].topic
      /\ call'[c].next = call[c].next /\ call'[c].op = call[c].op
      /\ \A d \in Procs : d # c => call'[d] = call[d]
  BY ZenonT(30), <1>2 DEF Call
<1>5. TypeOK'
  BY ZenonT(30), <1>1, <1>3 DEF Shape, TypeOK
<1>6. mu = c
  BY ZenonT(30), <1>2 DEF CallOK, Steps
<1>7. Calls'
  <2>1. CallOK(c)'
    BY <1>1, <1>2, <1>4 DEF CallOK, Steps
  <2>2. ASSUME NEW d \in Procs, d # c PROVE CallOK(d)'
    BY <1>1, <1>4, <2>2 DEF Shape, Calls, CallOK
  <2>3. QED
    BY ZenonT(30), <2>1, <2>2 DEF Calls
<1>8. Holder' /\ Down'
  BY ZenonT(30), <1>1, <1>4, <1>6 DEF Holder, Down, Shape, Steps
<1>9. Logs'
  <2>1. Opened(c)' = Opened(c)
    BY <1>4 DEF Opened
  <2>2. ASSUME NEW u \in Topics, NEW s \in Slots PROVE OpenSlot(u, s)' = OpenSlot(u, s)
    BY ZenonT(30), <1>1, <1>4, <1>6, <2>1 DEF OpenSlot
  <2>3. QED
    BY ZenonT(30), <1>1, <2>2 DEF Logs, Shape
<1>10. QED
  BY ZenonT(30), <1>5, <1>7, <1>8, <1>9 DEF Shape

LEMMA MetaStepsShape ==
  ASSUME Shape, NEW c \in Procs, Mkdir(c) \/ MetaCreate(c) \/ MetaWrite(c), UNCHANGED setup
  PROVE  Shape'
<1>1. /\ made \in [Topics -> BOOLEAN] /\ meta \in [Topics -> NoMeta..MaxParts]
      /\ call[c].count \in 0..MaxParts /\ Torn \in NoMeta..MaxParts
  BY RegistryAssumption DEF Shape, TypeOK, Call, Torn, NoMeta
<1>2. CASE Mkdir(c)
  BY ZenonT(30), <1>1, <1>2, MetaShape DEF Mkdir
<1>3. CASE MetaCreate(c)
  BY ZenonT(30), <1>1, <1>3, MetaShape DEF MetaCreate
<1>4. CASE MetaWrite(c)
  <2>1. call[c].count \in NoMeta..MaxParts
    BY <1>1, RegistryAssumption DEF NoMeta
  <2>2. QED
    BY ZenonT(30), <1>1, <1>4, <2>1, MetaShape DEF MetaWrite
<1>5. QED
  BY ZenonT(30), <1>2, <1>3, <1>4

LEMMA OpenPartitionShape ==
  ASSUME Shape, NEW c \in Procs, OpenPartition(c), UNCHANGED setup
  PROVE  Shape'
<1> DEFINE t == call[c].topic
           n == call[c].count
           p == call[c].next
<1>1. /\ call[c].pc = "open" /\ made' = [made EXCEPT ![t] = TRUE]
      /\ logs' = [logs EXCEPT ![t][SlotOf(n, p)] = @ + 1]
      /\ UNCHANGED <<meta, stored, phase, default, stops>>
  BY ZenonT(30) DEF OpenPartition
<1>2. /\ call \in [Procs -> Call] /\ call[c] \in Call /\ CallOK(c)
      /\ logs \in [Topics -> [Slots -> Nat]] /\ topics \in [Topics -> 0..MaxParts]
      /\ made \in [Topics -> BOOLEAN]
  BY ZenonT(30) DEF Shape, TypeOK, Calls
<1>3. t \in Topics /\ mu = c /\ topics[t] = 0 /\ c # Nobody
  BY ZenonT(30), <1>1, <1>2, NobodyFacts DEF CallOK, Steps
<1>4. n \in 1..MaxParts /\ p \in Nat /\ p < n
  BY <1>1, <1>2, RegistryAssumption DEF CallOK, Steps, Call
<1>5. /\ SlotOf(n, p) \in Slots /\ SlotOf(n, p) \notin Opened(c)
      /\ {SlotOf(n, q) : q \in 0..p} = Opened(c) \cup {SlotOf(n, p)}
  BY ZenonT(30), <1>4, SlotFacts DEF Opened
<1>6. /\ \A u \in Topics : u # t => logs'[u] = logs[u]
      /\ \A s \in Slots : logs'[t][s] = IF s \in Opened(c) \cup {SlotOf(n, p)} THEN 1 ELSE 0
  <2>1. \A u \in Topics : u # t => logs'[u] = logs[u]
    BY ZenonT(30), <1>1, <1>2, <1>3
  <2>2. \A s \in Slots : logs[t][s] = IF s \in Opened(c) THEN 1 ELSE 0
    BY SMTT(30), <1>3 DEF Shape, Logs, OpenSlot
  <2>3. \A s \in Slots : logs'[t][s] = IF s = SlotOf(n, p) THEN logs[t][s] + 1 ELSE logs[t][s]
    BY SMTT(30), <1>1, <1>2, <1>3, <1>5
  <2>4. QED
    BY <1>5, <2>1, <2>2, <2>3
<1>7. logs' \in [Topics -> [Slots -> Nat]] /\ made' \in [Topics -> BOOLEAN]
  BY <1>1, <1>2, <1>3, <1>5
<1>8. CASE p + 1 < n
  <2>1. call' = [call EXCEPT ![c].next = p + 1] /\ UNCHANGED <<mu, topics, rr, told, entries>>
    BY ZenonT(30), <1>8 DEF OpenPartition
  <2>2. p + 1 \in 0..MaxParts
    BY <1>4, <1>8, RegistryAssumption
  <2>3. call' \in [Procs -> Call]
    BY ZenonT(30), <1>2, <2>1, <2>2 DEF Call
  <2>4. /\ call'[c].pc = "open" /\ call'[c].count = n /\ call'[c].topic = t
        /\ call'[c].next = p + 1 /\ call'[c].op = call[c].op
        /\ \A d \in Procs : d # c => call'[d] = call[d]
    BY ZenonT(30), <1>1, <1>2, <2>1 DEF Call
  <2>5. TypeOK'
    BY ZenonT(30), <1>1, <1>7, <2>1, <2>3 DEF Shape, TypeOK
  <2>6. Calls'
    <3>1. CallOK(c)'
      BY SMTT(30), <1>1, <1>2, <1>8, <2>1, <2>4 DEF CallOK, Steps
    <3>2. ASSUME NEW d \in Procs, d # c PROVE CallOK(d)'
      BY <1>1, <2>1, <2>4, <3>2 DEF Shape, Calls, CallOK
    <3>3. QED
      BY ZenonT(30), <3>1, <3>2 DEF Calls
  <2>7. Holder' /\ Down'
    BY ZenonT(30), <1>1, <1>3, <2>1, <2>4 DEF Holder, Down, Shape, Steps
  <2>8. Logs'
    <3>1. Opened(c)' = Opened(c) \cup {SlotOf(n, p)}
      <4>1. (p + 1) - 1 = p
        BY <1>4
      <4>2. QED
        BY <1>5, <2>4, <4>1 DEF Opened
    <3>2. ASSUME NEW u \in Topics, NEW s \in Slots PROVE (logs[u][s] = IF OpenSlot(u, s) THEN 1 ELSE 0)'
      <4>1. CASE u = t
        BY <1>3, <1>6, <2>1, <2>4, <3>1, <4>1 DEF OpenSlot
      <4>2. CASE u # t
        BY <1>3, <1>6, <2>1, <2>4, <4>2 DEF OpenSlot, Shape, Logs
      <4>3. QED
        BY ZenonT(30), <4>1, <4>2
    <3>3. QED
      BY ZenonT(30), <3>2 DEF Logs
  <2>9. QED
    BY ZenonT(30), <2>5, <2>6, <2>7, <2>8 DEF Shape
<1>9. CASE ~(p + 1 < n)
  <2>1. /\ topics' = [topics EXCEPT ![t] = n] /\ rr' = [rr EXCEPT ![t] = 0]
        /\ told' = [told EXCEPT ![t] = @ \cup {n}] /\ entries' = entries \ {t}
        /\ mu' = Nobody /\ Proceed(c)
    BY ZenonT(30), <1>9 DEF OpenPartition, Unlock
  <2>2. TypeOK'
    <3>1. topics' \in [Topics -> 0..MaxParts]
      BY <1>2, <1>3, <1>4, <2>1, RegistryAssumption
    <3>2. rr' \in [Topics -> Nat] /\ told' \in [Topics -> SUBSET (1..MaxParts)] /\ entries' \in SUBSET Topics
      BY ZenonT(30), <1>3, <1>4, <2>1 DEF Shape, TypeOK
    <3>3. QED
      BY ZenonT(30), <1>1, <1>7, <2>1, <3>1, <3>2, ProceedFacts DEF Shape, TypeOK
  <2>3. topics'[t] = n /\ n > 0 /\ \A u \in Topics : u # t => topics'[u] = topics[u]
    BY <1>2, <1>3, <1>4, <2>1
  <2>4. Calls'
    <3>1. CallOK(c)'
      <4>1. CASE call'[c] = Idle
        BY ZenonT(30), <4>1, IdleOK
      <4>2. CASE call[c].op = "pub" /\ call'[c] = [call[c] EXCEPT !.pc = "route"]
        <5>1. /\ call'[c].pc = "route" /\ call'[c].topic = t /\ call'[c].op = call[c].op
          BY ZenonT(30), <1>2, <4>2 DEF Call
        <5>2. c # Main
          BY ZenonT(30), <1>2, <4>2 DEF CallOK
        <5>3. QED
          BY ZenonT(30), <1>1, <1>2, <2>3, <5>1, <5>2 DEF CallOK, Steps
      <4>3. QED
        BY ZenonT(30), <2>1, <4>1, <4>2, ProceedFacts
    <3>2. ASSUME NEW d \in Procs, d # c PROVE CallOK(d)'
      <4>1. call'[d] = call[d] /\ CallOK(d)
        BY ZenonT(30), <2>1, <3>2, ProceedFacts DEF Shape, Calls
      <4>2. call[d].pc \notin Steps
        BY ZenonT(30), <1>3, <3>2, <4>1 DEF CallOK
      <4>3. d = Main => call[d].pc = "idle"
        BY SMTT(30), <1>1, <1>2, <3>2, <4>1 DEF CallOK
      <4>4. call[d].pc = "route" => topics'[call[d].topic] > 0
        BY ZenonT(30), <2>3, <4>1, <1>2 DEF CallOK
      <4>5. QED
        BY ZenonT(30), <1>1, <4>1, <4>2, <4>3, <4>4 DEF CallOK
    <3>3. QED
      BY ZenonT(30), <3>1, <3>2 DEF Calls
  <2>5. Holder' /\ Down'
    BY <1>1, <1>2, <2>1 DEF Holder, Down, CallOK
  <2>6. Logs'
    <3>1. SlotsOf(n) = Opened(c) \cup {SlotOf(n, p)}
      <4>1. n - 1 = p
        BY SMTT(30), <1>4, <1>9
      <4>2. QED
        BY ZenonT(30), <1>5, <4>1 DEF SlotsOf
    <3>2. ASSUME NEW u \in Topics, NEW s \in Slots PROVE (logs[u][s] = IF OpenSlot(u, s) THEN 1 ELSE 0)'
      <4>1. CASE u = t
        <5>1. OpenSlot(u, s)' <=> s \in SlotsOf(n)
          BY ZenonT(30), <2>3, <4>1 DEF OpenSlot
        <5>2. logs'[u][s] = IF s \in SlotsOf(n) THEN 1 ELSE 0
          BY ZenonT(30), <1>6, <3>1, <4>1
        <5>3. QED
          BY ZenonT(30), <5>1, <5>2
      <4>2. CASE u # t
        <5>1. OpenSlot(u, s) <=> topics[u] > 0 /\ s \in SlotsOf(topics[u])
          BY ZenonT(30), <1>3, <4>2 DEF OpenSlot
        <5>2. OpenSlot(u, s)' <=> topics'[u] > 0 /\ s \in SlotsOf(topics'[u])
          BY ZenonT(30), <2>1 DEF OpenSlot
        <5>3. OpenSlot(u, s)' <=> OpenSlot(u, s)
          BY ZenonT(30), <2>3, <4>2, <5>1, <5>2
        <5>4. logs'[u][s] = IF OpenSlot(u, s) THEN 1 ELSE 0
          BY <1>6, <4>2 DEF Shape, Logs
        <5>5. QED
          BY <5>3, <5>4
      <4>3. QED
        BY ZenonT(30), <4>1, <4>2
    <3>3. QED
      BY ZenonT(30), <3>2 DEF Logs
  <2>7. QED
    BY ZenonT(30), <2>2, <2>4, <2>5, <2>6 DEF Shape
<1>10. QED
  BY ZenonT(30), <1>8, <1>9

LEMMA IOErrorShape ==
  ASSUME Shape, NEW c \in Procs, IOError(c), UNCHANGED setup
  PROVE  Shape'
<1>1. /\ call[c].pc \in Steps /\ UNCHANGED <<stored, told, stops>>
      /\ Fail(c, IF call[c].pc = "open" THEN Opened(c) ELSE {})
  BY ZenonT(30) DEF IOError, Steps
<1>2. CallOK(c) /\ call[c] \in Call
  BY ZenonT(30) DEF Shape, TypeOK, Calls
<1>3. mu = c /\ topics[call[c].topic] = 0 /\ call[c].pc # "idle"
  BY ZenonT(30), <1>1, <1>2 DEF CallOK, Steps
<1>4. (IF call[c].pc = "open" THEN Opened(c) ELSE {}) = Opened(c)
  <2>1. call[c].pc # "open" => call[c].next = 0
    BY <1>1, <1>2 DEF CallOK, Steps
  <2>2. call[c].next = 0 => 0..call[c].next - 1 = {}
    BY SMTT(30)
  <2>3. QED
    BY ZenonT(30), <2>1, <2>2 DEF Opened
<1>5. made' \in [Topics -> BOOLEAN] /\ meta' \in [Topics -> NoMeta..MaxParts]
  <2>1. call[c].count \in NoMeta..MaxParts
    BY SMTT(30), <1>2, RegistryAssumption DEF NoMeta, Call
  <2>2. QED
    BY ZenonT(30), <2>1 DEF IOError, Shape, TypeOK
<1>6. QED
  BY ZenonT(30), <1>1, <1>3, <1>4, <1>5, FailShape

LEMMA PublishShape ==
  ASSUME Shape, NEW c \in Procs, Publish(c), UNCHANGED setup
  PROVE  Shape'
<1> DEFINE t == call[c].topic
           n == topics[t]
<1>1. /\ call[c].pc = "route" /\ Return(c)
      /\ UNCHANGED <<made, meta, phase, default, entries, topics, logs, mu, told, stops>>
  BY DEF Publish
<1>2. call[c] \in Call /\ t \in Topics /\ n \in 1..MaxParts
  <2>1. call[c] \in Call /\ CallOK(c) /\ topics \in [Topics -> 0..MaxParts]
    BY ZenonT(30) DEF Shape, TypeOK, Calls
  <2>2. t \in Topics /\ n > 0
    BY ZenonT(30), <1>1, <2>1 DEF CallOK
  <2>3. n \in 0..MaxParts
    BY ZenonT(30), <2>1, <2>2
  <2>4. QED
    BY <2>1, <2>2, <2>3, RegistryAssumption
<1>3. rr' \in [Topics -> Nat]
  <2>1. rr \in [Topics -> Nat]
    BY ZenonT(30) DEF Shape, TypeOK
  <2>2. rr[t] \in Nat /\ n \in Nat \ {0}
    BY <1>2, <2>1, RegistryAssumption
  <2>3. (rr[t] + 1) % n \in Nat
    BY SMTT(30), <2>2
  <2>4. rr' = rr \/ rr' = [rr EXCEPT ![t] = (rr[t] + 1) % n]
    BY SMTT(30) DEF Publish
  <2>5. QED
    BY ZenonT(30), <1>2, <2>1, <2>3, <2>4
<1>4. stored' \in [Topics -> SUBSET (Slots \X Keys)]
  <2>1. stored \in [Topics -> SUBSET (Slots \X Keys)] /\ call[c].key \in Keys /\ RoutedBy(c) \in Keys
    <3>1. stored \in [Topics -> SUBSET (Slots \X Keys)]
      BY ZenonT(30) DEF Shape, TypeOK
    <3>2. call[c].key \in Keys
      BY ZenonT(30), <1>2 DEF Call
    <3>3. QED
      BY ZenonT(30), <3>1, <3>2 DEF RoutedBy, Keys
  <2>2. InRange(Route(c), n) => SlotOf(n, Route(c)) \in Slots
    <3>1. Route(c) \in Nat
      <4>1. call[c].part \in Nat \/ call[c].part = NoPart
        BY <1>2 DEF Call
      <4>2. call[c].key # NoKey => Hash[call[c].key] % n \in Nat
        BY <1>2, <2>1, RegistryAssumption DEF Keys
      <4>3. rr[t] % n \in Nat
        <5>1. rr[t] \in Nat
          BY ZenonT(30), <1>2 DEF Shape, TypeOK
        <5>2. QED
          BY <1>2, <5>1, RegistryAssumption
      <4>4. QED
        BY <4>1, <4>2, <4>3 DEF Route
    <3>2. QED
      BY ZenonT(30), <1>2, <3>1, SlotFacts DEF InRange
  <2>3. CASE InRange(Route(c), n)
    <3>1. stored' = [stored EXCEPT ![t] = @ \cup {<<SlotOf(n, Route(c)), RoutedBy(c)>>}]
      BY <2>3 DEF Publish
    <3>2. QED
      <4>1. <<SlotOf(n, Route(c)), RoutedBy(c)>> \in Slots \X Keys
        BY ZenonT(30), <2>1, <2>2, <2>3
      <4>2. stored[t] \cup {<<SlotOf(n, Route(c)), RoutedBy(c)>>} \in SUBSET (Slots \X Keys)
        BY ZenonT(30), <1>2, <2>1, <4>1
      <4>3. QED
        BY ZenonT(30), <1>2, <2>1, <3>1, <4>2
  <2>4. CASE ~InRange(Route(c), n)
    <3>1. stored' = stored
      BY <2>4 DEF Publish
    <3>2. QED
      BY ZenonT(30), <2>1, <3>1
  <2>5. QED
    BY <2>3, <2>4
<1>5. TypeOK'
  BY ZenonT(30), <1>1, <1>3, <1>4, ReturnFacts DEF Shape, TypeOK
<1>6. CallOK(c)' /\ call[c].pc \notin Steps /\ call'[c].pc \notin Steps
  BY <1>1, ReturnFacts, IdleOK DEF Steps, Idle
<1>7. QED
  BY SMTT(30), <1>1, <1>5, <1>6, ReturnFacts, QuietShape

LEMMA StartShape ==
  ASSUME Shape, Start, UNCHANGED setup
  PROVE  Shape'
<1>1. /\ phase = "down" /\ phase' = "starting" /\ default' \in setup.defaults
      /\ entries' = {t \in Topics : made[t]}
      /\ UNCHANGED <<made, meta, stored, topics, logs, rr, mu, call, told, stops>>
  BY ZenonT(30) DEF Start, diskVars
<1>2. TypeOK'
  <2>1. setup.defaults \subseteq 1..MaxParts
    BY ZenonT(30), RegistryAssumption DEF Shape, TypeOK, SetupType
  <2>2. QED
    BY ZenonT(30), <1>1, <2>1 DEF Shape, TypeOK
<1>3. \A c \in Procs : CallOK(c) /\ call[c].pc = "idle"
  BY ZenonT(30), <1>1 DEF Shape, Calls, CallOK
<1>4. Calls'
  BY ZenonT(30), <1>1, <1>3 DEF Calls, CallOK, Steps
<1>5. Holder' /\ Down'
  BY ZenonT(30), <1>1 DEF Shape, Holder, Down
<1>6. Logs'
  <2>1. ASSUME NEW t \in Topics, NEW s \in Slots PROVE OpenSlot(t, s)' = OpenSlot(t, s)
    BY ZenonT(30), <1>1 DEF OpenSlot, Opened
  <2>2. QED
    BY ZenonT(30), <1>1, <2>1 DEF Shape, Logs
<1>7. QED
  BY ZenonT(30), <1>2, <1>4, <1>5, <1>6 DEF Shape

LEMMA ServeShape ==
  ASSUME Shape, Serve, UNCHANGED setup
  PROVE  Shape'
<1>1. /\ phase = "starting" /\ entries = {} /\ phase' = "up"
      /\ UNCHANGED <<made, meta, stored, default, entries, topics, logs, rr, mu, call, told, stops>>
  BY ZenonT(30) DEF Serve, diskVars
<1>2. TypeOK'
  BY ZenonT(30), <1>1 DEF Shape, TypeOK
<1>3. \A c \in Procs : CallOK(c) /\ call[c].pc = "idle"
  BY SMTT(30), <1>1 DEF Shape, Calls, CallOK
<1>4. Calls'
  BY ZenonT(30), <1>1, <1>3 DEF Calls, CallOK, Steps
<1>5. Holder' /\ Down'
  BY ZenonT(30), <1>1 DEF Shape, Holder, Down
<1>6. Logs'
  <2>1. ASSUME NEW t \in Topics, NEW s \in Slots PROVE OpenSlot(t, s)' = OpenSlot(t, s)
    BY ZenonT(30), <1>1 DEF OpenSlot, Opened
  <2>2. QED
    BY ZenonT(30), <1>1, <2>1 DEF Shape, Logs
<1>7. QED
  BY ZenonT(30), <1>2, <1>4, <1>5, <1>6 DEF Shape

LEMMA StoppedShape ==
  ASSUME Shape, Kill \/ Close \/ PowerLoss, UNCHANGED setup
  PROVE  Shape'
<1>1. Stopped /\ UNCHANGED <<made, stored>> /\ meta' \in [Topics -> NoMeta..MaxParts]
  BY ZenonT(30) DEF Kill, Close, PowerLoss, diskVars, Shape, TypeOK
<1>2. /\ Exit /\ mu' = Nobody /\ call' = [c \in Procs |-> Idle] /\ stops' = stops + 1
      /\ told' = told
  BY ZenonT(30), <1>1 DEF Stopped, Unlock
<1>3. call' \in [Procs -> Call] /\ stops' \in Nat /\ made' \in [Topics -> BOOLEAN]
  BY <1>1, <1>2, NobodyFacts DEF IdleTyped, Shape, TypeOK
<1>4. \A c \in Procs : call'[c].pc = "idle" /\ call'[c].next = 0 /\ (c = Main => call'[c].op # "pub")
  BY ZenonT(30), <1>2 DEF Idle
<1>5. QED
  BY ZenonT(30), <1>1, <1>2, <1>3, <1>4, ExitShape

LEMMA ShapeStep == Shape /\ [Next]_vars => Shape'
<1> SUFFICES ASSUME Shape, [Next]_vars PROVE Shape'
  BY ZenonT(30)
<1>1. CASE UNCHANGED vars
  BY SMTT(30), <1>1 DEF vars, state, diskVars, memVars, Shape, TypeOK, Calls, CallOK, Holder, Down, Logs, OpenSlot, Opened
<1>2. ASSUME NEW c \in Procs, Request(c) \/ Look(c) \/ Lock(c) \/ Open(c) \/ Publish(c), UNCHANGED setup
      PROVE  Shape'
  BY ZenonT(30), <1>2, RequestShape, LookShape, LockShape, MetaStepsShape, OpenPartitionShape, IOErrorShape,
     PublishShape DEF Open
<1>3. ASSUME Recover \/ Start \/ Serve \/ Kill \/ Close \/ PowerLoss, UNCHANGED setup
      PROVE  Shape'
  BY ZenonT(30), <1>3, RecoverShape, StartShape, ServeShape, StoppedShape
<1>4. QED
  BY ZenonT(30), <1>1, <1>2, <1>3 DEF Next

----------------------------------------------------------------------------
(* Shape is an invariant. *)

LEMMA ShapeInvariant == Spec => []Shape
<1>1. QED
  BY ShapeInit, ShapeStep, PTL DEF Spec

\* However many callers, topics and partitions: the registry's state has its type.
THEOREM TypeCorrect == Spec => []TypeOK
<1>1. Shape => TypeOK
  BY ZenonT(30) DEF Shape
<1>2. QED
  BY <1>1, ShapeInvariant, PTL

\* However many callers meet at a topic, whatever fails and whenever the process stops, a
\* partition's directory has at most one open Log, and an open topic one per partition.
THEOREM LogsUnique == Spec => []OneLogEach
<1>1. Shape => OneLogEach
  <2> SUFFICES ASSUME Shape, NEW t \in Topics
               PROVE  /\ \A s \in Slots : logs[t][s] <= 1
                      /\ topics[t] > 0 => \A s \in Slots : logs[t][s] = 1 <=> s \in SlotsOf(topics[t])
    BY ZenonT(30) DEF OneLogEach
  <2>1. \A s \in Slots : logs[t][s] = IF OpenSlot(t, s) THEN 1 ELSE 0
    BY ZenonT(30) DEF Shape, Logs
  <2>2. QED
    BY SMTT(30), <2>1 DEF OpenSlot
<1>2. QED
  BY <1>1, ShapeInvariant, PTL

----------------------------------------------------------------------------
(* Directories and records *)

\* What openTopicLocked has done to the directory of the topic it opens.
Opening ==
    mu # Nobody =>
      LET t == call[mu].topic
          n == call[mu].count
      IN  /\ call[mu].pc # "open" => told[t] = {} /\ n > 1
          /\ call[mu].pc = "mkdir" => ~made[t]
          /\ call[mu].pc = "create" => made[t] /\ meta[t] = NoMeta
          /\ call[mu].pc = "write" => made[t] /\ meta[t] = Torn
          /\ call[mu].pc = "open" => meta[t] # Torn /\ DiskCount(t) = n

Untouched == \A t \in Topics : ~made[t] => meta[t] = NoMeta /\ told[t] = {}

Promised ==
    \A t \in Topics :
      /\ \A n \in told[t] : meta[t] # Torn /\ DiskCount(t) = n
      /\ topics[t] > 0 => topics[t] \in told[t]

Placed ==
    \A t \in Topics : \A r \in stored[t] :
      \E n \in told[t] : /\ r[1] \in SlotsOf(n)
                         /\ r[2] # NoKey => r[1] = SlotOf(n, Hash[r[2]] % n)

OnDisk == Opening /\ Untouched /\ Promised /\ Placed

Kept == ~Powered => OnDisk

----------------------------------------------------------------------------
(* Every step without a power failure keeps what is on disk in order. *)

LEMMA KeptInit == Init => Kept
<1> SUFFICES ASSUME Init PROVE OnDisk
  BY ZenonT(30) DEF Kept
<1>1. Opening /\ Untouched /\ Placed
  BY ZenonT(30) DEF Init, Opening, Untouched, Placed
<1>2. Promised
  BY DEF Init, Promised
<1>3. QED
  BY ZenonT(30), <1>1, <1>2 DEF OnDisk

\* A step that leaves the disk alone.
LEMMA IdleDisk ==
  ASSUME OnDisk, UNCHANGED <<made, meta, stored, told>>,
         \A t \in Topics : topics'[t] \in {0, topics[t]}, Opening'
  PROVE  OnDisk'
<1>1. Untouched' /\ Placed'
  BY ZenonT(30) DEF OnDisk, Untouched, Placed
<1>2. \A t \in Topics : DiskCount(t)' = DiskCount(t)
  BY ZenonT(30) DEF DiskCount
<1>3. Promised'
  BY <1>2 DEF OnDisk, Promised
<1>4. QED
  BY ZenonT(30), <1>1, <1>3 DEF OnDisk

\* A step of a call that does not hold b.mu, before or after.
LEMMA QuietDisk ==
  ASSUME Shape, OnDisk, UNCHANGED <<made, meta, stored, told, topics, mu>>, NEW c \in Procs,
         call[c].pc \notin Steps, \A d \in Procs : d # c => call'[d] = call[d]
  PROVE  OnDisk'
<1>1. mu # Nobody => mu \in Procs /\ call'[mu] = call[mu]
  BY ZenonT(30) DEF Shape, TypeOK, Holder
<1>2. Opening'
  BY ZenonT(30), <1>1 DEF OnDisk, Opening, DiskCount
<1>3. QED
  BY ZenonT(30), <1>2, IdleDisk

LEMMA BeginDisk ==
  ASSUME Shape, OnDisk, NEW c \in Procs, NEW op, NEW t, NEW want, NEW key, NEW part,
         Begin(c, op, t, want, key, part)
  PROVE  OnDisk'
<1>1. /\ call[c] = Idle /\ UNCHANGED <<made, meta, stored, told, topics, mu>>
      /\ \A d \in Procs : d # c => call'[d] = call[d]
  BY ZenonT(30) DEF Begin, diskVars, memVars, Shape, TypeOK
<1>2. call[c].pc \notin Steps
  BY <1>1 DEF Idle, Steps
<1>3. QED
  BY ZenonT(30), <1>1, <1>2, QuietDisk

LEMMA LookDisk ==
  ASSUME Shape, OnDisk, NEW c \in Procs, Look(c)
  PROVE  OnDisk'
<1>1. call[c].pc = "look" /\ UNCHANGED <<made, meta, stored, told, topics, mu>>
  BY ZenonT(30) DEF Look, diskVars, memVars
<1>2. \A d \in Procs : d # c => call'[d] = call[d]
  BY ZenonT(30), ProceedFacts DEF Look, Shape, TypeOK
<1>3. QED
  BY ZenonT(30), <1>1, <1>2, QuietDisk DEF Steps

\* A failed open, after a disk step that may have happened or not.
LEMMA FailDisk ==
  ASSUME Shape, OnDisk, NEW c \in Procs, NEW closed, Fail(c, closed), UNCHANGED <<made, meta, stored, told>>
  PROVE  OnDisk'
<1>1. mu' = Nobody
  BY ZenonT(30) DEF Fail, Unlock
<1>2. \A t \in Topics : topics'[t] \in {0, topics[t]}
  BY ZenonT(30) DEF Fail, Exit
<1>3. QED
  BY ZenonT(30), <1>1, <1>2, IdleDisk DEF Opening

LEMMA LockDisk ==
  ASSUME Shape, OnDisk, NEW c \in Procs, Lock(c)
  PROVE  OnDisk'
<1> DEFINE t == call[c].topic
<1>1. /\ call[c].pc = "lock" /\ mu = Nobody /\ t \in Topics
      /\ UNCHANGED <<made, meta, stored, told>>
  BY ZenonT(30) DEF Lock, diskVars, Shape, Calls, CallOK
<1>2. CASE UNCHANGED <<mu, memVars>> /\ (Return(c) \/ Proceed(c))
  <2>1. UNCHANGED <<topics, mu>>
    BY ZenonT(30), <1>2 DEF memVars
  <2>2. \A d \in Procs : d # c => call'[d] = call[d]
    BY ZenonT(30), <1>2, ReturnFacts, ProceedFacts
  <2>3. QED
    BY ZenonT(30), <1>1, <2>1, <2>2, QuietDisk DEF Steps
<1>3. CASE Fail(c, {})
  BY ZenonT(30), <1>1, <1>3, FailDisk
<1>4. CASE ~Refused(c, t) /\ mu' = c /\ UNCHANGED memVars
           /\ call' = [call EXCEPT ![c].pc = IF NeedsMeta(c, t) THEN "mkdir" ELSE "open",
                                   ![c].count = Count(c, t)]
  <2>1. call \in [Procs -> Call] /\ call[c] \in Call
    BY ZenonT(30) DEF Shape, TypeOK
  <2>2. /\ call'[c].pc = IF NeedsMeta(c, t) THEN "mkdir" ELSE "open"
        /\ call'[c].count = Count(c, t) /\ call'[c].topic = t /\ mu' = c
    BY ZenonT(30), <1>4, <2>1 DEF Call
  <2>3. topics' = topics /\ \A u \in Topics : topics'[u] \in {0, topics[u]}
    BY ZenonT(30), <1>4 DEF memVars
  <2>4. Count(c, t) \in Nat \ {0}
    BY <1>1, <2>1, RegistryAssumption DEF Count, DiskCount, Shape, TypeOK, Call, NoMeta
  <2>5. meta[t] # Torn /\ (~made[t] => meta[t] = NoMeta /\ told[t] = {})
    BY ZenonT(30), <1>1, <1>4 DEF OnDisk, Untouched, Refused, Unreadable
  <2>6. CASE NeedsMeta(c, t)
    <3>1. ~made[t] /\ Count(c, t) > 1
      BY ZenonT(30), <2>6 DEF NeedsMeta, Exists
    <3>2. Opening'
      BY ZenonT(30), <1>1, <2>2, <2>5, <2>6, <3>1 DEF Opening
    <3>3. QED
      BY ZenonT(30), <1>1, <2>3, <3>2, IdleDisk
  <2>7. CASE ~NeedsMeta(c, t)
    <3>1. DiskCount(t) = Count(c, t)
      <4>1. CASE made[t]
        BY ZenonT(30), <4>1 DEF Count, Exists
      <4>2. CASE ~made[t]
        <5>1. Count(c, t) = 1
          BY <2>4, <2>7, <4>2 DEF NeedsMeta, Exists
        <5>2. QED
          BY <2>5, <4>2, <5>1 DEF DiskCount, NoMeta
      <4>3. QED
        BY ZenonT(30), <4>1, <4>2
    <3>2. Opening'
      BY ZenonT(30), <1>1, <2>2, <2>5, <2>7, <3>1 DEF Opening, DiskCount
    <3>3. QED
      BY ZenonT(30), <1>1, <2>3, <3>2, IdleDisk
  <2>8. QED
    BY ZenonT(30), <2>6, <2>7
<1>5. QED
  BY ZenonT(30), <1>2, <1>3, <1>4 DEF Lock

\* A step of the holder of b.mu, in the directory of its topic.
LEMMA HolderDisk ==
  ASSUME OnDisk, NEW t \in Topics, stored' = stored, told[t] \subseteq told'[t],
         \A u \in Topics : u # t => /\ made'[u] = made[u] /\ meta'[u] = meta[u] /\ told'[u] = told[u]
                                    /\ topics'[u] \in {0, topics[u]},
         made'[t] \/ (made'[t] = made[t] /\ meta'[t] = meta[t] /\ told'[t] = told[t]),
         \A n \in told'[t] : meta'[t] # Torn /\ n = IF meta'[t] > 0 THEN meta'[t] ELSE 1,
         topics'[t] > 0 => topics'[t] \in told'[t], Opening'
  PROVE  OnDisk'
<1>1. Untouched'
  BY ZenonT(30) DEF OnDisk, Untouched
<1>2. Promised'
  <2>1. ASSUME NEW u \in Topics, u # t
        PROVE  /\ \A n \in told'[u] : meta'[u] # Torn /\ n = IF meta'[u] > 0 THEN meta'[u] ELSE 1
               /\ topics'[u] > 0 => topics'[u] \in told'[u]
    BY <2>1 DEF OnDisk, Promised, DiskCount
  <2>2. QED
    BY ZenonT(30), <2>1 DEF Promised, DiskCount
<1>3. Placed'
  <2>1. \A u \in Topics : told[u] \subseteq told'[u]
    BY ZenonT(30)
  <2>2. QED
    BY ZenonT(30), <2>1 DEF OnDisk, Placed
<1>4. QED
  BY ZenonT(30), <1>1, <1>2, <1>3 DEF OnDisk

\* What is known of the holder.
LEMMA HolderFacts ==
  ASSUME Shape, OnDisk, NEW c \in Procs, call[c].pc \in Steps, NEW t, t = call[c].topic
  PROVE  /\ mu = c /\ mu # Nobody /\ t \in Topics /\ topics[t] = 0
         /\ call \in [Procs -> Call] /\ made \in [Topics -> BOOLEAN]
         /\ meta \in [Topics -> NoMeta..MaxParts] /\ call[c].count \in 1..MaxParts
         /\ call[c].pc # "open" => told[t] = {} /\ call[c].count > 1
         /\ call[c].pc = "mkdir" => ~made[t]
         /\ call[c].pc = "create" => made[t] /\ meta[t] = NoMeta
         /\ call[c].pc = "write" => made[t] /\ meta[t] = Torn
         /\ call[c].pc = "open" => meta[t] # Torn /\ DiskCount(t) = call[c].count
<1>1. /\ mu = c /\ mu # Nobody /\ t \in Topics /\ topics[t] = 0
      /\ call \in [Procs -> Call] /\ made \in [Topics -> BOOLEAN]
      /\ meta \in [Topics -> NoMeta..MaxParts] /\ call[c].count > 0
  BY ZenonT(30), NobodyFacts DEF Shape, TypeOK, Calls, CallOK, Steps
<1>2. call[c].count \in 1..MaxParts
  BY <1>1, RegistryAssumption DEF Call
<1>3. QED
  BY ZenonT(30), <1>1, <1>2 DEF OnDisk, Opening

LEMMA MkdirDisk ==
  ASSUME Shape, OnDisk, NEW c \in Procs, Mkdir(c)
  PROVE  OnDisk'
<1>1. /\ call[c].pc = "mkdir" /\ call' = [call EXCEPT ![c].pc = "create"]
      /\ made' = [made EXCEPT ![call[c].topic] = TRUE]
      /\ UNCHANGED <<meta, stored, topics, mu, told>>
  BY ZenonT(30) DEF Mkdir, memVars
<1>2. PICK t : t = call[c].topic
  BY ZenonT(30)
<1>3. call[c].pc \in Steps
  BY ZenonT(30), <1>1 DEF Steps
<1>4. /\ mu = c /\ t \in Topics /\ topics[t] = 0 /\ call \in [Procs -> Call] /\ made \in [Topics -> BOOLEAN]
      /\ told[t] = {} /\ call[c].count > 1 /\ ~made[t]
  BY ZenonT(30), <1>1, <1>2, <1>3, HolderFacts
<1>5. call'[c].pc = "create" /\ call'[c].topic = t /\ call'[c].count = call[c].count
  BY <1>1, <1>2, <1>4 DEF Call
<1>6. made'[t] /\ \A u \in Topics : u # t => made'[u] = made[u]
  BY ZenonT(30), <1>1, <1>2, <1>4
<1>7. meta[t] = NoMeta
  BY ZenonT(30), <1>4 DEF OnDisk, Untouched
<1>8. Opening'
  BY ZenonT(30), <1>1, <1>4, <1>5, <1>6, <1>7 DEF Opening
<1>9. /\ \A u \in Topics : meta'[u] = meta[u] /\ told'[u] = told[u] /\ topics'[u] \in {0, topics[u]}
      /\ stored' = stored /\ told[t] \subseteq told'[t] /\ told'[t] = {} /\ ~(topics'[t] > 0)
  BY <1>1, <1>4, <1>6
<1>10. QED
  BY ZenonT(30), <1>4, <1>6, <1>8, <1>9, HolderDisk

LEMMA MetaCreateDisk ==
  ASSUME Shape, OnDisk, NEW c \in Procs, MetaCreate(c)
  PROVE  OnDisk'
<1>1. /\ call[c].pc = "create" /\ call' = [call EXCEPT ![c].pc = "write"]
      /\ meta' = [meta EXCEPT ![call[c].topic] = Torn]
      /\ UNCHANGED <<made, stored, topics, mu, told>>
  BY ZenonT(30) DEF MetaCreate, memVars
<1>2. PICK t : t = call[c].topic
  BY ZenonT(30)
<1>3. call[c].pc \in Steps
  BY ZenonT(30), <1>1 DEF Steps
<1>4. /\ mu = c /\ t \in Topics /\ topics[t] = 0 /\ call \in [Procs -> Call]
      /\ meta \in [Topics -> NoMeta..MaxParts] /\ told[t] = {} /\ call[c].count > 1 /\ made[t]
  BY ZenonT(30), <1>1, <1>2, <1>3, HolderFacts
<1>5. call'[c].pc = "write" /\ call'[c].topic = t /\ call'[c].count = call[c].count
  BY <1>1, <1>2, <1>4 DEF Call
<1>6. meta'[t] = Torn /\ \A u \in Topics : u # t => meta'[u] = meta[u]
  BY ZenonT(30), <1>1, <1>2, <1>4
<1>7. Opening'
  BY ZenonT(30), <1>1, <1>4, <1>5, <1>6 DEF Opening
<1>8. QED
  BY <1>1, <1>4, <1>6, <1>7, HolderDisk

LEMMA MetaWriteDisk ==
  ASSUME Shape, OnDisk, NEW c \in Procs, MetaWrite(c)
  PROVE  OnDisk'
<1>1. /\ call[c].pc = "write" /\ call' = [call EXCEPT ![c].pc = "open"]
      /\ meta' = [meta EXCEPT ![call[c].topic] = call[c].count]
      /\ UNCHANGED <<made, stored, topics, mu, told>>
  BY ZenonT(30) DEF MetaWrite, memVars
<1>2. PICK t : t = call[c].topic
  BY ZenonT(30)
<1>3. call[c].pc \in Steps
  BY ZenonT(30), <1>1 DEF Steps
<1>4. /\ mu = c /\ t \in Topics /\ topics[t] = 0 /\ call \in [Procs -> Call]
      /\ meta \in [Topics -> NoMeta..MaxParts] /\ told[t] = {} /\ made[t]
      /\ call[c].count \in 1..MaxParts
  BY ZenonT(30), <1>1, <1>2, <1>3, HolderFacts
<1>5. call'[c].pc = "open" /\ call'[c].topic = t /\ call'[c].count = call[c].count
  BY <1>1, <1>2, <1>4 DEF Call
<1>6. meta'[t] = call[c].count /\ \A u \in Topics : u # t => meta'[u] = meta[u]
  BY ZenonT(30), <1>1, <1>2, <1>4
<1>7. Opening'
  BY <1>1, <1>4, <1>5, <1>6 DEF Opening, DiskCount, Torn
<1>8. QED
  BY <1>1, <1>4, <1>6, <1>7, HolderDisk

LEMMA OpenPartitionDisk ==
  ASSUME Shape, OnDisk, NEW c \in Procs, OpenPartition(c)
  PROVE  OnDisk'
<1>1. /\ call[c].pc = "open" /\ made' = [made EXCEPT ![call[c].topic] = TRUE]
      /\ UNCHANGED <<meta, stored>>
  BY ZenonT(30) DEF OpenPartition
<1>2. PICK t : t = call[c].topic
  BY ZenonT(30)
<1>3. call[c].pc \in Steps
  BY ZenonT(30), <1>1 DEF Steps
<1>4. /\ mu = c /\ t \in Topics /\ topics[t] = 0 /\ call \in [Procs -> Call] /\ made \in [Topics -> BOOLEAN]
      /\ meta[t] # Torn /\ DiskCount(t) = call[c].count /\ call[c].count \in 1..MaxParts
  BY ZenonT(30), <1>1, <1>2, <1>3, HolderFacts
<1>5. made'[t] /\ \A u \in Topics : u # t => made'[u] = made[u]
  BY ZenonT(30), <1>1, <1>2, <1>4
<1>6. \A n \in told[t] : meta[t] # Torn /\ n = IF meta[t] > 0 THEN meta[t] ELSE 1
  BY ZenonT(30), <1>4 DEF OnDisk, Promised, DiskCount
<1>7. CASE call[c].next + 1 < call[c].count
  <2>1. call' = [call EXCEPT ![c].next = call[c].next + 1] /\ UNCHANGED <<mu, topics, told>>
    BY ZenonT(30), <1>7 DEF OpenPartition
  <2>2. call'[c].pc = "open" /\ call'[c].topic = t /\ call'[c].count = call[c].count
    BY <1>1, <1>2, <1>4, <2>1 DEF Call
  <2>3. Opening'
    BY ZenonT(30), <1>1, <1>4, <2>1, <2>2 DEF Opening, DiskCount
  <2>4. /\ \A u \in Topics : meta'[u] = meta[u] /\ told'[u] = told[u] /\ topics'[u] \in {0, topics[u]}
        /\ stored' = stored /\ told[t] \subseteq told'[t] /\ ~(topics'[t] > 0)
        /\ \A n \in told'[t] : meta'[t] # Torn /\ n = IF meta'[t] > 0 THEN meta'[t] ELSE 1
    BY <1>1, <1>4, <1>5, <1>6, <2>1
  <2>5. QED
    BY ZenonT(30), <1>4, <1>5, <2>3, <2>4, HolderDisk
<1>8. CASE ~(call[c].next + 1 < call[c].count)
  <2>1. /\ topics' = [topics EXCEPT ![call[c].topic] = call[c].count]
        /\ told' = [told EXCEPT ![call[c].topic] = @ \cup {call[c].count}] /\ mu' = Nobody
    BY ZenonT(30), <1>8 DEF OpenPartition, Unlock
  <2>2. topics \in [Topics -> 0..MaxParts] /\ told \in [Topics -> SUBSET (1..MaxParts)]
    BY ZenonT(30) DEF Shape, TypeOK
  <2>3. /\ topics'[t] = call[c].count /\ told'[t] = told[t] \cup {call[c].count}
        /\ \A u \in Topics : u # t => topics'[u] = topics[u] /\ told'[u] = told[u]
    BY ZenonT(30), <1>2, <1>4, <2>1, <2>2
  <2>4. \A n \in told'[t] : meta'[t] # Torn /\ n = IF meta'[t] > 0 THEN meta'[t] ELSE 1
    BY ZenonT(30), <1>1, <1>4, <1>6, <2>3 DEF DiskCount
  <2>5. Opening'
    BY ZenonT(30), <2>1 DEF Opening
  <2>6. QED
    BY ZenonT(30), <1>1, <1>4, <1>5, <2>3, <2>4, <2>5, HolderDisk
<1>9. QED
  BY ZenonT(30), <1>7, <1>8

LEMMA IOErrorDisk ==
  ASSUME Shape, OnDisk, NEW c \in Procs, IOError(c)
  PROVE  OnDisk'
<1>1. /\ call[c].pc \in Steps /\ UNCHANGED <<stored, told>>
      /\ Fail(c, IF call[c].pc = "open" THEN Opened(c) ELSE {})
      /\ \/ UNCHANGED <<made, meta>>
         \/ call[c].pc = "open" /\ made' = [made EXCEPT ![call[c].topic] = TRUE] /\ UNCHANGED meta
         \/ call[c].pc = "write" /\ meta' = [meta EXCEPT ![call[c].topic] = call[c].count] /\ UNCHANGED made
  BY ZenonT(30) DEF IOError, Steps
<1>2. PICK t : t = call[c].topic
  BY ZenonT(30)
<1>3. /\ t \in Topics /\ topics[t] = 0 /\ made \in [Topics -> BOOLEAN]
      /\ meta \in [Topics -> NoMeta..MaxParts]
      /\ call[c].pc = "write" => made[t] /\ told[t] = {}
  BY ZenonT(30), <1>1, <1>2, HolderFacts
<1>4. mu' = Nobody /\ Opening'
  BY ZenonT(30), <1>1 DEF Fail, Unlock, Opening
<1>5. \A u \in Topics : topics'[u] \in {0, topics[u]}
  BY ZenonT(30), <1>1 DEF Fail, Exit
<1>6. ~(topics'[t] > 0)
  BY <1>3, <1>5
<1>7. CASE UNCHANGED <<made, meta>>
  BY ZenonT(30), <1>1, <1>7, FailDisk
<1>8. CASE made' = [made EXCEPT ![call[c].topic] = TRUE] /\ UNCHANGED meta
  <2>1. made'[t] /\ \A u \in Topics : u # t => made'[u] = made[u]
    BY ZenonT(30), <1>2, <1>3, <1>8
  <2>2. /\ \A u \in Topics : meta'[u] = meta[u] /\ told'[u] = told[u]
        /\ stored' = stored /\ told[t] \subseteq told'[t]
        /\ \A n \in told'[t] : meta'[t] # Torn /\ n = IF meta'[t] > 0 THEN meta'[t] ELSE 1
    BY ZenonT(30), <1>1, <1>3, <1>8 DEF OnDisk, Promised, DiskCount
  <2>3. QED
    BY ZenonT(30), <1>3, <1>4, <1>5, <1>6, <2>1, <2>2, HolderDisk
<1>9. CASE call[c].pc = "write" /\ meta' = [meta EXCEPT ![call[c].topic] = call[c].count] /\ UNCHANGED made
  <2>1. \A u \in Topics : u # t => meta'[u] = meta[u]
    BY ZenonT(30), <1>2, <1>3, <1>9
  <2>2. /\ \A u \in Topics : told'[u] = told[u]
        /\ stored' = stored /\ told'[t] = {} /\ told[t] \subseteq told'[t]
    BY ZenonT(30), <1>1, <1>3, <1>9
  <2>3. made'[t] /\ \A u \in Topics : made'[u] = made[u]
    BY Zenon, <1>3, <1>9
  <2>4. QED
    BY ZenonT(30), <1>3, <1>4, <1>5, <1>6, <2>1, <2>2, <2>3, HolderDisk
<1>10. QED
  BY ZenonT(30), <1>1, <1>7, <1>8, <1>9

LEMMA PublishDisk ==
  ASSUME Shape, OnDisk, NEW c \in Procs, Publish(c)
  PROVE  OnDisk'
<1>1. /\ call[c].pc = "route" /\ Return(c)
      /\ UNCHANGED <<made, meta, topics, mu, told>>
  BY ZenonT(30) DEF Publish
<1>2. PICK t \in Topics : t = call[c].topic
  BY ZenonT(30), <1>1 DEF Shape, Calls, CallOK
<1>3. PICK n : n = topics[t]
  BY ZenonT(30)
<1>4. n \in 1..MaxParts /\ n \in told[t]
  <2>1. n > 0 /\ n \in 0..MaxParts
    BY ZenonT(30), <1>1, <1>2, <1>3 DEF Shape, TypeOK, Calls, CallOK
  <2>2. QED
    BY <1>2, <1>3, <2>1, RegistryAssumption DEF OnDisk, Promised
<1>5. Opening'
  <2>1. mu # Nobody => mu \in Procs /\ call'[mu] = call[mu]
    BY ZenonT(30), <1>1, ReturnFacts DEF Shape, TypeOK, Holder, Steps
  <2>2. QED
    BY ZenonT(30), <1>1, <2>1 DEF OnDisk, Opening, DiskCount
<1>6. Untouched' /\ Promised'
  BY ZenonT(30), <1>1 DEF OnDisk, Untouched, Promised, DiskCount
<1>7. PICK slot, key : slot = SlotOf(n, Route(c)) /\ key = RoutedBy(c)
  BY ZenonT(30)
<1>8. InRange(Route(c), n) =>
        slot \in SlotsOf(n) /\ (key # NoKey => slot = SlotOf(n, Hash[key] % n))
  <2>1. key # NoKey => Route(c) = Hash[key] % n
    <3>1. key # NoKey => call[c].part = NoPart /\ key = call[c].key
      BY ZenonT(30), <1>7 DEF RoutedBy
    <3>2. QED
      BY ZenonT(30), <1>2, <1>3, <3>1 DEF Route
  <2>2. Route(c) \in Nat
    <3>1. call[c] \in Call /\ rr[t] \in Nat
      BY ZenonT(30), <1>2 DEF Shape, TypeOK
    <3>2. call[c].part \in Nat \/ call[c].part = NoPart
      BY <3>1 DEF Call
    <3>3. call[c].key # NoKey => Hash[call[c].key] % n \in Nat
      BY <1>4, <3>1, RegistryAssumption DEF Keys, Call
    <3>4. rr[t] % n \in Nat
      BY <1>4, <3>1
    <3>5. QED
      BY ZenonT(30), <1>2, <1>3, <3>2, <3>3, <3>4 DEF Route
  <2>3. InRange(Route(c), n) => Route(c) \in 0..n - 1
    BY <1>4, <2>2 DEF InRange
  <2>4. QED
    BY ZenonT(30), <1>7, <2>1, <2>3 DEF SlotsOf
<1>9. ASSUME NEW u \in Topics, NEW r \in stored'[u]
      PROVE  r \in stored[u] \/ (u = t /\ r = <<slot, key>> /\ InRange(Route(c), n))
  <2>1. stored \in [Topics -> SUBSET (Slots \X Keys)]
    BY ZenonT(30) DEF Shape, TypeOK
  <2>2. CASE InRange(Route(c), n)
    <3>1. stored' = [stored EXCEPT ![t] = @ \cup {<<slot, key>>}]
      BY ZenonT(30), <1>2, <1>3, <1>7, <2>2 DEF Publish
    <3>2. QED
      BY ZenonT(30), <1>9, <2>1, <2>2, <3>1
  <2>3. CASE ~InRange(Route(c), n)
    BY ZenonT(30), <1>2, <1>3, <1>9, <2>3 DEF Publish
  <2>4. QED
    BY ZenonT(30), <2>2, <2>3
<1>10. Placed'
  <2>1. ASSUME NEW u \in Topics, NEW r \in stored'[u]
        PROVE  \E m \in told[u] : r[1] \in SlotsOf(m) /\ (r[2] # NoKey => r[1] = SlotOf(m, Hash[r[2]] % m))
    <3>1. CASE r \in stored[u]
      BY ZenonT(30), <3>1 DEF OnDisk, Placed
    <3>2. CASE u = t /\ r = <<slot, key>> /\ InRange(Route(c), n)
      <4>1. r[1] = slot /\ r[2] = key
        BY ZenonT(30), <3>2
      <4>2. QED
        BY ZenonT(30), <1>4, <1>8, <3>2, <4>1
    <3>3. QED
      BY ZenonT(30), <1>9, <2>1, <3>1, <3>2
  <2>2. QED
    BY ZenonT(30), <1>1, <2>1 DEF Placed, SlotsOf, SlotOf
<1>11. QED
  BY ZenonT(30), <1>5, <1>6, <1>10 DEF OnDisk

LEMMA KeptStep == Shape /\ Kept /\ [Next]_vars => Kept'
<1> SUFFICES ASSUME Shape, Kept, [Next]_vars, ~Powered' PROVE OnDisk'
  BY ZenonT(30) DEF Kept
<1>1. setup' = setup
  BY ZenonT(30) DEF Next, vars
<1>2. ~Powered /\ OnDisk
  BY ZenonT(30), <1>1 DEF Kept, Powered
<1>3. CASE UNCHANGED vars
  <2>1. UNCHANGED <<made, meta, stored, told, topics, mu, call>>
    BY ZenonT(30), <1>3 DEF vars, state, diskVars, memVars
  <2>2. Opening'
    BY ZenonT(30), <1>2, <2>1 DEF OnDisk, Opening, DiskCount
  <2>3. QED
    BY ZenonT(30), <1>2, <2>1, <2>2, IdleDisk
<1>4. ASSUME NEW c \in Procs, Request(c) \/ Look(c) \/ Lock(c) PROVE OnDisk'
  BY ZenonT(30), <1>2, <1>4, BeginDisk, LookDisk, LockDisk DEF Request
<1>5. ASSUME NEW c \in Procs, Open(c) \/ Publish(c) PROVE OnDisk'
  BY ZenonT(30), <1>2, <1>5, MkdirDisk, MetaCreateDisk, MetaWriteDisk, OpenPartitionDisk, IOErrorDisk, PublishDisk
     DEF Open
<1>6. ASSUME Recover PROVE OnDisk'
  BY ZenonT(30), <1>2, <1>6, BeginDisk, NobodyFacts DEF Recover
<1>7. ASSUME Start \/ Serve PROVE OnDisk'
  <2>1. UNCHANGED <<made, meta, stored, told, topics, mu, call>>
    BY ZenonT(30), <1>7 DEF Start, Serve, diskVars
  <2>2. Opening'
    BY ZenonT(30), <1>2, <2>1 DEF OnDisk, Opening, DiskCount
  <2>3. QED
    BY ZenonT(30), <1>2, <2>1, <2>2, IdleDisk
<1>8. ASSUME Kill \/ Close PROVE OnDisk'
  <2>1. UNCHANGED <<made, meta, stored, told>> /\ mu' = Nobody /\ topics' = [t \in Topics |-> 0]
    BY ZenonT(30), <1>8 DEF Kill, Close, Stopped, Exit, Unlock, diskVars
  <2>2. QED
    BY ZenonT(30), <1>2, <2>1, IdleDisk DEF Opening
<1>9. ~PowerLoss
  BY ZenonT(30), <1>2 DEF PowerLoss, Powered
<1>10. QED
  BY ZenonT(30), <1>3, <1>4, <1>5, <1>6, <1>7, <1>8, <1>9 DEF Next

----------------------------------------------------------------------------
(* The inductive invariant, and what follows from it. *)

RegistryInv == Shape /\ Kept

LEMMA RegistryInvariant == Spec => []RegistryInv
<1>1. Init => RegistryInv
  BY ZenonT(30), ShapeInit, KeptInit DEF RegistryInv
<1>2. RegistryInv /\ [Next]_vars => RegistryInv'
  BY ZenonT(30), ShapeStep, KeptStep DEF RegistryInv
<1>3. QED
  BY <1>1, <1>2, PTL DEF Spec

\* Without a power failure, the count a topic was ever open with is the count its
\* directory says and the only one it is opened with again.
THEOREM CountKept == Spec => []CountFixed
<1>1. RegistryInv => CountFixed
  <2> SUFFICES ASSUME RegistryInv, ~Powered, NEW t \in Topics, NEW n \in told[t]
               PROVE  Exists(t) /\ ~Unreadable(t) /\ DiskCount(t) = n /\ topics[t] \in {0, n}
    BY ZenonT(30) DEF CountFixed
  <2>1. OnDisk /\ topics[t] \in 0..MaxParts
    BY ZenonT(30) DEF RegistryInv, Kept, Shape, TypeOK
  <2>2. Exists(t)
    BY ZenonT(30), <2>1 DEF OnDisk, Untouched, Exists
  <2>3. ~Unreadable(t) /\ \A m \in told[t] : DiskCount(t) = m
    BY ZenonT(30), <2>1 DEF OnDisk, Promised, Unreadable
  <2>4. topics[t] > 0 => topics[t] \in told[t]
    BY ZenonT(30), <2>1 DEF OnDisk, Promised
  <2>5. QED
    BY <2>1, <2>2, <2>3, <2>4, RegistryAssumption
<1>2. QED
  BY <1>1, RegistryInvariant, PTL

\* Without a power failure, all records of a routing key are in one partition.
THEOREM KeysKept == Spec => []KeyedTogether
<1>1. RegistryInv => KeyedTogether
  <2> SUFFICES ASSUME RegistryInv, ~Powered, NEW t \in Topics, NEW a \in stored[t], NEW b \in stored[t],
                      a[2] = b[2], a[2] # NoKey
               PROVE  a[1] = b[1]
    BY ZenonT(30) DEF KeyedTogether
  <2>1. OnDisk
    BY ZenonT(30) DEF RegistryInv, Kept
  <2>2. PICK n \in told[t] : a[1] = SlotOf(n, Hash[a[2]] % n)
    BY ZenonT(30), <2>1 DEF OnDisk, Placed
  <2>3. PICK m \in told[t] : b[1] = SlotOf(m, Hash[b[2]] % m)
    BY ZenonT(30), <2>1 DEF OnDisk, Placed
  <2>4. n = m
    BY ZenonT(30), <2>1 DEF OnDisk, Promised
  <2>5. QED
    BY ZenonT(30), <2>2, <2>3, <2>4
<1>2. QED
  BY <1>1, RegistryInvariant, PTL

\* Without a power failure, every stored record is in a partition of the topic as it is
\* opened next.
THEOREM RecordsReachable == Spec => []Reachable
<1>1. RegistryInv => Reachable
  <2> SUFFICES ASSUME RegistryInv, ~Powered, NEW t \in Topics, NEW r \in stored[t]
               PROVE  ~Unreadable(t) /\ r[1] \in SlotsOf(DiskCount(t))
    BY ZenonT(30) DEF Reachable
  <2>1. OnDisk
    BY ZenonT(30) DEF RegistryInv, Kept
  <2>2. PICK n \in told[t] : r[1] \in SlotsOf(n)
    BY ZenonT(30), <2>1 DEF OnDisk, Placed
  <2>3. ~Unreadable(t) /\ DiskCount(t) = n
    BY ZenonT(30), <2>1 DEF OnDisk, Promised, Unreadable
  <2>4. QED
    BY ZenonT(30), <2>2, <2>3
<1>2. QED
  BY <1>1, RegistryInvariant, PTL

----------------------------------------------------------------------------
(* Least and greatest elements. *)

LEMMA LeastExists ==
  ASSUME NEW S \in SUBSET Nat, S # {}
  PROVE  \E m \in S : \A n \in S : m <= n
<1> DEFINE R == StrictSubsetOrdering(Nat)
           T == {1..n : n \in S}
<1>1. T \subseteq FiniteSubsetsOf(Nat) /\ T # {}
  <2>1. \A n \in S : IsFiniteSet(1..n) /\ 1..n \subseteq Nat
    BY FS_Interval
  <2>2. QED
    BY ZenonT(30), <2>1 DEF FiniteSubsetsOf
<1>2. PICK x \in T : \A y \in T : ~ (<<y, x>> \in R)
  <2> HIDE DEF T
  <2> QED
    BY ZenonT(30), <1>1, FS_StrictSubsetOrderingWellFounded, WFMin
<1>3. PICK m \in S : x = 1..m
  BY ZenonT(30), <1>2
<1>4. ASSUME NEW n \in S, ~ (m <= n) PROVE FALSE
  <2>1. 1..n \subseteq 1..m /\ 1..n # 1..m
    <3>1. m \in 1..m /\ m \notin 1..n
      BY <1>4
    <3>2. QED
      BY <1>4, <3>1
  <2>2. <<1..n, 1..m>> \in R
    BY <2>1 DEF StrictSubsetOrdering
  <2>3. QED
    BY ZenonT(30), <2>2, <1>2, <1>3
<1>5. QED
  BY ZenonT(30), <1>4

LEMMA MinProperties ==
  ASSUME NEW S \in SUBSET Nat, S # {}
  PROVE  Min(S) \in S /\ \A n \in S : Min(S) <= n
<1>1. \E m \in S : \A n \in S : m <= n
  BY ZenonT(30), LeastExists
<1>2. QED
  BY ZenonT(30), <1>1 DEF Min

LEMMA MaxProperties ==
  ASSUME NEW a \in Nat, NEW S \in SUBSET (1..a), S # {}
  PROVE  Max(S) \in S /\ \A n \in S : Max(S) >= n
<1> DEFINE T == {n \in 0..a : a - n \in S}
<1>1. T \in SUBSET Nat /\ T # {}
  <2>1. PICK n \in S : n \in 1..a
    BY ZenonT(30)
  <2>2. a - n \in 0..a /\ a - (a - n) = n
    BY <2>1
  <2>3. a - n \in T
    BY <2>1, <2>2
  <2>4. T \in SUBSET Nat
    OBVIOUS
  <2>5. QED
    BY ZenonT(30), <2>3, <2>4
<1>2. PICK m \in T : \A n \in T : m <= n
  BY ZenonT(30), <1>1, LeastExists
<1>3. a - m \in S
  BY ZenonT(30), <1>2
<1>4. ASSUME NEW n \in S PROVE a - m >= n
  <2>1. a - n \in 0..a /\ a - (a - n) = n /\ n \in Nat
    OBVIOUS
  <2>2. a - n \in T
    BY <2>1
  <2>3. m <= a - n /\ m \in Nat
    BY ZenonT(30), <1>1, <1>2, <2>2
  <2>4. QED
    BY <2>1, <2>3
<1>5. \E x \in S : \A n \in S : x >= n
  BY ZenonT(30), <1>3, <1>4
<1>6. QED
  BY ZenonT(30), <1>5 DEF Max

----------------------------------------------------------------------------
(* The running total of keepIndexByBytes. *)

Totals(f, infos, N) ==
    /\ f = [n \in 0..N |-> f[n]]
    /\ f[0] = 0
    /\ \A n \in 1..N : f[n] = f[n - 1] + infos[Len(infos) - n + 1].bytes

LEMMA TotalsExist ==
  ASSUME NEW infos, NEW N \in Nat
  PROVE  \E f : Totals(f, infos, N)
<1> SUFFICES ASSUME ~ \E f : Totals(f, infos, N) PROVE FALSE
  BY ZenonT(30)
<1> DEFINE S == {n \in 0..N : ~ \E f : Totals(f, infos, n)}
<1>1. PICK m \in S : \A n \in S : m <= n
  <2>1. N \in 0..N /\ S \in SUBSET Nat
    OBVIOUS
  <2>2. N \in S
    BY ZenonT(30), <2>1
  <2>3. QED
    BY ZenonT(30), <2>1, <2>2, LeastExists
<1>2. CASE m = 0
  <2> DEFINE f == [i \in 0..0 |-> 0]
  <2>1. f = [i \in 0..0 |-> f[i]] /\ f[0] = 0 /\ \A i \in 1..0 : FALSE
    OBVIOUS
  <2> HIDE DEF f
  <2>2. Totals(f, infos, 0)
    BY ZenonT(30), <2>1 DEF Totals
  <2>3. QED
    BY ZenonT(30), <1>1, <1>2, <2>2
<1>3. CASE m # 0
  <2>1. m \in Nat /\ m - 1 \in 0..N /\ ~ (m <= m - 1) /\ m \in 0..m
    BY <1>1, <1>3
  <2>2. PICK g : Totals(g, infos, m - 1)
    BY ZenonT(30), <1>1, <2>1
  <2> DEFINE f == [i \in 0..m |-> IF i = m THEN g[m - 1] + infos[Len(infos) - m + 1].bytes ELSE g[i]]
  <2>3. f = [i \in 0..m |-> f[i]]
    BY ZenonT(30)
  <2>4. f[0] = 0
    <3>1. 0 \in 0..m /\ 0 # m
      BY <1>3, <2>1
    <3>2. QED
      BY ZenonT(30), <2>2, <3>1 DEF Totals
  <2>5. ASSUME NEW i \in 1..m PROVE f[i] = f[i - 1] + infos[Len(infos) - i + 1].bytes
    <3>1. i \in 0..m /\ i - 1 \in 0..m /\ i - 1 # m
      BY <2>1
    <3>2. f[i - 1] = g[i - 1]
      BY ZenonT(30), <3>1
    <3>3. CASE i = m
      BY ZenonT(30), <3>1, <3>2, <3>3
    <3>4. CASE i # m
      <4>1. i \in 1..(m - 1)
        BY <2>1, <3>4
      <4>2. g[i] = g[i - 1] + infos[Len(infos) - i + 1].bytes
        BY ZenonT(30), <2>2, <4>1 DEF Totals
      <4>3. QED
        BY ZenonT(30), <3>1, <3>2, <3>4, <4>2
    <3>5. QED
      BY ZenonT(30), <3>3, <3>4
  <2> HIDE DEF f
  <2>6. Totals(f, infos, m)
    BY ZenonT(30), <2>3, <2>4, <2>5 DEF Totals
  <2>7. QED
    BY ZenonT(30), <1>1, <2>6
<1>4. QED
  BY ZenonT(30), <1>2, <1>3

LEMMA BytesFromTotals ==
  ASSUME NEW infos, Len(infos) \in Nat
  PROVE  \E f : Totals(f, infos, Len(infos)) /\ \A i : BytesFrom(infos, i) = f[Len(infos) - i + 1]
<1> DEFINE N == Len(infos)
           Body(f) == [n \in 0..N |-> IF n = 0 THEN 0 ELSE f[n - 1] + infos[N - n + 1].bytes]
           h == CHOOSE f : f = Body(f)
<1>1. \A i : BytesFrom(infos, i) = h[N - i + 1]
  BY ZenonT(30) DEF BytesFrom
<1>2. PICK g : Totals(g, infos, N)
  BY ZenonT(30), TotalsExist
<1>3. g = Body(g)
  <2>1. \A n \in 0..N : n # 0 => n \in 1..N
    OBVIOUS
  <2>2. ASSUME NEW n \in 0..N PROVE g[n] = Body(g)[n]
    BY ZenonT(30), <1>2, <2>1 DEF Totals
  <2>3. g = [n \in 0..N |-> g[n]]
    BY ZenonT(30), <1>2 DEF Totals
  <2>4. [n \in 0..N |-> g[n]] = [n \in 0..N |-> Body(g)[n]]
    BY ZenonT(30), <2>2
  <2>5. QED
    BY ZenonT(30), <2>3, <2>4
<1>4. h = Body(h)
  <2> HIDE DEF Body
  <2>1. QED
    BY ZenonT(30), <1>3
<1> HIDE DEF h
<1>5. h = [n \in 0..N |-> h[n]]
  <2>1. DOMAIN h = 0..N
    BY ZenonT(30), <1>4
  <2>2. h = [n \in DOMAIN h |-> h[n]]
    BY ZenonT(30), <1>4
  <2>3. QED
    BY ZenonT(30), <2>1, <2>2
<1>6. h[0] = 0
  <2>1. 0 \in 0..N
    OBVIOUS
  <2>2. QED
    BY ZenonT(30), <1>4, <2>1
<1>7. ASSUME NEW n \in 1..N PROVE h[n] = h[n - 1] + infos[N - n + 1].bytes
  <2>1. n \in 0..N /\ n # 0
    OBVIOUS
  <2>2. QED
    BY ZenonT(30), <1>4, <2>1
<1>8. QED
  BY ZenonT(30), <1>1, <1>5, <1>6, <1>7 DEF Totals

\* The total only grows towards older segments.
LEMMA BytesFromGrows ==
  ASSUME NEW infos, Len(infos) \in Nat, \A i \in 1..Len(infos) : infos[i].bytes \in Nat
  PROVE  /\ \A i \in 1..Len(infos) : BytesFrom(infos, i) \in Nat
         /\ \A i, j \in 1..Len(infos) : i <= j => BytesFrom(infos, i) >= BytesFrom(infos, j)
<1> DEFINE N == Len(infos)
<1>0. PICK f : Totals(f, infos, N) /\ \A i : BytesFrom(infos, i) = f[N - i + 1]
  BY ZenonT(30), BytesFromTotals
<1>1. f[0] = 0 /\ \A n \in 1..N : \E b \in Nat : f[n] = f[n - 1] + b
  <2>1. ASSUME NEW n \in 1..N PROVE \E b \in Nat : f[n] = f[n - 1] + b
    <3>1. N - n + 1 \in 1..N
      OBVIOUS
    <3>2. infos[N - n + 1].bytes \in Nat
      BY ZenonT(30), <3>1
    <3>3. QED
      BY ZenonT(30), <1>0, <3>2 DEF Totals
  <2>2. QED
    BY ZenonT(30), <1>0, <2>1 DEF Totals
\* n is a first place where the total is no number, or falls below an earlier one.
<1>2. ASSUME NEW n \in 0..N PROVE f[n] \in Nat /\ \A k \in 0..n : f[k] <= f[n]
  <2> DEFINE Good(x) == f[x] \in Nat /\ \A k \in 0..x : f[k] <= f[x]
             S == {x \in 0..N : ~ Good(x)}
  <2> SUFFICES ASSUME S # {} PROVE FALSE
    BY ZenonT(30)
  <2>1. PICK m \in S : \A x \in S : m <= x
    <3>1. S \in SUBSET Nat
      OBVIOUS
    <3>2. QED
      BY ZenonT(30), <3>1, LeastExists
  <2>2. CASE m = 0
    <3>1. \A k \in 0..0 : k = 0
      OBVIOUS
    <3>2. 0 \in Nat /\ 0 <= 0
      OBVIOUS
    <3>3. Good(0)
      BY ZenonT(30), <1>1, <3>1, <3>2
    <3>4. QED
      BY ZenonT(30), <2>1, <2>2, <3>3
  <2>3. CASE m # 0
    <3>1. m \in 1..N /\ m - 1 \in 0..N /\ ~ (m <= m - 1) /\ (\A k \in 0..m : k = m \/ k \in 0..(m - 1))
      BY <2>1, <2>3
    <3>2. Good(m - 1)
      BY ZenonT(30), <2>1, <3>1
    <3>3. PICK a \in Nat, b \in Nat : a = f[m - 1] /\ f[m] = a + b
      BY ZenonT(30), <1>1, <3>1, <3>2
    <3>4. a + b \in Nat /\ a + b <= a + b
      BY <3>3
    <3>5. ASSUME NEW k \in 0..(m - 1) PROVE f[k] <= a + b
      <4>1. k \in 0..N /\ ~ (m <= k)
        BY <3>1
      <4>2. PICK c \in Nat : c = f[k] /\ c <= a
        BY ZenonT(30), <2>1, <3>2, <3>3, <4>1
      <4>3. c <= a + b
        BY <4>2
      <4>4. QED
        BY ZenonT(30), <4>2, <4>3
    <3>6. Good(m)
      BY ZenonT(30), <3>1, <3>3, <3>4, <3>5
    <3>7. QED
      BY ZenonT(30), <2>1, <3>6
  <2>4. QED
    BY ZenonT(30), <2>2, <2>3
<1>3. ASSUME NEW i \in 1..N, NEW j \in 1..N, i <= j PROVE BytesFrom(infos, i) >= BytesFrom(infos, j)
  <2>1. PICK k, n : k = N - j + 1 /\ n = N - i + 1
    BY ZenonT(30)
  <2>2. k \in 0..n /\ n \in 0..N /\ k \in 0..N
    BY <1>3, <2>1
  <2>3. PICK a \in Nat, b \in Nat : a = f[k] /\ b = f[n] /\ a <= b
    BY ZenonT(30), <1>2, <2>2
  <2>4. b >= a
    BY <2>3
  <2>5. BytesFrom(infos, i) = b /\ BytesFrom(infos, j) = a
    BY ZenonT(30), <1>0, <2>1, <2>3
  <2>6. QED
    BY ZenonT(30), <2>4, <2>5
<1>4. ASSUME NEW i \in 1..N PROVE BytesFrom(infos, i) \in Nat
  <2>1. PICK n : n = N - i + 1
    BY ZenonT(30)
  <2>2. n \in 0..N
    BY <2>1
  <2>3. QED
    BY ZenonT(30), <1>0, <1>2, <2>1, <2>2
<1>5. QED
  BY ZenonT(30), <1>3, <1>4

----------------------------------------------------------------------------
(* The segments and the snapshot. *)

LEMMA SeqLen ==
  ASSUME NEW S, NEW seq \in Seq(S)
  PROVE  Len(seq) \in Nat /\ DOMAIN seq = 1..Len(seq) /\ \A n \in 1..Len(seq) : seq[n] \in S
BY SMTT(30)

LEMMA SeqAppend ==
  ASSUME NEW S, NEW seq \in Seq(S), NEW elt \in S
  PROVE  /\ Append(seq, elt) \in Seq(S)
         /\ Len(Append(seq, elt)) = Len(seq) + 1
         /\ \A i \in 1..Len(seq) : Append(seq, elt)[i] = seq[i]
         /\ Append(seq, elt)[Len(seq) + 1] = elt
BY SMTT(30)

LEMMA SeqRest ==
  ASSUME NEW S, NEW seq \in Seq(S), NEW n \in 0..(Len(seq) - 1)
  PROVE  /\ SubSeq(seq, n + 1, Len(seq)) \in Seq(S)
         /\ Len(SubSeq(seq, n + 1, Len(seq))) = Len(seq) - n
         /\ \A i \in 1..(Len(seq) - n) : SubSeq(seq, n + 1, Len(seq))[i] = seq[n + i]
BY SMTT(30)

LEMMA SeqWrite ==
  ASSUME NEW S, NEW seq \in Seq(S), NEW n \in 1..Len(seq), NEW e \in S
  PROVE  /\ [seq EXCEPT ![n] = e] \in Seq(S)
         /\ Len([seq EXCEPT ![n] = e]) = Len(seq)
         /\ [seq EXCEPT ![n] = e][n] = e
         /\ \A i \in 1..Len(seq) : i # n => [seq EXCEPT ![n] = e][i] = seq[i]
BY SMTT(30)

LEMMA Remainder ==
  ASSUME NEW a \in Nat, NEW b \in Nat, a < b
  PROVE  a % b = a
BY SMTT(30)

SegmentNumbers == [index : Nat, bytes : Nat, maxTs : Nat, maxVisible : Nat, delayed : SUBSET Nat]

\* The segments of the log: numbered one after the other, and none has a delayed record
\* later than its mark.
Numbered(segs) ==
    /\ segs \in Seq(SegmentNumbers) /\ Len(segs) >= 1
    /\ \A i \in 1..Len(segs) : segs[i].index = segs[1].index + (i - 1)
    /\ \A i \in 1..Len(segs) : \A v \in segs[i].delayed : v <= segs[i].maxVisible

\* The log has grown since the snapshot, at its end only.
Grown(infos, segs) ==
    /\ infos \in Seq(SegmentNumbers) /\ Len(infos) >= 1 /\ Len(infos) <= Len(segs)
    /\ \A i \in 1..Len(infos) : infos[i].index = segs[i].index
    /\ \A i \in 1..(Len(infos) - 1) : infos[i] = segs[i]

Stored ==
    /\ policy \in Policies
    /\ clock \in Nat /\ clock >= 1 /\ clock <= MaxClock
    /\ Numbered(segments)
    /\ sweep # NoSweep => Grown(sweep.infos, segments) /\ sweep.now \in Nat /\ sweep.now <= MaxClock

LEMMA NewSegmentType ==
  ASSUME NEW index \in Nat
  PROVE  /\ NewSegment(index) \in SegmentNumbers
         /\ NewSegment(index).index = index /\ NewSegment(index).delayed = {}
BY SMTT(30) DEF NewSegment, SegmentNumbers

LEMMA StoredInit == RetentionInit => Stored
<1> SUFFICES ASSUME RetentionInit PROVE Stored
  BY ZenonT(30)
<1>1. policy \in Policies /\ clock = Epoch /\ segments = <<NewSegment(0)>> /\ sweep = NoSweep
  BY ZenonT(30) DEF RetentionInit
<1>2. clock \in Nat /\ clock >= 1 /\ clock <= MaxClock
  BY <1>1, RetentionAssumption DEF Times
<1>3. PICK e \in SegmentNumbers : e = NewSegment(0) /\ e.delayed = {}
  BY ZenonT(30), NewSegmentType, 0 \in Nat
<1>4. /\ segments \in Seq(SegmentNumbers) /\ Len(segments) = 1 /\ Len(segments) >= 1 /\ segments[1] = e
      /\ \A i \in 1..1 : i = 1
  BY <1>1, <1>3
<1>5. segments[1].index \in Nat
  BY ZenonT(30), <1>4 DEF SegmentNumbers
<1>6. segments[1].index = segments[1].index + (1 - 1)
  BY <1>5
<1>7. Numbered(segments)
  BY ZenonT(30), <1>3, <1>4, <1>6 DEF Numbered
<1>8. QED
  BY ZenonT(30), <1>1, <1>2, <1>7 DEF Stored

\* What an Append does to the segments: it may add one, and it changes the last.
Extended ==
    /\ Numbered(segments')
    /\ Len(segments) <= Len(segments')
    /\ \A i \in 1..Len(segments) : segments'[i].index = segments[i].index
    /\ \A i \in 1..(Len(segments) - 1) : segments'[i] = segments[i]

\* The segments after rotation, if there is one.
LEMMA Rolled ==
  ASSUME Numbered(segments), NEW rolled,
         \/ rolled = segments
         \/ rolled = Append(segments, NewSegment(Active(segments).index + 1))
  PROVE  /\ Numbered(rolled) /\ Len(segments) <= Len(rolled)
         /\ \A i \in 1..Len(segments) : rolled[i] = segments[i]
<1>1. CASE rolled = segments
  <2>1. Len(segments) <= Len(segments)
    BY SeqLen DEF Numbered
  <2>2. QED
    BY ZenonT(30), <1>1, <2>1
<1>2. CASE rolled = Append(segments, NewSegment(Active(segments).index + 1))
  <2>1. PICK L : L = Len(segments)
    BY ZenonT(30)
  <2>2. segments \in Seq(SegmentNumbers) /\ L \in Nat /\ L >= 1 /\ segments[1].index \in Nat
    <3>1. segments \in Seq(SegmentNumbers) /\ L >= 1
      BY ZenonT(30), <2>1 DEF Numbered
    <3>2. L \in Nat /\ 1 \in 1..L
      BY <2>1, <3>1, SeqLen
    <3>3. segments[1] \in SegmentNumbers
      BY ZenonT(30), <2>1, <3>1, <3>2, SeqLen
    <3>4. QED
      BY ZenonT(30), <3>1, <3>2, <3>3 DEF SegmentNumbers
  <2>3. PICK f \in Nat : f = segments[1].index
    BY ZenonT(30), <2>2
  <2>4. Active(segments).index = f + (L - 1)
    <3>1. L \in 1..L
      BY <2>2
    <3>2. QED
      BY ZenonT(30), <2>1, <2>3, <3>1 DEF Numbered, Active
  <2>5. PICK n \in Nat : n = Active(segments).index + 1 /\ n = f + ((L + 1) - 1)
    BY <2>2, <2>4
  <2>6. PICK e \in SegmentNumbers : e = NewSegment(n) /\ e.index = n /\ e.delayed = {}
    BY ZenonT(30), NewSegmentType
  <2>7. rolled = Append(segments, e)
    BY ZenonT(30), <1>2, <2>5, <2>6
  <2>8. /\ rolled \in Seq(SegmentNumbers) /\ Len(rolled) = L + 1
        /\ \A i \in 1..L : rolled[i] = segments[i]
        /\ rolled[L + 1] = e
    BY <2>1, <2>2, <2>6, <2>7, SeqAppend
  <2>9. L + 1 >= 1 /\ L <= L + 1 /\ 1 \in 1..L /\ \A i \in 1..(L + 1) : i \in 1..L \/ i = L + 1
    BY <2>2
  <2>10. rolled[1].index = f
    BY ZenonT(30), <2>3, <2>8, <2>9
  <2>11. \A i \in 1..(L + 1) : rolled[i].index = f + (i - 1)
    BY ZenonT(30), <2>1, <2>3, <2>5, <2>6, <2>8, <2>9 DEF Numbered
  <2>12. \A i \in 1..(L + 1) : \A v \in rolled[i].delayed : v <= rolled[i].maxVisible
    BY ZenonT(30), <2>1, <2>6, <2>8, <2>9 DEF Numbered
  <2>13. QED
    BY ZenonT(30), <2>1, <2>8, <2>9, <2>10, <2>11, <2>12 DEF Numbered
<1>3. QED
  BY ZenonT(30), <1>1, <1>2

LEMMA PublishExtends ==
  ASSUME Stored, NEW size \in Sizes, NEW delay \in Delays, NEW lag \in {0, 1}, PublishAppend(size, delay, lag)
  PROVE  Extended
<1> DEFINE rolled == IF Full(Active(segments), size)
                     THEN Append(segments, NewSegment(Active(segments).index + 1)) ELSE segments
           ts == clock - lag
           visible == IF delay = 0 THEN 0 ELSE ts + delay
<1>1. segments' = [rolled EXCEPT ![Len(rolled)] = Written(@, size, ts, visible)]
  BY ZenonT(30) DEF PublishAppend
<1>2. Numbered(segments) /\ clock \in Nat /\ clock >= 1
  BY ZenonT(30) DEF Stored
<1>3. rolled = segments \/ rolled = Append(segments, NewSegment(Active(segments).index + 1))
  BY ZenonT(30)
<1>4. PICK t \in Nat, v \in Nat : t = ts /\ v = visible
  <2>1. delay \in Nat
    BY RetentionAssumption
  <2>2. ts \in Nat
    BY <1>2
  <2>3. visible \in Nat
    BY <2>1, <2>2
  <2>4. QED
    BY ZenonT(30), <2>2, <2>3
<1> HIDE DEF rolled, ts, visible
<1>5. /\ Numbered(rolled) /\ Len(segments) <= Len(rolled)
      /\ \A i \in 1..Len(segments) : rolled[i] = segments[i]
  BY ZenonT(30), <1>2, <1>3, Rolled
<1>6. PICK L : L = Len(rolled)
  BY ZenonT(30)
<1>7. rolled \in Seq(SegmentNumbers) /\ L >= 1
  BY ZenonT(30), <1>5, <1>6 DEF Numbered
<1>8. L \in Nat /\ L \in 1..L /\ 1 \in 1..L
  BY <1>6, <1>7, SeqLen
<1>9. PICK e \in SegmentNumbers : e = rolled[L]
  BY ZenonT(30), <1>6, <1>7, <1>8, SeqLen
<1>10. PICK r : r = Written(e, size, t, v)
  BY ZenonT(30)
<1>11. /\ r \in SegmentNumbers /\ r.index = e.index
       /\ r.maxVisible = Largest(e.maxVisible, v) /\ r.delayed = e.delayed \cup ({v} \ {0})
  <2>1. size \in Nat
    BY RetentionAssumption
  <2>2. e.index \in Nat /\ e.bytes \in Nat /\ e.maxTs \in Nat /\ e.maxVisible \in Nat /\ e.delayed \in SUBSET Nat
    BY ZenonT(30) DEF SegmentNumbers
  <2>3. e.bytes + size \in Nat /\ Largest(e.maxTs, t) \in Nat /\ Largest(e.maxVisible, v) \in Nat
        /\ e.delayed \cup ({v} \ {0}) \in SUBSET Nat
    BY SMTT(30), <2>1, <2>2 DEF Largest
  <2>4. PICK b \in Nat, x \in Nat, y \in Nat, D \in SUBSET Nat :
          b = e.bytes + size /\ x = Largest(e.maxTs, t) /\ y = Largest(e.maxVisible, v) /\ D = e.delayed \cup ({v} \ {0})
    BY ZenonT(30), <2>3
  <2>5. r = [e EXCEPT !.bytes = b, !.maxTs = x, !.maxVisible = y, !.delayed = D]
    BY ZenonT(30), <1>10, <2>4 DEF Written, MaxVisible, SegmentNumbers
  <2>6. r \in SegmentNumbers /\ r.index = e.index /\ r.maxVisible = y /\ r.delayed = D
    <3>1. r \in SegmentNumbers
      BY ZenonT(30), <2>5 DEF SegmentNumbers
    <3>2. r.index = e.index
      BY ZenonT(30), <2>5 DEF SegmentNumbers
    <3>3. r.maxVisible = y
      BY ZenonT(30), <2>5 DEF SegmentNumbers
    <3>4. r.delayed = D
      BY ZenonT(30), <2>5 DEF SegmentNumbers
    <3>5. QED
      BY ZenonT(30), <3>1, <3>2, <3>3, <3>4
  <2>7. QED
    BY ZenonT(30), <2>4, <2>6
<1>12. segments' = [rolled EXCEPT ![L] = r]
  <2>1. segments' = [rolled EXCEPT ![L] = Written(rolled[L], size, t, v)]
    BY ZenonT(30), <1>1, <1>4, <1>6
  <2>2. QED
    BY ZenonT(30), <1>9, <1>10, <2>1
<1>13. /\ segments' \in Seq(SegmentNumbers) /\ Len(segments') = L /\ segments'[L] = r
       /\ \A i \in 1..L : i # L => segments'[i] = rolled[i]
  BY <1>6, <1>7, <1>8, <1>11, <1>12, SeqWrite
<1>14. \A i \in 1..L : segments'[i].index = rolled[i].index
  BY ZenonT(30), <1>9, <1>11, <1>13
<1>15. \A w \in r.delayed : w <= r.maxVisible
  <2>1. /\ \A w \in e.delayed : w <= e.maxVisible
        /\ e.maxVisible \in Nat /\ e.delayed \in SUBSET Nat
    BY ZenonT(30), <1>5, <1>6, <1>8, <1>9 DEF Numbered, SegmentNumbers
  <2>2. QED
    BY SMTT(30), <1>11, <2>1 DEF Largest
<1>16. Numbered(segments')
  <2>1. \A i \in 1..L : \A w \in segments'[i].delayed : w <= segments'[i].maxVisible
    BY ZenonT(30), <1>5, <1>6, <1>13, <1>15 DEF Numbered
  <2>2. \A i \in 1..L : segments'[i].index = segments'[1].index + (i - 1)
    BY ZenonT(30), <1>5, <1>6, <1>8, <1>14 DEF Numbered
  <2>3. QED
    BY ZenonT(30), <1>7, <1>13, <2>1, <2>2 DEF Numbered
<1>17. /\ \A i \in 1..Len(segments) : i \in 1..L
       /\ \A i \in 1..(Len(segments) - 1) : i \in 1..L /\ i # L /\ i \in 1..Len(segments)
  <2>1. Len(segments) \in Nat /\ Len(segments) <= L
    BY ZenonT(30), <1>2, <1>5, <1>6, SeqLen DEF Numbered
  <2>2. QED
    BY <1>8, <2>1
<1>18. QED
  BY ZenonT(30), <1>5, <1>6, <1>13, <1>14, <1>16, <1>17 DEF Extended

\* SegmentInfos is the log, up to the size of the active segment.
LEMMA InfosGrown ==
  ASSUME Numbered(segments), NEW bytes \in 0..Active(segments).bytes
  PROVE  Grown(Infos(bytes), segments)
<1>1. PICK n : n = Len(segments)
  OBVIOUS
<1>2. segments \in Seq(SegmentNumbers) /\ n >= 1 /\ n \in Nat
  BY ZenonT(30), <1>1, SeqLen DEF Numbered
<1>3. n \in 1..n
  BY <1>2
<1>4. segments[n] \in SegmentNumbers
  BY ZenonT(30), <1>1, <1>2, <1>3, SeqLen
<1>5. bytes \in Nat
  BY <1>1, <1>4 DEF Active, SegmentNumbers
<1>6. PICK e \in SegmentNumbers : e = [segments[n] EXCEPT !.bytes = bytes] /\ e.index = segments[n].index
  <2>1. PICK s : s = segments[n]
    BY ZenonT(30)
  <2>2. [s EXCEPT !.bytes = bytes] \in SegmentNumbers /\ [s EXCEPT !.bytes = bytes].index = s.index
    BY ONLY SMTT(30), <1>4, <1>5, <2>1 DEF SegmentNumbers
  <2>3. QED
    BY ZenonT(30), <2>1, <2>2
<1>7. Infos(bytes) = [segments EXCEPT ![n] = e]
  BY ZenonT(30), <1>1, <1>6 DEF Infos
<1>8. /\ Infos(bytes) \in Seq(SegmentNumbers) /\ Len(Infos(bytes)) = n
      /\ Infos(bytes)[n] = e /\ \A i \in 1..n : i # n => Infos(bytes)[i] = segments[i]
  <2>1. PICK q : q = [segments EXCEPT ![n] = e]
    BY ZenonT(30)
  <2>2. n \in 1..Len(segments)
    BY ZenonT(30), <1>1, <1>3
  <2>3. /\ q \in Seq(SegmentNumbers) /\ Len(q) = Len(segments)
        /\ q[n] = e /\ \A i \in 1..Len(segments) : i # n => q[i] = segments[i]
    BY ONLY SMTT(30), e \in SegmentNumbers, <1>2, <2>1, <2>2
  <2>4. QED
    BY ZenonT(30), <1>1, <1>7, <2>1, <2>3
<1>9. \A i \in 1..(n - 1) : i \in 1..n /\ i # n
  BY <1>2
<1>10. n <= n
  BY <1>2
<1>11. QED
  BY ZenonT(30), <1>1, <1>2, <1>6, <1>8, <1>9, <1>10 DEF Grown

LEMMA GrownExtends ==
  ASSUME Numbered(segments), NEW infos, Grown(infos, segments), Extended
  PROVE  Grown(infos, segments')
<1>1. PICK n, a, b : n = Len(infos) /\ a = Len(segments) /\ b = Len(segments')
  BY ZenonT(30)
<1>2. infos \in Seq(SegmentNumbers) /\ segments \in Seq(SegmentNumbers) /\ segments' \in Seq(SegmentNumbers)
      /\ n >= 1 /\ n <= a /\ a <= b
  BY ZenonT(30), <1>1 DEF Grown, Numbered, Extended
<1>3. n \in Nat /\ a \in Nat /\ b \in Nat
  BY ZenonT(30), <1>1, <1>2, SeqLen
<1>4. /\ n <= b /\ (\A i \in 1..n : i \in 1..a)
      /\ \A i \in 1..(n - 1) : i \in 1..(a - 1)
  BY <1>2, <1>3
<1>5. \A i \in 1..n : infos[i].index = segments'[i].index
  BY ZenonT(30), <1>1, <1>4 DEF Grown, Extended
<1>6. \A i \in 1..(n - 1) : infos[i] = segments'[i]
  BY ZenonT(30), <1>1, <1>4 DEF Grown, Extended
<1>7. QED
  BY ZenonT(30), <1>1, <1>2, <1>4, <1>5, <1>6 DEF Grown

----------------------------------------------------------------------------
(* What the sweep keeps. *)

LEMMA PolicyType ==
  ASSUME Stored
  PROVE  policy.retainBytes \in Nat /\ policy.retainDur \in Nat
<1>1. policy \in [retainBytes : Nat, retainDur : Nat]
  BY ZenonT(30), RetentionAssumption DEF Stored
<1>2. QED
  BY ZenonT(30), <1>1

\* keepIndexByBytes: everything older than its answer passes the budget, and nothing from
\* it on does, but for the active segment.
LEMMA BytesKeep ==
  ASSUME Stored, NEW infos \in Seq(SegmentNumbers), Len(infos) >= 1
  PROVE  /\ KeepByBytes(infos) \in 1..Len(infos)
         /\ \A i \in 1..Len(infos) : i < KeepByBytes(infos) =>
               policy.retainBytes > 0 /\ BytesFrom(infos, i) > policy.retainBytes
         /\ policy.retainBytes > 0 =>
               \A i \in 1..Len(infos) : KeepByBytes(infos) <= i =>
                  BytesFrom(infos, i) <= policy.retainBytes \/ i = Len(infos)
<1> DEFINE over == {i \in DOMAIN infos : OverBudget(infos, i)}
<1>1. PICK N \in Nat, b \in Nat : N = Len(infos) /\ b = policy.retainBytes
  BY ZenonT(30), PolicyType, SeqLen
<1>2. N \in Nat /\ N >= 1 /\ DOMAIN infos = 1..N
  BY ZenonT(30), <1>1, SeqLen
<1>3. /\ \A i \in 1..N : BytesFrom(infos, i) \in Nat
      /\ \A i, j \in 1..N : i <= j => BytesFrom(infos, i) >= BytesFrom(infos, j)
  <2>1. \A s \in SegmentNumbers : s.bytes \in Nat
    BY ZenonT(30) DEF SegmentNumbers
  <2>2. \A i \in 1..Len(infos) : infos[i].bytes \in Nat
    BY ZenonT(30), <2>1, SeqLen
  <2>3. QED
    BY ZenonT(30), <1>1, <1>2, <2>2, BytesFromGrows
<1>4. PICK B : B = [i \in 1..N |-> BytesFrom(infos, i)]
  BY ZenonT(30)
<1>5. /\ \A i \in 1..N : B[i] \in Nat /\ B[i] = BytesFrom(infos, i)
      /\ \A i, j \in 1..N : i <= j => B[i] >= B[j]
      /\ \A i \in 1..N : i \in over <=> B[i] > b
  BY ZenonT(30), <1>1, <1>2, <1>3, <1>4 DEF OverBudget
<1>6. PICK k : k = KeepByBytes(infos)
  BY ZenonT(30)
<1>7. \/ (b = 0 \/ over = {}) /\ k = 1
      \/ b # 0 /\ over # {} /\ Max(over) = N /\ k = N
      \/ b # 0 /\ over # {} /\ Max(over) # N /\ k = Max(over) + 1
  BY ZenonT(30), <1>1, <1>6 DEF KeepByBytes
<1>8. over \in SUBSET (1..N)
  BY ZenonT(30), <1>2
<1>9. over # {} => Max(over) \in over /\ \A n \in over : Max(over) >= n
  <2> HIDE DEF over
  <2> QED
    BY ZenonT(30), <1>2, <1>8, MaxProperties
<1>10. /\ k \in 1..N
       /\ \A i \in 1..N : i < k => b > 0 /\ B[i] > b
       /\ b > 0 => \A i \in 1..N : k <= i => B[i] <= b \/ i = N
  <2>1. CASE (b = 0 \/ over = {}) /\ k = 1
    <3>1. over = {} => \A i \in 1..N : ~ (B[i] > b)
      BY ZenonT(30), <1>5
    <3> HIDE DEF over
    <3>2. QED
      BY <1>2, <1>5, <2>1, <3>1
  <2>2. CASE b # 0 /\ over # {} /\ k = IF Max(over) = N THEN N ELSE Max(over) + 1
    <3>1. PICK m \in 1..N : m = Max(over) /\ B[m] > b /\ (\A n \in over : m >= n)
      BY ZenonT(30), <1>5, <1>8, <1>9, <2>2
    <3>2. \A i \in 1..N : B[i] > b => m >= i
      BY ZenonT(30), <1>5, <3>1
    <3> HIDE DEF over
    <3>3. (m = N /\ k = N) \/ (m # N /\ k = m + 1)
      BY ZenonT(30), <2>2, <3>1
    <3>4. \A i \in 1..N : i <= m => B[i] > b
      BY <1>5, <3>1
    <3>5. QED
      BY <1>2, <1>5, <2>2, <3>2, <3>3, <3>4
  <2> HIDE DEF over
  <2>3. QED
    BY ZenonT(30), <1>7, <2>1, <2>2
<1>11. QED
  BY ZenonT(30), <1>1, <1>5, <1>6, <1>10

\* keepIndexByAge: every segment older than its answer is sealed and not fresh.
LEMMA AgeKeep ==
  ASSUME Stored, NEW infos \in Seq(SegmentNumbers), Len(infos) >= 1, NEW now
  PROVE  /\ KeepByAge(infos, now) \in 1..Len(infos)
         /\ \A i \in 1..Len(infos) : i < KeepByAge(infos, now) =>
               policy.retainDur > 0 /\ ~ Fresh(infos[i], Cutoff(now))
<1> DEFINE fresh == {i \in 1..Len(infos) - 1 : Fresh(infos[i], Cutoff(now))}
           S == fresh \cup {Len(infos)}
<1>1. PICK N \in Nat, d \in Nat : N = Len(infos) /\ d = policy.retainDur
  BY ZenonT(30), PolicyType, SeqLen
<1>2. 1 \in 1..N /\ N \in 1..N /\ (\A i \in 1..N : ~ (i < 1) /\ i \in Nat)
      /\ (\A i \in 1..(N - 1) : i \in 1..N) /\ (d = 0 \/ d > 0)
  BY <1>1
<1>3. S \in SUBSET Nat /\ S # {} /\ S \subseteq 1..N
  BY ZenonT(30), <1>1, <1>2
<1>4. Min(S) \in S /\ \A n \in S : Min(S) <= n
  <2> HIDE DEF S
  <2> QED
    BY ZenonT(30), <1>3, MinProperties
<1>5. CASE d = 0
  <2>1. KeepByAge(infos, now) = 1
    BY ZenonT(30), <1>1, <1>5 DEF KeepByAge
  <2>2. QED
    BY ZenonT(30), <1>1, <1>2, <2>1
<1>6. CASE d # 0
  <2>1. PICK m \in 1..N : m = KeepByAge(infos, now) /\ \A n \in S : m <= n
    BY ZenonT(30), <1>1, <1>3, <1>4, <1>6 DEF KeepByAge
  <2>2. ASSUME NEW i \in 1..N, i < m PROVE ~ Fresh(infos[i], Cutoff(now))
    <3>1. i \in 1..(N - 1) /\ ~ (m <= i)
      BY <2>2
    <3>2. QED
      BY ZenonT(30), <1>1, <2>1, <3>1
  <2>3. QED
    BY ZenonT(30), <1>1, <1>2, <1>6, <2>1, <2>2
<1>7. QED
  BY ZenonT(30), <1>5, <1>6

\* retentionKeepIndex: never past a segment with an unfired delayed record.
LEMMA KeepFacts ==
  ASSUME Stored, NEW infos \in Seq(SegmentNumbers), Len(infos) >= 1, NEW now \in Nat
  PROVE  LET K == Keep(infos, now)
         IN  /\ K \in 1..Len(infos)
             /\ \A i \in 1..Len(infos) : i < K => ~ (infos[i].maxVisible > now)
             /\ \A i \in 1..Len(infos) : i < K => i < KeepByBytes(infos) \/ i < KeepByAge(infos, now)
             /\ infos[K].maxVisible > now \/ KeepByBytes(infos) <= K
<1> DEFINE keep == Largest(KeepByBytes(infos), KeepByAge(infos, now))
           S == Unfired(infos, now) \cup {keep}
<1>1. PICK N \in Nat : N = Len(infos)
  BY ZenonT(30), SeqLen
<1>2. PICK b \in 1..N, a \in 1..N : b = KeepByBytes(infos) /\ a = KeepByAge(infos, now)
  BY ZenonT(30), <1>1, BytesKeep, AgeKeep
<1>3. PICK k \in 1..N : k = keep /\ b <= k /\ \A i \in 1..N : i < k => i < b \/ i < a
  <2>1. keep = Largest(b, a)
    BY ZenonT(30), <1>2
  <2> HIDE DEF keep
  <2>2. QED
    BY <2>1 DEF Largest
<1>4. \A i \in 1..N : i \in Unfired(infos, now) <=> infos[i].maxVisible > now
  BY ZenonT(30), <1>1, SeqLen DEF Unfired
<1>5. Unfired(infos, now) \subseteq 1..N /\ \A i \in 1..N : i \in Nat
  <2>1. \A i \in 1..N : i \in Nat
    OBVIOUS
  <2>2. QED
    BY ZenonT(30), <1>1, <2>1, SeqLen DEF Unfired
<1> HIDE DEF keep
<1>6. S \in SUBSET Nat /\ S # {} /\ S \subseteq 1..N
  BY ZenonT(30), <1>3, <1>5
<1>7. Min(S) \in S /\ \A n \in S : Min(S) <= n
  <2> HIDE DEF S
  <2> QED
    BY ZenonT(30), <1>6, MinProperties
<1>8. PICK K \in 1..N : K = Keep(infos, now) /\ K \in S /\ \A n \in S : K <= n
  BY ZenonT(30), <1>6, <1>7 DEF Keep, keep
<1>9. K <= k /\ (K \in Unfired(infos, now) \/ K = k)
  BY ZenonT(30), <1>3, <1>8
<1>10. ASSUME NEW i \in 1..N, i < K
       PROVE  /\ ~ (infos[i].maxVisible > now)
              /\ i < b \/ i < a
  <2>1. ~ (K <= i) /\ i < k
    BY <1>9, <1>10
  <2>2. i \notin Unfired(infos, now)
    BY ZenonT(30), <1>8, <2>1
  <2>3. QED
    BY ZenonT(30), <1>3, <1>4, <2>1, <2>2
<1>11. infos[K].maxVisible > now \/ b <= K
  BY ZenonT(30), <1>3, <1>4, <1>9
<1>12. QED
  BY ZenonT(30), <1>1, <1>2, <1>8, <1>10, <1>11

\* DropSegmentsBefore removes exactly the segments before the one that is kept.
LEMMA DropFacts ==
  ASSUME Stored, SweepDrop
  PROVE  LET K == Keep(sweep.infos, sweep.now)
         IN  /\ Numbered(segments')
             /\ \A i \in DOMAIN segments : i \in Dropped(segments) => i < K
             /\ DOMAIN sweep.infos = 1..Len(sweep.infos)
             /\ \A i \in 1..Len(sweep.infos) : i \in Dropped(sweep.infos) <=> i < K
<1>1. /\ sweep # NoSweep /\ sweep' = NoSweep
      /\ segments' = SubSeq(segments, Cut(sweep.infos[Keep(sweep.infos, sweep.now)].index) + 1, Len(segments))
  BY ZenonT(30) DEF SweepDrop
<1>2. PICK infos, now : infos = sweep.infos /\ now = sweep.now
  BY ZenonT(30)
<1>3. Grown(infos, segments) /\ now \in Nat /\ Numbered(segments)
  BY ZenonT(30), <1>1, <1>2 DEF Stored
<1>4. infos \in Seq(SegmentNumbers) /\ Len(infos) >= 1 /\ Len(infos) <= Len(segments) /\ segments \in Seq(SegmentNumbers)
  BY ZenonT(30), <1>3 DEF Grown, Numbered
<1>5. PICK N \in Nat, L \in Nat : N = Len(infos) /\ L = Len(segments)
  BY ZenonT(30), <1>4, SeqLen
<1>6. PICK K \in 1..N : K = Keep(infos, now)
  BY ZenonT(30), <1>3, <1>4, <1>5, KeepFacts
<1>7. N >= 1 /\ N <= L /\ (\A i \in 1..N : i \in 1..L) /\ K \in 1..L /\ 1 \in 1..L /\ K - 1 \in 0..(L - 1)
  BY <1>4, <1>5
<1>8. DOMAIN segments = 1..L /\ DOMAIN infos = 1..N
  BY ZenonT(30), <1>4, <1>5, SeqLen
<1>9. PICK f \in Nat : \A i \in 1..L : segments[i].index = f + (i - 1)
  <2>1. segments[1].index \in Nat
    <3>1. segments[1] \in SegmentNumbers
      BY ZenonT(30), <1>4, <1>5, <1>7, SeqLen
    <3>2. QED
      BY ZenonT(30), <3>1 DEF SegmentNumbers
  <2>2. QED
    BY ZenonT(30), <1>3, <1>5, <2>1 DEF Numbered
<1>10. infos[K].index = f + (K - 1)
  BY ZenonT(30), <1>3, <1>5, <1>7, <1>9 DEF Grown
<1>11. Cut(infos[K].index) = K - 1
  <2>1. {i \in DOMAIN segments : segments[i].index < infos[K].index} = 1..(K - 1)
    <3>1. ASSUME NEW i \in 1..L PROVE f + (i - 1) < f + (K - 1) <=> i \in 1..(K - 1)
      OBVIOUS
    <3>2. ASSUME NEW i \in 1..(K - 1) PROVE i \in 1..L
      BY <1>7
    <3>3. \A i \in 1..L : segments[i].index < infos[K].index <=> i \in 1..(K - 1)
      BY ZenonT(30), <1>9, <1>10, <3>1
    <3>4. QED
      BY ZenonT(30), <1>8, <3>2, <3>3
  <2>2. Cardinality(1..(K - 1)) = K - 1
    <3>1. K - 1 \in Int /\ 1 \in Int /\ (K - 1) - 1 + 1 = K - 1 /\ (1 > K - 1 => K - 1 = 0)
      OBVIOUS
    <3>2. Cardinality(1..(K - 1)) = IF 1 > K - 1 THEN 0 ELSE (K - 1) - 1 + 1
      BY <3>1, FS_Interval
    <3>3. QED
      BY ZenonT(30), <3>1, <3>2
  <2>3. QED
    BY ZenonT(30), <2>1, <2>2 DEF Cut
<1>12. PICK c \in 0..(L - 1) : c = K - 1 /\ segments' = SubSeq(segments, c + 1, Len(segments))
  BY ZenonT(30), <1>1, <1>2, <1>6, <1>7, <1>11
<1>13. /\ segments' \in Seq(SegmentNumbers) /\ Len(segments') = L - c
       /\ \A i \in 1..(L - c) : segments'[i] = segments[c + i]
  BY <1>4, <1>5, <1>12, SeqRest
<1>14. /\ L - c >= 1 /\ 1 \in 1..(L - c) /\ c + 1 = K
       /\ \A i \in 1..(L - c) : c + i \in 1..L /\ f + (c + i - 1) = f + (K - 1) + (i - 1)
  BY <1>7, <1>12
<1>15. segments'[1].index = f + (K - 1)
  BY ZenonT(30), <1>7, <1>9, <1>13, <1>14
<1>16. Numbered(segments')
  <2>1. \A i \in 1..(L - c) : segments'[i].index = segments'[1].index + (i - 1)
    <3> SUFFICES ASSUME NEW i \in 1..(L - c) PROVE segments'[i].index = segments'[1].index + (i - 1)
      BY ZenonT(30)
    <3>1. PICK j \in 1..L : j = c + i /\ f + (j - 1) = f + (K - 1) + (i - 1)
      BY <1>7, <1>12
    <3>2. segments'[i].index = f + (j - 1)
      BY ZenonT(30), <1>9, <1>13, <3>1
    <3>3. QED
      BY ZenonT(30), <1>15, <3>1, <3>2
  <2>2. \A i \in 1..(L - c) : \A v \in segments'[i].delayed : v <= segments'[i].maxVisible
    BY ZenonT(30), <1>3, <1>5, <1>13, <1>14 DEF Numbered
  <2>3. QED
    BY ZenonT(30), <1>13, <1>14, <2>1, <2>2 DEF Numbered
<1>17. \A i \in 1..L : segments[i].index < segments'[1].index <=> i < K
  <2>1. \A i \in 1..L : f + (i - 1) < f + (K - 1) <=> i < K
    OBVIOUS
  <2>2. QED
    BY ZenonT(30), <1>9, <1>15, <2>1
<1>18. \A i \in 1..N : infos[i].index < segments'[1].index <=> i < K
  BY ZenonT(30), <1>3, <1>5, <1>7, <1>17 DEF Grown
<1>19. /\ \A i \in DOMAIN segments : i \in Dropped(segments) => i < K
       /\ \A i \in 1..N : i \in Dropped(infos) <=> i < K
  BY ZenonT(30), <1>8, <1>17, <1>18 DEF Dropped
<1>20. QED
  BY ZenonT(30), <1>2, <1>5, <1>6, <1>8, <1>16, <1>19

LEMMA StoredStep == Stored /\ [RetentionNext]_retentionVars => Stored'
<1> SUFFICES ASSUME Stored, [RetentionNext]_retentionVars PROVE Stored'
  BY ZenonT(30)
<1>0. policy \in Policies /\ clock \in Nat /\ clock >= 1 /\ clock <= MaxClock /\ Numbered(segments)
      /\ (sweep # NoSweep => Grown(sweep.infos, segments) /\ sweep.now \in Nat /\ sweep.now <= MaxClock)
  BY ZenonT(30) DEF Stored
<1>1. ASSUME NEW size \in Sizes, NEW delay \in Delays, NEW lag \in {0, 1}, PublishAppend(size, delay, lag) PROVE Stored'
  <2>1. policy' = policy /\ clock' = clock /\ sweep' = sweep
    BY ZenonT(30), <1>1 DEF PublishAppend
  <2>2. Extended
    BY ZenonT(30), <1>1, PublishExtends
  <2>3. sweep # NoSweep => Grown(sweep.infos, segments')
    BY ZenonT(30), <1>0, <2>2, GrownExtends
  <2>4. Numbered(segments')
    BY ZenonT(30), <2>2 DEF Extended
  <2>5. QED
    BY ZenonT(30), <1>0, <2>1, <2>3, <2>4 DEF Stored, NoSweep
<1>2. CASE Tick
  <2>1. policy' = policy /\ segments' = segments /\ sweep' = sweep /\ clock < MaxClock /\ clock' = clock + 1
    BY ZenonT(30), <1>2 DEF Tick
  <2>2. clock' \in Nat /\ clock' >= 1 /\ clock' <= MaxClock
    BY <1>0, <2>1, RetentionAssumption DEF Times
  <2>3. QED
    BY ZenonT(30), <1>0, <2>1, <2>2 DEF Stored, NoSweep
<1>3. CASE SweepStart
  <2>1. PICK bytes \in 0..Active(segments).bytes :
           /\ sweep' = [now |-> clock, infos |-> Infos(bytes)]
           /\ policy' = policy /\ segments' = segments /\ clock' = clock
    BY ZenonT(30), <1>3 DEF SweepStart
  <2>2. sweep'.now = clock /\ sweep'.infos = Infos(bytes)
    BY ZenonT(30), <2>1
  <2>3. Grown(Infos(bytes), segments)
    BY ZenonT(30), <1>0, InfosGrown
  <2>4. QED
    BY ZenonT(30), <1>0, <2>1, <2>2, <2>3 DEF Stored
<1>4. CASE SweepDrop
  <2>1. policy' = policy /\ clock' = clock /\ sweep' = NoSweep
    BY ZenonT(30), <1>4 DEF SweepDrop
  <2>2. Numbered(segments')
    BY ZenonT(30), <1>4, DropFacts
  <2>3. QED
    BY ZenonT(30), <1>0, <2>1, <2>2 DEF Stored, NoSweep
<1>5. CASE UNCHANGED retentionVars
  BY ZenonT(30), <1>0, <1>5 DEF Stored, retentionVars, NoSweep
<1>6. QED
  BY ZenonT(30), <1>1, <1>2, <1>3, <1>4, <1>5 DEF RetentionNext

LEMMA StoredAlways == RetentionSpec => []Stored
BY StoredInit, StoredStep, PTL DEF RetentionSpec

\* No other step drops a segment.
LEMMA NothingDropped ==
  ASSUME Stored, [RetentionNext]_retentionVars, ~ SweepDrop
  PROVE  Dropped(segments) = {} /\ Dropped(sweep.infos) = {}
<1>0. Numbered(segments) /\ (sweep # NoSweep => Grown(sweep.infos, segments))
  BY ZenonT(30) DEF Stored
<1>1. PICK L \in Nat : L = Len(segments) /\ L >= 1 /\ DOMAIN segments = 1..L
  BY ZenonT(30), <1>0, SeqLen DEF Numbered
<1>2. 1 \in 1..L
  BY <1>1
<1>3. PICK f \in Nat : segments[1].index = f /\ \A i \in 1..L : segments[i].index = f + (i - 1)
  <2>1. segments[1].index \in Nat
    <3>1. segments[1] \in SegmentNumbers
      BY ZenonT(30), <1>0, <1>1, <1>2, SeqLen DEF Numbered
    <3>2. QED
      BY ZenonT(30), <3>1 DEF SegmentNumbers
  <2>2. QED
    BY ZenonT(30), <1>0, <1>1, <2>1 DEF Numbered
<1>4. segments'[1].index = f
  <2>1. CASE segments' = segments
    BY ZenonT(30), <1>3, <2>1
  <2>2. ASSUME NEW size \in Sizes, NEW delay \in Delays, NEW lag \in {0, 1}, PublishAppend(size, delay, lag)
        PROVE  segments'[1].index = f
    BY ZenonT(30), <1>1, <1>2, <1>3, <2>2, PublishExtends DEF Extended
  <2>3. QED
    BY ZenonT(30), <2>1, <2>2 DEF RetentionNext, Tick, SweepStart, retentionVars
<1>5. \A i \in 1..L : ~ (segments[i].index < segments'[1].index)
  <2>1. \A i \in 1..L : ~ (f + (i - 1) < f)
    OBVIOUS
  <2>2. QED
    BY ZenonT(30), <1>3, <1>4, <2>1
<1>6. \A i \in DOMAIN sweep.infos : ~ (sweep.infos[i].index < segments'[1].index)
  <2>1. CASE sweep = NoSweep
    <3>1. sweep.infos = << >>
      BY ZenonT(30), <2>1 DEF NoSweep
    <3>2. DOMAIN << >> = {}
      OBVIOUS
    <3>3. QED
      BY ZenonT(30), <3>1, <3>2
  <2>2. CASE sweep # NoSweep
    <3>1. PICK infos : infos = sweep.infos /\ Grown(infos, segments)
      BY ZenonT(30), <1>0, <2>2
    <3>2. PICK N \in Nat : N = Len(infos) /\ N <= L /\ DOMAIN infos = 1..N
      BY ZenonT(30), <1>1, <3>1, SeqLen DEF Grown
    <3>3. \A i \in 1..N : i \in 1..L
      BY <3>2
    <3>4. \A i \in 1..N : ~ (infos[i].index < segments'[1].index)
      BY ZenonT(30), <1>5, <3>1, <3>2, <3>3 DEF Grown
    <3>5. QED
      BY ZenonT(30), <3>1, <3>2, <3>4
  <2>3. QED
    BY ZenonT(30), <2>1, <2>2
<1>7. QED
  BY ZenonT(30), <1>1, <1>5, <1>6 DEF Dropped

----------------------------------------------------------------------------
(* The theorems. *)

LEMMA DelayedStep ==
  ASSUME Stored, [RetentionNext]_retentionVars, NEW i \in Dropped(segments), NEW v \in segments[i].delayed
  PROVE  v <= sweep.now
<1>1. SweepDrop
  BY ZenonT(30), NothingDropped
<1>2. PICK infos \in Seq(SegmentNumbers), now \in Nat : infos = sweep.infos /\ now = sweep.now /\ Grown(infos, segments)
  BY ZenonT(30), <1>1 DEF Stored, SweepDrop, Grown
<1>3. infos \in Seq(SegmentNumbers) /\ Len(infos) >= 1 /\ Numbered(segments) /\ segments \in Seq(SegmentNumbers)
      /\ Len(infos) <= Len(segments)
  BY ZenonT(30), <1>2 DEF Stored, Grown, Numbered
<1>4. PICK N \in Nat, L \in Nat : N = Len(infos) /\ L = Len(segments)
  BY ZenonT(30), <1>3, SeqLen
<1>5. i \in 1..L
  BY ZenonT(30), <1>3, <1>4, SeqLen DEF Dropped
<1>6. PICK K \in 1..N : K = Keep(infos, now) /\ \A j \in 1..N : j < K => ~ (infos[j].maxVisible > now)
  BY ZenonT(30), <1>2, <1>3, <1>4, KeepFacts
<1>7. i < K
  BY ZenonT(30), <1>1, <1>2, <1>6, DropFacts DEF Dropped
<1>8. i \in 1..N /\ i \in 1..(N - 1)
  BY <1>5, <1>7
<1>9. segments[i] = infos[i] /\ ~ (infos[i].maxVisible > now) /\ v <= segments[i].maxVisible
  BY ZenonT(30), <1>2, <1>3, <1>4, <1>5, <1>6, <1>7, <1>8 DEF Grown, Numbered
<1>10. PICK m \in Nat : m = infos[i].maxVisible /\ v \in Nat
  <2>1. infos[i] \in SegmentNumbers
    BY ZenonT(30), <1>3, <1>4, <1>8, SeqLen
  <2>2. QED
    BY ZenonT(30), <1>9, <2>1 DEF SegmentNumbers
<1>11. v <= m /\ ~ (m > now)
  BY ZenonT(30), <1>9, <1>10
<1>12. v <= now
  BY <1>2, <1>10, <1>11
<1>13. QED
  BY ZenonT(30), <1>2, <1>12

\* No sweep drops a delayed message that had not fired when it took its snapshot, with
\* any publishes and rotations between the snapshot and DropSegmentsBefore.
THEOREM DelayedStay == RetentionSpec => DelayedKept
<1>1. Stored /\ [RetentionNext]_retentionVars => [\A i \in Dropped(segments) : \A v \in segments[i].delayed : v <= sweep.now]_retentionVars
  BY ZenonT(30), DelayedStep
<1>2. QED
  BY <1>1, StoredAlways, PTL DEF RetentionSpec, DelayedKept

LEMMA JustifiedStep ==
  ASSUME Stored, [RetentionNext]_retentionVars, policy.retainDur <= sweep.now, NEW i \in Dropped(sweep.infos)
  PROVE  \/ policy.retainBytes > 0 /\ BytesFrom(sweep.infos, i) > policy.retainBytes
         \/ policy.retainDur > 0 /\ sweep.infos[i].maxTs + policy.retainDur < sweep.now
<1>1. SweepDrop
  BY ZenonT(30), NothingDropped
<1>2. PICK infos \in Seq(SegmentNumbers), now \in Nat, d \in Nat :
        infos = sweep.infos /\ now = sweep.now /\ Grown(infos, segments) /\ now <= MaxClock /\ d = policy.retainDur
  BY ZenonT(30), <1>1, PolicyType DEF Stored, SweepDrop, Grown
<1>3. infos \in Seq(SegmentNumbers) /\ Len(infos) >= 1
  BY ZenonT(30), <1>2 DEF Grown
<1>4. PICK N \in Nat : N = Len(infos) /\ DOMAIN infos = 1..N
  BY ZenonT(30), <1>3, SeqLen
<1>5. i \in 1..N
  BY ZenonT(30), <1>2, <1>4 DEF Dropped
<1>6. i < Keep(infos, now)
  BY ZenonT(30), <1>1, <1>2, <1>4, <1>5, DropFacts
<1>7. i < KeepByBytes(infos) \/ i < KeepByAge(infos, now)
  BY ZenonT(30), <1>2, <1>3, <1>4, <1>5, <1>6, KeepFacts
<1>8. CASE i < KeepByBytes(infos)
  BY ZenonT(30), <1>2, <1>3, <1>4, <1>5, <1>8, BytesKeep
<1>9. CASE i < KeepByAge(infos, now)
  <2>1. policy.retainDur > 0 /\ ~ Fresh(infos[i], Cutoff(now))
    BY ZenonT(30), <1>3, <1>4, <1>5, <1>9, AgeKeep
  <2>2. PICK m \in Nat : m = infos[i].maxTs
    <3>1. infos[i] \in SegmentNumbers
      BY ZenonT(30), <1>3, <1>4, <1>5, SeqLen
    <3>2. QED
      BY ZenonT(30), <3>1 DEF SegmentNumbers
  <2>3. PICK w \in Nat : w = 2^TimeWidth /\ MaxClock \in 0..(w - 1)
    BY ZenonT(30), RetentionAssumption DEF Times
  <2>4. d <= now
    BY ZenonT(30), <1>2
  <2>5. now - d \in Nat /\ now - d < w
    BY <1>2, <2>3, <2>4
  <2>6. Cutoff(now) = now - d
    <3>1. (now - d) % w = now - d
      BY ZenonT(30), <2>5, Remainder
    <3>2. QED
      BY ZenonT(30), <1>2, <2>3, <3>1 DEF Cutoff
  <2>7. ~ (m >= now - d)
    BY ZenonT(30), <2>1, <2>2, <2>6 DEF Fresh
  <2>8. m + d < now
    BY <1>2, <2>2, <2>7
  <2>9. QED
    BY ZenonT(30), <1>2, <2>1, <2>2, <2>8
<1>10. QED
  BY ZenonT(30), <1>7, <1>8, <1>9

\* Whatever retention is configured, a sweep drops only segments past the byte budget or
\* past the retention time when it took its snapshot.
THEOREM DropsAreJustified == RetentionSpec => DropsJustified
<1>1. Stored /\ [RetentionNext]_retentionVars =>
        [policy.retainDur <= sweep.now =>
           \A i \in Dropped(sweep.infos) :
             \/ policy.retainBytes > 0 /\ BytesFrom(sweep.infos, i) > policy.retainBytes
             \/ policy.retainDur > 0 /\ sweep.infos[i].maxTs + policy.retainDur < sweep.now]_retentionVars
  BY ZenonT(30), JustifiedStep
<1>2. QED
  BY <1>1, StoredAlways, PTL DEF RetentionSpec, DropsJustified

LEMMA BudgetStep ==
  ASSUME Stored, SweepDrop, policy.retainBytes > 0
  PROVE  LET first == Min(DOMAIN sweep.infos \ Dropped(sweep.infos))
         IN  \/ BytesFrom(sweep.infos, first) <= policy.retainBytes
             \/ first = Len(sweep.infos)
             \/ sweep.infos[first].maxVisible > sweep.now
<1>1. PICK infos \in Seq(SegmentNumbers), now \in Nat : infos = sweep.infos /\ now = sweep.now /\ Grown(infos, segments)
  BY ZenonT(30) DEF Stored, SweepDrop, Grown
<1>2. infos \in Seq(SegmentNumbers) /\ Len(infos) >= 1
  BY ZenonT(30), <1>1 DEF Grown
<1>3. PICK N \in Nat : N = Len(infos) /\ DOMAIN infos = 1..N
  BY ZenonT(30), <1>2, SeqLen
<1>4. PICK K \in 1..N : K = Keep(infos, now) /\ (infos[K].maxVisible > now \/ KeepByBytes(infos) <= K)
  BY ZenonT(30), <1>1, <1>2, <1>3, KeepFacts
<1>5. \A i \in 1..N : i \in Dropped(infos) <=> i < K
  BY ZenonT(30), <1>1, <1>3, <1>4, DropFacts
<1>6. Min(DOMAIN infos \ Dropped(infos)) = K
  <2> DEFINE S == (1..N) \ Dropped(infos)
  <2>1. ~ (K < K) /\ \A i \in 1..N : i \in Nat /\ (K <= i \/ i < K)
    OBVIOUS
  <2>2. S \in SUBSET Nat /\ K \in S /\ \A i \in S : i \in 1..N /\ K <= i
    BY ZenonT(30), <1>5, <2>1
  <2>3. DOMAIN infos \ Dropped(infos) = S
    BY ZenonT(30), <1>3
  <2> HIDE DEF S
  <2>4. Min(S) \in S /\ Min(S) <= K
    BY ZenonT(30), <2>2, MinProperties
  <2>5. Min(S) \in 1..N /\ K <= Min(S)
    BY ZenonT(30), <2>2, <2>4
  <2>6. Min(S) = K
    BY <2>4, <2>5
  <2>7. QED
    BY ZenonT(30), <2>3, <2>6
<1>7. BytesFrom(infos, K) <= policy.retainBytes \/ K = N \/ infos[K].maxVisible > now
  BY ZenonT(30), <1>2, <1>3, <1>4, BytesKeep
<1>8. QED
  BY ZenonT(30), <1>1, <1>3, <1>6, <1>7

\* With a byte budget, a sweep leaves no more of its snapshot than the budget, the active
\* segment, or what an unfired delayed message holds.
THEOREM BudgetsAreMet == RetentionSpec => BudgetMet
<1>1. Stored /\ [RetentionNext]_retentionVars =>
        [(SweepDrop /\ policy.retainBytes > 0) =>
           LET first == Min(DOMAIN sweep.infos \ Dropped(sweep.infos))
           IN  \/ BytesFrom(sweep.infos, first) <= policy.retainBytes
               \/ first = Len(sweep.infos)
               \/ sweep.infos[first].maxVisible > sweep.now]_retentionVars
  BY ZenonT(30), BudgetStep
<1>2. QED
  BY <1>1, StoredAlways, PTL DEF RetentionSpec, BudgetMet

=============================================================================
