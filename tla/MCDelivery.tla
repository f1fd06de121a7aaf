----------------------------- MODULE MCDelivery -----------------------------
(* Instances of Delivery for TLC. *)
EXTENDS Delivery, TLC

CONSTANTS s1, s2

TwoSessions == {s1, s2}

\* Two connections that come and go, a window of one, no policy that drops messages.
Takeovers ==
    [sessions |-> TwoSessions, window |-> 1, chanCap |-> 1, threshold |-> 0, delayed |-> {},
     floors |-> {}, faults |-> {}, events |-> {"end"}, msgs |-> 2, subs |-> 3, crashes |-> 0]

Pausing == [Takeovers EXCEPT !.events = {"pause", "end"}, !.delayed = {1}, !.subs = 2]

DeadLetter ==
    [Takeovers EXCEPT !.sessions = {s1}, !.threshold = 2, !.events = {"nack", "timeout"}, !.subs = 2]

Trimming ==
    [Takeovers EXCEPT !.sessions = {s1}, !.window = 2, !.floors = {1, 2}, !.msgs = 3]

Restarting ==
    [Takeovers EXCEPT !.sessions = {s1}, !.window = 3, !.events = {"flush"}, !.msgs = 3, !.subs = 2,
                      !.crashes = 1]

Reconnecting ==
    [Takeovers EXCEPT !.window = 2, !.events = {"flush"}, !.subs = 2, !.crashes = 1]

Failures ==
    [Takeovers EXCEPT !.sessions = {s1}, !.threshold = 1, !.faults = {"offsets", "dlq"},
                      !.events = {"nack", "timeout", "flush"}, !.msgs = 1, !.subs = 2]

SafetySetups ==
    {Takeovers, Pausing, DeadLetter, Trimming, Restarting, Reconnecting, Failures}

\* A client that acknowledges, on connections that end; and one that never does, with
\* the dead-letter policy on.
Acking == [Takeovers EXCEPT !.events = {"ack", "timeout", "end"}, !.subs = 2]
Poison == [DeadLetter EXCEPT !.events = {"timeout"}]

LiveSetups == {Acking, Poison}

\* Dead-lettering with a reconnect.
Undead ==
    {[Takeovers EXCEPT !.threshold = 1, !.events = {"timeout", "end"}, !.msgs = 1, !.subs = 2]}

=============================================================================
