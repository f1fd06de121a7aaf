----------------------------- MODULE MCRegistry -----------------------------
(* Instances of Registry for TLC. *)
EXTENDS Registry

MCHash == [k \in RoutingKeys |-> 3]

Base == [topics |-> {"t1"}, creates |-> {2}, defaults |-> {1}, parts |-> {1}, records |-> 2,
         stops |-> 2, events |-> {}]

\* I/O errors and stops in the middle of an open.
Failing == [Base EXCEPT !.creates = {3}, !.parts = {}, !.events = {"io"}]

\* The default count changes from one process to the next.
Changing == [Base EXCEPT !.creates = {1, 2}, !.parts = {1, 2}, !.defaults = {1, 2}, !.stops = 1]

\* A second topic, which a bad first one keeps from being opened at the next start.
Several == [Base EXCEPT !.topics = {"t1", "t2"}, !.records = 0, !.stops = 1]

Powering == [Base EXCEPT !.records = 1, !.stops = 1, !.events = {"power"}]

PassSetups == {Failing, Changing, Several, Powering}

=============================================================================
