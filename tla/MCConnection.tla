---------------------------- MODULE MCConnection ----------------------------
EXTENDS Connection, TLC

CONSTANTS c1, c2

TwoCallers == {c1, c2}
CallerSymmetry == Permutations(TwoCallers)

Base == [callers |-> TwoCallers, kinds |-> {"pub"}, reqs |-> MaxReqs, msgs |-> 0, events |-> {"consume"}]

\* Two callers take turns on a connection that stays up.
Sharing == Base
\* The connection may break under them.
Breaking == [Base EXCEPT !.reqs = 2, !.events = {"consume", "break"}]
\* It breaks while both frames of a duplicate PUB are queued.
BreakingDup == [Base EXCEPT !.callers = {c1}, !.kinds = {"dup"}, !.reqs = 2,
                            !.events = {"consume", "break"}]
\* The other requests, refused or not.
Requests == [Base EXCEPT !.kinds = {"info", "create", "ctl", "bad", "garbled", "dup"}, !.reqs = 2,
                         !.events = {"consume", "fail"}]
\* A subscriber under a server that shuts down and a connection that may break.
Subscriber == [Base EXCEPT !.callers = {c1}, !.kinds = {"sub", "ack", "nack", "bad"}, !.msgs = 2,
                           !.reqs = 2, !.events = {"consume", "shutdown"}]
\* Contexts end and the client is closed.
Closing == [Base EXCEPT !.reqs = 2, !.events = {"consume", "cancel", "close", "break"}]
\* A Sub whose context ends.
Abandoning == [Base EXCEPT !.callers = {c1}, !.kinds = {"sub"}, !.msgs = 2, !.reqs = 2,
                           !.events = {"consume", "cancel", "fail"}]
\* A consumer that stops receiving, and the client is closed.
Leaving == [Base EXCEPT !.callers = {c1}, !.kinds = {"sub"}, !.msgs = 2, !.reqs = 1,
                        !.events = {"cancel", "close"}]

PassSetups == {Sharing, Breaking, BreakingDup, Requests, Subscriber, Closing, Abandoning, Leaving}

\* One caller whose contexts may end.
CancelSetups == {[Base EXCEPT !.callers = {c1}, !.events = {"consume", "cancel"}]}
\* A consumer that stops receiving while another caller publishes.
StallSetups == {[Base EXCEPT !.kinds = {"pub", "sub"}, !.msgs = 3, !.reqs = 2, !.events = {}]}
\* A subscription on a healthy connection.
SubSetups == {[Base EXCEPT !.callers = {c1}, !.kinds = {"sub"}, !.msgs = 1]}

=============================================================================
