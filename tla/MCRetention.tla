---------------------------- MODULE MCRetention ----------------------------
EXTENDS Retention

\* Size only, age only, and both.
AllPolicies == {[retainBytes |-> 3, retainDur |-> 0],
                [retainBytes |-> 0, retainDur |-> 2],
                [retainBytes |-> 4, retainDur |-> 1]}

=============================================================================
