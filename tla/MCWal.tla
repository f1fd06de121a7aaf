------------------------------- MODULE MCWal -------------------------------
(* Instances of Wal for TLC. *)
EXTENDS WalRefines, TLC

CONSTANTS w1, w2

TwoWriters == {w1, w2}
WriterSymmetry == Permutations(TwoWriters)

Setup(mode, retention, stopKinds, faultKinds) ==
    [mode |-> mode, retention |-> retention, stops |-> stopKinds, faults |-> faultKinds]

\* Group commit under retention and machine failures; fsync per message and no fsync
\* under every other way to stop; the setups in which the log can be damaged.
AllSetups ==
    {Setup("batched", TRUE, {"power"}, {"sync", "open", "write"}),
     Setup("batched", FALSE, {"close", "kill"}, {"sync"}),
     Setup("per-message", FALSE, {"power"}, {"sync", "open", "write"}),
     Setup("per-message", TRUE, {"close", "kill", "power"}, {"sync"}),
     Setup("none", FALSE, {"close", "kill"}, {"open", "write"}),
     Setup("none", FALSE, {"power"}, {}),
     Setup("per-message", FALSE, {"kill"}, {"short"})}

ReuseSetups == {Setup("per-message", TRUE, {"kill"}, {})}

=============================================================================
