---------------------------- MODULE MCWalReader ----------------------------
(* Instances of WalReader for TLC. *)
EXTENDS WalReader, TLC

CONSTANTS w1, w2

TwoWriters == {w1, w2}

Setup(mode, retention, stopKinds, faultKinds) ==
    [mode |-> mode, retention |-> retention, stops |-> stopKinds, faults |-> faultKinds]

\* A Reader beside group commit, under retention, failing fsyncs and a machine failure,
\* and across a graceful restart; and beside appends that fsync each record.
TailSetups ==
    {Setup("batched", TRUE, {"power"}, {"sync"}),
     Setup("batched", FALSE, {"close"}, {}),
     Setup("per-message", TRUE, {"power"}, {"sync"})}

=============================================================================
