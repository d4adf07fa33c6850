--------------------------- MODULE MCRecoveryRuns ---------------------------
(* Two slaves, and four things a slave may answer. *)
EXTENDS RecoveryRuns

CONSTANTS h1, h2

TwoSlaves == <<h1, h2>>
PlainSigKey == [i \in Items |-> i]

\* A server before 8.0.22 that is no slave, and one that does not answer.
Given(rows) == [err |-> "", rows |-> rows]
Failed(err) == [err |-> err, rows |-> <<>>]
SlaveAnswers == {
    REP!SlaveGood,
    [slave |-> Given(<<[IO |-> TRUE, SQL |-> FALSE, lag |-> REP!Null]>>), replica |-> Given(<<>>)],
    [slave |-> Given(<<>>), replica |-> Failed("server")],
    [slave |-> Failed("refused"), replica |-> Failed("refused")]}
=============================================================================
