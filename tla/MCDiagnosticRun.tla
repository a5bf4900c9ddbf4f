-------------------------- MODULE MCDiagnosticRun --------------------------
(* Options of the runs TLC checks: every option takes both values, next to *)
(* the ones it interacts with.                                             *)
EXTENDS DiagnosticRun

Run(console, docs, hint, ask, logs, forward) ==
    [console |-> console, docs |-> docs, hint |-> hint, ask |-> ask,
     logs |-> logs, forward |-> forward]

(* Console runs: with documents, questions and a forward; without documents; *)
(* with a model hint and test logs.  And a run over SSH.                     *)
AllRuns == {Run(TRUE, TRUE, FALSE, TRUE, FALSE, TRUE),
            Run(TRUE, FALSE, FALSE, TRUE, FALSE, FALSE),
            Run(TRUE, TRUE, TRUE, FALSE, TRUE, FALSE),
            Run(FALSE, TRUE, FALSE, FALSE, FALSE, FALSE)}

(* one console run with documents and questions *)
PlainRuns == {Run(TRUE, TRUE, FALSE, TRUE, FALSE, FALSE)}

Symmetry == Permutations(Probes)
=============================================================================
