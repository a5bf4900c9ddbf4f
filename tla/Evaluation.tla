------------------------------ MODULE Evaluation ------------------------------
(***************************************************************************)
(* `harness eval` (operator/cli.py run_eval, diagnosis/eval.py,            *)
(* diagnosis/case_library.py): held-out verified cases are diagnosed again *)
(* by the pipeline as it is now, and its numbers are compared with those   *)
(* of a baseline.                                                          *)
(*                                                                         *)
(* The store is read by run_eval and again by evaluate, while other        *)
(* processes record outcomes; the baseline is written in place, and the    *)
(* process may be killed then.  What a replay retrieves (the library of    *)
(* prior cases, the documents) and says is abstracted to whether it still  *)
(* finds the fault and which confidence it is given.  Fractions are        *)
(* thousandths.                                                            *)
(***************************************************************************)
EXTENDS Integers, FiniteSets, FiniteSetsExt

CONSTANTS
    Runs, Fractions,
    HeldOut,        \* HeldOut[f]: the runs whose digest falls under fraction f
    Labels,         \* bound: the outcomes recorded here
    Confidences,    \* bound: the confidences a replay is given, one to a bin
    Tolerance,      \* bound: the --tolerance of every eval
    MaxEvals,       \* bound: evals begun
    NoCase, NoFile, Torn

Outcomes == {"fixed", "partial", "not_fixed", "inconclusive", "unknown"}
Verified == {"fixed", "partial", "not_fixed"}

ASSUME EvaluationAssumption ==
    /\ HeldOut \in [Fractions -> SUBSET Runs]
    /\ Labels \subseteq Outcomes
    /\ Confidences \subseteq 0..1000
    /\ Tolerance \in Nat /\ MaxEvals \in Nat

VARIABLES
    cases,       \* cases[r]: the outcome recorded for run r, or NoCase
    eval,        \* the eval under way
    baseline,    \* baseline.json: its numbers, NoFile, or Torn
    evals,       \* evals begun
    golden,      \* history: the numbers last set as the baseline, or NoFile
    verdict      \* of the last eval: "none", "set", "passed" or "failed"

vars == <<cases, eval, baseline, evals, golden, verdict>>

Idle == [at |-> "idle"]

Init ==
    /\ cases = [r \in Runs |-> NoCase]
    /\ eval = Idle
    /\ baseline = NoFile
    /\ evals = 0
    /\ golden = NoFile
    /\ verdict = "none"

-----------------------------------------------------------------------------
VerifiedCases == {r \in Runs : cases[r] \in Verified}

(* Another process records an outcome, or corrects one.                    *)
Record(r) ==
    /\ \E o \in Labels : cases' = [cases EXCEPT ![r] = o]
    /\ UNCHANGED <<eval, baseline, evals, golden, verdict>>

Ended(result) == eval' = Idle /\ verdict' = result

(* Without a verified case there is nothing to do.                         *)
Begin ==
    /\ eval.at = "idle" /\ evals < MaxEvals
    /\ evals' = evals + 1
    /\ IF VerifiedCases = {} THEN Ended("failed")
       ELSE \E f \in Fractions, update \in BOOLEAN :
               /\ eval' = [at |-> "hold", fraction |-> f, update |-> update]
               /\ UNCHANGED verdict
    /\ UNCHANGED <<cases, baseline, golden>>

(* The holdout, of the verified cases there are now.                       *)
Holdout(f) == VerifiedCases \cap HeldOut[f]

Hold ==
    /\ eval.at = "hold"
    /\ eval' = [at |-> "replay", update |-> eval.update, holdout |-> Holdout(eval.fraction),
                outcomes |-> cases, results |-> <<>>]
    /\ UNCHANGED <<cases, baseline, evals, golden, verdict>>

(* One held-out case is diagnosed again; a failing model ends the eval.    *)
Replay(r) ==
    /\ eval.at = "replay"
    /\ r \in eval.holdout \ DOMAIN eval.results
    /\ \E hit \in BOOLEAN, c \in Confidences :
          eval' = [eval EXCEPT
                      !.results = [x \in DOMAIN @ \cup {r} |->
                                      IF x = r THEN [hit |-> hit, confidence |-> c] ELSE @[x]]]
    /\ UNCHANGED <<cases, baseline, evals, golden, verdict>>

ReplayFails ==
    /\ eval.at = "replay"
    /\ DOMAIN eval.results # eval.holdout
    /\ Ended("failed")
    /\ UNCHANGED <<cases, baseline, evals, golden>>

-----------------------------------------------------------------------------
(* The report.                                                             *)

Resolution ==
    [fixed |-> 1000, partial |-> 500, not_fixed |-> 0, inconclusive |-> 250, unknown |-> 500]

SumOver(f(_), S) == MapThenSumSet(f, S)

Accuracy(results) ==
    (1000 * Cardinality({r \in DOMAIN results : results[r].hit})) \div Cardinality(DOMAIN results)

(* Expected calibration error: bin by bin, how far what came out is from   *)
(* what was claimed.                                                       *)
Gap(results, outcomes, c) ==
    LET inBin == {r \in DOMAIN results : results[r].confidence = c} IN
    SumOver(LAMBDA r : Resolution[outcomes[r]] - c, inBin)

Size(n) == IF n < 0 THEN -n ELSE n

Ece(results, outcomes) ==
    SumOver(LAMBDA c : Size(Gap(results, outcomes, c)), Confidences)
        \div Cardinality(DOMAIN results)

Numbers ==
    [accuracy |-> Accuracy(eval.results), ece |-> Ece(eval.results, eval.outcomes)]

(* faulty: only the accuracy is compared.                                  *)
AccuracyOnly(new, old) == new.accuracy < old.accuracy - Tolerance

Regressed(new, old) ==
    new.accuracy < old.accuracy - Tolerance \/ new.ece > old.ece + Tolerance

Replayed == eval.at = "replay" /\ DOMAIN eval.results = eval.holdout

(* An empty holdout is an error.                                           *)
NothingReplayed ==
    /\ Replayed /\ eval.holdout = {}
    /\ Ended("failed")
    /\ UNCHANGED <<cases, baseline, evals, golden>>

(* The baseline is written when there is none, and when asked for.         *)
SetBaseline ==
    /\ Replayed /\ eval.holdout # {}
    /\ eval.update \/ baseline = NoFile
    /\ baseline' = Numbers /\ golden' = Numbers
    /\ Ended("set")
    /\ UNCHANGED <<cases, evals>>

(* Killed in the write.                                                    *)
KillInSet ==
    /\ Replayed /\ eval.holdout # {}
    /\ eval.update \/ baseline = NoFile
    /\ baseline' = Torn
    /\ Ended("none")
    /\ UNCHANGED <<cases, evals, golden>>

Compare ==
    /\ Replayed /\ eval.holdout # {}
    /\ ~eval.update /\ baseline # NoFile
    /\ Ended(IF baseline = Torn \/ Regressed(Numbers, baseline) THEN "failed" ELSE "passed")
    /\ UNCHANGED <<cases, baseline, evals, golden>>

Next ==
    \/ \E r \in Runs : Record(r) \/ Replay(r)
    \/ Begin \/ Hold \/ ReplayFails
    \/ NothingReplayed \/ SetBaseline \/ KillInSet \/ Compare

Spec == Init /\ [][Next]_vars

-----------------------------------------------------------------------------
(* Type correctness.                                                       *)
TypeOK ==
    /\ cases \in [Runs -> Outcomes \cup {NoCase}]
    /\ eval.at \in {"idle", "hold", "replay"}
    /\ eval.at = "replay" => DOMAIN eval.results \subseteq eval.holdout
    /\ evals \in 0..MaxEvals
    /\ verdict \in {"none", "set", "passed", "failed"}

(* No drift: an eval that passes is within the tolerance of the numbers the *)
(* operator last set as the baseline, in accuracy and in calibration error, *)
(* however many evals passed or were killed since (cli.py:1979-2008).       *)
NoDrift ==
    [][eval.at = "replay" /\ eval' = Idle /\ verdict' = "passed" =>
           /\ golden # NoFile
           /\ ~(Numbers.accuracy < golden.accuracy - Tolerance)
           /\ ~(Numbers.ece > golden.ece + Tolerance)]_vars
=============================================================================
