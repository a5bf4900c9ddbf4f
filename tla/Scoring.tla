------------------------------- MODULE Scoring --------------------------------
(***************************************************************************)
(* The confidence of a diagnosis (diagnosis/scorer.py).                    *)
(*                                                                         *)
(* The model answers with a confidence of its own, citations, actions and, *)
(* when a power rail failed, words that address its suspects or do not.    *)
(* The scorer keeps the self-report, computes four components from what    *)
(* the run gathered and replaces the confidence by their weighted mean.    *)
(* Fractions are thousandths, rounded as the code rounds them; of the text *)
(* only what the scorer's searches find in it is kept.                     *)
(***************************************************************************)
EXTENDS Integers, FiniteSets

CONSTANTS
    Pages,        \* pages of documents, <<source, page>>
    Sections,     \* references to sections of the prompt, never documents
    NoPage,       \* a reference that names its document only
    None,         \* no failure point; not scored yet
    Suspects,     \* what a failing rail feeds, and the board that supplies it
    Gathered,     \* the kinds of evidence a run may have: Evidence below
    Agreements,   \* what the calibration may say: thousandths
    SelfReports   \* what the model may claim: thousandths

Sources == {p[1] : p \in Pages}
Documents == Pages \cup {<<s, NoPage>> : s \in Sources}
References == Documents \cup Sections

(* Registers decoded, live sensors, or raw output only.                    *)
Evidence ==
    {e \in [kind : {"registers"}, known : Nat, all : Nat \ {0}] : e.known <= e.all}
        \cup {e \in [kind : {"sensors"}, anomaly : BOOLEAN, useful : Nat, all : Nat] :
                  e.useful <= e.all}
        \cup {e \in [kind : {"raw"}, useful : Nat, all : Nat] : e.useful <= e.all}

Verdicts == {"healthy", "degraded", "fault", "unknown"}
Permille == 0..1000

(* The decoded failure point of a power rail, and which of its suspects the *)
(* answer names; or None.                                                   *)
FailurePoints ==
    {f \in [suspects : SUBSET Suspects, addressed : SUBSET Suspects,
            probed : BOOLEAN, engaged : BOOLEAN] : f.addressed \subseteq f.suspects}

Failures == {None} \cup FailurePoints

(* What is told of a score: its components, and what was claimed.          *)
Breakdowns ==
    [retrieval : Permille, evidence : Permille, agreement : Permille,
     certainty : Permille, penalty : {0, 50}, self_reported : Permille]

(* What the constants must satisfy, assumed by Memory                     *)
ScoringAssumption ==
    /\ IsFiniteSet(Pages) /\ IsFiniteSet(Suspects)
    /\ None \notin FailurePoints \cup Breakdowns
    /\ Gathered \subseteq Evidence
    /\ Agreements \subseteq Permille
    /\ SelfReports \subseteq Permille

VARIABLES
    answer,       \* what the run gathered and the model said
    confidence,   \* Diagnosis.confidence
    breakdown     \* Diagnosis.confidence_breakdown, or None

vars == <<answer, confidence, breakdown>>

-----------------------------------------------------------------------------
(* The components.                                                         *)

RoundDiv(a, b) == (2 * a + b) \div (2 * b)        \* a / b to the nearest
Fraction(a, b) == RoundDiv(1000 * a, b)

(* A citation is supported by the page it names, or by any page of its     *)
(* document when it names none.                                            *)
Supports(snippets, ref) ==
    IF ref[2] = NoPage THEN \E p \in snippets : p[1] = ref[1] ELSE ref \in snippets

Cited(a) == a.references \cap Documents
Supported(a) == {ref \in Cited(a) : Supports(a.snippets, ref)}

(* Without documents retrieved, or cited, there is nothing to verify.      *)
Verifiable(a) == a.snippets # {} /\ Cited(a) # {}

Support(a) ==
    IF Verifiable(a) THEN Fraction(Cardinality(Supported(a)), Cardinality(Cited(a))) ELSE 0

(* Live sensors: does the verdict agree with them?  Without sensors, or a  *)
(* verdict, the share of the probes that brought something counts.         *)
SensorFit(verdict, anomaly) ==
    CASE verdict = "fault"    -> IF anomaly THEN 1000 ELSE 300
      [] verdict = "degraded" -> IF anomaly THEN 1000 ELSE 600
      [] verdict = "healthy"  -> IF anomaly THEN 300 ELSE 1000

Fit(a) ==
    LET e == a.evidence IN
    CASE e.kind = "registers" -> Fraction(e.known, e.all)
      [] e.kind = "sensors" /\ a.verdict # "unknown" -> SensorFit(a.verdict, e.anomaly)
      [] OTHER -> IF e.all = 0 THEN 0 ELSE Fraction(e.useful, e.all)

(* Half for the suspects the answer addresses, half for evidence that tells *)
(* them apart: probes of the isolation round, and an answer that uses them. *)
Coverage(f) ==
    IF f.suspects = {} THEN 500
    ELSE Fraction(Cardinality(f.addressed), Cardinality(f.suspects))

Discrimination(f) == IF f.probed /\ f.engaged THEN 1000 ELSE 0

Certainty(f) == RoundDiv(Coverage(f) + Discrimination(f), 2)

Penalty(a) == IF a.acts THEN 0 ELSE 50

-----------------------------------------------------------------------------
(* faulty: a component that does not apply keeps its weight.               *)
WeightsKept(a) ==
    IF a.failure = None
    THEN [retrieval |-> 55, evidence |-> 30, agreement |-> 15, certainty |-> 0]
    ELSE [retrieval |-> 40, evidence |-> 25, agreement |-> 10, certainty |-> 25]

(* The weighted mean, in hundredths; a citation component that cannot be    *)
(* verified leaves the mean.                                                *)
Weights(a) ==
    LET w == IF a.failure = None
             THEN [retrieval |-> 55, evidence |-> 30, agreement |-> 15, certainty |-> 0]
             ELSE [retrieval |-> 40, evidence |-> 25, agreement |-> 10, certainty |-> 25]
    IN IF Verifiable(a) THEN w ELSE [w EXCEPT !.retrieval = 0]

Breakdown(a, self) ==
    [retrieval |-> Support(a), evidence |-> Fit(a), agreement |-> a.agreement,
     certainty |-> IF a.failure = None THEN 0 ELSE Certainty(a.failure),
     penalty |-> Penalty(a), self_reported |-> self]

Total(w) == w.retrieval + w.evidence + w.agreement + w.certainty

Weighted(b, w) ==
    b.retrieval * w.retrieval + b.evidence * w.evidence
        + b.agreement * w.agreement + b.certainty * w.certainty

Clamped(v) == IF v < 0 THEN 0 ELSE IF v > 1000 THEN 1000 ELSE v

Mean(b, w) == RoundDiv(Weighted(b, w), Total(w))

Confidence(b, w) == Clamped(Mean(b, w) - b.penalty)

(* The confidence a would be given.                                        *)
ScoreOf(a) == Confidence(Breakdown(a, 0), Weights(a))

-----------------------------------------------------------------------------
(* A run: the model answers, the answer is scored; a follow-up round makes *)
(* another answer of the same run, scored again.                           *)

Answers ==
    [references : SUBSET References, snippets : SUBSET Pages, evidence : Gathered,
     verdict : Verdicts, failure : Failures, agreement : Agreements, acts : BOOLEAN]

Init ==
    /\ answer \in Answers
    /\ confidence \in SelfReports
    /\ breakdown = None

Score ==
    /\ breakdown = None
    /\ breakdown' = Breakdown(answer, confidence)
    /\ confidence' = Confidence(breakdown', Weights(answer))
    /\ UNCHANGED answer

Reanswer ==
    /\ breakdown # None
    /\ answer' \in {[answer EXCEPT !.references = r] : r \in SUBSET References}
    /\ confidence' \in SelfReports
    /\ breakdown' = None

Next == Score \/ Reanswer

Spec == Init /\ [][Next]_vars

-----------------------------------------------------------------------------
(* Type correctness.                                                       *)
TypeOK ==
    /\ answer \in Answers
    /\ confidence \in Permille
    /\ breakdown \in Breakdowns \cup {None}

(* Answers that are worse than a in one respect.                           *)
Worse(a) ==
    {[a EXCEPT !.snippets = @ \ {p}] : p \in {q \in a.snippets : a.snippets # {q}}}
        \cup {[a EXCEPT !.acts = FALSE]}
        \cup {[a EXCEPT !.agreement = v] : v \in {v \in Agreements : v <= a.agreement}}
        \cup (IF a.failure = None THEN {}
              ELSE {[a EXCEPT !.failure.addressed = @ \ {s}] : s \in Suspects}
                       \cup {[a EXCEPT !.failure.engaged = FALSE],
                             [a EXCEPT !.failure.probed = FALSE]})

(* The components that apply to an answer.                                 *)
Applying(a) ==
    {"evidence", "agreement"} \cup (IF Verifiable(a) THEN {"retrieval"} ELSE {})
                              \cup (IF a.failure = None THEN {} ELSE {"certainty"})

(* Evidence decides: an answer that is worse in one respect (fewer pages    *)
(* behind its citations, a poorer record of its model, fewer suspects       *)
(* addressed, no discriminating probe, no action) is never trusted more     *)
(* (score_diagnosis, root_cause_certainty), and a component that does not   *)
(* apply neither lifts nor lowers the rest (apply_to, 201-204): they keep   *)
(* the answer between the weakest and the strongest of those that do.       *)
EvidenceDecides ==
    breakdown # None =>
        /\ \A worse \in Worse(answer) : ScoreOf(worse) <= confidence
        /\ \E c \in Applying(answer) : confidence <= breakdown[c]
        /\ \E c \in Applying(answer) : confidence + breakdown.penalty >= breakdown[c]

(* A jump to a conclusion costs: off a bare failure point, with no probe    *)
(* that tells the suspects apart, an answer is given at least 0.075 less    *)
(* than the same answer with one (scorer.py:20-28, root_cause_certainty);   *)
(* and what is remembered as the bin it counts in is what the model claimed *)
(* of itself, not what it was given (379-383).                              *)
JumpsCost ==
    (breakdown # None /\ answer.failure # None) =>
        /\ ~(answer.failure.probed /\ answer.failure.engaged) =>
              ScoreOf([answer EXCEPT !.failure.probed = TRUE, !.failure.engaged = TRUE])
                  >= confidence + 75
        /\ breakdown.self_reported \in SelfReports
=============================================================================
