------------------------------- MODULE Learning -------------------------------
(***************************************************************************)
(* What verified outcomes teach the next run: the calibration of each      *)
(* model (diagnosis/calibration.py, `harness calibrate`) and the symptom   *)
(* priors (plan/priors_build.py, plan/subsystem.py, `harness priors        *)
(* update`).                                                               *)
(*                                                                         *)
(* Both are files that a command of the operator rebuilds from the case    *)
(* store, and that every later run reads as they are: labelling,           *)
(* correcting or dropping a case does not touch them.  What a run was      *)
(* (its model, its primary subsystem, the bin its model's own confidence   *)
(* fell in, the keywords of its symptom) is fixed when it ran.  Rates are  *)
(* thousandths, rounded as the code rounds them.                           *)
(***************************************************************************)
EXTENDS Integers, FiniteSets, FiniteSetsExt

CONSTANTS
    Runs,                     \* runs that left a case to label
    IdentOf, SubOf, BinOf,    \* of each run: model, primary subsystem, bin
    KeywordsOf,               \* of each run: the known keywords in its symptom
    Idents, Bins,
    Files, FileOf,            \* the calibration file of an ident
    Table,                    \* Table[s]: the keywords of subsystem s
    Labels,                   \* bound: the outcomes an operator gives here
    MinPerBin, MinVerified,   \* 3 and 10 in the code
    NoCase, NoFile, Torn

Subsystems == DOMAIN Table
Keywords == UNION {Table[s] : s \in Subsystems}
Outcomes == {"fixed", "partial", "not_fixed", "inconclusive", "unknown"}

(* What the constants must satisfy, assumed by Memory                     *)
LearningAssumption ==
    /\ IsFiniteSet(Runs) /\ IsFiniteSet(Subsystems) /\ \A s \in Subsystems : IsFiniteSet(Table[s])
    /\ NoFile \notin [Runs -> Outcomes \cup {NoCase}]
    /\ IdentOf \in [Runs -> Idents]
    /\ SubOf \in [Runs -> Subsystems]
    /\ BinOf \in [Runs -> Bins]
    /\ KeywordsOf \in [Runs -> SUBSET Keywords]
    /\ FileOf \in [Idents -> Files]
    /\ Labels \subseteq Outcomes
    /\ MinPerBin \in Nat \ {0}
    /\ MinVerified \in Nat \ {0}

Shrinkage == 5

VARIABLES
    cases,        \* cases[r]: the outcome recorded for run r, or NoCase
    calibration,  \* calibration[f]: the histogram in file f, or NoFile
    priors,       \* the multipliers in priors.json, NoFile, or Torn
    taught        \* history: taught[f], the cases file f was built over

vars == <<cases, calibration, priors, taught>>

Init ==
    /\ cases = [r \in Runs |-> NoCase]
    /\ calibration = [f \in Files |-> NoFile]
    /\ priors = NoFile
    /\ taught = [f \in Files |-> NoFile]

-----------------------------------------------------------------------------
(* The case store, as far as learning sees it.                             *)

Stored == {r \in Runs : cases[r] # NoCase}

(* label, report, and an import: a run's outcome is recorded or corrected. *)
Record(r) ==
    /\ \E o \in Labels : cases' = [cases EXCEPT ![r] = o]
    /\ UNCHANGED <<calibration, priors, taught>>

(* runs delete --drop-case.                                                *)
Drop(r) ==
    /\ r \in Stored
    /\ cases' = [cases EXCEPT ![r] = NoCase]
    /\ UNCHANGED <<calibration, priors, taught>>

-----------------------------------------------------------------------------
(* Calibration.                                                            *)

RoundDiv(a, b) == (2 * a + b) \div (2 * b)        \* a / b to the nearest

Resolution ==
    [fixed |-> 1000, partial |-> 500, not_fixed |-> 0, inconclusive |-> 250, unknown |-> 500]

SumOver(w, S) == MapThenSumSet(LAMBDA x : w[x], S)

(* faulty: every model's outcomes count.                                   *)
AnyModel(i) == Stored

(* What counts for model i.  An inconclusive outcome counts as well, with a *)
(* quarter.                                                                *)
Usable(i) == {r \in Stored : IdentOf[r] = i}

(* The rate and the size of each bin of a group of runs.                   *)
Rates(group) ==
    [b \in Bins |->
        LET inBin == {r \in group : BinOf[r] = b}
            sum == SumOver([r \in inBin |-> Resolution[cases[r]]], inBin)
        IN [rate |-> IF inBin = {} THEN 500 ELSE RoundDiv(sum, Cardinality(inBin)),
            n |-> Cardinality(inBin)]]

(* A subsystem's thin bins take the rate of all subsystems together.       *)
Histogram(i) ==
    LET all == Rates(Usable(i))
        of(s) == Rates({r \in Usable(i) : SubOf[r] = s})
        thin(bin, b) == IF bin.n < MinPerBin THEN [bin EXCEPT !.rate = all[b].rate] ELSE bin
    IN [ident |-> i, aggregate |-> all,
        subsystem |-> [s \in {SubOf[r] : r \in Usable(i)} |->
                          [b \in Bins |-> thin(of(s)[b], b)]]]

(* calibrate: one model's file, or every model's that has a case; of two    *)
(* models whose names give one file, one is left in it.                     *)
Calibrated(idents) ==
    LET built == {i \in idents : Cardinality(Usable(i)) >= MinPerBin}
        writes(f) == {i \in built : FileOf[i] = f}
        last(f) == CHOOSE i \in writes(f) : TRUE
    IN
    /\ calibration' = [f \in Files |->
           IF writes(f) = {} THEN calibration[f] ELSE Histogram(last(f))]
    /\ taught' = [f \in Files |->
           IF writes(f) = {} THEN taught[f] ELSE cases]

Calibrate ==
    /\ Stored # {}
    /\ \E idents \in {{i} : i \in Idents} \cup {{IdentOf[r] : r \in Stored}} : Calibrated(idents)
    /\ UNCHANGED <<cases, priors>>

(* What a run of model i is told of its own claim: the rate of the bin,    *)
(* pulled towards one half by five cases more.                             *)
Shrunk(rate, n) == RoundDiv(2 * n * rate + Shrinkage * 1000, 2 * (n + Shrinkage))

Loaded(i) == calibration[FileOf[i]]

Bin(cal, s, b) ==
    LET own == IF s \in DOMAIN cal.subsystem THEN cal.subsystem[s][b] ELSE cal.aggregate[b]
    IN IF own.n = 0 THEN cal.aggregate[b] ELSE own

Agreement(i, s, b) ==
    LET cal == Loaded(i) IN
    IF cal = NoFile \/ Bin(cal, s, b).n = 0 THEN 500
    ELSE Shrunk(Bin(cal, s, b).rate, Bin(cal, s, b).n)

-----------------------------------------------------------------------------
(* Priors, in quarters of a case.                                          *)

Weight == [fixed |-> 4, partial |-> 2, not_fixed |-> -3, inconclusive |-> 1, unknown |-> 1]

Clamp(v) == IF v > 2000 THEN 2000 ELSE IF v < 500 THEN 500 ELSE v

Hits(k) == {r \in Stored : k \in KeywordsOf[r]}
Pull(runs) == SumOver([r \in runs |-> Weight[cases[r]]], runs)

(* A keyword whose outcomes cancel out is left to the static table.        *)
Multipliers ==
    [k \in {k \in Keywords : Pull(Hits(k)) > 0} |->
        [s \in Subsystems |->
            Clamp((1000 * Cardinality(Subsystems) * (Pull({r \in Hits(k) : SubOf[r] = s}) + 4))
                      \div (Pull(Hits(k)) + 4))]]

(* priors update: too few cases, or no signal, leave the file as it was.   *)
PriorsUpdate ==
    /\ Cardinality(Stored) >= MinVerified
    /\ DOMAIN Multipliers # {}
    /\ priors' \in {Multipliers, Torn}            \* the file is written in place
    /\ UNCHANGED <<cases, calibration, taught>>

(* classify: the keywords of a symptom vote, as the file says, if there is  *)
(* one that can be read.                                                    *)
Learnt == IF priors \in {NoFile, Torn} THEN <<>> ELSE priors

Vote(k, s) == IF k \in DOMAIN Learnt THEN Clamp(Learnt[k][s]) ELSE 1000

Static(symptom, s) == Cardinality(symptom \cap Table[s])
Score(symptom, s) ==
    LET known == symptom \cap Table[s] IN SumOver([k \in known |-> Vote(k, s)], known)

-----------------------------------------------------------------------------
Next ==
    \/ \E r \in Runs : Record(r) \/ Drop(r)
    \/ Calibrate
    \/ PriorsUpdate

Spec == Init /\ [][Next]_vars

-----------------------------------------------------------------------------
(* Type correctness.                                                       *)
Histograms == [Bins -> [rate : 0..1000, n : 0..Cardinality(Runs)]]

TypeOK ==
    /\ cases \in [Runs -> Outcomes \cup {NoCase}]
    /\ \A f \in Files : calibration[f] # NoFile =>
          /\ calibration[f].ident \in Idents
          /\ calibration[f].aggregate \in Histograms
          /\ \A s \in DOMAIN calibration[f].subsystem : calibration[f].subsystem[s] \in Histograms

(* What the file that model i is given was built over, in bin b: cases of   *)
(* the one model the file names.                                           *)
Own(i, b) ==
    IF Loaded(i) = NoFile THEN {}
    ELSE {r \in Runs : taught[FileOf[i]][r] # NoCase /\ IdentOf[r] = Loaded(i).ident /\ BinOf[r] = b}

(* No unearned trust: a claim is taken to be better than even in a range of *)
(* confidence only if some case of the model the calibration names, claimed *)
(* in that range, came out better than even, worse only if some came out    *)
(* worse, and never further from even than that many cases allow ("never    *)
(* exaggerating on thin data", calibration.py:189-201): outcomes of several *)
(* models are never pooled, though several may read the file.               *)
NoUnearnedTrust ==
    \A i \in Idents, s \in Subsystems, b \in Bins :
        LET a == Agreement(i, s, b)
            seen == Own(i, b)
            outcome(r) == Resolution[taught[FileOf[i]][r]]
        IN /\ a > 500 => \E r \in seen : outcome(r) > 500
           /\ a < 500 => \E r \in seen : outcome(r) < 500
           /\ a >= Shrunk(0, Cardinality(seen)) /\ a <= Shrunk(1000, Cardinality(seen))

(* A model swap inherits nothing: what a model is given is a calibration of *)
(* its own ("a model swap never inherits another model's calibration",      *)
(* operator/cli.py:1585-1586).  Two names that differ in a colon, a slash or *)
(* a blank only have one file (calibration.py:133-135), and the name inside *)
(* it is not compared with the one asked for.                              *)
SwapInheritsNothing == \A i \in Idents : Loaded(i) # NoFile => Loaded(i).ident = i

(* History only tilts: whatever was learnt, a subsystem keeps between half  *)
(* and twice the score the static table gives it, so no candidate of the    *)
(* differential is lost and none overtakes another that has more than four  *)
(* times its keywords (subsystem.py:27-34, classify 73-96).                 *)
HistoryOnlyTilts ==
    \A symptom \in SUBSET Keywords, s \in Subsystems :
        /\ 2 * Score(symptom, s) >= 1000 * Static(symptom, s)
        /\ Score(symptom, s) <= 2000 * Static(symptom, s)
=============================================================================
