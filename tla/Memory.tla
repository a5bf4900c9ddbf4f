------------------------------- MODULE Memory --------------------------------
(***************************************************************************)
(* What the harness remembers and draws on, side by side: what was said,   *)
(* in session.json (Conversation), the documents uploaded (DocLibrary),    *)
(* what the labelled cases taught (Learning), the weight of an answer      *)
(* (Scoring) and the numbers an evaluation is held against (Evaluation).   *)
(* Each keeps files of its own, and what it reads of another's (the cases, *)
(* a run directory, a calibrated confidence) is an input of it, any value. *)
(* So a behaviour is one of a single part, and the states are the parts'   *)
(* side by side, not their product.                                        *)
(***************************************************************************)
EXTENDS Evaluation

CONSTANTS
    None, Procs,
    Dirs, Targets, NoTarget, Down,                              \* Conversation
    MaxSaid, MaxDiagnoses, MaxElsewhere, ToolBudget, MaxStarts,
    Names, Versions, Platforms, Family, Uploads, MaxOps,        \* DocLibrary
    Labelled, IdentOf, SubOf, BinOf, KeywordsOf, Idents, Bins,      \* Learning
    Files, FileOf, Table, MinPerBin, MinVerified,
    Pages, Sections, NoPage, Suspects, Gathered, Agreements,    \* Scoring
    SelfReports

VARIABLES
    inUse,                                                      \* which is in use
    ses, file, saves, done, said, starts,
    pdfs, manifest, chunks, manifestTmp, chunksTmp, work, ops, hurt, removed,
    outcome, calibration, priors, taught,
    answer, confidence, breakdown

talkVars == <<ses, file, saves, done, said, starts>>
docVars == <<pdfs, manifest, chunks, manifestTmp, chunksTmp, work, ops, hurt, removed>>
learnVars == <<outcome, calibration, priors, taught>>
scoreVars == <<answer, confidence, breakdown>>
memoryVars == <<inUse, talkVars, docVars, learnVars, scoreVars, vars>>

Talk == INSTANCE Conversation WITH MaxRuns <- MaxDiagnoses, MaxCalls <- ToolBudget
Docs == INSTANCE DocLibrary
Learnt == INSTANCE Learning WITH Runs <- Labelled, cases <- outcome
Scorer == INSTANCE Scoring

ASSUME PartsAssumption ==
    /\ Talk!ConversationAssumption
    /\ Docs!LibraryAssumption
    /\ Learnt!LearningAssumption
    /\ Scorer!ScoringAssumption
-----------------------------------------------------------------------------
(* The parts not in use stand at an initial state, with no answer yet.      *)
MemoryInit ==
    /\ inUse \in {"talk", "docs", "learning", "scoring", "evaluation"}
    /\ Talk!Init /\ Docs!Init /\ Learnt!Init /\ Init
    /\ \/ inUse = "scoring" /\ Scorer!Init
       \/ inUse # "scoring" /\ answer = None /\ confidence = 0 /\ breakdown = None

TalkStep ==
    /\ inUse = "talk"
    /\ Talk!Next
    /\ UNCHANGED <<inUse, docVars, learnVars, scoreVars, vars>>

DocStep ==
    /\ inUse = "docs"
    /\ Docs!Next
    /\ UNCHANGED <<inUse, talkVars, learnVars, scoreVars, vars>>

LearnStep ==
    /\ inUse = "learning"
    /\ Learnt!Next
    /\ UNCHANGED <<inUse, talkVars, docVars, scoreVars, vars>>

ScoreStep ==
    /\ inUse = "scoring"
    /\ Scorer!Next
    /\ UNCHANGED <<inUse, talkVars, docVars, learnVars, vars>>

EvalStep ==
    /\ inUse = "evaluation"
    /\ Next
    /\ UNCHANGED <<inUse, talkVars, docVars, learnVars, scoreVars>>

MemoryNext == TalkStep \/ DocStep \/ LearnStep \/ ScoreStep \/ EvalStep

MemorySpec == MemoryInit /\ [][MemoryNext]_memoryVars
-----------------------------------------------------------------------------
(* What follows is said of the part in use: the others do not move.        *)
(* NoDrift is Evaluation's own.                                            *)

(* The shape of its state.                                                 *)
AllTypeOK ==
    /\ inUse = "talk" => Talk!TypeOK
    /\ inUse = "docs" => Docs!TypeOK
    /\ inUse = "learning" => Learnt!TypeOK
    /\ inUse = "scoring" => Scorer!TypeOK
    /\ inUse = "evaluation" => TypeOK

(* Conversation: a chat never has a target, nor calls a tool that needs    *)
(* one, whatever it continues or resumes (ChatAgent, _resolve_session).    *)
ChatIsTargetless == inUse = "talk" => Talk!ChatIsTargetless

(* Conversation: the digest a session answers from is what the run         *)
(* directory it names records, or of two terminals the newer run, through  *)
(* kills, saves and resumes that fall between the statements that adopt or *)
(* load a run (repl.py:1116-1120, 543-546, 1697-1714).                     *)
DigestIsRecorded == inUse = "talk" => Talk!DigestIsRecorded

(* DocLibrary: what the manifest lists is answered for, on each platform   *)
(* it is tagged for, through every kill (library.py:156-314).              *)
IndexedIsFound == inUse = "docs" => Docs!IndexedIsFound

(* DocLibrary: a document that was removed is not answered with again      *)
(* until it is uploaded again (library.py:272-282).                        *)
RemovedStaysGone == inUse = "docs" => Docs!RemovedStaysGone

(* Learning: a claim is taken to be better or worse than even only on      *)
(* cases, in that range of confidence, of the one model its calibration    *)
(* names, and no further than they allow (calibration.py:189-201); and history only tilts the differential *)
(* of a symptom, between half and twice the static table's score.          *)
NoUnearnedTrust ==
    inUse = "learning" => Learnt!NoUnearnedTrust /\ Learnt!HistoryOnlyTilts

(* Scoring: an answer worse in one respect is never trusted more, and a    *)
(* component that does not apply neither lifts nor lowers the rest         *)
(* (score_diagnosis, root_cause_certainty); a jump to a conclusion costs   *)
(* at least 0.075.                                                         *)
EvidenceDecides ==
    inUse = "scoring" => Scorer!EvidenceDecides /\ Scorer!JumpsCost
=============================================================================
