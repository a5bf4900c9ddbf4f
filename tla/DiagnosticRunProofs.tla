------------------------ MODULE DiagnosticRunProofs ------------------------
(***************************************************************************)
(* Proofs about DiagnosticRun, for any probes, options and budgets.        *)
(*                                                                         *)
(* The phases follow one another, so most of what holds at the end of a    *)
(* run was settled at a point it has passed: each part of the inductive    *)
(* invariant says what is so from one point of the run on.  What must      *)
(* survive an abort is said of the files, prompts and records themselves.  *)
(***************************************************************************)
EXTENDS DiagnosticRun, FiniteSetTheorems, SequenceTheorems, TLAPS

(* The phases, in order. *)
Opening == {"endpoint", "mkdir", "runStart", "runner", "redfish", "testLogs"}
Finding == {"detect", "retrieve", "plan", "prebatch", "recover", "hook"}
Probing == {"collect", "docProbes", "decode", "isolate", "askParts", "isolateProbes"}
Following == {"followProbes", "followDecode", "followPrompt", "followReason"}
Writing == {"finalize", "auditCommands", "auditDiagnosis", "diagnosisFile"}
Closing == {"case", "meta", "closeForward", "closeRedfish", "done"}
Ending == {"aborting", "aborted"}
Unasked == Opening \cup Finding \cup Probing \cup {"prompt"}
Unfiled == Unasked \cup {"reason"} \cup Following \cup Writing

(* How far the run is in asking the model. *)
StageInv ==
    /\ pc \notin Ending => why = "none"
    /\ pc \in Unasked => prompts = <<>> /\ asked = 0
    /\ pc = "reason" => Len(prompts) = 1 /\ asked = 0
    /\ pc \in Following => /\ Len(prompts) = IF pc = "followReason" THEN 2 ELSE 1
                           /\ asked = 1
    /\ pc \in Writing \cup {"gate"} \cup Closing => asked = Len(prompts) /\ asked \in 1..2
    /\ pc \in Following \cup Writing \cup {"gate"} \cup Closing => diagnosis \in DiagnosisType
    /\ asked <= Len(prompts)

(* The snippets are of the model from their retrieval on, and the model is *)
(* reported once, before the first prompt.                                 *)
ModelInv ==
    /\ pc \notin Opening \cup {"detect", "retrieve"} \cup Ending => snippets.key = model
    /\ pc \in Opening \cup Finding => reported = <<>>
    /\ pc \notin Opening \cup Finding \cup Ending => reported = <<model>>

(* After a cancel the model was asked no more often, or once more by a     *)
(* call that no unchecked point follows.                                   *)
CancelInv ==
    cancelled => \/ asked <= atCancel
                 \/ /\ asked = atCancel + 1
                    /\ pc \notin {"followDecode", "followPrompt", "followReason"}

(* A probe whose dump is good was run, and is not run again by name: the   *)
(* isolation round shares none with the rounds that are decoded.           *)
RanWell == {p \in Probes : calls[p] # "none"}

DumpInv ==
    /\ pc \in Opening \cup Finding \cup Probing => dumps["isolation"] = {}
    /\ pc \in Opening \cup Finding \cup {"collect", "docProbes", "decode"} => decoded = {}
    /\ opts.console => /\ Decode(dumps) \subseteq RanWell
                       /\ Good(dumps["isolation"]) \subseteq RanWell
    /\ ~opts.console => Good(dumps["isolation"]) = {}
    /\ Good(dumps["isolation"]) \cap Decode(dumps) = {}
    /\ decoded \subseteq Decode(dumps)

(* What is decoded is what the dumps decode to, and what the last prompt   *)
(* showed, at every point that reads one of them.                          *)
Shown == /\ Last(prompts).decoded = decoded
         /\ Last(prompts).raw = dumps["isolation"]
Kept == /\ diagnosis.evidence = Last(prompts).decoded
        /\ diagnosis.evidence = Decode(saved)
        /\ Last(prompts).raw = saved["isolation"]

EvidenceInv ==
    /\ pc \in {"isolate", "askParts", "isolateProbes", "prompt", "reason", "followProbes",
               "followPrompt", "followReason", "finalize"} => decoded = Decode(dumps)
    /\ pc \in {"reason", "followProbes", "followReason", "finalize"} => Shown
    /\ pc \in (Writing \ {"finalize"}) \cup {"gate"} \cup Closing => Kept
    /\ pc \in Unfiled => "diagnosis.json" \notin files

(* The artifacts on disk at each point. *)
FileInv ==
    /\ pc \in {"endpoint", "mkdir"} => runDir = "none"
    /\ pc \notin {"endpoint", "mkdir"} \cup Ending => runDir = "present"
    /\ pc = "aborting" => runDir # "discarded"
    /\ runDir # "present" => files = {}
    /\ pc \notin {"endpoint", "mkdir", "runStart"} \cup Ending => "audit.jsonl" \in files
    /\ pc \notin Opening \cup Ending /\ opts.logs => "test_logs" \in files
    /\ pc \in {"auditCommands", "auditDiagnosis", "diagnosisFile", "gate"} \cup Closing =>
          "dumps.json" \in files
    /\ pc \in {"auditDiagnosis", "diagnosisFile", "gate"} \cup Closing => "trace.json" \in files
    /\ prompts # <<>> => "prompt.txt" \in files
    /\ saved # [r \in Rounds |-> {}] => "dumps.json" \in files
    /\ opts.logs /\ reported # <<>> => "test_logs" \in files

(* The gate decides every action before the case is seated. *)
Approvals == {i \in DOMAIN audit : audit[i] = "approval"}

GateInv ==
    /\ pc \in {"diagnosisFile", "gate"} \cup Closing => Contains(audit, "diagnosis")
    /\ pc \in Unfiled => Approvals = {}
    /\ pc = "gate" => Decisions <= diagnosis.actions
    /\ pc \in Closing => Decisions = diagnosis.actions
    /\ pc \in Unfiled \cup {"gate", "case"} => "pending_case.json" \notin files
    /\ pc \in {"gate"} \cup Closing => "diagnosis.json" \in files

(* What is still open at the end. *)
OpenInv ==
    /\ pc \in {"closeRedfish", "done"} => "forward" \notin open
    /\ pc = "done" => "redfish" \notin open

IInv == /\ TypeOK /\ StageInv /\ ModelInv /\ OneModelPerRun /\ CancelInv /\ DumpInv
        /\ EvidenceInv /\ EvidenceIsReproducible /\ FileInv /\ GateInv /\ ArtifactsAgree
        /\ OnlyBareRunsDiscarded /\ OpenInv
-----------------------------------------------------------------------------
(* The parts of TypeOK. *)
ControlTypeOK ==
    /\ pc \in Points /\ opts \in Options /\ cancelled \in BOOLEAN
    /\ steps \in 0..(IF why = "steps" THEN MaxSteps + 1 ELSE MaxSteps)
    /\ why \in {"none", "cancel", "steps", "wall", "error"}
    /\ open \subseteq {"forward", "session", "redfish"}
    /\ asked \in 0..2 /\ atCancel \in 0..2

ProbeTypeOK ==
    /\ model \in Models /\ snippets \in SnippetType
    /\ planned \subseteq Probes /\ mined \subseteq Probes
    /\ calls \in [Probes -> {"none", "ok", "failed"}]
    /\ dumps \in [Rounds -> SUBSET Dumps] /\ saved \in [Rounds -> SUBSET Dumps]
    /\ decoded \subseteq Probes /\ faulty \subseteq Probes
    /\ iso \in [probes : SUBSET Probes, parts : BOOLEAN, failure : BOOLEAN]

WriteTypeOK ==
    /\ diagnosis \in DiagnosisType \cup {NoDiagnosis}
    /\ prompts \in Seq(PromptType)
    /\ runDir \in {"none", "present", "discarded"} /\ files \subseteq Artifacts
    /\ audit \in Seq(Events) /\ reported \in Seq(Models)

LEMMA TypeParts == TypeOK <=> ControlTypeOK /\ ProbeTypeOK /\ WriteTypeOK
BY DEF TypeOK, ControlTypeOK, ProbeTypeOK, WriteTypeOK

\* What running probes does to their results.
LEMMA ExecuteCalls ==
  ASSUME ProbeTypeOK, NEW ps, Execute(ps)
  PROVE  /\ calls' \in [Probes -> {"none", "ok", "failed"}]
         /\ RanWell \subseteq RanWell'
         /\ ps \cap Probes \subseteq RanWell'
BY DEF Execute, ProbeTypeOK, RanWell

LEMMA RunNamedCalls ==
  ASSUME ProbeTypeOK, NEW ps, RunNamed(ps)
  PROVE  /\ calls' \in [Probes -> {"none", "ok", "failed"}]
         /\ RanWell \subseteq RanWell'
         /\ ~opts.console => calls' = calls
<1>1. CASE opts.console
  BY <1>1, ExecuteCalls DEF RunNamed
<1>2. CASE ~opts.console
  BY <1>2 DEF RunNamed, ProbeTypeOK, RanWell
<1> QED
  BY <1>1, <1>2

\* The dumps of a round name its probes.
LEMMA DumpTypes ==
  ASSUME NEW ps \in SUBSET Probes
  PROVE  DumpsOf(ps) \subseteq Dumps /\ NamedDumps(ps) \subseteq Dumps
<1>1. \A p \in ps, b \in BOOLEAN : [probe |-> p, ok |-> b] \in Dumps
  BY DEF Dumps
<1>2. \A p \in ps : (calls'[p] = "ok") \in BOOLEAN /\ FALSE \in BOOLEAN
  OBVIOUS
<1>3. DumpsOf(ps) \subseteq Dumps
  BY <1>1, <1>2, Zenon DEF DumpsOf
<1>4. {[probe |-> p, ok |-> FALSE] : p \in ps} \subseteq Dumps
  BY <1>1, <1>2, Zenon
<1> QED
  BY <1>3, <1>4, Zenon DEF NamedDumps

\* A prompt is made of the facts as they are.
LEMMA PromptTyped ==
  ASSUME ProbeTypeOK, NEW c \in BOOLEAN
  PROVE  Prompt(c) \in PromptType
BY DEF ProbeTypeOK, Prompt, PromptType, SnippetType, Models, Rounds

\* Both prompts are saved with what the run knows.
LEMMA PromptSaved ==
  ASSUME TypeOK, BuildPrompt \/ FollowPrompt
  PROVE  /\ BuildPrompt => pc = "prompt" /\ Checked("reason")
         /\ FollowPrompt => pc = "followPrompt" /\ Checked("followReason")
         /\ UNCHANGED <<controlVars, open, model, snippets, probeVars, iso, diagnosis,
                        asked, runDir, saved, auditVars>>
         /\ files' = files \cup {"prompt.txt"}
         /\ prompts' \in Seq(PromptType) /\ prompts' # <<>>
         /\ Len(prompts') = Len(prompts) + 1 /\ DOMAIN prompts' = 1..Len(prompts')
         /\ \A i \in 1..Len(prompts) : prompts'[i] = prompts[i]
         /\ Last(prompts') = prompts'[Len(prompts')]
         /\ Last(prompts').model = model /\ Last(prompts').key = snippets.key
         /\ Last(prompts').cases = model
         /\ Last(prompts').decoded = decoded /\ Last(prompts').raw = dumps["isolation"]
<1>1. PICK c \in BOOLEAN : SavePrompt(c)
  BY Zenon DEF BuildPrompt, FollowPrompt
<1>2. prompts' = Append(prompts, Prompt(c)) /\ files' = files \cup {"prompt.txt"}
  BY <1>1, Zenon DEF SavePrompt
<1>3. Prompt(c) \in PromptType
  BY PromptTyped, TypeParts
<1>4. /\ Prompt(c).model = model /\ Prompt(c).key = snippets.key
      /\ Prompt(c).cases = model
      /\ Prompt(c).decoded = decoded /\ Prompt(c).raw = dumps["isolation"]
  BY DEF Prompt
<1>5. /\ BuildPrompt => pc = "prompt" /\ Checked("reason")
      /\ FollowPrompt => pc = "followPrompt" /\ Checked("followReason")
      /\ UNCHANGED <<controlVars, open, model, snippets, probeVars, iso, diagnosis,
                     asked, runDir, saved, auditVars>>
  BY Zenon DEF BuildPrompt, FollowPrompt
<1>6. PICK q : q = Prompt(c)
  OBVIOUS
<1>7. prompts \in Seq(PromptType) /\ q \in PromptType /\ prompts' = Append(prompts, q)
  BY <1>2, <1>3, <1>6, TypeParts, Zenon DEF WriteTypeOK
<1>8. /\ prompts' \in Seq(PromptType) /\ prompts' # <<>>
      /\ Len(prompts') = Len(prompts) + 1 /\ DOMAIN prompts' = 1..Len(prompts')
      /\ \A i \in 1..Len(prompts) : prompts'[i] = prompts[i]
      /\ prompts'[Len(prompts')] = q
  BY <1>7
<1>9. Last(prompts') = q
  BY <1>8, Zenon DEF Last
<1> QED
  BY <1>2, <1>4, <1>5, <1>6, <1>8, <1>9, Zenon

\* The control state keeps its type.
LEMMA ControlTypeStep == TypeOK /\ StageInv /\ [Next]_vars => ControlTypeOK'
<1> SUFFICES ASSUME TypeOK, StageInv, [Next]_vars PROVE ControlTypeOK'
  OBVIOUS
<1> USE RunAssumption, TypeParts DEF vars, controlVars, budgetVars, probeVars,
    reasonVars, fileVars, auditVars, GoTo, Stop, ControlTypeOK, StageInv,
    Points, Running, Opening, Finding, Probing, Following, Writing, Closing,
    Ending, Unasked, Unfiled
<1>1. CASE PrepareEndpoint
  BY <1>1 DEF PrepareEndpoint
<1>2. CASE MakeRunDir
  BY <1>2 DEF MakeRunDir
<1>3. CASE RunStart
  BY <1>3 DEF RunStart
<1>4. CASE OpenRunner
  BY <1>4 DEF OpenRunner
<1>5. CASE BuildRedfish
  BY <1>5 DEF BuildRedfish
<1>6. CASE CopyTestLogs
  BY <1>6 DEF CopyTestLogs
<1>7. CASE Detect
  BY <1>7 DEF Detect
<1>8. CASE Retrieve
  BY <1>8 DEF Retrieve, Checked, Retrieved
<1>9. CASE Plan
  BY <1>9 DEF Plan, Checked
<1>10. CASE Prebatch
  BY <1>10 DEF Prebatch
<1>11. CASE RecoverModel
  BY <1>11 DEF RecoverModel, Retrieved
<1>12. CASE ReportModel
  BY <1>12 DEF ReportModel
<1>13. CASE Collect
  BY <1>13 DEF Collect
<1>14. CASE CollectDocProbes
  BY <1>14 DEF CollectDocProbes, Checked
<1>15. CASE DecodeDumps
  BY <1>15 DEF DecodeDumps, Checked
<1>16. CASE Isolate
  BY <1>16 DEF Isolate, Checked
<1>17. CASE AskParts
  BY <1>17 DEF AskParts
<1>18. CASE IsolateProbes
  BY <1>18 DEF IsolateProbes
<1>19. CASE BuildPrompt
  BY <1>19, PromptSaved DEF Checked
<1>20. CASE Reason
  BY <1>20 DEF Reason, Answer
<1>21. CASE NoFollowUp
  BY <1>21 DEF NoFollowUp
<1>22. CASE FollowProbes
  BY <1>22 DEF FollowProbes, Checked
<1>23. CASE FollowDecode
  BY <1>23 DEF FollowDecode, Checked
<1>24. CASE FollowPrompt
  BY <1>24, PromptSaved DEF Checked
<1>25. CASE FollowReason
  BY <1>25 DEF FollowReason, Answer
<1>26. CASE Finalize
  BY <1>26 DEF Finalize
<1>27. CASE AuditCommands
  BY <1>27 DEF AuditCommands, Record, Produce
<1>28. CASE AuditDiagnosis
  BY <1>28 DEF AuditDiagnosis, Record, Produce
<1>29. CASE WriteDiagnosis
  BY <1>29 DEF WriteDiagnosis, Produce
<1>30. CASE ApproveAction
  BY <1>30 DEF ApproveAction, Record, Produce
<1>31. CASE GateDone
  BY <1>31 DEF GateDone
<1>32. CASE SeatPendingCase
  BY <1>32 DEF SeatPendingCase, Produce
<1>33. CASE WriteRunMeta
  BY <1>33 DEF WriteRunMeta, Produce
<1>34. CASE CloseForward
  BY <1>34 DEF CloseForward
<1>35. CASE CloseRedfish
  BY <1>35 DEF CloseRedfish
<1>36. CASE Abort
  BY <1>36 DEF Abort
<1>37. CASE Cancel
  BY <1>37 DEF Cancel
<1>38. CASE Raise
  BY <1>38 DEF Raise
<1>39. CASE UNCHANGED vars
  BY <1>39
<1> QED
  BY <1>1, <1>2, <1>3, <1>4, <1>5, <1>6, <1>7, <1>8, <1>9, <1>10, <1>11, <1>12,
     <1>13, <1>14, <1>15, <1>16, <1>17, <1>18, <1>19, <1>20, <1>21, <1>22,
     <1>23, <1>24, <1>25, <1>26, <1>27, <1>28, <1>29, <1>30, <1>31, <1>32,
     <1>33, <1>34, <1>35, <1>36, <1>37, <1>38, <1>39 DEF Next, Ended, RunStep,
     OpenStep, ProbeStep, IsolateStep, ReasonStep, WriteStep

\* The facts and the probes keep their types.
LEMMA ProbeTypeStep == TypeOK /\ StageInv /\ [Next]_vars => ProbeTypeOK'
<1> SUFFICES ASSUME TypeOK, StageInv, [Next]_vars PROVE ProbeTypeOK'
  OBVIOUS
<1> USE TypeParts DEF vars, controlVars, budgetVars, probeVars, reasonVars,
    fileVars, auditVars, GoTo, Stop, ProbeTypeOK, Rounds
<1>1. CASE PrepareEndpoint
  BY <1>1 DEF PrepareEndpoint
<1>2. CASE MakeRunDir
  BY <1>2 DEF MakeRunDir
<1>3. CASE RunStart
  BY <1>3 DEF RunStart
<1>4. CASE OpenRunner
  BY <1>4 DEF OpenRunner
<1>5. CASE BuildRedfish
  BY <1>5 DEF BuildRedfish
<1>6. CASE CopyTestLogs
  BY <1>6 DEF CopyTestLogs
<1>7. CASE Detect
  BY <1>7 DEF Detect, Models, NoModel
<1>8. CASE Retrieve
  BY <1>8 DEF Retrieve, Checked, Retrieved, SnippetType
<1>9. CASE Plan
  BY <1>9 DEF Plan, Checked, SnippetType
<1>10. CASE Prebatch
  BY <1>10, ExecuteCalls DEF Prebatch
<1>11. CASE RecoverModel
  BY <1>11 DEF RecoverModel, Retrieved, SnippetType, Models
<1>12. CASE ReportModel
  BY <1>12 DEF ReportModel
<1>13. CASE Collect
  BY <1>13, ExecuteCalls, DumpTypes DEF Collect
<1>14. CASE CollectDocProbes
  BY <1>14, RunNamedCalls, DumpTypes DEF CollectDocProbes, Checked
<1>15. CASE DecodeDumps
  BY <1>15 DEF DecodeDumps, Checked, Decode, Good, Dumps
<1>16. CASE Isolate
  BY <1>16 DEF Isolate, Checked
<1>17. CASE AskParts
  <2>1. ASSUME NEW named \in SUBSET Probes, NEW parts \in BOOLEAN,
               iso' = [probes |-> named, parts |-> parts, failure |-> TRUE]
        PROVE  iso' \in [probes : SUBSET Probes, parts : BOOLEAN, failure : BOOLEAN]
    BY <2>1
  <2>2. iso' \in [probes : SUBSET Probes, parts : BOOLEAN, failure : BOOLEAN]
    <3>1. (IF opts.ask THEN BOOLEAN ELSE {FALSE}) \subseteq BOOLEAN
      OBVIOUS
    <3>2. {} \in SUBSET Probes /\ FALSE \in BOOLEAN
      OBVIOUS
    <3> QED
      BY <1>17, <2>1, <3>1, <3>2, Zenon DEF AskParts
  <2> QED
    BY <1>17, <2>2 DEF AskParts
<1>18. CASE IsolateProbes
  BY <1>18, RunNamedCalls, DumpTypes DEF IsolateProbes
<1>19. CASE BuildPrompt
  BY <1>19, PromptSaved DEF Checked
<1>20. CASE Reason
  BY <1>20 DEF Reason, Answer
<1>21. CASE NoFollowUp
  BY <1>21 DEF NoFollowUp
<1>22. CASE FollowProbes
  <2> DEFINE old == dumps["doc_guided"]
             new == {d \in NamedDumps(FollowUp) : \A e \in old : e.probe # d.probe}
  <2>1. FollowUp \in SUBSET Probes
    BY <1>22 DEF FollowProbes, FollowUp, WriteTypeOK, DiagnosisType, NoDiagnosis, StageInv,
       Following
  <2>2. old \cup new \in SUBSET Dumps
    BY <2>1, DumpTypes
  <2>3. calls' \in [Probes -> {"none", "ok", "failed"}]
    BY <1>22, RunNamedCalls DEF FollowProbes
  <2>4. dumps' = [dumps EXCEPT !["doc_guided"] = old \cup new]
    BY <1>22 DEF FollowProbes
  <2> HIDE DEF old, new
  <2> QED
    BY <1>22, <2>2, <2>3, <2>4 DEF FollowProbes
<1>23. CASE FollowDecode
  BY <1>23 DEF FollowDecode, Checked, Decode, Good, Dumps
<1>24. CASE FollowPrompt
  BY <1>24, PromptSaved DEF Checked
<1>25. CASE FollowReason
  BY <1>25 DEF FollowReason, Answer
<1>26. CASE Finalize
  BY <1>26 DEF Finalize
<1>27. CASE AuditCommands
  BY <1>27 DEF AuditCommands, Record, Produce
<1>28. CASE AuditDiagnosis
  BY <1>28 DEF AuditDiagnosis, Record, Produce
<1>29. CASE WriteDiagnosis
  BY <1>29 DEF WriteDiagnosis, Produce
<1>30. CASE ApproveAction
  BY <1>30 DEF ApproveAction, Record, Produce
<1>31. CASE GateDone
  BY <1>31 DEF GateDone
<1>32. CASE SeatPendingCase
  BY <1>32 DEF SeatPendingCase, Produce
<1>33. CASE WriteRunMeta
  BY <1>33 DEF WriteRunMeta, Produce
<1>34. CASE CloseForward
  BY <1>34 DEF CloseForward
<1>35. CASE CloseRedfish
  BY <1>35 DEF CloseRedfish
<1>36. CASE Abort
  BY <1>36 DEF Abort
<1>37. CASE Cancel
  BY <1>37 DEF Cancel
<1>38. CASE Raise
  BY <1>38 DEF Raise
<1>39. CASE UNCHANGED vars
  BY <1>39
<1> QED
  BY <1>1, <1>2, <1>3, <1>4, <1>5, <1>6, <1>7, <1>8, <1>9, <1>10, <1>11, <1>12,
     <1>13, <1>14, <1>15, <1>16, <1>17, <1>18, <1>19, <1>20, <1>21, <1>22,
     <1>23, <1>24, <1>25, <1>26, <1>27, <1>28, <1>29, <1>30, <1>31, <1>32,
     <1>33, <1>34, <1>35, <1>36, <1>37, <1>38, <1>39 DEF Next, Ended, RunStep,
     OpenStep, ProbeStep, IsolateStep, ReasonStep, WriteStep

\* What is written keeps its type.
LEMMA WriteTypeStep == TypeOK /\ StageInv /\ [Next]_vars => WriteTypeOK'
<1> SUFFICES ASSUME TypeOK, StageInv, [Next]_vars PROVE WriteTypeOK'
  OBVIOUS
<1> USE TypeParts DEF vars, controlVars, budgetVars, probeVars, reasonVars,
    fileVars, auditVars, GoTo, Stop, WriteTypeOK, Artifacts
<1>1. CASE PrepareEndpoint
  BY <1>1 DEF PrepareEndpoint
<1>2. CASE MakeRunDir
  BY <1>2 DEF MakeRunDir
<1>3. CASE RunStart
  <2>1. <<"run_start", "test_log_loaded">> \in Seq(Events) /\ <<"run_start">> \in Seq(Events)
    BY DEF Events
  <2>2. audit' \in Seq(Events)
    BY <1>3, <2>1 DEF RunStart
  <2> QED
    BY <1>3, <2>2 DEF RunStart
<1>4. CASE OpenRunner
  BY <1>4 DEF OpenRunner
<1>5. CASE BuildRedfish
  BY <1>5 DEF BuildRedfish
<1>6. CASE CopyTestLogs
  BY <1>6 DEF CopyTestLogs
<1>7. CASE Detect
  BY <1>7 DEF Detect
<1>8. CASE Retrieve
  BY <1>8 DEF Retrieve, Checked, Retrieved
<1>9. CASE Plan
  BY <1>9 DEF Plan, Checked
<1>10. CASE Prebatch
  BY <1>10 DEF Prebatch
<1>11. CASE RecoverModel
  BY <1>11 DEF RecoverModel, Retrieved
<1>12. CASE ReportModel
  BY <1>12 DEF ReportModel, ProbeTypeOK, Events
<1>13. CASE Collect
  BY <1>13 DEF Collect
<1>14. CASE CollectDocProbes
  BY <1>14 DEF CollectDocProbes, Checked
<1>15. CASE DecodeDumps
  BY <1>15 DEF DecodeDumps, Checked
<1>16. CASE Isolate
  BY <1>16 DEF Isolate, Checked
<1>17. CASE AskParts
  BY <1>17 DEF AskParts
<1>18. CASE IsolateProbes
  BY <1>18 DEF IsolateProbes
<1>19. CASE BuildPrompt
  BY <1>19, PromptSaved DEF Checked
<1>20. CASE Reason
  BY <1>20 DEF Reason, Answer, ProbeTypeOK, DiagnosisType
<1>21. CASE NoFollowUp
  BY <1>21 DEF NoFollowUp
<1>22. CASE FollowProbes
  BY <1>22 DEF FollowProbes, Checked
<1>23. CASE FollowDecode
  BY <1>23 DEF FollowDecode, Checked
<1>24. CASE FollowPrompt
  BY <1>24, PromptSaved DEF Checked
<1>25. CASE FollowReason
  BY <1>25 DEF FollowReason, Answer, ProbeTypeOK, DiagnosisType
<1>26. CASE Finalize
  BY <1>26 DEF Finalize, ProbeTypeOK, DiagnosisType, StageInv, Following,
     Writing
<1>27. CASE AuditCommands
  BY <1>27 DEF AuditCommands, Record, Produce, Events
<1>28. CASE AuditDiagnosis
  BY <1>28 DEF AuditDiagnosis, Record, Produce, Events
<1>29. CASE WriteDiagnosis
  BY <1>29 DEF WriteDiagnosis, Produce
<1>30. CASE ApproveAction
  BY <1>30 DEF ApproveAction, Record, Produce, Events
<1>31. CASE GateDone
  BY <1>31 DEF GateDone
<1>32. CASE SeatPendingCase
  BY <1>32 DEF SeatPendingCase, Produce
<1>33. CASE WriteRunMeta
  BY <1>33 DEF WriteRunMeta, Produce
<1>34. CASE CloseForward
  BY <1>34 DEF CloseForward
<1>35. CASE CloseRedfish
  BY <1>35 DEF CloseRedfish
<1>36. CASE Abort
  BY <1>36 DEF Abort
<1>37. CASE Cancel
  BY <1>37 DEF Cancel
<1>38. CASE Raise
  BY <1>38 DEF Raise
<1>39. CASE UNCHANGED vars
  BY <1>39
<1> QED
  BY <1>1, <1>2, <1>3, <1>4, <1>5, <1>6, <1>7, <1>8, <1>9, <1>10, <1>11, <1>12,
     <1>13, <1>14, <1>15, <1>16, <1>17, <1>18, <1>19, <1>20, <1>21, <1>22,
     <1>23, <1>24, <1>25, <1>26, <1>27, <1>28, <1>29, <1>30, <1>31, <1>32,
     <1>33, <1>34, <1>35, <1>36, <1>37, <1>38, <1>39 DEF Next, Ended, RunStep,
     OpenStep, ProbeStep, IsolateStep, ReasonStep, WriteStep

\* How far the run is in asking the model.
LEMMA StageStep == TypeOK /\ StageInv /\ [Next]_vars => StageInv'
<1> SUFFICES ASSUME TypeOK, StageInv, [Next]_vars PROVE StageInv'
  OBVIOUS
<1> USE TypeParts DEF vars, controlVars, budgetVars, probeVars, reasonVars,
    fileVars, auditVars, GoTo, Stop, ControlTypeOK, StageInv, Points, Running,
    Opening, Finding, Probing, Following, Writing, Closing, Ending, Unasked,
    Unfiled
<1>1. CASE PrepareEndpoint
  BY <1>1 DEF PrepareEndpoint
<1>2. CASE MakeRunDir
  BY <1>2 DEF MakeRunDir
<1>3. CASE RunStart
  BY <1>3 DEF RunStart
<1>4. CASE OpenRunner
  BY <1>4 DEF OpenRunner
<1>5. CASE BuildRedfish
  BY <1>5 DEF BuildRedfish
<1>6. CASE CopyTestLogs
  BY <1>6 DEF CopyTestLogs
<1>7. CASE Detect
  BY <1>7 DEF Detect
<1>8. CASE Retrieve
  BY <1>8 DEF Retrieve, Checked, Retrieved
<1>9. CASE Plan
  BY <1>9 DEF Plan, Checked
<1>10. CASE Prebatch
  BY <1>10 DEF Prebatch
<1>11. CASE RecoverModel
  BY <1>11 DEF RecoverModel, Retrieved
<1>12. CASE ReportModel
  BY <1>12 DEF ReportModel
<1>13. CASE Collect
  BY <1>13 DEF Collect
<1>14. CASE CollectDocProbes
  BY <1>14 DEF CollectDocProbes, Checked
<1>15. CASE DecodeDumps
  BY <1>15 DEF DecodeDumps, Checked
<1>16. CASE Isolate
  BY <1>16 DEF Isolate, Checked
<1>17. CASE AskParts
  BY <1>17 DEF AskParts
<1>18. CASE IsolateProbes
  BY <1>18 DEF IsolateProbes
<1>19. CASE BuildPrompt
  BY <1>19, PromptSaved DEF Checked, WriteTypeOK
<1>20. CASE Reason
  BY <1>20 DEF Reason, Answer, ProbeTypeOK, DiagnosisType
<1>21. CASE NoFollowUp
  BY <1>21 DEF NoFollowUp
<1>22. CASE FollowProbes
  BY <1>22 DEF FollowProbes, Checked
<1>23. CASE FollowDecode
  BY <1>23 DEF FollowDecode, Checked
<1>24. CASE FollowPrompt
  <2>1. Len(prompts) = 1 /\ asked = 1 /\ diagnosis \in DiagnosisType
    BY <1>24, PromptSaved
  <2>2. Len(prompts') = 2 /\ prompts' # <<>>
    BY <1>24, <2>1, PromptSaved DEF WriteTypeOK
  <2> HIDE DEF WriteTypeOK
  <2> QED
    BY <1>24, <2>1, <2>2, PromptSaved DEF Checked
<1>25. CASE FollowReason
  <2>1. diagnosis' \in DiagnosisType
    BY <1>25 DEF FollowReason, Answer, ProbeTypeOK, DiagnosisType
  <2>2. Len(prompts) = 2 /\ asked' = 2
    BY <1>25 DEF FollowReason, Answer
  <2> QED
    BY <1>25, <2>1, <2>2 DEF FollowReason
<1>26. CASE Finalize
  BY <1>26 DEF Finalize, DiagnosisType, ProbeTypeOK
<1>27. CASE AuditCommands
  BY <1>27 DEF AuditCommands, Record, Produce
<1>28. CASE AuditDiagnosis
  BY <1>28 DEF AuditDiagnosis, Record, Produce
<1>29. CASE WriteDiagnosis
  BY <1>29 DEF WriteDiagnosis, Produce
<1>30. CASE ApproveAction
  BY <1>30 DEF ApproveAction, Record, Produce
<1>31. CASE GateDone
  BY <1>31 DEF GateDone
<1>32. CASE SeatPendingCase
  BY <1>32 DEF SeatPendingCase, Produce
<1>33. CASE WriteRunMeta
  BY <1>33 DEF WriteRunMeta, Produce
<1>34. CASE CloseForward
  BY <1>34 DEF CloseForward
<1>35. CASE CloseRedfish
  BY <1>35 DEF CloseRedfish
<1>36. CASE Abort
  BY <1>36 DEF Abort
<1>37. CASE Cancel
  BY <1>37 DEF Cancel
<1>38. CASE Raise
  BY <1>38 DEF Raise
<1>39. CASE UNCHANGED vars
  BY <1>39
<1> QED
  BY <1>1, <1>2, <1>3, <1>4, <1>5, <1>6, <1>7, <1>8, <1>9, <1>10, <1>11, <1>12,
     <1>13, <1>14, <1>15, <1>16, <1>17, <1>18, <1>19, <1>20, <1>21, <1>22,
     <1>23, <1>24, <1>25, <1>26, <1>27, <1>28, <1>29, <1>30, <1>31, <1>32,
     <1>33, <1>34, <1>35, <1>36, <1>37, <1>38, <1>39 DEF Next, Ended, RunStep,
     OpenStep, ProbeStep, IsolateStep, ReasonStep, WriteStep

\* The snippets follow the model, and the model is reported once.
LEMMA ModelStep == TypeOK /\ StageInv /\ ModelInv /\ [Next]_vars => ModelInv'
<1> SUFFICES ASSUME TypeOK, StageInv, ModelInv, [Next]_vars PROVE ModelInv'
  OBVIOUS
<1> USE TypeParts DEF vars, controlVars, budgetVars, probeVars, reasonVars,
    fileVars, auditVars, GoTo, Stop, ModelInv, Points, Running, ControlTypeOK,
    Opening, Finding, Ending
<1>1. CASE PrepareEndpoint
  BY <1>1 DEF PrepareEndpoint
<1>2. CASE MakeRunDir
  BY <1>2 DEF MakeRunDir
<1>3. CASE RunStart
  BY <1>3 DEF RunStart
<1>4. CASE OpenRunner
  BY <1>4 DEF OpenRunner
<1>5. CASE BuildRedfish
  BY <1>5 DEF BuildRedfish
<1>6. CASE CopyTestLogs
  BY <1>6 DEF CopyTestLogs
<1>7. CASE Detect
  BY <1>7 DEF Detect
<1>8. CASE Retrieve
  BY <1>8 DEF Retrieve, Checked, Retrieved
<1>9. CASE Plan
  BY <1>9 DEF Plan, Checked
<1>10. CASE Prebatch
  BY <1>10 DEF Prebatch
<1>11. CASE RecoverModel
  BY <1>11 DEF RecoverModel, Retrieved
<1>12. CASE ReportModel
  BY <1>12 DEF ReportModel, WriteTypeOK
<1>13. CASE Collect
  BY <1>13 DEF Collect
<1>14. CASE CollectDocProbes
  BY <1>14 DEF CollectDocProbes, Checked
<1>15. CASE DecodeDumps
  BY <1>15 DEF DecodeDumps, Checked
<1>16. CASE Isolate
  BY <1>16 DEF Isolate, Checked
<1>17. CASE AskParts
  BY <1>17 DEF AskParts
<1>18. CASE IsolateProbes
  BY <1>18 DEF IsolateProbes
<1>19. CASE BuildPrompt
  BY <1>19, PromptSaved DEF Checked
<1>20. CASE Reason
  BY <1>20 DEF Reason, Answer
<1>21. CASE NoFollowUp
  BY <1>21 DEF NoFollowUp
<1>22. CASE FollowProbes
  BY <1>22 DEF FollowProbes, Checked
<1>23. CASE FollowDecode
  BY <1>23 DEF FollowDecode, Checked
<1>24. CASE FollowPrompt
  BY <1>24, PromptSaved DEF Checked
<1>25. CASE FollowReason
  BY <1>25 DEF FollowReason, Answer
<1>26. CASE Finalize
  BY <1>26 DEF Finalize
<1>27. CASE AuditCommands
  BY <1>27 DEF AuditCommands, Record, Produce
<1>28. CASE AuditDiagnosis
  BY <1>28 DEF AuditDiagnosis, Record, Produce
<1>29. CASE WriteDiagnosis
  BY <1>29 DEF WriteDiagnosis, Produce
<1>30. CASE ApproveAction
  BY <1>30 DEF ApproveAction, Record, Produce
<1>31. CASE GateDone
  BY <1>31 DEF GateDone
<1>32. CASE SeatPendingCase
  BY <1>32 DEF SeatPendingCase, Produce
<1>33. CASE WriteRunMeta
  BY <1>33 DEF WriteRunMeta, Produce
<1>34. CASE CloseForward
  BY <1>34 DEF CloseForward
<1>35. CASE CloseRedfish
  BY <1>35 DEF CloseRedfish
<1>36. CASE Abort
  BY <1>36 DEF Abort
<1>37. CASE Cancel
  BY <1>37 DEF Cancel
<1>38. CASE Raise
  BY <1>38 DEF Raise
<1>39. CASE UNCHANGED vars
  BY <1>39
<1> QED
  BY <1>1, <1>2, <1>3, <1>4, <1>5, <1>6, <1>7, <1>8, <1>9, <1>10, <1>11, <1>12,
     <1>13, <1>14, <1>15, <1>16, <1>17, <1>18, <1>19, <1>20, <1>21, <1>22,
     <1>23, <1>24, <1>25, <1>26, <1>27, <1>28, <1>29, <1>30, <1>31, <1>32,
     <1>33, <1>34, <1>35, <1>36, <1>37, <1>38, <1>39 DEF Next, Ended, RunStep,
     OpenStep, ProbeStep, IsolateStep, ReasonStep, WriteStep

\* A prompt speaks of the model that was reported.
LEMMA OneModelStep == TypeOK /\ StageInv /\ ModelInv /\ OneModelPerRun /\
   [Next]_vars => OneModelPerRun'
<1> SUFFICES ASSUME TypeOK, StageInv, ModelInv, OneModelPerRun, [Next]_vars
             PROVE OneModelPerRun'
  OBVIOUS
<1> USE TypeParts DEF vars, controlVars, budgetVars, probeVars, reasonVars,
    fileVars, auditVars, GoTo, Stop, OneModelPerRun, WriteTypeOK
<1>1. CASE PrepareEndpoint
  BY <1>1 DEF PrepareEndpoint
<1>2. CASE MakeRunDir
  BY <1>2 DEF MakeRunDir
<1>3. CASE RunStart
  BY <1>3 DEF RunStart
<1>4. CASE OpenRunner
  BY <1>4 DEF OpenRunner
<1>5. CASE BuildRedfish
  BY <1>5 DEF BuildRedfish
<1>6. CASE CopyTestLogs
  BY <1>6 DEF CopyTestLogs
<1>7. CASE Detect
  BY <1>7 DEF Detect
<1>8. CASE Retrieve
  BY <1>8 DEF Retrieve, Checked, Retrieved
<1>9. CASE Plan
  BY <1>9 DEF Plan, Checked
<1>10. CASE Prebatch
  BY <1>10 DEF Prebatch
<1>11. CASE RecoverModel
  BY <1>11 DEF RecoverModel, Retrieved
<1>12. CASE ReportModel
  BY <1>12 DEF ReportModel, StageInv, Unasked, Finding, ModelInv
<1>13. CASE Collect
  BY <1>13 DEF Collect
<1>14. CASE CollectDocProbes
  BY <1>14 DEF CollectDocProbes, Checked
<1>15. CASE DecodeDumps
  BY <1>15 DEF DecodeDumps, Checked
<1>16. CASE Isolate
  BY <1>16 DEF Isolate, Checked
<1>17. CASE AskParts
  BY <1>17 DEF AskParts
<1>18. CASE IsolateProbes
  BY <1>18 DEF IsolateProbes
<1>19. CASE BuildPrompt
  BY <1>19, PromptSaved DEF Checked, ModelInv, Opening, Finding, Ending
<1>20. CASE Reason
  BY <1>20 DEF Reason, Answer
<1>21. CASE NoFollowUp
  BY <1>21 DEF NoFollowUp
<1>22. CASE FollowProbes
  BY <1>22 DEF FollowProbes, Checked
<1>23. CASE FollowDecode
  BY <1>23 DEF FollowDecode, Checked
<1>24. CASE FollowPrompt
  BY <1>24, PromptSaved DEF Checked, ModelInv, Opening, Finding, Ending
<1>25. CASE FollowReason
  BY <1>25 DEF FollowReason, Answer
<1>26. CASE Finalize
  BY <1>26 DEF Finalize
<1>27. CASE AuditCommands
  BY <1>27 DEF AuditCommands, Record, Produce
<1>28. CASE AuditDiagnosis
  BY <1>28 DEF AuditDiagnosis, Record, Produce
<1>29. CASE WriteDiagnosis
  BY <1>29 DEF WriteDiagnosis, Produce
<1>30. CASE ApproveAction
  BY <1>30 DEF ApproveAction, Record, Produce
<1>31. CASE GateDone
  BY <1>31 DEF GateDone
<1>32. CASE SeatPendingCase
  BY <1>32 DEF SeatPendingCase, Produce
<1>33. CASE WriteRunMeta
  BY <1>33 DEF WriteRunMeta, Produce
<1>34. CASE CloseForward
  BY <1>34 DEF CloseForward
<1>35. CASE CloseRedfish
  BY <1>35 DEF CloseRedfish
<1>36. CASE Abort
  BY <1>36 DEF Abort
<1>37. CASE Cancel
  BY <1>37 DEF Cancel
<1>38. CASE Raise
  BY <1>38 DEF Raise
<1>39. CASE UNCHANGED vars
  BY <1>39
<1> QED
  BY <1>1, <1>2, <1>3, <1>4, <1>5, <1>6, <1>7, <1>8, <1>9, <1>10, <1>11, <1>12,
     <1>13, <1>14, <1>15, <1>16, <1>17, <1>18, <1>19, <1>20, <1>21, <1>22,
     <1>23, <1>24, <1>25, <1>26, <1>27, <1>28, <1>29, <1>30, <1>31, <1>32,
     <1>33, <1>34, <1>35, <1>36, <1>37, <1>38, <1>39 DEF Next, Ended, RunStep,
     OpenStep, ProbeStep, IsolateStep, ReasonStep, WriteStep

\* A cancelled run is stopped before the model is asked once more.
LEMMA CancelStep == TypeOK /\ StageInv /\ CancelInv /\ [Next]_vars =>
   CancelInv'
<1> SUFFICES ASSUME TypeOK, StageInv, CancelInv, [Next]_vars PROVE CancelInv'
  OBVIOUS
<1> USE TypeParts DEF vars, controlVars, budgetVars, probeVars, reasonVars,
    fileVars, auditVars, GoTo, Stop, CancelInv, ControlTypeOK
<1>1. CASE PrepareEndpoint
  BY <1>1 DEF PrepareEndpoint
<1>2. CASE MakeRunDir
  BY <1>2 DEF MakeRunDir
<1>3. CASE RunStart
  BY <1>3 DEF RunStart
<1>4. CASE OpenRunner
  BY <1>4 DEF OpenRunner
<1>5. CASE BuildRedfish
  BY <1>5 DEF BuildRedfish
<1>6. CASE CopyTestLogs
  BY <1>6 DEF CopyTestLogs
<1>7. CASE Detect
  BY <1>7 DEF Detect
<1>8. CASE Retrieve
  BY <1>8 DEF Retrieve, Checked, Retrieved
<1>9. CASE Plan
  BY <1>9 DEF Plan, Checked
<1>10. CASE Prebatch
  BY <1>10 DEF Prebatch
<1>11. CASE RecoverModel
  BY <1>11 DEF RecoverModel, Retrieved
<1>12. CASE ReportModel
  BY <1>12 DEF ReportModel
<1>13. CASE Collect
  BY <1>13 DEF Collect
<1>14. CASE CollectDocProbes
  BY <1>14 DEF CollectDocProbes, Checked
<1>15. CASE DecodeDumps
  BY <1>15 DEF DecodeDumps, Checked
<1>16. CASE Isolate
  BY <1>16 DEF Isolate, Checked
<1>17. CASE AskParts
  BY <1>17 DEF AskParts
<1>18. CASE IsolateProbes
  BY <1>18 DEF IsolateProbes
<1>19. CASE BuildPrompt
  BY <1>19, PromptSaved DEF Checked, StageInv, Unasked, Finding, Following,
     Probing
<1>20. CASE Reason
  BY <1>20 DEF Reason, Answer, StageInv, Unasked, Finding, Following, Probing
<1>21. CASE NoFollowUp
  BY <1>21 DEF NoFollowUp
<1>22. CASE FollowProbes
  BY <1>22 DEF FollowProbes, Checked, StageInv, Unasked, Finding, Following,
     Probing
<1>23. CASE FollowDecode
  BY <1>23 DEF FollowDecode, Checked, StageInv, Unasked, Finding, Following,
     Probing
<1>24. CASE FollowPrompt
  BY <1>24, PromptSaved DEF Checked, StageInv, Unasked, Finding, Following,
     Probing
<1>25. CASE FollowReason
  BY <1>25 DEF FollowReason, Answer, StageInv, Unasked, Finding, Following,
     Probing
<1>26. CASE Finalize
  BY <1>26 DEF Finalize
<1>27. CASE AuditCommands
  BY <1>27 DEF AuditCommands, Record, Produce
<1>28. CASE AuditDiagnosis
  BY <1>28 DEF AuditDiagnosis, Record, Produce
<1>29. CASE WriteDiagnosis
  BY <1>29 DEF WriteDiagnosis, Produce
<1>30. CASE ApproveAction
  BY <1>30 DEF ApproveAction, Record, Produce
<1>31. CASE GateDone
  BY <1>31 DEF GateDone
<1>32. CASE SeatPendingCase
  BY <1>32 DEF SeatPendingCase, Produce
<1>33. CASE WriteRunMeta
  BY <1>33 DEF WriteRunMeta, Produce
<1>34. CASE CloseForward
  BY <1>34 DEF CloseForward
<1>35. CASE CloseRedfish
  BY <1>35 DEF CloseRedfish
<1>36. CASE Abort
  BY <1>36 DEF Abort
<1>37. CASE Cancel
  BY <1>37 DEF Cancel
<1>38. CASE Raise
  BY <1>38 DEF Raise
<1>39. CASE UNCHANGED vars
  BY <1>39
<1> QED
  BY <1>1, <1>2, <1>3, <1>4, <1>5, <1>6, <1>7, <1>8, <1>9, <1>10, <1>11, <1>12,
     <1>13, <1>14, <1>15, <1>16, <1>17, <1>18, <1>19, <1>20, <1>21, <1>22,
     <1>23, <1>24, <1>25, <1>26, <1>27, <1>28, <1>29, <1>30, <1>31, <1>32,
     <1>33, <1>34, <1>35, <1>36, <1>37, <1>38, <1>39 DEF Next, Ended, RunStep,
     OpenStep, ProbeStep, IsolateStep, ReasonStep, WriteStep

\* Which probes of a round are good.
LEMMA GoodUnion == \A a, b : Good(a \cup b) = Good(a) \cup Good(b)
BY DEF Good

LEMMA GoodDumps ==
  ASSUME NEW ps \in SUBSET Probes
  PROVE  /\ Good(DumpsOf(ps)) \subseteq RanWell'
         /\ Good(DumpsOf(ps)) \subseteq ps
<1>1. ASSUME NEW p \in Good(DumpsOf(ps))
      PROVE  p \in ps /\ calls'[p] = "ok"
  <2>1. PICK d \in DumpsOf(ps) : d.ok /\ d.probe = p
    BY Zenon DEF Good
  <2>2. PICK r \in ps : d = [probe |-> r, ok |-> calls'[r] = "ok"]
    BY <2>1, Zenon DEF DumpsOf
  <2>3. d.probe = r /\ (d.ok <=> calls'[r] = "ok")
    BY <2>2
  <2> QED
    BY <2>1, <2>3
<1> QED
  BY <1>1 DEF RanWell

LEMMA GoodNamed ==
  ASSUME NEW ps \in SUBSET Probes
  PROVE  /\ Good(NamedDumps(ps)) \subseteq ps
         /\ opts.console => Good(NamedDumps(ps)) \subseteq RanWell'
         /\ ~opts.console => Good(NamedDumps(ps)) = {}
<1>1. CASE opts.console
  BY <1>1, GoodDumps DEF NamedDumps
<1>2. CASE ~opts.console
  <2>1. Good({[probe |-> p, ok |-> FALSE] : p \in ps}) = {}
    BY DEF Good
  <2> QED
    BY <1>2, <2>1 DEF NamedDumps
<1> QED
  BY <1>1, <1>2

\* What the isolation round read is never decoded.
LEMMA DumpStep == TypeOK /\ StageInv /\ DumpInv /\ [Next]_vars => DumpInv'
<1> SUFFICES ASSUME TypeOK, StageInv, DumpInv, [Next]_vars PROVE DumpInv'
  OBVIOUS
<1> USE TypeParts DEF vars, controlVars, budgetVars, probeVars, reasonVars,
    fileVars, auditVars, GoTo, Stop, DumpInv, ProbeTypeOK, Opening, Finding,
    Probing
<1>1. CASE PrepareEndpoint
  BY <1>1 DEF PrepareEndpoint, RanWell
<1>2. CASE MakeRunDir
  BY <1>2 DEF MakeRunDir, RanWell
<1>3. CASE RunStart
  BY <1>3 DEF RunStart, RanWell
<1>4. CASE OpenRunner
  BY <1>4 DEF OpenRunner, RanWell
<1>5. CASE BuildRedfish
  BY <1>5 DEF BuildRedfish, RanWell
<1>6. CASE CopyTestLogs
  BY <1>6 DEF CopyTestLogs, RanWell
<1>7. CASE Detect
  BY <1>7 DEF Detect, RanWell
<1>8. CASE Retrieve
  BY <1>8 DEF Retrieve, Checked, Retrieved, RanWell
<1>9. CASE Plan
  BY <1>9 DEF Plan, Checked, RanWell
<1>10. CASE Prebatch
  <2>1. RanWell \subseteq RanWell'
    BY <1>10, ExecuteCalls DEF Prebatch, RanWell
  <2> QED
    BY <1>10, <2>1 DEF Prebatch
<1>11. CASE RecoverModel
  BY <1>11 DEF RecoverModel, Retrieved, RanWell
<1>12. CASE ReportModel
  BY <1>12 DEF ReportModel, RanWell
<1>13. CASE Collect
  <2>1. /\ dumps'["collectors"] = DumpsOf(planned)
        /\ dumps'["doc_guided"] = dumps["doc_guided"]
        /\ dumps'["isolation"] = {} /\ decoded' = {}
        /\ planned \in SUBSET Probes /\ opts' = opts
        /\ pc' = "docProbes"
    BY <1>13 DEF Collect, ProbeTypeOK, Rounds
  <2>2. RanWell \subseteq RanWell'
    BY <1>13, ExecuteCalls DEF Collect
  <2>3. Decode(dumps') = Good(DumpsOf(planned)) \cup Good(dumps["doc_guided"])
    BY <2>1, GoodUnion DEF Decode
  <2>4. Good(dumps["doc_guided"]) \subseteq Decode(dumps)
    BY GoodUnion DEF Decode
  <2>5. Good({}) = {}
    BY DEF Good
  <2> QED
    BY <2>1, <2>2, <2>3, <2>4, <2>5, GoodDumps
<1>14. CASE CollectDocProbes
  <2>1. /\ dumps'["collectors"] = dumps["collectors"]
        /\ dumps'["doc_guided"] = NamedDumps(mined)
        /\ dumps'["isolation"] = {} /\ decoded' = {}
        /\ mined \in SUBSET Probes /\ opts' = opts
        /\ pc' \in {"decode", "aborting"}
    BY <1>14 DEF CollectDocProbes, Checked, ProbeTypeOK, Rounds
  <2>2. RanWell \subseteq RanWell'
    BY <1>14, RunNamedCalls DEF CollectDocProbes
  <2>3. Decode(dumps') = Good(dumps["collectors"]) \cup Good(NamedDumps(mined))
    BY <2>1, GoodUnion DEF Decode
  <2>4. Good(dumps["collectors"]) \subseteq Decode(dumps)
    BY GoodUnion DEF Decode
  <2>5. Good({}) = {}
    BY DEF Good
  <2> QED
    BY <2>1, <2>2, <2>3, <2>4, <2>5, GoodNamed
<1>15. CASE DecodeDumps
  BY <1>15 DEF DecodeDumps, Checked, RanWell
<1>16. CASE Isolate
  BY <1>16 DEF Isolate, Checked, RanWell
<1>17. CASE AskParts
  BY <1>17 DEF AskParts, RanWell
<1>18. CASE IsolateProbes
  <2> DEFINE ps == iso.probes \ Done
  <2>1. /\ dumps'["collectors"] = dumps["collectors"]
        /\ dumps'["doc_guided"] = dumps["doc_guided"]
        /\ dumps'["isolation"] = NamedDumps(ps) /\ decoded' = decoded
        /\ ps \in SUBSET Probes /\ opts' = opts
        /\ pc' = "prompt"
    BY <1>18 DEF IsolateProbes, ProbeTypeOK, Rounds
  <2>2. RanWell \subseteq RanWell'
    BY <1>18, RunNamedCalls DEF IsolateProbes
  <2>3. Decode(dumps') = Decode(dumps)
    BY <2>1 DEF Decode
  <2>4. opts.console => Done = RanWell
    BY DEF Done, RanWell
  <2> QED
    BY <2>1, <2>2, <2>3, <2>4, GoodNamed
<1>19. CASE BuildPrompt
  BY <1>19, PromptSaved DEF Checked, RanWell
<1>20. CASE Reason
  BY <1>20 DEF Reason, Answer, RanWell
<1>21. CASE NoFollowUp
  BY <1>21 DEF NoFollowUp, RanWell
<1>22. CASE FollowProbes
  <2> DEFINE old == dumps["doc_guided"]
             new == {d \in NamedDumps(FollowUp) : \A e \in old : e.probe # d.probe}
  <2>1. FollowUp \in SUBSET Probes /\ FollowUp \cap Done = {}
    BY <1>22 DEF FollowProbes, FollowUp, StageInv, DiagnosisType, Following
  <2>2. /\ dumps'["collectors"] = dumps["collectors"]
        /\ dumps'["doc_guided"] = old \cup new
        /\ dumps'["isolation"] = dumps["isolation"] /\ decoded' = decoded
        /\ opts' = opts /\ pc' \in {"followDecode", "aborting"}
    BY <1>22 DEF FollowProbes, Checked, ProbeTypeOK, Rounds
  <2>3. RanWell \subseteq RanWell'
    BY <1>22, RunNamedCalls DEF FollowProbes
  <2>4. Good(new) \subseteq Good(NamedDumps(FollowUp))
    BY DEF Good
  <2> HIDE DEF old, new
  <2>5. Decode(dumps') = Decode(dumps) \cup Good(new)
    BY <2>2, GoodUnion DEF Decode, old
  <2>6. opts.console => Done = RanWell
    BY DEF Done, RanWell
  <2> QED
    BY <2>1, <2>2, <2>3, <2>4, <2>5, <2>6, GoodNamed
<1>23. CASE FollowDecode
  BY <1>23 DEF FollowDecode, Checked, RanWell
<1>24. CASE FollowPrompt
  BY <1>24, PromptSaved DEF Checked, RanWell
<1>25. CASE FollowReason
  BY <1>25 DEF FollowReason, Answer, RanWell
<1>26. CASE Finalize
  BY <1>26 DEF Finalize, RanWell
<1>27. CASE AuditCommands
  BY <1>27 DEF AuditCommands, Record, Produce, RanWell
<1>28. CASE AuditDiagnosis
  BY <1>28 DEF AuditDiagnosis, Record, Produce, RanWell
<1>29. CASE WriteDiagnosis
  BY <1>29 DEF WriteDiagnosis, Produce, RanWell
<1>30. CASE ApproveAction
  BY <1>30 DEF ApproveAction, Record, Produce, RanWell
<1>31. CASE GateDone
  BY <1>31 DEF GateDone, RanWell
<1>32. CASE SeatPendingCase
  BY <1>32 DEF SeatPendingCase, Produce, RanWell
<1>33. CASE WriteRunMeta
  BY <1>33 DEF WriteRunMeta, Produce, RanWell
<1>34. CASE CloseForward
  BY <1>34 DEF CloseForward, RanWell
<1>35. CASE CloseRedfish
  BY <1>35 DEF CloseRedfish, RanWell
<1>36. CASE Abort
  BY <1>36 DEF Abort, RanWell
<1>37. CASE Cancel
  BY <1>37 DEF Cancel, RanWell
<1>38. CASE Raise
  BY <1>38 DEF Raise, RanWell
<1>39. CASE UNCHANGED vars
  BY <1>39 DEF RanWell
<1> QED
  BY <1>1, <1>2, <1>3, <1>4, <1>5, <1>6, <1>7, <1>8, <1>9, <1>10, <1>11, <1>12,
     <1>13, <1>14, <1>15, <1>16, <1>17, <1>18, <1>19, <1>20, <1>21, <1>22,
     <1>23, <1>24, <1>25, <1>26, <1>27, <1>28, <1>29, <1>30, <1>31, <1>32,
     <1>33, <1>34, <1>35, <1>36, <1>37, <1>38, <1>39 DEF Next, Ended, RunStep,
     OpenStep, ProbeStep, IsolateStep, ReasonStep, WriteStep

\* The isolation round is no part of what is decoded.
LEMMA DecodeSame ==
  ASSUME NEW a, NEW b, a["collectors"] = b["collectors"], a["doc_guided"] = b["doc_guided"]
  PROVE  Decode(a) = Decode(b)
BY DEF Decode

\* What is decoded, shown and saved stays the same.
LEMMA EvidenceStep == TypeOK /\ StageInv /\ EvidenceInv /\ [Next]_vars =>
   EvidenceInv'
<1> SUFFICES ASSUME TypeOK, StageInv, EvidenceInv, [Next]_vars PROVE
             EvidenceInv'
  OBVIOUS
<1> USE TypeParts DEF vars, controlVars, budgetVars, probeVars, reasonVars,
    fileVars, auditVars, GoTo, Stop, EvidenceInv, ProbeTypeOK, Opening,
    Finding, Probing, Following, Writing, Closing, Ending, Unasked, Unfiled
<1>1. CASE PrepareEndpoint
  BY <1>1 DEF PrepareEndpoint, Kept, Shown
<1>2. CASE MakeRunDir
  BY <1>2 DEF MakeRunDir, Kept, Shown
<1>3. CASE RunStart
  BY <1>3 DEF RunStart, Kept, Shown
<1>4. CASE OpenRunner
  BY <1>4 DEF OpenRunner, Kept, Shown
<1>5. CASE BuildRedfish
  BY <1>5 DEF BuildRedfish, Kept, Shown
<1>6. CASE CopyTestLogs
  BY <1>6 DEF CopyTestLogs, Kept, Shown
<1>7. CASE Detect
  BY <1>7 DEF Detect, Kept, Shown
<1>8. CASE Retrieve
  BY <1>8 DEF Retrieve, Checked, Retrieved, Kept, Shown
<1>9. CASE Plan
  BY <1>9 DEF Plan, Checked, Kept, Shown
<1>10. CASE Prebatch
  BY <1>10 DEF Prebatch, Kept, Shown
<1>11. CASE RecoverModel
  BY <1>11 DEF RecoverModel, Retrieved, Kept, Shown
<1>12. CASE ReportModel
  BY <1>12 DEF ReportModel, Kept, Shown
<1>13. CASE Collect
  BY <1>13 DEF Collect, Kept, Shown
<1>14. CASE CollectDocProbes
  BY <1>14 DEF CollectDocProbes, Checked, Kept, Shown
<1>15. CASE DecodeDumps
  BY <1>15 DEF DecodeDumps, Checked, Kept, Shown
<1>16. CASE Isolate
  BY <1>16 DEF Isolate, Checked, Kept, Shown
<1>17. CASE AskParts
  BY <1>17 DEF AskParts, Kept, Shown
<1>18. CASE IsolateProbes
  <2>1. Decode(dumps') = Decode(dumps)
    BY <1>18, DecodeSame DEF IsolateProbes, ProbeTypeOK, Rounds
  <2> QED
    BY <1>18, <2>1 DEF IsolateProbes
<1>19. CASE BuildPrompt
  <2>1. Shown'
    BY <1>19, PromptSaved DEF Shown
  <2> QED
    BY <1>19, <2>1, PromptSaved DEF Checked, Artifacts
<1>20. CASE Reason
  BY <1>20 DEF Reason, Answer, Kept, Shown
<1>21. CASE NoFollowUp
  BY <1>21 DEF NoFollowUp, Kept, Shown
<1>22. CASE FollowProbes
  <2>1. Last(prompts).raw = dumps["isolation"] /\ dumps'["isolation"] = dumps["isolation"]
    BY <1>22 DEF FollowProbes, Shown, ProbeTypeOK, Rounds
  <2> QED
    BY <1>22, <2>1 DEF FollowProbes, Checked
<1>23. CASE FollowDecode
  BY <1>23 DEF FollowDecode, Checked, Kept, Shown
<1>24. CASE FollowPrompt
  <2>1. Shown'
    BY <1>24, PromptSaved DEF Shown
  <2> QED
    BY <1>24, <2>1, PromptSaved DEF Checked, Artifacts
<1>25. CASE FollowReason
  BY <1>25 DEF FollowReason, Answer, Kept, Shown
<1>26. CASE Finalize
  <2>1. diagnosis'.evidence = decoded
    BY <1>26 DEF Finalize, StageInv, Following, Writing, DiagnosisType
  <2>2. Kept'
    BY <1>26, <2>1 DEF Finalize, Kept, Shown
  <2> QED
    BY <1>26, <2>2 DEF Finalize
<1>27. CASE AuditCommands
  BY <1>27 DEF AuditCommands, Record, Produce, Kept, Shown
<1>28. CASE AuditDiagnosis
  BY <1>28 DEF AuditDiagnosis, Record, Produce, Kept, Shown
<1>29. CASE WriteDiagnosis
  BY <1>29 DEF WriteDiagnosis, Produce, Kept, Shown
<1>30. CASE ApproveAction
  BY <1>30 DEF ApproveAction, Record, Produce, Kept, Shown
<1>31. CASE GateDone
  BY <1>31 DEF GateDone, Kept, Shown
<1>32. CASE SeatPendingCase
  BY <1>32 DEF SeatPendingCase, Produce, Kept, Shown
<1>33. CASE WriteRunMeta
  BY <1>33 DEF WriteRunMeta, Produce, Kept, Shown
<1>34. CASE CloseForward
  BY <1>34 DEF CloseForward, Kept, Shown
<1>35. CASE CloseRedfish
  BY <1>35 DEF CloseRedfish, Kept, Shown
<1>36. CASE Abort
  BY <1>36 DEF Abort, Kept, Shown
<1>37. CASE Cancel
  BY <1>37 DEF Cancel, Kept, Shown
<1>38. CASE Raise
  BY <1>38 DEF Raise, Kept, Shown
<1>39. CASE UNCHANGED vars
  BY <1>39 DEF Shown, Kept
<1> QED
  BY <1>1, <1>2, <1>3, <1>4, <1>5, <1>6, <1>7, <1>8, <1>9, <1>10, <1>11, <1>12,
     <1>13, <1>14, <1>15, <1>16, <1>17, <1>18, <1>19, <1>20, <1>21, <1>22,
     <1>23, <1>24, <1>25, <1>26, <1>27, <1>28, <1>29, <1>30, <1>31, <1>32,
     <1>33, <1>34, <1>35, <1>36, <1>37, <1>38, <1>39 DEF Next, Ended, RunStep,
     OpenStep, ProbeStep, IsolateStep, ReasonStep, WriteStep

\* Once the diagnosis is on disk nothing it rests on changes.
LEMMA ReproducibleStep == TypeOK /\ StageInv /\ EvidenceInv /\
   EvidenceIsReproducible /\ [Next]_vars => EvidenceIsReproducible'
<1> SUFFICES ASSUME TypeOK, StageInv, EvidenceInv, EvidenceIsReproducible,
             [Next]_vars PROVE EvidenceIsReproducible'
  OBVIOUS
<1> USE TypeParts DEF vars, controlVars, budgetVars, probeVars, reasonVars,
    fileVars, auditVars, GoTo, Stop, EvidenceIsReproducible
<1>1. CASE PrepareEndpoint
  BY <1>1 DEF PrepareEndpoint, Kept, Shown, EvidenceInv, Opening, Finding,
     Probing, Following, Writing, Closing, Ending, Unasked, Unfiled
<1>2. CASE MakeRunDir
  BY <1>2 DEF MakeRunDir, Kept, Shown, EvidenceInv, Opening, Finding, Probing,
     Following, Writing, Closing, Ending, Unasked, Unfiled
<1>3. CASE RunStart
  BY <1>3 DEF RunStart, Kept, Shown, EvidenceInv, Opening, Finding, Probing,
     Following, Writing, Closing, Ending, Unasked, Unfiled
<1>4. CASE OpenRunner
  BY <1>4 DEF OpenRunner, Kept, Shown, EvidenceInv, Opening, Finding, Probing,
     Following, Writing, Closing, Ending, Unasked, Unfiled
<1>5. CASE BuildRedfish
  BY <1>5 DEF BuildRedfish, Kept, Shown, EvidenceInv, Opening, Finding,
     Probing, Following, Writing, Closing, Ending, Unasked, Unfiled
<1>6. CASE CopyTestLogs
  BY <1>6 DEF CopyTestLogs, Kept, Shown, EvidenceInv, Opening, Finding,
     Probing, Following, Writing, Closing, Ending, Unasked, Unfiled
<1>7. CASE Detect
  BY <1>7 DEF Detect, Kept, Shown, EvidenceInv, Opening, Finding, Probing,
     Following, Writing, Closing, Ending, Unasked, Unfiled
<1>8. CASE Retrieve
  BY <1>8 DEF Retrieve, Checked, Retrieved, Kept, Shown, EvidenceInv, Opening,
     Finding, Probing, Following, Writing, Closing, Ending, Unasked, Unfiled
<1>9. CASE Plan
  BY <1>9 DEF Plan, Checked, Kept, Shown, EvidenceInv, Opening, Finding,
     Probing, Following, Writing, Closing, Ending, Unasked, Unfiled
<1>10. CASE Prebatch
  BY <1>10 DEF Prebatch, Kept, Shown, EvidenceInv, Opening, Finding, Probing,
     Following, Writing, Closing, Ending, Unasked, Unfiled
<1>11. CASE RecoverModel
  BY <1>11 DEF RecoverModel, Retrieved, Kept, Shown, EvidenceInv, Opening,
     Finding, Probing, Following, Writing, Closing, Ending, Unasked, Unfiled
<1>12. CASE ReportModel
  BY <1>12 DEF ReportModel, Kept, Shown, EvidenceInv, Opening, Finding,
     Probing, Following, Writing, Closing, Ending, Unasked, Unfiled
<1>13. CASE Collect
  BY <1>13 DEF Collect, Kept, Shown, EvidenceInv, Opening, Finding, Probing,
     Following, Writing, Closing, Ending, Unasked, Unfiled
<1>14. CASE CollectDocProbes
  BY <1>14 DEF CollectDocProbes, Checked, Kept, Shown, EvidenceInv, Opening,
     Finding, Probing, Following, Writing, Closing, Ending, Unasked, Unfiled
<1>15. CASE DecodeDumps
  BY <1>15 DEF DecodeDumps, Checked, Kept, Shown, EvidenceInv, Opening,
     Finding, Probing, Following, Writing, Closing, Ending, Unasked, Unfiled
<1>16. CASE Isolate
  BY <1>16 DEF Isolate, Checked, Kept, Shown, EvidenceInv, Opening, Finding,
     Probing, Following, Writing, Closing, Ending, Unasked, Unfiled
<1>17. CASE AskParts
  BY <1>17 DEF AskParts, Kept, Shown, EvidenceInv, Opening, Finding, Probing,
     Following, Writing, Closing, Ending, Unasked, Unfiled
<1>18. CASE IsolateProbes
  BY <1>18 DEF IsolateProbes, Kept, Shown, EvidenceInv, Opening, Finding,
     Probing, Following, Writing, Closing, Ending, Unasked, Unfiled
<1>19. CASE BuildPrompt
  BY <1>19, PromptSaved DEF EvidenceInv, Unfiled, Unasked, Following
<1>20. CASE Reason
  BY <1>20 DEF Reason, Answer, Kept, Shown, EvidenceInv, Opening, Finding,
     Probing, Following, Writing, Closing, Ending, Unasked, Unfiled
<1>21. CASE NoFollowUp
  BY <1>21 DEF NoFollowUp, Kept, Shown, EvidenceInv, Opening, Finding, Probing,
     Following, Writing, Closing, Ending, Unasked, Unfiled
<1>22. CASE FollowProbes
  BY <1>22 DEF FollowProbes, Checked, Kept, Shown, EvidenceInv, Opening,
     Finding, Probing, Following, Writing, Closing, Ending, Unasked, Unfiled
<1>23. CASE FollowDecode
  BY <1>23 DEF FollowDecode, Checked, Kept, Shown, EvidenceInv, Opening,
     Finding, Probing, Following, Writing, Closing, Ending, Unasked, Unfiled
<1>24. CASE FollowPrompt
  BY <1>24, PromptSaved DEF EvidenceInv, Unfiled, Unasked, Following
<1>25. CASE FollowReason
  BY <1>25 DEF FollowReason, Answer, Kept, Shown, EvidenceInv, Opening,
     Finding, Probing, Following, Writing, Closing, Ending, Unasked, Unfiled
<1>26. CASE Finalize
  BY <1>26 DEF Finalize, Kept, Shown, EvidenceInv, Opening, Finding, Probing,
     Following, Writing, Closing, Ending, Unasked, Unfiled
<1>27. CASE AuditCommands
  BY <1>27 DEF AuditCommands, Record, Produce, Kept, Shown, EvidenceInv,
     Opening, Finding, Probing, Following, Writing, Closing, Ending, Unasked,
     Unfiled
<1>28. CASE AuditDiagnosis
  BY <1>28 DEF AuditDiagnosis, Record, Produce, Kept, Shown, EvidenceInv,
     Opening, Finding, Probing, Following, Writing, Closing, Ending, Unasked,
     Unfiled
<1>29. CASE WriteDiagnosis
  BY <1>29 DEF WriteDiagnosis, Produce, Kept, Shown, EvidenceInv, Opening,
     Finding, Probing, Following, Writing, Closing, Ending, Unasked, Unfiled
<1>30. CASE ApproveAction
  BY <1>30 DEF ApproveAction, Record, Produce, Kept, Shown, EvidenceInv,
     Opening, Finding, Probing, Following, Writing, Closing, Ending, Unasked,
     Unfiled
<1>31. CASE GateDone
  BY <1>31 DEF GateDone, Kept, Shown, EvidenceInv, Opening, Finding, Probing,
     Following, Writing, Closing, Ending, Unasked, Unfiled
<1>32. CASE SeatPendingCase
  BY <1>32 DEF SeatPendingCase, Produce, Kept, Shown, EvidenceInv, Opening,
     Finding, Probing, Following, Writing, Closing, Ending, Unasked, Unfiled
<1>33. CASE WriteRunMeta
  BY <1>33 DEF WriteRunMeta, Produce, Kept, Shown, EvidenceInv, Opening,
     Finding, Probing, Following, Writing, Closing, Ending, Unasked, Unfiled
<1>34. CASE CloseForward
  BY <1>34 DEF CloseForward, Kept, Shown, EvidenceInv, Opening, Finding,
     Probing, Following, Writing, Closing, Ending, Unasked, Unfiled
<1>35. CASE CloseRedfish
  BY <1>35 DEF CloseRedfish, Kept, Shown, EvidenceInv, Opening, Finding,
     Probing, Following, Writing, Closing, Ending, Unasked, Unfiled
<1>36. CASE Abort
  BY <1>36 DEF Abort, Kept, Shown, EvidenceInv, Opening, Finding, Probing,
     Following, Writing, Closing, Ending, Unasked, Unfiled
<1>37. CASE Cancel
  BY <1>37 DEF Cancel, Kept, Shown, EvidenceInv, Opening, Finding, Probing,
     Following, Writing, Closing, Ending, Unasked, Unfiled
<1>38. CASE Raise
  BY <1>38 DEF Raise, Kept, Shown, EvidenceInv, Opening, Finding, Probing,
     Following, Writing, Closing, Ending, Unasked, Unfiled
<1>39. CASE UNCHANGED vars
  BY <1>39
<1> QED
  BY <1>1, <1>2, <1>3, <1>4, <1>5, <1>6, <1>7, <1>8, <1>9, <1>10, <1>11, <1>12,
     <1>13, <1>14, <1>15, <1>16, <1>17, <1>18, <1>19, <1>20, <1>21, <1>22,
     <1>23, <1>24, <1>25, <1>26, <1>27, <1>28, <1>29, <1>30, <1>31, <1>32,
     <1>33, <1>34, <1>35, <1>36, <1>37, <1>38, <1>39 DEF Next, Ended, RunStep,
     OpenStep, ProbeStep, IsolateStep, ReasonStep, WriteStep

\* Which artifacts there are at each point.
LEMMA FileStep == TypeOK /\ StageInv /\ ModelInv /\ FileInv /\ [Next]_vars =>
   FileInv'
<1> SUFFICES ASSUME TypeOK, StageInv, ModelInv, FileInv, [Next]_vars PROVE
             FileInv'
  OBVIOUS
<1> USE TypeParts DEF vars, controlVars, budgetVars, probeVars, reasonVars,
    fileVars, auditVars, GoTo, Stop, FileInv, Points, Running, ControlTypeOK,
    Opening, Finding, Ending, Closing
<1>1. CASE PrepareEndpoint
  BY <1>1 DEF PrepareEndpoint
<1>2. CASE MakeRunDir
  BY <1>2 DEF MakeRunDir
<1>3. CASE RunStart
  BY <1>3 DEF RunStart
<1>4. CASE OpenRunner
  BY <1>4 DEF OpenRunner
<1>5. CASE BuildRedfish
  BY <1>5 DEF BuildRedfish
<1>6. CASE CopyTestLogs
  BY <1>6 DEF CopyTestLogs
<1>7. CASE Detect
  BY <1>7 DEF Detect
<1>8. CASE Retrieve
  BY <1>8 DEF Retrieve, Checked, Retrieved
<1>9. CASE Plan
  BY <1>9 DEF Plan, Checked
<1>10. CASE Prebatch
  BY <1>10 DEF Prebatch
<1>11. CASE RecoverModel
  BY <1>11 DEF RecoverModel, Retrieved
<1>12. CASE ReportModel
  BY <1>12 DEF ReportModel, WriteTypeOK, ModelInv
<1>13. CASE Collect
  BY <1>13 DEF Collect
<1>14. CASE CollectDocProbes
  BY <1>14 DEF CollectDocProbes, Checked
<1>15. CASE DecodeDumps
  BY <1>15 DEF DecodeDumps, Checked
<1>16. CASE Isolate
  BY <1>16 DEF Isolate, Checked
<1>17. CASE AskParts
  BY <1>17 DEF AskParts
<1>18. CASE IsolateProbes
  BY <1>18 DEF IsolateProbes
<1>19. CASE BuildPrompt
  BY <1>19, PromptSaved DEF Checked
<1>20. CASE Reason
  BY <1>20 DEF Reason, Answer
<1>21. CASE NoFollowUp
  BY <1>21 DEF NoFollowUp
<1>22. CASE FollowProbes
  BY <1>22 DEF FollowProbes, Checked
<1>23. CASE FollowDecode
  BY <1>23 DEF FollowDecode, Checked
<1>24. CASE FollowPrompt
  BY <1>24, PromptSaved DEF Checked
<1>25. CASE FollowReason
  BY <1>25 DEF FollowReason, Answer
<1>26. CASE Finalize
  BY <1>26 DEF Finalize, StageInv, Opening, Finding, Probing, Following,
     Writing, Closing, Ending, Unasked, Unfiled
<1>27. CASE AuditCommands
  BY <1>27 DEF AuditCommands, Record, Produce
<1>28. CASE AuditDiagnosis
  BY <1>28 DEF AuditDiagnosis, Record, Produce
<1>29. CASE WriteDiagnosis
  BY <1>29 DEF WriteDiagnosis, Produce
<1>30. CASE ApproveAction
  BY <1>30 DEF ApproveAction, Record, Produce
<1>31. CASE GateDone
  BY <1>31 DEF GateDone
<1>32. CASE SeatPendingCase
  BY <1>32 DEF SeatPendingCase, Produce
<1>33. CASE WriteRunMeta
  BY <1>33 DEF WriteRunMeta, Produce
<1>34. CASE CloseForward
  BY <1>34 DEF CloseForward
<1>35. CASE CloseRedfish
  BY <1>35 DEF CloseRedfish
<1>36. CASE Abort
  BY <1>36 DEF Abort, Bare, ModelInv, WriteTypeOK
<1>37. CASE Cancel
  BY <1>37 DEF Cancel
<1>38. CASE Raise
  BY <1>38 DEF Raise
<1>39. CASE UNCHANGED vars
  BY <1>39
<1> QED
  BY <1>1, <1>2, <1>3, <1>4, <1>5, <1>6, <1>7, <1>8, <1>9, <1>10, <1>11, <1>12,
     <1>13, <1>14, <1>15, <1>16, <1>17, <1>18, <1>19, <1>20, <1>21, <1>22,
     <1>23, <1>24, <1>25, <1>26, <1>27, <1>28, <1>29, <1>30, <1>31, <1>32,
     <1>33, <1>34, <1>35, <1>36, <1>37, <1>38, <1>39 DEF Next, Ended, RunStep,
     OpenStep, ProbeStep, IsolateStep, ReasonStep, WriteStep

\* The records of a run's audit log.
LEMMA RecordProperties ==
  ASSUME WriteTypeOK, NEW kind \in Events, Record(kind)
  PROVE  /\ Approvals' = IF kind = "approval" THEN Approvals \cup {Len(audit) + 1}
                                              ELSE Approvals
         /\ Len(audit) + 1 \notin Approvals
         /\ Contains(audit, "diagnosis") => Contains(audit, "diagnosis")'
         /\ kind = "diagnosis" => Contains(audit, "diagnosis")'
<1>1. /\ audit \in Seq(Events) /\ Len(audit) \in Nat /\ DOMAIN audit = 1..Len(audit)
      /\ Len(audit') = Len(audit) + 1 /\ DOMAIN audit' = 1..Len(audit) + 1
      /\ \A i \in 1..Len(audit) : audit'[i] = audit[i]
      /\ audit'[Len(audit) + 1] = kind
  BY DEF WriteTypeOK, Record
<1> QED
  BY <1>1 DEF Approvals, Contains

LEMMA ApprovalsFinite == WriteTypeOK => IsFiniteSet(Approvals) /\ Cardinality(Approvals) \in Nat
<1> SUFFICES ASSUME WriteTypeOK PROVE IsFiniteSet(Approvals)
  BY FS_CardinalityType
<1>1. Len(audit) \in Nat /\ DOMAIN audit = 1..Len(audit)
  BY DEF WriteTypeOK
<1>2. IsFiniteSet(1..Len(audit))
  BY <1>1, FS_Interval
<1>3. Approvals \in SUBSET (1..Len(audit))
  BY <1>1 DEF Approvals
<1> QED
  BY <1>2, <1>3, FS_Subset

LEMMA StartProperties ==
  ASSUME WriteTypeOK, RunStart, Approvals = {}
  PROVE  Approvals' = {}
<1>1. PICK s \in Seq(Events) : audit' = audit \o s /\ \A i \in 1..Len(s) : s[i] # "approval"
  <2>1. <<"run_start", "test_log_loaded">> \in Seq(Events) /\ <<"run_start">> \in Seq(Events)
    BY DEF Events
  <2>2. CASE opts.logs
    <3>1. audit' = audit \o <<"run_start", "test_log_loaded">>
      BY <2>2, Zenon DEF RunStart
    <3>2. \A i \in 1..Len(<<"run_start", "test_log_loaded">>) :
             <<"run_start", "test_log_loaded">>[i] # "approval"
      OBVIOUS
    <3> QED
      BY <2>1, <3>1, <3>2, Zenon
  <2>3. CASE ~opts.logs
    <3>1. audit' = audit \o <<"run_start">>
      BY <2>3, Zenon DEF RunStart
    <3>2. \A i \in 1..Len(<<"run_start">>) : <<"run_start">>[i] # "approval"
      OBVIOUS
    <3> QED
      BY <2>1, <3>1, <3>2, Zenon
  <2> QED
    BY <2>2, <2>3, Zenon
<1>2. /\ Len(audit) \in Nat /\ Len(s) \in Nat /\ DOMAIN audit = 1..Len(audit)
      /\ DOMAIN audit' = 1..Len(audit) + Len(s)
      /\ \A i \in 1..Len(audit) : audit'[i] = audit[i]
      /\ \A i \in Len(audit) + 1..Len(audit) + Len(s) : audit'[i] = s[i - Len(audit)]
  BY <1>1 DEF WriteTypeOK
<1> QED
  BY <1>1, <1>2 DEF Approvals

\* Every action is decided before the case is seated.
LEMMA GateStep == TypeOK /\ StageInv /\ GateInv /\ [Next]_vars => GateInv'
<1> SUFFICES ASSUME TypeOK, StageInv, GateInv, [Next]_vars PROVE GateInv'
  OBVIOUS
<1> USE TypeParts DEF vars, controlVars, budgetVars, probeVars, reasonVars,
    fileVars, auditVars, GoTo, Stop, GateInv, Opening, Finding, Probing,
    Following, Writing, Closing, Ending, Unasked, Unfiled
<1>1. CASE PrepareEndpoint
  BY <1>1 DEF PrepareEndpoint, Decisions, Approvals
<1>2. CASE MakeRunDir
  BY <1>2 DEF MakeRunDir, Decisions, Approvals
<1>3. CASE RunStart
  BY <1>3, StartProperties DEF RunStart, Approvals
<1>4. CASE OpenRunner
  BY <1>4 DEF OpenRunner, Decisions, Approvals
<1>5. CASE BuildRedfish
  BY <1>5 DEF BuildRedfish, Decisions, Approvals
<1>6. CASE CopyTestLogs
  BY <1>6 DEF CopyTestLogs, Decisions, Approvals
<1>7. CASE Detect
  BY <1>7 DEF Detect, Decisions, Approvals
<1>8. CASE Retrieve
  BY <1>8 DEF Retrieve, Checked, Retrieved, Decisions, Approvals
<1>9. CASE Plan
  BY <1>9 DEF Plan, Checked, Decisions, Approvals
<1>10. CASE Prebatch
  BY <1>10 DEF Prebatch, Decisions, Approvals
<1>11. CASE RecoverModel
  BY <1>11 DEF RecoverModel, Retrieved, Decisions, Approvals
<1>12. CASE ReportModel
  BY <1>12 DEF ReportModel, Decisions, Approvals
<1>13. CASE Collect
  BY <1>13 DEF Collect, Decisions, Approvals
<1>14. CASE CollectDocProbes
  BY <1>14 DEF CollectDocProbes, Checked, Decisions, Approvals
<1>15. CASE DecodeDumps
  BY <1>15 DEF DecodeDumps, Checked, Decisions, Approvals
<1>16. CASE Isolate
  BY <1>16 DEF Isolate, Checked, Decisions, Approvals
<1>17. CASE AskParts
  BY <1>17 DEF AskParts, Decisions, Approvals
<1>18. CASE IsolateProbes
  BY <1>18 DEF IsolateProbes, Decisions, Approvals
<1>19. CASE BuildPrompt
  BY <1>19, PromptSaved DEF Checked, Approvals
<1>20. CASE Reason
  BY <1>20 DEF Reason, Answer, Decisions, Approvals
<1>21. CASE NoFollowUp
  BY <1>21 DEF NoFollowUp, Decisions, Approvals
<1>22. CASE FollowProbes
  BY <1>22 DEF FollowProbes, Checked, Decisions, Approvals
<1>23. CASE FollowDecode
  BY <1>23 DEF FollowDecode, Checked, Decisions, Approvals
<1>24. CASE FollowPrompt
  BY <1>24, PromptSaved DEF Checked, Approvals
<1>25. CASE FollowReason
  BY <1>25 DEF FollowReason, Answer, Decisions, Approvals
<1>26. CASE Finalize
  BY <1>26 DEF Finalize, Decisions, Approvals
<1>27. CASE AuditCommands
  <2>1. Record("cmd") /\ "cmd" \in Events
    BY <1>27 DEF AuditCommands, Events
  <2> QED
    BY <1>27, <2>1, RecordProperties DEF AuditCommands, Produce
<1>28. CASE AuditDiagnosis
  <2>1. Record("diagnosis") /\ "diagnosis" \in Events
    BY <1>28 DEF AuditDiagnosis, Events
  <2> QED
    BY <1>28, <2>1, RecordProperties DEF AuditDiagnosis
<1>29. CASE WriteDiagnosis
  <2>1. Decisions' = 0
    BY <1>29, FS_EmptySet DEF WriteDiagnosis, Approvals, Decisions
  <2>2. diagnosis.actions \in Nat /\ diagnosis' = diagnosis
    BY <1>29 DEF WriteDiagnosis, StageInv, DiagnosisType, Writing
  <2> QED
    BY <1>29, <2>1, <2>2 DEF WriteDiagnosis, Produce
<1>30. CASE ApproveAction
  <2>1. Record("approval") /\ "approval" \in Events
    BY <1>30 DEF ApproveAction, Events
  <2>2. Approvals' = Approvals \cup {Len(audit) + 1} /\ Len(audit) + 1 \notin Approvals
    BY <2>1, RecordProperties
  <2>3. Decisions' = Decisions + 1 /\ Decisions \in Nat
    BY <2>2, ApprovalsFinite, FS_AddElement DEF Decisions, Approvals
  <2>4. diagnosis.actions \in Nat /\ Decisions < diagnosis.actions /\ pc = "gate"
    BY <1>30 DEF ApproveAction, StageInv, DiagnosisType
  <2> QED
    BY <1>30, <2>1, <2>3, <2>4, RecordProperties DEF ApproveAction
<1>31. CASE GateDone
  <2>1. Decisions = diagnosis.actions /\ diagnosis' = diagnosis /\ Decisions' = Decisions
    BY <1>31, ApprovalsFinite DEF GateDone, Decisions, Approvals, StageInv, DiagnosisType
  <2> QED
    BY <1>31, <2>1 DEF GateDone
<1>32. CASE SeatPendingCase
  BY <1>32 DEF SeatPendingCase, Produce, Decisions, Approvals
<1>33. CASE WriteRunMeta
  BY <1>33 DEF WriteRunMeta, Produce, Decisions, Approvals
<1>34. CASE CloseForward
  BY <1>34 DEF CloseForward, Decisions, Approvals
<1>35. CASE CloseRedfish
  BY <1>35 DEF CloseRedfish, Decisions, Approvals
<1>36. CASE Abort
  BY <1>36 DEF Abort, Decisions, Approvals
<1>37. CASE Cancel
  BY <1>37 DEF Cancel, Decisions, Approvals
<1>38. CASE Raise
  BY <1>38 DEF Raise, Decisions, Approvals
<1>39. CASE UNCHANGED vars
  BY <1>39 DEF Decisions, Approvals
<1> QED
  BY <1>1, <1>2, <1>3, <1>4, <1>5, <1>6, <1>7, <1>8, <1>9, <1>10, <1>11, <1>12,
     <1>13, <1>14, <1>15, <1>16, <1>17, <1>18, <1>19, <1>20, <1>21, <1>22,
     <1>23, <1>24, <1>25, <1>26, <1>27, <1>28, <1>29, <1>30, <1>31, <1>32,
     <1>33, <1>34, <1>35, <1>36, <1>37, <1>38, <1>39 DEF Next, Ended, RunStep,
     OpenStep, ProbeStep, IsolateStep, ReasonStep, WriteStep

\* What is open at the end.
LEMMA OpenStepInv == TypeOK /\ OpenInv /\ [Next]_vars => OpenInv'
<1> SUFFICES ASSUME TypeOK, OpenInv, [Next]_vars PROVE OpenInv'
  OBVIOUS
<1> USE TypeParts DEF vars, controlVars, budgetVars, probeVars, reasonVars,
    fileVars, auditVars, GoTo, Stop, OpenInv
<1>1. CASE PrepareEndpoint
  BY <1>1 DEF PrepareEndpoint
<1>2. CASE MakeRunDir
  BY <1>2 DEF MakeRunDir
<1>3. CASE RunStart
  BY <1>3 DEF RunStart
<1>4. CASE OpenRunner
  BY <1>4 DEF OpenRunner
<1>5. CASE BuildRedfish
  BY <1>5 DEF BuildRedfish
<1>6. CASE CopyTestLogs
  BY <1>6 DEF CopyTestLogs
<1>7. CASE Detect
  BY <1>7 DEF Detect
<1>8. CASE Retrieve
  BY <1>8 DEF Retrieve, Checked, Retrieved
<1>9. CASE Plan
  BY <1>9 DEF Plan, Checked
<1>10. CASE Prebatch
  BY <1>10 DEF Prebatch
<1>11. CASE RecoverModel
  BY <1>11 DEF RecoverModel, Retrieved
<1>12. CASE ReportModel
  BY <1>12 DEF ReportModel
<1>13. CASE Collect
  BY <1>13 DEF Collect
<1>14. CASE CollectDocProbes
  BY <1>14 DEF CollectDocProbes, Checked
<1>15. CASE DecodeDumps
  BY <1>15 DEF DecodeDumps, Checked
<1>16. CASE Isolate
  BY <1>16 DEF Isolate, Checked
<1>17. CASE AskParts
  BY <1>17 DEF AskParts
<1>18. CASE IsolateProbes
  BY <1>18 DEF IsolateProbes
<1>19. CASE BuildPrompt
  BY <1>19, PromptSaved DEF Checked
<1>20. CASE Reason
  BY <1>20 DEF Reason, Answer
<1>21. CASE NoFollowUp
  BY <1>21 DEF NoFollowUp
<1>22. CASE FollowProbes
  BY <1>22 DEF FollowProbes, Checked
<1>23. CASE FollowDecode
  BY <1>23 DEF FollowDecode, Checked
<1>24. CASE FollowPrompt
  BY <1>24, PromptSaved DEF Checked
<1>25. CASE FollowReason
  BY <1>25 DEF FollowReason, Answer
<1>26. CASE Finalize
  BY <1>26 DEF Finalize
<1>27. CASE AuditCommands
  BY <1>27 DEF AuditCommands, Record, Produce
<1>28. CASE AuditDiagnosis
  BY <1>28 DEF AuditDiagnosis, Record, Produce
<1>29. CASE WriteDiagnosis
  BY <1>29 DEF WriteDiagnosis, Produce
<1>30. CASE ApproveAction
  BY <1>30 DEF ApproveAction, Record, Produce
<1>31. CASE GateDone
  BY <1>31 DEF GateDone
<1>32. CASE SeatPendingCase
  BY <1>32 DEF SeatPendingCase, Produce
<1>33. CASE WriteRunMeta
  BY <1>33 DEF WriteRunMeta, Produce
<1>34. CASE CloseForward
  BY <1>34 DEF CloseForward
<1>35. CASE CloseRedfish
  BY <1>35 DEF CloseRedfish
<1>36. CASE Abort
  BY <1>36 DEF Abort
<1>37. CASE Cancel
  BY <1>37 DEF Cancel
<1>38. CASE Raise
  BY <1>38 DEF Raise
<1>39. CASE UNCHANGED vars
  BY <1>39
<1> QED
  BY <1>1, <1>2, <1>3, <1>4, <1>5, <1>6, <1>7, <1>8, <1>9, <1>10, <1>11, <1>12,
     <1>13, <1>14, <1>15, <1>16, <1>17, <1>18, <1>19, <1>20, <1>21, <1>22,
     <1>23, <1>24, <1>25, <1>26, <1>27, <1>28, <1>29, <1>30, <1>31, <1>32,
     <1>33, <1>34, <1>35, <1>36, <1>37, <1>38, <1>39 DEF Next, Ended, RunStep,
     OpenStep, ProbeStep, IsolateStep, ReasonStep, WriteStep

\* A run is discarded with nothing but its audit log.
LEMMA DiscardStep == TypeOK /\ StageInv /\ FileInv /\ OnlyBareRunsDiscarded /\
   [Next]_vars => OnlyBareRunsDiscarded'
<1> SUFFICES ASSUME TypeOK, StageInv, FileInv, OnlyBareRunsDiscarded,
             [Next]_vars PROVE OnlyBareRunsDiscarded'
  OBVIOUS
<1> USE TypeParts DEF vars, controlVars, budgetVars, probeVars, reasonVars,
    fileVars, auditVars, GoTo, Stop, OnlyBareRunsDiscarded, FileInv, Ending,
    Bare
<1>1. CASE PrepareEndpoint
  BY <1>1 DEF PrepareEndpoint
<1>2. CASE MakeRunDir
  BY <1>2 DEF MakeRunDir
<1>3. CASE RunStart
  BY <1>3 DEF RunStart
<1>4. CASE OpenRunner
  BY <1>4 DEF OpenRunner
<1>5. CASE BuildRedfish
  BY <1>5 DEF BuildRedfish
<1>6. CASE CopyTestLogs
  BY <1>6 DEF CopyTestLogs
<1>7. CASE Detect
  BY <1>7 DEF Detect
<1>8. CASE Retrieve
  BY <1>8 DEF Retrieve, Checked, Retrieved
<1>9. CASE Plan
  BY <1>9 DEF Plan, Checked
<1>10. CASE Prebatch
  BY <1>10 DEF Prebatch
<1>11. CASE RecoverModel
  BY <1>11 DEF RecoverModel, Retrieved
<1>12. CASE ReportModel
  BY <1>12 DEF ReportModel
<1>13. CASE Collect
  BY <1>13 DEF Collect
<1>14. CASE CollectDocProbes
  BY <1>14 DEF CollectDocProbes, Checked
<1>15. CASE DecodeDumps
  BY <1>15 DEF DecodeDumps, Checked
<1>16. CASE Isolate
  BY <1>16 DEF Isolate, Checked
<1>17. CASE AskParts
  BY <1>17 DEF AskParts
<1>18. CASE IsolateProbes
  BY <1>18 DEF IsolateProbes
<1>19. CASE BuildPrompt
  BY <1>19, PromptSaved DEF FileInv, Ending, Checked
<1>20. CASE Reason
  BY <1>20 DEF Reason, Answer
<1>21. CASE NoFollowUp
  BY <1>21 DEF NoFollowUp
<1>22. CASE FollowProbes
  BY <1>22 DEF FollowProbes, Checked
<1>23. CASE FollowDecode
  BY <1>23 DEF FollowDecode, Checked
<1>24. CASE FollowPrompt
  BY <1>24, PromptSaved DEF FileInv, Ending, Checked
<1>25. CASE FollowReason
  BY <1>25 DEF FollowReason, Answer
<1>26. CASE Finalize
  BY <1>26 DEF Finalize
<1>27. CASE AuditCommands
  BY <1>27 DEF AuditCommands, Record, Produce
<1>28. CASE AuditDiagnosis
  BY <1>28 DEF AuditDiagnosis, Record, Produce
<1>29. CASE WriteDiagnosis
  BY <1>29 DEF WriteDiagnosis, Produce
<1>30. CASE ApproveAction
  BY <1>30 DEF ApproveAction, Record, Produce
<1>31. CASE GateDone
  BY <1>31 DEF GateDone
<1>32. CASE SeatPendingCase
  BY <1>32 DEF SeatPendingCase, Produce
<1>33. CASE WriteRunMeta
  BY <1>33 DEF WriteRunMeta, Produce
<1>34. CASE CloseForward
  BY <1>34 DEF CloseForward
<1>35. CASE CloseRedfish
  BY <1>35 DEF CloseRedfish
<1>36. CASE Abort
  BY <1>36 DEF Abort, WriteTypeOK
<1>37. CASE Cancel
  BY <1>37 DEF Cancel
<1>38. CASE Raise
  BY <1>38 DEF Raise
<1>39. CASE UNCHANGED vars
  BY <1>39
<1> QED
  BY <1>1, <1>2, <1>3, <1>4, <1>5, <1>6, <1>7, <1>8, <1>9, <1>10, <1>11, <1>12,
     <1>13, <1>14, <1>15, <1>16, <1>17, <1>18, <1>19, <1>20, <1>21, <1>22,
     <1>23, <1>24, <1>25, <1>26, <1>27, <1>28, <1>29, <1>30, <1>31, <1>32,
     <1>33, <1>34, <1>35, <1>36, <1>37, <1>38, <1>39 DEF Next, Ended, RunStep,
     OpenStep, ProbeStep, IsolateStep, ReasonStep, WriteStep

\* The artifacts agree: what is on disk at each point, and what an abort leaves
\* alone.
LEMMA ArtifactStep == TypeOK /\ StageInv /\ EvidenceInv /\ FileInv /\ GateInv
   /\ ArtifactsAgree /\ [Next]_vars => ArtifactsAgree'
<1> SUFFICES ASSUME TypeOK, StageInv, EvidenceInv, FileInv, GateInv,
             ArtifactsAgree, [Next]_vars PROVE ArtifactsAgree'
  OBVIOUS
<1> USE TypeParts DEF vars, controlVars, budgetVars, probeVars, reasonVars,
    fileVars, auditVars, GoTo, Stop, ArtifactsAgree, Opening, Finding, Probing,
    Following, Writing, Closing, Ending, Unasked, Unfiled
<1>a. asked' <= Len(prompts')
  BY StageStep DEF StageInv
<1>1. CASE PrepareEndpoint
  BY <1>1, <1>a DEF PrepareEndpoint, Decisions
<1>2. CASE MakeRunDir
  BY <1>2, <1>a DEF MakeRunDir, Decisions
<1>3. CASE RunStart
  BY <1>3, <1>a DEF RunStart, EvidenceInv, GateInv
<1>4. CASE OpenRunner
  BY <1>4, <1>a DEF OpenRunner, Decisions
<1>5. CASE BuildRedfish
  BY <1>5, <1>a DEF BuildRedfish, Decisions
<1>6. CASE CopyTestLogs
  BY <1>6, <1>a DEF CopyTestLogs, Decisions
<1>7. CASE Detect
  BY <1>7, <1>a DEF Detect, Decisions
<1>8. CASE Retrieve
  BY <1>8, <1>a DEF Retrieve, Checked, Retrieved, Decisions
<1>9. CASE Plan
  BY <1>9, <1>a DEF Plan, Checked, Decisions
<1>10. CASE Prebatch
  BY <1>10, <1>a DEF Prebatch, Decisions
<1>11. CASE RecoverModel
  BY <1>11, <1>a DEF RecoverModel, Retrieved, Decisions
<1>12. CASE ReportModel
  BY <1>12, <1>a DEF ReportModel, EvidenceInv, GateInv
<1>13. CASE Collect
  BY <1>13, <1>a DEF Collect, Decisions
<1>14. CASE CollectDocProbes
  BY <1>14, <1>a DEF CollectDocProbes, Checked, Decisions
<1>15. CASE DecodeDumps
  BY <1>15, <1>a DEF DecodeDumps, Checked, Decisions
<1>16. CASE Isolate
  BY <1>16, <1>a DEF Isolate, Checked, Decisions
<1>17. CASE AskParts
  BY <1>17, <1>a DEF AskParts, Decisions
<1>18. CASE IsolateProbes
  BY <1>18, <1>a DEF IsolateProbes, Decisions
<1>19. CASE BuildPrompt
  BY <1>19, <1>a, PromptSaved DEF EvidenceInv, GateInv, Decisions
<1>20. CASE Reason
  BY <1>20, <1>a DEF Reason, Answer, EvidenceInv, GateInv
<1>21. CASE NoFollowUp
  BY <1>21, <1>a DEF NoFollowUp, Decisions
<1>22. CASE FollowProbes
  BY <1>22, <1>a DEF FollowProbes, Checked, Decisions
<1>23. CASE FollowDecode
  BY <1>23, <1>a DEF FollowDecode, Checked, Decisions
<1>24. CASE FollowPrompt
  BY <1>24, <1>a, PromptSaved DEF EvidenceInv, GateInv, Decisions
<1>25. CASE FollowReason
  BY <1>25, <1>a DEF FollowReason, Answer, EvidenceInv, GateInv
<1>26. CASE Finalize
  BY <1>26, <1>a DEF Finalize, EvidenceInv, GateInv
<1>27. CASE AuditCommands
  BY <1>27, <1>a DEF AuditCommands, Record, Produce, EvidenceInv, GateInv
<1>28. CASE AuditDiagnosis
  BY <1>28, <1>a DEF AuditDiagnosis, Record, EvidenceInv, GateInv
<1>29. CASE WriteDiagnosis
  <2>1. {"audit.jsonl", "prompt.txt", "dumps.json", "trace.json"} \subseteq files
    BY <1>29, <1>a DEF WriteDiagnosis, FileInv, Ending, StageInv
  <2> QED
    BY <1>29, <1>a, <2>1 DEF WriteDiagnosis, Produce, GateInv
<1>30. CASE ApproveAction
  <2>1. Record("approval") /\ "approval" \in Events
    BY <1>30, <1>a DEF ApproveAction, Events
  <2> QED
    BY <1>30, <1>a, <2>1, RecordProperties DEF ApproveAction, GateInv
<1>31. CASE GateDone
  BY <1>31, <1>a DEF GateDone, Decisions
<1>32. CASE SeatPendingCase
  BY <1>32, <1>a DEF SeatPendingCase, Produce, GateInv, Decisions
<1>33. CASE WriteRunMeta
  BY <1>33, <1>a DEF WriteRunMeta, Produce, Decisions
<1>34. CASE CloseForward
  BY <1>34, <1>a DEF CloseForward, Decisions
<1>35. CASE CloseRedfish
  BY <1>35, <1>a DEF CloseRedfish, Decisions
<1>36. CASE Abort
  BY <1>36, <1>a DEF Abort, Decisions
<1>37. CASE Cancel
  BY <1>37, <1>a DEF Cancel, Decisions
<1>38. CASE Raise
  BY <1>38, <1>a DEF Raise, Decisions
<1>39. CASE UNCHANGED vars
  BY <1>39, <1>a DEF Decisions
<1> QED
  BY <1>1, <1>2, <1>3, <1>4, <1>5, <1>6, <1>7, <1>8, <1>9, <1>10, <1>11, <1>12,
     <1>13, <1>14, <1>15, <1>16, <1>17, <1>18, <1>19, <1>20, <1>21, <1>22,
     <1>23, <1>24, <1>25, <1>26, <1>27, <1>28, <1>29, <1>30, <1>31, <1>32,
     <1>33, <1>34, <1>35, <1>36, <1>37, <1>38, <1>39 DEF Next, Ended, RunStep,
     OpenStep, ProbeStep, IsolateStep, ReasonStep, WriteStep
-----------------------------------------------------------------------------
(* The initial states, and every step. *)
LEMMA InitInv == Init => IInv
<1> SUFFICES ASSUME Init PROVE IInv
  OBVIOUS
<1> USE RunAssumption DEF Init, Opening, Finding, Probing, Following, Writing, Closing,
        Ending, Unasked, Unfiled
<1>1. TypeOK
  <2>1. ControlTypeOK
    <3>1. cancelled \in BOOLEAN /\ pc \in Points /\ opts \in Options
      BY DEF Points, Running
    <3>2. steps \in 0..(IF why = "steps" THEN MaxSteps + 1 ELSE MaxSteps)
      OBVIOUS
    <3> QED
      BY <3>1, <3>2 DEF ControlTypeOK
  <2>2. ProbeTypeOK
    <3>1. iso \in [probes : SUBSET Probes, parts : BOOLEAN, failure : BOOLEAN]
      BY DEF NoIsolation
    <3> QED
      BY <3>1 DEF ProbeTypeOK, Models, NoModel, SnippetType, Rounds
  <2>3. WriteTypeOK
    BY DEF WriteTypeOK
  <2> QED
    BY <2>1, <2>2, <2>3, TypeParts
<1>2. StageInv /\ ModelInv /\ CancelInv /\ OpenInv
  BY DEF StageInv, ModelInv, CancelInv, OpenInv
<1>3. OneModelPerRun /\ EvidenceIsReproducible
  BY DEF OneModelPerRun, EvidenceIsReproducible
<1>4. DumpInv
  BY DEF DumpInv, Good, Decode, Rounds
<1>5. EvidenceInv /\ FileInv
  BY DEF EvidenceInv, FileInv
<1>6. GateInv
  BY DEF GateInv, Approvals
<1>7. ArtifactsAgree /\ OnlyBareRunsDiscarded
  BY DEF ArtifactsAgree, OnlyBareRunsDiscarded
<1> QED
  BY <1>1, <1>2, <1>3, <1>4, <1>5, <1>6, <1>7 DEF IInv

LEMMA NextInv == IInv /\ [Next]_vars => IInv'
<1> SUFFICES ASSUME IInv, [Next]_vars PROVE IInv'
  OBVIOUS
<1>1. TypeOK'
  <2>1. ControlTypeOK' /\ ProbeTypeOK' /\ WriteTypeOK'
    BY ControlTypeStep, ProbeTypeStep, WriteTypeStep DEF IInv
  <2> QED
    BY <2>1 DEF TypeOK, ControlTypeOK, ProbeTypeOK, WriteTypeOK
<1>2. StageInv' /\ ModelInv' /\ OneModelPerRun' /\ CancelInv'
  BY StageStep, ModelStep, OneModelStep, CancelStep DEF IInv
<1>3. DumpInv' /\ EvidenceInv' /\ EvidenceIsReproducible'
  BY DumpStep, EvidenceStep, ReproducibleStep DEF IInv
<1>4. FileInv' /\ GateInv' /\ ArtifactsAgree' /\ OnlyBareRunsDiscarded' /\ OpenInv'
  BY FileStep, GateStep, ArtifactStep, DiscardStep, OpenStepInv DEF IInv
<1> QED
  BY <1>1, <1>2, <1>3, <1>4 DEF IInv

LEMMA Invariance == Spec => []IInv
BY InitInv, NextInv, PTL DEF Spec

(* The state of a run is well typed, and its step count never goes past    *)
(* the budget but to be stopped by it (RunSupervisor).                     *)
THEOREM TypeCorrect == Spec => []TypeOK
<1>1. IInv => TypeOK
  BY DEF IInv
<1> QED
  BY Invariance, <1>1, PTL

(* A prompt speaks of the one model the audit log reports, with snippets   *)
(* retrieved under it, though the batch may recover the model late.        *)
THEOREM OneModel == Spec => []OneModelPerRun
<1>1. IInv => OneModelPerRun
  BY DEF IInv
<1> QED
  BY Invariance, <1>1, PTL

(* A finished diagnosis rests on what its last prompt showed, and that is  *)
(* what the saved dumps decode to, whether or not there was a follow-up.   *)
THEOREM Reproducible == Spec => []EvidenceIsReproducible
<1>1. IInv => EvidenceIsReproducible
  BY DEF IInv
<1> QED
  BY Invariance, <1>1, PTL

(* No register is decoded from a dump of the isolation round.              *)
THEOREM RawStaysRaw == Spec => []IsolationStaysRaw
<1>1. IInv => IsolationStaysRaw
  BY DEF IInv, DumpInv, IsolationStaysRaw
<1> QED
  BY Invariance, <1>1, PTL

(* A cancelled run asks the language model at most once more.              *)
THEOREM CancelStops == Spec => []CancelledRunStopsReasoning
<1>1. IInv => CancelledRunStopsReasoning
  BY DEF IInv, CancelInv, CancelledRunStopsReasoning, TypeOK
<1> QED
  BY Invariance, <1>1, PTL

(* Wherever a run is cut off, its artifacts agree, its directory stays     *)
(* unless there is nothing in it, and once it is done only the session is  *)
(* still open.                                                             *)
THEOREM LeavesWhole == Spec => []RunLeavesWhole
<1>1. IInv => RunLeavesWhole
  BY DEF IInv, OpenInv, RunLeavesWhole, FinishedRunClosed, TypeOK
<1> QED
  BY Invariance, <1>1, PTL
=============================================================================
