--------------------------- MODULE DiagnosticRun ---------------------------
(***************************************************************************)
(* One diagnosis run: `run_diagnose` and `_diagnose_pipeline`              *)
(* (operator/cli.py) around `DiagnosticEngine.run` (diagnosis/engine.py).  *)
(*                                                                         *)
(* The run opens what it needs, detects the model, retrieves documents,    *)
(* plans and runs probes, decodes them, looks into a decoded power-rail    *)
(* fault, asks the language model, follows up once when it has no verdict, *)
(* and writes its artifacts.  The phases share one step and wall-clock     *)
(* budget (`RunSupervisor`), the operator may cancel, and any call may     *)
(* raise; whatever ends the run, the abort guard of `run_diagnose` decides *)
(* whether its directory stays.                                            *)
(*                                                                         *)
(* A probe stands for a command and its register: what is decoded is the   *)
(* set of probes whose dumps are good.  Document snippets are the key they *)
(* were retrieved under and the probes they name.                          *)
(***************************************************************************)
EXTENDS Naturals, Sequences, SequencesExt, FiniteSets

CONSTANTS
    Probes,     \* the commands a plan, a document or the agent may name
    MaxSteps,   \* RunSupervisor.max_steps
    MaxActions, \* how many actions a diagnosis recommends, at most
    Options     \* the options of a run

OptionType ==
    [console : BOOLEAN,  \* a serial console runner, an SSH session otherwise
     docs    : BOOLEAN,  \* a document library is wired
     hint    : BOOLEAN,  \* the target carries a model hint
     ask     : BOOLEAN,  \* --ask-parts
     logs    : BOOLEAN,  \* --test-log
     forward : BOOLEAN]  \* the LLM endpoint is behind a forward

ASSUME RunAssumption == /\ MaxSteps \in Nat
                        /\ MaxActions \in Nat
                        /\ Options \subseteq OptionType

NoModel == "unknown"
Models == {NoModel, "live", "hint"}  \* detected on the machine, or the target's hint
Rounds == {"collectors", "doc_guided", "isolation"}  \* the keys of dump_sets
Dumps == [probe : Probes, ok : BOOLEAN]

(* The points of the run, each named after what happens next. *)
Running == {"endpoint", "mkdir", "runStart", "runner", "redfish", "testLogs",
            "detect", "retrieve", "plan", "prebatch", "recover", "hook",
            "collect", "docProbes", "decode", "isolate", "askParts", "isolateProbes",
            "prompt", "reason", "followProbes", "followDecode", "followPrompt",
            "followReason", "finalize", "auditCommands", "auditDiagnosis",
            "diagnosisFile", "gate", "case", "meta", "closeForward", "closeRedfish"}
Points == Running \cup {"done", "aborting", "aborted"}

Artifacts == {"audit.jsonl", "test_logs", "prompt.txt", "dumps.json", "trace.json",
              "diagnosis.json", "pending_case.json", "run_meta.json"}
Events == {"run_start", "test_log_loaded", "model_detected", "cmd", "diagnosis", "approval"}

VARIABLES
    pc,         \* where the run is
    opts,       \* its options
    cancelled,  \* cancel_event
    steps,      \* RunSupervisor._steps
    why,        \* what ended the run, "none" until then
    atCancel,   \* asked when the operator cancelled
    open,       \* the connections it holds
    model,      \* the model facts
    snippets,   \* the snippets of the first pass: their key, the probes they name
    planned,    \* the probes of the planned collectors
    mined,      \* plan.doc_probes
    calls,      \* runner.calls: the last result of each probe
    dumps,      \* dump_sets
    decoded,    \* the registers decoded
    faulty,     \* the probes whose register shows a rail fault
    iso,        \* what the isolation pass returned
    diagnosis,  \* the diagnosis, NoDiagnosis before
    prompts,    \* prompt.txt: every prompt, in order
    asked,      \* how many of them the language model was called with
    runDir,     \* the run directory: "none", "present" or "discarded"
    files,      \* the artifacts in it
    saved,      \* what dumps.json holds
    audit,      \* the kinds of record in audit.jsonl
    reported    \* the model of each model_detected record

controlVars == <<opts, cancelled, atCancel>>
budgetVars == <<steps, why>>
probeVars == <<planned, mined, calls, dumps, decoded, faulty>>
reasonVars == <<diagnosis, prompts, asked>>
fileVars == <<runDir, files, saved>>
auditVars == <<audit, reported>>
vars == <<pc, controlVars, budgetVars, open, model, snippets, probeVars, iso,
          reasonVars, fileVars, auditVars>>

NoDiagnosis == [state |-> "none"]
NoIsolation == [probes |-> {}, parts |-> FALSE, failure |-> FALSE]

SnippetType == [key : Models, probes : SUBSET Probes]
PromptType == [model : Models, key : Models, cases : Models, decoded : SUBSET Probes,
               raw : SUBSET Dumps, parts : BOOLEAN, context : BOOLEAN]
DiagnosisType == [state : {"verdict", "unknown"}, named : SUBSET Probes,
                  actions : 0..MaxActions, evidence : SUBSET Probes, failure : BOOLEAN]

Good(ds) == {d.probe : d \in {e \in ds : e.ok}}

(* `_decode_all`: every good dump, the isolation round's excepted *)
Decode(sets) == Good(sets["collectors"] \cup sets["doc_guided"])

Init ==
    /\ pc = "endpoint" /\ opts \in Options /\ cancelled = FALSE /\ atCancel = 0
    /\ steps = 0 /\ why = "none" /\ open = {}
    /\ model = NoModel /\ snippets = [key |-> NoModel, probes |-> {}]
    /\ planned = {} /\ mined = {} /\ calls = [p \in Probes |-> "none"]
    /\ dumps = [r \in Rounds |-> {}] /\ decoded = {} /\ faulty \in SUBSET Probes
    /\ iso = NoIsolation
    /\ diagnosis = NoDiagnosis /\ prompts = <<>> /\ asked = 0
    /\ runDir = "none" /\ files = {} /\ saved = [r \in Rounds |-> {}]
    /\ audit = <<>> /\ reported = <<>>

(***************************************************************************)
(* `Checked(next)` is `_step(label)` at the end of a phase: a cancelled    *)
(* run is stopped, then the step and the wall-clock budget are checked;    *)
(* otherwise the run goes on at next.                                      *)
(***************************************************************************)
GoTo(next) == /\ pc' = next
              /\ UNCHANGED budgetVars

Stop(reason) == /\ pc' = "aborting"
                /\ why' = reason

\* Fault: the cancel event is never looked at.
CheckedBudgetOnly(next) ==
    /\ steps' = steps + 1
    /\ \/ steps' > MaxSteps /\ Stop("steps")
       \/ steps' <= MaxSteps /\ Stop("wall")
       \/ steps' <= MaxSteps /\ pc' = next /\ UNCHANGED why

\* a step of the run's supervisor, see above
Checked(next) ==
    \/ /\ cancelled
       /\ Stop("cancel")
       /\ UNCHANGED steps
    \/ /\ ~cancelled
       /\ steps' = steps + 1
       /\ \/ steps' > MaxSteps /\ Stop("steps")
          \/ steps' <= MaxSteps /\ Stop("wall")
          \/ steps' <= MaxSteps /\ pc' = next /\ UNCHANGED why

(* /stop of the session sets cancel_event, at any time. *)
Cancel ==
    /\ pc \in Running /\ ~cancelled
    /\ cancelled' = TRUE
    /\ atCancel' = asked
    /\ UNCHANGED <<pc, opts, budgetVars, open, model, snippets, probeVars, iso,
                   reasonVars, fileVars, auditVars>>

(* A call of the current phase raises, or the operator presses Ctrl-C. *)
Raise ==
    /\ pc \in Running
    /\ Stop("error")
    /\ UNCHANGED <<steps, controlVars, open, model, snippets, probeVars, iso,
                   reasonVars, fileVars, auditVars>>

(***************************************************************************)
(* Opening                                                                 *)
(***************************************************************************)
(* `_prepare_llm_endpoint` starts the forward of a tunnelled endpoint; the *)
(* target and the symptom are resolved after it.                           *)
PrepareEndpoint ==
    /\ pc = "endpoint"
    /\ open' = IF opts.forward THEN {"forward"} ELSE {}
    /\ GoTo("mkdir")
    /\ UNCHANGED <<controlVars, model, snippets, probeVars, iso, reasonVars,
                   fileVars, auditVars>>

MakeRunDir ==
    /\ pc = "mkdir"
    /\ runDir' = "present"
    /\ GoTo("runStart")
    /\ UNCHANGED <<controlVars, open, model, snippets, probeVars, iso, reasonVars,
                   files, saved, auditVars>>

RunStart ==
    /\ pc = "runStart"
    /\ files' = files \cup {"audit.jsonl"}
    /\ audit' = audit \o (IF opts.logs THEN <<"run_start", "test_log_loaded">>
                                       ELSE <<"run_start">>)
    /\ GoTo("runner")
    /\ UNCHANGED <<controlVars, open, model, snippets, probeVars, iso, reasonVars,
                   runDir, saved, reported>>

(* A console opens at its first probe, an SSH session here. *)
OpenRunner ==
    /\ pc = "runner"
    /\ open' = IF opts.console THEN open ELSE open \cup {"session"}
    /\ GoTo("redfish")
    /\ UNCHANGED <<controlVars, model, snippets, probeVars, iso, reasonVars,
                   fileVars, auditVars>>

(* `_build_redfish_collector`: a console target with a Redfish secret *)
BuildRedfish ==
    /\ pc = "redfish"
    /\ \/ UNCHANGED open
       \/ opts.console /\ open' = open \cup {"redfish"}
    /\ GoTo("testLogs")
    /\ UNCHANGED <<controlVars, model, snippets, probeVars, iso, reasonVars,
                   fileVars, auditVars>>

CopyTestLogs ==
    /\ pc = "testLogs"
    /\ files' = IF opts.logs THEN files \cup {"test_logs"} ELSE files
    /\ GoTo("detect")
    /\ UNCHANGED <<controlVars, open, model, snippets, probeVars, iso, reasonVars,
                   runDir, saved, auditVars>>

(***************************************************************************)
(* Model, documents, plan                                                  *)
(***************************************************************************)
(* `detect_with_fallback`: the machine, else the target's hint *)
Detect ==
    /\ pc = "detect"
    /\ \/ model' = "live"
       \/ model' = IF opts.hint THEN "hint" ELSE NoModel
    /\ GoTo("retrieve")
    /\ UNCHANGED <<controlVars, open, snippets, probeVars, iso, reasonVars,
                   fileVars, auditVars>>

(* `retrieve_snippets` under a model key; without a library there are none *)
Retrieved(key) ==
    \E named \in IF opts.docs THEN SUBSET Probes ELSE {{}} :
        snippets' = [key |-> key, probes |-> named]

Retrieve ==
    /\ pc = "retrieve"
    /\ Retrieved(model)
    /\ Checked("plan")
    /\ UNCHANGED <<controlVars, open, model, probeVars, iso, reasonVars,
                   fileVars, auditVars>>

Plan ==
    /\ pc = "plan"
    /\ planned' \in SUBSET Probes
    /\ mined' = snippets.probes
    /\ Checked("prebatch")
    /\ UNCHANGED <<controlVars, open, model, snippets, calls, dumps, decoded, faulty,
                   iso, reasonVars, fileVars, auditVars>>

(***************************************************************************)
(* Probes.  `Execute(ps)` runs ps on the runner, each with any result.     *)
(***************************************************************************)
Execute(ps) ==
    \E good \in SUBSET ps :
        calls' = [p \in Probes |-> IF p \in good THEN "ok"
                                   ELSE IF p \in ps THEN "failed" ELSE calls[p]]

\* Fault: a command that has run is run again.
DoneNever == {}

(* The commands already on runner.calls.  An SSH session takes the argv of *)
(* its collectors only: a command a document names never matches one.      *)
Done == {p \in Probes : opts.console /\ calls[p] # "none"}

(* `DocGuidedProbeCollector`: run the commands not yet tried.  On an SSH   *)
(* session the allow list denies them all, which is recorded as a failure. *)
RunNamed(ps) == IF opts.console THEN Execute(ps \ Done) ELSE UNCHANGED calls

DumpsOf(ps) == {[probe |-> p, ok |-> calls'[p] = "ok"] : p \in ps}
NamedDumps(ps) == IF opts.console THEN DumpsOf(ps)
                  ELSE {[probe |-> p, ok |-> FALSE] : p \in ps}

(* `prebatch_console_plan` *)
Prebatch ==
    /\ pc = "prebatch"
    /\ IF opts.console THEN Execute(planned \cup mined) ELSE UNCHANGED calls
    /\ GoTo("recover")
    /\ UNCHANGED <<controlVars, open, model, snippets, planned, mined, dumps, decoded,
                   faulty, iso, reasonVars, fileVars, auditVars>>

\* Fault: the prompt keeps the snippets of the unknown model.
RecoverModelKeepsSnippets ==
    /\ pc = "recover"
    /\ \/ opts.console /\ model = NoModel /\ model' = "live"
       \/ UNCHANGED model
    /\ GoTo("hook")
    /\ UNCHANGED <<controlVars, open, snippets, probeVars, iso, reasonVars,
                   fileVars, auditVars>>

(* The batch may have read the model that the first detection missed: the  *)
(* snippets of the prompt are then retrieved again under it.               *)
RecoverModel ==
    /\ pc = "recover"
    /\ \/ /\ opts.console /\ model = NoModel
          /\ model' = "live"
          /\ Retrieved("live")
       \/ UNCHANGED <<model, snippets>>
    /\ GoTo("hook")
    /\ UNCHANGED <<controlVars, open, probeVars, iso, reasonVars, fileVars, auditVars>>

(* `model_hook` audits the model *)
ReportModel ==
    /\ pc = "hook"
    /\ audit' = Append(audit, "model_detected")
    /\ reported' = Append(reported, model)
    /\ GoTo("collect")
    /\ UNCHANGED <<controlVars, open, model, snippets, probeVars, iso, reasonVars,
                   fileVars>>

(* Each collector reuses its good results and runs its other probes. *)
Collect ==
    /\ pc = "collect"
    /\ Execute({p \in planned : calls[p] # "ok"})
    /\ dumps' = [dumps EXCEPT !["collectors"] = DumpsOf(planned)]
    /\ GoTo("docProbes")
    /\ UNCHANGED <<controlVars, open, model, snippets, planned, mined, decoded, faulty,
                   iso, reasonVars, fileVars, auditVars>>

CollectDocProbes ==
    /\ pc = "docProbes"
    /\ RunNamed(mined)
    /\ dumps' = [dumps EXCEPT !["doc_guided"] = NamedDumps(mined)]
    /\ Checked("decode")
    /\ UNCHANGED <<controlVars, open, model, snippets, planned, mined, decoded, faulty,
                   iso, reasonVars, fileVars, auditVars>>

DecodeDumps ==
    /\ pc = "decode"
    /\ decoded' = Decode(dumps)
    /\ Checked("isolate")
    /\ UNCHANGED <<controlVars, open, model, snippets, planned, mined, calls, dumps,
                   faulty, iso, reasonVars, fileVars, auditVars>>

(***************************************************************************)
(* `_run_isolation_pass`                                                   *)
(***************************************************************************)
(* `detect_fault_signature`: a decoded rail fault starts the pass *)
Isolate ==
    /\ pc = "isolate"
    /\ IF decoded \cap faulty = {} THEN GoTo("prompt") ELSE Checked("askParts")
    /\ UNCHANGED <<controlVars, open, model, snippets, probeVars, iso, reasonVars,
                   fileVars, auditVars>>

(* The operator is asked for parts, then the documents for the procedure;  *)
(* without a library the pass ends here.                                   *)
AskParts ==
    /\ pc = "askParts"
    /\ \/ /\ ~opts.docs
          /\ iso' = [probes |-> {}, parts |-> FALSE, failure |-> TRUE]
          /\ GoTo("prompt")
       \/ /\ opts.docs
          /\ \E named \in SUBSET Probes, parts \in (IF opts.ask THEN BOOLEAN ELSE {FALSE}) :
                iso' = [probes |-> named, parts |-> parts, failure |-> TRUE]
          /\ GoTo("isolateProbes")
    /\ UNCHANGED <<controlVars, open, model, snippets, probeVars, reasonVars,
                   fileVars, auditVars>>

IsolateProbes ==
    /\ pc = "isolateProbes"
    /\ RunNamed(iso.probes \ Done)
    /\ dumps' = [dumps EXCEPT !["isolation"] = NamedDumps(iso.probes \ Done)]
    /\ GoTo("prompt")
    /\ UNCHANGED <<controlVars, open, model, snippets, planned, mined, decoded, faulty,
                   iso, reasonVars, fileVars, auditVars>>

(***************************************************************************)
(* Reasoning                                                               *)
(***************************************************************************)
(* `build_prompt`; the operator's context lines go into the first only *)
Prompt(context) ==
    [model |-> model, key |-> snippets.key, cases |-> model, decoded |-> decoded,
     raw |-> dumps["isolation"], parts |-> iso.parts, context |-> context]

SavePrompt(context) ==
    /\ prompts' = Append(prompts, Prompt(context))
    /\ files' = files \cup {"prompt.txt"}

(* The language model answers with a verdict or without one. *)
Answer ==
    \E state \in {"verdict", "unknown"}, named \in SUBSET Probes, n \in 0..MaxActions :
        /\ n = 0 => named = {}
        /\ diagnosis' = [state |-> state, named |-> named, actions |-> n,
                         evidence |-> {}, failure |-> iso.failure]
        /\ asked' = asked + 1

BuildPrompt ==
    /\ pc = "prompt"
    /\ SavePrompt(TRUE)
    /\ Checked("reason")
    /\ UNCHANGED <<controlVars, open, model, snippets, probeVars, iso, diagnosis,
                   asked, runDir, saved, auditVars>>

Reason ==
    /\ pc = "reason"
    /\ Answer
    /\ GoTo("followProbes")
    /\ UNCHANGED <<controlVars, open, model, snippets, probeVars, iso, prompts,
                   fileVars, auditVars>>

(* `_maybe_follow_up`: the probes named by an agent without a verdict *)
FollowUp == IF diagnosis.state = "unknown" THEN diagnosis.named \ Done ELSE {}

NoFollowUp ==
    /\ pc = "followProbes" /\ FollowUp = {}
    /\ GoTo("finalize")
    /\ UNCHANGED <<controlVars, open, model, snippets, probeVars, iso, reasonVars,
                   fileVars, auditVars>>

(* A dump of a command that doc_guided already has is left out. *)
FollowProbes ==
    /\ pc = "followProbes" /\ FollowUp # {}
    /\ RunNamed(FollowUp)
    /\ LET old == dumps["doc_guided"]
           new == {d \in NamedDumps(FollowUp) : \A e \in old : e.probe # d.probe}
       IN  dumps' = [dumps EXCEPT !["doc_guided"] = old \cup new]
    /\ Checked("followDecode")
    /\ UNCHANGED <<controlVars, open, model, snippets, planned, mined, decoded, faulty,
                   iso, reasonVars, fileVars, auditVars>>

\* Fault: the follow-up round's dumps are not decoded.
FollowDecodeStale ==
    /\ pc = "followDecode"
    /\ Checked("followPrompt")
    /\ UNCHANGED <<controlVars, open, model, snippets, probeVars, iso, reasonVars,
                   fileVars, auditVars>>

FollowDecode ==
    /\ pc = "followDecode"
    /\ decoded' = Decode(dumps)
    /\ Checked("followPrompt")
    /\ UNCHANGED <<controlVars, open, model, snippets, planned, mined, calls, dumps,
                   faulty, iso, reasonVars, fileVars, auditVars>>

FollowPrompt ==
    /\ pc = "followPrompt"
    /\ SavePrompt(FALSE)
    /\ Checked("followReason")
    /\ UNCHANGED <<controlVars, open, model, snippets, probeVars, iso, diagnosis,
                   asked, runDir, saved, auditVars>>

FollowReason ==
    /\ pc = "followReason"
    /\ Answer
    /\ GoTo("finalize")
    /\ UNCHANGED <<controlVars, open, model, snippets, probeVars, iso, prompts,
                   fileVars, auditVars>>

(* `_finalize` attaches the evidence and saves the dumps. *)
Finalize ==
    /\ pc = "finalize"
    /\ diagnosis' = [diagnosis EXCEPT !.evidence = decoded]
    /\ saved' = dumps
    /\ files' = files \cup {"dumps.json"}
    /\ GoTo("auditCommands")
    /\ UNCHANGED <<controlVars, open, model, snippets, probeVars, iso, prompts,
                   asked, runDir, auditVars>>

(***************************************************************************)
(* Artifacts                                                               *)
(***************************************************************************)
Record(kind) == audit' = Append(audit, kind)
Produce(artifact) == files' = files \cup {artifact}

AuditCommands ==
    /\ pc = "auditCommands"
    /\ Record("cmd") /\ Produce("trace.json")
    /\ GoTo("auditDiagnosis")
    /\ UNCHANGED <<controlVars, open, model, snippets, probeVars, iso, reasonVars,
                   runDir, saved, reported>>

AuditDiagnosis ==
    /\ pc = "auditDiagnosis"
    /\ Record("diagnosis")
    /\ GoTo("diagnosisFile")
    /\ UNCHANGED <<controlVars, open, model, snippets, probeVars, iso, reasonVars,
                   fileVars, reported>>

WriteDiagnosis ==
    /\ pc = "diagnosisFile"
    /\ Produce("diagnosis.json")
    /\ GoTo("gate")
    /\ UNCHANGED <<controlVars, open, model, snippets, probeVars, iso, reasonVars,
                   runDir, saved, auditVars>>

(* The approval gate decides one action after the other. *)
Decisions == Cardinality({i \in DOMAIN audit : audit[i] = "approval"})

\* Fault: the operator is asked about the same action again.
ApproveActionUnanswered ==
    /\ pc = "gate"
    /\ Decisions < diagnosis.actions
    /\ UNCHANGED vars

ApproveAction ==
    /\ pc = "gate"
    /\ Decisions < diagnosis.actions
    /\ Record("approval")
    /\ UNCHANGED <<pc, budgetVars, controlVars, open, model, snippets, probeVars, iso,
                   reasonVars, fileVars, reported>>

\* Fault: the gate is left before every action is decided.
GateDoneEarly ==
    /\ pc = "gate"
    /\ GoTo("case")
    /\ UNCHANGED <<controlVars, open, model, snippets, probeVars, iso, reasonVars,
                   fileVars, auditVars>>

GateDone ==
    /\ pc = "gate"
    /\ Decisions >= diagnosis.actions
    /\ GoTo("case")
    /\ UNCHANGED <<controlVars, open, model, snippets, probeVars, iso, reasonVars,
                   fileVars, auditVars>>

SeatPendingCase ==
    /\ pc = "case"
    /\ Produce("pending_case.json")
    /\ GoTo("meta")
    /\ UNCHANGED <<controlVars, open, model, snippets, probeVars, iso, reasonVars,
                   runDir, saved, auditVars>>

WriteRunMeta ==
    /\ pc = "meta"
    /\ Produce("run_meta.json")
    /\ GoTo("closeForward")
    /\ UNCHANGED <<controlVars, open, model, snippets, probeVars, iso, reasonVars,
                   runDir, saved, auditVars>>

CloseForward ==
    /\ pc = "closeForward"
    /\ open' = open \ {"forward"}
    /\ GoTo("closeRedfish")
    /\ UNCHANGED <<controlVars, model, snippets, probeVars, iso, reasonVars,
                   fileVars, auditVars>>

CloseRedfish ==
    /\ pc = "closeRedfish"
    /\ open' = open \ {"redfish"}
    /\ GoTo("done")
    /\ UNCHANGED <<controlVars, model, snippets, probeVars, iso, reasonVars,
                   fileVars, auditVars>>

(* The guard of `run_diagnose`: a run with no artifact but its audit log   *)
(* is discarded (`_is_aborted_run`).                                       *)
Bare(artifacts) == artifacts \subseteq {"audit.jsonl"}

Abort ==
    /\ pc = "aborting"
    /\ IF runDir = "present" /\ Bare(files)
         THEN runDir' = "discarded" /\ files' = {}
         ELSE UNCHANGED <<runDir, files>>
    /\ GoTo("aborted")
    /\ UNCHANGED <<controlVars, open, model, snippets, probeVars, iso, reasonVars,
                   saved, auditVars>>

OpenStep == \/ PrepareEndpoint \/ MakeRunDir \/ RunStart \/ OpenRunner
            \/ BuildRedfish \/ CopyTestLogs
ProbeStep == \/ Detect \/ Retrieve \/ Plan \/ Prebatch \/ RecoverModel \/ ReportModel
             \/ Collect \/ CollectDocProbes \/ DecodeDumps
IsolateStep == Isolate \/ AskParts \/ IsolateProbes
ReasonStep == \/ BuildPrompt \/ Reason \/ NoFollowUp \/ FollowProbes \/ FollowDecode
              \/ FollowPrompt \/ FollowReason \/ Finalize
WriteStep == \/ AuditCommands \/ AuditDiagnosis \/ WriteDiagnosis \/ ApproveAction
             \/ GateDone \/ SeatPendingCase \/ WriteRunMeta \/ CloseForward \/ CloseRedfish

RunStep == OpenStep \/ ProbeStep \/ IsolateStep \/ ReasonStep \/ WriteStep \/ Abort

Ended == pc \in {"done", "aborted"} /\ UNCHANGED vars

Next == RunStep \/ Cancel \/ Raise \/ Ended

Spec == Init /\ [][Next]_vars
FairSpec == Spec /\ WF_vars(RunStep)

(***************************************************************************)
(* Properties                                                              *)
(***************************************************************************)
(* The state of a run is well typed, and no run goes on over its step      *)
(* budget.                                                                 *)
TypeOK ==
    /\ pc \in Points /\ opts \in Options /\ cancelled \in BOOLEAN
    /\ steps \in 0..(IF why = "steps" THEN MaxSteps + 1 ELSE MaxSteps)
    /\ why \in {"none", "cancel", "steps", "wall", "error"}
    /\ open \subseteq {"forward", "session", "redfish"}
    /\ model \in Models /\ snippets \in SnippetType
    /\ planned \subseteq Probes /\ mined \subseteq Probes
    /\ calls \in [Probes -> {"none", "ok", "failed"}]
    /\ dumps \in [Rounds -> SUBSET Dumps] /\ saved \in [Rounds -> SUBSET Dumps]
    /\ decoded \subseteq Probes /\ faulty \subseteq Probes
    /\ iso \in [probes : SUBSET Probes, parts : BOOLEAN, failure : BOOLEAN]
    /\ diagnosis \in DiagnosisType \cup {NoDiagnosis}
    /\ prompts \in Seq(PromptType) /\ asked \in 0..2 /\ atCancel \in 0..2
    /\ runDir \in {"none", "present", "discarded"} /\ files \subseteq Artifacts
    /\ audit \in Seq(Events) /\ reported \in Seq(Models)

(* "Everything downstream (retrieval filter, prompt, case library) is      *)
(* model-consistent": whatever the pre-batch recovered, a prompt speaks of *)
(* one model, its snippets were retrieved under it, and it is the one      *)
(* model the audit log reports.                                            *)
OneModelPerRun ==
    \A i \in DOMAIN prompts :
        /\ prompts[i].key = prompts[i].model
        /\ prompts[i].cases = prompts[i].model
        /\ reported = <<prompts[i].model>>

(* A finished diagnosis rests on the evidence its last prompt showed, and  *)
(* that evidence is what the saved dumps decode to: the follow-up round's  *)
(* probes are neither missing from one nor only in the other.              *)
EvidenceIsReproducible ==
    "diagnosis.json" \in files =>
        /\ diagnosis.evidence = Last(prompts).decoded
        /\ diagnosis.evidence = Decode(saved)
        /\ Last(prompts).raw = saved["isolation"]

(* Raw evidence of the isolation round is never decoded through the        *)
(* register catalog, not even when the agent names the same probe in its   *)
(* answer (`ISOLATION_DUMPS_KEY`).                                         *)
IsolationStaysRaw == Good(dumps["isolation"]) \cap decoded = {}

(* The artifacts of a run agree at every point it may be cut off: no       *)
(* diagnosis file without its audit record, prompt, dumps and trace, no    *)
(* pending case before every action was decided, and the model was asked   *)
(* nothing prompt.txt does not hold.                                       *)
ArtifactsAgree ==
    /\ asked <= Len(prompts)
    /\ "diagnosis.json" \in files =>
         /\ {"audit.jsonl", "prompt.txt", "dumps.json", "trace.json"} \subseteq files
         /\ Contains(audit, "diagnosis")
    /\ "pending_case.json" \in files =>
         /\ "diagnosis.json" \in files
         /\ Decisions = diagnosis.actions

(* A run directory is discarded exactly when the run left nothing but its  *)
(* audit log: test logs, prompts and dumps of an aborted run stay.         *)
OnlyBareRunsDiscarded ==
    /\ runDir = "discarded" =>
         /\ prompts = <<>> /\ saved = [r \in Rounds |-> {}]
         /\ ~(opts.logs /\ reported # <<>>)
    /\ pc = "aborted" => (runDir = "present" <=> ~Bare(files))

(* A cancelled run asks the language model at most once more: a call that  *)
(* had passed its check.                                                   *)
CancelledRunStopsReasoning == cancelled => asked <= atCancel + 1

(* A finished run holds neither a forward nor a Redfish session. *)
FinishedRunClosed == pc = "done" => open \subseteq {"session"}

(* What a run leaves behind, wherever it is cut off: artifacts that agree, *)
(* a directory unless there is nothing in it, and nothing open once it is  *)
(* done (cli.py:902-930, 1108-1266).                                       *)
RunLeavesWhole == ArtifactsAgree /\ OnlyBareRunsDiscarded /\ FinishedRunClosed

(* Every run ends: with its artifacts, or aborted by a cancel, a budget or *)
(* an error (the calls of a phase have time-outs of their own).            *)
RunEnds == <>(pc \in {"done", "aborted"})

(***************************************************************************)
(* What documents and comments promise and the code does not keep          *)
(***************************************************************************)
(* The step budget never stops the one follow-up round: "re-diagnose once  *)
(* against the appended evidence".                                         *)
FollowUpFitsBudget == why # "steps"

(* Every prompt holds the operator's context lines: "rendered verbatim     *)
(* into the prompt".                                                       *)
ContextInEveryPrompt == \A i \in DOMAIN prompts : prompts[i].context
=============================================================================
