# TLA+ models of the harness (DebugCLI)

The harness debugs a server without writing to it: an operator describes a
symptom, a conversation agent decides which read-only tool to run, a pipeline
collects probes over a console or SSH, and a language model writes a diagnosis
with suggested repairs.  The programs are sequential Python; what is hard in
them is where two threads share an object, where a resource is opened on one
path and closed on another, and where state outlives the call that made it.
These modules model those places, TLC checks them on small instances, and
TLAPS proves the main results for every value of the constants.

Source paths below are relative to `src/src/harness/`.

## 1. Inventory

| component | state it keeps | operations | interacts with | hard behaviour | what makes it correct |
|---|---|---|---|---|---|
| interactive session (`operator/repl.py`) | `Session`: transcript, pending messages, task, the answer and credential cells, quit | poll, drain, finish, reap, busy and idle lines, slash commands | agent turn (event queue, cancel event), credential gate, session files | two threads, no lock; results arriving while a line is routed | one turn at a time, every report shown, each answer reaches its question once, a stop ends the turn |
| stdout capture (`operator/repl.py` `_Capture`, `_run_sync`, `_tool_verify`) | the process's `sys.stdout` and what each capturer saved of it | install, restore | main thread and turn thread | save and restore do not nest across threads | prints reach the screen or the capturing turn; the terminal's stream comes back |
| conversation agent (`_run_agent`, `operator/chat_agent.py`, `operator/router.py`) | tool-call count, images, final text | decide, fall back, say, run a tool, wrap up | LLM, tools, transcript | failure mid-chain, budget reached, cancel | at most the budgeted tool calls, every turn ends with something said or reported |
| credential gate (`operator/credential_gate.py`) | store, prompter, bridge | get, request, prompt | worker thread and main loop | one shared cell for every path | the material stored for a path is the operator's answer for it |
| session files (`_save_session`, `_load_session`, `_newest_session`) | `session.json` | save, load, pick the newest | two runs of the program | not atomic, crash in between | a resumed session holds every saved turn |
| diagnosis pipeline (`diagnosis/engine.py`, `operator/supervisor.py`) | step count, facts, trace, cases | retrieve, plan, collect, decode, isolate, reason, follow up, finalise | runner, decoder, LLM, audit log | one budget shared by all phases, failures per phase, cancel | one follow-up round, no phase after an escalation, no diagnosis without its evidence |
| pipeline wiring (`operator/cli.py`) | forward, Redfish session, stores, audit log | open, run, archive, close | every component below | exceptions between open and close; fleet worker pool | what was opened is closed, artifacts agree |
| audit log (`audit/`) | file of hash-chained lines, sequence number, tail hash | append, reopen, verify | pipeline, tools | two writers, reopening, a cut tail, redaction | verify blames what an accident or a change touched, and nothing else |
| serial console (`engine/sol.py`, `engine/interactive.py`) | SSH clients, key file, probe cache | open, run probes, close, execute, batch | services, bastion, collectors | failures half way through open; cached and denied probes in a batch | results in order, each probe sent at most once, nothing left open |
| multi-service routing (`engine/services.py`) | per-service runners | route, batch | serial console | batch split and merged | the answer to each probe is its own |
| probe gate (`engine/allowlist.py`, `engine/security_gate.py`, validators of `engine/sol.py`) | templates | validate | every runner | the same probe in two spellings | only read-only probes are sent |
| SSH session, bastion (`engine/session.py`, `engine/bastion.py`) | client, bastion client, key file | open, run, close | key material | failures between the steps of open | clients closed, key files removed |
| vendor single tests (`engine/single_test.py`, `engine/interactive.py`) | the numbers of the tests, the last output, the shell | discover, run | a menu program on the node | the menu loops back anywhere, the shell dies, silence ends a read | a result is that of the test it names |
| fleet (`operator/cli.py`, `harness debug-fleet`) | results by label, failures, the shared endpoint and gate | plan, submit, gather, interrupt | thread pool, credential gate, key material, LLM forward | runs share the gate, the key files and the forward | each run counted once, the forward outlives the runs |
| LLM forward (`engine/tunnel.py`) | client, server socket, acceptor and pump threads | start, accept, pipe, close | LLM clients | close racing accept and pump; restart | connections end on both sides, a restarted forward works |
| key material (`config/vault.py`) | temporary key files | load, remove | all SSH users | two users of one key | a key file lives as long as its user needs it |
| runner and retry (`engine/runner.py`, `engine/retry.py`) | attempt count | execute | collectors | time-outs | bounded attempts, last error reported |
| BMC and Redfish (`engine/bmc.py`, `engine/redfish.py`) | the hop a client opened and its port | fetch, close | pipeline, probe tool | the rack out of reach, a run cut off | no hop outlives its user |
| collectors and decoder (`inspect/`) | none | run, parse | runners | failing probes | a failed probe is recorded as failed |
| planning (`plan/`) | the learnt priors | subsystems, collector set, isolation hypotheses; learn | pipeline, cases | priors older than the labels | history tilts the differential and never decides it |
| scoring, calibration and evaluation (`diagnosis/scorer.py`, `calibration.py`, `eval.py`) | calibration files, the baseline | score, build, look up; replay, compare | pipeline, cases | components that do not apply; files older than the labels; labels recorded during an evaluation | less evidence is never trusted more; no trust without cases; what is passes has not drifted from the baseline |
| cases (`diagnosis/case_store.py`, `case_library.py`, `operator/learning_transfer.py`) | case files, index, the run's directory and audit log, the bundle | label, report, import, export, delete | pipeline, audit log | a crash between two files, conflicts | an outcome is stored once, the audit log retells what was stored, the index lists it |
| document library (`docs/`) | manifest, chunks | add, reindex, search | pipeline | interrupted indexing | the manifest describes the chunks |
| targets (`targets/`) | alias file | resolve, add, remove | session, CLI | a name that is also an alias | a target resolves to one machine |
| line editor (`operator/menu.py` `LineReader`) | buffer, cursor, history, pending bytes | poll, read a key, edit | the loop | keys are bytes that arrive in pieces | the line returned is the line typed |
| configuration, test logs, menus, wizards | files | parse, print | -- | -- | left out, see section 15 |

## 2. Plan

The most important behaviour is the session: it is where threads meet.

1. `Repl` (main loop, turn thread, queue, bridges) and `ReplProofs`. **Done.**
2. `DiagnosticRun`: phases, shared step budget, follow-up, isolation, cancel,
   artifacts and resources of the wiring. **Done.**
3. `AuditLog` and `CaseStore`, the learning loop's files. **Done.**
4. `ExpectSession` and `Console`: the expect dialogue and the runners over it;
   `Redfish` and `SingleTests`, the other ways to the machine. **Done.**
5. `LLMForward` as an implementation of `Relay`, the way to the model; `Fleet`,
   the runs that share it, the vault and the key files. **Done.**
6. `Streams` and `LineEditor`, the way to the operator; `Conversation`, what a
   session knows and what it leaves on disk. **Done.**
7. `DocLibrary`, `Learning`, `Scoring` and `Evaluation`: what runs draw on.
   **Done.**
8. Proofs: `ReplProofs` (the whole of `repl_safety`), `DiagnosticRunProofs`
   (the whole of `run_safety`), `RecordsProofs` (the whole of `records`),
   `ProgressProofs` (the fleet), `MemoryProofs` (the whole of `memory`, its
   library for one process), `ChannelsProofs` (the forward and its
   refinement of `Relay`, the Redfish hop, the streams, the vendor's menu, the
   line editor), `ConsoleProofs` over `ExpectProofs` (the serial console's
   dialogue, what it types again and how its transcript is cut). **Done.**
9. Open: two processes that label one run; two that work on one document
   library.

Two abstract specifications are stated.  `Relay` is what the forward promises
of a stream, and `LLMForward` is checked, and proved, to implement it.  `AuditLog`'s
invariants are what `CaseStore` takes the log of a run for: a list of events.

### How the modules are put together

| composite | parts | run |
|---|---|---|
| `Records` | `AuditLog` (extended), `CaseStore` | `records` |
| `Channels` | `Streams`, `LineEditor`, `Console` over `ExpectSession`, `Redfish`, `SingleTests`, `LLMForward` | `channels` |
| `Memory` | `Evaluation` (extended), `Conversation`, `DocLibrary`, `Learning`, `Scoring` | `memory` |
| `Progress` | `DiagnosticRun`, `Fleet`, `LLMForward`, under fairness | `progress` |

The parts of a composite share no state of the program: what one reads of another
is an input to it, and takes every value there.  So a composite puts them side by
side: a variable (`inUse`, `part`) is drawn at the start and says which part
moves, the others stand at an initial state.  The states are a sum, not a product,
and each property is said of the part that moves.  The project keeps to a dozen
runs: seven that pass, one for each question (what is kept of a run, what goes
over the channels, what is remembered, what comes to an end), and five that show a
divergence.  Other divergences are stated as properties of the modules and told
below: TLC refutes each on a small instance.  What the parts demand of their
constants (`StoreAssumption`, ...) is assumed by the composite
(`PartsAssumption`), and checked by TLC there.

The sections below give each part's state and bounds.

## 3. The session: `Repl.tla`

One action is one step between two accesses to state the other thread may
change, because the interpreter may switch threads there.  Main thread:

| state | code |
|---|---|
| `mpc`, `line`, `typed`, `drained` | the point in `_repl_loop`, its `line`, and `result`/`error` |
| `task`, `quit` | `session.task` (a turn's number, `NoTask` for None), `session.quit` |
| `wpc[t]`, `outcome[t]`, `tool[t]`, `calls[t]`, `questions[t]` | the thread of turn t: its point, how its fn ended, the tool it runs and the counts of its calls and questions |
| `events[t]`, `cancel[t]` | `BackgroundTask.events` (the kinds of event in it) and `.cancel` |
| `pending`, `argv[t]` | `session.pending`, and the messages copied into a diagnose run |
| `awaiting`, `answered`, `answerReady`, `answerValue` | the answer bridge |
| `credPending`, `credAnswer`, `credEvent`, `request`, `stored` | the credential bridge and the store behind it |
| `sent`, `used` | history: the lines announced as answers, and the ones a question returned |

`PollTimeout`, `PollLine`, `Drain`, `FinishTask`, `SeeCredential`, ...,
`Reap`, `Route` are the loop's body from top to bottom; `BusyLine`, `Deliver`,
`SignalAnswer`, `MarkAnswered` are the assignments of `_handle_busy_line`;
`StartTask`, `PublishTask`, `AnnounceTask` those of `_handle_idle_line`.  The
worker's `Await` ... `TakeAnswer` are the assignments of `_make_answer_fn`, and
`RequestCredential` ... `WithdrawRequest` those of `_credential_bridge`.

Abstracted: what a line, a statement or a result says; which tool other than
`diagnose` runs; the model behind `decide`.  The event queue is the set of
kinds in it, since the loop empties it in one go.  The bounds are `MaxLines`
(typed lines, hence turns), `MaxTools` (`_tool_budget`), `MaxQuestions` and
`Paths`.

### Runs

| run | bounds | shows |
|---|---|---|
| `repl_safety` | 3 lines of all kinds, 1 tool call, 2 questions | one worker inside a turn, messages seeded once, no report reaped, answers taken once |
| `repl_liveness` | 2 lines, 1 question, 1 credential path | `StopEndsTurn`, `TurnReleased`, `CredentialServed` |
| `repl_swapped_secret` | 2 credential paths | the store holds one path's material under another (finding) |
| `repl_lost_report` | 2 messages, 1 tool call | a turn that ended since the last drain is replaced with its report unread (finding) |

Three lines are enough for a turn, a line that meets it and a turn after it
(two turns and the race between them), and two questions for an answer that
meets the wrong one.  The findings quote the documentation they contradict.

Seen while modelling, without a run of their own: an answer the loop delivers
while the worker is still opening its question is announced as sent and then
wiped by the worker's `clear()` (`repl.py:328`; TLC refutes `AnswerDelivered`
with one question); a message queued between the
worker's copy of `pending` and its reset is lost (`repl.py:313-315`); the loop
may ask for one credential a second time, because it sees `cred_pending` still
set after it released the worker (`repl.py:2131`).  What reaches `session.json`,
and a save that fails, is `Conversation`'s matter.

### Fairness

`FairSpec` assumes that the main thread and each worker thread keep running
(weak fairness each): the loop polls with a time-out while a task exists, LLM
and tool calls have time-outs, and an operator asked for a credential answers
or declines.  It assumes nothing of the lines he types: an idle session may
wait for ever, and a question may never be answered.

### Proofs: `ReplProofs.tla`

From `BoundsAssumption` alone (the bounds are naturals, the kinds are known):

- `TypedTurnsInvariant`: `TypeOK /\ TurnInv` is inductive.  `TypeOK` alone is
  not: a new turn takes the number `started + 1`, which is in range because
  every turn was started by a line of its own (`LineInv`, `StartedInv`).
- `SingleWorker` (`OneWorker`): only the turn the loop holds can be inside its
  fn (`OwnerInv`), and the loop starts a turn only when that one is not alive.
- `ReapingIsSafe` (`ReapedTurnHadNoReport`): the report of the turn the loop
  holds is in its queue from the moment the thread leaves fn until it is
  printed (`ReportInv`); the reaper wants a dead thread, then an empty queue.
- `QuestionsHaveAskers`, `AnswersAreTakenOnce`: `AnswerInv` follows one answer
  through the bridge.  When the worker finds the event set after its own
  `clear()`, the value is a line no question took, and the loop cannot
  overwrite it before it is taken, because it delivers only into an open,
  unanswered question.

- `SeedsAreUsedOnce` (`SeededOnce`): the queue and the arguments of a turn share
  a line only between that turn's copy of the queue and its reset (`SeedInv`),
  and only one turn can be there; a line that is being handled is not queued
  yet, so what is queued later is new.

`TypeOK`, `TurnInv`, `AnswerInv` and `AwaitingHasAsker` are proved, and so are
not among the runs' properties.

## 4. A diagnosis: `DiagnosticRun.tla`

One run, from `run_diagnose` to the files it leaves: the phases of
`DiagnosticEngine.run`, the isolation pass, the follow-up round, the
supervisor's checks between them, and the wiring of `_diagnose_pipeline`.

| state | code |
|---|---|
| `pc`, `opts` | the point in the pipeline, and the command's options (console or SSH, documents, hint, questions, test logs, forward) |
| `cancelled`, `steps`, `why`, `atCancel` | the cancel event, `RunSupervisor._steps`, what ended the run, and (history) what had been asked when it was cancelled |
| `open` | the connections it holds |
| `model`, `snippets`, `planned`, `mined` | the model facts, the snippets and their key, the plan's collectors and its document probes |
| `calls`, `dumps`, `decoded`, `faulty` | `runner.calls`, `dump_sets`, the registers decoded, those with a rail fault |
| `iso`, `diagnosis` | what the isolation pass returned, the diagnosis in hand |
| `prompts`, `asked` | `prompt.txt`, and how many of its prompts were sent |
| `runDir`, `files`, `saved`, `audit`, `reported` | the run's directory and its artifacts, what `dumps.json` holds, the kinds of audit records |

Each step of a phase is one action: within it nothing but the cancel event is shared
with another thread, and the supervisor looks at that between phases only.
`Checked` is `RunSupervisor.check`; a phase that raises ends the run with an error.
Abstracted: what probes print (their outcome is a choice), scores, wording;
probe names are two model values (interchangeable, hence the symmetry), one of
which a rail fault can name.  The caps on probes of a follow-up and on snippets
lie above that bound; the extra BMC runner's and the Redfish collectors' own
calls and the persistence of operator-given parts are left out.  The budget
of eight steps is the code's.

| run | bounds | shows |
|---|---|---|
| `run_safety` | 2 probes, 1 repair action, 8 steps, four kinds of run | one model per run, reproducible evidence, raw isolation dumps, a cancel that stops reasoning; `RunLeavesWhole`: agreeing artifacts, no real run discarded, a finished run closed |
| `progress` | 1 probe, a console run with documents and questions | every run ends (`RunEnds`) |
| `run_followup_budget` | as coded | an isolation and a follow-up together exceed the step budget (finding) |

Two probes are enough for one that ran and one that is asked for again in
another round; one action for a decision taken and one interrupted.  `RunEnds`
assumes weak fairness of the run's own steps: its calls to the LLM and to the
target have time-outs, and the approval prompt is answered or interrupted.

Seen while modelling, without a run of their own: the follow-up's prompt lacks
the operator's context lines (`engine.py:405`; TLC refutes
`ContextInEveryPrompt`); over SSH the probes a
document names are all refused, since each is passed as one argument
(`inspect/collectors/doc_guided.py`); the operator's answers about the parts
reach no prompt when the run has no documents (`engine.py:499`); a run stopped
by its budget leaves no audit record that says so; nothing closes the SSH
session of a run (`cli.py:1063`), so that a session of many runs adds them up.

### Proofs: `DiagnosticRunProofs.tla`

For any probes, collectors, options and step budget, from the assumption on the
constants alone: `TypeCorrect`, and all of what `run_safety` checks: `OneModel`
(`OneModelPerRun`), `Reproducible` (`EvidenceIsReproducible`), `RawStaysRaw`
(`IsolationStaysRaw`), `CancelStops` (`CancelledRunStopsReasoning`) and
`LeavesWhole` (`RunLeavesWhole`).  None is inductive: a phase takes over what
earlier phases have left, so the invariant `IInv` says of each point of the run
what was settled before it.

- `StageInv`: how far the run is in asking the model.  From there `CancelInv`: a
  cancelled run is past its last check, or has asked no more than it had.
- `ModelInv`: the snippets are of the model from their retrieval on, and it is
  reported once; the prompts, which outlive an abort, keep it.
- `DumpInv`: a probe whose dump is good was run, which is what the follow-up and
  the isolation round leave out; so the two share no dump, also when the agent
  names a probe of the isolation round in its answer.
- `EvidenceInv`: at each point that reads one of them, the registers decoded,
  the last prompt and, once written, `dumps.json` are of the same dumps.
- `FileInv`, `GateInv`, `OpenInv`: in which order the artifacts and the records
  of them come about, that every action is decided before the case is seated,
  and which connections are closed by the last lines.

## 5. The audit log: `AuditLog.tla`

| state | code |
|---|---|
| `file`, `terminated` | the lines of `audit.jsonl`, and whether the last ends in a newline |
| `handle[w]` | an `AuditLog` instance: `_seq` and `_last_hash` |
| `events` | the bound on appended events |
| `current`, `suspects`, `damaged` | history: which instances know the tail, which lines an accident touched, whether the file was changed from outside |

`Open` is `__init__`, `AppendEvent` is `append`, `Interrupted` is `append` cut
off in its write, `verify` the method of that name; `Damage` is anything else
that edits the file.  A digest is collision-free, so it stands for the chain of
bodies it was computed from.  Redaction is modelled by what it does: it alters
the stored line of a record with the secret, after the digest was taken.

`records` has two instances, one of which redacts, and four events.  It checks
that verify blames accidents only and that no change, removal or swap of a
historical line goes unnoticed.  A log that was given all its events, or whose
torn tail no instance can be opened on, stutters.  Two instances are enough for
a fork of the chain, four events for a line damaged between two others and one
appended afterwards.

Seen while modelling, without a run of its own: `verify` reports a redacted
record of a log nobody touched, since the record was hashed before its secret
was removed (`auditlog.py:58`; TLC refutes `UntouchedVerifies`).

### Proofs: in `RecordsProofs.tla`

From `LogAssumption` alone, for any instances and number of events:
`LogInvariant` (the inductive `IInv`), `AccidentsAreBlamed`,
`HistoryIsTamperEvident` and `TypeCorrect`.  `VerifyBlamesAccidents` is not
inductive: an instance that knows the tail must be shown to hold the hash the
next line is compared with (`ChainInv`).  That damage shows rests on digests
being injective and longer than what they chain (`DigestInjective`,
`DigestType`): a removed or swapped line leaves a gap in the chain
(`GapShows`), a changed one no longer matches its own digest or its
successor's (`ChangeShows`); and a line verify reports keeps being reported,
since nothing before it changes any more (`SamePrefix`, `Appended`, `Joined`).

## 6. The learning loop: `CaseStore.tla`

| state | code |
|---|---|
| `case[r]`, `tmp[r]`, `index` | `<root>/<run>.json`, its temporary file, `index.json` |
| `dir[r]`, `audit[r]`, `torn[r]` | the run's directory (with or without a seed), the case events of its audit log, and whether that ends in a torn line |
| `bundle` | the zip of the last export, or another device's |
| `pc`, `cmd`, `previous`, `linked`, `todo` | the command in progress: its arguments, `record`'s `previous` and `audit`, the rest of an import |
| `stored`, `replaced`, `stale` | history |

A step is one file change that another command can see, and `Crash` may fall
between any two or inside a write: a temporary file or an audit line is then
partial.  A record with a secret reference is refused by choice.  One operator
gives one command at a time; two processes labelling the same run race between
the check and the rename (`case_store.py:73`), which is listed under the
hazards and not modelled.  An import stores the cases one after the other
(`ImportCase`, through `save`), then the run directories: of each, the files by
name, the audit log (`ImportDir`) before the case seed (`ImportFiles`), with a
crash between any two.  The rest of a bundle (calibration, priors) is copied
by the same skip-or-replace rule and left out.

`records` gives three commands over two interchangeable runs, with two outcomes
and one crash: enough for a label, its correction and an import or deletion,
with the crash in any of them.  A stored outcome changes only by a command that
revises it, and the audit log of a run only grows (`RecordsStay`), retells what
was stored, and the index lists it.

Seen while modelling, without a run of their own: an import that revises a case
leaves no `case_revised` event (TLC refutes `RevisionIsAudited`); after a crash
between the rename and the index, `all()` misses the case until the next save,
although the index is said to be rescanned when stale (`case_store.py:10`); a
crash before the audit event leaves a case that is never audited.

### Proofs: `RecordsProofs.tla`

For any runs, outcomes, commands and crashes: `WholeCases` (`CasesAreWhole`),
`HistoryIsRetold` (`AuditRetellsHistory`), `AllIsListed` (`ListsWhatIsStored`) and
`StoreIsWriteOnce` (`RecordsStay`).  The invariant `StoreInv` follows a command
through its file changes: the temporary file and the case it replaces are what
this command made and read of them, since one works at a time (`CommandInv`); the
case of a run is the last outcome stored for it (`StoredInv`); and no event is of
an outcome later than the one about to be told (`AheadInv`), so that the next one
appended keeps the order.  The assumption on the constants says that there is a
run and an outcome; without them the store has no state to speak of.

## 7. The serial console: `ExpectSession.tla`, `Console.tla`

`ExpectSession` is one session: the script `render_expect_script` writes, run
by expect, against whatever reads its lines.

| state | code |
|---|---|
| `script` | the operations expect has still to do; a branch that matches prepends its own |
| `unread`, `transcript` | expect's buffer, and what the process printed (`stdout`) |
| `typed`, `reader`, `running`, `authed` | the far side: lines sent and not yet read, who reads the next, the probe that runs, sudo's time stamp |
| `exit` | the script's exit status |
| `heard`, `anchored`, `late` | history: who read which line, whether the node's prompt was matched before the first probe; the number of time-outs |

expect tries its patterns in the order listed against all it has not consumed
(`Matching`), and goes on behind an `expect` that timed out (`GoOn`): the script
sets no time-out, so that happens after ten seconds, or at once when the process
is gone.  The far side (rack manager, login, shell, sudo) is not part of the
repository; it answers as the script's patterns and comments expect, as late as it
likes, and the hop may be lost at any moment.  A line sent to a busy shell is
echoed by the terminal at once and again by the shell. The transcript is cut where
a line ends in a command, so the echo of a longer command passes for that of a
shorter one (`Endings`, `FirstEcho`).  That a probe's own output, or what the
login prints, contains a prompt or ends in a command is left out, and so is a
second host key or rack manager: `open` is one choice of outcome.

`Console` runs a call on it: `Asked` is what each caller filters out first,
`GroupsOf`/`Places`/`Answer` are `MultiConsoleRunner.batch_execute`,
`Woven`, `Recorded`, `ServeCached`, `ReadSingle` and `ReadBatch` the
`ConsoleRunner`, `SplitBatch` cuts the real transcript.  `calls` and `cache`
are its fields per service, `call` the local variables of the call, `retyped`
and a record's `clean` history.  The model probe may be asked for at any
time, where the code asks once more when it knows no model.

`channels` makes two calls over two services (one by jump with a login, one
direct without), with six commands and two time-outs a session: each record
holds its own probe's output and each answer stands at its place
(`OutputIsItsOwn`), the anchored script speaks to the node only, and nothing
good is typed again (`SpokenToTheNode`).  Two calls are enough for a result,
cached or failed, and a second request for it; the commands are a sudo probe,
one tool by two names whose line ends like the sudo probe's, a program the host
lacks, a refused and a banned command;
two time-outs let a slow answer be followed by another.  A finished run of calls
stutters (`Over`).

### Proofs: `ExpectProofs.tla`, `ConsoleProofs.tla`

`NodeIsSpokenTo` proves `SpokenToTheNode` for any services and plans, any probes
and answers, any number of calls and time-outs, under the assumptions the
constants have in `Channels`.  The invariant is `SerialInv`, which TLC checked on
the run's instance: `DialogueInv` for the session, `RunnerInv` for the calls.

What is left of a script has a shape that each operation keeps (`Ordered`,
`Untouched`): a sudo is followed by its expect, the password is sent by that
expect alone, and the hop is closed at the end.  That `render_expect_script`
writes such scripts is shown by the least list of probes for which it would not.
Until the node's prompt is matched the session is in one of five phases
(`RackPhase`, `StartPhase`, `UserPhase`, `AskedPhase`, `NodePhase`), each with
what may be unread and who may read; or it is at its exit; or it has gone on
without that prompt (`Astray`), and then will never match it as the first.
From then on it is `Anchored`: whoever reads a line typed later is the node's
shell or a sudo of that script, and a prompt for a password that is unread is
that of the sudo whose expect comes next (`SudoNext`) or of one that is answered
(`Proceeds`), however late the answers are.

That nothing good is typed again needs the calls: what a call has still to ask,
of which service, and which records it holds (`CallOK`, `CallsOK`).  Of a
service that a call for evidence has still to ask, no command of the call has a
good record: those that had one were left out before it was decided whom to ask
(`Asked`), and nothing is recorded there until that service's turn comes.

`OutputsAreTheirOwn` proves `OutputIsItsOwn`, as generally; of the services it
takes what `ConsoleRunner`s are built from, a list that is not empty and names
those the table has programs for (`ServiceAssumption`).  Three facts meet in it.

A session no expect of which timed out is `Told`.  It is in its opening, with the
operations for the probes unchanged behind it and no mark of a probe printed
(`Opened`); or the probes before the k-th are told and the k-th is to be typed
(`Ready`), or typed and answered so far (`Asks`); or it closes, all told
(`Closes`); or it is `Lost`, which is the far side gone with something still to
be typed, and never comes to the end of its script.  That the k-th probe is told
(`Tells`) says where in the transcript its echo and its output are: after those of
the probes before it, and nothing else of a probe is there.  A prompt is not
matched before the output because what a probe prints precedes the prompt that
follows it, and nothing of an earlier probe is unread when the next is typed.

A transcript that tells every probe is cut by `SplitBatch` into blocks that hold
one output each: the first line that ends with a probe's text, looked for behind
the echo of the one before, is its own echo (`EchoFound`), since between the two
there is only the other's output.  Where the echo of one is looked for hangs on
where that of the one before was found; `EchoPlaces` is a recursive function of it,
and that it finds all of them is shown by the least probe it would not.

The call then puts each answer at the place of its command.  `ReplyInv` says what
is recorded, kept and answered: a record that claims a clean answer has its own
probe's output and 127 just for a program the host lacks (`Own`); what is kept for
a wire line is an answer to it; and an answer of the call is right or its service
still to be asked (`ReplyOK`).  A share's commands and their places ascend alike,
so the woven records, refused ones in their places, answer theirs.

Seen while modelling, without a run of their own: when the rack manager says
late that the jump failed, the probes are typed at the rack manager's own shell
(TLC refutes `StatusStopsScript`); a probe that outlives its ten seconds gives
its output to the next one's record, both with exit 0 and cached (TLC refutes
`NoForeignOutput`; `OutputIsItsOwn` is about sessions without a time-out); a
transport error or a read time-out is no `SerialConsoleError` and leaves the
runner, although the class promises failed records (`sol.py:822-824`); a console
at a login prompt without node credentials in the vault reads the probes, and
then the sudo password, as user names.

## 8. The terminal: `Streams.tla`, `LineEditor.tla`

`Streams` is who prints where.  `made` lists the captures and buffers put in
the place of the terminal (0) so far, each with its owner and the stream it
was put over; `stdout` is `sys.stdout`, `worker` and `loop` are the two threads
with what each found there and will put back, `last` the last print and where
it landed.  `BeginCapture` ... `EndCapture` are `_redirect_stdout`,
`BeginVerify`/`EndVerify` the tee of `_tool_verify`, `BeginCommand`/`EndCommand`
`_run_sync`.  `channels` takes three turns, two commands of the loop and six
streams: enough for a capture taken over a buffer, and a turn after it.  It
checks that the loop's lines never land in its own queue or in a report
(`NeverFedBack`).  `repl_lost_output` shows that they may be lost (finding).
A thread is known by its ident, and the system gives the ident of a thread that
is over to a new one: `Ident` is any function of the turns, and three turns share
two idents in `channels`.  So a verify's lines may reach a report or queue of
another turn, if its thread had the same ident: `NeverFedBack` says that no other
case exists.  This one does: with one ident for two turns TLC refutes `OnlyItsThread`
(`repl.py:136`), since a capture that was put back after its turn takes the next
turn's lines.

`LineEditor` is `LineReader`: `strokes` the keys struck, `wire` the bytes (on a
Windows console: keys) that arrived, `partial` the bytes of the key being read,
`buf`, `pos`, `history`, `histIdx`, `draft` the editor's own, `returned` the
lines `poll` gave; `meant` is history, the operator's own account of what he
struck, which stops being sure where the editor has a divergence below.
Reading may be cut off after any byte (`ReadByte`, `EscapeTimesOut`,
`Interrupt`).  Four strokes of fifteen kinds on both consoles: enough for a
line, one recalled over it and edited.  `LineIsTyped` is checked in
`channels`; `editor_key_residue` shows that a key's bytes become text
(finding).  Bracketed paste is left out, since that finding keeps the
key that starts it from being read.

Proved in `ChannelsProofs`, for any number of turns, commands and streams and
whatever idents the threads have: `PrintsAreNotFedBack` (`NeverFedBack`).  Where a
line ends up is a recursion over the streams made (`Sink`).  `StreamInv` says of
every such recursion that there is one and that it ends where a line of that
thread may end (`SinksFit`), and the proof carries this over the one stream a
step adds: an induction that time does.  Beside it stands which thread has how
many streams to put back.

`LineIsWhatWasTyped` proves `LineIsTyped` for any number of strokes of the keys
modelled.  The difficulty is that the operator is ahead of the editor:
bytes lie unread, and the last of them may begin a key.  `EditorInv` therefore
has lines ahead (`Ahead`): there is a chain of them (`Trail`), one for each byte
unread, that starts at what the editor holds (`Holds`), goes on as the editor
will when it reads that byte (`Reads`, `Does`), and ends at what the operator
means (`Meets`).  Reading a byte takes the first from the chain, striking a key
adds its bytes to the end.  A key that is cut off (`EscapeTimesOut`,
`Interrupt`) leaves chains that the operator's account is no longer sure of, and
the lines he has struck since are not among those the theorem speaks of; up to
that key the chain is as it was.

Seen while modelling, without a run of their own: Up recalls the oldest line
first, and Down wipes the line being typed (`menu.py:490-503`; `test_menu.py:129`
has one line only); Esc followed by Enter swallows the Enter; bracketed paste
is switched off after the first line; a tab in a paste is inserted as a word; a
stray byte that is no UTF-8 takes the next character with it.

## 9. The rack: `Redfish.tla`, `SingleTests.tla`

`Redfish` is one collection: `user` (a debug run or the probe tool), `secret`
(the vault has the password), `at`, the `dumps` it leaves with the way each was
got, and the client's hops: how many it `made`, which are `open`, `forward` and
`port`.  A fetch goes directly, then through a hop made once (`Direct`,
`StartHop`, `Tunneled`); `CutOff` is a run that does not reach its last lines.
A run that reaches its end leaves no hop open and never has two
(`NothingLeftOpen`).  The probe tool closes none (`repl.py:705-801`), and a run
that is cut off leaves its hop open (`cli.py:1264-1265`): TLC refutes
`HopDiesWithItsUser`.

`SingleTests` is the driver of the vendor's menu against the node that shows it.
`node` is the menu program (where it is, its list, what it printed and was sent),
`driver` the code: the test wanted, the number taken for it, the tests discovered,
the last output and the results.  Numbers are echoed; a test ends in the list, in
the main menu, or in the list and then at once in the main menu (`EndsTest`,
`single_test.py:65`); the node may fall silent at any moment, so a read may end
anywhere with something read (`Read`), and it may die anywhere; a shell that is
launched again numbers the tests anew.  As history a result keeps which test had
the number sent (`there`), whether a read since the launch fell short (`early`),
whether the script was launched again for it (`relaunched`), and what the node
showed. `channels` has two tests, two numberings, two runs and two launches: a
run, one after it in the menu the first ended in, and a second launch between
them.  It checks `RanWhatItSays`: unless a read fell short, what was read is of
the test that had the number sent and a verdict is its verdict; that test is the
one asked for unless this run launched the script again; and there is a verdict if
the node was done and its last output showed one menu.

The exceptions are the code's, and TLC refutes what it says without them.
`RunsTheLabelAsked` (`single_test.py:143`): the number is looked up before
`_ensure_fat_menu` may launch the script again (`single_test.py:142-159`), and
three seconds of silence in a test end a read (`interactive.py:115`), so the
output of one test is filed under another's label.  `ListIsUpWhenSent`
(`single_test.py:239`): an output that shows the list and then the main menu is
taken for the list (`single_test.py:245`), so the number goes to the main menu.
The driver is not wired into the commands yet (`engine.py:66`).

Proved in `ChannelsProofs`: that a collection that reaches its end leaves no hop
open (`HopInv`: an open hop is the one the client has the port of; part of
`NothingStaysOpen`), and `ResultsAreOfTheirTests` (`RanWhatItSays`), for any
tests, numberings, runs and launches, silences and deaths of the shell.
`MenuInv` has two parts.  `Looked`: the number in hand is that of the test asked
for in the list known, until a launch for this run replaces that list.
`Placed`, as long as no read fell short: for each place of the driver, where
the node can be and what it has printed; the last output tells in which menu it
stands (`Standing`), unless it showed both.

## 10. The model and the fleet: `Relay.tla`, `LLMForward.tla`, `Fleet.tla`

`Relay` promises of each stream (one direction of one connection) that what is
read is a beginning of what was written, and that its end is seen only after
all of it, unless an end went away.  `LLMForward` is the code: `starter` is the
stage of `start()`, `keyFiles`, `hops`, `listening` and `stop` what it opened,
`acceptor`, `handler` and `pump` its threads, `inbox`, `chunk`, `outbox` the
bytes on both sides of a pump and in its hand, `eof` the ends told, `gone` and
`died` what the two ends did.  `close()` and the loss of the hop may fall
between any two steps.  It implements `Relay` under

    Promise == INSTANCE Relay WITH finished <- Finished, lossy <- Lossy

where `Finished` is the streams whose sender has closed, and `Lossy` those whose
sender died, whose receiver left, or whose hop, listener or channel was not
there.  `Relays` is the property `Promise!Spec` (run `channels`: one
connection, two bytes a stream, so that a read may leave one behind).  After a
close nothing is open, also when `start()` had got half-way, and a key is left
on disk in one case only (`NothingLeftOpen`): the password is read between the
key's write and the `try` that unlinks it (`tunnel.py:163-171`).

`ChannelsProofs` proves the refinement for any connections and any number of
bytes (`ForwardIsRelay`), and `NothingStaysOpen`.  The invariant `ForwardInv` has
three parts.  `OwnerInv`: at each stage of `start()`, what is open and on disk,
and who may close it.  `ThreadsInv`: a pump runs while its connection is piped,
and the end of a stream is told when its pump is over or never was.
`CarriedInv`: the bytes of a stream are numbered as they are written, and those
read, on their way, in the pump's hand and not yet read by it are in their
places; none is missing while the pump runs, and a pump that has ended has
brought all of them through or its stream is lossy (`Carried`).  Each step of
the forward is then a step of the relay or a stutter.

`Fleet` is `debug-fleet`: `main`, `next`, `argsUrl`, `nsUrl` and the `shared`
forward are the main thread's; `pc[s]`, `held[s]` a run's; `context` and `scratch`
the gate's, `vault` and `keyFile` the files of each path; `results`, `failures`,
`status` what is gathered.  `progress` has three servers on two threads: two share
a vault path, two share a label, so that keys, prompts and results meet, and a run
waits in the queue.  `FleetIsSound` is that 0 is returned only if no run failed,
that the forward outlives the runs, and that no private key stays behind.  That
the runs use that forward (`cli.py:1307-1310`) does not hold: the worker's
arguments are copied before its address is put into them (`cli.py:1388`; TLC
refutes `RunsShareTheForward`).  A run that is done is entered with the session
its worker returns (`SessionId`), which is none, because the pipeline puts the
trace into a copy of the worker's overrides (`cli.py:908`): so the table at the
end calls every run failed (`cli.py:1338`; TLC refutes `TableIsTrue`), while the
exit status counts failures and is right.  The pool's queue is the list's order of
the runs not taken up yet (`First`).

`ProgressProofs` proves `FleetStaysSound` (`FleetIsSound`) and `FleetTypeCorrect`
for any list of servers, any sharing of labels and vault paths and any number
of threads.  `PhaseInv` says where the runs can be in each phase of the main
thread: the pool's `with` keeps it until every run is over, so the forward,
closed past it, outlives them.  `KeyInv` gives each key file an owner: a run of
that path between the write and the unlink that ends its connection.  Two runs
that share a path may find the file gone, but neither leaves it.

Seen while modelling, without a run of their own: a key generated for one
server may be installed on another, whose worker set the prompter's context
last (`credential_gate.py:444`; TLC refutes `InstalledOnItsTarget`); two runs
with one vault path share the temporary key file, though its name is said to
be unique (`vault.py:100`; `KeyFileIsItsOwn`), and one may unlink it before the
other connects; `DirSecretStore.put` writes in place, so that a reader may see
half a key; after Ctrl-C the command waits for the runs still queued; a server
that goes away, or a lost hop, does not end the client's stream while the other
direction is idle (`tunnel.py:270`; `LostServerEndsStream`).

### Fairness

`Progress` assumes weak fairness of each thread at work: the run's own steps
(section 4); the fleet's main thread, its pool's taking up of a queued run and
each step of a run, since prompts are answered, while Ctrl-C is the operator's
choice; the forward's acceptor, handlers and pumps.  Of the two ends it assumes
that they read what reaches them and that a server closes a connection whose
client has hung up.  From this `RunEnds`, `FleetEnds` and `HangUpClosesPair`
follow.  `Progress` has one byte a stream: a pair must end however much is
under way, and a second byte only repeats the copying.

## 11. What a session remembers: `Conversation.tla`

| state | code |
|---|---|
| `ses[p]` | the `Session` of a process, or `Down`: mode, directory, target, transcript, digest, last run, runs; where its loop is (`loop`, with the `payload` a `/resume` has read), and where its turn is (`step`, `tool`, `aim`, calls, pages, the run it `made`) |
| `file[d]`, `saves` | `session.json` of a directory, and the order in which they were saved |
| `done` | the run directories with a diagnosis, newest last, each with the process that made it |
| `said`, `starts` | bounds on transcript entries and launches; `talk` and an entry's `of` are history |

`Launch` continues, resumes or begins, `Use` is the change of target, `Decide` ...
`Observe` the agent's turn within its budget, `Cancelled` its end by `/stop`,
`Finish` and `Quit` save; a save may fail or be cut off (`Write`, `ForcedSave`),
`Kill` is anywhere, `KillInSave` cuts the file off.  The worker and the loop share the
session without a lock, so what both assign is one action a statement.  The
worker: `Diagnose`, then `FindRun` (the newest run directory becomes
`last_run`), `ListRun`, `ShowRun` (`repl.py:1116-1120`; `LoadRun` joins them at
`ListRun`, `repl.py:543-546`).  The loop: `SlashResume` (transcript, pending and
runs), `ResumeEvidence`, `ResumeCheck`, `ResumeRebuild` (an old file without a
digest), `ResumeTarget` (`repl.py:1698-1765`); `ResumeTorn` is a file that cannot
be parsed, whose exception ends the loop.  The newest run directory is looked for under
`--out-dir`, so it may be another process's (`DiagnoseElsewhere`).  What a
digest is, is the diagnosis it tells of and the run it names.

`memory` has one process, two directories, one target, one message, two
diagnoses, one more made elsewhere, two calls a turn and two launches: enough to
resume one conversation inside the other while its turn records a run, to be
killed, and to continue.  `ChatIsTargetless` and `DigestIsRecorded` hold through
all of it: a digest tells of a diagnosis that the run it names recorded, or
names a newer run of someone else over it.

Two things do not hold, and TLC refutes them with two messages and one call a
turn.  `DigestIsListed`:
a `/resume` between `ListRun` and `ShowRun` (`repl.py:1119-1120`) leaves a session
that answers from a run which `/runs` does not list.  `PagesOfThisMessage`: a turn
that is stopped after the documents tool queued pages leaves them for the next
message (`repl.py:1025-1031`, against `repl.py:110-111`).

`MemoryProofs` proves, for any number of processes, directories, targets and
bounds, `TalkTypeCorrect`, `ChatsAreTargetless` (`ChatIsTargetless`) and
`DigestsAreRecorded` (`DigestIsRecorded`).  `TalkInv` says of each session what
it knows and what a `/resume` under way has read (`Known`), and what the worker
has in hand (`InHand`): between its diagnosis and the search no later run is of
its own process, so what it then lists and shows is the run it made or a newer
one of another.  That is kept by the loop's statements because they touch
nothing of it, and by the worker's because whatever the loop put in between is
itself known to be recorded.

Seen while modelling, without a run of their own: after `/resume` the loaded
conversation is saved into the directory of the one it replaced
(`repl.py:1914`, `USER_GUIDE.md:196-199`; TLC refutes `OneConversationOneFile`);
a save that is cut off leaves a file nothing can resume (`repl.py:1686`), and one
that fails is not told (`repl.py:1688`); two processes may continue one session and
overwrite each other.

## 12. Documents: `DocLibrary.tla`

`pdfs`, `manifest` and `chunks` are what a library directory holds, `manifestTmp`
and `chunksTmp` the temporary files of its two writes, `work[p]` the operation a
process is doing with the snapshot it began from; `hurt` and `removed` are
history: the documents an operation was cut off on, and those removed whose name
nobody has put back.  `Add`, `Reindex`, `RemoveDoc` and `Retag` read first, work
file by file (a removal reads the chunks only when the file is gone,
`LoadChunks`), then replace the chunks and the manifest; `Kill` falls between any
two of these steps, `ByHand` puts a file into `pdfs/` or takes it away.  `memory`
has one process, two names of two contents, one platform and three operations: a
document, an operation beside it that is killed, and one after that.  What the
manifest lists is found (`IndexedIsFound`), what was removed stays gone
(`RemovedStaysGone`).

`MemoryProofs` proves both for one process (`WhatIsIndexedIsFound`,
`RemovedDocsStayGone`), for any names, chunks and platforms, any number of
operations, and any number of kills and of changes by hand between them.  Their
invariant `LibInv` says for each point of an operation how far its snapshot, the
temporary files, the chunks and the manifest are apart: the chunks are
replaced first, so until the manifest follows, what the operation touched is
not backed by what is listed (`Backed`), and a kill there leaves it hurt; what
was removed is in neither file, in no snapshot and in no directory entry
(`NotIn`, `NoSource`).  Trying to prove `RemovedStaysGone` showed what three
operations do not: a name put back by hand between the unlink and the
replacing of the manifest is a new document, which the next reindex may take
in.  So a job keeps the names whose files it took away (`gone`), and only
those that are still away when the manifest is replaced count as removed.

Seen while modelling, without a run of their own: a reindex drops the tags of
every document it indexes anew (`library.py:247-264`, against
`prompts/02-model-tagged-rag.md:41`; TLC refutes `ReindexPreservesTags`); and
with two processes neither property of the run holds, since nothing locks the
directory: they share the temporary files, and each writes back the snapshot it
began from.  So the run has one process.

## 13. What outcomes teach: `Learning.tla`, `Scoring.tla`, `Evaluation.tla`

`Learning`: `cases` (the labels, which may change), `calibration[f]` and `priors`,
the files rebuilt by `calibrate` and `priors update`, and as history `taught[f]`,
the labels a file was built over.  `memory` has four labelled runs of two of three
models, two of which share a file, over two subsystems and two bins, two labels,
`MinPerBin` 2 and `MinVerified` 3 (3 and 10 in the code): small enough to have a
bin below, at and above the minimum.  `NoUnearnedTrust`: a claim is trusted above
or below even only on cases, in that range, of the one model its calibration
names, and no further than their number allows; and learnt priors keep every score
between half and twice the static one.  That model need not be the one asked for:
`_filename` maps several names to one file (`FileOf`), and the name inside is not
compared, so a model may be given another's calibration (`calibration.py:133-135`,
against `cli.py:1585-1586`; TLC refutes `SwapInheritsNothing`).

`Scoring` is `score_diagnosis` with `root_cause_certainty` and `apply_to`, in
thousandths: `answer`, `confidence` and `breakdown`.  The answers are all those
of the bounded shapes (two pages and a section to cite, three kinds of
evidence, two suspects, two agreements).  `EvidenceDecides`: an answer worse in
one respect is never trusted more, and the result lies between the weakest
and the strongest component that applies; a jump to a conclusion costs at least
0.075.

`Evaluation` is `harness eval`: `cases` again, while other processes label;
`eval`, where the replay is, and the holdout and outcomes it works with, which it
reads after `run_eval` has looked whether there is anything to do; `baseline`, the
file, and as history `golden`, the numbers last set. Three runs, two of them in
the holdout, one confidence (all replays in one bin), a tolerance of 50 and three
evaluations: one that sets, one that is killed in the write or sets again, one
that compares.  `NoDrift`: what passes is within the tolerance of the numbers last
set.  What a replay is shown (the library of prior cases without the holdout, the
documents) is not modelled.

### Proofs: `MemoryProofs.tla`

`ConfidenceIsEarned` proves `EvidenceDecides` for any finite pages, sections and
suspects, any evidence and any agreement.  Its invariant, `ScoreInv`, says what
the breakdown holds: each component is `RoundDiv` of a part by a whole, the
confidence is the rounded mean over the components that apply, less the
penalty.  The argument: rounding keeps the order of fractions
(`RoundDivOrder`), so an answer worse in one respect has no component greater;
a mean lies between its least and greatest term and does not grow when a term
falls; and a discriminating probe lifts the certainty by 500, which is at least 125
in the mean whatever drops out, against a penalty of 50: the 75 that a jump costs.

`TrustIsTaught` proves `NoUnearnedTrust` for any finite number of runs, models,
bins, subsystems and keywords, any sequence of labels, corrections, deletions and
rebuilds, a file that cannot be read, and whichever models share a file.
The invariant `LearnInv` keeps, of each histogram, what it was built over
(`BuiltOver`): a bin's `n` is the number of the named model's own cases `taught` has
there, and its rate is above even only if one of them is, below even only if one
of them is (`FairBin`, `FairHistogram`).  That is a statement about a sum
divided by a count (`RateIsEarned`), hence about `SumOver`, which is a fold that
takes its elements in no fixed order.  That a sum does not depend on it, and is
bounded by its size times its bounds, is proved without the library's
induction theorems, by the least counterexample: among the finite sets for
which it fails one has no other below it (`LeastSubset`, from the
well-foundedness of strict inclusion).  The same sums show that learnt
multipliers are numbers between a half and two.

About `Evaluation`, for any runs, holdouts, labels, confidences, tolerance and
number of evaluations, and without an assumption on them: `PassingMeansNoDrift`
(`NoDrift`) and the type invariant (`EvaluationTypeCorrect`).  `NoDrift` needs
more than its own step shows: that a baseline which can be read is the one last
set (`BaselineInv`), whatever was killed in between.

Seen while modelling, without a run of their own: when there are too few cases an
older file stays in force (`cli.py:1605`, `1779`); an inconclusive outcome counts
as 0.25, below even (`calibration.py:69-70`); a failed fix of one subsystem raises
the multipliers of the others, whose share it enlarges (`priors_build.py:20`);
`priors.json` and `baseline.json` are written in place.

## 14. What is proved and what is only checked

Proved by TLAPS for every value of the constants:

| module | about | properties of the runs it proves |
|---|---|---|
| `ReplProofs` | `Repl` | `OneWorker`, `ReapedTurnHadNoReport`, `AnswerTakenOnce`, `SeededOnce` |
| `DiagnosticRunProofs` | `DiagnosticRun` | `OneModelPerRun`, `EvidenceIsReproducible`, `IsolationStaysRaw`, `CancelledRunStopsReasoning`, `RunLeavesWhole` |
| `RecordsProofs` | `AuditLog`; `CaseStore` in `Records` | `VerifyBlamesAccidents`, `TamperEvident`; `CasesAreWhole`, `AuditRetellsHistory`, `ListsWhatIsStored`, `RecordsStay` |
| `ProgressProofs` | `Fleet` in `Progress` | `FleetIsSound` |
| `MemoryProofs` | `Evaluation`; `Conversation`, `DocLibrary`, `Learning`, `Scoring` in `Memory` | `NoDrift`; `ChatIsTargetless`, `DigestIsRecorded`, `EvidenceDecides`, `NoUnearnedTrust`; for one process on the library `IndexedIsFound`, `RemovedStaysGone` and `AllTypeOK` |
| `ChannelsProofs` | `LLMForward`, `Redfish`, `Streams`, `SingleTests`, `LineEditor` in `Channels` | `Relays`, `NothingLeftOpen`, `LineIsTyped`, `NeverFedBack`, `RanWhatItSays` |
| `ConsoleProofs` over `ExpectProofs` | `ExpectSession`, `Console` in `Channels` | `SpokenToTheNode`, `OutputIsItsOwn` |

The type invariants of `Repl`, `AuditLog`, `DiagnosticRun`, `CaseStore`, `Fleet`,
and all parts of `Memory` are proved with them.  One hypothesis is left,
`OneProcess`, that a single process works on the document library; the instance of
the run satisfies it, and without it there are counterexamples (section 12).  The
assumptions on the constants are those the modules name.  Every inductive
invariant but `EditorInv` and the serial console's `Sound` was checked by TLC on
the run's instance before it was proved; the one speaks of lines ahead and the
other of any list of what is left of a script, of which there are too many to
list, and they were tried on the proof alone.

Where a proof is about a composite, only one part moves and the others stand
(`OneChannelMoves` and its like), so each part has an invariant over its own
next-state relation and the composite's theorem combines them.

Model-checked only: the liveness properties (`StopEndsTurn`, `TurnReleased`,
`CredentialServed`, `RunEnds`, `FleetEnds`, `HangUpClosesPair`), since liveness under
fairness and ENABLED are out of this prover's reach; and the type invariant of
`Channels` as a whole, of which the line editor's part follows from `EditorInv`.

Deadlock is an error in `repl_safety`, `repl_liveness`, `run_safety`, `records`
and `channels`; in the last two a part that has come to the end of its bounds
stutters.  `CHECK_DEADLOCK FALSE` stands where a part really stops when the
operator gives no more commands, or the run is over: `memory`, `progress`,
`repl_lost_output`, `editor_key_residue`.

| run | properties it checks |
|---|---|
| `repl_safety`, `repl_liveness` | section 3 |
| `run_safety` | section 4 |
| `records` | sections 5 and 6 |
| `channels` | sections 7, 8, 9 and 10 |
| `memory` | sections 11, 12 and 13 |
| `progress` | sections 4 and 10 |
| `repl_swapped_secret`, `repl_lost_report`, `run_followup_budget`, `repl_lost_output`, `editor_key_residue` | a divergence each, found as a violation (sections 3, 4 and 8) |

## 15. Not modelled

- The probe gate decides by regular expressions: what it says is the text of
  its patterns.  `Console` has its verdict as a constant (`Denied`, `Gated`).
- The command runner and its retry are a bounded loop around one call without
  state between calls; their outcomes are those `Console` and `DiagnosticRun`
  let a probe have.
- The sudoers generator, the decoder, the factory test logs and topology
  extraction are functions of one text.
- The LLM clients send one request and validate its JSON, with one retry:
  `DiagnosticRun` has the outcomes, prompt text stays out.
- The parts store is read whole and written whole; target resolution is a
  lookup in a fixed order; configuration is validated once.
- Menus, set-up wizards and rendering: no state outlives a call but the files
  set-up writes once.
- Of parts that are modelled: the prompts of the credential gate and the
  secrets commands, the bastion's channel and known hosts, the sealed stores,
  the opening of a console's two hops step by step, the host collectors, the
  ranking of prior cases and of documents, the wording of prompts and reports.
- HTTP, SSH and terminal libraries appear as the outcomes their callers handle.
