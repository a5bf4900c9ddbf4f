---------------------------- MODULE Conversation ----------------------------
(***************************************************************************)
(* What a session knows and what it leaves on disk: the Session object of  *)
(* operator/repl.py with its transcript, target, digest and runs, the      *)
(* session.json of every session directory, and the run directories.       *)
(* Processes are launched, resumed, killed and launched again over the     *)
(* same directories.  The agent's turn (operator/chat_agent.py) runs in a  *)
(* worker thread while the operator goes on typing slash commands: what a  *)
(* finished diagnosis and what a /resume assign to the Session, statement  *)
(* by statement, may mix.  Module Repl has the rest of the hand-over       *)
(* between the two threads.                                                *)
(***************************************************************************)
EXTENDS Naturals, FiniteSets, Sequences, SequencesExt

CONSTANTS
  Procs,      \* the processes (terminals) that run the harness
  Dirs,       \* session directories
  Targets,    \* what a TargetSpec may resolve to
  NoTarget,   \* an empty TargetSpec
  Down,       \* no process
  NoFile,     \* no session.json
  Torn,       \* a session.json whose write was cut short: not JSON
  MaxSaid,    \* bound: transcript entries ever made
  MaxRuns,    \* bound: diagnosis runs ever finished
  MaxElsewhere,   \* bound: those of them no session made
  MaxCalls,   \* `_tool_budget'
  MaxStarts   \* bound: launches

(* What the constants must satisfy, assumed by Memory                     *)
ConversationAssumption ==
  /\ NoTarget \notin Targets /\ Down \notin Procs
  /\ {MaxSaid, MaxRuns, MaxElsewhere, MaxCalls, MaxStarts} \subseteq Nat

VARIABLES
  ses,      \* process -> its Session, or Down
  file,     \* session directory -> its session.json
  saves,    \* the directories, the one saved last at the end (st_mtime)
  done,     \* the run directories with a diagnosis.json, newest last:
            \* the session that made each, Down for one made outside any
  said,     \* how many transcript entries were ever made
  starts    \* how many processes were ever launched

vars == <<ses, file, saves, done, said, starts>>

DebugTools == {"diagnose", "probe", "docs", "verify", "run", "file"}
ChatTools == {"docs", "run", "file"}
DebugOnly == DebugTools \ ChatTools
NoRun == 0
RunIds == 0 .. MaxRuns

\* A digest tells of the diagnosis `diag' and says `run_dir: run'.
Digest == [run : RunIds, diag : RunIds]
NoDigest == [run |-> NoRun, diag |-> NoRun]

\* An entry belongs to the conversation of the directory it was begun in.
Entry == [of : Dirs, n : 1 .. MaxSaid]

Payload == [mode : {"chat", "debug"}, target : Targets \cup {NoTarget},
            log : SUBSET Entry, digest : Digest, runs : Seq(RunIds)]

Session ==
  [mode : {"chat", "debug"}, dir : Dirs,
   talk : Dirs,             \* the conversation the operator is in
   target : Targets \cup {NoTarget}, log : SUBSET Entry,
   digest : Digest, runs : Seq(RunIds), last : RunIds,
   sight : {"unknown", "yes", "no"},   \* vision_ok, vision_disabled
   pages : 0 .. MaxSaid,    \* the message whose pages are queued, or 0
   loop : {"poll", "evidence", "check", "rebuild", "target"},
   payload : Payload \cup {NoFile},    \* what /resume has read
   step : {"idle", "decide", "act", "find", "list", "show", "over"},
   msg : 0 .. MaxSaid,      \* the message the turn answers
   calls : 0 .. MaxCalls,
   tool : DebugTools \cup {"none"},
   aim : Targets \cup {NoTarget},      \* the target in the tool's argv
   made : RunIds]           \* the run whose diagnosis the tool returned

Up(p) == ses[p] # Down
Readable(d) == file[d] \notin {NoFile, Torn}

TypeOK ==
  /\ ses \in [Procs -> Session \cup {Down}]
  /\ \A p \in Procs :
       Up(p) /\ ses[p].loop # "poll" => ses[p].payload # NoFile
  /\ file \in [Dirs -> Payload \cup {NoFile, Torn}]
  /\ saves \in Seq(Dirs) /\ IsInjective(saves)
  /\ done \in Seq(Procs \cup {Down}) /\ Len(done) <= MaxRuns
  /\ said \in 0 .. MaxSaid
  /\ starts \in 0 .. MaxStarts

Init ==
  /\ ses = [p \in Procs |-> Down]
  /\ file = [d \in Dirs |-> NoFile]
  /\ saves = <<>>
  /\ done = <<>>
  /\ said = 0
  /\ starts = 0

-----------------------------------------------------------------------------
\* session.json

Saved(s) ==
  [mode |-> s.mode, target |-> s.target, log |-> s.log, digest |-> s.digest,
   runs |-> s.runs]

\* _save_session: nothing is written for a session with nothing to keep.
NothingToKeep(s) == file[s.dir] = NoFile /\ s.log = {} /\ s.runs = <<>>

\* The directories in the order of their last saves, d left out.
Without(d) ==
  IF d \in ToSet(saves) THEN RemoveAt(saves, CHOOSE i \in DOMAIN saves : saves[i] = d)
  ELSE saves

\* The write, which a full disk may cut short.
Write(s) ==
  /\ \E f \in {Saved(s), Torn} : file' = [file EXCEPT ![s.dir] = f]
  /\ saves' = Append(Without(s.dir), s.dir)

\* "Persistence is best-effort": an OSError is swallowed.
ForcedSave(s) == Write(s) \/ UNCHANGED <<file, saves>>

Save(s) ==
  IF NothingToKeep(s) THEN UNCHANGED <<file, saves>> ELSE ForcedSave(s)

\* Fault: a target named in the payload is taken over in every mode.
TargetInEveryMode(s, f) == IF f.target = NoTarget THEN s.target ELSE f.target

\* The target once payload f is loaded: a chat ignores the payload's.
TargetLoaded(s, f) ==
  IF s.mode = "chat" \/ f.target = NoTarget THEN s.target ELSE f.target

\* A session without a digest has it rebuilt from its newest run.
Rebuilt(digest, runs) ==
  IF runs = <<>> THEN digest ELSE [run |-> Last(runs), diag |-> Last(runs)]

\* _load_session at launch, before there is a worker: the transcript, the runs
\* and the digest are the file's; session_dir, last_run and the queued pages
\* stay.
Loaded(s, d) ==
  LET f == file[d]
  IN  [s EXCEPT !.talk = d, !.log = f.log, !.runs = f.runs,
         !.digest = IF f.digest = NoDigest THEN Rebuilt(f.digest, f.runs)
                    ELSE f.digest,
         !.target = TargetLoaded(s, f)]

\* _newest_session: the last saved directory whose payload can be parsed and
\* is of this mode and, in debug mode, of this target.
Continues(d, mode, t) ==
  /\ Readable(d)
  /\ file[d].mode = mode
  /\ mode = "debug" => file[d].target = t

NewestSession(mode, t) ==
  {d \in Dirs :
     /\ Continues(d, mode, t)
     /\ \E i \in DOMAIN saves :
          /\ saves[i] = d
          /\ \A j \in i + 1 .. Len(saves) : ~Continues(saves[j], mode, t)}

-----------------------------------------------------------------------------
\* Launch: run_session.

Fresh(mode, d, t) ==
  [mode |-> mode, dir |-> d, talk |-> d, target |-> t,
   log |-> {}, digest |-> NoDigest, runs |-> <<>>, last |-> NoRun,
   sight |-> "unknown", pages |-> 0, loop |-> "poll", payload |-> NoFile,
   step |-> "idle", msg |-> 0, calls |-> 0,
   tool |-> "none", aim |-> NoTarget, made |-> NoRun]

Start(p, s) ==
  /\ ses' = [ses EXCEPT ![p] = s]
  /\ Save(s)                         \* _repl_loop saves before its first poll
  /\ starts' = starts + 1
  /\ UNCHANGED <<done, said>>

\* No --resume and no --new: the newest conversation goes on.
Continue(p, mode, t) ==
  \E d \in NewestSession(mode, t) : Start(p, Loaded(Fresh(mode, d, t), d))

\* A directory named for the second of the launch.
StartFresh(p, mode, t) ==
  \E d \in Dirs :
    /\ file[d] = NoFile
    /\ \A q \in Procs : Up(q) => ses[q].dir # d
    /\ Start(p, Fresh(mode, d, t))

\* --resume <dir>: any saved session, whatever its mode and target.  One that
\* is not JSON ends the launch.
ResumeDir(p, mode, t) ==
  \E d \in Dirs : Readable(d) /\ Start(p, Loaded(Fresh(mode, d, t), d))

Launch(p) ==
  /\ ~Up(p) /\ starts < MaxStarts
  /\ \/ \/ Continue(p, "chat", NoTarget)
        \/ StartFresh(p, "chat", NoTarget)
        \/ ResumeDir(p, "chat", NoTarget)
     \/ \E t \in Targets : Continue(p, "debug", t)
     \/ \E t \in Targets \cup {NoTarget} :
          StartFresh(p, "debug", t) \/ ResumeDir(p, "debug", t)

\* The ways down: _repl_loop's finally clause saves, wherever the loop and the
\* worker are; a kill does not, and may fall into a write.
Quit(p) ==
  /\ Up(p)
  /\ Save(ses[p])
  /\ ses' = [ses EXCEPT ![p] = Down]
  /\ UNCHANGED <<done, said, starts>>

Kill(p) ==
  /\ Up(p)
  /\ ses' = [ses EXCEPT ![p] = Down]
  /\ UNCHANGED <<file, saves, done, said, starts>>

KillInSave(p) ==
  /\ Up(p) /\ ~NothingToKeep(ses[p])
  /\ ses' = [ses EXCEPT ![p] = Down]
  /\ file' = [file EXCEPT ![ses[p].dir] = Torn]
  /\ saves' = Append(Without(ses[p].dir), ses[p].dir)
  /\ UNCHANGED <<done, said, starts>>

-----------------------------------------------------------------------------
\* The operator's lines.

NewEntry(s) == [of |-> s.talk, n |-> said + 1]

Became(p, s) == ses' = [ses EXCEPT ![p] = s]

\* The loop waits for a line.
Polls(p) == Up(p) /\ ses[p].loop = "poll"

\* _handle_idle_line: record it, save, start the turn.
Message(p) ==
  LET s == ses[p]
      t == [s EXCEPT !.log = @ \cup {NewEntry(s)}, !.msg = said + 1,
                     !.step = "decide"]
  IN  /\ Polls(p) /\ s.step = "idle" /\ said < MaxSaid
      /\ Became(p, t)
      /\ Save(t)
      /\ said' = said + 1
      /\ UNCHANGED <<done, starts>>

\* _handle_busy_line and /context: recorded, saved with the next save.
Note(p) ==
  LET s == ses[p]
  IN  /\ Polls(p) /\ said < MaxSaid
      /\ Became(p, [s EXCEPT !.log = @ \cup {NewEntry(s)}])
      /\ said' = said + 1
      /\ UNCHANGED <<file, saves, done, starts>>

\* _set_target: the session's target, nothing else.
SetTarget(s, t) == [s EXCEPT !.target = t]

\* /use, refused in a chat: the digest and the last run stay as they are.
Use(p) ==
  /\ Polls(p) /\ ses[p].mode = "debug"
  /\ \E t \in Targets \ {ses[p].target} : Became(p, SetTarget(ses[p], t))
  /\ UNCHANGED <<file, saves, done, said, starts>>

\* /askparts and /model save at once, also in the middle of a turn.
SaveNow(p) ==
  /\ Polls(p)
  /\ ForcedSave(ses[p])
  /\ UNCHANGED <<ses, done, said, starts>>

\* /resume <dir>, also while a turn runs: _load_session, statement by statement.
\* The worker neither reads nor sets two of the first three together.
SlashResume(p) ==
  /\ Polls(p)
  /\ \E d \in Dirs :
       /\ Readable(d)
       /\ Became(p, [ses[p] EXCEPT !.talk = d, !.log = file[d].log,
                       !.runs = file[d].runs, !.payload = file[d],
                       !.loop = "evidence"])
  /\ UNCHANGED <<file, saves, done, said, starts>>

ResumeEvidence(p) ==
  /\ Up(p) /\ ses[p].loop = "evidence"
  /\ Became(p, [ses[p] EXCEPT !.digest = ses[p].payload.digest, !.loop = "check"])
  /\ UNCHANGED <<file, saves, done, said, starts>>

ResumeCheck(p) ==
  /\ Up(p) /\ ses[p].loop = "check"
  /\ Became(p, [ses[p] EXCEPT
       !.loop = IF ses[p].digest = NoDigest THEN "rebuild" ELSE "target"])
  /\ UNCHANGED <<file, saves, done, said, starts>>

ResumeRebuild(p) ==
  /\ Up(p) /\ ses[p].loop = "rebuild"
  /\ Became(p, [ses[p] EXCEPT !.digest = Rebuilt(ses[p].digest, ses[p].runs),
                  !.loop = "target"])
  /\ UNCHANGED <<file, saves, done, said, starts>>

ResumeTarget(p) ==
  /\ Up(p) /\ ses[p].loop = "target"
  /\ Became(p, [ses[p] EXCEPT !.target = TargetLoaded(ses[p], ses[p].payload),
                  !.payload = NoFile, !.loop = "poll"])
  /\ UNCHANGED <<file, saves, done, said, starts>>

\* json.loads on what a cut-off write left: nobody catches it but the finally
\* clause, and the process goes down.
ResumeTorn(p) ==
  /\ Polls(p)
  /\ \E d \in Dirs : file[d] = Torn
  /\ Save(ses[p])
  /\ ses' = [ses EXCEPT ![p] = Down]
  /\ UNCHANGED <<done, said, starts>>

-----------------------------------------------------------------------------
\* The agent's turn: _run_agent.

\* decide() drops a tool outside the mode's set; the keyword fallback has a
\* chat-only refusal for the target tools.
Allowed(mode) ==
  (IF mode = "debug" THEN DebugTools ELSE ChatTools) \cup {"none"}

\* build_messages: the queued pages ride on one decision.
ShowMessages(s) == [s EXCEPT !.pages = 0]

\* The endpoint rejects the pages: text-only from here on.
Rejected(s) == [s EXCEPT !.sight = "no"]

\* Fault: the budget is never used up.
NeverSpent(s) == FALSE

\* _tool_budget
Spent(s) == s.calls = MaxCalls

\* _apply_turn_target: a diagnose may name a target of its own.
TurnTargets(s, turn) ==
  {s.target} \cup (IF turn = "diagnose" THEN Targets ELSE {})

\* _target_argv: what the tool is told to work on.
TargetArgv(t) == t

\* A decision: a final answer, or a tool; once the budget is spent the forced
\* last decision ends the turn too.
Decide(p) ==
  LET s == ses[p]
      told == ShowMessages(s)
  IN  /\ Up(p) /\ s.step = "decide"
      /\ \E turn \in Allowed(s.mode), seen \in {told} \cup
           (IF s.pages # 0 THEN {Rejected(told)} ELSE {}) :
           \/ /\ turn = "none" \/ Spent(s)
              /\ Became(p, [seen EXCEPT !.step = "over"])
           \/ /\ turn # "none" /\ ~Spent(s)
              /\ \E t \in TurnTargets(s, turn) :
                   Became(p, [seen EXCEPT !.step = "act", !.tool = turn,
                                !.calls = @ + 1, !.target = t,
                                !.aim = TargetArgv(t)])
      /\ UNCHANGED <<file, saves, done, said, starts>>

\* /stop is seen at the head of the loop, before the queued pages are.
Cancelled(p) ==
  /\ Up(p) /\ ses[p].step = "decide"
  /\ Became(p, [ses[p] EXCEPT !.step = "over"])
  /\ UNCHANGED <<file, saves, done, said, starts>>

\* run_diagnose leaves a run directory with a diagnosis.json, the newest.
Diagnose(p) ==
  LET s == ses[p]
  IN  /\ Up(p) /\ s.step = "act" /\ s.tool = "diagnose" /\ s.aim # NoTarget
      /\ Len(done) < MaxRuns
      /\ done' = Append(done, p)
      /\ Became(p, [s EXCEPT !.step = "find", !.made = Len(done) + 1])
      /\ UNCHANGED <<file, saves, said, starts>>

\* `harness diagnose', a fleet, or a terminal of its own: the same --out-dir.
DiagnoseElsewhere ==
  /\ Len(done) < MaxRuns
  /\ Cardinality({r \in DOMAIN done : done[r] = Down}) < MaxElsewhere
  /\ done' = Append(done, Down)
  /\ UNCHANGED <<ses, file, saves, said, starts>>

\* Fault: the first run of a session stays its last one.
FindFirstRun(p) ==
  /\ Up(p) /\ ses[p].step = "find"
  /\ Became(p, [ses[p] EXCEPT !.step = "list",
                  !.last = IF @ = NoRun THEN Len(done) ELSE @])
  /\ UNCHANGED <<file, saves, done, said, starts>>

\* _find_newest_run: the newest run directory there is, whoever made it.
FindRun(p) ==
  /\ Up(p) /\ ses[p].step = "find"
  /\ Became(p, [ses[p] EXCEPT !.step = "list", !.last = Len(done)])
  /\ UNCHANGED <<file, saves, done, said, starts>>

\* _tool_run: a past run becomes the last one.
LoadRun(p) ==
  /\ Up(p) /\ ses[p].step = "act" /\ ses[p].tool = "run"
  /\ \E r \in DOMAIN done :
       Became(p, [ses[p] EXCEPT !.step = "list", !.last = r, !.made = r])
  /\ UNCHANGED <<file, saves, done, said, starts>>

\* session.runs.append; a run loaded again is not listed twice.
ListRun(p) ==
  LET s == ses[p]
  IN  /\ Up(p) /\ s.step = "list"
      /\ Became(p, [s EXCEPT !.step = "show",
                      !.runs = IF s.tool = "run" /\ s.last \in ToSet(@) THEN @
                               ELSE Append(@, s.last)])
      /\ UNCHANGED <<file, saves, done, said, starts>>

\* build_evidence puts the run's name over the diagnosis the tool returned.
ShowRun(p) ==
  /\ Up(p) /\ ses[p].step = "show"
  /\ Became(p, [ses[p] EXCEPT !.step = "decide", !.tool = "none", !.aim = NoTarget,
                  !.digest = [run |-> ses[p].last, diag |-> ses[p].made],
                  !.made = NoRun])
  /\ UNCHANGED <<file, saves, done, said, starts>>

\* _llm_supports_vision: asked once, remembered for the session.
Sights(s) == IF s.sight = "unknown" THEN {"yes", "no"} ELSE {s.sight}

\* _tool_docs and _queue_page_images.
LookUp(p) ==
  /\ Up(p) /\ ses[p].step = "act" /\ ses[p].tool = "docs"
  /\ \E v \in Sights(ses[p]), found \in BOOLEAN :
       Became(p, [ses[p] EXCEPT !.step = "decide", !.tool = "none",
                    !.aim = NoTarget, !.sight = v,
                    !.pages = IF v = "yes" /\ found THEN ses[p].msg ELSE @])
  /\ UNCHANGED <<file, saves, done, said, starts>>

Observed(p) ==
  /\ Became(p, [ses[p] EXCEPT !.step = "decide", !.tool = "none",
                  !.aim = NoTarget])
  /\ UNCHANGED <<file, saves, done, said, starts>>

\* _tool_verify against the last run; without one, an observation too.
Verify(p) == Up(p) /\ ses[p].step = "act" /\ ses[p].tool = "verify" /\ Observed(p)

\* _run_probes and _tool_file, and a diagnose or a run that cannot be done.
Observe(p) ==
  /\ Up(p) /\ ses[p].step = "act"
  /\ ses[p].tool \in {"probe", "file", "run", "diagnose"}
  /\ Observed(p)

\* _finish_task and the save after it.
Finish(p) ==
  LET s == ses[p]
      t == [s EXCEPT !.step = "idle", !.msg = 0, !.calls = 0]
  IN  /\ Polls(p) /\ s.step = "over"
      /\ Became(p, t)
      /\ Save(t)
      /\ UNCHANGED <<done, said, starts>>

-----------------------------------------------------------------------------
LoopStep(p) ==
  \/ Launch(p) \/ Quit(p) \/ Kill(p) \/ KillInSave(p)
  \/ Message(p) \/ Note(p) \/ Use(p) \/ SaveNow(p) \/ Finish(p)
  \/ SlashResume(p) \/ ResumeEvidence(p) \/ ResumeCheck(p)
  \/ ResumeRebuild(p) \/ ResumeTarget(p) \/ ResumeTorn(p)

AgentStep(p) ==
  \/ Decide(p) \/ Cancelled(p) \/ Diagnose(p) \/ FindRun(p)
  \/ LoadRun(p) \/ ListRun(p) \/ ShowRun(p)
  \/ LookUp(p) \/ Verify(p) \/ Observe(p)

Next == DiagnoseElsewhere \/ \E p \in Procs : LoopStep(p) \/ AgentStep(p)

Spec == Init /\ [][Next]_vars

-----------------------------------------------------------------------------
\* What a session knows.

\* A chat is never connected: whatever directory it continues or resumes, no
\* target becomes active in it and no tool that needs one is called.
ChatIsTargetless ==
  \A p \in Procs : Up(p) /\ ses[p].mode = "chat" =>
    ses[p].target = NoTarget /\ ses[p].aim = NoTarget
      /\ ses[p].tool \notin DebugOnly

\* The digest a session reasons from, live or saved, shows what the run
\* directory it names records: through diagnose, run loading, a save and a
\* /resume between any two of their statements, a save that is cut off and a
\* kill.  Of processes that diagnose under one --out-dir it may name the newer
\* run of another.
Recorded(g) ==
  g # NoDigest =>
    /\ {g.run, g.diag} \subseteq DOMAIN done
    /\ g.run # g.diag => g.run > g.diag /\ done[g.run] # done[g.diag]

DigestIsRecorded ==
  /\ \A p \in Procs : Up(p) => Recorded(ses[p].digest)
  /\ \A d \in Dirs : Readable(d) => Recorded(file[d].digest)

\* "/runs  run directories of this session" (repl.py:1469): between messages,
\* the run the digest names is on that list.  The code breaks this when a
\* /resume falls between the two statements that list a run and show it.
DigestIsListed ==
  \A p \in Procs :
    Polls(p) /\ ses[p].step = "idle" /\ ses[p].digest # NoDigest
      => ses[p].digest.run \in ToSet(ses[p].runs)

\* "One conversation, one session.json" (repl.py:1914): a file holds entries
\* of the conversation of its own directory only.  The code breaks this:
\* /resume leaves session_dir as it was.
OneConversationOneFile ==
  \A d \in Dirs : Readable(d) => \A e \in file[d].log : e.of = d

\* pending_images are "cleared every turn so nothing stale rides along"
\* (repl.py:111).  The code breaks this when /stop ends the turn first.
PagesOfThisMessage ==
  \A p \in Procs : Up(p) /\ ses[p].step = "decide" =>
    ses[p].pages \in {0, ses[p].msg}

=============================================================================
