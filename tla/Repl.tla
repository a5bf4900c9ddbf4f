-------------------------------- MODULE Repl --------------------------------
(***************************************************************************)
(* The interactive session of operator/repl.py: the main thread runs       *)
(* `_repl_loop' and at most one daemon thread at a time runs an agent turn *)
(* (`BackgroundTask').  They share, without a lock, the Session object:    *)
(* the event queue, the queued messages, and the two bridges on which the  *)
(* worker blocks (an answer to its question, a credential it lacks).       *)
(*                                                                         *)
(* One action is one step between two accesses to state that the other     *)
(* thread may change: the interpreter may switch threads between any two.  *)
(***************************************************************************)
EXTENDS Integers, FiniteSets

CONSTANTS
  MaxLines,      \* how many lines the operator types
  Kinds,         \* the kinds of line he types
  MaxTools,      \* the tool calls of one message (`_tool_budget')
  MaxQuestions,  \* the questions one turn asks the operator
  Paths,         \* the vault paths a tool may need
  NoPath         \* None, where a vault path is expected

LineKinds == {"msg", "context", "stop", "resume", "quit"}

ASSUME BoundsAssumption ==
  /\ MaxLines \in Nat
  /\ MaxTools \in Nat
  /\ MaxQuestions \in Nat
  /\ Kinds \subseteq LineKinds
  /\ NoPath \notin Paths

\* A message starts at most one turn, so a turn's number is bounded too.
Ids   == 1 .. MaxLines
Tasks == 1 .. MaxLines
NoTask == 0
NoLine == [kind |-> "none", id |-> 0]

VARIABLES
  mpc,          \* where the main thread is in `_repl_loop'
  line,         \* the line it is handling
  typed,        \* the lines typed so far
  drained,      \* the terminator `_drain_events' found
  task,         \* session.task
  quit,         \* session.quit
  prompting,    \* the path `_handle_credential' prompts for
  started,      \* the turns started so far
  wpc,          \* where the thread of each turn is
  tool,         \* the tool it runs
  calls,        \* its tool calls so far
  questions,    \* its questions so far
  argv,         \* the messages seeded into its diagnose run (--context)
  outcome,      \* how its fn ended
  events,       \* the kinds of event in its queue
  cancel,       \* its cancel Event
  pending,      \* session.pending
  awaiting, answered, answerReady, answerValue,  \* the answer bridge
  sent, used,   \* answers announced as sent; answers a question received
  credPending, credAnswer, credEvent,            \* the credential bridge
  request,      \* the path each worker asks the bridge for
  stored        \* path -> the path whose material the store holds there

mainVars   == <<mpc, line, typed, drained, task, quit, prompting>>
workerVars == <<started, wpc, tool, calls, questions, argv, outcome>>
queueVars  == <<events, cancel, pending>>
answerVars == <<awaiting, answered, answerReady, answerValue, sent, used>>
credVars   == <<credPending, credAnswer, credEvent, request, stored>>
vars == <<mainVars, workerVars, queueVars, answerVars, credVars>>

Tools       == {"none", "diagnose", "other"}
Terminators == {"quiet", "result", "error"}   \* "quiet": ("done", None)
MainPoints  == {"poll", "drain", "finish", "cred", "alive?", "handle",
                "prompt", "release", "reap", "line", "busy", "give",
                "deliver", "mark", "enqueue", "slash", "idle", "publish",
                "announce", "cleanup", "exited"}
\* Inside `BackgroundTask.fn', with the standard streams redirected.
InFn == {"agent", "decide", "seed", "unqueue", "tool", "ask", "unanswer",
         "clear", "wait", "check", "wake", "take", "credAsk", "credClear",
         "credWait", "credWake", "credTake", "over"}
WorkerPoints == InFn \cup {"unborn", "exiting", "dead"}

MainTypeOK ==
  /\ mpc \in MainPoints
  /\ line \in [kind : LineKinds \cup {"none"}, id : 0 .. MaxLines]
  /\ typed \in 0 .. MaxLines
  /\ drained \in {"nothing", "result", "error"}
  /\ task \in Tasks \cup {NoTask}
  /\ quit \in BOOLEAN
  /\ prompting \in Paths \cup {NoPath}

WorkerTypeOK ==
  /\ started \in 0 .. MaxLines
  /\ wpc \in [Tasks -> WorkerPoints]
  /\ tool \in [Tasks -> Tools]
  /\ calls \in [Tasks -> 0 .. MaxTools]
  /\ questions \in [Tasks -> 0 .. MaxQuestions]
  /\ argv \in [Tasks -> SUBSET Ids]
  /\ outcome \in [Tasks -> Terminators \cup {"none"}]

QueueTypeOK ==
  /\ events \in [Tasks -> SUBSET (Terminators \cup {"progress"})]
  /\ cancel \in [Tasks -> BOOLEAN]
  /\ pending \in SUBSET Ids

AnswerTypeOK ==
  /\ awaiting \in BOOLEAN
  /\ answered \in BOOLEAN
  /\ answerReady \in BOOLEAN
  /\ answerValue \in 0 .. MaxLines
  /\ sent \in SUBSET Ids
  /\ used \in SUBSET (0 .. MaxLines)

CredTypeOK ==
  /\ credPending \in Paths \cup {NoPath}
  /\ credAnswer \in Paths \cup {NoPath}
  /\ credEvent \in BOOLEAN
  /\ request \in [Tasks -> Paths \cup {NoPath}]
  /\ stored \in [Paths -> Paths \cup {NoPath}]

TypeOK == MainTypeOK /\ WorkerTypeOK /\ QueueTypeOK /\ AnswerTypeOK /\ CredTypeOK

Init ==
  /\ mpc = "poll" /\ line = NoLine /\ typed = 0 /\ drained = "nothing"
  /\ task = NoTask /\ quit = FALSE /\ prompting = NoPath
  /\ started = 0
  /\ wpc = [t \in Tasks |-> "unborn"]
  /\ tool = [t \in Tasks |-> "none"]
  /\ calls = [t \in Tasks |-> 0]
  /\ questions = [t \in Tasks |-> 0]
  /\ argv = [t \in Tasks |-> {}]
  /\ outcome = [t \in Tasks |-> "none"]
  /\ events = [t \in Tasks |-> {}]
  /\ cancel = [t \in Tasks |-> FALSE]
  /\ pending = {}
  /\ awaiting = FALSE /\ answered = FALSE /\ answerReady = FALSE
  /\ answerValue = 0 /\ sent = {} /\ used = {}
  /\ credPending = NoPath /\ credAnswer = NoPath /\ credEvent = FALSE
  /\ request = [t \in Tasks |-> NoPath]
  /\ stored = [p \in Paths |-> NoPath]

-----------------------------------------------------------------------------
\* The main thread.

\* BackgroundTask.alive
Alive(t) == t # NoTask /\ wpc[t] \notin {"unborn", "dead"}

Main(from, to) == mpc = from /\ mpc' = to

\* reader.poll: with a task it times out, without one it blocks for a line.
PollTimeout ==
  /\ Main("poll", "drain")
  /\ ~quit /\ task # NoTask
  /\ line' = NoLine
  /\ UNCHANGED <<typed, drained, task, quit, prompting>>
  /\ UNCHANGED <<workerVars, queueVars, answerVars, credVars>>

PollLine ==
  /\ Main("poll", "drain")
  /\ ~quit /\ typed < MaxLines
  /\ typed' = typed + 1
  /\ \E k \in Kinds : line' = [kind |-> k, id |-> typed + 1]
  /\ UNCHANGED <<drained, task, quit, prompting>>
  /\ UNCHANGED <<workerVars, queueVars, answerVars, credVars>>

\* session.quit ends the loop at its head; EOFError ends it from the poll.
QuitLoop ==
  /\ Main("poll", "cleanup")
  /\ quit
  /\ UNCHANGED <<line, typed, drained, task, quit, prompting>>
  /\ UNCHANGED <<workerVars, queueVars, answerVars, credVars>>

EndOfInput ==
  /\ Main("poll", "cleanup")
  /\ ~quit
  /\ UNCHANGED <<line, typed, drained, task, quit, prompting>>
  /\ UNCHANGED <<workerVars, queueVars, answerVars, credVars>>

\* KeyboardInterrupt (ctrl-c in the raw reader) also cancels a live task.
Interrupt ==
  /\ Main("poll", "cleanup")
  /\ ~quit /\ Alive(task)
  /\ cancel' = [cancel EXCEPT ![task] = TRUE]
  /\ UNCHANGED <<line, typed, drained, task, quit, prompting>>
  /\ UNCHANGED <<events, pending>>
  /\ UNCHANGED <<workerVars, answerVars, credVars>>

\* A ("done", None) terminator is indistinguishable from none at all.
Drain ==
  /\ mpc = "drain"
  /\ drained' = IF task = NoTask THEN "nothing"
                ELSE IF "error" \in events[task] THEN "error"
                ELSE IF "result" \in events[task] THEN "result"
                ELSE "nothing"
  /\ events' = [t \in Tasks |-> IF t = task THEN {} ELSE events[t]]
  /\ mpc' = IF drained' = "nothing" THEN "cred" ELSE "finish"
  /\ UNCHANGED <<line, typed, task, quit, prompting>>
  /\ UNCHANGED <<cancel, pending>>
  /\ UNCHANGED <<workerVars, answerVars, credVars>>

\* _finish_task, then _save_session.
FinishTask ==
  /\ Main("finish", "cred")
  /\ task' = NoTask
  /\ UNCHANGED <<line, typed, drained, quit, prompting>>
  /\ UNCHANGED <<workerVars, queueVars, answerVars, credVars>>

SeeCredential ==
  /\ mpc = "cred"
  /\ mpc' = IF credPending = NoPath THEN "reap" ELSE "alive?"
  /\ UNCHANGED <<line, typed, drained, task, quit, prompting>>
  /\ UNCHANGED <<workerVars, queueVars, answerVars, credVars>>

CredentialOwnerAlive ==
  /\ Main("alive?", "handle")
  /\ Alive(task)
  /\ UNCHANGED <<line, typed, drained, task, quit, prompting>>
  /\ UNCHANGED <<workerVars, queueVars, answerVars, credVars>>

CredentialOwnerDead ==
  /\ Main("alive?", "reap")
  /\ ~Alive(task)
  /\ credPending' = NoPath
  /\ credEvent' = TRUE
  /\ UNCHANGED <<line, typed, drained, task, quit, prompting>>
  /\ UNCHANGED <<credAnswer, request, stored>>
  /\ UNCHANGED <<workerVars, queueVars, answerVars>>

\* _handle_credential re-reads cred_pending before it prompts.
HandleCredential ==
  /\ mpc = "handle"
  /\ prompting' = credPending
  /\ mpc' = IF credPending = NoPath THEN "reap" ELSE "prompt"
  /\ UNCHANGED <<line, typed, drained, task, quit>>
  /\ UNCHANGED <<workerVars, queueVars, answerVars, credVars>>

\* prompt_now: the operator enters the material for the path or declines.
PromptOperator ==
  /\ Main("prompt", "release")
  /\ credAnswer' \in {prompting, NoPath}
  /\ UNCHANGED <<line, typed, drained, task, quit, prompting>>
  /\ UNCHANGED <<credPending, credEvent, request, stored>>
  /\ UNCHANGED <<workerVars, queueVars, answerVars>>

\* Fault: set() after the prompt instead of in its finally clause.
ReleaseWorkerUnlessDeclined ==
  /\ Main("release", "reap")
  /\ credEvent' = (credEvent \/ credAnswer # NoPath)
  /\ prompting' = NoPath
  /\ UNCHANGED <<line, typed, drained, task, quit>>
  /\ UNCHANGED <<credPending, credAnswer, request, stored>>
  /\ UNCHANGED <<workerVars, queueVars, answerVars>>

ReleaseWorker ==
  /\ Main("release", "reap")
  /\ credEvent' = TRUE
  /\ prompting' = NoPath
  /\ UNCHANGED <<line, typed, drained, task, quit>>
  /\ UNCHANGED <<credPending, credAnswer, request, stored>>
  /\ UNCHANGED <<workerVars, queueVars, answerVars>>

\* Faults: a reaper that does not ask whether the thread lives, one that does
\* not look at the queue again, and a loop without a reaper.
ReapableWhileRunning ==
  task # NoTask /\ events[task] = {} /\ drained = "nothing"

ReapableWithEvents ==
  task # NoTask /\ ~Alive(task) /\ drained = "nothing"

ReapableNever == FALSE

\* The turn is over, its queue is drained and it had nothing to report.
Reapable ==
  task # NoTask /\ ~Alive(task) /\ events[task] = {} /\ drained = "nothing"

Reap ==
  /\ Main("reap", "line")
  /\ task' = IF Reapable THEN NoTask ELSE task
  /\ drained' = "nothing"
  /\ UNCHANGED <<line, typed, quit, prompting>>
  /\ UNCHANGED <<workerVars, queueVars, answerVars, credVars>>

\* A line goes to the running turn when there is one, else to a new one.
Route ==
  /\ mpc = "line"
  /\ mpc' = IF line = NoLine THEN "poll"
            ELSE IF line.kind # "msg" THEN "slash"
            ELSE IF Alive(task) THEN "busy"
            ELSE "idle"
  /\ UNCHANGED <<line, typed, drained, task, quit, prompting>>
  /\ UNCHANGED <<workerVars, queueVars, answerVars, credVars>>

\* _handle_busy_line: the line answers the question that waits for one, else
\* it is queued.  The question may be gone, or asked, once that is decided.
BusyLine ==
  /\ mpc = "busy"
  /\ mpc' = IF awaiting /\ ~answered THEN "give" ELSE "enqueue"
  /\ UNCHANGED <<line, typed, drained, task, quit, prompting>>
  /\ UNCHANGED <<workerVars, queueVars, answerVars, credVars>>

Deliver ==
  /\ Main("give", "deliver")
  /\ answerValue' = line.id
  /\ UNCHANGED <<line, typed, drained, task, quit, prompting>>
  /\ UNCHANGED <<awaiting, answered, answerReady, sent, used>>
  /\ UNCHANGED <<workerVars, queueVars, credVars>>

SignalAnswer ==
  /\ Main("deliver", "mark")
  /\ answerReady' = TRUE
  /\ UNCHANGED <<line, typed, drained, task, quit, prompting>>
  /\ UNCHANGED <<awaiting, answered, answerValue, sent, used>>
  /\ UNCHANGED <<workerVars, queueVars, credVars>>

MarkAnswered ==
  /\ Main("mark", "poll")
  /\ answered' = TRUE
  /\ sent' = sent \cup {line.id}
  /\ line' = NoLine
  /\ UNCHANGED <<typed, drained, task, quit, prompting>>
  /\ UNCHANGED <<awaiting, answerReady, answerValue, used>>
  /\ UNCHANGED <<workerVars, queueVars, credVars>>

Queue ==
  /\ Main("enqueue", "poll")
  /\ pending' = pending \cup {line.id}
  /\ line' = NoLine
  /\ UNCHANGED <<typed, drained, task, quit, prompting>>
  /\ UNCHANGED <<events, cancel>>
  /\ UNCHANGED <<workerVars, answerVars, credVars>>

\* _handle_slash.  /context queues a note, /stop cancels a live task, /quit
\* cancels any task, /resume replaces the transcript and empties the queue.
Slash ==
  /\ Main("slash", "poll")
  /\ pending' = CASE line.kind = "context" -> pending \cup {line.id}
                  [] line.kind = "resume"  -> {}
                  [] OTHER                 -> pending
  /\ cancel' = [t \in Tasks |->
                  \/ cancel[t]
                  \/ /\ t = task
                     /\ \/ line.kind = "quit"
                        \/ line.kind = "stop" /\ Alive(task)]
  /\ quit' = (quit \/ line.kind = "quit")
  /\ line' = NoLine
  /\ UNCHANGED <<typed, drained, task, prompting, events>>
  /\ UNCHANGED <<workerVars, answerVars, credVars>>

\* _handle_idle_line: record and save the message, start a thread for it,
\* and only then publish the task.
StartTask ==
  /\ Main("idle", "publish")
  /\ started' = started + 1
  /\ wpc' = [wpc EXCEPT ![started + 1] = "agent"]
  /\ UNCHANGED <<line, typed, drained, task, quit, prompting>>
  /\ UNCHANGED <<tool, calls, questions, argv, outcome>>
  /\ UNCHANGED <<queueVars, answerVars, credVars>>

PublishTask ==
  /\ Main("publish", "announce")
  /\ task' = started
  /\ UNCHANGED <<line, typed, drained, quit, prompting>>
  /\ UNCHANGED <<workerVars, queueVars, answerVars, credVars>>

AnnounceTask ==
  /\ Main("announce", "poll")
  /\ events' = [events EXCEPT ![started] = @ \cup {"progress"}]
  /\ line' = NoLine
  /\ UNCHANGED <<typed, drained, task, quit, prompting>>
  /\ UNCHANGED <<cancel, pending>>
  /\ UNCHANGED <<workerVars, answerVars, credVars>>

\* The finally clause.  The daemon thread dies with the process.
Cleanup ==
  /\ Main("cleanup", "exited")
  /\ UNCHANGED <<line, typed, drained, task, quit, prompting>>
  /\ UNCHANGED <<workerVars, queueVars, answerVars, credVars>>

-----------------------------------------------------------------------------
\* The worker thread of turn t.

Worker(t, from, to) ==
  /\ mpc # "exited"
  /\ wpc[t] = from
  /\ wpc' = [wpc EXCEPT ![t] = to]

\* fn is left with outcome o, which `_run' puts in the queue.
Leaves(t, o) ==
  /\ outcome' = [outcome EXCEPT ![t] = o]
  /\ UNCHANGED <<started, tool, calls, questions, argv>>

\* The head of `_run_agent''s loop.
AgentCancelled(t) ==
  /\ Worker(t, "agent", "over")
  /\ cancel[t]
  /\ Leaves(t, "error")
  /\ UNCHANGED <<mainVars, queueVars, answerVars, credVars>>

AgentDecides(t) ==
  /\ Worker(t, "agent", "decide")
  /\ ~cancel[t]
  /\ UNCHANGED <<started, tool, calls, questions, argv, outcome>>
  /\ UNCHANGED <<mainVars, queueVars, answerVars, credVars>>

\* A statement only, a final result, or the chain stopped early.
AgentStops(t) ==
  /\ Worker(t, "decide", "over")
  /\ \E o \in {"quiet", "result"} : Leaves(t, o)
  /\ UNCHANGED <<mainVars, queueVars, answerVars, credVars>>

AgentCallsTool(t) ==
  /\ \/ /\ Worker(t, "decide", "seed")
        /\ tool' = [tool EXCEPT ![t] = "diagnose"]
     \/ /\ Worker(t, "decide", "tool")
        /\ tool' = [tool EXCEPT ![t] = "other"]
  /\ calls[t] < MaxTools
  /\ calls' = [calls EXCEPT ![t] = @ + 1]
  /\ events' = [events EXCEPT ![t] = @ \cup {"progress"}]
  /\ UNCHANGED <<started, questions, argv, outcome, cancel, pending>>
  /\ UNCHANGED <<mainVars, answerVars, credVars>>

\* _diagnose_argv copies the queue into the run's arguments, then empties it.
SeedContext(t) ==
  /\ Worker(t, "seed", "unqueue")
  /\ argv' = [argv EXCEPT ![t] = pending]
  /\ UNCHANGED <<started, tool, calls, questions, outcome>>
  /\ UNCHANGED <<mainVars, queueVars, answerVars, credVars>>

\* Fault: the queue is copied and never reset.
EmptyQueueForgets(t) ==
  /\ \E to \in {"tool", "exiting"} : Worker(t, "unqueue", to)
  /\ UNCHANGED <<started, tool, calls, questions, argv, outcome, queueVars>>
  /\ UNCHANGED <<mainVars, answerVars, credVars>>

\* argparse leaves with SystemExit on an argument it takes for an option,
\* which `_run' does not catch: the thread ends without a terminator.
EmptyQueue(t) ==
  /\ \E to \in {"tool", "exiting"} : Worker(t, "unqueue", to)
  /\ pending' = {}
  /\ UNCHANGED <<started, tool, calls, questions, argv, outcome>>
  /\ UNCHANGED <<events, cancel>>
  /\ UNCHANGED <<mainVars, answerVars, credVars>>

\* The tool returns, or fails with an exception the agent sees as a result.
ToolEnds(t) ==
  /\ Worker(t, "tool", "agent")
  /\ UNCHANGED <<started, tool, calls, questions, argv, outcome>>
  /\ UNCHANGED <<mainVars, queueVars, answerVars, credVars>>

\* A checkpoint of the pipeline: /stop, or the supervisor's budget is spent.
ToolEscalates(t) ==
  /\ Worker(t, "tool", "over")
  /\ tool[t] = "diagnose"
  /\ Leaves(t, "error")
  /\ UNCHANGED <<mainVars, queueVars, answerVars, credVars>>

\* The pipeline's parts question, put on the screen as a progress event.
Ask(t) ==
  /\ Worker(t, "tool", "ask")
  /\ tool[t] = "diagnose" /\ questions[t] < MaxQuestions
  /\ questions' = [questions EXCEPT ![t] = @ + 1]
  /\ events' = [events EXCEPT ![t] = @ \cup {"progress"}]
  /\ UNCHANGED <<started, tool, calls, argv, outcome>>
  /\ UNCHANGED <<cancel, pending>>
  /\ UNCHANGED <<mainVars, answerVars, credVars>>

\* _make_answer_fn, one assignment at a time.
Await(t) ==
  /\ Worker(t, "ask", "unanswer")
  /\ awaiting' = TRUE
  /\ UNCHANGED <<answered, answerReady, answerValue, sent, used>>
  /\ UNCHANGED <<started, tool, calls, questions, argv, outcome>>
  /\ UNCHANGED <<mainVars, queueVars, credVars>>

Unanswer(t) ==
  /\ Worker(t, "unanswer", "clear")
  /\ answered' = FALSE
  /\ UNCHANGED <<awaiting, answerReady, answerValue, sent, used>>
  /\ UNCHANGED <<started, tool, calls, questions, argv, outcome>>
  /\ UNCHANGED <<mainVars, queueVars, credVars>>

\* Fault: the event of the last answer is not cleared.
ClearReadyForgotten(t) ==
  /\ Worker(t, "clear", "wait")
  /\ UNCHANGED <<started, tool, calls, questions, argv, outcome>>
  /\ UNCHANGED <<mainVars, queueVars, answerVars, credVars>>

ClearReady(t) ==
  /\ Worker(t, "clear", "wait")
  /\ answerReady' = FALSE
  /\ UNCHANGED <<awaiting, answered, answerValue, sent, used>>
  /\ UNCHANGED <<started, tool, calls, questions, argv, outcome>>
  /\ UNCHANGED <<mainVars, queueVars, credVars>>

\* answer_ready.wait(0.1)
WaitAnswer(t) ==
  /\ IF answerReady THEN Worker(t, "wait", "wake") ELSE Worker(t, "wait", "check")
  /\ UNCHANGED <<started, tool, calls, questions, argv, outcome>>
  /\ UNCHANGED <<mainVars, queueVars, answerVars, credVars>>

\* Fault: the wait does not look at the cancel event.
CheckCancelNever(t) ==
  /\ Worker(t, "check", "wait")
  /\ UNCHANGED <<started, tool, calls, questions, argv, outcome>>
  /\ UNCHANGED <<mainVars, queueVars, answerVars, credVars>>

\* The waiting worker looks at session.task, which may not be its own yet.
CheckCancel(t) ==
  /\ IF task # NoTask /\ cancel[task]
     THEN /\ Worker(t, "check", "over")
          /\ Leaves(t, "error")
          /\ awaiting' = FALSE
     ELSE /\ Worker(t, "check", "wait")
          /\ UNCHANGED <<started, tool, calls, questions, argv, outcome>>
          /\ UNCHANGED awaiting
  /\ UNCHANGED <<answered, answerReady, answerValue, sent, used>>
  /\ UNCHANGED <<mainVars, queueVars, credVars>>

StopAwaiting(t) ==
  /\ Worker(t, "wake", "take")
  /\ awaiting' = FALSE
  /\ UNCHANGED <<answered, answerReady, answerValue, sent, used>>
  /\ UNCHANGED <<started, tool, calls, questions, argv, outcome>>
  /\ UNCHANGED <<mainVars, queueVars, credVars>>

TakeAnswer(t) ==
  /\ Worker(t, "take", "tool")
  /\ used' = used \cup {answerValue}
  /\ UNCHANGED <<awaiting, answered, answerReady, answerValue, sent>>
  /\ UNCHANGED <<started, tool, calls, questions, argv, outcome>>
  /\ UNCHANGED <<mainVars, queueVars, credVars>>

\* OnDemandSecretStore.get of a path the store lacks, through the bridge.
NeedSecret(t) ==
  /\ Worker(t, "tool", "credAsk")
  /\ \E p \in Paths : /\ stored[p] = NoPath
                      /\ request' = [request EXCEPT ![t] = p]
  /\ UNCHANGED <<credPending, credAnswer, credEvent, stored>>
  /\ UNCHANGED <<started, tool, calls, questions, argv, outcome>>
  /\ UNCHANGED <<mainVars, queueVars, answerVars>>

RequestCredential(t) ==
  /\ Worker(t, "credAsk", "credClear")
  /\ credPending' = request[t]
  /\ UNCHANGED <<credAnswer, credEvent, request, stored>>
  /\ UNCHANGED <<started, tool, calls, questions, argv, outcome>>
  /\ UNCHANGED <<mainVars, queueVars, answerVars>>

ClearCredEvent(t) ==
  /\ Worker(t, "credClear", "credWait")
  /\ credEvent' = FALSE
  /\ UNCHANGED <<credPending, credAnswer, request, stored>>
  /\ UNCHANGED <<started, tool, calls, questions, argv, outcome>>
  /\ UNCHANGED <<mainVars, queueVars, answerVars>>

WaitCredential(t) ==
  /\ Worker(t, "credWait", "credWake")
  /\ credEvent
  /\ UNCHANGED <<started, tool, calls, questions, argv, outcome>>
  /\ UNCHANGED <<mainVars, queueVars, answerVars, credVars>>

WithdrawRequest(t) ==
  /\ Worker(t, "credWake", "credTake")
  /\ credPending' = NoPath
  /\ UNCHANGED <<credAnswer, credEvent, request, stored>>
  /\ UNCHANGED <<started, tool, calls, questions, argv, outcome>>
  /\ UNCHANGED <<mainVars, queueVars, answerVars>>

\* A refusal is a KeyError, which ends the tool; material goes to the store.
TakeCredential(t) ==
  /\ IF credAnswer = NoPath
     THEN Worker(t, "credTake", "agent") /\ UNCHANGED stored
     ELSE /\ Worker(t, "credTake", "tool")
          /\ stored' = [stored EXCEPT ![request[t]] = credAnswer]
  /\ request' = [request EXCEPT ![t] = NoPath]
  /\ UNCHANGED <<credPending, credAnswer, credEvent>>
  /\ UNCHANGED <<started, tool, calls, questions, argv, outcome>>
  /\ UNCHANGED <<mainVars, queueVars, answerVars>>

\* `_run', once fn's redirections are undone: the terminator, then the end.
PutTerminator(t) ==
  /\ Worker(t, "over", "exiting")
  /\ events' = [events EXCEPT ![t] = @ \cup {outcome[t]}]
  /\ UNCHANGED <<started, tool, calls, questions, argv, outcome>>
  /\ UNCHANGED <<cancel, pending>>
  /\ UNCHANGED <<mainVars, answerVars, credVars>>

ThreadExits(t) ==
  /\ Worker(t, "exiting", "dead")
  /\ UNCHANGED <<started, tool, calls, questions, argv, outcome>>
  /\ UNCHANGED <<mainVars, queueVars, answerVars, credVars>>

-----------------------------------------------------------------------------
\* What the operator does on his own accord, and what must go on without him.
OperatorStep == PollLine \/ EndOfInput \/ Interrupt

MainStep ==
  \/ PollTimeout \/ QuitLoop \/ Drain \/ FinishTask \/ SeeCredential
  \/ CredentialOwnerAlive \/ CredentialOwnerDead \/ HandleCredential
  \/ PromptOperator \/ ReleaseWorker \/ Reap \/ Route
  \/ BusyLine \/ Deliver \/ SignalAnswer \/ MarkAnswered \/ Queue \/ Slash
  \/ StartTask \/ PublishTask \/ AnnounceTask \/ Cleanup

AgentStep(t) ==
  \/ AgentCancelled(t) \/ AgentDecides(t) \/ AgentStops(t)
  \/ AgentCallsTool(t) \/ SeedContext(t) \/ EmptyQueue(t)
  \/ ToolEnds(t) \/ ToolEscalates(t) \/ PutTerminator(t) \/ ThreadExits(t)

AnswerStep(t) ==
  \/ Ask(t) \/ Await(t) \/ Unanswer(t) \/ ClearReady(t) \/ WaitAnswer(t)
  \/ CheckCancel(t) \/ StopAwaiting(t) \/ TakeAnswer(t)

CredentialStep(t) ==
  \/ NeedSecret(t) \/ RequestCredential(t) \/ ClearCredEvent(t)
  \/ WaitCredential(t) \/ WithdrawRequest(t) \/ TakeCredential(t)

WorkerStep(t) == AgentStep(t) \/ AnswerStep(t) \/ CredentialStep(t)

Exited == mpc = "exited" /\ UNCHANGED vars

Next == OperatorStep \/ MainStep \/ (\E t \in Tasks : WorkerStep(t)) \/ Exited

Spec == Init /\ [][Next]_vars

\* The main loop polls with a time-out, every prompt is answered or declined,
\* and LLM and tool calls return (they have time-outs): the operator owes the
\* session nothing but the answer to a prompt.
Fairness == WF_vars(MainStep) /\ \A t \in Tasks : WF_vars(WorkerStep(t))
FairSpec == Spec /\ Fairness

-----------------------------------------------------------------------------
(* Properties.  *)

\* At most one thread is inside a turn's fn: the process-wide stdout capture,
\* the two bridges and the message queue have a single worker to serve.
OneWorker ==
  \A s, t \in Tasks : wpc[s] \in InFn /\ wpc[t] \in InFn => s = t

\* A question is open only while its asker is in `answer': once a turn is over
\* the next typed line cannot be swallowed as the answer to a dead question.
AwaitingHasAsker ==
  awaiting => \E t \in Tasks :
    wpc[t] \in {"unanswer", "clear", "wait", "check", "wake"}

\* No typed line answers two questions: the value a question returns was not
\* taken by an earlier one, although both share answer_value and answer_ready.
AnswerTakenOnce ==
  [][\A t \in Tasks : wpc[t] = "take" /\ wpc'[t] = "tool"
                        => answerValue \notin used]_vars

\* A line queued for the agent is --context of the diagnose runs of one turn
\* only, however the loop's appends meet the worker's copy and reset.
SeededOnce == \A t, u \in Tasks : t # u => argv[t] \cap argv[u] = {}

\* A turn the loop drops without a report (the reaper of printed-only turns)
\* really had nothing to report: no result or error is dropped with it,
\* however its last steps interleave with the drain and the liveness test.
ReapedTurnHadNoReport ==
  [][task # NoTask /\ task' = NoTask /\ drained = "nothing"
       => outcome[task] \in {"none", "quiet"}]_vars

\* A worker blocked on a credential is released, although the loop may fire
\* cred_event before the worker clears it.
CredentialServed ==
  \A t \in Tasks : wpc[t] = "credWait" ~> (wpc[t] # "credWait" \/ mpc = "exited")

\* /stop (and /quit, and ctrl-c) ends the turn, wherever it waits.
StopEndsTurn ==
  \A t \in Tasks : cancel[t] ~> (wpc[t] = "dead" \/ mpc = "exited")

\* The loop lets go of every turn that is over, so it returns to the blocking
\* poll instead of treating later lines as typed during a run.
TurnReleased ==
  \A t \in Tasks : (wpc[t] = "dead" /\ task = t) ~> (task # t \/ mpc = "exited")

-----------------------------------------------------------------------------
(* Inductive strengthenings, proved in ReplProofs.  *)

Over == {"exiting", "dead"}

\* The turn the main thread is responsible for: published, or about to be.
Owner == IF mpc = "publish" THEN started ELSE task

LineInv ==
  /\ \/ line = NoLine
     \/ line.id = typed /\ typed > 0 /\ line.kind # "none"
  /\ mpc \in {"busy", "give", "deliver", "mark", "enqueue", "slash", "idle"}
       => line # NoLine
  /\ started <= typed
  /\ line # NoLine /\ mpc \notin {"publish", "announce"} => started < typed

\* Turns are numbered as they start, and the loop holds one that has.
StartedInv ==
  /\ task <= started
  /\ mpc \in {"publish", "announce"} => started > 0
  /\ \A t \in Tasks : (wpc[t] = "unborn") <=> (t > started)

\* Strengthens OneWorker: the one worker belongs to the turn the loop holds.
OwnerInv ==
  /\ \A t \in Tasks : wpc[t] \in InFn => t = Owner
  /\ mpc = "idle" => ~Alive(task)

\* Strengthens ReapedTurnHadNoReport: a terminator is in the queue only of a
\* turn whose fn is over, and the report of the turn the loop holds stays in
\* its queue until `_finish_task' is about to print it.
ReportInv ==
  /\ \A t \in Tasks :
       wpc[t] \notin Over => ((outcome[t] = "none") <=> (wpc[t] # "over"))
  /\ \A t \in Tasks : events[t] \cap Terminators # {} => wpc[t] \in Over
  /\ mpc = "finish" => task # NoTask /\ wpc[task] \in Over
                        /\ drained # "nothing"
  /\ \A t \in Tasks :
       t = Owner /\ wpc[t] \in Over /\ outcome[t] \in {"result", "error"}
         => outcome[t] \in events[t] \/ mpc = "finish"

TurnInv == LineInv /\ StartedInv /\ OwnerInv /\ ReportInv

\* Strengthens AwaitingHasAsker and AnswerTakenOnce: when the worker finds
\* answer_ready set after its own clear(), the value there is a line that no
\* question took, and the loop cannot overwrite it before it is taken.
AnswerInv ==
  /\ AwaitingHasAsker
  /\ \A t \in Tasks : wpc[t] \in {"wait", "check"} =>
       /\ answerReady => answerValue \notin used /\ (answered \/ mpc = "mark")
       /\ mpc \in {"give", "deliver"} => ~answerReady
  /\ \A t \in Tasks : wpc[t] \in {"wake", "take"} =>
       answerValue \notin used /\ mpc \notin {"give", "deliver"}
  /\ \A t \in Tasks : wpc[t] = "wake" => answered \/ mpc = "mark"
  /\ mpc = "deliver" => answerValue \notin used
  /\ answerValue <= typed
  /\ \A i \in used : i <= typed
  /\ line # NoLine /\ mpc \notin {"deliver", "mark"}
       => answerValue < typed /\ \A i \in used : i < typed

-----------------------------------------------------------------------------
(* Promises of the documentation that the code breaks (see the findings).  *)

\* "Operator answers ... the REPL delivers the next typed line to the agent":
\* an answer announced as sent reaches a question unless the turn is cancelled.
AnswerDelivered ==
  \A i \in Ids : i \in sent ~> (i \in used \/ mpc = "exited"
                                  \/ \E t \in Tasks : cancel[t])

\* "writes the answer into the wrapped store": the material the store holds
\* for a path is what the operator entered for that path.
SecretMatchesPath == \A p \in Paths : stored[p] \in {p, NoPath}

\* "Every worker print is captured and streamed back through an event queue":
\* the loop lets go of a turn only when all it put there is on the screen.
EventsShown == [][task # NoTask /\ task' # task => events[task] = {}]_vars

=============================================================================
