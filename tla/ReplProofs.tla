----------------------------- MODULE ReplProofs -----------------------------
(***************************************************************************)
(* Proofs about Repl, for any number of lines, tools, questions and paths.  *)
(*                                                                         *)
(* TypeOK and TurnInv are inductive together: the worker inside fn belongs  *)
(* to the turn the loop holds (OwnerInv), so StartTask, which runs only      *)
(* when that turn is not alive, leaves a single worker; and the queue of the *)
(* turn the loop holds keeps its report until it is printed (ReportInv), so  *)
(* the reaper, which wants an empty queue, drops none.  AnswerInv builds on  *)
(* the single worker to follow one answer through the bridge.                *)
(***************************************************************************)
EXTENDS Repl, TLAPS

\* A line the main thread handles is the last one typed.
LEMMA LineHandled ==
  ASSUME TypeOK, TurnInv,
         mpc \in {"busy", "give", "deliver", "mark", "enqueue", "slash", "idle"}
  PROVE  line.id = typed /\ line.id \in Ids /\ started < typed
BY BoundsAssumption DEF TypeOK, MainTypeOK, WorkerTypeOK, TurnInv, LineInv,
   Ids

\* Each group of variables keeps its type.
LEMMA MainTypeStep == TypeOK /\ TurnInv /\ [Next]_vars => MainTypeOK'
<1> SUFFICES ASSUME TypeOK, TurnInv, [Next]_vars PROVE MainTypeOK'
  OBVIOUS
<1> USE BoundsAssumption DEF TypeOK, Tasks, Ids, NoTask
<1>1. CASE PollTimeout
  BY <1>1 DEF PollTimeout, Main, MainTypeOK, MainPoints, LineKinds, TurnInv,
     LineInv, NoLine
<1>2. CASE QuitLoop
  BY <1>2 DEF QuitLoop, Main, MainTypeOK, MainPoints, LineKinds, TurnInv,
     LineInv
<1>3. CASE Drain
  BY <1>3 DEF Drain, Main, MainTypeOK, MainPoints, LineKinds, TurnInv, LineInv
<1>4. CASE FinishTask
  BY <1>4 DEF FinishTask, Main, MainTypeOK, MainPoints, LineKinds, TurnInv,
     LineInv
<1>5. CASE SeeCredential
  BY <1>5 DEF SeeCredential, Main, MainTypeOK, MainPoints, LineKinds, TurnInv,
     LineInv
<1>6. CASE CredentialOwnerAlive
  BY <1>6 DEF CredentialOwnerAlive, Main, MainTypeOK, MainPoints, LineKinds,
     TurnInv, LineInv
<1>7. CASE CredentialOwnerDead
  BY <1>7 DEF CredentialOwnerDead, Main, MainTypeOK, MainPoints, LineKinds,
     TurnInv, LineInv
<1>8. CASE HandleCredential
  BY <1>8 DEF HandleCredential, Main, MainTypeOK, MainPoints, LineKinds,
     TurnInv, LineInv, CredTypeOK
<1>9. CASE PromptOperator
  BY <1>9 DEF PromptOperator, Main, MainTypeOK, MainPoints, LineKinds,
     TurnInv, LineInv
<1>10. CASE ReleaseWorker
  BY <1>10 DEF ReleaseWorker, Main, MainTypeOK, MainPoints, LineKinds,
     TurnInv, LineInv
<1>11. CASE Reap
  BY <1>11 DEF Reap, Main, MainTypeOK, MainPoints, LineKinds, TurnInv, LineInv
<1>12. CASE Route
  BY <1>12 DEF Route, Main, MainTypeOK, MainPoints, LineKinds, TurnInv,
     LineInv
<1>13. CASE Deliver
  BY <1>13 DEF Deliver, Main, MainTypeOK, MainPoints, LineKinds, TurnInv,
     LineInv
<1>14. CASE SignalAnswer
  BY <1>14 DEF SignalAnswer, Main, MainTypeOK, MainPoints, LineKinds, TurnInv,
     LineInv
<1>15. CASE MarkAnswered
  BY <1>15 DEF MarkAnswered, Main, MainTypeOK, MainPoints, LineKinds, TurnInv,
     LineInv, NoLine
<1>16. CASE Queue
  BY <1>16 DEF Queue, Main, MainTypeOK, MainPoints, LineKinds, TurnInv,
     LineInv, NoLine
<1>17. CASE Slash
  BY <1>17 DEF Slash, Main, MainTypeOK, MainPoints, LineKinds, TurnInv,
     LineInv, NoLine
<1>18. CASE StartTask
  BY <1>18 DEF StartTask, Main, MainTypeOK, MainPoints, LineKinds, TurnInv,
     LineInv
<1>19. CASE PublishTask
  BY <1>19 DEF PublishTask, Main, MainTypeOK, MainPoints, LineKinds, TurnInv,
     LineInv, NoLine, WorkerTypeOK
<1>20. CASE AnnounceTask
  BY <1>20 DEF AnnounceTask, Main, MainTypeOK, MainPoints, LineKinds, TurnInv,
     LineInv, NoLine
<1>21. CASE Cleanup
  BY <1>21 DEF Cleanup, Main, MainTypeOK, MainPoints, LineKinds, TurnInv,
     LineInv
<1>22. CASE PollLine
  BY <1>22 DEF PollLine, Main, MainTypeOK, MainPoints, LineKinds, TurnInv,
     LineInv
<1>23. CASE EndOfInput
  BY <1>23 DEF EndOfInput, Main, MainTypeOK, MainPoints, LineKinds, TurnInv,
     LineInv
<1>24. CASE Interrupt
  BY <1>24 DEF Interrupt, Main, MainTypeOK, MainPoints, LineKinds, TurnInv,
     LineInv
<1>25. CASE UNCHANGED mainVars
  BY <1>25 DEF MainTypeOK, MainPoints, LineKinds, mainVars
<1>26. CASE BusyLine
  BY <1>26 DEF BusyLine, Main, MainTypeOK, MainPoints, LineKinds, TurnInv,
     LineInv
<1> QED
  BY <1>1, <1>2, <1>3, <1>4, <1>5, <1>6, <1>7, <1>8, <1>9, <1>10, <1>11,
     <1>12, <1>13, <1>14, <1>15, <1>16, <1>17, <1>18, <1>19, <1>20, <1>21,
     <1>22, <1>23, <1>24, <1>25, <1>26
  DEF Next, OperatorStep, MainStep, WorkerStep, AgentStep, AnswerStep,
      CredentialStep, Exited, vars,
      AgentCancelled, AgentDecides, AgentStops, AgentCallsTool, SeedContext, EmptyQueue, ToolEnds, ToolEscalates, PutTerminator, ThreadExits, Ask, Await, Unanswer, ClearReady, WaitAnswer, CheckCancel, StopAwaiting, TakeAnswer, NeedSecret, RequestCredential, ClearCredEvent, WaitCredential, WithdrawRequest, TakeCredential

\* The same of the workers' variables.
LEMMA WorkerTypeStep == TypeOK /\ TurnInv /\ [Next]_vars => WorkerTypeOK'
<1> SUFFICES ASSUME TypeOK, TurnInv, [Next]_vars PROVE WorkerTypeOK'
  OBVIOUS
<1> USE BoundsAssumption DEF TypeOK, Tasks, Ids, NoTask
<1>1. CASE StartTask
  <2>1. started < typed /\ typed \in 0 .. MaxLines
    BY <1>1, LineHandled DEF StartTask, Main, MainTypeOK
  <2>2. started + 1 \in 0 .. MaxLines
    BY <2>1 DEF WorkerTypeOK
  <2>3. wpc' \in [Tasks -> WorkerPoints]
    BY <1>1 DEF StartTask, WorkerTypeOK, WorkerPoints, InFn
  <2> QED
    BY <1>1, <2>2, <2>3 DEF StartTask, WorkerTypeOK
<1>2. ASSUME NEW t \in Tasks, AgentCancelled(t) PROVE WorkerTypeOK'
  BY <1>2 DEF AgentCancelled, Worker, Leaves, WorkerTypeOK, WorkerPoints,
     InFn, Tools, Terminators, TurnInv, LineInv
<1>3. ASSUME NEW t \in Tasks, AgentDecides(t) PROVE WorkerTypeOK'
  BY <1>3 DEF AgentDecides, Worker, Leaves, WorkerTypeOK, WorkerPoints, InFn,
     Tools, Terminators, TurnInv, LineInv
<1>4. ASSUME NEW t \in Tasks, AgentStops(t) PROVE WorkerTypeOK'
  <2>1. wpc' \in [Tasks -> WorkerPoints]
    BY <1>4 DEF AgentStops, Worker, WorkerTypeOK, WorkerPoints, InFn
  <2> QED
    BY <1>4, <2>1 DEF AgentStops, Leaves, WorkerTypeOK, Tools, Terminators
<1>5. ASSUME NEW t \in Tasks, AgentCallsTool(t) PROVE WorkerTypeOK'
  <2>1. wpc' \in [Tasks -> WorkerPoints]
    BY <1>5 DEF AgentCallsTool, Worker, WorkerTypeOK, WorkerPoints, InFn
  <2>2. tool' \in [Tasks -> Tools]
    BY <1>5 DEF AgentCallsTool, WorkerTypeOK, Tools
  <2>3. calls' \in [Tasks -> 0 .. MaxTools]
    BY <1>5 DEF AgentCallsTool, WorkerTypeOK
  <2> QED
    BY <1>5, <2>1, <2>2, <2>3 DEF AgentCallsTool, WorkerTypeOK
<1>6. ASSUME NEW t \in Tasks, SeedContext(t) PROVE WorkerTypeOK'
  BY <1>6 DEF SeedContext, Worker, Leaves, WorkerTypeOK, WorkerPoints, InFn,
     Tools, Terminators, TurnInv, LineInv, QueueTypeOK
<1>7. ASSUME NEW t \in Tasks, EmptyQueue(t) PROVE WorkerTypeOK'
  BY <1>7 DEF EmptyQueue, Worker, Leaves, WorkerTypeOK, WorkerPoints, InFn,
     Tools, Terminators, TurnInv, LineInv
<1>8. ASSUME NEW t \in Tasks, ToolEnds(t) PROVE WorkerTypeOK'
  BY <1>8 DEF ToolEnds, Worker, Leaves, WorkerTypeOK, WorkerPoints, InFn,
     Tools, Terminators, TurnInv, LineInv
<1>9. ASSUME NEW t \in Tasks, ToolEscalates(t) PROVE WorkerTypeOK'
  BY <1>9 DEF ToolEscalates, Worker, Leaves, WorkerTypeOK, WorkerPoints, InFn,
     Tools, Terminators, TurnInv, LineInv
<1>10. ASSUME NEW t \in Tasks, PutTerminator(t) PROVE WorkerTypeOK'
  BY <1>10 DEF PutTerminator, Worker, Leaves, WorkerTypeOK, WorkerPoints,
     InFn, Tools, Terminators, TurnInv, LineInv
<1>11. ASSUME NEW t \in Tasks, ThreadExits(t) PROVE WorkerTypeOK'
  BY <1>11 DEF ThreadExits, Worker, Leaves, WorkerTypeOK, WorkerPoints, InFn,
     Tools, Terminators, TurnInv, LineInv
<1>12. ASSUME NEW t \in Tasks, Ask(t) PROVE WorkerTypeOK'
  <2>1. wpc' \in [Tasks -> WorkerPoints]
    BY <1>12 DEF Ask, Worker, WorkerTypeOK, WorkerPoints, InFn
  <2> QED
    BY <1>12, <2>1 DEF Ask, Leaves, WorkerTypeOK, Tools, Terminators
<1>13. ASSUME NEW t \in Tasks, Await(t) PROVE WorkerTypeOK'
  BY <1>13 DEF Await, Worker, Leaves, WorkerTypeOK, WorkerPoints, InFn, Tools,
     Terminators, TurnInv, LineInv
<1>14. ASSUME NEW t \in Tasks, Unanswer(t) PROVE WorkerTypeOK'
  BY <1>14 DEF Unanswer, Worker, Leaves, WorkerTypeOK, WorkerPoints, InFn,
     Tools, Terminators, TurnInv, LineInv
<1>15. ASSUME NEW t \in Tasks, ClearReady(t) PROVE WorkerTypeOK'
  BY <1>15 DEF ClearReady, Worker, Leaves, WorkerTypeOK, WorkerPoints, InFn,
     Tools, Terminators, TurnInv, LineInv
<1>16. ASSUME NEW t \in Tasks, WaitAnswer(t) PROVE WorkerTypeOK'
  BY <1>16 DEF WaitAnswer, Worker, Leaves, WorkerTypeOK, WorkerPoints, InFn,
     Tools, Terminators, TurnInv, LineInv
<1>17. ASSUME NEW t \in Tasks, CheckCancel(t) PROVE WorkerTypeOK'
  <2>1. \E to \in {"over", "wait"} : wpc' = [wpc EXCEPT ![t] = to]
    BY <1>17 DEF CheckCancel, Worker
  <2>2. wpc' \in [Tasks -> WorkerPoints]
    BY <2>1 DEF WorkerTypeOK, WorkerPoints, InFn
  <2> QED
    BY <1>17, <2>2 DEF CheckCancel, Leaves, WorkerTypeOK, Terminators
<1>18. ASSUME NEW t \in Tasks, StopAwaiting(t) PROVE WorkerTypeOK'
  BY <1>18 DEF StopAwaiting, Worker, Leaves, WorkerTypeOK, WorkerPoints, InFn,
     Tools, Terminators, TurnInv, LineInv
<1>19. ASSUME NEW t \in Tasks, TakeAnswer(t) PROVE WorkerTypeOK'
  BY <1>19 DEF TakeAnswer, Worker, Leaves, WorkerTypeOK, WorkerPoints, InFn,
     Tools, Terminators, TurnInv, LineInv
<1>20. ASSUME NEW t \in Tasks, NeedSecret(t) PROVE WorkerTypeOK'
  BY <1>20 DEF NeedSecret, Worker, Leaves, WorkerTypeOK, WorkerPoints, InFn,
     Tools, Terminators, TurnInv, LineInv
<1>21. ASSUME NEW t \in Tasks, RequestCredential(t) PROVE WorkerTypeOK'
  BY <1>21 DEF RequestCredential, Worker, Leaves, WorkerTypeOK, WorkerPoints,
     InFn, Tools, Terminators, TurnInv, LineInv
<1>22. ASSUME NEW t \in Tasks, ClearCredEvent(t) PROVE WorkerTypeOK'
  BY <1>22 DEF ClearCredEvent, Worker, Leaves, WorkerTypeOK, WorkerPoints,
     InFn, Tools, Terminators, TurnInv, LineInv
<1>23. ASSUME NEW t \in Tasks, WaitCredential(t) PROVE WorkerTypeOK'
  BY <1>23 DEF WaitCredential, Worker, Leaves, WorkerTypeOK, WorkerPoints,
     InFn, Tools, Terminators, TurnInv, LineInv
<1>24. ASSUME NEW t \in Tasks, WithdrawRequest(t) PROVE WorkerTypeOK'
  BY <1>24 DEF WithdrawRequest, Worker, Leaves, WorkerTypeOK, WorkerPoints,
     InFn, Tools, Terminators, TurnInv, LineInv
<1>25. ASSUME NEW t \in Tasks, TakeCredential(t) PROVE WorkerTypeOK'
  BY <1>25 DEF TakeCredential, Worker, Leaves, WorkerTypeOK, WorkerPoints,
     InFn, Tools, Terminators, TurnInv, LineInv
<1>26. CASE UNCHANGED workerVars
  BY <1>26 DEF WorkerTypeOK, WorkerPoints, InFn, Tools, Terminators,
     workerVars
<1> QED
  BY <1>1, <1>2, <1>3, <1>4, <1>5, <1>6, <1>7, <1>8, <1>9, <1>10, <1>11,
     <1>12, <1>13, <1>14, <1>15, <1>16, <1>17, <1>18, <1>19, <1>20, <1>21,
     <1>22, <1>23, <1>24, <1>25, <1>26
  DEF Next, OperatorStep, MainStep, WorkerStep, AgentStep, AnswerStep,
      CredentialStep, Exited, vars,
      PollTimeout, QuitLoop, Drain, FinishTask, SeeCredential, CredentialOwnerAlive, CredentialOwnerDead, HandleCredential, PromptOperator, ReleaseWorker, Reap, Route, BusyLine, Deliver, SignalAnswer, MarkAnswered, Queue, Slash, PublishTask, AnnounceTask, Cleanup, PollLine, EndOfInput, Interrupt

\* The same of the queues.
LEMMA QueueTypeStep == TypeOK /\ TurnInv /\ [Next]_vars => QueueTypeOK'
<1> SUFFICES ASSUME TypeOK, TurnInv, [Next]_vars PROVE QueueTypeOK'
  OBVIOUS
<1> USE BoundsAssumption DEF TypeOK, Tasks, Ids, NoTask
<1>1. CASE Interrupt
  BY <1>1 DEF Interrupt, Main, QueueTypeOK, Terminators, TurnInv, LineInv
<1>2. CASE Drain
  <2>1. events' \in [Tasks -> SUBSET (Terminators \cup {"progress"})]
    BY <1>2 DEF Drain, QueueTypeOK
  <2> QED
    BY <1>2, <2>1 DEF Drain, QueueTypeOK
<1>3. CASE Queue
  BY <1>3, LineHandled DEF Queue, Main, QueueTypeOK
<1>4. CASE Slash
  BY <1>4 DEF Slash, Main, QueueTypeOK, Terminators, TurnInv, LineInv,
     MainTypeOK, NoLine, LineKinds
<1>5. CASE AnnounceTask
  BY <1>5 DEF AnnounceTask, Main, QueueTypeOK, Terminators, TurnInv, LineInv
<1>6. ASSUME NEW t \in Tasks, AgentCallsTool(t) PROVE QueueTypeOK'
  BY <1>6 DEF AgentCallsTool, Worker, Leaves, QueueTypeOK, Terminators,
     TurnInv, LineInv
<1>7. ASSUME NEW t \in Tasks, EmptyQueue(t) PROVE QueueTypeOK'
  BY <1>7 DEF EmptyQueue, Worker, Leaves, QueueTypeOK, Terminators, TurnInv,
     LineInv
<1>8. ASSUME NEW t \in Tasks, Ask(t) PROVE QueueTypeOK'
  BY <1>8 DEF Ask, Worker, Leaves, QueueTypeOK, Terminators, TurnInv, LineInv
<1>9. ASSUME NEW t \in Tasks, PutTerminator(t) PROVE QueueTypeOK'
  BY <1>9 DEF PutTerminator, Worker, QueueTypeOK, Terminators, TurnInv,
     ReportInv, Over, WorkerTypeOK
<1>10. CASE UNCHANGED queueVars
  BY <1>10 DEF QueueTypeOK, queueVars
<1>11. CASE OperatorStep
  BY <1>1, <1>10, <1>11 DEF OperatorStep, PollLine, EndOfInput
<1>12. CASE MainStep
  <2>1. ASSUME ~Drain, ~Queue, ~Slash, ~AnnounceTask
        PROVE  UNCHANGED queueVars
    BY <1>12, <2>1 DEF MainStep,
       PollTimeout, QuitLoop, SeeCredential, CredentialOwnerAlive,
       CredentialOwnerDead, HandleCredential, PromptOperator, ReleaseWorker,
       Reap, Route, BusyLine, Deliver, SignalAnswer, PublishTask,
       FinishTask, MarkAnswered, StartTask, Cleanup
  <2> QED
    BY <1>2, <1>3, <1>4, <1>5, <1>10, <2>1
<1>13. ASSUME NEW t \in Tasks, WorkerStep(t) PROVE QueueTypeOK'
  BY <1>6, <1>7, <1>8, <1>9, <1>10, <1>13
  DEF WorkerStep, AgentStep, AnswerStep, CredentialStep,
      AgentCancelled, AgentDecides, AgentStops, SeedContext, ToolEnds,
      ToolEscalates, ThreadExits, Await, Unanswer, ClearReady, WaitAnswer,
      CheckCancel, StopAwaiting, TakeAnswer, NeedSecret, RequestCredential,
      ClearCredEvent, WaitCredential, WithdrawRequest, TakeCredential
<1> QED
  BY <1>10, <1>11, <1>12, <1>13 DEF Next, Exited, vars

\* The same of the answer bridge.
LEMMA AnswerTypeStep == TypeOK /\ TurnInv /\ [Next]_vars => AnswerTypeOK'
<1> SUFFICES ASSUME TypeOK, TurnInv, [Next]_vars PROVE AnswerTypeOK'
  OBVIOUS
<1> USE BoundsAssumption DEF TypeOK, Tasks, Ids, NoTask
<1>1. CASE Deliver
  BY <1>1 DEF Deliver, Main, AnswerTypeOK, TurnInv, LineInv, MainTypeOK,
     NoLine, LineKinds
<1>2. CASE SignalAnswer
  BY <1>2 DEF SignalAnswer, Main, AnswerTypeOK, TurnInv, LineInv
<1>3. CASE MarkAnswered
  BY <1>3, LineHandled DEF MarkAnswered, Main, AnswerTypeOK
<1>4. ASSUME NEW t \in Tasks, Await(t) PROVE AnswerTypeOK'
  BY <1>4 DEF Await, Worker, Leaves, AnswerTypeOK, TurnInv, LineInv
<1>5. ASSUME NEW t \in Tasks, Unanswer(t) PROVE AnswerTypeOK'
  BY <1>5 DEF Unanswer, Worker, Leaves, AnswerTypeOK, TurnInv, LineInv
<1>6. ASSUME NEW t \in Tasks, ClearReady(t) PROVE AnswerTypeOK'
  BY <1>6 DEF ClearReady, Worker, Leaves, AnswerTypeOK, TurnInv, LineInv
<1>7. ASSUME NEW t \in Tasks, CheckCancel(t) PROVE AnswerTypeOK'
  BY <1>7 DEF CheckCancel, Worker, Leaves, AnswerTypeOK, TurnInv, LineInv
<1>8. ASSUME NEW t \in Tasks, StopAwaiting(t) PROVE AnswerTypeOK'
  BY <1>8 DEF StopAwaiting, Worker, Leaves, AnswerTypeOK, TurnInv, LineInv
<1>9. ASSUME NEW t \in Tasks, TakeAnswer(t) PROVE AnswerTypeOK'
  BY <1>9 DEF TakeAnswer, Worker, Leaves, AnswerTypeOK, TurnInv, LineInv
<1>10. CASE UNCHANGED answerVars
  BY <1>10 DEF AnswerTypeOK, answerVars
<1> QED
  BY <1>1, <1>2, <1>3, <1>4, <1>5, <1>6, <1>7, <1>8, <1>9, <1>10
  DEF Next, OperatorStep, MainStep, WorkerStep, AgentStep, AnswerStep,
      CredentialStep, Exited, vars,
      PollTimeout, QuitLoop, Drain, FinishTask, SeeCredential, CredentialOwnerAlive, CredentialOwnerDead, HandleCredential, PromptOperator, ReleaseWorker, Reap, Route, BusyLine, Queue, Slash, StartTask, PublishTask, AnnounceTask, Cleanup, PollLine, EndOfInput, Interrupt, AgentCancelled, AgentDecides, AgentStops, AgentCallsTool, SeedContext, EmptyQueue, ToolEnds, ToolEscalates, PutTerminator, ThreadExits, Ask, WaitAnswer, NeedSecret, RequestCredential, ClearCredEvent, WaitCredential, WithdrawRequest, TakeCredential

\* The same of the credential bridge.
LEMMA CredTypeStep == TypeOK /\ TurnInv /\ [Next]_vars => CredTypeOK'
<1> SUFFICES ASSUME TypeOK, TurnInv, [Next]_vars PROVE CredTypeOK'
  OBVIOUS
<1> USE BoundsAssumption DEF TypeOK, Tasks, Ids, NoTask
<1>1. CASE CredentialOwnerDead
  BY <1>1 DEF CredentialOwnerDead, Main, CredTypeOK, TurnInv, LineInv
<1>2. CASE PromptOperator
  BY <1>2 DEF PromptOperator, Main, CredTypeOK, TurnInv, LineInv, MainTypeOK
<1>3. CASE ReleaseWorker
  BY <1>3 DEF ReleaseWorker, Main, CredTypeOK, TurnInv, LineInv
<1>4. ASSUME NEW t \in Tasks, NeedSecret(t) PROVE CredTypeOK'
  BY <1>4 DEF NeedSecret, Worker, Leaves, CredTypeOK, TurnInv, LineInv
<1>5. ASSUME NEW t \in Tasks, RequestCredential(t) PROVE CredTypeOK'
  BY <1>5 DEF RequestCredential, Worker, Leaves, CredTypeOK, TurnInv, LineInv
<1>6. ASSUME NEW t \in Tasks, ClearCredEvent(t) PROVE CredTypeOK'
  BY <1>6 DEF ClearCredEvent, Worker, Leaves, CredTypeOK, TurnInv, LineInv
<1>7. ASSUME NEW t \in Tasks, WithdrawRequest(t) PROVE CredTypeOK'
  BY <1>7 DEF WithdrawRequest, Worker, Leaves, CredTypeOK, TurnInv, LineInv
<1>8. ASSUME NEW t \in Tasks, TakeCredential(t) PROVE CredTypeOK'
  BY <1>8 DEF TakeCredential, Worker, Leaves, CredTypeOK, TurnInv, LineInv
<1>9. CASE UNCHANGED credVars
  BY <1>9 DEF CredTypeOK, credVars
<1> QED
  BY <1>1, <1>2, <1>3, <1>4, <1>5, <1>6, <1>7, <1>8, <1>9
  DEF Next, OperatorStep, MainStep, WorkerStep, AgentStep, AnswerStep,
      CredentialStep, Exited, vars,
      PollTimeout, QuitLoop, Drain, FinishTask, SeeCredential, CredentialOwnerAlive, HandleCredential, Reap, Route, BusyLine, Deliver, SignalAnswer, MarkAnswered, Queue, Slash, StartTask, PublishTask, AnnounceTask, Cleanup, PollLine, EndOfInput, Interrupt, AgentCancelled, AgentDecides, AgentStops, AgentCallsTool, SeedContext, EmptyQueue, ToolEnds, ToolEscalates, PutTerminator, ThreadExits, Ask, Await, Unanswer, ClearReady, WaitAnswer, CheckCancel, StopAwaiting, TakeAnswer, WaitCredential

-----------------------------------------------------------------------------
(* The worker's steps, seen from the main thread: a step inside fn, a step   *)
(* that leaves it, and the steps of `_run' after it.                         *)

FrameOf(t) == UNCHANGED <<mainVars, started>> /\ wpc[t] \in InFn

Inner(t) ==
  /\ FrameOf(t)
  /\ wpc[t] # "over"
  /\ \E to \in InFn \ {"over"} : wpc' = [wpc EXCEPT ![t] = to]
  /\ events' \in {events, [events EXCEPT ![t] = @ \cup {"progress"}]}
  /\ UNCHANGED outcome

Leaving(t) ==
  /\ FrameOf(t)
  /\ wpc[t] # "over"
  /\ \/ /\ wpc' = [wpc EXCEPT ![t] = "over"]
        /\ \E o \in Terminators : outcome' = [outcome EXCEPT ![t] = o]
     \/ /\ wpc' = [wpc EXCEPT ![t] = "exiting"]
        /\ UNCHANGED outcome
  /\ UNCHANGED events

\* Every step of the worker is one of the four kinds above.
LEMMA WorkerSteps ==
  ASSUME NEW t \in Tasks, WorkerStep(t)
  PROVE  Inner(t) \/ Leaving(t) \/ PutTerminator(t) \/ ThreadExits(t)
<1> USE DEF Worker, FrameOf, InFn
<1>1. CASE AgentDecides(t)
  BY <1>1 DEF AgentDecides, Inner, mainVars, workerVars, queueVars,
     answerVars, credVars
<1>2. CASE AgentCallsTool(t)
  BY <1>2 DEF AgentCallsTool, Inner, mainVars, workerVars, queueVars,
     answerVars, credVars
<1>3. CASE SeedContext(t)
  BY <1>3 DEF SeedContext, Inner, mainVars, workerVars, queueVars, answerVars,
     credVars
<1>4. CASE ToolEnds(t)
  BY <1>4 DEF ToolEnds, Inner, mainVars, workerVars, queueVars, answerVars,
     credVars
<1>5. CASE Ask(t)
  BY <1>5 DEF Ask, Inner, mainVars, workerVars, queueVars, answerVars,
     credVars
<1>6. CASE Await(t)
  BY <1>6 DEF Await, Inner, mainVars, workerVars, queueVars, answerVars,
     credVars
<1>7. CASE Unanswer(t)
  BY <1>7 DEF Unanswer, Inner, mainVars, workerVars, queueVars, answerVars,
     credVars
<1>8. CASE ClearReady(t)
  BY <1>8 DEF ClearReady, Inner, mainVars, workerVars, queueVars, answerVars,
     credVars
<1>9. CASE WaitAnswer(t)
  BY <1>9 DEF WaitAnswer, Inner, mainVars, workerVars, queueVars, answerVars,
     credVars
<1>10. CASE StopAwaiting(t)
  BY <1>10 DEF StopAwaiting, Inner, mainVars, workerVars, queueVars,
     answerVars, credVars
<1>11. CASE TakeAnswer(t)
  BY <1>11 DEF TakeAnswer, Inner, mainVars, workerVars, queueVars, answerVars,
     credVars
<1>12. CASE NeedSecret(t)
  BY <1>12 DEF NeedSecret, Inner, mainVars, workerVars, queueVars, answerVars,
     credVars
<1>13. CASE RequestCredential(t)
  BY <1>13 DEF RequestCredential, Inner, mainVars, workerVars, queueVars,
     answerVars, credVars
<1>14. CASE ClearCredEvent(t)
  BY <1>14 DEF ClearCredEvent, Inner, mainVars, workerVars, queueVars,
     answerVars, credVars
<1>15. CASE WaitCredential(t)
  BY <1>15 DEF WaitCredential, Inner, mainVars, workerVars, queueVars,
     answerVars, credVars
<1>16. CASE WithdrawRequest(t)
  BY <1>16 DEF WithdrawRequest, Inner, mainVars, workerVars, queueVars,
     answerVars, credVars
<1>17. CASE TakeCredential(t)
  BY <1>17 DEF TakeCredential, Inner, mainVars, workerVars, queueVars,
     answerVars, credVars
<1>18. CASE CheckCancel(t)
  BY <1>18 DEF CheckCancel, Inner, Leaving, Leaves, Terminators, mainVars,
     workerVars, queueVars, answerVars, credVars
<1>19. CASE EmptyQueue(t)
  BY <1>19 DEF EmptyQueue, Inner, Leaving, Leaves, Terminators, mainVars,
     workerVars, queueVars, answerVars, credVars
<1>20. CASE AgentCancelled(t)
  BY <1>20 DEF AgentCancelled, Leaving, Leaves, Terminators, mainVars,
     workerVars, queueVars, answerVars, credVars
<1>21. CASE AgentStops(t)
  BY <1>21 DEF AgentStops, Leaving, Leaves, Terminators, mainVars, workerVars,
     queueVars, answerVars, credVars
<1>22. CASE ToolEscalates(t)
  BY <1>22 DEF ToolEscalates, Leaving, Leaves, Terminators, mainVars,
     workerVars, queueVars, answerVars, credVars
<1> QED
  BY <1>1, <1>2, <1>3, <1>4, <1>5, <1>6, <1>7, <1>8, <1>9, <1>10, <1>11,
     <1>12, <1>13, <1>14, <1>15, <1>16, <1>17, <1>18, <1>19, <1>20, <1>21,
     <1>22
  DEF WorkerStep, AgentStep, AnswerStep, CredentialStep

\* LineInv is inductive: a handled line is the last one typed.
LEMMA LineStep == TypeOK /\ TurnInv /\ [Next]_vars => LineInv'
<1> SUFFICES ASSUME TypeOK, TurnInv, [Next]_vars PROVE LineInv'
  OBVIOUS
<1> USE BoundsAssumption DEF TypeOK, TurnInv, Tasks, NoTask,
        MainTypeOK, WorkerTypeOK,
        mainVars, workerVars, queueVars, answerVars, credVars
<1>1. CASE PollTimeout
  BY <1>1 DEF PollTimeout, Main, LineInv, NoLine
<1>2. CASE QuitLoop
  BY <1>2 DEF QuitLoop, Main, LineInv, NoLine
<1>3. CASE Drain
  BY <1>3 DEF Drain, Main, LineInv, NoLine
<1>4. CASE FinishTask
  BY <1>4 DEF FinishTask, Main, LineInv, NoLine
<1>5. CASE SeeCredential
  BY <1>5 DEF SeeCredential, Main, LineInv, NoLine
<1>6. CASE CredentialOwnerAlive
  BY <1>6 DEF CredentialOwnerAlive, Main, LineInv, NoLine
<1>7. CASE CredentialOwnerDead
  BY <1>7 DEF CredentialOwnerDead, Main, LineInv, NoLine
<1>8. CASE HandleCredential
  BY <1>8 DEF HandleCredential, Main, LineInv, NoLine
<1>9. CASE PromptOperator
  BY <1>9 DEF PromptOperator, Main, LineInv, NoLine
<1>10. CASE ReleaseWorker
  BY <1>10 DEF ReleaseWorker, Main, LineInv, NoLine
<1>11. CASE Reap
  BY <1>11 DEF Reap, Reapable, Main, LineInv, NoLine
<1>12. CASE Route
  BY <1>12 DEF Route, Main, LineInv, NoLine
<1>13. CASE Deliver
  BY <1>13 DEF Deliver, Main, LineInv, NoLine
<1>14. CASE SignalAnswer
  BY <1>14 DEF SignalAnswer, Main, LineInv, NoLine
<1>15. CASE MarkAnswered
  BY <1>15 DEF MarkAnswered, Main, LineInv, NoLine
<1>16. CASE Queue
  BY <1>16 DEF Queue, Main, LineInv, NoLine
<1>17. CASE Slash
  BY <1>17 DEF Slash, Main, LineInv, NoLine
<1>18. CASE StartTask
  BY <1>18 DEF StartTask, Main, LineInv, NoLine
<1>19. CASE PublishTask
  BY <1>19 DEF PublishTask, Main, LineInv, NoLine
<1>20. CASE AnnounceTask
  BY <1>20 DEF AnnounceTask, Main, LineInv, NoLine
<1>21. CASE Cleanup
  BY <1>21 DEF Cleanup, Main, LineInv, NoLine
<1>22. CASE PollLine
  BY <1>22 DEF PollLine, Main, LineInv, NoLine, LineKinds
<1>23. CASE EndOfInput
  BY <1>23 DEF EndOfInput, Main, LineInv, NoLine
<1>24. CASE Interrupt
  BY <1>24 DEF Interrupt, Main, LineInv, NoLine
<1>25. ASSUME NEW t \in Tasks, Inner(t) PROVE LineInv'
  BY <1>25 DEF Inner, FrameOf, LineInv, NoLine
<1>26. ASSUME NEW t \in Tasks, Leaving(t) PROVE LineInv'
  BY <1>26 DEF Leaving, FrameOf, LineInv, NoLine
<1>27. ASSUME NEW t \in Tasks, PutTerminator(t) PROVE LineInv'
  BY <1>27 DEF PutTerminator, Worker, LineInv, NoLine
<1>28. ASSUME NEW t \in Tasks, ThreadExits(t) PROVE LineInv'
  BY <1>28 DEF ThreadExits, Worker, LineInv, NoLine
<1>29. CASE UNCHANGED vars
  BY <1>29 DEF LineInv, NoLine, vars
<1>30. CASE BusyLine
  BY <1>30 DEF BusyLine, Main, LineInv, NoLine
<1> QED
  BY WorkerSteps, <1>1, <1>2, <1>3, <1>4, <1>5, <1>6, <1>7, <1>8, <1>9, <1>10,
     <1>11, <1>12, <1>13, <1>14, <1>15, <1>16, <1>17, <1>18, <1>19, <1>20,
     <1>21, <1>22, <1>23, <1>24, <1>25, <1>26, <1>27, <1>28, <1>29, <1>30
  DEF Next, OperatorStep, MainStep, Exited

\* StartedInv is inductive: turns are numbered as they start.
LEMMA StartedStep == TypeOK /\ TurnInv /\ [Next]_vars => StartedInv'
<1> SUFFICES ASSUME TypeOK, TurnInv, [Next]_vars PROVE StartedInv'
  OBVIOUS
<1> USE BoundsAssumption DEF TypeOK, TurnInv, Tasks, NoTask,
        MainTypeOK, WorkerTypeOK,
        mainVars, workerVars, queueVars, answerVars, credVars
<1>1. CASE PollTimeout
  BY <1>1 DEF PollTimeout, Main, StartedInv
<1>2. CASE QuitLoop
  BY <1>2 DEF QuitLoop, Main, StartedInv
<1>3. CASE Drain
  BY <1>3 DEF Drain, Main, StartedInv
<1>4. CASE FinishTask
  BY <1>4 DEF FinishTask, Main, StartedInv
<1>5. CASE SeeCredential
  BY <1>5 DEF SeeCredential, Main, StartedInv
<1>6. CASE CredentialOwnerAlive
  BY <1>6 DEF CredentialOwnerAlive, Main, StartedInv
<1>7. CASE CredentialOwnerDead
  BY <1>7 DEF CredentialOwnerDead, Main, StartedInv
<1>8. CASE HandleCredential
  BY <1>8 DEF HandleCredential, Main, StartedInv
<1>9. CASE PromptOperator
  BY <1>9 DEF PromptOperator, Main, StartedInv
<1>10. CASE ReleaseWorker
  BY <1>10 DEF ReleaseWorker, Main, StartedInv
<1>11. CASE Reap
  BY <1>11 DEF Reap, Reapable, Main, StartedInv
<1>12. CASE Route
  BY <1>12 DEF Route, Main, StartedInv
<1>13. CASE Deliver
  BY <1>13 DEF Deliver, Main, StartedInv
<1>14. CASE SignalAnswer
  BY <1>14 DEF SignalAnswer, Main, StartedInv
<1>15. CASE MarkAnswered
  BY <1>15 DEF MarkAnswered, Main, StartedInv
<1>16. CASE Queue
  BY <1>16 DEF Queue, Main, StartedInv
<1>17. CASE Slash
  BY <1>17 DEF Slash, Main, StartedInv
<1>18. CASE StartTask
  BY <1>18 DEF StartTask, Main, StartedInv
<1>19. CASE PublishTask
  BY <1>19 DEF PublishTask, Main, StartedInv
<1>20. CASE AnnounceTask
  BY <1>20 DEF AnnounceTask, Main, StartedInv
<1>21. CASE Cleanup
  BY <1>21 DEF Cleanup, Main, StartedInv
<1>22. CASE PollLine
  BY <1>22 DEF PollLine, Main, StartedInv
<1>23. CASE EndOfInput
  BY <1>23 DEF EndOfInput, Main, StartedInv
<1>24. CASE Interrupt
  BY <1>24 DEF Interrupt, Main, StartedInv
<1>25. ASSUME NEW t \in Tasks, Inner(t) PROVE StartedInv'
  <2>1. PICK to \in InFn \ {"over"} : wpc' = [wpc EXCEPT ![t] = to]
    BY <1>25 DEF Inner
  <2>2. wpc[t] # "unborn" /\ to # "unborn" /\ UNCHANGED <<mainVars, started>>
    BY <1>25 DEF Inner, FrameOf, InFn
  <2> QED
    BY <2>1, <2>2 DEF StartedInv
<1>26. ASSUME NEW t \in Tasks, Leaving(t) PROVE StartedInv'
  BY <1>26 DEF Leaving, FrameOf, InFn, StartedInv, LineInv, NoLine
<1>27. ASSUME NEW t \in Tasks, PutTerminator(t) PROVE StartedInv'
  BY <1>27 DEF PutTerminator, Worker, StartedInv
<1>28. ASSUME NEW t \in Tasks, ThreadExits(t) PROVE StartedInv'
  BY <1>28 DEF ThreadExits, Worker, StartedInv
<1>29. CASE UNCHANGED vars
  BY <1>29 DEF StartedInv, vars
<1>30. CASE BusyLine
  BY <1>30 DEF BusyLine, Main, StartedInv
<1> QED
  BY WorkerSteps, <1>1, <1>2, <1>3, <1>4, <1>5, <1>6, <1>7, <1>8, <1>9, <1>10,
     <1>11, <1>12, <1>13, <1>14, <1>15, <1>16, <1>17, <1>18, <1>19, <1>20,
     <1>21, <1>22, <1>23, <1>24, <1>25, <1>26, <1>27, <1>28, <1>29, <1>30
  DEF Next, OperatorStep, MainStep, Exited

\* OwnerInv is inductive: the turn inside fn is the one the loop holds.
LEMMA OwnerStep == TypeOK /\ TurnInv /\ [Next]_vars => OwnerInv'
<1> SUFFICES ASSUME TypeOK, TurnInv, [Next]_vars PROVE OwnerInv'
  OBVIOUS
<1> USE BoundsAssumption DEF TypeOK, TurnInv, Tasks, NoTask,
        MainTypeOK, WorkerTypeOK,
        mainVars, workerVars, queueVars, answerVars, credVars
<1>1. CASE PollTimeout
  BY <1>1 DEF PollTimeout, Main, OwnerInv, Owner, InFn
<1>2. CASE QuitLoop
  BY <1>2 DEF QuitLoop, Main, OwnerInv, Owner, InFn
<1>3. CASE Drain
  BY <1>3 DEF Drain, Main, OwnerInv, Owner, InFn
<1>4. CASE FinishTask
  BY <1>4 DEF FinishTask, Main, OwnerInv, Owner, ReportInv, Over, Alive, InFn,
     StartedInv
<1>5. CASE SeeCredential
  BY <1>5 DEF SeeCredential, Main, OwnerInv, Owner, InFn
<1>6. CASE CredentialOwnerAlive
  BY <1>6 DEF CredentialOwnerAlive, Main, OwnerInv, Owner, InFn
<1>7. CASE CredentialOwnerDead
  BY <1>7 DEF CredentialOwnerDead, Main, OwnerInv, Owner, InFn
<1>8. CASE HandleCredential
  BY <1>8 DEF HandleCredential, Main, OwnerInv, Owner, InFn
<1>9. CASE PromptOperator
  BY <1>9 DEF PromptOperator, Main, OwnerInv, Owner, InFn
<1>10. CASE ReleaseWorker
  BY <1>10 DEF ReleaseWorker, Main, OwnerInv, Owner, InFn
<1>11. CASE Reap
  BY <1>11 DEF Reap, Reapable, Main, OwnerInv, Owner, Alive, InFn, StartedInv
<1>12. CASE Route
  BY <1>12 DEF Route, Main, OwnerInv, Owner, Alive, InFn, StartedInv
<1>13. CASE Deliver
  BY <1>13 DEF Deliver, Main, OwnerInv, Owner, InFn
<1>14. CASE SignalAnswer
  BY <1>14 DEF SignalAnswer, Main, OwnerInv, Owner, InFn
<1>15. CASE MarkAnswered
  BY <1>15 DEF MarkAnswered, Main, OwnerInv, Owner, InFn
<1>16. CASE Queue
  BY <1>16 DEF Queue, Main, OwnerInv, Owner, InFn
<1>17. CASE Slash
  BY <1>17 DEF Slash, Main, OwnerInv, Owner, InFn
<1>18. CASE StartTask
  BY <1>18 DEF StartTask, Main, OwnerInv, Owner, Alive, InFn, StartedInv
<1>19. CASE PublishTask
  BY <1>19 DEF PublishTask, Main, OwnerInv, Owner, InFn
<1>20. CASE AnnounceTask
  BY <1>20 DEF AnnounceTask, Main, OwnerInv, Owner, InFn
<1>21. CASE Cleanup
  BY <1>21 DEF Cleanup, Main, OwnerInv, Owner, InFn
<1>22. CASE PollLine
  BY <1>22 DEF PollLine, Main, OwnerInv, Owner, InFn
<1>23. CASE EndOfInput
  BY <1>23 DEF EndOfInput, Main, OwnerInv, Owner, InFn
<1>24. CASE Interrupt
  BY <1>24 DEF Interrupt, Main, OwnerInv, Owner, InFn
<1>25. ASSUME NEW t \in Tasks, Inner(t) PROVE OwnerInv'
  BY <1>25 DEF Inner, FrameOf, OwnerInv, Owner, Alive, InFn, StartedInv
<1>26. ASSUME NEW t \in Tasks, Leaving(t) PROVE OwnerInv'
  BY <1>26 DEF Leaving, FrameOf, OwnerInv, Owner, Alive, InFn, StartedInv
<1>27. ASSUME NEW t \in Tasks, PutTerminator(t) PROVE OwnerInv'
  BY <1>27 DEF PutTerminator, Worker, OwnerInv, Owner, Alive, InFn, StartedInv
<1>28. ASSUME NEW t \in Tasks, ThreadExits(t) PROVE OwnerInv'
  BY <1>28 DEF ThreadExits, Worker, OwnerInv, Owner, Alive, InFn, StartedInv
<1>29. CASE UNCHANGED vars
  BY <1>29 DEF OwnerInv, Owner, Alive, InFn, StartedInv, vars
<1>30. CASE BusyLine
  BY <1>30 DEF BusyLine, Main, OwnerInv, Owner, Alive, InFn, StartedInv
<1> QED
  BY WorkerSteps, <1>1, <1>2, <1>3, <1>4, <1>5, <1>6, <1>7, <1>8, <1>9, <1>10,
     <1>11, <1>12, <1>13, <1>14, <1>15, <1>16, <1>17, <1>18, <1>19, <1>20,
     <1>21, <1>22, <1>23, <1>24, <1>25, <1>26, <1>27, <1>28, <1>29, <1>30
  DEF Next, OperatorStep, MainStep, Exited

\* ReportInv is inductive: the report of the turn the loop holds is
\* in its queue from the end of its fn until it is printed.
LEMMA ReportStep == TypeOK /\ TurnInv /\ [Next]_vars => ReportInv'
<1> SUFFICES ASSUME TypeOK, TurnInv, [Next]_vars PROVE ReportInv'
  OBVIOUS
<1> USE BoundsAssumption DEF TypeOK, TurnInv, Tasks, NoTask,
        MainTypeOK, WorkerTypeOK, QueueTypeOK,
        mainVars, workerVars, queueVars, answerVars, credVars
<1>1. CASE PollTimeout
  BY <1>1 DEF PollTimeout, Main, ReportInv, Owner, Over, Terminators
<1>2. CASE QuitLoop
  BY <1>2 DEF QuitLoop, Main, ReportInv, Owner, Over, Terminators
<1>3. CASE Drain
  BY <1>3 DEF Drain, Main, ReportInv, Owner, Over, Terminators
<1>4. CASE FinishTask
  BY <1>4 DEF FinishTask, Main, ReportInv, Owner, Over, Terminators
<1>5. CASE SeeCredential
  BY <1>5 DEF SeeCredential, Main, ReportInv, Owner, Over, Terminators
<1>6. CASE CredentialOwnerAlive
  BY <1>6 DEF CredentialOwnerAlive, Main, ReportInv, Owner, Over, Terminators
<1>7. CASE CredentialOwnerDead
  BY <1>7 DEF CredentialOwnerDead, Main, ReportInv, Owner, Over, Terminators
<1>8. CASE HandleCredential
  BY <1>8 DEF HandleCredential, Main, ReportInv, Owner, Over, Terminators
<1>9. CASE PromptOperator
  BY <1>9 DEF PromptOperator, Main, ReportInv, Owner, Over, Terminators
<1>10. CASE ReleaseWorker
  BY <1>10 DEF ReleaseWorker, Main, ReportInv, Owner, Over, Terminators
<1>11. CASE Reap
  <2>1. /\ mpc = "reap" /\ mpc' = "line" /\ task' \in {task, NoTask}
        /\ UNCHANGED <<wpc, events, outcome, started>>
    BY <1>11 DEF Reap, Main
  <2>2. \A t \in Tasks : t = Owner' => t = Owner
    BY <2>1 DEF Owner
  <2> QED
    BY <2>1, <2>2 DEF ReportInv, Over, Terminators
<1>12. CASE Route
  BY <1>12 DEF Route, Main, ReportInv, Owner, Over, Terminators
<1>13. CASE Deliver
  BY <1>13 DEF Deliver, Main, ReportInv, Owner, Over, Terminators
<1>14. CASE SignalAnswer
  BY <1>14 DEF SignalAnswer, Main, ReportInv, Owner, Over, Terminators
<1>15. CASE MarkAnswered
  BY <1>15 DEF MarkAnswered, Main, ReportInv, Owner, Over, Terminators
<1>16. CASE Queue
  BY <1>16 DEF Queue, Main, ReportInv, Owner, Over, Terminators
<1>17. CASE Slash
  BY <1>17 DEF Slash, Main, ReportInv, Owner, Over, Terminators
<1>18. CASE StartTask
  <2>1. /\ mpc = "idle" /\ mpc' = "publish" /\ started' = started + 1
        /\ wpc' = [wpc EXCEPT ![started + 1] = "agent"]
        /\ UNCHANGED <<events, outcome, task>>
    BY <1>18 DEF StartTask, Main
  <2>2. started < typed /\ typed \in 0 .. MaxLines
    BY <2>1, LineHandled DEF TypeOK
  <2>3. started + 1 \in Tasks /\ wpc[started + 1] = "unborn"
    BY <2>2 DEF StartedInv
  <2>4. outcome[started + 1] = "none" /\ events[started + 1] \cap Terminators = {}
    BY <2>3 DEF ReportInv, Over
  <2>5. \A t \in Tasks : t # started + 1 => wpc'[t] = wpc[t]
    BY <2>1
  <2>6. wpc'[started + 1] = "agent" /\ Owner' = started + 1
    BY <2>1, <2>3 DEF Owner
  <2>7. \A t \in Tasks : t = Owner' => wpc'[t] \notin Over
    BY <2>6 DEF Over
  <2>8. \A t \in Tasks :
          wpc'[t] \notin Over =>
            ((outcome'[t] = "none") <=> (wpc'[t] # "over"))
    BY <2>1, <2>4, <2>5, <2>6 DEF ReportInv
  <2>9. \A t \in Tasks : events'[t] \cap Terminators # {} => wpc'[t] \in Over
    BY <2>1, <2>4, <2>5 DEF ReportInv
  <2> QED
    BY <2>1, <2>7, <2>8, <2>9 DEF ReportInv
<1>19. CASE PublishTask
  BY <1>19 DEF PublishTask, Main, ReportInv, Owner, Over, Terminators
<1>20. CASE AnnounceTask
  <2>1. /\ mpc = "announce" /\ mpc' = "poll"
        /\ events' = [events EXCEPT ![started] = @ \cup {"progress"}]
        /\ UNCHANGED <<wpc, outcome, task, started, drained>>
    BY <1>20 DEF AnnounceTask, Main
  <2>2. Owner' = Owner
    BY <2>1 DEF Owner
  <2>3. \A t \in Tasks : events'[t] \in {events[t], events[t] \cup {"progress"}}
    BY <2>1
  <2>4. \A t \in Tasks : events'[t] \cap Terminators = events[t] \cap Terminators
    BY <2>3 DEF Terminators
  <2> QED
    BY <2>1, <2>2, <2>3, <2>4 DEF ReportInv
<1>21. CASE Cleanup
  BY <1>21 DEF Cleanup, Main, ReportInv, Owner, Over, Terminators
<1>22. CASE PollLine
  BY <1>22 DEF PollLine, Main, ReportInv, Owner, Over, Terminators
<1>23. CASE EndOfInput
  BY <1>23 DEF EndOfInput, Main, ReportInv, Owner, Over, Terminators
<1>24. CASE Interrupt
  BY <1>24 DEF Interrupt, Main, ReportInv, Owner, Over, Terminators
<1>25. ASSUME NEW t \in Tasks, Inner(t) PROVE ReportInv'
  <2>1. PICK to \in InFn \ {"over"} : wpc' = [wpc EXCEPT ![t] = to]
    BY <1>25 DEF Inner
  <2>2. /\ Owner' = Owner /\ mpc' = mpc /\ task' = task
        /\ drained' = drained /\ outcome' = outcome
    BY <1>25 DEF Inner, FrameOf, Owner, mainVars
  <2>3. wpc[t] \notin Over /\ wpc[t] # "over" /\ to \notin Over
    BY <1>25, <2>1 DEF Inner, FrameOf, InFn, Over
  <2>4. \A s \in Tasks : (wpc'[s] \in Over <=> wpc[s] \in Over)
                        /\ (wpc'[s] = "over" <=> wpc[s] = "over")
    BY <2>1, <2>3 DEF WorkerTypeOK
  <2>5. \A s \in Tasks : events'[s] \in {events[s], events[s] \cup {"progress"}}
    BY <1>25 DEF Inner
  <2>6. \A s \in Tasks :
          /\ events'[s] \cap Terminators = events[s] \cap Terminators
          /\ events[s] \subseteq events'[s]
    <3> TAKE s \in Tasks
    <3>1. CASE events'[s] = events[s]
      BY <3>1
    <3>2. CASE events'[s] = events[s] \cup {"progress"}
      BY <3>2 DEF Terminators
    <3> QED
      BY <2>5, <3>1, <3>2
  <2>7. mpc = "finish" => wpc'[task] \in Over
    BY <2>4 DEF ReportInv, MainTypeOK
  <2> QED
    BY <2>2, <2>4, <2>6, <2>7 DEF ReportInv
<1>26. ASSUME NEW t \in Tasks, Leaving(t) PROVE ReportInv'
  <2>1. /\ Owner' = Owner /\ mpc' = mpc /\ task' = task
        /\ drained' = drained /\ events' = events
    BY <1>26 DEF Leaving, FrameOf, Owner, mainVars
  <2>2. wpc[t] \notin Over /\ wpc[t] # "over" /\ outcome[t] = "none"
    BY <1>26 DEF Leaving, FrameOf, InFn, Over, ReportInv
  <2>3. CASE wpc' = [wpc EXCEPT ![t] = "over"]
             /\ \E o \in Terminators : outcome' = [outcome EXCEPT ![t] = o]
    BY <2>1, <2>2, <2>3 DEF ReportInv, Over, Terminators, MainTypeOK,
       WorkerTypeOK
  <2>4. CASE wpc' = [wpc EXCEPT ![t] = "exiting"] /\ UNCHANGED outcome
    BY <2>1, <2>2, <2>4 DEF ReportInv, Over, Terminators, MainTypeOK,
       WorkerTypeOK
  <2> QED
    BY <1>26, <2>3, <2>4 DEF Leaving
<1>27. ASSUME NEW t \in Tasks, PutTerminator(t) PROVE ReportInv'
  BY <1>27 DEF PutTerminator, Worker, ReportInv, Owner, Over, Terminators
<1>28. ASSUME NEW t \in Tasks, ThreadExits(t) PROVE ReportInv'
  BY <1>28 DEF ThreadExits, Worker, ReportInv, Owner, Over, Terminators
<1>29. CASE UNCHANGED vars
  BY <1>29 DEF ReportInv, Owner, Over, Terminators, vars
<1>30. CASE BusyLine
  BY <1>30 DEF BusyLine, Main, ReportInv, Owner, Over, Terminators
<1> QED
  BY WorkerSteps, <1>1, <1>2, <1>3, <1>4, <1>5, <1>6, <1>7, <1>8, <1>9, <1>10,
     <1>11, <1>12, <1>13, <1>14, <1>15, <1>16, <1>17, <1>18, <1>19, <1>20,
     <1>21, <1>22, <1>23, <1>24, <1>25, <1>26, <1>27, <1>28, <1>29, <1>30
  DEF Next, OperatorStep, MainStep, Exited

-----------------------------------------------------------------------------
(* The theorems.  *)

TypedTurns == TypeOK /\ TurnInv

\* The invariant holds initially.
LEMMA TypedTurnsInit == Init => TypedTurns
<1> SUFFICES ASSUME Init PROVE TypedTurns
  OBVIOUS
<1> USE BoundsAssumption DEF Init, Tasks, Ids, NoTask, NoLine
<1>1. MainTypeOK
  <2>1. line \in [kind : LineKinds \cup {"none"}, id : 0 .. MaxLines]
    OBVIOUS
  <2>2. typed \in 0 .. MaxLines
    OBVIOUS
  <2>3. mpc \in MainPoints /\ drained \in {"nothing", "result", "error"}
    BY DEF MainPoints
  <2> QED
    BY <2>1, <2>2, <2>3, Zenon DEF MainTypeOK
<1>2. WorkerTypeOK
  BY DEF WorkerTypeOK, WorkerPoints, Tools
<1>3. QueueTypeOK
  BY DEF QueueTypeOK
<1>4. AnswerTypeOK
  <2>1. answerValue \in 0 .. MaxLines
    OBVIOUS
  <2> QED
    BY <2>1, Zenon DEF AnswerTypeOK
<1>5. CredTypeOK
  BY DEF CredTypeOK
<1>6. LineInv /\ StartedInv
  BY DEF LineInv, StartedInv
<1>7. OwnerInv /\ ReportInv
  BY DEF OwnerInv, ReportInv, InFn, Over
<1> QED
  BY <1>1, <1>2, <1>3, <1>4, <1>5, <1>6, <1>7 DEF TypedTurns, TypeOK, TurnInv

\* Every step preserves the invariant.
LEMMA TypedTurnsStep == TypedTurns /\ [Next]_vars => TypedTurns'
BY MainTypeStep, WorkerTypeStep, QueueTypeStep, AnswerTypeStep, CredTypeStep,
   LineStep, StartedStep, OwnerStep, ReportStep DEF TypedTurns, TypeOK, TurnInv

\* The inductive invariant of the turns holds in every reachable state.
THEOREM TypedTurnsInvariant == Spec => []TypedTurns
BY TypedTurnsInit, TypedTurnsStep, PTL DEF Spec

\* Every variable keeps its type, whatever the bounds.
THEOREM TypeInvariant == Spec => []TypeOK
<1>1. TypedTurns => TypeOK
  BY DEF TypedTurns
<1> QED
  BY <1>1, TypedTurnsInvariant, PTL

\* At any time at most one background thread is inside a turn's fn.
THEOREM SingleWorker == Spec => []OneWorker
<1>1. TypedTurns => OneWorker
  BY DEF TypedTurns, TurnInv, OwnerInv, OneWorker
<1> QED
  BY <1>1, TypedTurnsInvariant, PTL

\* The reaper of printed-only turns never swallows a result or an error.
THEOREM ReapingIsSafe == Spec => ReapedTurnHadNoReport
<1> DEFINE Drops == task # NoTask /\ task' = NoTask /\ drained = "nothing"
                      => outcome[task] \in {"none", "quiet"}
<1>1. TypedTurns /\ Next => Drops
  <2> SUFFICES ASSUME TypedTurns, Next, task # NoTask, task' = NoTask,
                      drained = "nothing"
               PROVE  outcome[task] \in {"none", "quiet"}
    OBVIOUS
  <2> USE DEF TypedTurns, TypeOK, TurnInv
  <2>1. CASE Reap
    <3>1. task \in Tasks /\ wpc[task] = "dead" /\ events[task] = {}
      BY <2>1 DEF Reap, Reapable, Alive, MainTypeOK, WorkerTypeOK, StartedInv,
         NoTask, Tasks
    <3>2. mpc = "reap"
      BY <2>1 DEF Reap, Main
    <3> QED
      BY <3>1, <3>2 DEF ReportInv, Owner, Over, WorkerTypeOK, Terminators
  <2>2. CASE FinishTask
    BY <2>2 DEF FinishTask, Main, ReportInv
  <2>3. CASE PublishTask
    BY <2>3 DEF PublishTask, Main, StartedInv, WorkerTypeOK, NoTask
  <2>4. CASE UNCHANGED task
    BY <2>4
  <2>5. ASSUME NEW t \in Tasks, WorkerStep(t)
        PROVE  UNCHANGED task
    BY <2>5, WorkerSteps DEF Inner, Leaving, FrameOf, PutTerminator,
       ThreadExits, mainVars
  <2> QED
    BY <2>1, <2>2, <2>3, <2>4, <2>5 DEF Next, OperatorStep, MainStep, Exited,
       vars, mainVars, PollTimeout, QuitLoop, Drain, SeeCredential, CredentialOwnerAlive, CredentialOwnerDead, HandleCredential, PromptOperator, ReleaseWorker, Route, BusyLine, Deliver, SignalAnswer, MarkAnswered, Queue, Slash, StartTask, AnnounceTask, Cleanup, PollLine, EndOfInput, Interrupt
<1>2. [Next]_vars /\ TypedTurns => [Drops]_vars
  BY <1>1
<1> QED
  BY <1>2, TypedTurnsInvariant, PTL DEF Spec, ReapedTurnHadNoReport

-----------------------------------------------------------------------------
(* The answer bridge.  *)

Asking == {"unanswer", "clear", "wait", "check", "wake", "take"}

\* A step of t that has nothing to do with the answer bridge.
Elsewhere(t) ==
  /\ UNCHANGED <<mainVars, answerVars>>
  /\ wpc[t] \notin Asking
  /\ \E to \in WorkerPoints \ Asking : wpc' = [wpc EXCEPT ![t] = to]

\* Every other step of the worker is such a step.
LEMMA ElsewhereSteps ==
  ASSUME NEW t \in Tasks, AgentStep(t) \/ CredentialStep(t) \/ Ask(t)
  PROVE  Elsewhere(t)
<1> USE DEF Worker, Elsewhere, Asking, WorkerPoints, InFn
<1>1. CASE AgentCancelled(t)
  BY <1>1 DEF AgentCancelled
<1>2. CASE AgentDecides(t)
  BY <1>2 DEF AgentDecides
<1>3. CASE AgentStops(t)
  BY <1>3 DEF AgentStops
<1>4. CASE AgentCallsTool(t)
  BY <1>4 DEF AgentCallsTool
<1>5. CASE SeedContext(t)
  BY <1>5 DEF SeedContext
<1>6. CASE EmptyQueue(t)
  BY <1>6 DEF EmptyQueue
<1>7. CASE ToolEnds(t)
  BY <1>7 DEF ToolEnds
<1>8. CASE ToolEscalates(t)
  BY <1>8 DEF ToolEscalates
<1>9. CASE PutTerminator(t)
  BY <1>9 DEF PutTerminator
<1>10. CASE ThreadExits(t)
  BY <1>10 DEF ThreadExits
<1>11. CASE NeedSecret(t)
  BY <1>11 DEF NeedSecret
<1>12. CASE RequestCredential(t)
  BY <1>12 DEF RequestCredential
<1>13. CASE ClearCredEvent(t)
  BY <1>13 DEF ClearCredEvent
<1>14. CASE WaitCredential(t)
  BY <1>14 DEF WaitCredential
<1>15. CASE WithdrawRequest(t)
  BY <1>15 DEF WithdrawRequest
<1>16. CASE TakeCredential(t)
  BY <1>16 DEF TakeCredential
<1>17. CASE Ask(t)
  BY <1>17 DEF Ask
<1> QED
  BY <1>1, <1>2, <1>3, <1>4, <1>5, <1>6, <1>7, <1>8, <1>9, <1>10, <1>11,
     <1>12, <1>13, <1>14, <1>15, <1>16, <1>17 DEF AgentStep, CredentialStep

\* Every step preserves the invariant of the answer bridge.
LEMMA AnswerInvStep == TypedTurns /\ AnswerInv /\ [Next]_vars => AnswerInv'
<1> SUFFICES ASSUME TypedTurns, AnswerInv, [Next]_vars PROVE AnswerInv'
  OBVIOUS
<1> USE BoundsAssumption DEF TypedTurns, TypeOK, TurnInv, Tasks, Ids, NoTask,
        MainTypeOK, WorkerTypeOK, AnswerTypeOK,
        mainVars, workerVars, queueVars, answerVars, credVars
<1>1. CASE PollTimeout
  BY <1>1 DEF PollTimeout, Main, AnswerInv, AwaitingHasAsker
<1>2. CASE QuitLoop
  BY <1>2 DEF QuitLoop, Main, AnswerInv, AwaitingHasAsker
<1>3. CASE Drain
  BY <1>3 DEF Drain, Main, AnswerInv, AwaitingHasAsker
<1>4. CASE FinishTask
  BY <1>4 DEF FinishTask, Main, AnswerInv, AwaitingHasAsker
<1>5. CASE SeeCredential
  BY <1>5 DEF SeeCredential, Main, AnswerInv, AwaitingHasAsker
<1>6. CASE CredentialOwnerAlive
  BY <1>6 DEF CredentialOwnerAlive, Main, AnswerInv, AwaitingHasAsker
<1>7. CASE CredentialOwnerDead
  BY <1>7 DEF CredentialOwnerDead, Main, AnswerInv, AwaitingHasAsker
<1>8. CASE HandleCredential
  BY <1>8 DEF HandleCredential, Main, AnswerInv, AwaitingHasAsker
<1>9. CASE PromptOperator
  BY <1>9 DEF PromptOperator, Main, AnswerInv, AwaitingHasAsker
<1>10. CASE ReleaseWorker
  BY <1>10 DEF ReleaseWorker, Main, AnswerInv, AwaitingHasAsker
<1>11. CASE Reap
  BY <1>11 DEF Reap, Main, AnswerInv, AwaitingHasAsker
<1>12. CASE Route
  BY <1>12 DEF Route, Main, AnswerInv, AwaitingHasAsker
<1>13. CASE Deliver
  <2>1. /\ mpc = "give" /\ mpc' = "deliver" /\ answerValue' = line.id
        /\ UNCHANGED <<wpc, line, typed, awaiting, answered, answerReady, used>>
    BY <1>13 DEF Deliver, Main, workerVars
  <2>2. line # NoLine /\ line.id = typed
    BY <2>1, LineHandled DEF LineInv
  <2>3. \A i \in used : i < typed
    BY <2>1, <2>2 DEF AnswerInv
  <2>4. typed \notin used
    BY <2>3
  <2>5. \A t \in Tasks : wpc[t] \notin {"wake", "take"}
    BY <2>1 DEF AnswerInv
  <2>6. \A t \in Tasks : wpc[t] \in {"wait", "check"} => ~answerReady
    BY <2>1 DEF AnswerInv
  <2>7. \A i \in used : i <= typed
    BY <2>3 DEF AnswerInv
  <2> QED
    BY <2>1, <2>2, <2>4, <2>5, <2>6, <2>7 DEF AnswerInv, AwaitingHasAsker
<1>14. CASE SignalAnswer
  BY <1>14 DEF SignalAnswer, Main, AnswerInv, AwaitingHasAsker
<1>15. CASE MarkAnswered
  BY <1>15 DEF MarkAnswered, Main, AnswerInv, AwaitingHasAsker
<1>16. CASE Queue
  BY <1>16 DEF Queue, Main, AnswerInv, AwaitingHasAsker
<1>17. CASE Slash
  BY <1>17 DEF Slash, Main, AnswerInv, AwaitingHasAsker
<1>18. CASE StartTask
  <2>1. \A t \in Tasks :
          \/ wpc'[t] = wpc[t]
          \/ wpc[t] = "unborn" /\ wpc'[t] = "agent"
    BY <1>18 DEF StartTask, StartedInv, WorkerTypeOK
  <2>2. mpc = "idle" /\ mpc' = "publish" /\ typed' = typed /\ line' = line
        /\ UNCHANGED answerVars
    BY <1>18 DEF StartTask, Main
  <2> QED
    BY <2>1, <2>2 DEF AnswerInv, AwaitingHasAsker, answerVars
<1>19. CASE PublishTask
  BY <1>19 DEF PublishTask, Main, AnswerInv, AwaitingHasAsker
<1>20. CASE AnnounceTask
  BY <1>20 DEF AnnounceTask, Main, AnswerInv, AwaitingHasAsker
<1>21. CASE Cleanup
  BY <1>21 DEF Cleanup, Main, AnswerInv, AwaitingHasAsker
<1>22. CASE PollLine
  BY <1>22 DEF PollLine, Main, AnswerInv, AwaitingHasAsker
<1>23. CASE EndOfInput
  BY <1>23 DEF EndOfInput, Main, AnswerInv, AwaitingHasAsker
<1>24. CASE Interrupt
  BY <1>24 DEF Interrupt, Main, AnswerInv, AwaitingHasAsker
<1>25. ASSUME NEW t \in Tasks, Await(t) PROVE AnswerInv'
  BY <1>25 DEF Await, Worker, Leaves, AnswerInv, AwaitingHasAsker
<1>26. ASSUME NEW t \in Tasks, Unanswer(t) PROVE AnswerInv'
  BY <1>26 DEF Unanswer, Worker, Leaves, AnswerInv, AwaitingHasAsker,
     OwnerInv, Owner, InFn, LineInv, NoLine
<1>27. ASSUME NEW t \in Tasks, ClearReady(t) PROVE AnswerInv'
  BY <1>27 DEF ClearReady, Worker, Leaves, AnswerInv, AwaitingHasAsker
<1>28. ASSUME NEW t \in Tasks, WaitAnswer(t) PROVE AnswerInv'
  BY <1>28 DEF WaitAnswer, Worker, Leaves, AnswerInv, AwaitingHasAsker
<1>29. ASSUME NEW t \in Tasks, CheckCancel(t) PROVE AnswerInv'
  <2> USE DEF CheckCancel, Worker, AnswerInv, AwaitingHasAsker, WorkerTypeOK,
          mainVars
  <2>1. CASE task # NoTask /\ cancel[task]
    <3>1. ~awaiting' /\ wpc' = [wpc EXCEPT ![t] = "over"]
      BY <1>29, <2>1
    <3> QED
      BY <1>29, <3>1
  <2>2. CASE ~(task # NoTask /\ cancel[task])
    <3>1. awaiting' = awaiting /\ wpc' = [wpc EXCEPT ![t] = "wait"]
      BY <1>29, <2>2
    <3> QED
      BY <1>29, <3>1
  <2> QED
    BY <2>1, <2>2
<1>30. ASSUME NEW t \in Tasks, StopAwaiting(t) PROVE AnswerInv'
  BY <1>30 DEF StopAwaiting, Worker, Leaves, AnswerInv, AwaitingHasAsker
<1>31. ASSUME NEW t \in Tasks, TakeAnswer(t) PROVE AnswerInv'
  BY <1>31 DEF TakeAnswer, Worker, Leaves, AnswerInv, AwaitingHasAsker,
     OwnerInv, Owner, InFn, LineInv, NoLine
<1>32. ASSUME NEW t \in Tasks, Elsewhere(t) PROVE AnswerInv'
  <2>1. /\ UNCHANGED <<mainVars, answerVars>>
        /\ wpc[t] \notin Asking
        /\ \E to \in WorkerPoints \ Asking : wpc' = [wpc EXCEPT ![t] = to]
    BY <1>32 DEF Elsewhere
  <2>2. \A s \in Tasks :
          \/ wpc'[s] = wpc[s]
          \/ wpc'[s] \notin Asking /\ wpc[s] \notin Asking
    BY <2>1
  <2> QED
    BY <2>1, <2>2 DEF AnswerInv, AwaitingHasAsker, Asking
<1>33. CASE UNCHANGED vars
  BY <1>33 DEF AnswerInv, AwaitingHasAsker, vars
<1>34. CASE BusyLine
  <2>1. /\ mpc = "busy"
        /\ UNCHANGED <<wpc, line, typed, awaiting, answered, answerReady,
                       answerValue, used>>
        /\ mpc' \in {"give", "enqueue"}
        /\ mpc' = "give" => awaiting /\ ~answered
    BY <1>34 DEF BusyLine, workerVars, answerVars
  <2>2. mpc' = "give" => \A t \in Tasks : wpc[t] \notin {"wake", "take"}
    BY <2>1 DEF AnswerInv, AwaitingHasAsker, OwnerInv, InFn
  <2>3. mpc' = "give" =>
          \A t \in Tasks : wpc[t] \in {"wait", "check"} => ~answerReady
    BY <2>1 DEF AnswerInv
  <2> QED
    BY <2>1, <2>2, <2>3 DEF AnswerInv, AwaitingHasAsker
<1> QED
  BY ElsewhereSteps, <1>1, <1>2, <1>3, <1>4, <1>5, <1>6, <1>7, <1>8, <1>9,
     <1>10, <1>11, <1>12, <1>13, <1>14, <1>15, <1>16, <1>17, <1>18, <1>19,
     <1>20, <1>21, <1>22, <1>23, <1>24, <1>25, <1>26, <1>27, <1>28, <1>29,
     <1>30, <1>31, <1>32, <1>33, <1>34
  DEF Next, OperatorStep, MainStep, WorkerStep, AnswerStep, Exited

\* The inductive invariant of the answer bridge holds in every reachable state.
THEOREM AnswerInvariant == Spec => [](TypedTurns /\ AnswerInv)
<1>1. Init => AnswerInv
  BY BoundsAssumption DEF Init, AnswerInv, AwaitingHasAsker, NoLine, Tasks
<1> QED
  BY <1>1, TypedTurnsInit, TypedTurnsStep, AnswerInvStep, PTL DEF Spec

\* A question is open only while its asker waits for the answer to it.
THEOREM QuestionsHaveAskers == Spec => []AwaitingHasAsker
<1>1. AnswerInv => AwaitingHasAsker
  BY DEF AnswerInv
<1> QED
  BY <1>1, AnswerInvariant, PTL

\* No typed line answers two questions.
THEOREM AnswersAreTakenOnce == Spec => AnswerTakenOnce
<1> DEFINE Fresh == \A t \in Tasks : wpc[t] = "take" /\ wpc'[t] = "tool"
                                       => answerValue \notin used
<1>1. AnswerInv => Fresh
  BY DEF AnswerInv
<1>2. AnswerInv /\ [Next]_vars => [Fresh]_vars
  BY <1>1
<1> QED
  BY <1>2, AnswerInvariant, PTL DEF Spec, AnswerTakenOnce

-----------------------------------------------------------------------------
(* The messages queued for a diagnose run, and the transcript on disk.       *)

\* Strengthens SeededOnce: what is queued was typed, a line that is being
\* handled is not queued yet, and the queue shares lines with the arguments
\* of a turn only between that turn's copy of it and its reset.
SeedInv ==
  /\ SeededOnce
  /\ \A t \in Tasks : pending \cap argv[t] # {} => wpc[t] = "unqueue"
  /\ \A i \in pending : i <= typed /\ (line # NoLine => i < typed)
  /\ \A t \in Tasks : \A i \in argv[t] : i <= typed /\ (line # NoLine => i < typed)

\* A worker's step that neither copies nor empties the queue.
Unseeding(t) ==
  /\ UNCHANGED <<mainVars, argv, pending>>
  /\ wpc[t] # "unqueue"
  /\ \E to \in WorkerPoints : wpc' = [wpc EXCEPT ![t] = to]

\* Every step of the worker is such a step, the copy or the reset.
LEMMA SeedingSteps ==
  ASSUME NEW t \in Tasks, WorkerStep(t)
  PROVE  Unseeding(t) \/ SeedContext(t) \/ EmptyQueue(t)
<1> USE DEF Worker, Unseeding, WorkerPoints, InFn
<1>1. CASE AgentCancelled(t)
  BY <1>1 DEF AgentCancelled, Leaves, queueVars
<1>2. CASE AgentDecides(t)
  BY <1>2 DEF AgentDecides, queueVars
<1>3. CASE AgentStops(t)
  BY <1>3 DEF AgentStops, Leaves, queueVars
<1>4. CASE AgentCallsTool(t)
  BY <1>4 DEF AgentCallsTool, queueVars
<1>5. CASE ToolEnds(t)
  BY <1>5 DEF ToolEnds, queueVars
<1>6. CASE ToolEscalates(t)
  BY <1>6 DEF ToolEscalates, Leaves, queueVars
<1>7. CASE PutTerminator(t)
  BY <1>7 DEF PutTerminator, queueVars
<1>8. CASE ThreadExits(t)
  BY <1>8 DEF ThreadExits, queueVars
<1>9. CASE Ask(t)
  BY <1>9 DEF Ask, queueVars
<1>10. CASE Await(t)
  BY <1>10 DEF Await, queueVars
<1>11. CASE Unanswer(t)
  BY <1>11 DEF Unanswer, queueVars
<1>12. CASE ClearReady(t)
  BY <1>12 DEF ClearReady, queueVars
<1>13. CASE WaitAnswer(t)
  BY <1>13 DEF WaitAnswer, queueVars
<1>14. CASE CheckCancel(t)
  BY <1>14 DEF CheckCancel, Leaves, queueVars
<1>15. CASE StopAwaiting(t)
  BY <1>15 DEF StopAwaiting, queueVars
<1>16. CASE TakeAnswer(t)
  BY <1>16 DEF TakeAnswer, queueVars
<1>17. CASE NeedSecret(t)
  BY <1>17 DEF NeedSecret, queueVars
<1>18. CASE RequestCredential(t)
  BY <1>18 DEF RequestCredential, queueVars
<1>19. CASE ClearCredEvent(t)
  BY <1>19 DEF ClearCredEvent, queueVars
<1>20. CASE WaitCredential(t)
  BY <1>20 DEF WaitCredential, queueVars
<1>21. CASE WithdrawRequest(t)
  BY <1>21 DEF WithdrawRequest, queueVars
<1>22. CASE TakeCredential(t)
  BY <1>22 DEF TakeCredential, queueVars
<1> QED
  BY <1>1, <1>2, <1>3, <1>4, <1>5, <1>6, <1>7, <1>8, <1>9, <1>10, <1>11,
     <1>12, <1>13, <1>14, <1>15, <1>16, <1>17, <1>18, <1>19, <1>20, <1>21,
     <1>22
  DEF WorkerStep, AgentStep, AnswerStep, CredentialStep

\* Every step preserves it.
LEMMA SeedInvStep == TypedTurns /\ SeedInv /\ [Next]_vars => SeedInv'
<1> SUFFICES ASSUME TypedTurns, SeedInv, [Next]_vars PROVE SeedInv'
  OBVIOUS
<1> USE BoundsAssumption DEF TypedTurns, TypeOK, TurnInv, Tasks, Ids, NoTask,
        MainTypeOK, WorkerTypeOK, QueueTypeOK,
        mainVars, workerVars, queueVars, answerVars, credVars
<1>1. CASE PollTimeout
  BY <1>1 DEF PollTimeout, Main, SeedInv, SeededOnce
<1>2. CASE QuitLoop
  BY <1>2 DEF QuitLoop, Main, SeedInv, SeededOnce
<1>3. CASE Drain
  BY <1>3 DEF Drain, Main, SeedInv, SeededOnce
<1>4. CASE FinishTask
  BY <1>4 DEF FinishTask, Main, SeedInv, SeededOnce
<1>5. CASE SeeCredential
  BY <1>5 DEF SeeCredential, Main, SeedInv, SeededOnce
<1>6. CASE CredentialOwnerAlive
  BY <1>6 DEF CredentialOwnerAlive, Main, SeedInv, SeededOnce
<1>7. CASE CredentialOwnerDead
  BY <1>7 DEF CredentialOwnerDead, Main, SeedInv, SeededOnce
<1>8. CASE HandleCredential
  BY <1>8 DEF HandleCredential, Main, SeedInv, SeededOnce
<1>9. CASE PromptOperator
  BY <1>9 DEF PromptOperator, Main, SeedInv, SeededOnce
<1>10. CASE ReleaseWorker
  BY <1>10 DEF ReleaseWorker, Main, SeedInv, SeededOnce
<1>11. CASE Reap
  BY <1>11 DEF Reap, Main, SeedInv, SeededOnce
<1>12. CASE Route
  BY <1>12 DEF Route, Main, SeedInv, SeededOnce
<1>13. CASE BusyLine
  BY <1>13 DEF BusyLine, Main, SeedInv, SeededOnce
<1>14. CASE Deliver
  BY <1>14 DEF Deliver, Main, SeedInv, SeededOnce
<1>15. CASE SignalAnswer
  BY <1>15 DEF SignalAnswer, Main, SeedInv, SeededOnce
<1>16. CASE MarkAnswered
  BY <1>16 DEF MarkAnswered, Main, SeedInv, SeededOnce
<1>17. CASE Queue
  <2>1. line # NoLine /\ line.id = typed
    BY <1>17, LineHandled DEF Queue, Main, LineInv
  <2>2. /\ pending' = pending \cup {typed} /\ line' = NoLine
        /\ UNCHANGED <<typed, wpc, argv>>
    BY <1>17, <2>1 DEF Queue, workerVars
  <2>3. \A t \in Tasks : typed \notin argv[t]
    BY <2>1 DEF SeedInv
  <2>4. \A t \in Tasks : pending' \cap argv[t] = pending \cap argv[t]
    BY <2>2, <2>3
  <2> QED
    BY <2>2, <2>4 DEF SeedInv, SeededOnce
<1>18. CASE Slash
  <2>1. line # NoLine /\ line.id = typed
    BY <1>18, LineHandled DEF Slash, Main, LineInv
  <2>2. /\ pending' \in {{}, pending, pending \cup {typed}} /\ line' = NoLine
        /\ UNCHANGED <<typed, wpc, argv>>
    BY <1>18, <2>1 DEF Slash, workerVars
  <2>3. \A t \in Tasks : typed \notin argv[t]
    BY <2>1 DEF SeedInv
  <2>4. \A t \in Tasks, i \in pending' : i \in argv[t] => i \in pending
    BY <2>2, <2>3
  <2>5. \A i \in pending' : i \in pending \/ i = typed
    BY <2>2
  <2>6. \A i \in pending' : i <= typed'
    <3>1. typed \in Int /\ typed' = typed
      BY <2>2
    <3>2. \A i \in pending : i <= typed
      BY DEF SeedInv
    <3> HIDE DEF TypedTurns, SeedInv
    <3> QED
      BY <2>5, <3>1, <3>2
  <2>7. \A t \in Tasks : pending' \cap argv'[t] # {} => wpc'[t] = "unqueue"
    BY <2>2, <2>4 DEF SeedInv
  <2>8. SeededOnce' /\ \A t \in Tasks : \A i \in argv'[t] : i <= typed'
    BY <2>2 DEF SeedInv, SeededOnce
  <2> QED
    BY <2>2, <2>6, <2>7, <2>8 DEF SeedInv
<1>19. CASE StartTask
  <2>1. \A t \in Tasks : wpc[t] = "unqueue" => wpc'[t] = "unqueue"
    BY <1>19 DEF StartTask, StartedInv
  <2>2. UNCHANGED <<typed, line, argv, pending>>
    BY <1>19 DEF StartTask
  <2> QED
    BY <2>1, <2>2 DEF SeedInv, SeededOnce
<1>20. CASE PublishTask
  BY <1>20 DEF PublishTask, Main, SeedInv, SeededOnce
<1>21. CASE AnnounceTask
  BY <1>21 DEF AnnounceTask, Main, SeedInv, SeededOnce
<1>22. CASE Cleanup
  BY <1>22 DEF Cleanup, Main, SeedInv, SeededOnce
<1>23. CASE PollLine
  <2>1. typed' = typed + 1 /\ UNCHANGED <<wpc, argv, pending>>
    BY <1>23 DEF PollLine, workerVars, queueVars
  <2>2. \A i \in Ids : i <= typed => i < typed'
    BY <2>1
  <2> QED
    BY <2>1, <2>2 DEF SeedInv, SeededOnce
<1>24. CASE EndOfInput
  BY <1>24 DEF EndOfInput, Main, SeedInv, SeededOnce
<1>25. CASE Interrupt
  BY <1>25 DEF Interrupt, Main, SeedInv, SeededOnce
<1>26. ASSUME NEW t \in Tasks, SeedContext(t) PROVE SeedInv'
  <2>1. /\ argv' = [argv EXCEPT ![t] = pending]
        /\ wpc[t] = "seed" /\ wpc' = [wpc EXCEPT ![t] = "unqueue"]
        /\ UNCHANGED <<typed, line, pending>>
    BY <1>26 DEF SeedContext, Worker
  <2>2. \A u \in Tasks : u # t => pending \cap argv[u] = {}
    BY <2>1 DEF SeedInv, OwnerInv, InFn
  <2>3. \A u \in Tasks : argv'[u] = IF u = t THEN pending ELSE argv[u]
    BY <2>1
  <2>4. SeededOnce'
    BY <2>2, <2>3 DEF SeedInv, SeededOnce
  <2>5. \A u \in Tasks : wpc'[u] = IF u = t THEN "unqueue" ELSE wpc[u]
    BY <2>1
  <2> QED
    BY <2>1, <2>2, <2>3, <2>4, <2>5 DEF SeedInv
<1>27. ASSUME NEW t \in Tasks, EmptyQueue(t) PROVE SeedInv'
  BY <1>27 DEF EmptyQueue, Worker, SeedInv, SeededOnce
<1>28. ASSUME NEW t \in Tasks, Unseeding(t) PROVE SeedInv'
  <2>1. \A u \in Tasks : wpc[u] = "unqueue" => wpc'[u] = "unqueue"
    BY <1>28 DEF Unseeding
  <2> QED
    BY <1>28, <2>1 DEF Unseeding, SeedInv, SeededOnce
<1>29. CASE UNCHANGED vars
  BY <1>29 DEF SeedInv, SeededOnce, vars
<1> QED
  BY SeedingSteps, <1>1, <1>2, <1>3, <1>4, <1>5, <1>6, <1>7, <1>8, <1>9,
     <1>10, <1>11, <1>12, <1>13, <1>14, <1>15, <1>16, <1>17, <1>18, <1>19,
     <1>20, <1>21, <1>22, <1>23, <1>24, <1>25, <1>26, <1>27, <1>28, <1>29
  DEF Next, OperatorStep, MainStep, Exited

\* A queued line is --context of the diagnose runs of one turn only.
THEOREM SeedsAreUsedOnce == Spec => []SeededOnce
<1>1. Init => SeedInv
  BY BoundsAssumption DEF Init, SeedInv, SeededOnce, NoLine, Tasks
<1>2. SeedInv => SeededOnce
  BY DEF SeedInv
<1> QED
  BY <1>1, <1>2, TypedTurnsInit, TypedTurnsStep, SeedInvStep, PTL DEF Spec

=============================================================================
