------------------------------ MODULE Progress -------------------------------
(***************************************************************************)
(* What must come to an end, side by side: a diagnostic run                *)
(* (DiagnosticRun), a fleet of runs on a thread pool (Fleet) and the       *)
(* forward through which they reach the model (LLMForward), each under the *)
(* fairness of its own threads.  A run of a fleet is DiagnosticRun's only  *)
(* in its ends, and holds of the forward only that it is up: each is all   *)
(* the other two let it see.  So a behaviour is one of a single part, and  *)
(* the states are the parts' side by side, not their product.              *)
(***************************************************************************)
EXTENDS Naturals

CONSTANTS
    Probes, MaxSteps, MaxActions, Options,                      \* DiagnosticRun
    Tokens, LabelOf, HostOf, PathOf, Stored, Workers,           \* Fleet
    None, Torn, OldKey,
    Conns, MaxBytes                                             \* LLMForward

VARIABLES
    inUse,                                                      \* which is in use
    pc, opts, cancelled, steps, why, atCancel, open, model, snippets, planned,
    mined, calls, dumps, decoded, faulty, iso, diagnosis, prompts, asked,
    runDir, files, saved, audit, reported,
    main, next, argsUrl, nsUrl, shared, at, held, context, vault,
    scratch, keyFile, installed, results, failures, status,
    starter, keyFiles, hops, listening, stop, acceptor, handler, pump, inbox,
    chunk, outbox, eof, gone, died, sent, delivered, ended

runVars == <<pc, opts, cancelled, steps, why, atCancel, open, model, snippets,
             planned, mined, calls, dumps, decoded, faulty, iso, diagnosis,
             prompts, asked, runDir, files, saved, audit, reported>>
fleetVars == <<main, next, argsUrl, nsUrl, shared, at, held, context,
               vault, scratch, keyFile, installed, results, failures, status>>
forwardVars == <<starter, keyFiles, hops, listening, stop, acceptor, handler,
                 pump, inbox, chunk, outbox, eof, gone, died, sent, delivered,
                 ended>>
vars == <<inUse, runVars, fleetVars, forwardVars>>

Run == INSTANCE DiagnosticRun
Pool == INSTANCE Fleet WITH pc <- at, forward <- shared
Fwd == INSTANCE LLMForward

ASSUME PartsAssumption ==
    /\ Run!RunAssumption
    /\ Pool!FleetAssumption
    /\ Fwd!ForwardAssumption
-----------------------------------------------------------------------------
Alone(x) ==
    /\ inUse = x
    /\ UNCHANGED inUse
    /\ x # "run" => UNCHANGED runVars
    /\ x # "fleet" => UNCHANGED fleetVars
    /\ x # "forward" => UNCHANGED forwardVars

Init ==
    /\ inUse \in {"run", "fleet", "forward"}
    /\ Run!Init /\ Pool!Init /\ Fwd!Init
    /\ inUse # "run" => faulty = {} /\ opts = CHOOSE o \in Options : TRUE

Next ==
    \/ Alone("run") /\ Run!Next
    \/ Alone("fleet") /\ Pool!Next
    \/ Alone("forward") /\ Fwd!Next

Spec == Init /\ [][Next]_vars

(* The fairness of the three modules: the run's thread, the fleet's main   *)
(* thread and pool, the forward's threads.                                 *)
FairSpec ==
    /\ Spec
    /\ WF_vars(Alone("run") /\ Run!RunStep)
    /\ WF_vars(Alone("fleet") /\ Pool!MainStep)
    /\ WF_vars(Alone("fleet") /\ Pool!Start)
    /\ \A s \in Pool!Servers : WF_vars(Alone("fleet") /\ Pool!RunStep(s))
    /\ WF_vars(Alone("forward") /\ Fwd!AcceptorEnds)
    /\ \A c \in Conns :
          /\ WF_vars(Alone("forward") /\ Fwd!Accept(c))
          /\ WF_vars(Alone("forward") /\ Fwd!Reset(c))
          /\ WF_vars(Alone("forward") /\ Fwd!OpenChannel(c))
          /\ WF_vars(Alone("forward") /\ Fwd!ClosePair(c))
          /\ WF_vars(Alone("forward") /\ Fwd!ServerHangsUp(c))
    /\ \A s \in Fwd!Streams :
          /\ WF_vars(Alone("forward") /\ Fwd!Pump(s))
          /\ WF_vars(Alone("forward") /\ Fwd!Deliver(s))
          /\ WF_vars(Alone("forward") /\ Fwd!SeeEnd(s))
-----------------------------------------------------------------------------
(* DiagnosticRun: every run ends, with its artifacts or aborted.           *)
RunEnds == inUse = "run" => Run!RunEnds

(* Fleet: the command ends, every submitted run is carried through and no  *)
(* forward outlives it (cli.py:1318-1339, 285).                            *)
FleetEnds == inUse = "fleet" => Pool!FleetEnds

(* Fleet: 0 is returned only if no run failed, also when several tokens    *)
(* resolve to one label (cli.py:1316-1339); the shared forward is up until *)
(* the last run is over, interrupted or not; and once nothing runs no      *)
(* private key is left in the temporary directory.                         *)
FleetIsSound ==
    inUse = "fleet" =>
        Pool!StatusIsTrue /\ Pool!ForwardOutlivesRuns /\ Pool!NoKeyLeftBehind

(* LLMForward: a client that hangs up has its pair closed, on both sides   *)
(* (tunnel.py:240-276).                                                    *)
HangUpClosesPair == inUse = "forward" => Fwd!HangUpClosesPair
=============================================================================
