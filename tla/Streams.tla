------------------------------- MODULE Streams --------------------------------
(***************************************************************************)
(* Who prints where (operator/repl.py: _Capture, _redirect_stdout,         *)
(* _run_sync, the tee of _tool_verify).                                    *)
(*                                                                         *)
(* The session has one sys.stdout and two threads that replace it: the     *)
(* worker of a turn puts a capture there that feeds the turn's queue, the  *)
(* verify tool a second one over it that feeds its report, and the loop a  *)
(* buffer while it runs /lint or /targets.  Each remembers what it found   *)
(* and puts it back; nothing keeps the two from overlapping.  sys.stderr   *)
(* is replaced in the same places and the same way.                        *)
(***************************************************************************)
EXTENDS Naturals, Sequences

CONSTANTS
    MaxTurns,      \* bound: turns of the session
    MaxCommands,   \* bound: commands the loop runs itself
    MaxStreams,    \* bound: captures and buffers made
    Ident,         \* Ident[t]: the ident the system gives the thread of turn t
    None

(* What the constants must satisfy, assumed by Channels                   *)
StreamsAssumption ==
    /\ MaxTurns \in Nat /\ MaxCommands \in Nat /\ MaxStreams \in Nat
    /\ DOMAIN Ident = 1..MaxTurns
    /\ None \notin {Ident[t] : t \in 1..MaxTurns}      \* the loop's own

(* Streams are numbered as they are made; 0 is the terminal.               *)
VARIABLES
    made,      \* made[n]: [kind, of, owner, under], n >= 1
    stdout,    \* sys.stdout
    worker,    \* the worker of turn t: [turn, at, saved], saved a stack
    loop,      \* the main thread: [at, saved, command]
    last       \* the last print: [by, turn, to], or None

vars == <<made, stdout, worker, loop, last>>

Terminal == [kind |-> "terminal", of |-> 0]

Init ==
    /\ made = <<>>
    /\ stdout = 0
    /\ worker = [turn |-> 0, at |-> "done", saved |-> <<>>]
    /\ loop = [at |-> "poll", saved |-> 0, command |-> 0]
    /\ last = None

(* A capture, or a buffer, over the stream that is there.                  *)
Over(kind, of, owner) ==
    /\ Len(made) < MaxStreams
    /\ made' = Append(made, [kind |-> kind, of |-> of, owner |-> owner, under |-> stdout])
    /\ stdout' = Len(made) + 1

(* faulty: a capture takes what any thread writes.                         *)
TakesAll(s, ident) == TRUE

(* A capture takes what its owner writes, a buffer what anyone writes.     *)
Takes(s, ident) == s.kind = "buffer" \/ s.owner = ident

(* Where a line ends up that a thread writes to stream n.                  *)
Sink(n, ident) ==
    LET sink[k \in 0..Len(made)] ==
          IF k = 0 THEN Terminal
          ELSE IF Takes(made[k], ident) THEN [kind |-> made[k].kind, of |-> made[k].of]
          ELSE sink[made[k].under]
    IN sink[n]

-----------------------------------------------------------------------------
(* The worker of a turn.                                                   *)

(* The loop starts a turn when there is none.                              *)
StartTurn ==
    /\ loop.at = "poll" /\ worker.at = "done" /\ worker.turn < MaxTurns
    /\ worker' = [turn |-> worker.turn + 1, at |-> "started", saved |-> <<>>]
    /\ UNCHANGED <<made, stdout, loop, last>>

Enter(from, to, kind) ==
    /\ worker.at = from
    /\ Over(kind, worker.turn, Ident[worker.turn])
    /\ worker' = [worker EXCEPT !.at = to, !.saved = Append(@, stdout)]
    /\ UNCHANGED <<loop, last>>

Leave(from, to) ==
    /\ worker.at = from
    /\ stdout' = worker.saved[Len(worker.saved)]
    /\ worker' = [worker EXCEPT !.at = to, !.saved = SubSeq(@, 1, Len(@) - 1)]
    /\ UNCHANGED <<made, loop, last>>

BeginCapture == Enter("started", "turn", "queue")
BeginVerify == Enter("turn", "verify", "report")
EndVerify == Leave("verify", "turn")
EndCapture == Leave("turn", "done")

WorkerPrints ==
    /\ worker.at \in {"turn", "verify"}
    /\ last' = [by |-> worker.at, turn |-> worker.turn, to |-> Sink(stdout, Ident[worker.turn])]
    /\ UNCHANGED <<made, stdout, worker, loop>>

-----------------------------------------------------------------------------
(* The loop.                                                               *)

(* /lint, /targets: what the command prints is collected and then shown.   *)
BeginCommand ==
    /\ loop.at = "poll" /\ loop.command < MaxCommands
    /\ Over("buffer", loop.command + 1, None)
    /\ loop' = [at |-> "command", saved |-> stdout, command |-> loop.command + 1]
    /\ UNCHANGED <<worker, last>>

EndCommand ==
    /\ loop.at = "command"
    /\ stdout' = loop.saved
    /\ loop' = [loop EXCEPT !.at = "poll"]
    /\ UNCHANGED <<made, worker, last>>

LoopPrints ==
    /\ last' = [by |-> loop.at, turn |-> worker.turn, to |-> Sink(stdout, None)]
    /\ UNCHANGED <<made, stdout, worker, loop>>

Next ==
    \/ StartTurn
    \/ BeginCapture \/ BeginVerify \/ EndVerify \/ EndCapture \/ WorkerPrints
    \/ BeginCommand \/ EndCommand \/ LoopPrints

Spec == Init /\ [][Next]_vars

-----------------------------------------------------------------------------
(* Type correctness: a stream is made over an older one.                   *)
TypeOK ==
    /\ \A n \in DOMAIN made : made[n].under \in 0..(n - 1)
    /\ stdout \in 0..Len(made)
    /\ worker.turn \in 0..MaxTurns
    /\ worker.at \in {"started", "turn", "verify", "done"}
    /\ loop.at \in {"poll", "command"} /\ loop.command \in 0..MaxCommands

(* Nothing is fed back: whatever the two threads replace and put back, a    *)
(* line of the loop never lands in the queue the loop itself prints from,   *)
(* nor in a report ("swallowed (and re-captured into the queue, feeding     *)
(* back forever)", _Capture, repl.py:134-137), and a line a verify prints   *)
(* lands in a report or a queue of its own turn, or of one whose thread had *)
(* the same ident: the system gives the idents of threads that ended out    *)
(* again, and a capture knows its thread by its ident.                      *)
NeverFedBack ==
    last # None =>
        /\ last.by \in {"poll", "command"} => last.to.kind \in {"terminal", "buffer"}
        /\ (last.by = "verify" /\ last.to.kind \in {"report", "queue"}) =>
              Ident[last.to.of] = Ident[last.turn]

(* A capture takes its own thread's lines ("only the thread that created    *)
(* the capture is redirected", repl.py:136).  It is not so: one that is     *)
(* back in place when its turn is over takes those of a later turn whose    *)
(* thread got the ident of that turn's.                                     *)
OnlyItsThread ==
    (last # None /\ last.to.kind \in {"report", "queue"}) => last.to.of = last.turn

(* What the loop prints is read: outside a command of its own its lines     *)
(* reach the terminal ("everyone else passes through to the real stream",   *)
(* repl.py:136-137).  It is not so: a capture that a worker took over the   *)
(* loop's buffer puts that buffer back when the command is long over.       *)
LoopIsHeard ==
    (last # None /\ last.by = "poll") => last.to = Terminal
=============================================================================
