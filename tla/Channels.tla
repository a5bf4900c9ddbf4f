------------------------------ MODULE Channels -------------------------------
(***************************************************************************)
(* The channels of a session, side by side.  To the operator: the streams  *)
(* the loop and a turn print to (Streams) and the editor that reads the    *)
(* line (LineEditor).  To the server: the serial consoles (Console),       *)
(* Redfish over a hop (Redfish) and the vendor's test menu (SingleTests).  *)
(* To the model: the forward over two hops (LLMForward).                   *)
(* They share no state of the program, and what goes over one is an input  *)
(* of the others' callers, any value of it.  So a behaviour is one of a    *)
(* single channel, and the states are the channels' side by side, not      *)
(* their product.                                                          *)
(***************************************************************************)
EXTENDS Naturals

CONSTANTS
    None,
    MaxTurns, MaxCommands, MaxStreams, Ident,                   \* Streams
    Consoles, Strokes, MaxStrokes,                              \* LineEditor
    Cmds, Wires, SudoWires, WireOf, Denied, Gated, ProgramOf,   \* Console
    Endings, Missing, Services, Table, SetupOf, Plans, ModelProbe, Chain,
    MaxCalls, MaxLate,
    Users,                                                      \* Redfish
    Labels, Numberings, MaxRuns, MaxLaunches,           \* SingleTests
    Conns, MaxBytes                                             \* LLMForward

VARIABLES
    inUse,                                                      \* which is in use
    streams, stdout, worker, loop, last,
    console, strokes, wire, partial, buf, pos, history, histIdx, draft,
    returned, meant,
    calls, cache, call, batch, raised, made, retyped,
    script, unread, transcript, typed, reader, running, authed, exit,
    heard, anchored, late,
    user, secret, at, dumps, hops, open, forward, port,
    node, driver,
    starter, keyFiles, links, listening, stop, acceptor, handler, pump, inbox,
    chunk, outbox, eof, gone, died, sent, delivered, ended

streamVars == <<streams, stdout, worker, loop, last>>
editorVars == <<console, strokes, wire, partial, buf, pos, history, histIdx,
                draft, returned, meant>>
serialVars == <<calls, cache, call, batch, raised, made, retyped, script,
                unread, transcript, typed, reader, running, authed, exit,
                heard, anchored, late>>
redfishVars == <<user, secret, at, dumps, hops, open, forward, port>>
menuVars == <<node, driver>>
modelVars == <<starter, keyFiles, links, listening, stop, acceptor, handler,
               pump, inbox, chunk, outbox, eof, gone, died, sent, delivered,
               ended>>
vars == <<inUse, streamVars, editorVars, serialVars, redfishVars, menuVars, modelVars>>

Capture == INSTANCE Streams WITH made <- streams
Editor == INSTANCE LineEditor
Serial == INSTANCE Console
Bmc == INSTANCE Redfish WITH made <- hops
Menu == INSTANCE SingleTests
Fwd == INSTANCE LLMForward WITH hops <- links

ASSUME PartsAssumption ==
    /\ Capture!StreamsAssumption
    /\ Editor!EditorAssumption
    /\ Serial!SudoAssumption /\ Serial!CommandAssumption
    /\ Serial!ServiceAssumption /\ Serial!PlanAssumption
    /\ Bmc!RedfishAssumption
    /\ Menu!SingleTestsAssumption
    /\ Fwd!ForwardAssumption
-----------------------------------------------------------------------------
(* The channels not in use stand at one of their initial states.           *)
Init ==
    /\ inUse \in {"streams", "editor", "serial", "redfish", "menu", "model"}
    /\ Capture!Init /\ Editor!Init /\ Serial!Init /\ Bmc!Init /\ Menu!Init /\ Fwd!Init
    /\ inUse # "editor" => console = "posix"
    /\ inUse # "redfish" => user = "run" /\ ~secret

(* Only the serial consoles always have a next step or are over; the rest   *)
(* stop where their bounds stop them.                                      *)
StreamStep ==
    /\ inUse = "streams"
    /\ Capture!Next \/ UNCHANGED streamVars
    /\ UNCHANGED <<inUse, editorVars, serialVars, redfishVars, menuVars, modelVars>>

EditorStep ==
    /\ inUse = "editor"
    /\ Editor!Next \/ UNCHANGED editorVars
    /\ UNCHANGED <<inUse, streamVars, serialVars, redfishVars, menuVars, modelVars>>

SerialStep ==
    /\ inUse = "serial"
    /\ Serial!Next
    /\ UNCHANGED <<inUse, streamVars, editorVars, redfishVars, menuVars, modelVars>>

RedfishStep ==
    /\ inUse = "redfish"
    /\ Bmc!Next \/ UNCHANGED redfishVars
    /\ UNCHANGED <<inUse, streamVars, editorVars, serialVars, menuVars, modelVars>>

MenuStep ==
    /\ inUse = "menu"
    /\ Menu!Next \/ UNCHANGED menuVars
    /\ UNCHANGED <<inUse, streamVars, editorVars, serialVars, redfishVars, modelVars>>

ModelStep ==
    /\ inUse = "model"
    /\ Fwd!Next \/ UNCHANGED modelVars
    /\ UNCHANGED <<inUse, streamVars, editorVars, serialVars, redfishVars, menuVars>>

Next ==
    \/ StreamStep \/ EditorStep
    \/ SerialStep \/ RedfishStep \/ MenuStep
    \/ ModelStep

Spec == Init /\ [][Next]_vars
-----------------------------------------------------------------------------
(* What follows is said of the channel in use: the others do not move.     *)

(* The shape of its state.                                                 *)
TypeOK ==
    /\ inUse = "streams" => Capture!TypeOK
    /\ inUse = "editor" => Editor!TypeOK
    /\ inUse = "serial" => Serial!TypeOK
    /\ inUse = "redfish" => Bmc!TypeOK
    /\ inUse = "menu" => Menu!TypeOK
    /\ inUse = "model" => Fwd!TypeOK

(* Streams: what the loop prints never lands in its own queue or in a      *)
(* report, and what a verify prints never in another turn's (_Capture,     *)
(* repl.py:134-137).                                                       *)
NeverFedBack == inUse = "streams" => Capture!NeverFedBack

(* LineEditor: what was struck, and read, is what the editor holds, and    *)
(* poll returns the lines as they were typed, in order (poll, _insert).    *)
LineIsTyped == inUse = "editor" => Editor!LineIsTyped

(* Console: in a session no expect of which timed out, a probe's record    *)
(* holds what that probe printed, and exit 127 exactly when its program is *)
(* missing (parse_transcript); and a call that returns has every command's *)
(* answer at its own place, the refused ones' included.                    *)
OutputIsItsOwn ==
    inUse = "serial" => Serial!OutputIsItsOwn /\ Serial!AnswersInOrder

(* ExpectSession: past the node's prompt, probes are read by its shell or  *)
(* a sudo, and each password by the prompt it belongs to                   *)
(* (render_expect_script); and no probe is typed again whose last record   *)
(* is good, whichever caller asks for it.                                  *)
SpokenToTheNode ==
    inUse = "serial" => Serial!SpokenToTheNode /\ Serial!NothingRetyped

(* Redfish: a run that reaches its end leaves no hop open, and never has   *)
(* two (cli.py:1264-1265, RedfishClient).  LLMForward: once it is closed   *)
(* no connection of it is open, also when it had opened half of them, and  *)
(* a key is left on disk only when the password is missing (tunnel.py:     *)
(* 143-145, 161-180, 197-210).                                             *)
NothingLeftOpen ==
    /\ inUse = "redfish" => Bmc!HopDiesWithTheRun
    /\ inUse = "model" => Fwd!ClosedMeansClosed /\ Fwd!KeyLeftOnlyForPassword

(* SingleTests: a result is about the test that has the number sent, and    *)
(* that is the one asked for unless the script was launched again for it,  *)
(* in whichever menu the last test ended and whenever the shell died, as   *)
(* long as no read fell short (run_test, _ensure_fat_menu).                 *)
RanWhatItSays == inUse = "menu" => Menu!RanWhatItSays

(* LLMForward implements Relay: what is read of a stream is a beginning of *)
(* what was written to it, and its end is seen only after all of it, but   *)
(* for a stream that lost an end (tunnel.py:232-276).                      *)
Relays == Fwd!Relays
=============================================================================
