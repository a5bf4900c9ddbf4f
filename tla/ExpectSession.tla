--------------------------- MODULE ExpectSession ---------------------------
(***************************************************************************)
(* The dialogue of one serial console session (engine/sol.py): the expect  *)
(* script that render_expect_script writes for a list of probes, run by    *)
(* expect on the rack manager, against whatever reads its lines there: the *)
(* rack manager's own prompt, the login prompt of the node, the node's     *)
(* shell or a sudo that asks for a password.                               *)
(*                                                                         *)
(* A line typed and a piece of text printed are tuples; the text between   *)
(* them, escaping and the words of a prompt are left out.  The other side  *)
(* of the line is not part of the repository: its actions are the answers  *)
(* the script's patterns and the comments beside them speak of.            *)
(***************************************************************************)
EXTENDS Naturals, Sequences, SequencesExt

CONSTANTS
  Wires,      \* the probe lines, as they go over the wire
  SudoWires,  \* those that begin with sudo -S
  MaxLate     \* bound on the time-outs of one session

(* What the constants must satisfy, assumed by Channels                   *)
SudoAssumption ==
  /\ SudoWires \subseteq Wires
  /\ {"start serial session", "node user", "node password", "sudo password", "exit"} \cap Wires = {}
  /\ MaxLate \in Nat

(* A console: reached from the rack manager's own shell or by a jump, with *)
(* or without the node's login and the sudo password in the vault.         *)
Setups == [direct : BOOLEAN, login : BOOLEAN, sudo : BOOLEAN]

VARIABLES
  script,      \* the operations expect still has to do
  unread,      \* what was printed and no expect has consumed yet
  transcript,  \* everything printed since the session was started
  typed,       \* lines sent that nobody has read yet
  reader,      \* who reads the next line on the other side
  running,     \* the probe a busy shell runs, or a sudo asks for
  authed,      \* whether sudo remembers the password
  exit,        \* what became of the script: "none", "running", "ok", "failed"
  heard,       \* history: the lines read, each with its reader
  anchored,    \* history: the node's prompt was matched before any probe
  late         \* how many expects have timed out

terminalVars == <<unread, transcript, typed, reader, running, authed, heard>>
dialogueVars == <<script, terminalVars, exit, anchored, late>>

-----------------------------------------------------------------------------
(* What can be printed.  "password for" and "Password:" are one token.     *)

Prompt(who) == <<"prompt", who>>
Status == <<"status", "failed">>
Echo(line) == <<"echo", line>>
Out(wire) == <<"out", wire>>

(* The lines that are not probes. *)
Start == "start serial session"
User == "node user"
NodePassword == "node password"
SudoPassword == "sudo password"
Leave == "exit"
NoLine == ""

Secrets == {NodePassword, SudoPassword}
Lines == Wires \cup Secrets \cup {Start, User, Leave}

-----------------------------------------------------------------------------
(* The script.  An expect has branches, in the order in which they are     *)
(* listed; the first one that matches prepends its own operations.         *)

Send(line) == [op |-> "send", line |-> line, branches |-> <<>>]
Expect(branches) == [op |-> "expect", line |-> NoLine, branches |-> branches]
Exit3 == [op |-> "exit", line |-> NoLine, branches |-> <<>>]

On(token, ops) == [see |-> token, then |-> ops]
Await(token) == Expect(<<On(token, <<>>)>>)

LogIn == <<Send(User), Await(Prompt("password")), Send(NodePassword), Await(Prompt("node"))>>

Opening(setup) ==
  (IF setup.direct THEN <<>> ELSE <<Await(Prompt("rack"))>>)
    \o <<Send(Start),
         Expect(<<On(Status, <<Exit3>>)>>
                  \o (IF setup.login THEN <<On(Prompt("login"), LogIn)>> ELSE <<>>)
                  \o <<On(Prompt("node"), <<>>)>>)>>

FirstSudo(cmds, i) == cmds[i] \in SudoWires /\ \A j \in 1 .. i - 1 : cmds[j] \notin SudoWires

ProbeBlind(setup, cmds, i) ==
  <<Send(cmds[i]), Await(Echo(cmds[i]))>>
    \o (IF setup.sudo /\ FirstSudo(cmds, i) THEN <<Send(SudoPassword)>> ELSE <<>>)
    \o <<Await(Prompt("node"))>>

Probe(setup, cmds, i) ==
  <<Send(cmds[i]), Await(Echo(cmds[i]))>>
    \o (IF setup.sudo /\ FirstSudo(cmds, i)
        THEN <<Expect(<<On(Prompt("password"), <<Send(SudoPassword)>>)>>)>>
        ELSE <<>>)
    \o <<Await(Prompt("node"))>>

Closing(setup) ==
  IF setup.direct
  THEN <<Send(Leave), Send(Leave), Await(<<"end", "of file">>)>>
  ELSE <<Send(Leave), Await(Prompt("rack"))>>

Script(setup, cmds) ==
  Opening(setup)
    \o FlattenSeq([i \in DOMAIN cmds |-> Probe(setup, cmds, i)])
    \o Closing(setup)

-----------------------------------------------------------------------------
Say(tokens) ==
  /\ unread' = unread \o tokens
  /\ transcript' = transcript \o tokens

Unprinted == UNCHANGED <<unread, transcript>>

Fresh ==
  /\ script = <<>> /\ unread = <<>> /\ transcript = <<>> /\ typed = <<>>
  /\ reader = "rack" /\ running = NoLine /\ authed = FALSE /\ exit = "none"
  /\ heard = {} /\ anchored = FALSE /\ late = 0

(* exec_command("/bin/bash"), the script written to its input. *)
Launch(setup, cmds) ==
  LET banner == IF setup.direct THEN <<>> ELSE <<Prompt("rack")>> IN
  /\ script' = Script(setup, cmds)
  /\ unread' = banner /\ transcript' = banner /\ typed' = <<>>
  /\ reader' = "rack" /\ running' = NoLine /\ exit' = "running"
  /\ authed' \in {FALSE, ToSet(cmds) \cap SudoWires # {}}
  /\ heard' = {} /\ anchored' = FALSE /\ late' = 0

-----------------------------------------------------------------------------
(* expect.                                                                 *)

Now == Head(script)
Doing(op) == exit = "running" /\ script # <<>> /\ Now.op = op

(* The branch that matches: expect tries its patterns in the order listed, *)
(* each against everything it has not consumed.                            *)
Matching == SelectInSeq(Now.branches, LAMBDA b : Contains(unread, b.see))

ProbesTyped == \E line \in ToSet(typed) \cup {h[1] : h \in heard} : line \in Wires

(* A line sent to a terminal whose shell is busy is echoed by the terminal *)
(* at once, and a second time by the shell when it reads it.               *)
SendLine ==
  /\ Doing("send")
  /\ reader # "gone"
  /\ typed' = Append(typed, Now.line)
  /\ script' = Tail(script)
  /\ IF reader = "busy" THEN Say(<<Echo(Now.line)>>) ELSE Unprinted
  /\ UNCHANGED <<reader, running, authed, exit, heard, anchored, late>>

(* send: spawn id exp4 not open. *)
SendToNobody ==
  /\ Doing("send")
  /\ reader = "gone"
  /\ exit' = "failed"
  /\ UNCHANGED <<script, terminalVars, anchored, late>>

Match ==
  /\ Doing("expect")
  /\ Matching # 0
  /\ LET branch == Now.branches[Matching]
         at == SelectInSeq(unread, LAMBDA t : t = branch.see)
     IN  /\ unread' = SubSeq(unread, at + 1, Len(unread))
         /\ script' = branch.then \o Tail(script)
         /\ anchored' = (anchored \/ (branch.see = Prompt("node") /\ ~ProbesTyped))
  /\ UNCHANGED <<transcript, typed, reader, running, authed, exit, heard, late>>

(* No pattern within the ten seconds expect gives each by default, or no   *)
(* process left to wait for: the script goes on behind the expect.         *)
GoOn ==
  /\ Doing("expect")
  /\ Matching = 0
  /\ script' = Tail(script)
  /\ \/ reader = "gone" /\ UNCHANGED late
     \/ reader # "gone" /\ late < MaxLate /\ late' = late + 1
  /\ UNCHANGED <<terminalVars, exit, anchored>>

ExitNonZero ==
  /\ Doing("exit")
  /\ exit' = "failed"
  /\ UNCHANGED <<script, terminalVars, anchored, late>>

EndOfScript ==
  /\ exit = "running" /\ script = <<>>
  /\ exit' = "ok"
  /\ UNCHANGED <<script, terminalVars, anchored, late>>

Expecting == SendLine \/ SendToNobody \/ Match \/ GoOn \/ ExitNonZero \/ EndOfScript

-----------------------------------------------------------------------------
(* The other side.                                                         *)

Reads(who) == exit = "running" /\ reader = who /\ typed # <<>>

Hear ==
  /\ typed' = Tail(typed)
  /\ heard' = heard \cup {<<Head(typed), reader>>}

RackReads ==
  /\ Reads("rack")
  /\ Hear
  /\ \/ /\ Head(typed) = Start
        /\ reader' = "starting" /\ Unprinted
     \/ /\ Head(typed) = Leave
        /\ reader' = "gone" /\ Unprinted
     \/ /\ Head(typed) \notin {Start, Leave}
        /\ reader' = reader /\ Say(<<Echo(Head(typed)), Prompt("rack")>>)
  /\ UNCHANGED <<running, authed>>

SessionFails ==
  /\ exit = "running" /\ reader = "starting"
  /\ reader' = "rack"
  /\ Say(<<Status, Prompt("rack")>>)
  /\ UNCHANGED <<typed, running, authed, heard>>

SessionStarts ==
  /\ exit = "running" /\ reader = "starting"
  /\ \E who \in {"node", "login"} : reader' = who /\ Say(<<Prompt(who)>>)
  /\ UNCHANGED <<typed, running, authed, heard>>

LoginReads ==
  /\ Reads("login")
  /\ Hear
  /\ running' = Head(typed)
  /\ reader' = "password"
  /\ Say(<<Echo(Head(typed)), Prompt("password")>>)
  /\ UNCHANGED authed

PasswordReads ==
  /\ Reads("password")
  /\ Hear
  /\ running' = NoLine
  /\ \E who \in (IF running = User /\ Head(typed) = NodePassword THEN {"node"} ELSE {}) \cup {"login"} :
       reader' = who /\ Say(<<Prompt(who)>>)
  /\ UNCHANGED authed

ShellReads ==
  LET line == Head(typed) IN
  /\ Reads("node")
  /\ Hear
  /\ \/ /\ line = Leave
        /\ reader' = "rack"
        /\ Say(<<Echo(line), Prompt("rack")>>)
        /\ UNCHANGED running
     \/ /\ line \notin Wires \cup {Leave}
        /\ Say(<<Echo(line), Prompt("node")>>)
        /\ UNCHANGED <<reader, running>>
     \/ /\ line \in SudoWires /\ ~authed
        /\ reader' = "sudo" /\ running' = line
        /\ Say(<<Echo(line), Prompt("password")>>)
     \/ /\ line \in Wires /\ (line \in SudoWires => authed)
        /\ reader' = "busy" /\ running' = line
        /\ Say(<<Echo(line)>>)
  /\ UNCHANGED authed

(* A wrong password: sudo asks again, or gives up. *)
SudoReads ==
  /\ Reads("sudo")
  /\ Hear
  /\ \/ /\ Head(typed) = SudoPassword
        /\ authed' = TRUE /\ reader' = "busy"
        /\ UNCHANGED running /\ Unprinted
     \/ /\ Head(typed) # SudoPassword
        /\ Say(<<Prompt("password")>>)
        /\ UNCHANGED <<reader, running, authed>>
     \/ /\ Head(typed) # SudoPassword
        /\ reader' = "node" /\ running' = NoLine
        /\ Say(<<Prompt("node")>>)
        /\ UNCHANGED authed

ProbeEnds ==
  /\ exit = "running" /\ reader = "busy"
  /\ reader' = "node" /\ running' = NoLine
  /\ Say(<<Out(running), Prompt("node")>>)
  /\ UNCHANGED <<typed, authed, heard>>

SessionDrops ==
  /\ exit = "running" /\ reader # "gone"
  /\ reader' = "gone"
  /\ UNCHANGED <<unread, transcript, typed, running, authed, heard>>

Answering ==
  /\ \/ RackReads \/ SessionFails \/ SessionStarts \/ LoginReads \/ PasswordReads
     \/ ShellReads \/ SudoReads \/ ProbeEnds \/ SessionDrops
  /\ UNCHANGED <<script, exit, anchored, late>>

Dialogue == Expecting \/ Answering

-----------------------------------------------------------------------------
DialogueTypeOK ==
  /\ exit \in {"none", "running", "ok", "failed"}
  /\ \A i \in DOMAIN script : script[i].op \in {"send", "expect", "exit"}
  /\ \A i \in DOMAIN typed : typed[i] \in Lines
  /\ reader \in {"rack", "starting", "login", "password", "node", "sudo", "busy", "gone"}
  /\ running \in Lines \cup {NoLine}
  /\ authed \in BOOLEAN /\ anchored \in BOOLEAN /\ late \in 0 .. MaxLate

(* Once the script has matched the node's prompt, whatever times out later *)
(* and however slow a probe is: probes are read by the node's shell or a   *)
(* sudo, never by the rack manager or a login, and each password only by   *)
(* the prompt it belongs to (the anchors of render_expect_script).         *)
SpokenToTheNode ==
  anchored => \A h \in heard :
    /\ h[1] \in Wires => h[2] \in {"node", "sudo"}
    /\ h[1] = SudoPassword => h[2] = "sudo"
    /\ h[1] = NodePassword => h[2] = "password"

(* What render_expect_script says of a session that cannot be started: no  *)
(* probe and no sudo password reaches the rack manager.                    *)
StatusStopsScript ==
  \A h \in heard : h[2] = "rack" => h[1] \notin Wires \cup {SudoPassword}
=============================================================================
