---------------------------- MODULE ConsoleProofs ----------------------------
(***************************************************************************)
(* Proofs about the serial console (Console over ExpectSession), for any   *)
(* services, probes and their parts, numbers of attempts and what the      *)
(* other side answers or fails to.                                         *)
(*                                                                         *)
(* A session no expect of which timed out is Told: in its opening nothing  *)
(* of a probe is printed, then the transcript tells the probes typed so    *)
(* far; or it is lost, and does not come to the end of its script.         *)
(*                                                                         *)
(* The runners.  Which command each record is of, and that none is typed   *)
(* again that has a good record, follow from what a call has still to ask  *)
(* and from whom (RunnerInv); that each answer is right and at the place   *)
(* of its command, from where a service's share of the call is (ReplyInv). *)
(***************************************************************************)
EXTENDS ExpectProofs

-----------------------------------------------------------------------------
(* A script no expect of which times out, and what it is waiting for.      *)

\* The counter of time-outs does not fall.
LEMMA LateGrows ==
  ASSUME late \in Nat, Serial!Dialogue PROVE late' \in Nat /\ (late' = 0 => late = 0)
<1>1. late' = late \/ late' = late + 1
  <2>1. CASE Serial!Answering
    BY <2>1 DEF Serial!Answering
  <2>2. CASE Serial!SendLine \/ Serial!SendToNobody \/ Serial!Match
    BY <2>2 DEF Serial!SendLine, Serial!SendToNobody, Serial!Match
  <2>3. CASE Serial!GoOn
    BY <2>3 DEF Serial!GoOn
  <2>4. CASE Serial!ExitNonZero \/ Serial!EndOfScript
    BY <2>4 DEF Serial!ExitNonZero, Serial!EndOfScript
  <2> QED
    BY <2>1, <2>2, <2>3, <2>4 DEF Serial!Dialogue, Serial!Expecting
<1> QED
  BY <1>1

\* An expect that does not time out matches.
LEMMA TimelyMatch ==
  ASSUME Head(script).op = "expect", script # <<>>, Serial!Expecting, reader # "gone",
         late \in Nat, late' = 0
  PROVE  Serial!Match /\ UNCHANGED <<transcript, exit>>
<1>1. Serial!Match
  BY DEF Serial!Expecting, Serial!SendLine, Serial!SendToNobody,
     Serial!GoOn, Serial!ExitNonZero, Serial!EndOfScript, Serial!Doing, Serial!Now
<1> QED
  BY <1>1 DEF Serial!Match

\* It matches the one token it waits for.
LEMMA TimelyAwait ==
  ASSUME Types, NEW t, Begins(script, Serial!Await(t)), Serial!Expecting, reader # "gone",
         late \in Nat, late' = 0
  PROVE  /\ Types' /\ UNCHANGED <<typed, reader, running, heard, transcript, exit>>
         /\ script' = Tail(script) /\ In(unread, t) /\ Consumed
         /\ Final(unread, t) => unread' = <<>>
         /\ anchored' <=> (anchored \/ (t = NodePrompt /\ ~Serial!ProbesTyped))
<1>1. Head(script) = Serial!Await(t) /\ script \in Seq(AnyOps) /\ script # <<>>
  BY DEF Begins
<1>2. /\ Head(script).op = "expect"
      /\ Head(script).branches = <<[see |-> t, then |-> <<>>]>>
  BY <1>1, OpsApart
<1>3. Serial!Match /\ UNCHANGED <<transcript, exit>>
  BY <1>1, <1>2, TimelyMatch
<1>4. unread \in Seq(Printable)
  BY DEF Types
<1>5. Taken([see |-> t, then |-> <<>>])
  BY <1>2, <1>3, <1>4, MatchedOne
<1>6. <<>> \o Tail(script) = Tail(script)
  BY <1>1, OpDone
<1> QED
  BY <1>3, <1>5, <1>6 DEF Taken, Consumed, Types

\* A line is typed to who is there and not busy.
LEMMA TimelySend ==
  ASSUME Types, NEW l \in Serial!Lines, Begins(script, Serial!Send(l)), Serial!Expecting,
         reader \notin {"gone", "busy"}
  PROVE  /\ Types' /\ script' = Tail(script) /\ typed' = Append(typed, l)
         /\ UNCHANGED <<reader, running, heard, anchored, unread, transcript, exit>>
<1>1. Head(script).op = "send" /\ Head(script).line = l /\ script # <<>>
  BY OpsApart DEF Begins
<1>2. Serial!SendLine
  BY <1>1 DEF Serial!Expecting, Serial!SendToNobody, Serial!Match,
     Serial!GoOn, Serial!ExitNonZero, Serial!EndOfScript, Serial!Doing, Serial!Now
<1>3. /\ script' = Tail(script) /\ typed' = Append(typed, l)
      /\ UNCHANGED <<reader, running, heard, anchored, unread, transcript, exit>>
  BY <1>1, <1>2 DEF Serial!SendLine, Serial!Now, Serial!Unprinted
<1>4. typed' \in Seq(Serial!Lines)
  BY <1>3 DEF Types
<1> QED
  BY <1>3, <1>4 DEF Types

(* The opening, with the rest r of the script behind it.                   *)
Opened(r) ==
  /\ ~anchored /\ Plain(transcript)
  /\ \/ /\ RackPhase
        /\ \/ AtRack(script) /\ Tail(Tail(Tail(script))) = r
           \/ AtStart(script) /\ Tail(Tail(script)) = r
     \/ StartPhase /\ Tail(script) = r
     \/ UserPhase /\ Tail(Tail(Tail(Tail(script)))) = r
     \/ /\ AskedPhase
        /\ \/ AtAsked(script) /\ Tail(Tail(Tail(script))) = r
           \/ AtSecret(script) /\ Tail(Tail(script)) = r
     \/ NodePhase /\ Tail(script) = r

\* The node's prompt is matched, and nothing was said that is not read.
Stood(r) ==
  /\ script' = r /\ typed' = <<>> /\ unread' = <<>> /\ reader' = "node" /\ anchored'
  /\ Plain(transcript')

\* Whoever answers, the opening is where it was.
LEMMA OpenedAnswered ==
  ASSUME Types, transcript \in Seq(Printable), NEW r, Opened(r), Serial!Answering
  PROVE  Opened(r)' /\ transcript' \in Seq(Printable)
<1>1. Answers /\ Types' /\ UNCHANGED <<script, anchored, exit>>
  BY Answered
<1>2. reader \notin {"busy", "sudo"} /\ (typed # <<>> => Head(typed) \notin Wires)
  BY OneLine, WiresAreNoWords DEF Opened, RackPhase, StartPhase, UserPhase, AskedPhase, NodePhase
<1>3. Plain(transcript') /\ transcript' \in Seq(Printable)
  BY <1>2, Quietly, QuietKeeps DEF Opened
<1>4. /\ RackPhase => RackPhase'
      /\ StartPhase => StartPhase'
      /\ UserPhase => UserPhase'
      /\ AskedPhase => AskedPhase'
      /\ NodePhase => NodePhase'
  BY <1>1, RackAnswered, SessionAnswered, UserAnswered, AskedAnswered, NodeAnswered
<1> QED
  BY <1>1, <1>3, <1>4 DEF Opened

\* The rack's prompt is matched, then the session started.
LEMMA RackOn ==
  ASSUME Types, NEW r, Opened(r), RackPhase, ~anchored, Serial!Expecting, reader # "gone",
         late \in Nat, late' = 0,
         \/ AtRack(script) /\ Tail(Tail(Tail(script))) = r
         \/ AtStart(script) /\ Tail(Tail(script)) = r
  PROVE  Opened(r)'
<1>1. heard = {} /\ typed = <<>> /\ reader = "rack"
      /\ \A t \in Prompts : ~In(unread, t)
  BY DEF RackPhase, Prompts
<1>2. CASE AtRack(script) /\ Tail(Tail(Tail(script))) = r
  <2>1. Begins(script, Serial!Await(Serial!Prompt("rack"))) /\ AtStart(Tail(script))
    BY <1>2 DEF AtRack
  <2>2. Serial!Prompt("rack") # NodePrompt
    BY Printables
  <2>3. /\ UNCHANGED <<typed, reader, heard, transcript>>
        /\ \A u : In(unread', u) => In(unread, u)
        /\ script' = Tail(script) /\ ~anchored'
    BY <2>1, <2>2, TimelyAwait DEF Consumed
  <2>4. RackPhase'
    BY <1>1, <2>1, <2>3 DEF RackPhase, Prompts
  <2> QED
    BY <1>2, <2>1, <2>3, <2>4 DEF Opened
<1>3. CASE AtStart(script) /\ Tail(Tail(script)) = r
  <2>1. Begins(script, Serial!Send(Serial!Start)) /\ AtSession(Tail(script))
    BY <1>3 DEF AtStart
  <2>2. /\ script' = Tail(script) /\ typed' = Append(typed, Serial!Start)
        /\ UNCHANGED <<reader, heard, anchored, unread, transcript>>
    BY <1>1, <2>1, LinesAre, TimelySend
  <2>3. typed' = <<Serial!Start>>
    BY <1>1, <2>2
  <2>4. \A t \in Prompts : Final(unread', t)
    BY <1>1, <2>2 DEF Final, In
  <2>5. StartPhase'
    BY <1>1, <2>1, <2>2, <2>3, <2>4 DEF StartPhase, Prompts
  <2> QED
    BY <1>3, <2>2, <2>5 DEF Opened
<1> QED
  BY <1>2, <1>3

\* The started session answers.
LEMMA SessionOn ==
  ASSUME Types, NEW r, Opened(r), StartPhase, Tail(script) = r, ~anchored, Serial!Expecting,
         reader # "gone", late \in Nat, late' = 0
  PROVE  Opened(r)' \/ AtExit(script') \/ Stood(r)
<1>1. /\ AtSession(script) /\ heard \subseteq {<<Serial!Start, "rack">>}
      /\ \/ typed = <<>>
         \/ ~In(unread, NodePrompt) /\ ~In(unread, LoginPrompt)
      /\ In(unread, NodePrompt) => reader = "node"
      /\ In(unread, LoginPrompt) => reader = "login"
      /\ Final(unread, NodePrompt) /\ Final(unread, LoginPrompt)
  BY DEF StartPhase
<1>2. /\ script \in Seq(AnyOps) /\ script # <<>> /\ Head(script) \in Starters
      /\ Untouched(Tail(script))
  BY <1>1 DEF AtSession
<1>3. Head(script).branches \in Seq(StartBranches) /\ Head(script).op = "expect"
  BY <1>2, StarterBranches
<1>4. Serial!Match /\ UNCHANGED transcript
  BY <1>2, <1>3, TimelyMatch
<1>h. heard \subseteq HeardOpening
  BY <1>1 DEF HeardOpening
<1>5. unread \in Seq(Printable)
  BY DEF Types
<1>6. PICK b \in StartBranches : Taken(b)
  BY <1>3, <1>4, <1>5, Matched
<1>7. /\ In(unread, b.see)
      /\ Final(unread, b.see) => unread' = <<>>
      /\ script' = b.then \o Tail(script)
      /\ anchored' <=> (b.see = NodePrompt /\ ~Serial!ProbesTyped)
      /\ UNCHANGED <<typed, reader, running, heard>>
  BY <1>6 DEF Taken
<1>8. Plain(transcript')
  BY <1>4 DEF Opened
<1>9. CASE b = Serial!On(Serial!Status, <<Serial!Exit3>>)
  <2>1. b.then = <<Serial!Exit3>>
    BY <1>9 DEF Serial!On
  <2>2. Serial!Exit3 \in AnyOps /\ Tail(script) \in Seq(AnyOps)
    BY <1>2, OpDone DEF AnyOps
  <2>3. Begins(script', Serial!Exit3)
    BY <1>7, <2>1, <2>2, Prepended DEF Begins
  <2> QED
    BY <2>3 DEF AtExit
<1>10. CASE b = Serial!On(LoginPrompt, Serial!LogIn)
  <2>1. b.see = LoginPrompt /\ b.then = Serial!LogIn
    BY <1>10 DEF Serial!On
  <2>2. ~anchored'
    BY <1>7, <2>1, Printables
  <2>3. AtUser(script') /\ Tail(Tail(Tail(Tail(script')))) = r
    BY <1>2, <1>7, <2>1, LogInOpens
  <2>4. typed' = <<>> /\ unread' = <<>> /\ reader' = "login"
    BY <1>1, <1>7, <2>1
  <2>5. UserPhase'
    BY <1>h, <1>7, <2>3, <2>4 DEF UserPhase
  <2> QED
    BY <1>8, <2>2, <2>3, <2>5 DEF Opened
<1>11. CASE b = Serial!On(NodePrompt, <<>>)
  <2>1. b.see = NodePrompt /\ b.then = <<>>
    BY <1>11 DEF Serial!On
  <2>2. script' = r
    BY <1>2, <1>7, <2>1, OpDone
  <2>3. typed' = <<>> /\ unread' = <<>> /\ reader' = "node" /\ typed = <<>>
    BY <1>1, <1>7, <2>1
  <2>4. anchored'
    BY <1>h, <1>7, <2>1, <2>3, NoProbeYet
  <2> QED
    BY <1>8, <2>2, <2>3, <2>4 DEF Stood
<1> QED
  BY <1>9, <1>10, <1>11 DEF StartBranches

\* User and password are typed to the prompts that ask for them.
LEMMA LoginOn ==
  ASSUME Types, NEW r, Opened(r), ~anchored, Serial!Expecting, reader # "gone",
         late \in Nat, late' = 0,
         \/ UserPhase /\ Tail(Tail(Tail(Tail(script)))) = r
         \/ AskedPhase /\ AtAsked(script) /\ Tail(Tail(Tail(script))) = r
         \/ AskedPhase /\ AtSecret(script) /\ Tail(Tail(script)) = r
  PROVE  Opened(r)'
<1>0. Plain(transcript)
  BY DEF Opened
<1>1. CASE UserPhase /\ Tail(Tail(Tail(Tail(script)))) = r
  <2>1. /\ heard \subseteq HeardOpening /\ typed = <<>> /\ reader = "login"
        /\ unread = <<>> /\ AtUser(script)
    BY <1>1 DEF UserPhase
  <2>2. Begins(script, Serial!Send(Serial!User)) /\ AtAsked(Tail(script))
    BY <2>1 DEF AtUser
  <2>3. /\ script' = Tail(script) /\ typed' = Append(typed, Serial!User)
        /\ UNCHANGED <<reader, heard, anchored, unread, transcript>>
    BY <2>1, <2>2, LinesAre, TimelySend
  <2>4. typed' = <<Serial!User>>
    BY <2>1, <2>3
  <2>5. ~In(unread', NodePrompt)
    BY <2>1, <2>3, OneOrTwo
  <2>6. AskedPhase'
    BY <2>1, <2>2, <2>3, <2>4, <2>5 DEF AskedPhase
  <2> QED
    BY <1>0, <1>1, <2>2, <2>3, <2>6 DEF Opened
<1>2. CASE AskedPhase /\ AtAsked(script) /\ Tail(Tail(Tail(script))) = r
  <2>1. Begins(script, Serial!Await(PasswordPrompt)) /\ AtSecret(Tail(script))
    BY <1>2 DEF AtAsked
  <2>2. PasswordPrompt # NodePrompt
    BY Printables
  <2>3. /\ UNCHANGED <<typed, reader, running, heard, transcript>>
        /\ \A u : In(unread', u) => In(unread, u)
        /\ script' = Tail(script) /\ ~anchored'
    BY <2>1, <2>2, TimelyAwait DEF Consumed
  <2>4. AskedPhase'
    BY <1>2, <2>1, <2>3 DEF AskedPhase
  <2> QED
    BY <1>0, <1>2, <2>1, <2>3, <2>4 DEF Opened
<1>3. CASE AskedPhase /\ AtSecret(script) /\ Tail(Tail(script)) = r
  <2>1. Begins(script, Serial!Send(Serial!NodePassword)) /\ AtNode(Tail(script))
    BY <1>3 DEF AtSecret
  <2>2. /\ heard \subseteq HeardOpening /\ ~In(unread, NodePrompt)
        /\ \/ typed = <<Serial!User>> /\ reader = "login"
           \/ typed = <<>> /\ reader = "password" /\ running = Serial!User
    BY <1>3 DEF AskedPhase
  <2>3. /\ script' = Tail(script) /\ typed' = Append(typed, Serial!NodePassword)
        /\ UNCHANGED <<reader, running, heard, anchored, unread, transcript>>
    BY <2>1, <2>2, LinesAre, TimelySend
  <2>4. \/ typed' = <<Serial!User, Serial!NodePassword>> /\ reader' = "login"
        \/ /\ typed' = <<Serial!NodePassword>> /\ reader' = "password"
           /\ running' = Serial!User
    <3>1. CASE typed = <<Serial!User>> /\ reader = "login"
      <4>1. typed' = Append(<<Serial!User>>, Serial!NodePassword)
        BY <2>3, <3>1
      <4>2. typed' = <<Serial!User, Serial!NodePassword>>
        BY <4>1, SecondOf
      <4> QED
        BY <2>3, <3>1, <4>2
    <3>2. CASE typed = <<>> /\ reader = "password" /\ running = Serial!User
      <4>1. typed' = <<Serial!NodePassword>>
        BY <2>3, <3>2
      <4> QED
        BY <2>3, <3>2, <4>1
    <3> QED
      BY <2>2, <3>1, <3>2
  <2>5. ~In(unread', NodePrompt) /\ Final(unread', NodePrompt)
    BY <2>2, <2>3 DEF In, Final
  <2>6. NodePhase'
    BY <2>1, <2>2, <2>3, <2>4, <2>5 DEF NodePhase
  <2> QED
    BY <1>0, <1>3, <2>3, <2>6 DEF Opened
<1> QED
  BY <1>1, <1>2, <1>3

\* The node lets in.
LEMMA NodeOn ==
  ASSUME Types, NEW r, Opened(r), ~anchored, NodePhase, Tail(script) = r, Serial!Expecting,
         reader # "gone", late \in Nat, late' = 0
  PROVE  Stood(r)
<1>1. /\ AtNode(script) /\ heard \subseteq HeardOpening /\ Final(unread, NodePrompt)
      /\ In(unread, NodePrompt) => typed = <<>> /\ reader = "node"
  BY DEF NodePhase
<1>2. Begins(script, Serial!Await(NodePrompt))
  BY <1>1 DEF AtNode
<1>3. /\ UNCHANGED <<typed, reader, heard, transcript>>
      /\ script' = Tail(script) /\ In(unread, NodePrompt) /\ unread' = <<>>
      /\ anchored' <=> (anchored \/ ~Serial!ProbesTyped)
  BY <1>1, <1>2, TimelyAwait
<1>4. anchored'
  BY <1>1, <1>3, NoProbeYet
<1> QED
  BY <1>1, <1>3, <1>4 DEF Opened, Stood

\* The opening comes to the node's prompt, or to its exit.
LEMMA OpenedExpects ==
  ASSUME Types, transcript \in Seq(Printable), NEW r, Opened(r), Serial!Expecting,
         reader # "gone", late \in Nat, late' = 0
  PROVE  Opened(r)' \/ AtExit(script') \/ Stood(r)
BY RackOn, SessionOn, LoginOn, NodeOn DEF Opened

-----------------------------------------------------------------------------
(* A probe, from its line typed to the node's prompt behind its output.    *)

\* Before the node's prompt is matched.
Asking(s, r, w) == AtEcho(s, r, w) \/ AtSudo(s, r) \/ AtPrompt(s, r)

\* The probe is typed, runs or waits for its password, is let in, has ended.
Put(b, r, k) ==
  /\ typed = <<b[k + 1]>> /\ reader = "node" /\ unread = <<>>
  /\ AtEcho(script, r, b[k + 1]) /\ Tells(transcript, b, k, k)
Runs(b, r, k) ==
  /\ typed = <<>> /\ reader \in {"busy", "sudo"} /\ running = b[k + 1]
  /\ ~In(unread, NodePrompt)
  /\ Asking(script, r, b[k + 1]) \/ (AtPassword(script, r) /\ reader = "sudo")
  /\ Tells(transcript, b, k + 1, k)
LetIn(b, r, k) ==
  /\ typed = <<Serial!SudoPassword>> /\ reader = "sudo" /\ running = b[k + 1]
  /\ ~In(unread, NodePrompt) /\ AtPrompt(script, r) /\ Tells(transcript, b, k + 1, k)
Ended(b, r, k) ==
  /\ typed = <<>> /\ reader = "node" /\ Final(unread, NodePrompt)
  /\ Asking(script, r, b[k + 1]) /\ Tells(transcript, b, k + 1, k + 1)
Asks(b, r, k) == anchored /\ (Put(b, r, k) \/ Runs(b, r, k) \/ LetIn(b, r, k) \/ Ended(b, r, k))

\* k probes have printed what they have to print, and s is what is left.
Ready(b, s, k) ==
  /\ anchored /\ script = s /\ typed = <<>> /\ unread = <<>> /\ reader = "node"
  /\ Tells(transcript, b, k, k)

\* Nobody reads a line at a prompt to which none was typed.
LEMMA OnlyDrops ==
  ASSUME Types, Serial!Answering, typed = <<>>, reader \notin {"busy", "starting"}
  PROVE  reader' = "gone" /\ transcript' = transcript /\ script' = script /\ exit' = exit
BY DEF Serial!Answering, Serial!RackReads, Serial!SessionFails, Serial!SessionStarts,
   Serial!LoginReads, Serial!PasswordReads, Serial!ShellReads, Serial!SudoReads,
   Serial!ProbeEnds, Serial!SessionDrops, Serial!Reads

\* A probe that was typed is read by the node's shell.
LEMMA PutAnswered ==
  ASSUME Types, transcript \in Seq(Printable), NEW b \in Seq(Wires), NEW k \in Nat,
         k + 1 \in 1..Len(b), NEW r, Put(b, r, k), Serial!Answering
  PROVE  transcript' \in Seq(Printable) /\ (Runs(b, r, k)' \/ reader' = "gone")
<1> DEFINE w == b[k + 1]
<1>1. w \in Wires /\ w \in Serial!Lines /\ Serial!Echo(w) \in Printable
  <2>1. w \in Wires
    OBVIOUS
  <2> HIDE DEF w
  <2>2. w \in Serial!Lines
    BY <2>1, LinesAre
  <2> QED
    BY <2>1, <2>2, Tokens
<1> HIDE DEF w
<1>2. /\ typed = <<w>> /\ reader = "node" /\ unread = <<>>
      /\ AtEcho(script, r, w) /\ Tells(transcript, b, k, k)
  BY DEF Put, w
<1>3. typed # <<>> /\ Head(typed) = w /\ Tail(typed) = <<>>
  BY <1>2, OneLine
<1>4. Serial!ShellReads \/ Serial!SessionDrops
  BY <1>2 DEF Serial!Answering, Serial!RackReads, Serial!SessionFails, Serial!SessionStarts,
     Serial!LoginReads, Serial!PasswordReads, Serial!SudoReads, Serial!ProbeEnds, Serial!Reads
<1>5. CASE Serial!SessionDrops
  BY <1>5 DEF Serial!SessionDrops
<1>6. CASE Serial!ShellReads
  <2>1. /\ typed' = <<>> /\ script' = script /\ running' = w
        /\ \/ reader' = "sudo" /\ Serial!Say(<<Serial!Echo(w), PasswordPrompt>>)
           \/ reader' = "busy" /\ Serial!Say(<<Serial!Echo(w)>>)
    <3>1. typed' = <<>> /\ script' = script
      BY <1>3, <1>6 DEF Serial!ShellReads, Serial!Hear, Serial!Answering
    <3>2. w # Serial!Leave
      BY <1>1, WiresAreNoWords
    <3> QED
      BY <1>1, <1>3, <1>6, <3>1, <3>2 DEF Serial!ShellReads, PasswordPrompt
  <2>2. ~In(unread, NodePrompt) /\ NodePrompt \in Prompts /\ PasswordPrompt # NodePrompt
        /\ PasswordPrompt \in Printable
    BY <1>2, OneOrTwo, Printables, Tokens DEF Prompts
  <2>3. Tells(Append(transcript, Serial!Echo(w)), b, k + 1, k)
        /\ Append(transcript, Serial!Echo(w)) \in Seq(Printable)
    <3>1. Tells(Append(transcript, Serial!Echo(w)), b, k + 1, k)
      BY <1>1, <1>2, TellsEcho DEF w
    <3> QED
      BY <1>1, <3>1, AppendProperties
  <2>4. transcript' \in Seq(Printable) /\ Tells(transcript', b, k + 1, k) /\ ~In(unread', NodePrompt)
    <3>1. CASE Serial!Say(<<Serial!Echo(w), PasswordPrompt>>)
      <4> DEFINE q == Append(transcript, Serial!Echo(w))
      <4>1. transcript' = Append(q, PasswordPrompt)
        BY <1>1, <2>2, <3>1, Uttered DEF Serial!Say
      <4>2. q \in Seq(Printable) /\ Tells(q, b, k + 1, k) /\ ~Mark(PasswordPrompt)
        BY <2>3, Unmarked DEF PasswordPrompt
      <4> HIDE DEF q
      <4>3. k + 1 \in Nat /\ k <= k + 1
        OBVIOUS
      <4>4. Tells(Append(q, PasswordPrompt), b, k + 1, k)
        BY <2>2, <4>2, <4>3, TellsMore
      <4>5. Append(q, PasswordPrompt) \in Seq(Printable)
        BY <2>2, <4>2, AppendProperties
      <4>6. Prints({PasswordPrompt})
        BY <1>1, <2>2, <3>1, Tokens, PrintsTwo
      <4> QED
        BY <2>2, <4>1, <4>4, <4>5, <4>6 DEF Prints
    <3>2. CASE Serial!Say(<<Serial!Echo(w)>>)
      <4>1. transcript' = Append(transcript, Serial!Echo(w))
        BY <1>1, <3>2, Uttered DEF Serial!Say
      <4>2. Prints({Serial!Echo(w)}) /\ Serial!Echo(w) # NodePrompt
        BY <1>1, <3>2, Tokens, PrintsOne DEF Prompts
      <4> QED
        BY <2>2, <2>3, <4>1, <4>2 DEF Prints
    <3> QED
      BY <2>1, <3>1, <3>2
  <2>5. Runs(b, r, k)'
    BY <1>2, <2>1, <2>4 DEF Runs, Asking, w
  <2> QED
    BY <2>4, <2>5
<1> QED
  BY <1>4, <1>5, <1>6

\* A probe that runs ends, a sudo waits.
LEMMA RunsAnswered ==
  ASSUME Types, transcript \in Seq(Printable), NEW b \in Seq(Wires), NEW k \in Nat,
         k + 1 \in 1..Len(b), NEW r, Runs(b, r, k), Serial!Answering
  PROVE  transcript' \in Seq(Printable) /\ (Ended(b, r, k)' \/ reader' = "gone")
<1> DEFINE w == b[k + 1]
<1>1. w \in Wires /\ w \in Serial!Lines /\ Serial!Out(w) \in Printable /\ NodePrompt \in Printable
      /\ Serial!Out(w) \notin Prompts /\ NodePrompt \in Prompts
  BY LinesAre, Tokens DEF Prompts
<1> HIDE DEF w
<1>2. /\ typed = <<>> /\ reader \in {"busy", "sudo"} /\ running = w
      /\ ~In(unread, NodePrompt) /\ Tells(transcript, b, k + 1, k)
      /\ Asking(script, r, w) \/ reader = "sudo"
  BY DEF Runs, w
<1>3. CASE reader # "busy"
  BY <1>2, <1>3, OnlyDrops
<1>4. CASE reader = "busy" /\ Serial!SessionDrops
  BY <1>4 DEF Serial!SessionDrops
<1>5. CASE reader = "busy" /\ Serial!ProbeEnds
  <2>1. /\ reader' = "node" /\ typed' = typed /\ script' = script
        /\ Serial!Say(<<Serial!Out(w), NodePrompt>>)
    BY <1>2, <1>5 DEF Serial!ProbeEnds, Serial!Answering, NodePrompt
  <2> DEFINE q == Append(transcript, Serial!Out(w))
  <2>2. transcript' = Append(q, NodePrompt)
    BY <1>1, <2>1, Uttered DEF Serial!Say
  <2>3. q \in Seq(Printable) /\ Tells(q, b, k + 1, k + 1) /\ ~Mark(NodePrompt)
    <3>1. Tells(q, b, k + 1, k + 1)
      BY <1>1, <1>2, TellsOut DEF w
    <3>2. q \in Seq(Printable)
      BY <1>1, AppendProperties
    <3> QED
      BY <3>1, <3>2, Unmarked DEF NodePrompt
  <2> HIDE DEF q
  <2>4. k + 1 \in Nat /\ k + 1 <= k + 1
    OBVIOUS
  <2>5. Tells(Append(q, NodePrompt), b, k + 1, k + 1)
    BY <1>1, <2>3, <2>4, TellsMore
  <2>6. Append(q, NodePrompt) \in Seq(Printable)
    BY <1>1, <2>3, AppendProperties
  <2>7. Final(unread', NodePrompt)
    <3>1. Prints({NodePrompt})
      BY <1>1, <2>1, PrintsTwo
    <3> QED
      BY <1>1, <1>2, <3>1 DEF Prints
  <2>8. Ended(b, r, k)'
    BY <1>2, <1>5, <2>1, <2>2, <2>5, <2>7 DEF Ended, w
  <2> QED
    BY <2>2, <2>6, <2>8
<1> QED
  BY <1>2, <1>3, <1>4, <1>5 DEF Serial!Answering, Serial!RackReads, Serial!SessionFails,
     Serial!SessionStarts, Serial!LoginReads, Serial!PasswordReads, Serial!ShellReads,
     Serial!SudoReads, Serial!Reads

\* A sudo that gets its password runs the probe.
LEMMA LetInAnswered ==
  ASSUME Types, transcript \in Seq(Printable), NEW b \in Seq(Wires), NEW k \in Nat,
         k + 1 \in 1..Len(b), NEW r, LetIn(b, r, k), Serial!Answering
  PROVE  transcript' \in Seq(Printable) /\ (Runs(b, r, k)' \/ reader' = "gone")
<1>1. /\ typed = <<Serial!SudoPassword>> /\ reader = "sudo" /\ running = b[k + 1]
      /\ ~In(unread, NodePrompt) /\ AtPrompt(script, r) /\ Tells(transcript, b, k + 1, k)
  BY DEF LetIn
<1>2. typed # <<>> /\ Head(typed) = Serial!SudoPassword /\ Tail(typed) = <<>>
  BY <1>1, OneLine
<1>3. Serial!SudoReads \/ Serial!SessionDrops
  BY <1>1 DEF Serial!Answering, Serial!RackReads, Serial!SessionFails, Serial!SessionStarts,
     Serial!LoginReads, Serial!PasswordReads, Serial!ShellReads, Serial!ProbeEnds, Serial!Reads
<1>4. CASE Serial!SessionDrops
  BY <1>4 DEF Serial!SessionDrops
<1>5. CASE Serial!SudoReads
  <2>1. /\ typed' = <<>> /\ reader' = "busy" /\ running' = running
        /\ UNCHANGED <<unread, transcript>>
    BY <1>2, <1>5 DEF Serial!SudoReads, Serial!Hear, Serial!Unprinted
  <2>2. script' = script
    BY DEF Serial!Answering
  <2>3. Runs(b, r, k)'
    BY <1>1, <2>1, <2>2 DEF Runs, Asking
  <2> QED
    BY <2>1, <2>3
<1> QED
  BY <1>3, <1>4, <1>5

\* Whoever answers a probe, the transcript tells it.
LEMMA AskAnswered ==
  ASSUME Types, transcript \in Seq(Printable), NEW b \in Seq(Wires), NEW k \in Nat,
         k + 1 \in 1..Len(b), NEW r, Asks(b, r, k), Serial!Answering
  PROVE  transcript' \in Seq(Printable) /\ (Asks(b, r, k)' \/ reader' = "gone")
<1>1. anchored' = anchored
  BY DEF Serial!Answering
<1>2. CASE Ended(b, r, k)
  BY <1>2, OnlyDrops DEF Ended
<1> QED
  BY <1>1, <1>2, PutAnswered, RunsAnswered, LetInAnswered DEF Asks

\* A script whose next is the password of a sudo stands before one.
LEMMA SudoWaits ==
  ASSUME Anchored', Begins(script', SendSudoPassword) PROVE reader' \in {"sudo", "gone"}
<1>1. SudoNext' \/ Proceeds'
  BY DEF Anchored
<1>2. ~Proceeds'
  <2> SUFFICES ASSUME script' \in Seq(RestOps) PROVE FALSE
    BY DEF Proceeds, Ordered
  <2>1. script' # <<>> /\ Head(script') = SendSudoPassword
    BY DEF Begins
  <2>2. Head(script') \in RestOps
    <3> HIDE DEF RestOps
    <3> QED
      BY <2>1
  <2>3. SendSudoPassword \notin Awaits /\ SendSudoPassword # AwaitSudo
    BY OpsApart DEF SendSudoPassword
  <2>4. PICK l \in Wires \cup {Serial!Leave} : SendSudoPassword = Serial!Send(l)
    BY <2>1, <2>2, <2>3 DEF RestOps, CloseOps, WireSends
  <2>5. l = Serial!SudoPassword
    BY <2>4, LineOfSend DEF SendSudoPassword
  <2> QED
    BY <2>4, <2>5, WiresAreNoWords DEF Serial!Leave, Serial!SudoPassword
<1> QED
  BY <1>1, <1>2 DEF SudoNext

\* A script that has come to a probe has something left to type.
LEMMA AtSends ==
  ASSUME NEW s, NEW r \in Seq(AnyOps), HasSend(r), NEW w,
         Asking(s, r, w) \/ AtPassword(s, r) \/ AtProbe(s, r, w)
  PROVE  s \in Seq(AnyOps) /\ s # <<>> /\ HasSend(s)
<1>1. ASSUME NEW q, NEW op, Begins(q, op), HasSend(Tail(q))
      PROVE  q \in Seq(AnyOps) /\ q # <<>> /\ HasSend(q)
  BY <1>1, SendLeft DEF Begins
<1>2. \A q : AtPrompt(q, r) => q \in Seq(AnyOps) /\ q # <<>> /\ HasSend(q)
  BY <1>1 DEF AtPrompt
<1>3. \A q : AtSudo(q, r) \/ AtPassword(q, r) => q \in Seq(AnyOps) /\ q # <<>> /\ HasSend(q)
  BY <1>1, <1>2 DEF AtSudo, AtPassword
<1>4. \A q : AtEcho(q, r, w) => q \in Seq(AnyOps) /\ q # <<>> /\ HasSend(q)
  BY <1>1, <1>2, <1>3 DEF AtEcho
<1>5. \A q : AtProbe(q, r, w) => q \in Seq(AnyOps) /\ q # <<>> /\ HasSend(q)
  BY <1>1, <1>4 DEF AtProbe
<1> QED
  BY <1>2, <1>3, <1>4, <1>5 DEF Asking

\* The next probe is typed.
LEMMA ReadyExpects ==
  ASSUME Types, NEW b \in Seq(Wires), NEW k \in Nat, k + 1 \in 1..Len(b), NEW s, NEW r,
         Ready(b, s, k), AtProbe(s, r, b[k + 1]), Serial!Expecting
  PROVE  Asks(b, r, k)' /\ transcript' = transcript
<1> DEFINE w == b[k + 1]
<1>1. w \in Serial!Lines
  <2>1. w \in Wires
    OBVIOUS
  <2> HIDE DEF w
  <2> QED
    BY <2>1, LinesAre
<1>2. /\ anchored /\ script = s /\ typed = <<>> /\ unread = <<>> /\ reader = "node"
      /\ Tells(transcript, b, k, k)
      /\ Begins(script, Serial!Send(w)) /\ AtEcho(Tail(script), r, w)
  BY DEF Ready, AtProbe
<1> HIDE DEF w
<1>3. /\ script' = Tail(script) /\ typed' = Append(typed, w)
      /\ UNCHANGED <<reader, anchored, unread, transcript>>
  BY <1>1, <1>2, TimelySend
<1>4. typed' = <<w>>
  BY <1>2, <1>3
<1>5. Put(b, r, k)'
  BY <1>2, <1>3, <1>4 DEF Put, w
<1> QED
  BY <1>2, <1>3, <1>5 DEF Asks

\* It waits for its echo.
LEMMA EchoAwaited ==
  ASSUME Types, NEW r, NEW w, AtEcho(script, r, w), anchored, Serial!Expecting, reader # "gone",
         late \in Nat, late' = 0
  PROVE  /\ UNCHANGED <<typed, reader, running, transcript>> /\ anchored' /\ Asking(script', r, w)
         /\ ~In(unread, NodePrompt) => ~In(unread', NodePrompt)
         /\ Final(unread, NodePrompt) => Final(unread', NodePrompt)
         /\ unread # <<>>
<1>1. Begins(script, Serial!Await(Serial!Echo(w)))
      /\ (AtSudo(Tail(script), r) \/ AtPrompt(Tail(script), r))
  BY DEF AtEcho
<1>2. /\ UNCHANGED <<typed, reader, running, transcript>>
      /\ script' = Tail(script) /\ In(unread, Serial!Echo(w)) /\ Consumed /\ anchored'
  BY <1>1, TimelyAwait
<1> QED
  BY <1>1, <1>2, OneOrTwo DEF Consumed, Asking

\* It waits for the node's prompt.
LEMMA PromptAwaited ==
  ASSUME Types, NEW r, AtPrompt(script, r), anchored, Serial!Expecting, reader # "gone",
         late \in Nat, late' = 0
  PROVE  /\ UNCHANGED <<typed, reader, running, transcript>> /\ anchored' /\ script' = r
         /\ In(unread, NodePrompt)
         /\ Final(unread, NodePrompt) => unread' = <<>>
<1>1. Begins(script, Serial!Await(NodePrompt)) /\ Tail(script) = r
  BY DEF AtPrompt
<1> QED
  BY <1>1, TimelyAwait

\* It waits for a sudo that asks for the password.
LEMMA SudoAwaited ==
  ASSUME DialogueInv, NEW r, AtSudo(script, r), anchored, Serial!Expecting, reader # "gone",
         late \in Nat, late' = 0
  PROVE  /\ UNCHANGED <<typed, reader, running, transcript>> /\ anchored' /\ AtPassword(script', r)
         /\ ~In(unread, NodePrompt) => ~In(unread', NodePrompt)
         /\ reader = "sudo"
<1>1. Begins(script, AwaitSudo) /\ AtPrompt(Tail(script), r)
  BY DEF AtSudo
<1>2. /\ script \in Seq(AnyOps) /\ script # <<>> /\ Head(script).op = "expect"
      /\ Head(script).branches = <<[see |-> PasswordPrompt, then |-> <<SendSudoPassword>>]>>
  BY <1>1, OpsApart DEF Begins
<1>3. Serial!Match /\ UNCHANGED transcript
  BY <1>2, TimelyMatch
<1>4. Types /\ unread \in Seq(Printable)
  BY DEF DialogueInv, Types
<1>5. Taken([see |-> PasswordPrompt, then |-> <<SendSudoPassword>>])
  BY <1>2, <1>3, <1>4, MatchedOne
<1>6. script' = <<SendSudoPassword>> \o Tail(script) /\ Consumed
  BY <1>5 DEF Taken
<1>7. UNCHANGED <<typed, reader, running>> /\ (anchored' <=> anchored)
  BY <1>1, <1>4, SudoMatched
<1>8. Begins(script', SendSudoPassword) /\ Tail(script') = Tail(script)
  <2>1. SendSudoPassword \in AnyOps
    BY DEF AnyOps
  <2>2. Tail(script) \in Seq(AnyOps)
    BY <1>2, OpDone
  <2> HIDE DEF AnyOps
  <2> QED
    BY <1>6, <2>1, <2>2, Prepended DEF Begins
<1>9. Anchored'
  <2>1. exit # "none"
    BY Running DEF Serial!Dialogue
  <2> QED
    BY <1>4, <2>1, AnchoredExpects DEF DialogueInv
<1>10. reader = "sudo"
  BY <1>7, <1>8, <1>9, SudoWaits
<1> QED
  BY <1>1, <1>3, <1>6, <1>7, <1>8, <1>10 DEF AtPassword, Consumed

\* What comes of a probe whose expects do not time out.
LEMMA AskExpects ==
  ASSUME DialogueInv, NEW b \in Seq(Wires), NEW k \in Nat, k + 1 \in 1..Len(b), NEW r,
         Asks(b, r, k), Serial!Expecting, reader # "gone", late \in Nat, late' = 0
  PROVE  transcript' = transcript /\ (Asks(b, r, k)' \/ Ready(b, r, k + 1)')
<1> DEFINE w == b[k + 1]
<1>1. Types /\ anchored
  BY DEF DialogueInv, Asks
<1>2. CASE Put(b, r, k)
  <2>1. unread = <<>> /\ AtEcho(script, r, w)
    BY <1>2 DEF Put
  <2> QED
    BY <1>1, <2>1, EchoAwaited
<1>3. CASE LetIn(b, r, k)
  <2>1. ~In(unread, NodePrompt) /\ AtPrompt(script, r)
    BY <1>3 DEF LetIn
  <2> QED
    BY <1>1, <2>1, PromptAwaited
<1>4. CASE Runs(b, r, k)
  <2>1. /\ typed = <<>> /\ reader \in {"busy", "sudo"} /\ running = w
        /\ ~In(unread, NodePrompt) /\ Tells(transcript, b, k + 1, k)
    BY <1>4 DEF Runs
  <2>2. CASE AtEcho(script, r, w)
    <3>1. /\ UNCHANGED <<typed, reader, running, transcript>> /\ anchored' /\ Asking(script', r, w)
          /\ ~In(unread', NodePrompt)
      BY <1>1, <2>1, <2>2, EchoAwaited
    <3>2. Runs(b, r, k)'
      BY <2>1, <3>1 DEF Runs, Asking
    <3> QED
      BY <3>1, <3>2 DEF Asks
  <2>3. CASE AtSudo(script, r)
    <3>1. /\ UNCHANGED <<typed, reader, running, transcript>> /\ anchored' /\ AtPassword(script', r)
          /\ ~In(unread', NodePrompt) /\ reader = "sudo"
      BY <1>1, <2>1, <2>3, SudoAwaited
    <3>2. Runs(b, r, k)'
      BY <2>1, <3>1 DEF Runs
    <3> QED
      BY <3>1, <3>2 DEF Asks
  <2>4. CASE AtPrompt(script, r)
    BY <1>1, <2>1, <2>4, PromptAwaited
  <2>5. CASE AtPassword(script, r) /\ reader = "sudo"
    <3>1. Begins(script, Serial!Send(Serial!SudoPassword)) /\ AtPrompt(Tail(script), r)
      BY <2>5 DEF AtPassword, SendSudoPassword
    <3>2. /\ script' = Tail(script) /\ typed' = Append(typed, Serial!SudoPassword)
          /\ UNCHANGED <<reader, running, anchored, unread, transcript>>
      BY <1>1, <2>5, <3>1, LinesAre, TimelySend
    <3>3. typed' = <<Serial!SudoPassword>>
      BY <2>1, <3>2
    <3>4. LetIn(b, r, k)'
      BY <2>1, <2>5, <3>1, <3>2, <3>3 DEF LetIn
    <3> QED
      BY <1>1, <3>2, <3>4 DEF Asks
  <2> QED
    BY <1>4, <2>2, <2>3, <2>4, <2>5 DEF Runs, Asking
<1>5. CASE Ended(b, r, k)
  <2>1. /\ typed = <<>> /\ reader = "node" /\ Final(unread, NodePrompt)
        /\ Tells(transcript, b, k + 1, k + 1)
    BY <1>5 DEF Ended
  <2>2. CASE AtEcho(script, r, w)
    <3>1. /\ UNCHANGED <<typed, reader, transcript>> /\ anchored' /\ Asking(script', r, w)
          /\ Final(unread', NodePrompt)
      BY <1>1, <2>1, <2>2, EchoAwaited
    <3>2. Ended(b, r, k)'
      BY <2>1, <3>1 DEF Ended
    <3> QED
      BY <3>1, <3>2 DEF Asks
  <2>3. CASE AtSudo(script, r)
    BY <1>1, <2>1, <2>3, SudoAwaited
  <2>4. CASE AtPrompt(script, r)
    <3>1. /\ UNCHANGED <<typed, reader, transcript>> /\ anchored' /\ script' = r /\ unread' = <<>>
      BY <1>1, <2>1, <2>4, PromptAwaited
    <3> QED
      BY <2>1, <3>1 DEF Ready
  <2> QED
    BY <1>5, <2>2, <2>3, <2>4 DEF Ended, Asking
<1> QED
  BY <1>2, <1>3, <1>4, <1>5 DEF Asks

(* A session that is lost does not come to the end of its script.          *)
Lost == AtExit(script) \/ (reader = "gone" /\ script \in Seq(AnyOps) /\ HasSend(script))

\* What an expect may put before the rest of the script.
Before == {<<>>, <<SendSudoPassword>>, <<Serial!Exit3>>, Serial!LogIn}

\* Each an expect's own operations.
LEMMA BeforeAre == \A x \in Before : x \in Seq(AnyOps)
<1> DEFINE a == Serial!Send(Serial!User)
           b == Serial!Await(PasswordPrompt)
           c == Serial!Send(Serial!NodePassword)
           d == Serial!Await(NodePrompt)
<1>1. a \in AnyOps /\ c \in AnyOps /\ SendSudoPassword \in AnyOps /\ Serial!Exit3 \in AnyOps
  BY DEF AnyOps
<1>2. b \in AnyOps /\ d \in AnyOps
  BY Tokens DEF AnyOps, RestOps, Awaits
<1>3. Serial!LogIn = <<a, b, c, d>>
  BY DEF Serial!LogIn, PasswordPrompt, NodePrompt
<1> HIDE DEF a, b, c, d, AnyOps
<1>4. <<a, b, c, d>> \in Seq(AnyOps) /\ <<>> \in Seq(AnyOps)
      /\ <<SendSudoPassword>> \in Seq(AnyOps) /\ <<Serial!Exit3>> \in Seq(AnyOps)
  BY <1>1, <1>2
<1> QED
  BY <1>3, <1>4 DEF Before

\* An expect that matches goes on with one of these.
LEMMA MatchPuts ==
  ASSUME Types, script \in Seq(AnyOps), script # <<>>, Serial!Match
  PROVE  \E x \in Before : script' = x \o Tail(script)
<1>1. unread \in Seq(Printable)
  BY DEF Types
<1>2. Head(script).op = "expect"
  BY DEF Serial!Match, Serial!Doing, Serial!Now
<1>3. Head(script) \in AnyOps
  <2> HIDE DEF AnyOps
  <2> QED
    OBVIOUS
<1>4. \/ Head(script) \in Starters
      \/ \E t : Head(script) = Serial!Await(t)
      \/ Head(script) = AwaitSudo
  BY <1>2, <1>3, OpsApart DEF AnyOps, RestOps, CloseOps, WireSends, Awaits, SendSudoPassword
<1>5. CASE Head(script) \in Starters
  <2>1. PICK b \in StartBranches : Taken(b)
    BY <1>1, <1>5, StarterBranches, Matched
  <2>2. b.then \in Before
    BY DEF StartBranches, Serial!On, Before
  <2> QED
    BY <2>1, <2>2 DEF Taken
<1>6. CASE \E t : Head(script) = Serial!Await(t)
  <2>1. PICK t : Head(script) = Serial!Await(t)
    BY <1>6
  <2>2. Head(script).branches = <<[see |-> t, then |-> <<>>]>>
    BY <2>1, OpsApart
  <2>3. Taken([see |-> t, then |-> <<>>])
    BY <1>1, <2>2, MatchedOne
  <2> QED
    BY <2>3 DEF Taken, Before
<1>7. CASE Head(script) = AwaitSudo
  <2>1. Head(script).branches = <<[see |-> PasswordPrompt, then |-> <<SendSudoPassword>>]>>
    BY <1>7, OpsApart
  <2>2. Taken([see |-> PasswordPrompt, then |-> <<SendSudoPassword>>])
    BY <1>1, <2>1, MatchedOne
  <2> QED
    BY <2>2 DEF Taken, Before
<1> QED
  BY <1>4, <1>5, <1>6, <1>7

\* What is left to type stays so when operations go before it.
LEMMA SendBehind ==
  ASSUME NEW x \in Seq(AnyOps), NEW s \in Seq(AnyOps), HasSend(s)
  PROVE  x \o s \in Seq(AnyOps) /\ HasSend(x \o s)
<1> DEFINE S == AnyOps
           q == x \o s
<1>1. /\ q \in Seq(S) /\ Len(q) = Len(x) + Len(s) /\ Len(x) \in Nat /\ Len(s) \in Nat
      /\ \A i \in 1..Len(x) + Len(s) : q[i] = IF i <= Len(x) THEN x[i] ELSE s[i - Len(x)]
  BY ConcatProperties
<1> HIDE DEF S, q
<1>2. PICK i \in 1..Len(s) : s[i].op = "send"
  BY DEF HasSend
<1>3. Len(x) + i \in 1..Len(q) /\ q[Len(x) + i] = s[i]
  <2>1. Len(x) + i \in 1..Len(x) + Len(s) /\ ~(Len(x) + i <= Len(x)) /\ (Len(x) + i) - Len(x) = i
    BY <1>1
  <2> QED
    BY <1>1, <2>1
<1> QED
  BY <1>1, <1>2, <1>3 DEF HasSend, S, q

\* A lost session stays lost, and fails if it ends.
LEMMA LostOn ==
  ASSUME Types, Lost, Serial!Dialogue
  PROVE  exit' # "ok" /\ (exit' = "running" => Lost')
<1>1. CASE Serial!Answering
  <2>1. script' = script /\ exit' = exit /\ exit = "running"
    BY <1>1, Running DEF Serial!Answering
  <2>2. reader = "gone" => FALSE
    BY <1>1 DEF Serial!Answering, Serial!RackReads, Serial!SessionFails, Serial!SessionStarts,
       Serial!LoginReads, Serial!PasswordReads, Serial!ShellReads, Serial!SudoReads,
       Serial!ProbeEnds, Serial!SessionDrops, Serial!Reads
  <2> QED
    BY <2>1, <2>2 DEF Lost
<1>2. CASE Serial!Expecting /\ AtExit(script)
  <2>1. Head(script).op = "exit" /\ script # <<>>
    BY <1>2, OpsApart DEF AtExit, Begins
  <2>2. Serial!ExitNonZero
    BY <1>2, <2>1 DEF Serial!Expecting, Serial!SendLine, Serial!SendToNobody, Serial!Match,
       Serial!GoOn, Serial!EndOfScript, Serial!Doing, Serial!Now
  <2> QED
    BY <2>2 DEF Serial!ExitNonZero
<1>3. CASE Serial!Expecting /\ reader = "gone" /\ script \in Seq(AnyOps) /\ HasSend(script)
  <2>1. script # <<>>
    BY <1>3 DEF HasSend
  <2>2. Tail(script) \in Seq(AnyOps) /\ (Head(script).op # "send" => HasSend(Tail(script)))
    BY <1>3, <2>1, SendLeft, OpDone
  <2>3. CASE Serial!SendLine \/ Serial!SendToNobody
    BY <1>3, <2>3 DEF Serial!SendLine, Serial!SendToNobody
  <2>4. CASE Serial!ExitNonZero \/ Serial!EndOfScript
    BY <2>1, <2>4 DEF Serial!ExitNonZero, Serial!EndOfScript
  <2>5. CASE Serial!GoOn
    <3>1. script' = Tail(script) /\ reader' = reader /\ exit' = exit /\ exit = "running"
          /\ Head(script).op = "expect"
      BY <2>5 DEF Serial!GoOn, Serial!Doing, Serial!Now, Serial!terminalVars
    <3> QED
      BY <1>3, <2>2, <3>1 DEF Lost
  <2>6. CASE Serial!Match
    <3>1. reader' = reader /\ exit' = exit /\ exit = "running" /\ Head(script).op = "expect"
      BY <2>6 DEF Serial!Match, Serial!Doing, Serial!Now
    <3>2. PICK x \in Before : script' = x \o Tail(script)
      BY <1>3, <2>1, <2>6, MatchPuts
    <3>3. script' \in Seq(AnyOps) /\ HasSend(script')
      BY <2>2, <3>1, <3>2, BeforeAre, SendBehind
    <3> QED
      BY <1>3, <3>1, <3>3 DEF Lost
  <2> QED
    BY <1>3, <2>3, <2>4, <2>5, <2>6 DEF Serial!Expecting
<1> QED
  BY <1>1, <1>2, <1>3 DEF Lost, Serial!Dialogue

-----------------------------------------------------------------------------
(* The end of a script: every probe has said what it has to say.           *)
Closes(b) ==
  /\ typed \in Seq({Serial!Leave}) /\ reader \in {"node", "rack", "gone"}
  /\ script \in Seq(CloseOps) /\ transcript \in Seq(Printable)
  /\ Tells(transcript, b, Len(b), Len(b))

\* The node and the rack manager only hear that it is over.
LEMMA ClosesAnswered ==
  ASSUME Types, NEW b \in Seq(Wires), Closes(b), Serial!Answering PROVE Closes(b)'
<1>1. /\ typed \in Seq({Serial!Leave}) /\ reader \in {"node", "rack", "gone"}
      /\ script \in Seq(CloseOps) /\ transcript \in Seq(Printable)
      /\ Tells(transcript, b, Len(b), Len(b))
  BY DEF Closes
<1>2. typed # <<>> => Head(typed) = Serial!Leave /\ Tail(typed) \in Seq({Serial!Leave})
  BY <1>1
<1>3. Quiet
  BY <1>1, <1>2, Quietly, WiresAreNoWords
<1>4. transcript' \in Seq(Printable) /\ Tells(transcript', b, Len(b), Len(b))
  BY <1>1, <1>3, QuietKeeps
<1>5. Serial!RackReads \/ Serial!ShellReads \/ Serial!SessionDrops
  BY <1>1 DEF Serial!Answering, Serial!SessionFails, Serial!SessionStarts,
     Serial!LoginReads, Serial!PasswordReads, Serial!SudoReads, Serial!ProbeEnds, Serial!Reads
<1>6. script' = script
  BY DEF Serial!Answering
<1>7. typed' \in Seq({Serial!Leave}) /\ reader' \in {"node", "rack", "gone"}
  <2>1. CASE Serial!RackReads
    <3>1. Head(typed) = Serial!Leave /\ typed' = Tail(typed) /\ typed # <<>>
      BY <1>2, <2>1 DEF Serial!RackReads, Serial!Reads, Serial!Hear
    <3>2. Serial!Leave # Serial!Start
      BY DEF Serial!Leave, Serial!Start
    <3> QED
      BY <1>2, <2>1, <3>1, <3>2 DEF Serial!RackReads
  <2>2. CASE Serial!ShellReads
    <3>1. Head(typed) = Serial!Leave /\ typed' = Tail(typed)
      BY <1>2, <2>2 DEF Serial!ShellReads, Serial!Reads, Serial!Hear
    <3> QED
      BY <1>2, <2>2, <3>1, WiresAreNoWords DEF Serial!ShellReads, Serial!Reads
  <2>3. CASE Serial!SessionDrops
    BY <1>1, <2>3 DEF Serial!SessionDrops
  <2> QED
    BY <1>5, <2>1, <2>2, <2>3
<1> QED
  BY <1>1, <1>4, <1>6, <1>7 DEF Closes

\* The script types its exits and waits for their prompts.
LEMMA ClosesExpects ==
  ASSUME Types, NEW b \in Seq(Wires), Closes(b), Serial!Expecting
  PROVE  Closes(b)'
<1>1. /\ typed \in Seq({Serial!Leave}) /\ reader \in {"node", "rack", "gone"}
      /\ script \in Seq(CloseOps) /\ transcript \in Seq(Printable)
      /\ Tells(transcript, b, Len(b), Len(b))
  BY DEF Closes
<1>2. script # <<>> => Head(script) \in CloseOps /\ Tail(script) \in Seq(CloseOps)
  <2> HIDE DEF CloseOps
  <2> QED
    BY <1>1
<1>3. CASE Serial!SendToNobody \/ Serial!ExitNonZero \/ Serial!EndOfScript
  BY <1>1, <1>3 DEF Serial!SendToNobody, Serial!ExitNonZero, Serial!EndOfScript,
     Serial!terminalVars, Closes
<1>4. CASE Serial!GoOn
  BY <1>1, <1>2, <1>4 DEF Serial!GoOn, Serial!Doing, Serial!terminalVars, Closes
<1>5. CASE Serial!SendLine
  <2>1. Head(script).op = "send" /\ script # <<>>
    BY <1>5 DEF Serial!SendLine, Serial!Doing, Serial!Now
  <2>2. Head(script) = Serial!Send(Serial!Leave)
    BY <1>2, <2>1, OpsApart DEF CloseOps, Awaits
  <2>3. /\ typed' = Append(typed, Serial!Leave) /\ script' = Tail(script)
        /\ UNCHANGED <<reader, transcript>>
    BY <1>1, <1>5, <2>2, OpsApart DEF Serial!SendLine, Serial!Now, Serial!Unprinted
  <2>4. typed' \in Seq({Serial!Leave})
    BY <1>1, <2>3
  <2> QED
    BY <1>1, <1>2, <2>1, <2>3, <2>4 DEF Closes
<1>6. CASE Serial!Match
  <2>1. Head(script).op = "expect" /\ script # <<>> /\ UNCHANGED <<typed, reader, transcript>>
    BY <1>6 DEF Serial!Match, Serial!Doing, Serial!Now
  <2>2. PICK t : Head(script) = Serial!Await(t)
    BY <1>2, <2>1, OpsApart DEF CloseOps, Awaits
  <2>3. Head(script).branches = <<[see |-> t, then |-> <<>>]>> /\ unread \in Seq(Printable)
    BY <2>2, OpsApart DEF Types
  <2>4. script' = <<>> \o Tail(script)
    BY <1>6, <2>3, MatchedOne DEF Taken
  <2>5. script' = Tail(script)
    <3>1. Tail(script) \in Seq(CloseOps)
      BY <1>2, <2>1
    <3> HIDE DEF CloseOps
    <3> QED
      BY <2>4, <3>1
  <2> QED
    BY <1>1, <1>2, <2>1, <2>5 DEF Closes
<1> QED
  BY <1>3, <1>4, <1>5, <1>6 DEF Serial!Expecting

-----------------------------------------------------------------------------
(* A session no expect of which timed out, from its start to its end.      *)
Told(b, R) ==
  \/ Lost
  \/ transcript \in Seq(Printable) /\ Opened(R[0])
  \/ /\ transcript \in Seq(Printable)
     /\ \E k \in 0..Len(b) - 1 : Ready(b, R[k], k) \/ Asks(b, R[k + 1], k)
  \/ Closes(b)

\* A script that is not at its end does not end it.
LEMMA GoesOn ==
  ASSUME Serial!Expecting
  PROVE  /\ script # <<>> => exit' # "ok"
         /\ reader # "busy" => transcript' = transcript
<1>1. exit = "running"
  BY Running DEF Serial!Dialogue
<1> QED
  BY <1>1 DEF Serial!Expecting, Serial!SendLine, Serial!SendToNobody, Serial!Match,
     Serial!GoOn, Serial!ExitNonZero, Serial!EndOfScript, Serial!terminalVars, Serial!Unprinted

\* In the opening there is something left to type.
LEMMA OpenedSends ==
  ASSUME NEW r \in Seq(AnyOps), HasSend(r), Opened(r)
  PROVE  script \in Seq(AnyOps) /\ HasSend(script) /\ script # <<>> /\ reader # "busy"
<1>1. ASSUME NEW q, q \in Seq(AnyOps), q # <<>>, HasSend(Tail(q)) PROVE HasSend(q)
  BY <1>1, SendLeft
<1>2. ASSUME NEW q, AtSession(q), Tail(q) = r PROVE q \in Seq(AnyOps) /\ q # <<>> /\ HasSend(q)
  BY <1>1, <1>2 DEF AtSession
<1>3. ASSUME NEW q, AtStart(q), Tail(Tail(q)) = r PROVE q \in Seq(AnyOps) /\ q # <<>> /\ HasSend(q)
  BY <1>1, <1>2, <1>3 DEF AtStart, Begins
<1>4. ASSUME NEW q, AtRack(q), Tail(Tail(Tail(q))) = r
      PROVE q \in Seq(AnyOps) /\ q # <<>> /\ HasSend(q)
  BY <1>1, <1>3, <1>4 DEF AtRack, Begins
<1>5. ASSUME NEW q, AtNode(q), Tail(q) = r PROVE q \in Seq(AnyOps) /\ q # <<>> /\ HasSend(q)
  BY <1>1, <1>5 DEF AtNode, Begins
<1>6. ASSUME NEW q, AtSecret(q), Tail(Tail(q)) = r
      PROVE q \in Seq(AnyOps) /\ q # <<>> /\ HasSend(q)
  BY <1>1, <1>5, <1>6 DEF AtSecret, Begins
<1>7. ASSUME NEW q, AtAsked(q), Tail(Tail(Tail(q))) = r
      PROVE q \in Seq(AnyOps) /\ q # <<>> /\ HasSend(q)
  BY <1>1, <1>6, <1>7 DEF AtAsked, Begins
<1>8. ASSUME NEW q, AtUser(q), Tail(Tail(Tail(Tail(q)))) = r
      PROVE q \in Seq(AnyOps) /\ q # <<>> /\ HasSend(q)
  BY <1>1, <1>7, <1>8 DEF AtUser, Begins
<1>9. reader # "busy"
  BY DEF Opened, RackPhase, StartPhase, UserPhase, AskedPhase, NodePhase
<1>10. \/ AtRack(script) /\ Tail(Tail(Tail(script))) = r
       \/ AtStart(script) /\ Tail(Tail(script)) = r
       \/ AtSession(script) /\ Tail(script) = r
       \/ AtUser(script) /\ Tail(Tail(Tail(Tail(script)))) = r
       \/ AtAsked(script) /\ Tail(Tail(Tail(script))) = r
       \/ AtSecret(script) /\ Tail(Tail(script)) = r
       \/ AtNode(script) /\ Tail(script) = r
  BY DEF Opened, StartPhase, UserPhase, NodePhase
<1> QED
  BY <1>2, <1>3, <1>4, <1>5, <1>6, <1>7, <1>8, <1>9, <1>10

\* The opening is told: it comes to the first probe.
LEMMA OpenedTold ==
  ASSUME DialogueInv, NEW setup, NEW b \in Seq(Wires), Len(b) # 0, NEW R, Rest(setup, b, R),
         transcript \in Seq(Printable), Opened(R[0]), Serial!Dialogue, late \in Nat, late' = 0
  PROVE  exit' # "ok" /\ (exit' = "running" => Told(b, R)')
<1>0. 0 \in 0..Len(b) /\ 0 \in 0..Len(b) - 1
  OBVIOUS
<1>1. R[0] \in Seq(AnyOps) /\ HasSend(R[0]) /\ 0 \in 0..Len(b) - 1
  BY <1>0, RestSends
<1>2. Types
  BY DEF DialogueInv
<1> DEFINE r == R[0]
<1>3. script \in Seq(AnyOps) /\ HasSend(script) /\ script # <<>> /\ reader # "busy"
  BY <1>1, OpenedSends
<1>4. CASE Serial!Answering
  <2>1. exit' = exit /\ exit = "running"
    BY <1>4, Running DEF Serial!Answering
  <2>2. Opened(r)' /\ transcript' \in Seq(Printable)
    <3> HIDE DEF r
    <3> QED
      BY <1>2, <1>4, OpenedAnswered DEF r
  <2> QED
    BY <2>1, <2>2 DEF Told
<1>5. CASE Serial!Expecting /\ reader = "gone"
  <2>1. Lost
    BY <1>3, <1>5 DEF Lost
  <2> QED
    BY <1>2, <2>1, LostOn DEF Told
<1>6. CASE Serial!Expecting /\ reader # "gone"
  <2>1. exit' # "ok" /\ transcript' \in Seq(Printable)
    BY <1>3, <1>6, GoesOn
  <2>2. Opened(r)' \/ AtExit(script') \/ Stood(r)
    <3> HIDE DEF r
    <3> QED
      BY <1>2, <1>6, OpenedExpects DEF r
  <2>3. Stood(r) => Ready(b, r, 0)'
    <3>1. ASSUME Plain(transcript') PROVE Tells(transcript', b, 0, 0)
      BY <2>1, <3>1, TellsNothing
    <3> QED
      BY <3>1 DEF Stood, Ready
  <2> QED
    BY <1>1, <2>1, <2>2, <2>3 DEF Told, Lost
<1> QED
  BY <1>4, <1>5, <1>6 DEF Serial!Dialogue

\* A probe is told: it is typed, or the session is lost.
LEMMA ReadyTold ==
  ASSUME DialogueInv, NEW setup, NEW b \in Seq(Wires), NEW R, Rest(setup, b, R),
         transcript \in Seq(Printable), NEW k \in 0..Len(b) - 1, Ready(b, R[k], k),
         Serial!Dialogue
  PROVE  exit' # "ok" /\ (exit' = "running" => Told(b, R)')
<1>1. k \in Nat /\ k + 1 \in 1..Len(b) /\ k \in 0..Len(b) /\ k < Len(b)
  OBVIOUS
<1>2. R[k] \in Seq(AnyOps) /\ HasSend(R[k]) /\ R[k] # <<>> /\ AtProbe(R[k], R[k + 1], b[k + 1])
  BY <1>1, RestSends
<1>3. Types
  BY DEF DialogueInv
<1>4. script = R[k] /\ typed = <<>> /\ reader = "node"
  BY DEF Ready
<1>5. CASE Serial!Answering
  <2>1. reader' = "gone" /\ script' = script /\ exit' = exit /\ exit = "running"
    BY <1>3, <1>4, <1>5, OnlyDrops, Running
  <2> QED
    BY <1>2, <1>4, <2>1 DEF Told, Lost
<1>6. CASE Serial!Expecting
  <2>1. exit' # "ok"
    BY <1>2, <1>4, <1>6, GoesOn
  <2>2. Asks(b, R[k + 1], k)' /\ transcript' = transcript
    BY <1>1, <1>2, <1>3, <1>6, ReadyExpects
  <2> QED
    BY <2>1, <2>2 DEF Told
<1> QED
  BY <1>5, <1>6 DEF Serial!Dialogue

\* A probe that was typed is told.
LEMMA AsksTold ==
  ASSUME DialogueInv, NEW setup, NEW b \in Seq(Wires), NEW R, Rest(setup, b, R),
         transcript \in Seq(Printable), NEW k \in 0..Len(b) - 1, Asks(b, R[k + 1], k),
         Serial!Dialogue, late \in Nat, late' = 0
  PROVE  exit' # "ok" /\ (exit' = "running" => Told(b, R)')
<1>1. k \in Nat /\ k + 1 \in 1..Len(b) /\ k + 1 \in 0..Len(b)
  OBVIOUS
<1>2. R[k + 1] \in Seq(AnyOps) /\ HasSend(R[k + 1])
  BY <1>1, RestSends
<1>3. Types
  BY DEF DialogueInv
<1>4. Asking(script, R[k + 1], b[k + 1]) \/ AtPassword(script, R[k + 1])
  BY DEF Asks, Put, Runs, LetIn, Ended, Asking
<1>5. script \in Seq(AnyOps) /\ HasSend(script) /\ script # <<>>
  BY <1>2, <1>4, AtSends
<1>6. CASE Serial!Answering
  <2>1. exit' = exit /\ exit = "running" /\ script' = script
    BY <1>6, Running DEF Serial!Answering
  <2>2. transcript' \in Seq(Printable) /\ (Asks(b, R[k + 1], k)' \/ reader' = "gone")
    BY <1>1, <1>3, <1>6, AskAnswered
  <2> QED
    BY <1>5, <2>1, <2>2 DEF Told, Lost
<1>7. CASE Serial!Expecting /\ reader = "gone"
  <2>1. Lost
    BY <1>5, <1>7 DEF Lost
  <2> QED
    BY <1>3, <2>1, LostOn DEF Told
<1>8. CASE Serial!Expecting /\ reader # "gone"
  <2>1. exit' # "ok"
    BY <1>5, <1>8, GoesOn
  <2>2. transcript' = transcript /\ (Asks(b, R[k + 1], k)' \/ Ready(b, R[k + 1], k + 1)')
    BY <1>1, <1>8, AskExpects
  <2>3. CASE Asks(b, R[k + 1], k)'
    BY <2>1, <2>2, <2>3 DEF Told
  <2>4. CASE Ready(b, R[k + 1], k + 1)' /\ k + 1 # Len(b)
    <3>1. k + 1 \in 0..Len(b) - 1
      BY <1>1, <2>4
    <3> QED
      BY <2>1, <2>2, <2>4, <3>1 DEF Told
  <2>5. CASE Ready(b, R[k + 1], k + 1)' /\ k + 1 = Len(b)
    <3>1. R[k + 1] \in Seq(CloseOps)
      BY <2>5, ScriptCloses DEF Rest
    <3>2. <<>> \in Seq({Serial!Leave})
      OBVIOUS
    <3>3. /\ script' = R[k + 1] /\ typed' = <<>> /\ reader' = "node"
          /\ Tells(transcript', b, k + 1, k + 1)
      BY <2>5 DEF Ready
    <3>4. Closes(b)'
      BY <2>2, <2>5, <3>1, <3>2, <3>3 DEF Closes
    <3> QED
      BY <2>1, <3>4 DEF Told
  <2> QED
    BY <2>2, <2>3, <2>4, <2>5
<1> QED
  BY <1>6, <1>7, <1>8 DEF Serial!Dialogue

\* A session that is told goes on so, and when its script ends all is told.
LEMMA ToldOn ==
  ASSUME DialogueInv, NEW setup, NEW b \in Seq(Wires), Len(b) # 0, NEW R, Rest(setup, b, R),
         Told(b, R), Serial!Dialogue, late \in Nat, late' = 0
  PROVE  /\ exit' = "running" => Told(b, R)'
         /\ exit' = "ok" => transcript' \in Seq(Printable) /\ Tells(transcript', b, Len(b), Len(b))
<1>1. Types
  BY DEF DialogueInv
<1>2. CASE Lost
  BY <1>1, <1>2, LostOn DEF Told
<1>3. CASE transcript \in Seq(Printable) /\ Opened(R[0])
  BY <1>3, OpenedTold
<1>4. CASE /\ transcript \in Seq(Printable)
           /\ \E k \in 0..Len(b) - 1 : Ready(b, R[k], k) \/ Asks(b, R[k + 1], k)
  <2>1. PICK k \in 0..Len(b) - 1 : Ready(b, R[k], k) \/ Asks(b, R[k + 1], k)
    BY <1>4
  <2> QED
    BY <1>4, <2>1, ReadyTold, AsksTold
<1>5. CASE Closes(b)
  <2>1. Closes(b)'
    BY <1>1, <1>5, ClosesAnswered, ClosesExpects DEF Serial!Dialogue
  <2> QED
    BY <2>1 DEF Told, Closes
<1> QED
  BY <1>2, <1>3, <1>4, <1>5 DEF Told

-----------------------------------------------------------------------------
(* Places of a sequence in their order (Ascending, At, Those, Once).       *)

\* Console counts as FiniteSets does.
LEMMA SameCount == \A S : Serial!Cardinality(S) = Cardinality(S)
BY DEF Serial!Cardinality, Cardinality

\* The places up to one, and which place has a given rank.
Upto(P, i) == {j \in P : j <= i}
PlaceOf(P, k) == \E i \in P : Cardinality(Upto(P, i)) = k

\* One place after the other: each rank up to the number of places is taken.
LEMMA EveryRank ==
  ASSUME NEW P \in SUBSET Nat, IsFiniteSet(P), NEW k \in 1..Cardinality(P)
  PROVE  PlaceOf(P, k)
<1> DEFINE c == Cardinality(P)
           I == {n \in Nat : n + 1 \in 1..c => PlaceOf(P, n + 1)}
<1>1. c \in Nat
  BY FS_CardinalityType
<1>2. \A T \in SUBSET P : IsFiniteSet(T) /\ Cardinality(T) \in Nat
  BY FS_Subset, FS_CardinalityType
<1>3. (\A i : Upto(P, i) \in SUBSET P) /\ \A j \in P : j \in Nat
  BY DEF Upto
<1>4. 0 \in I
  <2> SUFFICES ASSUME 1 \in 1..c PROVE PlaceOf(P, 1)
    OBVIOUS
  <2>1. P # {}
    BY <1>1, FS_EmptySet
  <2>2. PICK i \in P : \A j \in P : i <= j
    BY <2>1, LeastNat
  <2>3. Upto(P, i) = {i}
    <3>1. \A j \in P : j <= i <=> j = i
      BY <1>3, <2>2
    <3> QED
      BY <3>1 DEF Upto
  <2> QED
    BY <2>2, <2>3, FS_Singleton DEF PlaceOf
<1>5. ASSUME NEW n \in I PROVE n + 1 \in I
  <2> SUFFICES ASSUME n + 2 \in 1..c PROVE PlaceOf(P, n + 2)
    OBVIOUS
  <2>1. n \in Nat /\ n + 1 \in 1..c
    BY <1>1
  <2>2. PICK i \in P : Cardinality(Upto(P, i)) = n + 1
    BY <2>1 DEF PlaceOf
  <2> DEFINE T == {j \in P : j > i}
  <2>3. T # {}
    <3> SUFFICES ASSUME T = {} PROVE FALSE
      OBVIOUS
    <3>1. Upto(P, i) = P
      <4>1. \A j \in P : j <= i
        BY <1>3, <2>2
      <4> QED
        BY <4>1 DEF Upto
    <3> QED
      BY <1>1, <2>1, <2>2, <3>1
  <2>4. PICK m \in T : \A j \in T : m <= j
    <3>1. T \in SUBSET Nat
      OBVIOUS
    <3> HIDE DEF T
    <3> QED
      BY <2>3, <3>1, LeastNat
  <2>5. m \in P /\ m > i /\ m \in Nat /\ i \in Nat /\ \A j \in P : j > i => m <= j
    BY <2>4
  <2>6. Upto(P, m) = Upto(P, i) \cup {m}
    <3>1. \A j \in P : j <= m <=> j <= i \/ j = m
      BY <1>3, <2>5
    <3> QED
      BY <2>5, <3>1 DEF Upto
  <2>7. m \notin Upto(P, i)
    BY <2>5 DEF Upto
  <2>8. IsFiniteSet(Upto(P, i))
    BY <1>2, <1>3
  <2> HIDE DEF T
  <2>9. Cardinality(Upto(P, m)) = (n + 1) + 1
    <3> DEFINE U == Upto(P, i)
    <3>1. m \notin U /\ IsFiniteSet(U)
      BY <2>7, <2>8
    <3> HIDE DEF U
    <3>2. Cardinality(U \cup {m}) = Cardinality(U) + 1
      BY <3>1, FS_AddElement
    <3> QED
      BY <2>2, <2>6, <3>2 DEF U
  <2>10. (n + 1) + 1 = n + 2
    BY <2>1
  <2> QED
    BY <2>5, <2>9, <2>10 DEF PlaceOf
<1>6. I = Nat
  <2>1. I \in SUBSET Nat
    OBVIOUS
  <2> HIDE DEF I
  <2>2. \A n \in I : n + 1 \in I
    BY <1>5
  <2> QED
    BY <1>4, <2>1, <2>2, NatClosed
<1>7. k - 1 \in Nat /\ (k - 1) + 1 = k
  BY <1>1
<1>8. k - 1 \in I
  <2> HIDE DEF I
  <2> QED
    BY <1>6, <1>7
<1> QED
  BY <1>7, <1>8

\* The places of a sequence, one per rank, no two the same.
LEMMA AscendingIs ==
  ASSUME NEW P \in SUBSET Nat, IsFiniteSet(P)
  PROVE  /\ Serial!Ascending(P) \in [1..Cardinality(P) -> P]
         /\ \A k, m \in 1..Cardinality(P) : k # m => Serial!Ascending(P)[k] # Serial!Ascending(P)[m]
         /\ Cardinality(P) \in Nat
         /\ \A k \in 1..Cardinality(P) : Cardinality(Upto(P, Serial!Ascending(P)[k])) = k
<1> DEFINE A == Serial!Ascending(P)
           F(k) == CHOOSE i \in P : Serial!Cardinality({j \in P : j <= i}) = k
<1>1. A = [k \in 1..Cardinality(P) |-> F(k)]
  BY SameCount DEF Serial!Ascending
<1>2. Cardinality(P) \in Nat
  BY FS_CardinalityType
<1>3. ASSUME NEW k \in 1..Cardinality(P) PROVE F(k) \in P /\ Cardinality(Upto(P, F(k))) = k
  <2>1. \A i : Serial!Cardinality({j \in P : j <= i}) = Cardinality(Upto(P, i))
    BY SameCount DEF Upto
  <2>2. \E i \in P : Serial!Cardinality({j \in P : j <= i}) = k
    BY <2>1, EveryRank DEF PlaceOf
  <2>3. F(k) \in P /\ Serial!Cardinality({j \in P : j <= F(k)}) = k
    BY <2>2
  <2> HIDE DEF F
  <2> QED
    BY <2>1, <2>3
<1> HIDE DEF A, F
<1>4. \A k \in 1..Cardinality(P) : A[k] = F(k)
  BY <1>1
<1>5. A \in [1..Cardinality(P) -> P]
  BY <1>1, <1>3
<1>6. ASSUME NEW k \in 1..Cardinality(P), NEW m \in 1..Cardinality(P), A[k] = A[m] PROVE k = m
  BY <1>3, <1>4, <1>6
<1>7. \A k \in 1..Cardinality(P) : Cardinality(Upto(P, A[k])) = k
  BY <1>3, <1>4
<1> QED
  BY <1>2, <1>5, <1>6, <1>7 DEF A

\* What stands at places of a sequence.
LEMMA AtIs ==
  ASSUME NEW S, NEW s \in Seq(S), NEW P \in SUBSET DOMAIN s
  PROVE  /\ Serial!At(s, P) \in Seq(S)
         /\ Len(Serial!At(s, P)) = Cardinality(P)
         /\ DOMAIN Serial!At(s, P) = 1..Cardinality(P)
         /\ \A k \in DOMAIN Serial!At(s, P) :
              Serial!Ascending(P)[k] \in P /\ Serial!At(s, P)[k] = s[Serial!Ascending(P)[k]]
         /\ \A k, m \in DOMAIN Serial!At(s, P) :
              k # m => Serial!Ascending(P)[k] # Serial!Ascending(P)[m]
<1> DEFINE A == Serial!Ascending(P)
<1>1. DOMAIN s = 1..Len(s) /\ Len(s) \in Nat
  OBVIOUS
<1>2. IsFiniteSet(P) /\ P \in SUBSET Nat
  <2>1. IsFiniteSet(1..Len(s))
    BY <1>1, FS_Interval
  <2> QED
    BY <1>1, <2>1, FS_Subset
<1>3. /\ A \in [1..Cardinality(P) -> P] /\ Cardinality(P) \in Nat
      /\ \A k, m \in 1..Cardinality(P) : k # m => A[k] # A[m]
  BY <1>2, AscendingIs
<1> HIDE DEF A
<1>4. DOMAIN A = 1..Cardinality(P) /\ Serial!At(s, P) = [k \in DOMAIN A |-> s[A[k]]]
  BY <1>3 DEF Serial!At, A
<1>5. \A k \in 1..Cardinality(P) : A[k] \in P /\ s[A[k]] \in S
  BY <1>3
<1>6. Serial!At(s, P) \in [1..Cardinality(P) -> S]
  BY <1>4, <1>5
<1>7. Serial!At(s, P) \in Seq(S) /\ Len(Serial!At(s, P)) = Cardinality(P)
  BY <1>3, <1>6
<1> QED
  BY <1>3, <1>4, <1>5, <1>7 DEF A

\* What stands there stands in the sequence, at one of the places.
LEMMA AtFrom ==
  ASSUME NEW S, NEW s \in Seq(S), NEW P \in SUBSET DOMAIN s
  PROVE  /\ Serial!At(s, P) \in Seq(S)
         /\ \A k \in DOMAIN Serial!At(s, P) : \E i \in P : Serial!At(s, P)[k] = s[i]
BY AtIs

\* Once keeps each element, and none twice.
LEMMA OnceIs ==
  ASSUME NEW S, NEW s \in Seq(S)
  PROVE  /\ Serial!Once(s) \in Seq(S)
         /\ \A k \in DOMAIN Serial!Once(s) : \E i \in DOMAIN s : Serial!Once(s)[k] = s[i]
         /\ \A k, m \in DOMAIN Serial!Once(s) : k # m => Serial!Once(s)[k] # Serial!Once(s)[m]
<1> DEFINE P == {i \in DOMAIN s : \A j \in 1..i - 1 : s[j] # s[i]}
           q == Serial!Once(s)
           A == Serial!Ascending(P)
<1>1. q = Serial!At(s, P) /\ P \in SUBSET DOMAIN s
  BY DEF Serial!Once
<1>2. \A i, j \in P : i # j => s[i] # s[j]
  <2> SUFFICES ASSUME NEW i \in P, NEW j \in P, i < j PROVE s[i] # s[j]
    <3>1. DOMAIN s = 1..Len(s) /\ Len(s) \in Nat
      OBVIOUS
    <3>2. \A i, j \in P : i # j => i < j \/ j < i
      BY <3>1
    <3> QED
      BY <3>2
  <2>1. i \in Nat /\ j \in Nat /\ i >= 1
    OBVIOUS
  <2>2. i \in 1..j - 1
    BY <2>1
  <2> QED
    BY <2>2
<1> HIDE DEF P
<1>3. /\ q \in Seq(S)
      /\ \A k \in DOMAIN q : A[k] \in P /\ q[k] = s[A[k]]
      /\ \A k, m \in DOMAIN q : k # m => A[k] # A[m]
  BY <1>1, AtIs
<1> HIDE DEF q, A
<1>4. \A k, m \in DOMAIN q : k # m => q[k] # q[m]
  BY <1>2, <1>3
<1> QED
  BY <1>1, <1>3, <1>4 DEF q

\* Each place has its rank, and the rank its place.
LEMMA RankIs ==
  ASSUME NEW P \in SUBSET Nat, IsFiniteSet(P), NEW i \in P
  PROVE  /\ Cardinality(Upto(P, i)) \in 1..Cardinality(P)
         /\ Serial!Ascending(P)[Cardinality(Upto(P, i))] = i
<1> DEFINE A == Serial!Ascending(P)
           c == Cardinality(P)
           m == Cardinality(Upto(P, i))
<1>1. /\ A \in [1..c -> P] /\ c \in Nat /\ \A k \in 1..c : Cardinality(Upto(P, A[k])) = k
  BY AscendingIs
<1>2. \A U \in SUBSET P : IsFiniteSet(U) /\ Cardinality(U) \in Nat /\ Cardinality(U) <= c
  BY FS_Subset, FS_CardinalityType
<1>3. \A j : Upto(P, j) \in SUBSET P
  BY DEF Upto
<1>4. i \in Upto(P, i)
  BY DEF Upto
<1>5. m \in Nat /\ m <= c /\ m # 0
  <2> DEFINE U == Upto(P, i)
  <2>1. IsFiniteSet(U) /\ Cardinality(U) \in Nat /\ Cardinality(U) <= c /\ U # {}
    BY <1>2, <1>3, <1>4
  <2> HIDE DEF U, c
  <2>2. Cardinality(U) # 0
    BY <2>1, FS_EmptySet
  <2> QED
    BY <2>1, <2>2 DEF U
<1>6. m \in 1..c
  BY <1>1, <1>5
<1> HIDE DEF A, c, m
<1>7. A[m] \in P /\ Cardinality(Upto(P, A[m])) = m
  BY <1>1, <1>6
<1>8. ASSUME NEW j \in P, NEW k \in P, j < k, Cardinality(Upto(P, j)) = Cardinality(Upto(P, k))
      PROVE  FALSE
  <2>1. Upto(P, j) \in SUBSET Upto(P, k)
    <3>1. \A x \in P : x \in Nat
      OBVIOUS
    <3>2. \A x \in P : x <= j => x <= k
      BY <1>8, <3>1
    <3> QED
      BY <3>2 DEF Upto
  <2>2. k \in Upto(P, k) /\ k \notin Upto(P, j)
    BY <1>8 DEF Upto
  <2>3. IsFiniteSet(Upto(P, k))
    BY <1>2, <1>3
  <2>4. Upto(P, k) = Upto(P, j)
    BY <1>8, <2>1, <2>3, FS_Subset
  <2> QED
    BY <2>2, <2>4
<1>9. A[m] = i
  <2>1. A[m] \in Nat /\ i \in Nat
    BY <1>7
  <2>2. ~(A[m] < i) /\ ~(i < A[m])
    BY <1>7, <1>8 DEF m
  <2> QED
    BY <2>1, <2>2
<1> QED
  BY <1>6, <1>9 DEF A, c, m

\* The places of a sequence are finitely many.
LEMMA FinitePlaces ==
  ASSUME NEW S, NEW s \in Seq(S), NEW P \in SUBSET DOMAIN s
  PROVE  IsFiniteSet(P) /\ P \in SUBSET Nat
<1>1. DOMAIN s = 1..Len(s) /\ Len(s) \in Nat
  OBVIOUS
<1>2. IsFiniteSet(1..Len(s))
  BY <1>1, FS_Interval
<1> QED
  BY <1>1, <1>2, FS_Subset

\* Once leaves out no element.
LEMMA OnceAll ==
  ASSUME NEW S, NEW s \in Seq(S), NEW i \in DOMAIN s
  PROVE  \E k \in DOMAIN Serial!Once(s) : Serial!Once(s)[k] = s[i]
<1> DEFINE P == {n \in DOMAIN s : \A j \in 1..n - 1 : s[j] # s[n]}
           I == {n \in DOMAIN s : s[n] = s[i]}
           q == Serial!Once(s)
           A == Serial!Ascending(P)
<1>1. DOMAIN s = 1..Len(s) /\ Len(s) \in Nat
  OBVIOUS
<1>2. PICK n \in I : \A m \in I : n <= m
  <2>1. I \in SUBSET Nat /\ I # {}
    BY <1>1
  <2> HIDE DEF I
  <2> QED
    BY <2>1, LeastNat
<1>3. n \in P
  <2>1. ASSUME NEW j \in 1..n - 1, s[j] = s[n] PROVE FALSE
    <3>1. j \in DOMAIN s /\ j < n /\ j \in I
      BY <1>1, <1>2, <2>1
    <3> QED
      BY <1>1, <1>2, <3>1
  <2> QED
    BY <1>2, <2>1
<1>4. q = Serial!At(s, P) /\ P \in SUBSET DOMAIN s
  BY DEF Serial!Once
<1>5. s[n] = s[i]
  BY <1>2
<1> HIDE DEF P, I, q
<1>6. /\ DOMAIN Serial!At(s, P) = 1..Cardinality(P)
      /\ \A k \in DOMAIN Serial!At(s, P) : Serial!At(s, P)[k] = s[A[k]]
  BY <1>4, AtIs
<1>7. IsFiniteSet(P) /\ P \in SUBSET Nat
  BY <1>4, FinitePlaces
<1>8. PICK k \in 1..Cardinality(P) : A[k] = n
  BY <1>3, <1>7, RankIs
<1> QED
  BY <1>4, <1>5, <1>6, <1>8 DEF q

\* The greatest of places is one of them.
LEMMA GreatestOne ==
  ASSUME NEW n \in Nat, NEW I \in SUBSET (1..n), I # {} PROVE Serial!Max(I) \in I
<1> DEFINE J == {m \in Nat : n - m \in I}
<1>1. J # {} /\ J \in SUBSET Nat
  <2>1. PICK i : i \in I
    OBVIOUS
  <2>2. n - i \in Nat /\ n - (n - i) = i
    BY <2>1
  <2> QED
    BY <2>1, <2>2
<1> HIDE DEF J
<1>2. PICK m \in J : \A k \in J : m <= k
  BY <1>1, LeastNat
<1>3. n - m \in I /\ m \in Nat
  BY <1>2 DEF J
<1>4. \A i \in I : n - m >= i
  <2> SUFFICES ASSUME NEW i \in I PROVE n - m >= i
    OBVIOUS
  <2>1. n - i \in Nat /\ n - (n - i) = i /\ i \in Nat
    OBVIOUS
  <2>2. n - i \in J
    BY <2>1 DEF J
  <2> QED
    BY <1>2, <1>3, <2>1, <2>2
<1> QED
  BY <1>3, <1>4 DEF Serial!Max

-----------------------------------------------------------------------------
(* Console.  No probe is typed again whose last record is good: a call has *)
(* nothing left to do for a service that it was already answered by, and   *)
(* what it records are commands of the service it is at.                   *)
Listed(q) == q \in Seq({q[i] : i \in DOMAIN q})
Routes == {Serial!RouteOf(c) : c \in Cmds}
Differ(q) == \A m, n \in DOMAIN q : m # n => q[m] # q[n]

\* A service the call has still to ask.
Due(c) == \E n \in DOMAIN call.todo : call.todo[n] = Serial!RouteOf(c)

\* A call: whom it has to ask, and that it asks for nothing that is known.
CallOK ==
  /\ DOMAIN call = {"by", "single", "cmds", "todo", "results"}
  /\ call.cmds \in Seq(Cmds)
  /\ call.todo \in Seq(Routes) /\ Differ(call.todo)
  /\ call.by # "model" =>
       \A i \in DOMAIN call.cmds : Due(call.cmds[i]) => ~Serial!LastGood(call.cmds[i])

\* The records, by service.
CallsOK ==
  /\ DOMAIN calls = Serial!ServiceSet
  /\ \A s \in Serial!ServiceSet : Listed(calls[s])

\* What the runner keeps from call to call.
RunnerInv ==
  /\ CallsOK
  /\ call # Serial!NoCall => CallOK
  /\ exit # "none" => call # Serial!NoCall /\ call.todo # <<>> /\ Serial!Accepted # <<>>
  /\ retyped = {}

\* The commands of a call that are its service's.
ShareSet ==
  {c \in Cmds : Serial!RouteOf(c) = Serial!Service /\ \E i \in DOMAIN call.cmds : call.cmds[i] = c}
Writes(q) == Listed(q) /\ \A k \in DOMAIN q : q[k].cmd \in ShareSet

\* A service's share of a call, and what its gate lets through.
LEMMA ShareIs ==
  ASSUME CallOK
  PROVE  Serial!ShareCmds \in Seq(ShareSet) /\ Serial!Accepted \in Seq(ShareSet)
<1> DEFINE P == {i \in DOMAIN call.cmds : Serial!RouteOf(call.cmds[i]) = Serial!Service}
           S == Serial!ShareCmds
<1>1. call.cmds \in Seq(Cmds)
  BY DEF CallOK
<1>2. S = Serial!At(call.cmds, P)
  BY DEF Serial!ShareCmds, Serial!Share, Serial!Places, Serial!At
<1>3. P \in SUBSET DOMAIN call.cmds
  OBVIOUS
<1>4. \A i \in P : call.cmds[i] \in ShareSet
  BY <1>1 DEF ShareSet
<1> HIDE DEF P
<1>5. /\ S \in Seq(Cmds)
      /\ \A k \in DOMAIN S : \E i \in P : S[k] = call.cmds[i]
  BY <1>1, <1>2, <1>3, AtFrom
<1> HIDE DEF S
<1>6. S \in Seq(ShareSet)
  <2>1. \A k \in DOMAIN S : S[k] \in ShareSet
    BY <1>4, <1>5
  <2>2. S \in [1..Len(S) -> ShareSet] /\ Len(S) \in Nat
    BY <1>5, <2>1
  <2> QED
    BY <2>2
<1>7. Serial!Accepted \in Seq(ShareSet)
  <2> DEFINE Q == {i \in DOMAIN S : S[i] \notin Denied}
  <2>1. Serial!Accepted = Serial!At(S, Q)
    BY DEF Serial!Accepted, Serial!Those, S
  <2>2. Q \in SUBSET DOMAIN S
    OBVIOUS
  <2> HIDE DEF Q
  <2> QED
    BY <1>6, <2>1, <2>2, AtFrom
<1> QED
  BY <1>6, <1>7 DEF S

\* A record for each command is one of them.
LEMMA MappedWrites ==
  ASSUME NEW q \in Seq(ShareSet), NEW r, r = [i \in DOMAIN q |-> r[i]],
         \A i \in DOMAIN q : r[i].cmd = q[i]
  PROVE  Writes(r)
<1>1. DOMAIN q = 1..Len(q) /\ Len(q) \in Nat /\ \A i \in DOMAIN q : q[i] \in ShareSet
  OBVIOUS
<1> DEFINE V == {r[i] : i \in DOMAIN r}
<1>2. DOMAIN r = 1..Len(q)
  BY <1>1
<1>3. r \in [1..Len(q) -> V]
  BY <1>1, <1>2
<1>4. r \in Seq(V)
  <2> HIDE DEF V
  <2> QED
    BY <1>1, <1>3
<1> QED
  BY <1>1, <1>2, <1>4 DEF Writes, Listed

\* One list behind another: each element is of the one or the other.
Both(q, r, s) ==
  /\ Listed(s)
  /\ \A k \in DOMAIN q : k \in DOMAIN s /\ s[k] = q[k]
  /\ \A k \in DOMAIN s : k \in DOMAIN q \/ \E m \in DOMAIN r : s[k] = r[m]

\* That is what joining two lists gives.
LEMMA WritesBoth ==
  ASSUME NEW q, NEW r, Listed(q), Listed(r) PROVE Both(q, r, q \o r)
<1> DEFINE A == {q[i] : i \in DOMAIN q}
           B == {r[i] : i \in DOMAIN r}
           s == q \o r
<1>1. q \in Seq(A) /\ r \in Seq(B)
  BY DEF Listed
<1> HIDE DEF A, B
<1>2. q \in Seq(A \cup B) /\ r \in Seq(A \cup B)
  BY <1>1, SeqMonotonic
<1>3. /\ s \in Seq(A \cup B) /\ Len(s) = Len(q) + Len(r) /\ Len(q) \in Nat /\ Len(r) \in Nat
      /\ DOMAIN q = 1..Len(q) /\ DOMAIN r = 1..Len(r) /\ DOMAIN s = 1..Len(q) + Len(r)
      /\ \A i \in 1..Len(q) + Len(r) : s[i] = IF i <= Len(q) THEN q[i] ELSE r[i - Len(q)]
  BY <1>2, ConcatProperties
<1> HIDE DEF s
<1>4. \A k \in DOMAIN q : k \in DOMAIN s /\ s[k] = q[k]
  BY <1>3
<1>5. \A k \in DOMAIN s : k \in DOMAIN q \/ (k - Len(q) \in DOMAIN r /\ s[k] = r[k - Len(q)])
  BY <1>3
<1>6. Listed(s)
  <2> DEFINE V == {s[i] : i \in DOMAIN s}
  <2>1. s \in [1..Len(s) -> V] /\ Len(s) \in Nat
    BY <1>3
  <2> HIDE DEF V
  <2>2. s \in Seq(V)
    BY <2>1
  <2> QED
    BY <2>2 DEF Listed, V
<1> QED
  BY <1>4, <1>5, <1>6 DEF s, Both

\* Records of the share and more of them are such records.
LEMMA WritesMore ==
  ASSUME NEW q, NEW r, Writes(q), Writes(r) PROVE Writes(q \o r)
<1>1. Both(q, r, q \o r)
  BY WritesBoth DEF Writes
<1>2. \A s : Both(q, r, s) => Writes(s)
  BY DEF Both, Writes
<1> QED
  BY <1>1, <1>2

\* What is recorded says nothing of another service's commands.
LEMMA RecordedKeeps ==
  ASSUME CallsOK, NEW r, Writes(r), Serial!Recorded(r)
  PROVE  /\ CallsOK'
         /\ \A c : Serial!RouteOf(c) # Serial!Service =>
              (Serial!LastGood(c)' <=> Serial!LastGood(c))
<1>1. /\ DOMAIN calls' = DOMAIN calls
      /\ \A s \in Serial!ServiceSet :
           calls'[s] = IF s = Serial!Service THEN calls[s] \o r ELSE calls[s]
  BY DEF Serial!Recorded, CallsOK
<1>2. CallsOK'
  <2>1. \A s \in Serial!ServiceSet : Listed(calls'[s])
    <3> SUFFICES ASSUME NEW s \in Serial!ServiceSet PROVE Listed(calls'[s])
      OBVIOUS
    <3>1. Listed(calls[s]) /\ Listed(r)
      BY DEF CallsOK, Writes
    <3>2. Both(calls[s], r, calls[s] \o r)
      BY <3>1, WritesBoth
    <3>3. Listed(calls[s] \o r)
      BY <3>2 DEF Both
    <3> QED
      BY <1>1, <3>1, <3>3
  <2> QED
    BY <1>1, <2>1 DEF CallsOK
<1>3. ASSUME NEW c, Serial!RouteOf(c) # Serial!Service, NEW s \in Serial!ServiceSet, NEW k
      PROVE  /\ k \in DOMAIN calls'[s] /\ calls'[s][k].cmd = c <=>
                  k \in DOMAIN calls[s] /\ calls[s][k].cmd = c
             /\ k \in DOMAIN calls[s] => calls'[s][k] = calls[s][k]
  <2>1. CASE s = Serial!Service
    <3> DEFINE q == calls[s]
    <3>1. calls'[s] = q \o r /\ Listed(q)
      BY <1>1, <2>1 DEF CallsOK
    <3> HIDE DEF q
    <3>2. /\ \A m \in DOMAIN q : m \in DOMAIN (q \o r) /\ (q \o r)[m] = q[m]
          /\ \A m \in DOMAIN (q \o r) : m \in DOMAIN q \/ \E n \in DOMAIN r : (q \o r)[m] = r[n]
      <4>1. Both(q, r, q \o r)
        BY <3>1, WritesBoth DEF Writes
      <4> QED
        BY <4>1 DEF Both
    <3>3. \A n \in DOMAIN r : r[n].cmd # c
      BY <1>3 DEF Writes, ShareSet
    <3> QED
      BY <3>1, <3>2, <3>3 DEF q
  <2>2. CASE s # Serial!Service
    BY <1>1, <2>2
  <2> QED
    BY <2>1, <2>2
<1>4. ASSUME NEW c, Serial!RouteOf(c) # Serial!Service
      PROVE  Serial!LastGood(c)' <=> Serial!LastGood(c)
  <2>1. \A n \in DOMAIN Services : Services[n] \in Serial!ServiceSet
    BY DEF Serial!ServiceSet, Serial!ToSet
  <2>2. \A p : p \in Serial!RecordsOf(c)' <=> p \in Serial!RecordsOf(c)
    <3> SUFFICES ASSUME NEW p PROVE p \in Serial!RecordsOf(c)' <=> p \in Serial!RecordsOf(c)
      OBVIOUS
    <3>1. p \in Serial!RecordsOf(c) <=>
            \E n \in DOMAIN Services :
              /\ p \in {n} \X DOMAIN calls[Services[n]]
              /\ calls[Services[p[1]]][p[2]].cmd = c
      BY DEF Serial!RecordsOf, Serial!AllCalls, Serial!RecordAt
    <3>2. p \in Serial!RecordsOf(c)' <=>
            \E n \in DOMAIN Services :
              /\ p \in {n} \X DOMAIN calls'[Services[n]]
              /\ calls'[Services[p[1]]][p[2]].cmd = c
      BY DEF Serial!RecordsOf, Serial!AllCalls, Serial!RecordAt
    <3>3. ASSUME NEW n \in DOMAIN Services
          PROVE  (/\ p \in {n} \X DOMAIN calls'[Services[n]]
                  /\ calls'[Services[p[1]]][p[2]].cmd = c) <=>
                 (/\ p \in {n} \X DOMAIN calls[Services[n]]
                  /\ calls[Services[p[1]]][p[2]].cmd = c)
      <4>1. \A D : p \in {n} \X D <=> p = <<n, p[2]>> /\ p[2] \in D
        OBVIOUS
      <4>2. p = <<n, p[2]>> => p[1] = n
        OBVIOUS
      <4>3. /\ p[2] \in DOMAIN calls'[Services[n]] /\ calls'[Services[n]][p[2]].cmd = c <=>
                 p[2] \in DOMAIN calls[Services[n]] /\ calls[Services[n]][p[2]].cmd = c
        BY <1>3, <1>4, <2>1
      <4> QED
        BY <4>1, <4>2, <4>3
    <3> QED
      BY <3>1, <3>2, <3>3
  <2>3. Serial!RecordsOf(c)' = Serial!RecordsOf(c)
    BY <2>2
  <2>4. \A p \in Serial!RecordsOf(c) : Serial!RecordAt(p)' = Serial!RecordAt(p)
    <3> SUFFICES ASSUME NEW p \in Serial!RecordsOf(c) PROVE Serial!RecordAt(p)' = Serial!RecordAt(p)
      OBVIOUS
    <3>1. p[1] \in DOMAIN Services /\ p[2] \in DOMAIN calls[Services[p[1]]]
      BY DEF Serial!RecordsOf, Serial!AllCalls
    <3> QED
      BY <1>3, <1>4, <2>1, <3>1 DEF Serial!RecordAt
  <2> QED
    BY <2>3, <2>4 DEF Serial!LastGood
<1> QED
  BY <1>2, <1>4

\* A service that has answered is left.
LEMMA AnswerKeeps ==
  ASSUME CallOK, call.todo # <<>>, NEW results, Serial!Answer(results),
         \A c : Serial!RouteOf(c) # Serial!Service => (Serial!LastGood(c)' <=> Serial!LastGood(c))
  PROVE  CallOK'
<1>1. /\ DOMAIN call' = DOMAIN call /\ call'.by = call.by /\ call'.cmds = call.cmds
      /\ call'.todo = Tail(call.todo)
  BY DEF Serial!Answer, CallOK
<1> DEFINE q == call.todo
<1>2. q \in Seq(Routes) /\ Differ(q)
  BY DEF CallOK
<1> HIDE DEF q
<1>3. /\ Tail(q) \in Seq(Routes) /\ Head(q) = q[1] /\ Len(q) \in Nat
      /\ DOMAIN q = 1..Len(q) /\ 1 \in 1..Len(q) /\ DOMAIN Tail(q) = 1..Len(Tail(q))
      /\ \A i \in 1..Len(Tail(q)) : i + 1 \in 1..Len(q) /\ Tail(q)[i] = q[i + 1]
      /\ Len(Tail(q)) = Len(q) - 1
  <2>1. q # <<>>
    BY DEF q
  <2> QED
    BY <1>2, <2>1, Shorter
<1>4. ASSUME NEW m \in DOMAIN Tail(q), NEW n \in DOMAIN Tail(q), m # n PROVE Tail(q)[m] # Tail(q)[n]
  <2>1. m + 1 # n + 1
    BY <1>3, <1>4
  <2> QED
    BY <1>2, <1>3, <2>1 DEF Differ
<1>5. ASSUME NEW i \in DOMAIN call.cmds, call.by # "model",
             NEW n \in DOMAIN Tail(q), Tail(q)[n] = Serial!RouteOf(call.cmds[i])
      PROVE  ~Serial!LastGood(call.cmds[i])'
  <2>1. n + 1 \in DOMAIN q /\ q[n + 1] = Serial!RouteOf(call.cmds[i]) /\ n + 1 # 1
    BY <1>3, <1>5
  <2>2. q[n + 1] # q[1]
    BY <1>2, <1>3, <2>1 DEF Differ
  <2>3. Serial!RouteOf(call.cmds[i]) # Serial!Service
    BY <1>3, <2>1, <2>2 DEF Serial!Service, q
  <2>4. Due(call.cmds[i])
    BY <2>1 DEF Due, q
  <2>5. ~Serial!LastGood(call.cmds[i])
    BY <1>5, <2>4 DEF CallOK
  <2>6. \A c : c = call.cmds[i] => (Serial!LastGood(c)' <=> Serial!LastGood(c))
    BY <2>3
  <2>7. \A c : c = call.cmds[i] => (Serial!LastGood(c) <=> Serial!LastGood(call.cmds[i]))
    OBVIOUS
  <2> QED
    BY <1>1, <2>5, <2>6, <2>7
<1> QED
  BY <1>1, <1>2, <1>3, <1>4, <1>5 DEF CallOK, Due, Differ, q

\* What a step of the runner records for the service it is at.
LEMMA RefusedWrites == CallOK => Writes(Serial!RefusedRecords)
<1> SUFFICES ASSUME CallOK PROVE Writes(Serial!RefusedRecords)
  OBVIOUS
<1> DEFINE S == Serial!ShareCmds
           Q == {i \in DOMAIN S : S[i] \in Denied}
           bad == Serial!At(S, Q)
<1>1. Serial!RefusedRecords = [i \in DOMAIN bad |-> Serial!Refused(bad[i])]
  BY DEF Serial!RefusedRecords, Serial!Those
<1>2. S \in Seq(ShareSet)
  BY ShareIs
<1>3. Q \in SUBSET DOMAIN S
  OBVIOUS
<1> HIDE DEF S, Q
<1>4. bad \in Seq(ShareSet)
  BY <1>2, <1>3, AtFrom
<1>5. \A c : Serial!Refused(c).cmd = c
  BY DEF Serial!Refused, Serial!Record
<1> HIDE DEF bad
<1> QED
  BY <1>1, <1>4, <1>5, MappedWrites

\* A service answers: its records are kept, and it is left.
LEMMA ReplyKeeps ==
  ASSUME RunnerInv, exit' = "none", retyped' = retyped, call # Serial!NoCall, call.todo # <<>>,
         NEW results, Serial!Answer(results), NEW r, Writes(r), Serial!Recorded(r)
  PROVE  RunnerInv'
<1>1. /\ CallsOK'
      /\ \A c : Serial!RouteOf(c) # Serial!Service => (Serial!LastGood(c)' <=> Serial!LastGood(c))
  BY RecordedKeeps DEF RunnerInv
<1>2. CallOK'
  BY <1>1, AnswerKeeps DEF RunnerInv
<1> QED
  BY <1>1, <1>2 DEF RunnerInv

\* A runner raises: its records are kept, and the call ends.
LEMMA RaiseKeeps ==
  ASSUME RunnerInv, exit' = "none", retyped' = retyped, call' = Serial!NoCall,
         NEW r, Writes(r), Serial!Recorded(r)
  PROVE  RunnerInv'
<1>1. CallsOK'
  BY RecordedKeeps DEF RunnerInv
<1> QED
  BY <1>1 DEF RunnerInv

\* The commands a caller asks for: none of them has a good last record.
LEMMA AskedIs ==
  ASSUME NEW by \in {"prebatch", "collect", "followup"}, NEW plan \in Plans
  PROVE  /\ Serial!Asked(by, plan) \in Seq(Cmds)
         /\ \A i \in DOMAIN Serial!Asked(by, plan) : ~Serial!LastGood(Serial!Asked(by, plan)[i])
<1> DEFINE G == {i \in DOMAIN plan : ~Serial!EverGood(plan[i])}
           L == {i \in DOMAIN plan : ~Serial!LastGood(plan[i])}
           R == {i \in DOMAIN plan : ~Serial!EverRun(plan[i])}
           q == Serial!Asked(by, plan)
<1>1. plan \in Seq(Cmds)
  BY PartsAssumption DEF Serial!PlanAssumption
<1>2. /\ G \in SUBSET DOMAIN plan /\ L \in SUBSET DOMAIN plan /\ R \in SUBSET DOMAIN plan
  OBVIOUS
<1>3. \A P : P \in {G, L, R} => \A i \in P : ~Serial!LastGood(plan[i])
  BY DEF Serial!EverGood, Serial!EverRun, Serial!LastGood
<1>4. \/ q = Serial!Once(Serial!At(plan, G))
      \/ q = Serial!At(plan, L)
      \/ q = Serial!Once(Serial!At(plan, R))
  BY DEF Serial!Asked, Serial!Those
<1> HIDE DEF G, L, R, q
<1>5. ASSUME NEW P \in {G, L, R}
      PROVE  /\ Serial!At(plan, P) \in Seq(Cmds)
             /\ \A k \in DOMAIN Serial!At(plan, P) : ~Serial!LastGood(Serial!At(plan, P)[k])
             /\ Serial!Once(Serial!At(plan, P)) \in Seq(Cmds)
             /\ \A k \in DOMAIN Serial!Once(Serial!At(plan, P)) :
                  ~Serial!LastGood(Serial!Once(Serial!At(plan, P))[k])
  <2> DEFINE a == Serial!At(plan, P)
  <2>1. P \in SUBSET DOMAIN plan
    BY <1>2
  <2>2. a \in Seq(Cmds) /\ \A k \in DOMAIN a : \E i \in P : a[k] = plan[i]
    BY <1>1, <2>1, AtFrom
  <2>3. \A k \in DOMAIN a : ~Serial!LastGood(a[k])
    BY <1>3, <2>2
  <2> HIDE DEF a
  <2>4. /\ Serial!Once(a) \in Seq(Cmds)
        /\ \A k \in DOMAIN Serial!Once(a) : \E i \in DOMAIN a : Serial!Once(a)[k] = a[i]
    BY <2>2, OnceIs
  <2>5. \A k \in DOMAIN Serial!Once(a) : ~Serial!LastGood(Serial!Once(a)[k])
    BY <2>3, <2>4
  <2> QED
    BY <2>2, <2>3, <2>4, <2>5 DEF a
<1>6. q \in Seq(Cmds) /\ \A i \in DOMAIN q : ~Serial!LastGood(q[i])
  BY <1>4, <1>5
<1> QED
  BY <1>6 DEF q

\* A call starts with each of its services to come, once.
LEMMA CallStarts ==
  ASSUME CallsOK, NEW by, NEW single, NEW cmds \in Seq(Cmds), Serial!Call(by, single, cmds),
         UNCHANGED <<calls, exit, retyped>>, retyped = {}, exit = "none",
         by # "model" => \A i \in DOMAIN cmds : ~Serial!LastGood(cmds[i])
  PROVE  RunnerInv'
<1> DEFINE routes == [i \in DOMAIN cmds |-> Serial!RouteOf(cmds[i])]
<1>1. /\ DOMAIN call' = {"by", "single", "cmds", "todo", "results"}
      /\ call'.by = by /\ call'.cmds = cmds /\ call'.todo = Serial!Once(routes)
  BY DEF Serial!Call, Serial!GroupsOf
<1>2. routes \in Seq(Routes)
  <2>1. DOMAIN cmds = 1..Len(cmds) /\ Len(cmds) \in Nat /\ \A i \in DOMAIN cmds : cmds[i] \in Cmds
    OBVIOUS
  <2>2. routes \in [1..Len(cmds) -> Routes]
    BY <2>1 DEF Routes
  <2> HIDE DEF routes
  <2> QED
    BY <2>1, <2>2
<1> HIDE DEF routes
<1>3. call'.todo \in Seq(Routes) /\ Differ(call'.todo)
  BY <1>1, <1>2, OnceIs DEF Differ
<1>4. CallsOK' /\ \A c : Serial!LastGood(c)' <=> Serial!LastGood(c)
  BY DEF CallsOK, Serial!LastGood, Serial!RecordsOf, Serial!AllCalls, Serial!RecordAt
<1>5. CallOK'
  BY <1>1, <1>3, <1>4 DEF CallOK, Differ
<1> QED
  BY <1>4, <1>5 DEF RunnerInv

\* A session is started for commands without a good last record.
LEMMA NothingTypedAgain ==
  ASSUME RunnerInv, Serial!StartSession PROVE RunnerInv'
<1>1. /\ call # Serial!NoCall /\ call.todo # <<>> /\ Serial!Accepted # <<>>
      /\ retyped' = retyped \cup {c \in Serial!ToSet(Serial!Accepted) : Serial!LastGood(c) /\ call.by # "model"}
      /\ UNCHANGED <<calls, call>>
  BY DEF Serial!StartSession, Serial!NeedsSession, Serial!Working
<1>2. CallOK
  BY <1>1 DEF RunnerInv
<1>3. ASSUME NEW c \in Serial!ToSet(Serial!Accepted), Serial!LastGood(c), call.by # "model" PROVE FALSE
  <2>1. Serial!Accepted \in Seq(ShareSet)
    BY <1>2, ShareIs
  <2>2. PICK k \in DOMAIN Serial!Accepted : Serial!Accepted[k] = c
    BY DEF Serial!ToSet
  <2>3. c \in ShareSet
    BY <2>1, <2>2
  <2>4. PICK i \in DOMAIN call.cmds : call.cmds[i] = c
    BY <2>3 DEF ShareSet
  <2>5. 1 \in DOMAIN call.todo /\ Head(call.todo) = call.todo[1]
    BY <1>1, <1>2 DEF CallOK
  <2>6. Due(call.cmds[i])
    BY <2>3, <2>4, <2>5 DEF ShareSet, Due, Serial!Service
  <2> QED
    BY <1>2, <1>3, <2>4, <2>6 DEF CallOK
<1>4. retyped' = {}
  BY <1>1, <1>3 DEF RunnerInv
<1>5. CallsOK' /\ \A c : Serial!LastGood(c)' <=> Serial!LastGood(c)
  BY <1>1 DEF CallsOK, Serial!LastGood, Serial!RecordsOf, Serial!AllCalls, Serial!RecordAt, RunnerInv
<1>6. CallOK'
  BY <1>1, <1>2, <1>5 DEF CallOK, Due
<1>8. UNCHANGED call
  BY <1>1
<1>7. Serial!Accepted' = Serial!Accepted
  BY <1>8 DEF Serial!Accepted, Serial!Those, Serial!At, Serial!ShareCmds, Serial!Share,
     Serial!Places, Serial!Service
<1> QED
  BY <1>1, <1>4, <1>5, <1>6, <1>7 DEF RunnerInv

\* A step that makes no record and ends no call.
LEMMA AccountStands ==
  ASSUME RunnerInv, UNCHANGED <<calls, call, retyped>>, exit' # "none" => exit # "none"
  PROVE  RunnerInv'
<1>1. CallsOK' <=> CallsOK
  BY DEF CallsOK
<1>2. \A c : Serial!LastGood(c)' <=> Serial!LastGood(c)
  BY DEF Serial!LastGood, Serial!RecordsOf, Serial!AllCalls, Serial!RecordAt
<1>3. call # Serial!NoCall => CallOK'
  BY <1>2 DEF CallOK, Due, RunnerInv
<1>4. Serial!Accepted' = Serial!Accepted
  BY DEF Serial!Accepted, Serial!Those, Serial!At, Serial!ShareCmds, Serial!Share,
     Serial!Places, Serial!Service
<1> QED
  BY <1>1, <1>3, <1>4 DEF RunnerInv

\* The records of the probes that were accepted.
LEMMA AcceptedWrites ==
  ASSUME CallOK, NEW r, r = [i \in DOMAIN Serial!Accepted |-> r[i]],
         \A i \in DOMAIN Serial!Accepted : r[i].cmd = Serial!Accepted[i]
  PROVE  Writes(r) /\ Writes(Serial!RefusedRecords \o r)
BY ShareIs, MappedWrites, RefusedWrites, WritesMore

\* A service that cannot be asked fails its share.
LEMMA FailKeeps ==
  ASSUME RunnerInv, exit' = "none", retyped' = retyped, call # Serial!NoCall, call.todo # <<>>,
         Serial!FailShare
  PROVE  RunnerInv'
<1> DEFINE failures == [i \in DOMAIN Serial!Accepted |-> Serial!Failed(Serial!Accepted[i])]
<1>1. Serial!Answer(Serial!Woven(failures)) /\ Serial!Recorded(Serial!RefusedRecords \o failures)
  BY DEF Serial!FailShare
<1>2. /\ failures = [i \in DOMAIN Serial!Accepted |-> failures[i]]
      /\ \A i \in DOMAIN Serial!Accepted : failures[i].cmd = Serial!Accepted[i]
  BY DEF Serial!Failed, Serial!Record
<1> HIDE DEF failures
<1>3. Writes(Serial!RefusedRecords \o failures)
  BY <1>2, AcceptedWrites DEF RunnerInv
<1> QED
  BY <1>1, <1>3, ReplyKeeps

\* The output of a session is read and recorded.
LEMMA ReadKeeps ==
  ASSUME RunnerInv, Serial!ReadSingle \/ Serial!ReadBatch PROVE RunnerInv'
<1>1. exit' = "none" /\ retyped' = retyped /\ exit = "ok"
  BY DEF Serial!ReadSingle, Serial!ReadBatch, Serial!Cleared, Serial!Alive
<1>2. call # Serial!NoCall /\ call.todo # <<>> /\ Serial!Accepted # <<>> /\ CallOK
  BY <1>1 DEF RunnerInv
<1>3. \A s, c, b : Serial!Printed(s, c, b).cmd = c
  BY DEF Serial!Printed, Serial!Record
<1>4. CASE Serial!ReadSingle
  <2> DEFINE record == Serial!Printed(Serial!Service, Serial!Accepted[1], transcript)
             q == <<Serial!Accepted[1]>>
             r == <<record>>
  <2>1. Serial!Answer(r) /\ Serial!Recorded(r)
    BY <1>4 DEF Serial!ReadSingle
  <2>2. Serial!Accepted[1] \in ShareSet
    BY <1>2, ShareIs
  <2>3. q \in Seq(ShareSet)
    BY <2>2
  <2>4. record.cmd = Serial!Accepted[1]
    BY <1>3
  <2> HIDE DEF record
  <2>5. DOMAIN q = 1..1 /\ r = [i \in DOMAIN q |-> r[i]] /\ \A i \in DOMAIN q : r[i].cmd = q[i]
    BY <2>4
  <2> HIDE DEF q, r
  <2>6. Writes(r)
    BY <2>3, <2>5, MappedWrites
  <2> QED
    BY <1>1, <1>2, <2>1, <2>6, ReplyKeeps
<1>5. CASE Serial!ReadBatch
  <2> DEFINE blocks == Serial!SplitBatch(transcript, batch)
             r == [i \in DOMAIN Serial!Accepted |->
                     Serial!Printed(Serial!Service, Serial!Accepted[i], blocks[i])]
  <2>1. Serial!Answer(Serial!Woven(r)) /\ Serial!Recorded(Serial!RefusedRecords \o r)
    BY <1>5 DEF Serial!ReadBatch
  <2> HIDE DEF blocks
  <2>2. /\ r = [i \in DOMAIN Serial!Accepted |-> r[i]]
        /\ \A i \in DOMAIN Serial!Accepted : r[i].cmd = Serial!Accepted[i]
    BY <1>3
  <2> HIDE DEF r
  <2>3. Writes(Serial!RefusedRecords \o r)
    BY <1>2, <2>2, AcceptedWrites
  <2> QED
    BY <1>1, <1>2, <2>1, <2>3, ReplyKeeps
<1> QED
  BY <1>4, <1>5

\* What a runner recorded before its gate raised: commands it refused.
LEMMA GateRecords ==
  ASSUME RunnerInv, Serial!GateRaises
  PROVE  \E r : Writes(r) /\ Serial!Recorded(r) /\ \A i \in DOMAIN r : \E c : r[i] = Serial!Refused(c)
<1> DEFINE S == Serial!ShareCmds
           n == Serial!GateAt
           Q == {i \in 1..n - 1 : S[i] \in Denied}
           I == {i \in 1..Len(S) : S[i] \in Gated}
           before == Serial!At(S, Q)
           r == [i \in DOMAIN before |-> Serial!Refused(before[i])]
<1>1. /\ exit = "none" /\ exit' = "none" /\ retyped' = retyped /\ call # Serial!NoCall
      /\ call' = Serial!NoCall /\ n # 0 /\ Serial!Recorded(r)
  BY DEF Serial!GateRaises, Serial!Working, Serial!dialogueVars
<1>2. S \in Seq(ShareSet)
  BY <1>1, ShareIs DEF RunnerInv
<1>3. n = IF I # {} THEN Serial!Min(I) ELSE 0
  BY DEF Serial!GateAt, Serial!SelectInSeq
<1>4. n \in 1..Len(S)
  <2>1. I \in SUBSET Nat /\ I # {} /\ I \subseteq 1..Len(S)
    BY <1>1, <1>3
  <2> HIDE DEF I, n
  <2> QED
    BY <1>3, <2>1, Least
<1>5. Q \in SUBSET DOMAIN S
  <2>1. DOMAIN S = 1..Len(S) /\ Len(S) \in Nat
    BY <1>2
  <2> HIDE DEF S, n
  <2> QED
    BY <1>4, <2>1
<1> HIDE DEF S, Q, n, I
<1>6. before \in Seq(ShareSet)
  BY <1>2, <1>5, AtFrom
<1>7. \A c : Serial!Refused(c).cmd = c
  BY DEF Serial!Refused, Serial!Record
<1> HIDE DEF before
<1>8. Writes(r)
  BY <1>6, <1>7, MappedWrites
<1>9. \A i \in DOMAIN r : \E c : r[i] = Serial!Refused(c)
  OBVIOUS
<1> HIDE DEF r
<1> QED
  BY <1>1, <1>8, <1>9

\* The gate of a runner raises.
LEMMA GateKeeps ==
  ASSUME RunnerInv, Serial!GateRaises PROVE RunnerInv'
<1>1. exit' = "none" /\ retyped' = retyped /\ call' = Serial!NoCall
  BY DEF Serial!GateRaises, Serial!Working, Serial!dialogueVars
<1>2. PICK r : Writes(r) /\ Serial!Recorded(r)
  BY GateRecords
<1> QED
  BY <1>1, <1>2, RaiseKeeps

\* A runner over the console raises.
LEMMA RaisesKeep ==
  ASSUME RunnerInv, Serial!ConsoleRaises PROVE RunnerInv'
<1>1. /\ exit' = "none" /\ retyped' = retyped /\ call' = Serial!NoCall
      /\ Serial!Recorded(Serial!RefusedRecords)
  BY DEF Serial!ConsoleRaises, Serial!Cleared
<1>2. call # Serial!NoCall
  BY DEF Serial!ConsoleRaises, Serial!NeedsSession, Serial!Working, RunnerInv
<1>3. Writes(Serial!RefusedRecords)
  BY <1>2, RefusedWrites DEF RunnerInv
<1> QED
  BY <1>1, <1>3, RaiseKeeps

\* The runner's invariant through every step of Console.
LEMMA RunnerKeeps ==
  ASSUME RunnerInv, Serial!Next PROVE RunnerInv'
<1> USE DEF Serial!dialogueVars, Serial!runnerVars, Serial!Working
<1>1. CASE Serial!BatchCall
  <2>1. PICK by \in {"prebatch", "collect", "followup"}, plan \in Plans :
          Serial!Call(by, FALSE, Serial!Asked(by, plan))
    BY <1>1 DEF Serial!BatchCall
  <2>2. /\ UNCHANGED <<calls, exit, retyped>>
        /\ call = Serial!NoCall
    BY <1>1 DEF Serial!BatchCall, Serial!Idle
  <2>3. CallsOK /\ retyped = {} /\ exit = "none"
    BY <2>2 DEF RunnerInv
  <2>4. /\ Serial!Asked(by, plan) \in Seq(Cmds)
        /\ \A i \in DOMAIN Serial!Asked(by, plan) : ~Serial!LastGood(Serial!Asked(by, plan)[i])
    BY AskedIs
  <2> QED
    BY <2>1, <2>2, <2>3, <2>4, CallStarts
<1>2. CASE Serial!SingleCall
  <2>1. /\ UNCHANGED <<calls, exit, retyped>>
        /\ call = Serial!NoCall
        /\ \/ Serial!Call("model", TRUE, <<ModelProbe>>)
           \/ \E cmd \in Chain : ~Serial!LastGood(cmd) /\ Serial!Call("chain", TRUE, <<cmd>>)
    BY <1>2 DEF Serial!SingleCall, Serial!Idle
  <2>2. CallsOK /\ retyped = {} /\ exit = "none"
    BY <2>1 DEF RunnerInv
  <2>3. ModelProbe \in Cmds /\ Chain \subseteq Cmds
    BY PartsAssumption DEF Serial!PlanAssumption
  <2>4. CASE Serial!Call("model", TRUE, <<ModelProbe>>)
    <3>1. <<ModelProbe>> \in Seq(Cmds)
      BY <2>3
    <3> QED
      BY <2>1, <2>2, <2>4, <3>1, CallStarts
  <2>5. ASSUME NEW cmd \in Chain, ~Serial!LastGood(cmd), Serial!Call("chain", TRUE, <<cmd>>)
        PROVE  RunnerInv'
    <3> DEFINE q == <<cmd>>
    <3>1. q \in Seq(Cmds) /\ \A i \in DOMAIN q : q[i] = cmd
      BY <2>3
    <3>2. \A i \in DOMAIN q : ~Serial!LastGood(q[i])
      BY <2>5, <3>1
    <3>3. Serial!Call("chain", TRUE, q)
      BY <2>5
    <3> HIDE DEF q
    <3> QED
      BY <2>1, <2>2, <3>1, <3>2, <3>3, CallStarts
  <2> QED
    BY <2>1, <2>4, <2>5
<1>3. CASE Serial!GateRaises
  BY <1>3, GateKeeps
<1>4. CASE Serial!AllRefused
  <2>1. /\ exit' = "none" /\ retyped' = retyped /\ call # Serial!NoCall /\ call.todo # <<>>
        /\ Serial!Answer(Serial!Woven(<<>>)) /\ Serial!Recorded(Serial!RefusedRecords)
    BY <1>4 DEF Serial!AllRefused
  <2>2. Writes(Serial!RefusedRecords)
    BY <2>1, RefusedWrites DEF RunnerInv
  <2> QED
    BY <2>1, <2>2, ReplyKeeps
<1>5. CASE Serial!ServeCached
  <2>1. /\ exit = "none" /\ UNCHANGED <<calls, exit, retyped>>
        /\ call # Serial!NoCall /\ call.todo # <<>>
        /\ Serial!Answer(<<Serial!Cached>>)
    BY <1>5 DEF Serial!ServeCached
  <2>2. CallsOK' /\ \A c : Serial!LastGood(c)' <=> Serial!LastGood(c)
    BY <2>1 DEF CallsOK, Serial!LastGood, Serial!RecordsOf, Serial!AllCalls, Serial!RecordAt, RunnerInv
  <2>3. CallOK'
    BY <2>1, <2>2, AnswerKeeps DEF RunnerInv
  <2> QED
    BY <2>1, <2>2, <2>3 DEF RunnerInv
<1>6. CASE Serial!OpenFails
  <2>1. /\ exit' = "none" /\ retyped' = retyped /\ call # Serial!NoCall /\ call.todo # <<>>
        /\ Serial!FailShare
    BY <1>6 DEF Serial!OpenFails, Serial!NeedsSession
  <2> QED
    BY <2>1, FailKeeps
<1>7. CASE Serial!StartSession
  BY <1>7, NothingTypedAgain
<1>8. CASE Serial!SessionDied
  <2>1. /\ exit' = "none" /\ retyped' = retyped /\ exit # "none" /\ Serial!FailShare
    BY <1>8 DEF Serial!SessionDied, Serial!Dead, Serial!Cleared
  <2> QED
    BY <2>1, FailKeeps DEF RunnerInv
<1>9. CASE Serial!ReadSingle \/ Serial!ReadBatch
  BY <1>9, ReadKeeps
<1>10. CASE Serial!Return
  <2>1. /\ UNCHANGED <<calls, exit, retyped>> /\ exit = "none" /\ call' = Serial!NoCall
    BY <1>10 DEF Serial!Return
  <2>2. CallsOK' <=> CallsOK
    BY <2>1 DEF CallsOK
  <2> QED
    BY <2>1, <2>2 DEF RunnerInv
<1>11. CASE Serial!ConsoleRaises
  BY <1>11, RaisesKeep
<1>12. CASE Serial!Talking
  <2>1. UNCHANGED <<calls, call, retyped>> /\ exit # "none"
    BY <1>12, Running DEF Serial!Talking
  <2> QED
    BY <2>1, AccountStands
<1>13. CASE Serial!Over
  <2>1. UNCHANGED <<calls, call, retyped, exit>>
    BY <1>13 DEF Serial!Over, Serial!vars
  <2> QED
    BY <2>1, AccountStands
<1> QED
  BY <1>1, <1>2, <1>3, <1>4, <1>5, <1>6, <1>7, <1>8, <1>9, <1>10, <1>11, <1>12, <1>13
  DEF Serial!Next, Serial!Runner

-----------------------------------------------------------------------------
(* The dialogue and the runner together.                                   *)

\* There is something to type when a session is opened.
LEMMA WiresToType ==
  ASSUME CallOK, Serial!Accepted # <<>>
  PROVE  Serial!WireList \in Seq(Wires) /\ Len(Serial!WireList) # 0
<1> DEFINE a == Serial!Accepted
<1>1. a \in Seq(Cmds)
  <2>1. ShareSet \subseteq Cmds
    BY DEF ShareSet
  <2> QED
    BY <2>1, ShareIs, SeqMonotonic
<1>2. DOMAIN a = 1..Len(a) /\ Len(a) \in Nat \ {0} /\ \A i \in DOMAIN a : a[i] \in Cmds
  BY <1>1
<1>3. WireOf \in [Cmds -> Wires]
  BY PartsAssumption DEF Serial!CommandAssumption
<1>4. Serial!WireList = [i \in DOMAIN a |-> WireOf[a[i]]]
  BY DEF Serial!WireList
<1> HIDE DEF a
<1>5. Serial!WireList \in [1..Len(a) -> Wires]
  BY <1>2, <1>3, <1>4
<1> QED
  BY <1>2, <1>5

\* A script that is opened is at its first phase.
LEMMA SessionOpens ==
  ASSUME RunnerInv, Serial!StartSession PROVE DialogueInv'
<1> DEFINE setup == SetupOf[Serial!Service]
           cmds == Serial!WireList
           banner == IF setup.direct THEN <<>> ELSE <<Serial!Prompt("rack")>>
<1>1. /\ CallOK /\ Serial!Accepted # <<>> /\ Serial!Launch(setup, cmds)
  BY DEF Serial!StartSession, Serial!NeedsSession, Serial!Working, RunnerInv
<1>2. cmds \in Seq(Wires) /\ Len(cmds) # 0
  BY <1>1, WiresToType
<1> HIDE DEF setup, cmds
<1>3. /\ script' = Serial!Script(setup, cmds) /\ unread' = banner /\ typed' = <<>>
      /\ reader' = "rack" /\ running' = Serial!NoLine /\ exit' = "running"
      /\ heard' = {} /\ ~anchored'
  BY <1>1 DEF Serial!Launch
<1>4. AtRack(script') \/ AtStart(script')
  BY <1>2, <1>3, ScriptOpens
<1>5. unread' \in Seq(Printable) /\ \A t \in Prompts : ~In(unread', t)
  <2>1. Serial!Prompt("rack") \in Printable /\ Serial!Prompt("rack") \notin Prompts
    BY Tokens
  <2>2. <<>> \in Seq(Printable) /\ <<Serial!Prompt("rack")>> \in Seq(Printable)
    BY <2>1
  <2> QED
    BY <1>3, <2>1, <2>2, OneOrTwo
<1>6. Types'
  BY <1>3, <1>5 DEF Types
<1>7. RackPhase'
  BY <1>3, <1>4, <1>5 DEF RackPhase, Prompts
<1> QED
  BY <1>3, <1>6, <1>7 DEF DialogueInv, Opens

\* A step that leaves the dialogue alone.
LEMMA DialogueStands ==
  ASSUME DialogueInv, UNCHANGED <<script, unread, typed, reader, running, heard, anchored, exit>>
  PROVE  DialogueInv'
<1>1. Types' /\ Opens' = Opens /\ Astray' = Astray
  BY DEF DialogueInv, Types, Opens, RackPhase, StartPhase, UserPhase, AskedPhase, NodePhase,
     Astray, Serial!ProbesTyped
<1>2. Anchored' <=> Anchored
  BY DEF Anchored, Talks, Leaves, SudoNext, Proceeds, SudoLater, SudoSoon, SudoTyped
<1> QED
  BY <1>1, <1>2 DEF DialogueInv

\* The session's variables, once its transcript has been read, or before it.
LEMMA DialogueOver ==
  ASSUME exit' = "none", heard' = {}, anchored' = FALSE, unread' = <<>>, typed' = <<>>,
         running' = Serial!NoLine
  PROVE  DialogueInv'
<1>1. <<>> \in Seq(Printable) /\ <<>> \in Seq(Serial!Lines)
  OBVIOUS
<1> QED
  BY <1>1 DEF DialogueInv, Types

\* The dialogue and the runner.
SerialInv == DialogueInv /\ RunnerInv

\* Both are kept by every step of Console.
LEMMA SerialKeeps ==
  ASSUME SerialInv, Serial!Next PROVE SerialInv'
<1>1. RunnerInv'
  BY RunnerKeeps DEF SerialInv
<1>2. DialogueInv'
  <2>1. CASE Serial!StartSession
    BY <2>1, SessionOpens DEF SerialInv
  <2>2. CASE Serial!SessionDied \/ Serial!ReadSingle \/ Serial!ReadBatch \/ Serial!ConsoleRaises
    <3>1. Serial!Cleared
      BY <2>2 DEF Serial!SessionDied, Serial!ReadSingle, Serial!ReadBatch, Serial!ConsoleRaises
    <3> QED
      BY <3>1, DialogueOver DEF Serial!Cleared
  <2>3. CASE Serial!Talking
    BY <2>3, DialogueGoesOn DEF SerialInv, Serial!Talking
  <2>4. CASE Serial!BatchCall \/ Serial!SingleCall \/ Serial!GateRaises \/ Serial!AllRefused
             \/ Serial!ServeCached \/ Serial!OpenFails \/ Serial!Return \/ Serial!Over
    <3>1. UNCHANGED Serial!dialogueVars
      BY <2>4 DEF Serial!BatchCall, Serial!SingleCall, Serial!GateRaises, Serial!AllRefused,
         Serial!ServeCached, Serial!OpenFails, Serial!Return, Serial!Over, Serial!vars
    <3>2. UNCHANGED <<script, unread, typed, reader, running, heard, anchored, exit>>
      BY <3>1 DEF Serial!dialogueVars, Serial!terminalVars
    <3> QED
      BY <3>2, DialogueStands DEF SerialInv
  <2> QED
    BY <2>1, <2>2, <2>3, <2>4 DEF Serial!Next, Serial!Runner
<1> QED
  BY <1>1, <1>2 DEF SerialInv

\* Both hold when no call was made.
LEMMA SerialStarts == Serial!Init => SerialInv
<1> SUFFICES ASSUME Serial!Init PROVE SerialInv
  OBVIOUS
<1>1. /\ exit = "none" /\ heard = {} /\ anchored = FALSE /\ unread = <<>> /\ typed = <<>>
      /\ running = Serial!NoLine /\ call = Serial!NoCall /\ retyped = {}
      /\ calls = [s \in Serial!ServiceSet |-> <<>>]
  BY DEF Serial!Init, Serial!Fresh
<1>2. <<>> \in Seq(Printable) /\ <<>> \in Seq(Serial!Lines)
  OBVIOUS
<1>3. DialogueInv
  BY <1>1, <1>2 DEF DialogueInv, Types
<1>4. Listed(<<>>)
  BY DEF Listed
<1>5. RunnerInv
  BY <1>1, <1>4 DEF RunnerInv, CallsOK
<1> QED
  BY <1>3, <1>5 DEF SerialInv

\* Both hold of every session.
LEMMA SerialInvariant == Spec => []SerialInv
<1>1. Init => SerialInv
  BY SerialStarts DEF Init
<1>2. SerialInv /\ [Next]_vars => SerialInv'
  <2> SUFFICES ASSUME SerialInv, [Next]_vars PROVE SerialInv'
    OBVIOUS
  <2>1. Serial!Next \/ UNCHANGED serialVars
    BY DEF Next, StreamStep, EditorStep, SerialStep, RedfishStep, MenuStep, ModelStep, vars
  <2>2. CASE UNCHANGED serialVars
    <3>1. UNCHANGED <<script, unread, typed, reader, running, heard, anchored, exit>>
      BY <2>2 DEF serialVars
    <3>2. UNCHANGED <<calls, call, retyped>> /\ exit' = exit
      BY <2>2 DEF serialVars
    <3> QED
      BY <3>1, <3>2, DialogueStands, AccountStands DEF SerialInv
  <2> QED
    BY <2>1, <2>2, SerialKeeps
<1> QED
  BY <1>1, <1>2, PTL DEF Spec

-----------------------------------------------------------------------------
(* What the transcript of a session is worth to the runner.                *)
Heeds == \E b, setup, R : batch = b /\ Rest(setup, b, R) /\ Told(b, R)
Sound ==
  /\ late \in Nat
  /\ exit # "none" => batch = Serial!WireList /\ batch \in Seq(Wires) /\ Len(batch) # 0
  /\ exit = "running" /\ late = 0 => Heeds
  /\ exit = "ok" /\ late = 0 =>
       transcript \in Seq(Printable) /\ Tells(transcript, batch, Len(batch), Len(batch))

\* The lines of a share change with the call only.
LEMMA SameWires == ASSUME call' = call PROVE Serial!WireList' = Serial!WireList
BY DEF Serial!WireList, Serial!Accepted, Serial!ShareCmds, Serial!Share, Serial!Service,
   Serial!Places, Serial!Those, Serial!At, Serial!Ascending

\* The dialogue tells what it is asked.
LEMMA DialogueTells ==
  ASSUME DialogueInv, Sound, Serial!Dialogue, UNCHANGED <<call, batch>>
  PROVE  Sound'
<1>1. exit = "running" /\ exit' # "none"
  BY Running
<1>2. batch = Serial!WireList /\ batch \in Seq(Wires) /\ Len(batch) # 0 /\ late \in Nat
  BY <1>1 DEF Sound
<1>3. Serial!WireList' = Serial!WireList
  BY SameWires
<1>4. late' \in Nat /\ (late' = 0 => late = 0)
  BY <1>2, LateGrows
<1>5. CASE late' = 0
  <2>1. PICK b, setup, R : batch = b /\ Rest(setup, b, R) /\ Told(b, R)
    BY <1>1, <1>4, <1>5 DEF Sound, Heeds
  <2>2. b \in Seq(Wires) /\ Len(b) # 0
    BY <1>2, <2>1
  <2>3. /\ exit' = "running" => Told(b, R)'
        /\ exit' = "ok" => transcript' \in Seq(Printable) /\ Tells(transcript', b, Len(b), Len(b))
    BY <1>2, <1>5, <2>1, <2>2, ToldOn
  <2>4. batch' = b
    BY <2>1
  <2>5. exit' = "running" => Heeds'
    BY <2>1, <2>3, <2>4 DEF Heeds
  <2> QED
    BY <1>1, <1>2, <1>3, <1>4, <2>1, <2>3, <2>4, <2>5 DEF Sound
<1>6. CASE late' # 0
  BY <1>2, <1>3, <1>4, <1>6 DEF Sound
<1> QED
  BY <1>5, <1>6

\* A session starts with everything to be told.
LEMMA SessionTells ==
  ASSUME RunnerInv, Serial!StartSession PROVE Sound'
<1> DEFINE setup == SetupOf[Serial!Service]
           cmds == Serial!WireList
           banner == IF setup.direct THEN <<>> ELSE <<Serial!Prompt("rack")>>
<1>1. /\ CallOK /\ Serial!Accepted # <<>> /\ Serial!Launch(setup, cmds)
      /\ batch' = cmds /\ call' = call
  BY DEF Serial!StartSession, Serial!NeedsSession, Serial!Working, RunnerInv
<1>2. cmds \in Seq(Wires) /\ Len(cmds) # 0
  BY <1>1, WiresToType
<1>3. Serial!WireList' = cmds
  BY <1>1, SameWires
<1>4. PICK c, su : c = cmds /\ su = setup
  OBVIOUS
<1> DEFINE shown == IF su.direct THEN <<>> ELSE <<Serial!Prompt("rack")>>
<1>5. /\ script' = Serial!Script(su, c) /\ unread' = shown /\ transcript' = shown /\ typed' = <<>>
      /\ reader' = "rack" /\ running' = Serial!NoLine /\ exit' = "running"
      /\ heard' = {} /\ ~anchored' /\ late' = 0 /\ batch' = c
      /\ c \in Seq(Wires) /\ Len(c) # 0 /\ Serial!WireList' = c
  BY <1>1, <1>2, <1>3, <1>4 DEF Serial!Launch
<1> HIDE DEF setup, cmds
<1>6. PICK R : Rest(su, c, R)
  BY <1>5, RestIs
<1>7. R[0] = Body(su, c)
  BY <1>5, <1>6, BodyIs
<1>8. \/ AtRack(script') /\ Tail(Tail(Tail(script'))) = R[0]
      \/ AtStart(script') /\ Tail(Tail(script')) = R[0]
  BY <1>5, <1>7, ScriptOpens
<1>9. /\ unread' \in Seq(Printable) /\ transcript' \in Seq(Printable) /\ Plain(transcript')
      /\ \A t \in Prompts : ~In(unread', t)
  <2>1. Serial!Prompt("rack") \in Printable /\ Serial!Prompt("rack") \notin Prompts
        /\ ~Mark(Serial!Prompt("rack"))
    BY Tokens, Unmarked
  <2>2. <<>> \in Seq(Printable) /\ <<Serial!Prompt("rack")>> \in Seq(Printable)
    BY <2>1
  <2>3. Plain(<<>>) /\ Plain(<<Serial!Prompt("rack")>>)
    BY <2>1 DEF Plain
  <2> QED
    BY <1>5, <2>1, <2>2, <2>3, OneOrTwo
<1>10. RackPhase'
  BY <1>5, <1>8, <1>9 DEF RackPhase, Prompts
<1>11. Opened(R[0])'
  BY <1>5, <1>8, <1>9, <1>10 DEF Opened
<1>12. Told(c, R)'
  BY <1>9, <1>11 DEF Told
<1>13. Heeds'
  BY <1>5, <1>6, <1>12 DEF Heeds
<1> QED
  BY <1>5, <1>13 DEF Sound

\* The runner and the dialogue keep it.
LEMMA SoundKeeps ==
  ASSUME SerialInv, Sound, Serial!Next PROVE Sound'
<1> USE DEF Serial!dialogueVars, Serial!runnerVars
<1>1. DialogueInv /\ RunnerInv
  BY DEF SerialInv
<1>2. ASSUME exit' = "none", late' \in Nat PROVE Sound'
  BY <1>2 DEF Sound
<1>3. late \in Nat
  BY DEF Sound
<1>4. CASE Serial!BatchCall \/ Serial!SingleCall
  <2>1. call = Serial!NoCall /\ UNCHANGED <<exit, late>>
    BY <1>4 DEF Serial!BatchCall, Serial!SingleCall, Serial!Idle
  <2>2. exit = "none"
    BY <1>1, <2>1 DEF RunnerInv
  <2> QED
    BY <1>2, <1>3, <2>1, <2>2
<1>5. CASE Serial!GateRaises \/ Serial!AllRefused \/ Serial!ServeCached \/ Serial!OpenFails
           \/ Serial!Return
  <2>1. exit = "none" /\ UNCHANGED <<exit, late>>
    BY <1>5 DEF Serial!GateRaises, Serial!AllRefused, Serial!ServeCached, Serial!OpenFails,
       Serial!Return, Serial!Working, Serial!NeedsSession
  <2> QED
    BY <1>2, <1>3, <2>1
<1>6. CASE Serial!StartSession
  BY <1>1, <1>6, SessionTells
<1>7. CASE Serial!SessionDied \/ Serial!ReadSingle \/ Serial!ReadBatch \/ Serial!ConsoleRaises
  <2>1. Serial!Cleared
    BY <1>7 DEF Serial!SessionDied, Serial!ReadSingle, Serial!ReadBatch, Serial!ConsoleRaises
  <2>2. exit' = "none" /\ late' = 0
    BY <2>1 DEF Serial!Cleared
  <2> QED
    BY <1>2, <2>2
<1>8. CASE Serial!Talking
  <2>1. Serial!Dialogue /\ UNCHANGED <<call, batch>>
    BY <1>8 DEF Serial!Talking
  <2> QED
    BY <1>1, <2>1, DialogueTells
<1>9. CASE Serial!Over
  <2>1. call = Serial!NoCall /\ UNCHANGED <<exit, late>>
    BY <1>9 DEF Serial!Over, Serial!vars
  <2>2. exit = "none"
    BY <1>1, <2>1 DEF RunnerInv
  <2> QED
    BY <1>2, <1>3, <2>1, <2>2
<1> QED
  BY <1>4, <1>5, <1>6, <1>7, <1>8, <1>9 DEF Serial!Next, Serial!Runner

\* A stuttering step does.
LEMMA SoundStands ==
  ASSUME Sound, UNCHANGED <<script, unread, transcript, typed, reader, running, authed, heard,
                            exit, anchored, late, call, batch>>
  PROVE  Sound'
<1>1. Serial!WireList' = Serial!WireList
  BY SameWires
<1>2. ASSUME NEW b, NEW R, Told(b, R) PROVE Told(b, R)'
  <2>1. Lost => Lost'
    BY DEF Lost
  <2>2. Opened(R[0]) => Opened(R[0])'
    <3>1. /\ RackPhase' <=> RackPhase
          /\ StartPhase' <=> StartPhase
          /\ UserPhase' <=> UserPhase
          /\ AskedPhase' <=> AskedPhase
          /\ NodePhase' <=> NodePhase
      BY DEF RackPhase, StartPhase, UserPhase, AskedPhase, NodePhase
    <3> QED
      BY <3>1 DEF Opened
  <2>3. ASSUME NEW k \in 0..Len(b) - 1
        PROVE  /\ Ready(b, R[k], k) => Ready(b, R[k], k)'
               /\ Asks(b, R[k + 1], k) => Asks(b, R[k + 1], k)'
    <3>1. Ready(b, R[k], k) => Ready(b, R[k], k)'
      BY DEF Ready
    <3>2. /\ Put(b, R[k + 1], k) => Put(b, R[k + 1], k)'
          /\ LetIn(b, R[k + 1], k) => LetIn(b, R[k + 1], k)'
      BY DEF Put, LetIn
    <3>3. /\ Runs(b, R[k + 1], k) => Runs(b, R[k + 1], k)'
          /\ Ended(b, R[k + 1], k) => Ended(b, R[k + 1], k)'
      BY DEF Runs, Ended
    <3> QED
      BY <3>1, <3>2, <3>3 DEF Asks
  <2>4. Closes(b) => Closes(b)'
    BY DEF Closes
  <2>5. CASE \E k \in 0..Len(b) - 1 : Ready(b, R[k], k) \/ Asks(b, R[k + 1], k)
    <3>1. \E k \in 0..Len(b) - 1 : Ready(b, R[k], k)' \/ Asks(b, R[k + 1], k)'
      <4>1. PICK k \in 0..Len(b) - 1 : Ready(b, R[k], k) \/ Asks(b, R[k + 1], k)
        BY <2>5
      <4>2. Ready(b, R[k], k)' \/ Asks(b, R[k + 1], k)'
        BY <2>3, <4>1
      <4> QED
        BY <4>2
    <3>2. transcript \in Seq(Printable) => Told(b, R)'
      BY <3>1 DEF Told
    <3> QED
      BY <1>2, <2>1, <2>2, <2>4, <3>2 DEF Told
  <2> QED
    BY <1>2, <2>1, <2>2, <2>4, <2>5 DEF Told
<1>3. Heeds => Heeds'
  BY <1>2 DEF Heeds
<1> QED
  BY <1>1, <1>3 DEF Sound

-----------------------------------------------------------------------------
(* What the records hold.                                                  *)

\* A record that is clean is of what its own probe printed.
Own(s, r) ==
  r.clean /\ r.exit \in {0, 127} =>
    /\ r.out = <<Serial!Out(WireOf[r.cmd])>>
    /\ r.exit = 127 <=> <<s, ProgramOf[r.cmd]>> \in Missing

\* The one output of a block is what is taken from it.
LEMMA OutputTaken ==
  ASSUME NEW q, NEW t, OneOut(q, t) PROVE Serial!Outputs(q) = <<t>>
<1> DEFINE P == {i \in DOMAIN q : q[i][1] = "out"}
           a == Serial!At(q, P)
<1>1. q \in Seq(Printable) /\ DOMAIN q = 1..Len(q)
  BY DEF OneOut
<1>2. PICK p \in 1..Len(q) : q[p] = t /\ t[1] = "out" /\ \A k \in 1..Len(q) : q[k][1] = "out" => k = p
  BY DEF OneOut
<1>3. P = {p}
  BY <1>1, <1>2
<1>4. Serial!Outputs(q) = a
  BY DEF Serial!Outputs, Serial!Those
<1>5. P \in SUBSET DOMAIN q
  OBVIOUS
<1> HIDE DEF P, a
<1>6. Cardinality(P) = 1
  BY <1>3, FS_Singleton
<1>7. /\ DOMAIN a = 1..Cardinality(P) /\ a \in Seq(Printable)
      /\ \A k \in DOMAIN a : Serial!Ascending(P)[k] \in P /\ a[k] = q[Serial!Ascending(P)[k]]
  BY <1>1, <1>5, AtIs DEF a
<1>8. Len(a) = 1 /\ DOMAIN a = 1..1 /\ 1 \in 1..1
  BY <1>1, <1>5, <1>6, <1>7, AtIs DEF a
<1>9. a[1] = t
  BY <1>2, <1>3, <1>7, <1>8
<1>10. a \in Seq(Printable)
  BY <1>7
<1> HIDE DEF OneOut
<1>11. ASSUME NEW S, NEW x \in Seq(S), Len(x) = 1, x[1] = t PROVE x = <<t>>
  BY <1>11
<1> QED
  BY <1>4, <1>8, <1>9, <1>10, <1>11

\* A record of a probe, whatever was printed.
LEMMA PrintedIs ==
  ASSUME NEW s, NEW c, NEW q
  PROVE  LET r == Serial!Printed(s, c, q) IN
         /\ DOMAIN r = {"cmd", "exit", "out", "clean"} /\ r.cmd = c /\ r.exit \in {0, 127}
         /\ r.clean <=> late = 0
         /\ r.out = Serial!Outputs(q) /\ (r.exit = 127 <=> Serial!NotFound(s, c, q))
<1> DEFINE r == Serial!Printed(s, c, q)
           n == Serial!NotFound(s, c, q)
           o == Serial!Outputs(q)
           z == late = 0
<1>1. r = [cmd |-> c, exit |-> IF n THEN 127 ELSE 0, out |-> o, clean |-> z]
  BY DEF Serial!Printed, Serial!Record
<1> HIDE DEF r, n, o, z
<1>2. /\ DOMAIN r = {"cmd", "exit", "out", "clean"} /\ r.cmd = c /\ r.out = o /\ r.clean = z
      /\ r.exit = IF n THEN 127 ELSE 0
  BY <1>1
<1>3. r.exit \in {0, 127} /\ (r.exit = 127 <=> n)
  BY <1>2
<1> QED
  BY <1>2, <1>3 DEF r, n, o, z

\* When its block is the probe's own, so is the record.
LEMMA PrintedOwn ==
  ASSUME NEW s, NEW c \in Cmds, NEW q, late = 0 => OneOut(q, Serial!Out(WireOf[c]))
  PROVE  Own(s, Serial!Printed(s, c, q))
<1> DEFINE r == Serial!Printed(s, c, q)
<1>1. /\ r.cmd = c /\ (r.clean <=> late = 0)
      /\ r.out = Serial!Outputs(q) /\ (r.exit = 127 <=> Serial!NotFound(s, c, q))
  BY PrintedIs
<1> HIDE DEF r
<1>2. ASSUME late = 0 PROVE r.out = <<Serial!Out(WireOf[c])>>
  BY <1>1, <1>2, OutputTaken
<1>3. ASSUME late = 0 PROVE Serial!NotFound(s, c, q) <=> <<s, ProgramOf[c]>> \in Missing
  <2>1. PICK p \in 1..Len(q) : q[p] = Serial!Out(WireOf[c])
    BY <1>3 DEF OneOut
  <2>2. p \in DOMAIN q
    BY <1>3 DEF OneOut
  <2>3. Serial!NotFound(s, c, q) => <<s, ProgramOf[c]>> \in Missing
    BY DEF Serial!NotFound
  <2>4. <<s, ProgramOf[c]>> \in Missing => Serial!NotFound(s, c, q)
    BY <2>1, <2>2 DEF Serial!NotFound
  <2> QED
    BY <2>3, <2>4
<1> QED
  BY <1>1, <1>2, <1>3 DEF Own, r

\* The records of what was refused or failed claim nothing.
LEMMA UnrunOwn ==
  \A s, c : Own(s, Serial!Refused(c)) /\ Own(s, Serial!Failed(c))
BY DEF Own, Serial!Refused, Serial!Failed, Serial!Record

-----------------------------------------------------------------------------
(* The answers of a call: each at the place of its command.                *)

\* The places of a service's share.
SharePlaces == {i \in DOMAIN call.cmds : Serial!RouteOf(call.cmds[i]) = Serial!Service}

\* The share names its places, each once.
LEMMA SharesAre ==
  ASSUME call.cmds \in Seq(Cmds)
  PROVE  /\ DOMAIN Serial!Share = 1..Cardinality(SharePlaces) /\ Cardinality(SharePlaces) \in Nat
         /\ Len(Serial!Share) = Cardinality(SharePlaces)
         /\ \A k \in DOMAIN Serial!Share : Serial!Share[k] \in SharePlaces
         /\ \A i \in SharePlaces : \E k \in DOMAIN Serial!Share : Serial!Share[k] = i
<1> DEFINE P == SharePlaces
           A == Serial!Share
<1>1. P \in SUBSET DOMAIN call.cmds
  BY DEF SharePlaces
<1>2. A = Serial!Ascending(P)
  BY DEF Serial!Share, Serial!Places, SharePlaces
<1> HIDE DEF P, A
<1>3. IsFiniteSet(P) /\ P \in SUBSET Nat
  BY <1>1, FinitePlaces
<1>4. A \in [1..Cardinality(P) -> P] /\ Cardinality(P) \in Nat
  BY <1>2, <1>3, AscendingIs
<1>5. \A i \in P : \E k \in 1..Cardinality(P) : A[k] = i
  BY <1>2, <1>3, RankIs
<1>6. Len(A) = Cardinality(P)
  BY <1>4
<1> QED
  BY <1>4, <1>5, <1>6 DEF P, A

\* An answer is put at the places of the share, and changes no other.
LEMMA AnswerPuts ==
  ASSUME call.cmds \in Seq(Cmds), NEW results, Serial!Answer(results),
         DOMAIN call = {"by", "single", "cmds", "todo", "results"}
  PROVE  /\ call'.cmds = call.cmds /\ call'.single = call.single /\ call'.todo = Tail(call.todo)
         /\ DOMAIN call'.results = DOMAIN call.results
         /\ \A i \in DOMAIN call.results :
              \/ i \notin SharePlaces /\ call'.results[i] = call.results[i]
              \/ \E k \in DOMAIN Serial!Share : Serial!Share[k] = i /\ call'.results[i] = results[k]
<1> DEFINE A == Serial!Share
           N(i) == {k \in 1..Len(A) : A[k] = i}
           found(i) == Serial!SelectInSeq(A, LAMBDA p : p = i)
           old == call.results
<1>1. /\ call'.cmds = call.cmds /\ call'.single = call.single /\ call'.todo = Tail(call.todo)
      /\ call'.results = [i \in DOMAIN old |->
           IF Serial!Contains(A, i) THEN results[found(i)] ELSE old[i]]
  BY DEF Serial!Answer
<1>2. /\ DOMAIN A = 1..Len(A) /\ Len(A) \in Nat
      /\ \A k \in DOMAIN A : A[k] \in SharePlaces
      /\ \A i \in SharePlaces : \E k \in DOMAIN A : A[k] = i
  BY SharesAre
<1>3. \A i : found(i) = IF N(i) # {} THEN Serial!Min(N(i)) ELSE 0
  BY DEF Serial!SelectInSeq
<1>4. \A i : Serial!Contains(A, i) <=> N(i) # {}
  BY DEF Serial!Contains
<1> HIDE DEF A, found, old
<1>5. ASSUME NEW i, N(i) # {} PROVE found(i) \in N(i)
  <2>1. N(i) \in SUBSET Nat
    OBVIOUS
  <2> HIDE DEF N
  <2>2. Serial!Min(N(i)) \in N(i)
    BY <1>5, <2>1, Least
  <2> QED
    BY <1>3, <1>5, <2>2
<1>6. ASSUME NEW i \in DOMAIN old
      PROVE  \/ i \notin SharePlaces /\ call'.results[i] = old[i]
             \/ \E k \in DOMAIN A : A[k] = i /\ call'.results[i] = results[k]
  <2>1. CASE N(i) = {}
    <3>1. i \notin SharePlaces
      BY <1>2, <2>1
    <3>2. ~Serial!Contains(A, i)
      BY <1>4, <2>1
    <3> QED
      BY <1>1, <3>1, <3>2
  <2>2. CASE N(i) # {}
    <3>1. found(i) \in 1..Len(A) /\ A[found(i)] = i
      BY <1>5, <2>2
    <3>2. Serial!Contains(A, i)
      BY <1>4, <2>2
    <3>3. call'.results[i] = results[found(i)]
      BY <1>1, <3>2
    <3> QED
      BY <1>2, <3>1, <3>3
  <2> QED
    BY <2>1, <2>2
<1>7. DOMAIN call'.results = DOMAIN old
  BY <1>1
<1> QED
  BY <1>1, <1>6, <1>7 DEF A, old

\* An answer that is its command's: through the wire form, refused or not.
Right(r, c) ==
  /\ r # Serial!NoResult
  /\ WireOf[r.cmd] = WireOf[c]
  /\ r.exit = 2 <=> c \in Denied

\* A call's answers: each is right, or its service is still to be asked.
ReplyOK ==
  /\ DOMAIN call.results = DOMAIN call.cmds
  /\ call.single => \A i \in DOMAIN call.cmds : i = 1
  /\ \A i \in DOMAIN call.cmds : Due(call.cmds[i]) \/ Right(call.results[i], call.cmds[i])

\* A record is no missing one.
LEMMA RecordsAre ==
  ASSUME NEW c, NEW n, NEW o, NEW z
  PROVE  LET r == Serial!Record(c, n, o, z) IN
         r # Serial!NoResult /\ r.cmd = c /\ r.exit = n /\ r.out = o /\ r.clean = z
<1> DEFINE r == Serial!Record(c, n, o, z)
<1>1. r = [cmd |-> c, exit |-> n, out |-> o, clean |-> z]
  BY DEF Serial!Record
<1>2. "cmd" \in DOMAIN r
  BY <1>1
<1>3. DOMAIN <<>> = {}
  OBVIOUS
<1>4. r # Serial!NoResult
  BY <1>2, <1>3 DEF Serial!NoResult
<1> QED
  BY <1>1, <1>4

\* Which records are right.
LEMMA RightRecords ==
  /\ \A c \in Denied : Right(Serial!Refused(c), c)
  /\ \A c : c \notin Denied => Right(Serial!Failed(c), c)
  /\ \A s, c, q : c \notin Denied =>
       /\ Right(Serial!Printed(s, c, q), c)
       /\ Serial!Printed(s, c, q).exit \in {0, 127} /\ Serial!Printed(s, c, q).cmd = c
<1>1. \A c \in Denied : Right(Serial!Refused(c), c)
  <2> SUFFICES ASSUME NEW c \in Denied PROVE Right(Serial!Refused(c), c)
    OBVIOUS
  <2> DEFINE r == Serial!Refused(c)
  <2>1. r # Serial!NoResult /\ r.cmd = c /\ r.exit = 2
    <3>1. r = [cmd |-> c, exit |-> 2, out |-> <<>>, clean |-> TRUE]
      BY DEF Serial!Refused, Serial!Record
    <3> HIDE DEF r
    <3>2. "cmd" \in DOMAIN r /\ r.cmd = c /\ r.exit = 2
      BY <3>1
    <3>3. DOMAIN <<>> = {}
      OBVIOUS
    <3> QED
      BY <3>2, <3>3 DEF Serial!NoResult
  <2> HIDE DEF r
  <2> QED
    BY <2>1 DEF Right, r
<1>2. \A c : c \notin Denied => Right(Serial!Failed(c), c)
  <2> SUFFICES ASSUME NEW c, c \notin Denied PROVE Right(Serial!Failed(c), c)
    OBVIOUS
  <2> DEFINE r == Serial!Failed(c)
  <2>1. r # Serial!NoResult /\ r.cmd = c /\ r.exit = 1
    <3>1. r = [cmd |-> c, exit |-> 1, out |-> <<>>, clean |-> TRUE]
      BY DEF Serial!Failed, Serial!Record
    <3> HIDE DEF r
    <3>2. "cmd" \in DOMAIN r /\ r.cmd = c /\ r.exit = 1
      BY <3>1
    <3>3. DOMAIN <<>> = {}
      OBVIOUS
    <3> QED
      BY <3>2, <3>3 DEF Serial!NoResult
  <2> HIDE DEF r
  <2> QED
    BY <2>1 DEF Right, r
<1>3. ASSUME NEW s, NEW c, NEW q, c \notin Denied
      PROVE  /\ Right(Serial!Printed(s, c, q), c)
             /\ Serial!Printed(s, c, q).exit \in {0, 127} /\ Serial!Printed(s, c, q).cmd = c
  <2> DEFINE r == Serial!Printed(s, c, q)
  <2>1. r # Serial!NoResult
    BY RecordsAre DEF Serial!Printed
  <2>2. r.cmd = c /\ r.exit \in {0, 127}
    BY PrintedIs
  <2> HIDE DEF r
  <2> QED
    BY <1>3, <2>1, <2>2 DEF Right, r
<1> QED
  BY <1>1, <1>2, <1>3

\* What a share's commands and the accepted ones among them are.
LEMMA SharedAre ==
  ASSUME CallOK
  PROVE  LET S == Serial!ShareCmds
             Q == {i \in DOMAIN S : S[i] \notin Denied}
             a == Serial!Accepted
         IN  /\ S \in Seq(Cmds) /\ DOMAIN S = DOMAIN Serial!Share
             /\ \A k \in DOMAIN S : S[k] = call.cmds[Serial!Share[k]]
             /\ a \in Seq(Cmds) /\ DOMAIN a = 1..Cardinality(Q)
             /\ \A m \in DOMAIN a : Serial!Ascending(Q)[m] \in Q /\ a[m] = S[Serial!Ascending(Q)[m]]
             /\ \A m \in DOMAIN a : a[m] \in Cmds /\ a[m] \notin Denied
             /\ IsFiniteSet(Q) /\ Q \in SUBSET Nat
<1> DEFINE S == Serial!ShareCmds
           Q == {i \in DOMAIN S : S[i] \notin Denied}
           a == Serial!Accepted
           A == Serial!Ascending(Q)
<1>1. S \in Seq(Cmds) /\ a \in Seq(Cmds)
  <2>1. ShareSet \subseteq Cmds
    BY DEF ShareSet
  <2> QED
    BY <2>1, ShareIs, SeqMonotonic
<1>2. DOMAIN S = DOMAIN Serial!Share /\ \A k \in DOMAIN S : S[k] = call.cmds[Serial!Share[k]]
  BY DEF Serial!ShareCmds
<1>3. a = Serial!At(S, Q)
  BY DEF Serial!Accepted, Serial!Those
<1>4. Q \in SUBSET DOMAIN S /\ \A i \in Q : S[i] \notin Denied
  OBVIOUS
<1> HIDE DEF S, Q, a, A
<1>5. /\ DOMAIN a = 1..Cardinality(Q)
      /\ \A m \in DOMAIN a : A[m] \in Q /\ a[m] = S[A[m]]
  BY <1>1, <1>3, <1>4, AtIs DEF A
<1>6. IsFiniteSet(Q) /\ Q \in SUBSET Nat
  BY <1>1, <1>4, FinitePlaces
<1>7. \A m \in DOMAIN a : a[m] \in Cmds /\ a[m] \notin Denied
  BY <1>1, <1>4, <1>5
<1> QED
  BY <1>1, <1>2, <1>5, <1>6, <1>7 DEF S, Q, a, A

\* The answers of a share: right where those of its accepted commands are.
LEMMA WovenRight ==
  ASSUME CallOK, NEW r, \A m \in DOMAIN Serial!Accepted : Right(r[m], Serial!Accepted[m])
  PROVE  \A k \in DOMAIN Serial!ShareCmds : Right(Serial!Woven(r)[k], Serial!ShareCmds[k])
<1> DEFINE S == Serial!ShareCmds
           Q == {i \in DOMAIN S : S[i] \notin Denied}
           a == Serial!Accepted
           A == Serial!Ascending(Q)
           C(k) == Serial!Cardinality({j \in 1..k : S[j] \notin Denied})
           w == Serial!Woven(r)
<1>1. /\ S \in Seq(Cmds) /\ DOMAIN a = 1..Cardinality(Q)
      /\ \A m \in DOMAIN a : a[m] = S[A[m]]
      /\ IsFiniteSet(Q) /\ Q \in SUBSET Nat
  BY SharedAre
<1>2. \A k \in DOMAIN S : w[k] = IF S[k] \in Denied THEN Serial!Refused(S[k]) ELSE r[C(k)]
  BY DEF Serial!Woven
<1>3. ASSUME NEW k \in DOMAIN S PROVE C(k) = Cardinality(Upto(Q, k))
  <2>1. DOMAIN S = 1..Len(S) /\ Len(S) \in Nat
    BY <1>1
  <2>2. {j \in 1..k : S[j] \notin Denied} = Upto(Q, k)
    <3> HIDE DEF S
    <3> QED
      BY <2>1 DEF Upto
  <2> QED
    BY <2>2, SameCount
<1>4. \A m \in DOMAIN a : Right(r[m], a[m])
  OBVIOUS
<1>5. \A k \in DOMAIN S : k \in Q <=> S[k] \notin Denied
  OBVIOUS
<1> HIDE DEF S, Q, a, A, C, w
<1>6. ASSUME NEW k \in DOMAIN S PROVE Right(w[k], S[k])
  <2>1. CASE S[k] \in Denied
    BY <1>2, <2>1, RightRecords
  <2>2. CASE S[k] \notin Denied
    <3>1. k \in Q
      BY <1>5, <2>2
    <3>2. C(k) \in 1..Cardinality(Q) /\ A[C(k)] = k
      BY <1>1, <1>3, <3>1, RankIs DEF A
    <3>3. a[C(k)] = S[k] /\ Right(r[C(k)], a[C(k)])
      BY <1>1, <1>4, <3>2
    <3> QED
      BY <1>2, <2>2, <3>3
  <2> QED
    BY <2>1, <2>2
<1> QED
  BY <1>6 DEF S, w

\* A service answers its share, and the others' answers stay.
LEMMA AnswerRight ==
  ASSUME CallOK, ReplyOK, call.todo # <<>>, NEW results, Serial!Answer(results),
         \A k \in DOMAIN Serial!ShareCmds : Right(results[k], Serial!ShareCmds[k])
  PROVE  ReplyOK'
<1>1. /\ call'.cmds = call.cmds /\ call'.single = call.single /\ call'.todo = Tail(call.todo)
      /\ DOMAIN call'.results = DOMAIN call.results
      /\ \A i \in DOMAIN call.results :
           \/ i \notin SharePlaces /\ call'.results[i] = call.results[i]
           \/ \E k \in DOMAIN Serial!Share : Serial!Share[k] = i /\ call'.results[i] = results[k]
  BY AnswerPuts DEF CallOK
<1>2. /\ DOMAIN Serial!ShareCmds = DOMAIN Serial!Share
      /\ \A k \in DOMAIN Serial!ShareCmds : Serial!ShareCmds[k] = call.cmds[Serial!Share[k]]
  BY SharedAre
<1> DEFINE q == call.todo
<1>3. q \in Seq(Routes) /\ q # <<>>
  BY DEF CallOK
<1>4. q[1] = Serial!Service
  BY <1>3 DEF Serial!Service
<1> HIDE DEF q
<1>5. ASSUME NEW n \in DOMAIN q, q[n] # q[1] PROVE \E m \in DOMAIN Tail(q) : Tail(q)[m] = q[n]
  <2>1. /\ DOMAIN q = 1..Len(q) /\ Len(q) \in Nat
        /\ DOMAIN Tail(q) = 1..Len(Tail(q)) /\ Len(Tail(q)) = Len(q) - 1
        /\ \A i \in 1..Len(Tail(q)) : Tail(q)[i] = q[i + 1]
    BY <1>3, Shorter
  <2>2. n # 1
    BY <1>5
  <2>3. PICK m : m = n - 1
    OBVIOUS
  <2>4. m \in 1..Len(Tail(q)) /\ m + 1 = n
    BY <2>1, <2>2, <2>3
  <2> QED
    BY <2>1, <2>4
<1>6. ASSUME NEW i \in DOMAIN call.cmds
      PROVE  \/ \E m \in DOMAIN Tail(q) : Tail(q)[m] = Serial!RouteOf(call.cmds[i])
             \/ Right(call'.results[i], call.cmds[i])
  <2>1. i \in DOMAIN call.results
    BY DEF ReplyOK
  <2>2. CASE i \notin SharePlaces /\ call'.results[i] = call.results[i]
    <3>1. Serial!RouteOf(call.cmds[i]) # q[1]
      BY <1>4, <2>2 DEF SharePlaces
    <3>2. Due(call.cmds[i]) \/ Right(call.results[i], call.cmds[i])
      BY DEF ReplyOK
    <3>3. CASE Due(call.cmds[i])
      <4>1. PICK n \in DOMAIN q : q[n] = Serial!RouteOf(call.cmds[i])
        BY <3>3 DEF Due, q
      <4> QED
        BY <1>5, <3>1, <4>1
    <3> QED
      BY <2>2, <3>2, <3>3
  <2>3. CASE \E k \in DOMAIN Serial!Share : Serial!Share[k] = i /\ call'.results[i] = results[k]
    <3>1. PICK k \in DOMAIN Serial!Share : Serial!Share[k] = i /\ call'.results[i] = results[k]
      BY <2>3
    <3> QED
      BY <1>2, <3>1
  <2> QED
    BY <1>1, <2>1, <2>2, <2>3
<1>7. DOMAIN call'.results = DOMAIN call'.cmds
      /\ (call'.single => \A i \in DOMAIN call'.cmds : i = 1)
  BY <1>1 DEF ReplyOK
<1>8. ASSUME NEW i \in DOMAIN call'.cmds
      PROVE  Due(call.cmds[i])' \/ Right(call'.results[i], call'.cmds[i])
  BY <1>1, <1>6, <1>8 DEF Due, q
<1> QED
  BY <1>7, <1>8 DEF ReplyOK, Right, Due

\* The one command of a call.
LEMMA OneAccepted ==
  ASSUME CallOK, \A i \in DOMAIN call.cmds : i = 1, Serial!Accepted # <<>>
  PROVE  /\ \A k \in DOMAIN Serial!ShareCmds : k = 1 /\ Serial!ShareCmds[1] = Serial!Accepted[1]
         /\ \A m \in DOMAIN Serial!Accepted : m = 1
         /\ 1 \in DOMAIN Serial!Accepted
<1> DEFINE S == Serial!ShareCmds
           Q == {i \in DOMAIN S : S[i] \notin Denied}
           a == Serial!Accepted
           A == Serial!Ascending(Q)
<1>1. /\ DOMAIN S = DOMAIN Serial!Share /\ a \in Seq(Cmds) /\ DOMAIN a = 1..Cardinality(Q)
      /\ \A m \in DOMAIN a : A[m] \in Q /\ a[m] = S[A[m]]
  BY SharedAre
<1>2. IsFiniteSet({1}) /\ Cardinality({1}) = 1
  BY FS_Singleton
<1>3. ASSUME NEW T \in SUBSET {1} PROVE Cardinality(T) \in Nat /\ Cardinality(T) <= 1
  BY <1>2, FS_Subset, FS_CardinalityType
<1>4. SharePlaces \in SUBSET {1}
  BY DEF SharePlaces
<1>5. DOMAIN S = 1..Cardinality(SharePlaces)
  BY <1>1, SharesAre DEF CallOK
<1>6. \A k \in DOMAIN S : k = 1
  <2>1. Cardinality(SharePlaces) \in Nat /\ Cardinality(SharePlaces) <= 1
    BY <1>3, <1>4
  <2> HIDE DEF S
  <2> QED
    BY <1>5, <2>1
<1>7. Q \in SUBSET {1} /\ Q \subseteq DOMAIN S
  BY <1>6
<1>8. a # <<>>
  OBVIOUS
<1> HIDE DEF S, Q, a, A
<1>9. \A m \in DOMAIN a : m = 1
  <2>1. Cardinality(Q) \in Nat /\ Cardinality(Q) <= 1
    BY <1>3, <1>7
  <2> QED
    BY <1>1, <2>1
<1>10. 1 \in DOMAIN a
  <2>1. a \in Seq(Cmds)
    BY <1>1
  <2>2. DOMAIN a = 1..Len(a) /\ Len(a) \in Nat /\ Len(a) # 0
    BY <1>8, <2>1
  <2> QED
    BY <2>2
<1>11. A[1] = 1 /\ a[1] = S[1]
  BY <1>1, <1>6, <1>7, <1>10
<1> QED
  BY <1>6, <1>9, <1>10, <1>11 DEF S, a

-----------------------------------------------------------------------------
(* The records and the cache.                                              *)

\* A list of records of what their own probes printed.
AllOwn(s, q) == Listed(q) /\ \A k \in DOMAIN q : Own(s, q[k])

\* The records of every service.
CallsOwn == \A s \in Serial!ServiceSet : AllOwn(s, calls[s])

\* What is kept of each wire command is an answer to one.
CacheOK ==
  /\ DOMAIN cache = Serial!ServiceSet
  /\ \A s \in Serial!ServiceSet, w \in Wires :
       cache[s][w] # Serial!NoResult => WireOf[cache[s][w].cmd] = w /\ cache[s][w].exit \in {0, 127}

\* What the runner has answered, recorded and kept.
ReplyInv == CallsOwn /\ CacheOK /\ (call # Serial!NoCall => ReplyOK)

\* One list behind another.
LEMMA OwnMore == ASSUME NEW s, NEW q, NEW r, AllOwn(s, q), AllOwn(s, r) PROVE AllOwn(s, q \o r)
<1>1. Both(q, r, q \o r)
  BY WritesBoth DEF AllOwn
<1>2. \A p : Both(q, r, p) => AllOwn(s, p)
  BY DEF Both, AllOwn
<1> QED
  BY <1>1, <1>2

\* What is recorded joins the records of the service.
LEMMA RecordedOwn ==
  ASSUME CallsOK, CallsOwn, NEW r, AllOwn(Serial!Service, r), Serial!Recorded(r)
  PROVE  CallsOwn'
<1> DEFINE v == Serial!Service
<1>1. \A s \in Serial!ServiceSet : calls'[s] = IF s = v THEN calls[s] \o r ELSE calls[s]
  BY DEF Serial!Recorded, CallsOK
<1>2. AllOwn(v, r)
  OBVIOUS
<1> HIDE DEF v
<1>3. ASSUME NEW s \in Serial!ServiceSet PROVE AllOwn(s, calls'[s])
  <2>1. AllOwn(s, calls[s])
    BY DEF CallsOwn
  <2>2. s = v => AllOwn(s, calls[s] \o r)
    BY <1>2, <2>1, OwnMore
  <2> QED
    BY <1>1, <2>1, <2>2
<1> QED
  BY <1>3 DEF CallsOwn, AllOwn, Own

\* Records that claim nothing are their own.
LEMMA UnrunAllOwn ==
  ASSUME NEW s, NEW r, Listed(r),
         \A i \in DOMAIN r : \E c : r[i] = Serial!Refused(c) \/ r[i] = Serial!Failed(c)
  PROVE  AllOwn(s, r)
BY UnrunOwn DEF AllOwn

\* So are those of the refused commands.
LEMMA RefusedAllOwn == CallOK => \A s : AllOwn(s, Serial!RefusedRecords)
<1> SUFFICES ASSUME CallOK, NEW s PROVE AllOwn(s, Serial!RefusedRecords)
  OBVIOUS
<1> DEFINE r == Serial!RefusedRecords
<1>1. Listed(r)
  BY RefusedWrites DEF Writes
<1>2. \A i \in DOMAIN r : \E c : r[i] = Serial!Refused(c)
  BY DEF Serial!RefusedRecords
<1> HIDE DEF r
<1>3. AllOwn(s, r)
  BY <1>1, <1>2, UnrunAllOwn
<1> QED
  BY <1>3 DEF r

\* A service is one of the configured ones.
LEMMA RouteIs == \A c : Serial!RouteOf(c) \in Serial!ServiceSet
<1> SUFFICES ASSUME NEW c PROVE Serial!RouteOf(c) \in Serial!ServiceSet
  OBVIOUS
<1> DEFINE I == {i \in 1..Len(Services) : ProgramOf[c] \in Table[Services[i]]}
           found == Serial!SelectInSeq(Services, LAMBDA s : ProgramOf[c] \in Table[s])
<1>1. Services \in Seq(DOMAIN Table) /\ Services # <<>>
  BY PartsAssumption DEF Serial!ServiceAssumption
<1>2. 1 \in DOMAIN Services /\ DOMAIN Services = 1..Len(Services)
  BY <1>1
<1>3. found = IF I # {} THEN Serial!Min(I) ELSE 0
  BY DEF Serial!SelectInSeq
<1>4. Serial!RouteOf(c) = IF found # 0 THEN Services[found]
         ELSE IF "default" \in Serial!ServiceSet THEN "default" ELSE Services[1]
  BY DEF Serial!RouteOf
<1>5. I \in SUBSET Nat /\ I \in SUBSET DOMAIN Services
  BY <1>2
<1> HIDE DEF I, found
<1>6. found # 0 => found \in DOMAIN Services
  BY <1>3, <1>5, Least
<1>7. \A i \in DOMAIN Services : Services[i] \in Serial!ServiceSet
  BY DEF Serial!ServiceSet, Serial!ToSet
<1> QED
  BY <1>2, <1>4, <1>6, <1>7

\* A call has a service it is at.
LEMMA ServiceIs ==
  ASSUME CallOK, call.todo # <<>> PROVE Serial!Service \in Serial!ServiceSet
<1>1. call.todo \in Seq(Routes)
  BY DEF CallOK
<1>2. Serial!Service \in Routes
  BY <1>1 DEF Serial!Service
<1> QED
  BY <1>2, RouteIs DEF Routes

-----------------------------------------------------------------------------
(* The steps of the runner.                                                *)

\* A call starts with everything still to be asked.
LEMMA ReplyStarts ==
  ASSUME ReplyInv, NEW by, NEW single \in BOOLEAN, NEW cmds \in Seq(Cmds), Serial!Call(by, single, cmds),
         UNCHANGED <<calls, cache>>, single => \A i \in DOMAIN cmds : i = 1
  PROVE  ReplyInv'
<1> DEFINE routes == [i \in DOMAIN cmds |-> Serial!RouteOf(cmds[i])]
<1>1. /\ call'.cmds = cmds /\ call'.todo = Serial!Once(routes) /\ call'.single = single
      /\ call'.results = [i \in DOMAIN cmds |-> Serial!NoResult]
  BY DEF Serial!Call, Serial!GroupsOf
<1>2. routes \in Seq(Routes)
  <2>1. DOMAIN cmds = 1..Len(cmds) /\ Len(cmds) \in Nat /\ \A i \in DOMAIN cmds : cmds[i] \in Cmds
    OBVIOUS
  <2>2. routes \in [1..Len(cmds) -> Routes]
    BY <2>1 DEF Routes
  <2> HIDE DEF routes
  <2> QED
    BY <2>1, <2>2
<1>3. DOMAIN routes = DOMAIN cmds /\ \A i \in DOMAIN cmds : routes[i] = Serial!RouteOf(cmds[i])
  OBVIOUS
<1> HIDE DEF routes
<1>4. \A i \in DOMAIN cmds : Due(cmds[i])'
  <2> SUFFICES ASSUME NEW i \in DOMAIN cmds
               PROVE \E n \in DOMAIN call'.todo : call'.todo[n] = Serial!RouteOf(cmds[i])
    BY DEF Due
  <2>1. \E k \in DOMAIN Serial!Once(routes) : Serial!Once(routes)[k] = routes[i]
    BY <1>2, <1>3, OnceAll
  <2> QED
    BY <1>1, <1>3, <2>1
<1>5. \A i \in DOMAIN call'.cmds : Due(call.cmds[i])'
  BY <1>1, <1>4 DEF Due
<1>6. ReplyOK'
  BY <1>1, <1>5 DEF ReplyOK
<1>7. CallsOwn' /\ CacheOK'
  BY DEF ReplyInv, CallsOwn, AllOwn, Own, CacheOK
<1> QED
  BY <1>6, <1>7 DEF ReplyInv

\* A step that leaves the records, the cache and the call, or ends the call.
LEMMA ReplyStands ==
  ASSUME ReplyInv, UNCHANGED <<calls, cache>>, call' = call \/ call' = Serial!NoCall
  PROVE  ReplyInv'
<1>1. CallsOwn' /\ CacheOK'
  BY DEF ReplyInv, CallsOwn, AllOwn, Own, CacheOK
<1>2. call' = call /\ ReplyOK => ReplyOK'
  BY DEF ReplyOK, Right, Due
<1> QED
  BY <1>1, <1>2 DEF ReplyInv

\* A runner raises: what it recorded claims nothing.
LEMMA ReplyRaises ==
  ASSUME RunnerInv, ReplyInv, cache' = cache, call' = Serial!NoCall,
         NEW r, AllOwn(Serial!Service, r), Serial!Recorded(r)
  PROVE  ReplyInv'
<1>1. CallsOwn'
  BY RecordedOwn DEF RunnerInv, ReplyInv
<1>2. CacheOK'
  BY DEF ReplyInv, CacheOK
<1> QED
  BY <1>1, <1>2 DEF ReplyInv

\* A service answers: its records are its own and its answers right.
LEMMA ReplyGiven ==
  ASSUME RunnerInv, ReplyInv, CacheOK', call # Serial!NoCall, call.todo # <<>>,
         NEW results, Serial!Answer(results),
         \A k \in DOMAIN Serial!ShareCmds : Right(results[k], Serial!ShareCmds[k]),
         NEW r, AllOwn(Serial!Service, r), Serial!Recorded(r)
  PROVE  ReplyInv'
<1>1. CallsOwn'
  BY RecordedOwn DEF RunnerInv, ReplyInv
<1>2. ReplyOK'
  BY AnswerRight DEF RunnerInv, ReplyInv
<1> QED
  BY <1>1, <1>2 DEF ReplyInv

\* A record for each accepted command, behind those of the refused ones.
LEMMA AcceptedOwn ==
  ASSUME CallOK, NEW s, NEW r, r = [i \in DOMAIN Serial!Accepted |-> r[i]],
         \A i \in DOMAIN Serial!Accepted : r[i].cmd = Serial!Accepted[i] /\ Own(s, r[i])
  PROVE  AllOwn(s, r) /\ AllOwn(s, Serial!RefusedRecords \o r)
<1>1. Writes(r)
  BY AcceptedWrites
<1>2. DOMAIN r = DOMAIN Serial!Accepted
  OBVIOUS
<1>3. AllOwn(s, r)
  BY <1>1, <1>2 DEF AllOwn, Writes
<1> QED
  BY <1>3, RefusedAllOwn, OwnMore

\* A service that cannot be asked.
LEMMA FailGiven ==
  ASSUME RunnerInv, ReplyInv, cache' = cache, call # Serial!NoCall, call.todo # <<>>,
         Serial!FailShare
  PROVE  ReplyInv'
<1> DEFINE a == Serial!Accepted
           r == [i \in DOMAIN a |-> Serial!Failed(a[i])]
<1>1. Serial!Answer(Serial!Woven(r)) /\ Serial!Recorded(Serial!RefusedRecords \o r)
  BY DEF Serial!FailShare
<1>2. CallOK
  BY DEF RunnerInv
<1>3. \A m \in DOMAIN a : r[m] = Serial!Failed(a[m])
  OBVIOUS
<1>4. r = [i \in DOMAIN a |-> r[i]]
  OBVIOUS
<1>5. \A m \in DOMAIN a : a[m] \notin Denied
  BY <1>2, SharedAre
<1> HIDE DEF r
<1>6. \A m \in DOMAIN a : Right(r[m], a[m])
  BY <1>3, <1>5, RightRecords
<1>7. \A m \in DOMAIN a : r[m].cmd = a[m] /\ Own(Serial!Service, r[m])
  <2>1. \A c : Serial!Failed(c).cmd = c
    BY DEF Serial!Failed, Serial!Record
  <2>2. \A c : Own(Serial!Service, Serial!Failed(c))
    BY UnrunOwn
  <2> QED
    BY <1>3, <2>1, <2>2
<1>8. AllOwn(Serial!Service, Serial!RefusedRecords \o r)
  BY <1>2, <1>4, <1>7, AcceptedOwn
<1>9. \A k \in DOMAIN Serial!ShareCmds : Right(Serial!Woven(r)[k], Serial!ShareCmds[k])
  BY <1>2, <1>6, WovenRight
<1>10. CacheOK'
  BY DEF ReplyInv, CacheOK
<1> QED
  BY <1>1, <1>8, <1>9, <1>10, ReplyGiven

\* The wire commands of a session are those of the accepted commands.
LEMMA WiresAre ==
  ASSUME Sound, RunnerInv, exit = "ok"
  PROVE  /\ batch \in Seq(Wires) /\ Len(batch) # 0
         /\ DOMAIN batch = DOMAIN Serial!Accepted
         /\ \A i \in DOMAIN Serial!Accepted : batch[i] = WireOf[Serial!Accepted[i]]
         /\ late = 0 =>
              transcript \in Seq(Printable) /\ Tells(transcript, batch, Len(batch), Len(batch))
<1>1. /\ batch = Serial!WireList /\ batch \in Seq(Wires) /\ Len(batch) # 0
      /\ late = 0 =>
              transcript \in Seq(Printable) /\ Tells(transcript, batch, Len(batch), Len(batch))
  BY DEF Sound
<1>2. /\ DOMAIN Serial!WireList = DOMAIN Serial!Accepted
      /\ \A i \in DOMAIN Serial!Accepted : Serial!WireList[i] = WireOf[Serial!Accepted[i]]
  BY DEF Serial!WireList
<1> QED
  BY <1>1, <1>2

\* The whole transcript of the one probe is read.
LEMMA SingleGiven ==
  ASSUME RunnerInv, Sound, ReplyInv, Serial!ReadSingle PROVE ReplyInv'
<1> DEFINE a == Serial!Accepted
           record == Serial!Printed(Serial!Service, a[1], transcript)
           r == <<record>>
           b == batch
<1>1. /\ exit = "ok" /\ call.single /\ cache' = cache
      /\ Serial!Answer(r) /\ Serial!Recorded(r)
  BY DEF Serial!ReadSingle, Serial!Alive
<1>2. call # Serial!NoCall /\ call.todo # <<>> /\ a # <<>> /\ CallOK
  BY <1>1 DEF RunnerInv
<1>3. \A i \in DOMAIN call.cmds : i = 1
  BY <1>1, <1>2 DEF ReplyInv, ReplyOK
<1>4. /\ \A k \in DOMAIN Serial!ShareCmds : k = 1 /\ Serial!ShareCmds[1] = a[1]
      /\ \A m \in DOMAIN a : m = 1
      /\ 1 \in DOMAIN a
  BY <1>2, <1>3, OneAccepted
<1>5. a[1] \in Cmds /\ a[1] \notin Denied
  BY <1>2, <1>4, SharedAre
<1>6. Right(record, a[1]) /\ record.cmd = a[1]
  BY <1>5, RightRecords
<1>7. ASSUME late = 0 PROVE OneOut(transcript, Serial!Out(WireOf[a[1]]))
  <2>1. /\ b \in Seq(Wires) /\ DOMAIN b = DOMAIN a /\ b[1] = WireOf[a[1]]
        /\ transcript \in Seq(Printable) /\ Tells(transcript, b, Len(b), Len(b))
    BY <1>1, <1>4, <1>7, WiresAre
  <2>2. DOMAIN b = 1..Len(b)
    BY <2>1
  <2> HIDE DEF a, b
  <2>3. 1 \in 1..Len(b) /\ \A j \in 1..Len(b) : j = 1
    BY <1>4, <2>1, <2>2
  <2>4. OneOut(transcript, Serial!Out(b[1]))
    BY <2>1, <2>3, WholeOwn
  <2> QED
    BY <2>1, <2>4
<1>8. Own(Serial!Service, record)
  BY <1>5, <1>7, PrintedOwn
<1> HIDE DEF a, record
<1>9. DOMAIN r = 1..1 /\ r[1] = record
  OBVIOUS
<1>10. AllOwn(Serial!Service, r)
  <2>1. r \in Seq({record}) /\ {r[i] : i \in DOMAIN r} = {record}
    OBVIOUS
  <2> HIDE DEF r
  <2> QED
    BY <1>8, <1>9, <2>1 DEF AllOwn, Listed
<1>11. \A k \in DOMAIN Serial!ShareCmds : Right(r[k], Serial!ShareCmds[k])
  <2> HIDE DEF r
  <2> QED
    BY <1>4, <1>6, <1>9
<1>12. CacheOK'
  BY <1>1 DEF ReplyInv, CacheOK
<1> HIDE DEF r
<1> QED
  BY <1>1, <1>2, <1>10, <1>11, <1>12, ReplyGiven

\* The transcript is cut into the blocks of the probes.
LEMMA BatchGiven ==
  ASSUME RunnerInv, Sound, ReplyInv, Serial!ReadBatch PROVE ReplyInv'
<1> DEFINE a == Serial!Accepted
           blocks == Serial!SplitBatch(transcript, batch)
           r == [i \in DOMAIN a |-> Serial!Printed(Serial!Service, a[i], blocks[i])]
           b == batch
           I(w) == {i \in 1..Len(a) : WireOf[a[i]] = w}
           of(w) == Serial!SelectLastInSeq(a, LAMBDA c : WireOf[c] = w)
           v == Serial!Service
<1>1. /\ exit = "ok"
      /\ Serial!Answer(Serial!Woven(r)) /\ Serial!Recorded(Serial!RefusedRecords \o r)
      /\ cache' = [cache EXCEPT ![v] = [w \in Wires |-> IF of(w) # 0 THEN r[of(w)] ELSE @[w]]]
  BY DEF Serial!ReadBatch, Serial!Alive
<1>2. call # Serial!NoCall /\ call.todo # <<>> /\ CallOK
  BY <1>1 DEF RunnerInv
<1>3. v \in Serial!ServiceSet
  BY <1>2, ServiceIs
<1>4. \A m \in DOMAIN a : r[m] = Serial!Printed(v, a[m], blocks[m])
  OBVIOUS
<1>5. r = [i \in DOMAIN a |-> r[i]]
  OBVIOUS
<1>6. a \in Seq(Cmds) /\ \A m \in DOMAIN a : a[m] \in Cmds /\ a[m] \notin Denied
  BY <1>2, SharedAre
<1>7. \A w : of(w) = IF I(w) # {} THEN Serial!Max(I(w)) ELSE 0
  BY DEF Serial!SelectLastInSeq
<1>8. /\ b \in Seq(Wires) /\ DOMAIN b = DOMAIN a /\ \A i \in DOMAIN a : b[i] = WireOf[a[i]]
      /\ late = 0 =>
           transcript \in Seq(Printable) /\ Tells(transcript, b, Len(b), Len(b))
  BY <1>1, WiresAre
<1>9. blocks = Serial!SplitBatch(transcript, b)
  OBVIOUS
<1> HIDE DEF r, b, blocks, of
<1>10. ASSUME NEW m \in DOMAIN a
       PROVE  /\ Right(r[m], a[m]) /\ r[m].cmd = a[m] /\ r[m].exit \in {0, 127}
              /\ Own(v, r[m])
  <2>1. ASSUME late = 0 PROVE OneOut(blocks[m], Serial!Out(WireOf[a[m]]))
    <3>1. m \in 1..Len(b) /\ b[m] = WireOf[a[m]]
      BY <1>8
    <3>2. OneOut(Serial!SplitBatch(transcript, b)[m], Serial!Out(b[m]))
      BY <1>8, <2>1, <3>1, BlocksOwn
    <3> QED
      BY <1>9, <3>1, <3>2
  <2>2. Own(v, Serial!Printed(v, a[m], blocks[m]))
    BY <1>6, <2>1, PrintedOwn
  <2> QED
    BY <1>4, <1>6, <2>2, RightRecords
<1>11. \A k \in DOMAIN Serial!ShareCmds : Right(Serial!Woven(r)[k], Serial!ShareCmds[k])
  BY <1>2, <1>10, WovenRight
<1>12. AllOwn(v, Serial!RefusedRecords \o r)
  BY <1>2, <1>5, <1>10, AcceptedOwn
<1> HIDE DEF a, v
<1>13. ASSUME NEW w \in Wires, of(w) # 0 PROVE of(w) \in DOMAIN a /\ WireOf[a[of(w)]] = w
  <2>1. I(w) # {} /\ of(w) = Serial!Max(I(w)) /\ Len(a) \in Nat /\ DOMAIN a = 1..Len(a)
    <3>1. Len(a) \in Nat /\ DOMAIN a = 1..Len(a)
      BY <1>6
    <3> HIDE DEF I
    <3> QED
      BY <1>7, <1>13, <3>1
  <2>2. I(w) \in SUBSET (1..Len(a)) /\ \A i \in I(w) : WireOf[a[i]] = w
    OBVIOUS
  <2> HIDE DEF I
  <2>3. of(w) \in I(w)
    BY <2>1, <2>2, GreatestOne
  <2> QED
    BY <2>1, <2>2, <2>3
<1>14. CacheOK'
  <2>1. /\ DOMAIN cache = Serial!ServiceSet
        /\ \A s \in Serial!ServiceSet, w \in Wires :
             cache[s][w] # Serial!NoResult => WireOf[cache[s][w].cmd] = w /\ cache[s][w].exit \in {0, 127}
    BY DEF ReplyInv, CacheOK
  <2>2. /\ DOMAIN cache' = Serial!ServiceSet
        /\ \A s \in Serial!ServiceSet : s # v => cache'[s] = cache[s]
        /\ \A w \in Wires : cache'[v][w] = IF of(w) # 0 THEN r[of(w)] ELSE cache[v][w]
    BY <1>1, <1>3, <2>1
  <2>3. ASSUME NEW w \in Wires, of(w) # 0
        PROVE  WireOf[r[of(w)].cmd] = w /\ r[of(w)].exit \in {0, 127}
    BY <1>10, <1>13, <2>3
  <2>4. ASSUME NEW s \in Serial!ServiceSet, NEW w \in Wires, cache'[s][w] # Serial!NoResult
        PROVE  WireOf[cache'[s][w].cmd] = w /\ cache'[s][w].exit \in {0, 127}
    <3>1. CASE s # v
      BY <2>1, <2>2, <2>4, <3>1
    <3>2. CASE s = v /\ of(w) # 0
      BY <2>2, <2>3, <3>2
    <3>3. CASE s = v /\ of(w) = 0
      BY <2>1, <2>2, <2>4, <3>3
    <3> QED
      BY <3>1, <3>2, <3>3
  <2> QED
    BY <2>2, <2>4 DEF CacheOK
<1> QED
  BY <1>1, <1>2, <1>11, <1>12, <1>14, ReplyGiven DEF v

\* What was kept of the one command answers it.
LEMMA CachedGiven ==
  ASSUME RunnerInv, ReplyInv, Serial!ServeCached PROVE ReplyInv'
<1> DEFINE a == Serial!Accepted
           w == WireOf[a[1]]
           x == cache[Serial!Service][w]
           r == <<x>>
<1>1. /\ call # Serial!NoCall /\ call.todo # <<>> /\ a # <<>> /\ UNCHANGED <<calls, cache>>
      /\ call.single /\ Serial!Cached # Serial!NoResult /\ Serial!Answer(<<Serial!Cached>>)
  BY DEF Serial!ServeCached, Serial!Working, Serial!IsCached
<1>2. CallOK
  BY <1>1 DEF RunnerInv
<1>3. \A i \in DOMAIN call.cmds : i = 1
  BY <1>1 DEF ReplyInv, ReplyOK
<1>4. /\ \A k \in DOMAIN Serial!ShareCmds : k = 1 /\ Serial!ShareCmds[1] = a[1]
      /\ 1 \in DOMAIN a
  BY <1>1, <1>2, <1>3, OneAccepted
<1>5. a[1] \in Cmds /\ a[1] \notin Denied
  BY <1>2, <1>4, SharedAre
<1>6. w \in Wires
  BY <1>5, PartsAssumption DEF Serial!CommandAssumption
<1>7. Serial!Cached = x
  <2>1. Serial!WireList[1] = w
    BY <1>4 DEF Serial!WireList
  <2> QED
    BY <2>1 DEF Serial!Cached
<1>8. Serial!Service \in Serial!ServiceSet
  BY <1>1, <1>2, ServiceIs
<1>9. WireOf[x.cmd] = w /\ x.exit \in {0, 127} /\ x # Serial!NoResult
  <2> HIDE DEF w
  <2> QED
    BY <1>1, <1>6, <1>7, <1>8 DEF ReplyInv, CacheOK
<1>10. Right(x, a[1])
  <2> HIDE DEF x, a
  <2> QED
    BY <1>5, <1>9 DEF Right
<1>11. Serial!Answer(r)
  BY <1>1, <1>7
<1> HIDE DEF x, a
<1>12. r[1] = x
  OBVIOUS
<1> HIDE DEF r
<1>13. \A k \in DOMAIN Serial!ShareCmds : Right(r[k], Serial!ShareCmds[k])
  BY <1>4, <1>10, <1>12
<1>14. ReplyOK'
  BY <1>1, <1>2, <1>11, <1>13, AnswerRight DEF ReplyInv
<1>15. CallsOwn' /\ CacheOK'
  BY <1>1 DEF ReplyInv, CallsOwn, AllOwn, Own, CacheOK
<1> QED
  BY <1>14, <1>15 DEF ReplyInv

\* The answers and the records through every step of Console.
LEMMA RepliesKeep ==
  ASSUME RunnerInv, Sound, ReplyInv, Serial!Next PROVE ReplyInv'
<1> USE DEF Serial!runnerVars
<1>1. CASE Serial!BatchCall
  <2>1. PICK by \in {"prebatch", "collect", "followup"}, plan \in Plans :
          Serial!Call(by, FALSE, Serial!Asked(by, plan))
    BY <1>1 DEF Serial!BatchCall
  <2>2. UNCHANGED <<calls, cache>>
    BY <1>1 DEF Serial!BatchCall
  <2>3. Serial!Asked(by, plan) \in Seq(Cmds)
    BY AskedIs
  <2> DEFINE cmds == Serial!Asked(by, plan)
  <2>4. cmds \in Seq(Cmds) /\ Serial!Call(by, FALSE, cmds)
    BY <2>1, <2>3
  <2> HIDE DEF cmds
  <2> QED
    BY <2>2, <2>4, ReplyStarts
<1>2. CASE Serial!SingleCall
  <2>1. /\ UNCHANGED <<calls, cache>>
        /\ \/ Serial!Call("model", TRUE, <<ModelProbe>>)
           \/ \E cmd \in Chain : Serial!Call("chain", TRUE, <<cmd>>)
    BY <1>2 DEF Serial!SingleCall
  <2>2. ModelProbe \in Cmds /\ Chain \subseteq Cmds
    BY PartsAssumption DEF Serial!PlanAssumption
  <2>3. PICK by : \E cmd \in Cmds : Serial!Call(by, TRUE, <<cmd>>)
    BY <2>1, <2>2
  <2>4. PICK cmd \in Cmds : Serial!Call(by, TRUE, <<cmd>>)
    BY <2>3
  <2> DEFINE q == <<cmd>>
  <2>5. q \in Seq(Cmds) /\ \A i \in DOMAIN q : i = 1
    OBVIOUS
  <2>6. Serial!Call(by, TRUE, q)
    BY <2>4
  <2> HIDE DEF q
  <2> QED
    BY <2>1, <2>5, <2>6, ReplyStarts
<1>3. CASE Serial!GateRaises
  <2>1. cache' = cache /\ call' = Serial!NoCall
    BY <1>3 DEF Serial!GateRaises
  <2>2. PICK r : /\ Writes(r) /\ Serial!Recorded(r)
                 /\ \A i \in DOMAIN r : \E c : r[i] = Serial!Refused(c)
    BY <1>3, GateRecords
  <2>3. AllOwn(Serial!Service, r)
    BY <2>2, UnrunAllOwn DEF Writes
  <2> QED
    BY <2>1, <2>2, <2>3, ReplyRaises
<1>4. CASE Serial!AllRefused
  <2>1. /\ call # Serial!NoCall /\ call.todo # <<>> /\ cache' = cache /\ Serial!Accepted = <<>>
        /\ Serial!Answer(Serial!Woven(<<>>)) /\ Serial!Recorded(Serial!RefusedRecords)
    BY <1>4 DEF Serial!AllRefused, Serial!Working
  <2>2. CallOK
    BY <2>1 DEF RunnerInv
  <2>3. AllOwn(Serial!Service, Serial!RefusedRecords)
    BY <2>2, RefusedAllOwn
  <2> DEFINE z == <<>>
  <2>4. DOMAIN Serial!Accepted = {} /\ Serial!Answer(Serial!Woven(z))
    BY <2>1
  <2> HIDE DEF z
  <2>5. \A k \in DOMAIN Serial!ShareCmds : Right(Serial!Woven(z)[k], Serial!ShareCmds[k])
    BY <2>2, <2>4, WovenRight
  <2>6. CacheOK'
    BY <2>1 DEF ReplyInv, CacheOK
  <2> QED
    BY <2>1, <2>3, <2>4, <2>5, <2>6, ReplyGiven
<1>5. CASE Serial!ServeCached
  BY <1>5, CachedGiven
<1>6. CASE Serial!OpenFails
  <2>1. call # Serial!NoCall /\ call.todo # <<>> /\ cache' = cache /\ Serial!FailShare
    BY <1>6 DEF Serial!OpenFails, Serial!NeedsSession, Serial!Working
  <2> QED
    BY <2>1, FailGiven
<1>7. CASE Serial!StartSession
  <2>1. UNCHANGED <<calls, cache>> /\ call' = call
    BY <1>7 DEF Serial!StartSession
  <2> QED
    BY <2>1, ReplyStands
<1>8. CASE Serial!SessionDied
  <2>1. cache' = cache /\ exit # "none" /\ Serial!FailShare
    BY <1>8 DEF Serial!SessionDied, Serial!Dead
  <2> QED
    BY <2>1, FailGiven DEF RunnerInv
<1>9. CASE Serial!ReadSingle
  BY <1>9, SingleGiven
<1>10. CASE Serial!ReadBatch
  BY <1>10, BatchGiven
<1>11. CASE Serial!Return
  <2>1. UNCHANGED <<calls, cache>> /\ call' = Serial!NoCall
    BY <1>11 DEF Serial!Return
  <2> QED
    BY <2>1, ReplyStands
<1>12. CASE Serial!ConsoleRaises
  <2>1. /\ cache' = cache /\ call' = Serial!NoCall /\ Serial!Recorded(Serial!RefusedRecords)
        /\ call # Serial!NoCall
    BY <1>12 DEF Serial!ConsoleRaises, Serial!NeedsSession, Serial!Working, RunnerInv
  <2>2. AllOwn(Serial!Service, Serial!RefusedRecords)
    BY <2>1, RefusedAllOwn DEF RunnerInv
  <2> QED
    BY <2>1, <2>2, ReplyRaises
<1>13. CASE Serial!Talking
  <2>1. UNCHANGED <<calls, cache>> /\ call' = call
    BY <1>13 DEF Serial!Talking
  <2> QED
    BY <2>1, ReplyStands
<1>14. CASE Serial!Over
  <2>1. UNCHANGED <<calls, cache>> /\ call' = call
    BY <1>14 DEF Serial!Over, Serial!vars
  <2> QED
    BY <2>1, ReplyStands
<1> QED
  BY <1>1, <1>2, <1>3, <1>4, <1>5, <1>6, <1>7, <1>8, <1>9, <1>10, <1>11, <1>12, <1>13, <1>14
  DEF Serial!Next, Serial!Runner

\* What is told, and what is made of it, hold when no call was made.
LEMMA RepliesStart == Serial!Init => Sound /\ ReplyInv
<1> SUFFICES ASSUME Serial!Init PROVE Sound /\ ReplyInv
  OBVIOUS
<1>1. /\ exit = "none" /\ late = 0 /\ call = Serial!NoCall
      /\ calls = [s \in Serial!ServiceSet |-> <<>>]
      /\ cache = [s \in Serial!ServiceSet |-> [w \in Wires |-> Serial!NoResult]]
  BY DEF Serial!Init, Serial!Fresh
<1>2. Sound
  BY <1>1 DEF Sound
<1>3. \A s : AllOwn(s, <<>>)
  BY DEF AllOwn, Listed
<1>4. CallsOwn
  BY <1>1, <1>3 DEF CallsOwn
<1>5. CacheOK
  BY <1>1 DEF CacheOK
<1> QED
  BY <1>1, <1>2, <1>4, <1>5 DEF ReplyInv

-----------------------------------------------------------------------------
(* What is checked of the serial console holds of every behaviour.         *)

\* Past the node's prompt every probe is read by the node's shell or a sudo
\* and each password by the prompt it belongs to, for every list of probes,
\* whatever times out and however the other side answers; and no probe is
\* typed again whose last record is good.
THEOREM NodeIsSpokenTo == Spec => []SpokenToTheNode
<1>1. SerialInv => SpokenToTheNode
  <2> SUFFICES ASSUME SerialInv PROVE Serial!SpokenToTheNode /\ Serial!NothingRetyped
    BY DEF SpokenToTheNode
  <2>1. ASSUME anchored PROVE \A h \in heard : Spoken(h)
    <3>1. exit # "none" => Anchored
      BY <2>1 DEF SerialInv, DialogueInv
    <3>2. exit = "none" => FALSE
      BY <2>1 DEF SerialInv, DialogueInv
    <3> QED
      BY <3>1, <3>2 DEF Anchored
  <2> QED
    BY <2>1 DEF Serial!SpokenToTheNode, Spoken, Serial!NothingRetyped, SerialInv, RunnerInv
<1> QED
  BY <1>1, SerialInvariant, PTL

\* In a session no expect of which timed out each probe's record holds what
\* that probe printed, and exit 127 exactly when its service lacks the
\* program, for every list of probes and services, whatever is refused,
\* cached or fails; and a call that returns has every command's answer at
\* its own place, the refused ones' included.
THEOREM OutputsAreTheirOwn == Spec => []OutputIsItsOwn
<1> DEFINE Inv == SerialInv /\ Sound /\ ReplyInv
<1>1. Init => Inv
  BY SerialStarts, RepliesStart DEF Init
<1>2. Inv /\ [Next]_vars => Inv'
  <2> SUFFICES ASSUME Inv, [Next]_vars PROVE Inv'
    OBVIOUS
  <2>1. Serial!Next \/ UNCHANGED serialVars
    BY DEF Next, StreamStep, EditorStep, SerialStep, RedfishStep, MenuStep, ModelStep, vars
  <2>2. CASE UNCHANGED serialVars
    <3>1. UNCHANGED <<script, unread, transcript, typed, reader, running, authed, heard, exit,
                      anchored, late, calls, call, retyped, cache, batch>>
      BY <2>2 DEF serialVars
    <3>2. SerialInv'
      BY <3>1, DialogueStands, AccountStands DEF SerialInv
    <3>3. Sound'
      BY <3>1, SoundStands
    <3>4. ReplyInv'
      BY <3>1, ReplyStands
    <3> QED
      BY <3>2, <3>3, <3>4
  <2>3. CASE Serial!Next
    <3>1. RunnerInv
      BY DEF SerialInv
    <3> QED
      BY <2>3, <3>1, SerialKeeps, SoundKeeps, RepliesKeep
  <2> QED
    BY <2>1, <2>2, <2>3
<1>3. Inv => OutputIsItsOwn
  <2> SUFFICES ASSUME Inv PROVE Serial!OutputIsItsOwn /\ Serial!AnswersInOrder
    BY DEF OutputIsItsOwn
  <2>1. Serial!OutputIsItsOwn
    BY DEF Serial!OutputIsItsOwn, ReplyInv, CallsOwn, AllOwn, Own
  <2>2. ASSUME call # Serial!NoCall, call.todo = <<>>, NEW i \in DOMAIN call.cmds
        PROVE  Right(call.results[i], call.cmds[i])
    <3>1. ~Due(call.cmds[i])
      BY <2>2 DEF Due
    <3> QED
      BY <2>2, <3>1 DEF ReplyInv, ReplyOK
  <2>3. Serial!AnswersInOrder
    BY <2>2 DEF Serial!AnswersInOrder, Right
  <2> QED
    BY <2>1, <2>3
<1> QED
  BY <1>1, <1>2, <1>3, PTL DEF Spec
=============================================================================
