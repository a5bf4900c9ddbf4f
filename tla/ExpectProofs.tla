---------------------------- MODULE ExpectProofs -----------------------------
(***************************************************************************)
(* Proofs about ExpectSession, the dialogue of an expect script with what  *)
(* reads its lines, for any services, probes and what the other side       *)
(* answers or fails to.  ConsoleProofs draws the theorem from them.        *)
(*                                                                         *)
(* The script.  What runs in the rack's shell is a list of sends and       *)
(* expects that starts at the rack's prompt, passes the node's login and,  *)
(* for each probe, the gate of a sudo, and leaves by the two exits.  What  *)
(* such a script is made of is shown of every list of probes.              *)
(*                                                                         *)
(* The dialogue.  Where a script stands, who reads what it typed and what  *)
(* is still unread belong together.  The invariant, DialogueInv, goes by   *)
(* phases until the node's prompt is matched and is Anchored from then on; *)
(* of a script that goes on without that prompt (Astray) it says only that *)
(* it is never taken for anchored.  Here it is shown to stand whatever the *)
(* other side answers, and through every step of a script.                 *)
(*                                                                         *)
(* The transcript.  If each probe's echo and its output are in it, in this *)
(* order and nothing else of a probe (Tells), then _split_batch_output     *)
(* cuts it into blocks that hold one probe's output each.                  *)
(***************************************************************************)
EXTENDS Channels, FiniteSetTheorems, SequenceTheorems, WellFoundedInduction,
        TLAPS

-----------------------------------------------------------------------------
(* ExpectSession.  What an expect script is made of is found by induction  *)
(* on the probes it is written for, for which the naturals are taken as a  *)
(* well-founded set.                                                       *)

\* A set of naturals that is not empty has a least one.
LEMMA LeastNat ==
  ASSUME NEW T \in SUBSET Nat, T # {}
  PROVE  \E n \in T : \A m \in T : n <= m
<1> DEFINE R == {p \in Nat \X Nat : p[1] < p[2]}
<1>1. IsWellFoundedOn(R, Nat)
  BY NatLessThanWellFounded DEF OpToRel
<1>2. \E x \in T : \A y \in T : ~(<<y, x>> \in R)
  <2> HIDE DEF R
  <2> QED
    BY <1>1, WFMin
<1>3. PICK x \in T : \A y \in T : ~(<<y, x>> \in R)
  BY <1>2
<1>4. \A y \in T : y < x => <<y, x>> \in R
  OBVIOUS
<1>5. \A y \in T : ~(y < x)
  BY <1>3, <1>4
<1> HIDE DEF R
<1> QED
  BY <1>5

\* A set of naturals that holds 0 and each successor is all of them.
LEMMA NatClosed ==
  ASSUME NEW I \in SUBSET Nat, 0 \in I, \A n \in I : n + 1 \in I
  PROVE  I = Nat
<1> SUFFICES ASSUME I # Nat PROVE FALSE
  OBVIOUS
<1>1. PICK n \in Nat \ I : \A m \in Nat \ I : n <= m
  BY LeastNat
<1>2. n - 1 \in Nat
  OBVIOUS
<1>3. n - 1 \in I
  BY <1>1, <1>2
<1> QED
  BY <1>3

\* A function on 1..n that starts from a value and goes on by a table.
Along(n, V, a, h) ==
  \E f \in [1..n -> V] : f[1] = a /\ \A i \in 2..n : f[i] = h[<<f[i - 1], i>>]

\* A recursion along 1..n takes one value after the other.
LEMMA Recursion ==
  ASSUME NEW n \in Nat \ {0}, NEW V, NEW a \in V, NEW h \in [V \X (2..n) -> V]
  PROVE  Along(n, V, a, h)
<1> DEFINE Upto(m) == \E f \in [1..m -> V] :
                        f[1] = a /\ \A i \in 2..m : f[i] = h[<<f[i - 1], i>>]
           I == {k \in Nat : \A m \in 1..n : m = k + 1 => Upto(m)}
<1>1. 0 \in I
  <2> DEFINE g == [i \in 1..1 |-> a]
  <2>1. g \in [1..1 -> V] /\ g[1] = a
    OBVIOUS
  <2>2. 2..1 = {}
    OBVIOUS
  <2> HIDE DEF g
  <2>3. Upto(1)
    BY <2>1, <2>2
  <2>4. ASSUME NEW m \in 1..n, m = 0 + 1 PROVE Upto(m)
    BY <2>3, <2>4
  <2> HIDE DEF Upto
  <2> QED
    BY <2>4
<1>2. ASSUME NEW k \in I PROVE k + 1 \in I
  <2> SUFFICES ASSUME NEW m \in 1..n, m = k + 2 PROVE Upto(m)
    OBVIOUS
  <2>1. Upto(k + 1)
    OBVIOUS
  <2>2. PICK f \in [1..k + 1 -> V] :
               f[1] = a /\ \A i \in 2..k + 1 : f[i] = h[<<f[i - 1], i>>]
    BY <2>1
  <2> DEFINE v == h[<<f[k + 1], m>>]
             g == [i \in 1..m |-> IF i = m THEN v ELSE f[i]]
  <2>3. v \in V
    <3>1. f[k + 1] \in V /\ m \in 2..n
      OBVIOUS
    <3> QED
      BY <3>1
  <2>4. g \in [1..m -> V]
    <3>1. \A i \in 1..m : i # m => i \in 1..k + 1
      OBVIOUS
    <3> HIDE DEF v
    <3> QED
      BY <2>3, <3>1
  <2>5. g[1] = a
    BY <2>2
  <2>6. ASSUME NEW i \in 2..m PROVE g[i] = h[<<g[i - 1], i>>]
    <3>1. CASE i = m
      <4>1. g[i] = v /\ i - 1 = k + 1 /\ i - 1 \in 1..m /\ i - 1 # m
        BY <3>1
      <4>2. g[i - 1] = f[k + 1]
        BY <4>1
      <4> QED
        BY <3>1, <4>1, <4>2
    <3>2. CASE i # m
      <4>1. i \in 2..k + 1 /\ i - 1 \in 1..m /\ i - 1 # m /\ i \in 1..m
        BY <3>2
      <4>2. g[i] = f[i] /\ g[i - 1] = f[i - 1]
        BY <3>2, <4>1
      <4>3. f[i] = h[<<f[i - 1], i>>]
        BY <2>2, <4>1
      <4> QED
        BY <4>2, <4>3
    <3> QED
      BY <3>1, <3>2
  <2> HIDE DEF g
  <2> QED
    BY <2>4, <2>5, <2>6
<1>3. I = Nat
  <2>1. I \in SUBSET Nat
    OBVIOUS
  <2> HIDE DEF I
  <2>2. \A k \in I : k + 1 \in I
    BY <1>2
  <2> QED
    BY <1>1, <2>1, <2>2, NatClosed
<1>4. n - 1 \in Nat /\ n \in 1..n /\ n = (n - 1) + 1
  OBVIOUS
<1>5. n - 1 \in I
  <2> HIDE DEF I
  <2> QED
    BY <1>3, <1>4
<1>6. Upto(n)
  <2> HIDE DEF Upto
  <2> QED
    BY <1>4, <1>5
<1> QED
  BY <1>6 DEF Along

\* FlattenSeq goes through the sequences one after the other.
OneByOne(q, n, V, joined) ==
  \E f \in [1..n -> V] :
    /\ f[1] = q[1] /\ joined = f[n]
    /\ \A i \in 2..n : f[i] = f[i - 1] \o q[i]

\* FlattenSeq joins its sequences one by one.
LEMMA Flattened ==
  ASSUME NEW S, NEW q \in Seq(Seq(S)), Len(q) # 0
  PROVE  OneByOne(q, Len(q), Seq(S), Serial!FlattenSeq(q))
<1> DEFINE n == Len(q)
           V == Seq(S)
           h == [p \in V \X (2..n) |-> p[1] \o q[p[2]]]
           Flat(f) == [i \in 1..n |-> IF i = 1 THEN q[i] ELSE f[i - 1] \o q[i]]
           F == CHOOSE f : f = Flat(f)
<1>1. n \in Nat \ {0} /\ \A i \in 1..n : q[i] \in V
  OBVIOUS
<1>2. \A v, w \in V : v \o w \in V
  BY ConcatProperties
<1>3. Serial!FlattenSeq(q) = F[n]
  BY <1>1 DEF Serial!FlattenSeq
<1> HIDE DEF V
<1>4. h \in [V \X (2..n) -> V]
  <2>1. ASSUME NEW p \in V \X (2..n) PROVE p[1] \o q[p[2]] \in V
    <3>1. p[1] \in V /\ p[2] \in 2..n /\ 2..n \subseteq 1..n
      BY <1>1
    <3> QED
      BY <1>1, <1>2, <3>1
  <2> QED
    BY <2>1
<1>5. PICK f \in [1..n -> V] : f[1] = q[1] /\ \A i \in 2..n : f[i] = h[<<f[i - 1], i>>]
  <2>1. q[1] \in V /\ n \in Nat \ {0}
    BY <1>1
  <2> HIDE DEF h, n
  <2>2. Along(n, V, q[1], h)
    BY <1>4, <2>1, Recursion
  <2> QED
    BY <2>2 DEF Along
<1>6. f = Flat(f)
  <2>1. ASSUME NEW i \in 1..n PROVE f[i] = Flat(f)[i]
    <3>1. CASE i = 1
      BY <1>5, <3>1
    <3>2. CASE i \in 2..n
      <4>1. f[i - 1] \in V /\ i # 1
        BY <1>1, <3>2
      <4>2. <<f[i - 1], i>> \in V \X (2..n)
        BY <3>2, <4>1
      <4>3. h[<<f[i - 1], i>>] = f[i - 1] \o q[i]
        BY <4>2
      <4> QED
        BY <1>5, <3>2, <4>1, <4>3
    <3>3. i = 1 \/ i \in 2..n
      BY <1>1
    <3> QED
      BY <3>1, <3>2, <3>3
  <2>2. f = [i \in 1..n |-> f[i]]
    OBVIOUS
  <2> QED
    BY <2>1, <2>2
<1>7. F = Flat(F)
  <2>1. \E g : g = Flat(g)
    BY <1>6
  <2> HIDE DEF Flat
  <2> QED
    BY <2>1
<1> HIDE DEF F
<1>8. F[1] = q[1] /\ \A i \in 2..n : F[i] = F[i - 1] \o q[i]
  <2>1. \A i \in 1..n : F[i] = IF i = 1 THEN q[i] ELSE F[i - 1] \o q[i]
    BY <1>7
  <2> HIDE DEF n
  <2>2. 1 \in 1..n /\ \A i \in 2..n : i \in 1..n /\ i # 1
    BY <1>1 DEF n
  <2> QED
    BY <2>1, <2>2
<1> DEFINE J == {k \in Nat : \A m \in 1..n : m = k + 1 => F[m] \in V}
<1>9. 0 \in J
  BY <1>1, <1>8
<1>10. ASSUME NEW k \in J PROVE k + 1 \in J
  <2> SUFFICES ASSUME NEW m \in 1..n, m = k + 2 PROVE F[m] \in V
    OBVIOUS
  <2>1. F[k + 1] \in V /\ m \in 2..n /\ m - 1 = k + 1 /\ q[m] \in V
    BY <1>1
  <2>2. F[m] = F[k + 1] \o q[m]
    BY <1>8, <2>1
  <2> QED
    BY <1>2, <2>1, <2>2
<1>11. J = Nat
  <2>1. J \in SUBSET Nat
    OBVIOUS
  <2> HIDE DEF J
  <2>2. \A k \in J : k + 1 \in J
    BY <1>10
  <2> QED
    BY <1>9, <2>1, <2>2, NatClosed
<1>12. ASSUME NEW i \in 1..n PROVE F[i] \in V
  <2>1. i - 1 \in Nat /\ i = (i - 1) + 1
    BY <1>1
  <2>2. i - 1 \in J
    <3> HIDE DEF J
    <3> QED
      BY <1>11, <2>1
  <2> QED
    BY <2>1, <2>2
<1>13. F \in [1..n -> V]
  <2>1. F = [i \in 1..n |-> F[i]]
    BY <1>7
  <2> QED
    BY <1>12, <2>1
<1> QED
  BY <1>3, <1>8, <1>13 DEF V, OneByOne

(* The operations of a script: those for its probes and its end, and what  *)
(* an expect that matched puts before them.                                *)
Words == Serial!Lines \cup {Serial!NoLine, "rack", "node", "login", "password", "failed", "of file"}
Printable == {"prompt", "status", "echo", "out", "end"} \X Words

\* The prompts the two shells, the login and the sudo print.
NodePrompt == Serial!Prompt("node")
LoginPrompt == Serial!Prompt("login")
PasswordPrompt == Serial!Prompt("password")

\* The operations, by what they type and what they wait for.
SendSudoPassword == Serial!Send(Serial!SudoPassword)
AwaitSudo == Serial!Expect(<<Serial!On(PasswordPrompt, <<SendSudoPassword>>)>>)
SudoSends == {Serial!Send(w) : w \in SudoWires}
WireSends == {Serial!Send(w) : w \in Wires}
Awaits == {Serial!Await(t) : t \in Printable}
CloseOps == {Serial!Send(Serial!Leave)} \cup (Awaits \ {Serial!Await(NodePrompt)})
RestOps == CloseOps \cup WireSends \cup Awaits \cup {AwaitSudo}

(* An order of operations that its tail keeps: nothing is typed after the  *)
(* first exit but another, and the one sudo that is waited for is typed    *)
(* two operations before, the first of all.                                *)
Ordered(s) ==
  /\ s \in Seq(RestOps)
  /\ \A i, j \in 1..Len(s) : i < j /\ s[i] = Serial!Send(Serial!Leave) => s[j] \in CloseOps
  /\ \A i, j \in 1..Len(s) : s[i] = AwaitSudo /\ s[j] = AwaitSudo => i = j
  /\ \A i, j \in 1..Len(s) : s[i] = AwaitSudo /\ j < i /\ s[j] \in SudoSends => j = i - 2
  /\ \A i, j \in 1..Len(s) : s[i] = AwaitSudo /\ j = i - 1 => s[j] \in Awaits

(* The sudo that is waited for has not been typed yet, and the node's      *)
(* prompt is awaited behind a probe only.                                  *)
SudoAhead(s) == \A i \in 1..Len(s) : s[i] = AwaitSudo => i > 2
ProbeFirst(s) ==
  \A i \in 1..Len(s) : s[i] = Serial!Await(NodePrompt) => \E j \in 1..i - 1 : s[j] \in WireSends
Untouched(s) == Ordered(s) /\ SudoAhead(s) /\ ProbeFirst(s)

\* The expect behind the start: closed, asked for a login or not, or at the node.
Starters ==
  {Serial!Expect(<<Serial!On(Serial!Status, <<Serial!Exit3>>)>>
     \o logIn \o <<Serial!On(NodePrompt, <<>>)>>) :
   logIn \in {<<>>, <<Serial!On(LoginPrompt, Serial!LogIn)>>}}

(* Where the opening of a script is, read off the operations left.         *)
AnyOps ==
  RestOps \cup Starters \cup
    {Serial!Send(Serial!Start), Serial!Send(Serial!User), Serial!Send(Serial!NodePassword),
     SendSudoPassword, Serial!Exit3}

\* The operations left begin with these, in this order.
Begins(s, op) == s \in Seq(AnyOps) /\ s # <<>> /\ Head(s) = op
AtSession(s) == s \in Seq(AnyOps) /\ s # <<>> /\ Head(s) \in Starters /\ Untouched(Tail(s))
AtStart(s) == Begins(s, Serial!Send(Serial!Start)) /\ AtSession(Tail(s))
AtRack(s) == Begins(s, Serial!Await(Serial!Prompt("rack"))) /\ AtStart(Tail(s))
AtNode(s) == Begins(s, Serial!Await(NodePrompt)) /\ Untouched(Tail(s))
AtSecret(s) == Begins(s, Serial!Send(Serial!NodePassword)) /\ AtNode(Tail(s))
AtAsked(s) == Begins(s, Serial!Await(PasswordPrompt)) /\ AtSecret(Tail(s))
AtUser(s) == Begins(s, Serial!Send(Serial!User)) /\ AtAsked(Tail(s))
AtExit(s) == Begins(s, Serial!Exit3)

\* A token is in a sequence; it is nowhere but at its end.
In(q, t) == \E i \in 1..Len(q) : q[i] = t
Final(q, t) == \A i \in 1..Len(q) : q[i] = t => i = Len(q)

\* A line was read by whom it was meant for.
Spoken(h) ==
  /\ h[1] \in Wires => h[2] \in {"node", "sudo"}
  /\ h[1] = Serial!SudoPassword => h[2] = "sudo"
  /\ h[1] = Serial!NodePassword => h[2] = "password"

(* The opening: who may read what is typed, and which prompts are unread.  *)
RackPhase ==
  /\ AtRack(script) \/ AtStart(script)
  /\ heard = {} /\ typed = <<>> /\ reader \in {"rack", "gone"}
  /\ \A t \in {NodePrompt, LoginPrompt, PasswordPrompt} : ~In(unread, t)

\* The console is started: the node, its login or the rack may answer.
StartPhase ==
  /\ AtSession(script)
  /\ heard \subseteq {<<Serial!Start, "rack">>}
  /\ \/ typed = <<>> /\ reader \in {"rack", "starting", "node", "login", "gone"}
     \/ /\ typed = <<Serial!Start>> /\ reader \in {"rack", "gone"}
        /\ ~In(unread, NodePrompt) /\ ~In(unread, LoginPrompt)
  /\ In(unread, NodePrompt) => reader \in {"node", "gone"}
  /\ In(unread, LoginPrompt) => reader \in {"login", "gone"}
  /\ ~In(unread, PasswordPrompt)
  /\ Final(unread, NodePrompt) /\ Final(unread, LoginPrompt)

\* What may have been read before the node's prompt, and by whom.
HeardOpening ==
  {<<Serial!Start, "rack">>, <<Serial!User, "login">>, <<Serial!NodePassword, "password">>}

\* The login asked for the user, and everything printed was read.
UserPhase ==
  /\ AtUser(script) /\ heard \subseteq HeardOpening
  /\ typed = <<>> /\ reader \in {"login", "gone"} /\ unread = <<>>

\* The user is typed, the login's password prompt awaited.
AskedPhase ==
  /\ AtAsked(script) \/ AtSecret(script)
  /\ heard \subseteq HeardOpening
  /\ \/ typed = <<Serial!User>> /\ reader \in {"login", "gone"}
     \/ typed = <<>> /\ reader \in {"password", "gone"} /\ running = Serial!User
  /\ ~In(unread, NodePrompt)

\* The password is typed, the node's prompt awaited.
NodePhase ==
  /\ AtNode(script) /\ heard \subseteq HeardOpening
  /\ \/ /\ typed = <<Serial!User, Serial!NodePassword>> /\ reader \in {"login", "gone"}
        /\ ~In(unread, NodePrompt)
     \/ /\ typed = <<Serial!NodePassword>> /\ reader \in {"password", "gone"}
        /\ running = Serial!User /\ ~In(unread, NodePrompt)
     \/ typed = <<>> /\ reader \in {"node", "login", "gone"}
  /\ In(unread, NodePrompt) => reader \in {"node", "gone"}
  /\ Final(unread, NodePrompt)

\* The dialogue is in one of these phases.
Opens == RackPhase \/ StartPhase \/ UserPhase \/ AskedPhase \/ NodePhase

(* The script went on without the node's prompt.                           *)
Typing(s) == s \in Seq(RestOps \cup {SendSudoPassword})
Astray == Typing(script) /\ (Serial!ProbesTyped \/ ProbeFirst(script))

(* Past the node's prompt: the password for sudo is typed to a sudo that   *)
(* waits for it, and what the node reads last is exit.                     *)
Leaves == {i \in 1..Len(typed) : typed[i] = Serial!Leave}

\* The places of probes for sudo in what is typed.
SudoTyped == {i \in 1..Len(typed) : typed[i] \in SudoWires}

(* What was typed and not read, and who reads it.                          *)
Talks ==
  /\ reader \in {"node", "sudo", "busy", "rack", "gone"}
  /\ typed \in Seq(Wires \cup {Serial!SudoPassword, Serial!Leave})
  /\ \A i \in 1..Len(typed) : typed[i] = Serial!SudoPassword => i = 1 /\ reader \in {"sudo", "gone"}
  /\ \A i, j \in 1..Len(typed) : i < j /\ i \in Leaves => j \in Leaves
  /\ reader = "rack" => Leaves = 1..Len(typed)

(* The password for sudo is next.                                          *)
SudoNext ==
  /\ Begins(script, SendSudoPassword)
  /\ Ordered(Tail(script)) /\ \A i \in 1..Len(Tail(script)) : Tail(script)[i] # AwaitSudo
  /\ reader \in {"sudo", "gone"} /\ typed = <<>>

(* It is asked for later, if at all: when the probe for sudo was typed,    *)
(* nothing follows it.                                                     *)
SudoLater == SudoTyped = {} /\ reader # "sudo" /\ ~In(unread, PasswordPrompt)

\* The probe for sudo was typed and nothing behind it, or its prompt stands.
SudoSoon ==
  /\ In(unread, PasswordPrompt) \/ reader = "sudo" => typed = <<>> /\ reader \in {"sudo", "gone"}
  /\ SudoTyped \subseteq {Len(typed)}

\* A script past the prompt: ordered, at its end once the node has exited.
Proceeds ==
  /\ Ordered(script)
  /\ Leaves # {} \/ reader = "rack" => script \in Seq(CloseOps)
  /\ \A i \in 1..Len(script) : script[i] = AwaitSudo =>
        IF i > 2 THEN SudoLater ELSE SudoSoon

\* What holds past the node's prompt.
Anchored == (\A h \in heard : Spoken(h)) /\ Talks /\ (SudoNext \/ Proceeds)

\* What the dialogue's variables are made of.
Types ==
  /\ unread \in Seq(Printable) /\ typed \in Seq(Serial!Lines)
  /\ running \in Serial!Lines \cup {Serial!NoLine}

\* By phases until the node's prompt is matched, and Anchored from then on.
DialogueInv ==
  /\ Types
  /\ exit = "none" => heard = {} /\ ~anchored
  /\ exit # "none" => IF anchored THEN Anchored ELSE Opens \/ AtExit(script) \/ Astray

\* No probe has the words of the opening, a password or the exit.
LEMMA WiresAreNoWords ==
  /\ SudoWires \subseteq Wires /\ MaxLate \in Nat
  /\ Serial!Start \notin Wires /\ Serial!User \notin Wires /\ Serial!NodePassword \notin Wires
  /\ Serial!SudoPassword \notin Wires /\ Serial!Leave \notin Wires
BY PartsAssumption DEF Serial!SudoAssumption, Serial!Start, Serial!User,
   Serial!NodePassword, Serial!SudoPassword, Serial!Leave

\* What goes before a sequence is its head.
LEMMA Prepended ==
  ASSUME NEW S, NEW a \in S, NEW r \in Seq(S)
  PROVE  /\ <<a>> \o r \in Seq(S) /\ <<a>> \o r # <<>>
         /\ Head(<<a>> \o r) = a /\ Tail(<<a>> \o r) = r
<1>1. <<a>> \in Seq(S) /\ Len(<<a>>) = 1
  OBVIOUS
<1>2. /\ <<a>> \o r \in Seq(S) /\ Len(<<a>> \o r) = 1 + Len(r)
      /\ \A i \in 1..1 + Len(r) : (<<a>> \o r)[i] = IF i <= 1 THEN <<a>>[i] ELSE r[i - 1]
  BY <1>1, ConcatProperties
<1> DEFINE s == <<a>> \o r
<1>3. Len(r) \in Nat /\ s # <<>> /\ s[1] = a
  BY <1>2
<1> HIDE DEF s
<1>4. s \in Seq(S) /\ Len(s) = 1 + Len(r) /\ \A i \in 1..Len(r) : s[i + 1] = r[i]
  BY <1>2, <1>3 DEF s
<1>5. Head(s) = a /\ Tail(s) \in Seq(S) /\ Len(Tail(s)) = Len(r)
  BY <1>3, <1>4
<1>6. \A i \in 1..Len(r) : Tail(s)[i] = r[i]
  BY <1>3, <1>4
<1>7. Tail(s) = r
  BY <1>5, <1>6, SeqEqual
<1> QED
  BY <1>3, <1>4, <1>5, <1>7 DEF s

\* The operations are told apart by what they do.
LEMMA OpsApart ==
  /\ \A l : /\ Serial!Send(l).op = "send" /\ Serial!Send(l).line = l
            /\ Serial!Send(l) \notin Awaits /\ Serial!Send(l) # AwaitSudo
            /\ Serial!Send(l) # Serial!Exit3 /\ Serial!Send(l) \notin Starters
  /\ \A t : /\ Serial!Await(t).op = "expect"
            /\ Serial!Await(t).branches = <<[see |-> t, then |-> <<>>]>>
  /\ AwaitSudo.op = "expect" /\ AwaitSudo \notin Awaits
  /\ AwaitSudo.branches = <<[see |-> PasswordPrompt, then |-> <<SendSudoPassword>>]>>
  /\ Serial!Exit3.op = "exit"
<1>a. \A b : Serial!Expect(b).op = "expect" /\ Serial!Expect(b).branches = b
  BY DEF Serial!Expect
<1>b. \A l : Serial!Send(l).op = "send" /\ Serial!Send(l).line = l
  BY DEF Serial!Send
<1>c. /\ \A t : /\ Serial!Await(t).op = "expect"
                /\ Serial!Await(t).branches = <<[see |-> t, then |-> <<>>]>>
      /\ AwaitSudo.op = "expect"
      /\ AwaitSudo.branches = <<[see |-> PasswordPrompt, then |-> <<SendSudoPassword>>]>>
  BY <1>a DEF Serial!Await, Serial!On, AwaitSudo
<1>d. Serial!Exit3.op = "exit"
  BY DEF Serial!Exit3
<1>e. \A s \in Starters : s.op = "expect"
  BY <1>a DEF Starters
<1>2. \A t : AwaitSudo # Serial!Await(t)
  <2> SUFFICES ASSUME NEW t, AwaitSudo = Serial!Await(t) PROVE FALSE
    OBVIOUS
  <2>1. <<[see |-> t, then |-> <<>>]>>[1].then = <<>>
    OBVIOUS
  <2>2. <<[see |-> PasswordPrompt, then |-> <<SendSudoPassword>>]>>[1].then = <<SendSudoPassword>>
    OBVIOUS
  <2> QED
    BY <1>c, <2>1, <2>2
<1> QED
  BY <1>b, <1>c, <1>d, <1>e, <1>2 DEF Awaits

\* A send determines its line.
LEMMA LineOfSend == ASSUME NEW k, NEW l, Serial!Send(k) = Serial!Send(l) PROVE k = l
BY OpsApart

\* What is printed or awaited.
LEMMA Printables ==
  /\ \A w \in {"rack", "node", "login", "password"} : Serial!Prompt(w) \in Printable
  /\ Serial!Status \in Printable /\ <<"end", "of file">> \in Printable
  /\ \A l \in Serial!Lines : Serial!Echo(l) \in Printable
  /\ \A l \in Serial!Lines \cup {Serial!NoLine} : Serial!Out(l) \in Printable
  /\ \A l : Serial!Echo(l) \notin {NodePrompt, LoginPrompt, PasswordPrompt}
  /\ \A l : Serial!Out(l) \notin {NodePrompt, LoginPrompt, PasswordPrompt}
  /\ Serial!Status \notin {NodePrompt, LoginPrompt, PasswordPrompt}
  /\ Serial!Prompt("rack") \notin {NodePrompt, LoginPrompt, PasswordPrompt}
  /\ NodePrompt # LoginPrompt /\ NodePrompt # PasswordPrompt /\ LoginPrompt # PasswordPrompt
BY DEF Printable, Words, Serial!Prompt, Serial!Status, Serial!Echo, Serial!Out,
   NodePrompt, LoginPrompt, PasswordPrompt

\* What joining short sequences gives.
LEMMA Joins ==
  ASSUME NEW S, NEW a \in S, NEW b \in S, NEW c \in S, NEW d \in S
  PROVE  /\ <<a, b>> \o <<c>> \o <<d>> = <<a, b, c, d>>
         /\ <<a, b>> \o <<>> \o <<d>> = <<a, b, d>>
<1>1. <<a, b>> \in Seq(S) /\ <<c>> \in Seq(S) /\ <<d>> \in Seq(S) /\ <<a, b, c>> \in Seq(S)
      /\ <<a, b, c, d>> \in Seq(S) /\ <<a, b, d>> \in Seq(S)
  OBVIOUS
<1>2. <<a, b>> \o <<c>> = <<a, b, c>>
  <2>1. /\ <<a, b>> \o <<c>> \in Seq(S) /\ Len(<<a, b>> \o <<c>>) = 3
        /\ \A i \in 1..3 : (<<a, b>> \o <<c>>)[i] = IF i <= 2 THEN <<a, b>>[i] ELSE <<c>>[i - 2]
    BY <1>1, ConcatProperties
  <2>2. \A i \in 1..3 : (<<a, b>> \o <<c>>)[i] = <<a, b, c>>[i]
    BY <2>1
  <2> QED
    BY <1>1, <2>1, <2>2, SeqEqual
<1>3. <<a, b, c>> \o <<d>> = <<a, b, c, d>>
  <2>1. /\ <<a, b, c>> \o <<d>> \in Seq(S) /\ Len(<<a, b, c>> \o <<d>>) = 4
        /\ \A i \in 1..4 : (<<a, b, c>> \o <<d>>)[i] = IF i <= 3 THEN <<a, b, c>>[i] ELSE <<d>>[i - 3]
    BY <1>1, ConcatProperties
  <2>2. \A i \in 1..4 : (<<a, b, c>> \o <<d>>)[i] = <<a, b, c, d>>[i]
    BY <2>1
  <2> QED
    BY <1>1, <2>1, <2>2, SeqEqual
<1>4. <<a, b>> \o <<>> = <<a, b>>
  BY <1>1, ConcatEmptySeq
<1>5. <<a, b>> \o <<d>> = <<a, b, d>>
  <2>1. /\ <<a, b>> \o <<d>> \in Seq(S) /\ Len(<<a, b>> \o <<d>>) = 3
        /\ \A i \in 1..3 : (<<a, b>> \o <<d>>)[i] = IF i <= 2 THEN <<a, b>>[i] ELSE <<d>>[i - 2]
    BY <1>1, ConcatProperties
  <2>2. \A i \in 1..3 : (<<a, b>> \o <<d>>)[i] = <<a, b, d>>[i]
    BY <2>1
  <2> QED
    BY <1>1, <2>1, <2>2, SeqEqual
<1> QED
  BY <1>2, <1>3, <1>4, <1>5

\* What the script does for one probe.
ForProbe(p, cmds, i) ==
  /\ p \in Seq(RestOps) /\ Len(p) >= 3
  /\ p[1] = Serial!Send(cmds[i]) /\ p[2] \in Awaits
  /\ \A k \in 2..Len(p) : p[k] \in Awaits \cup {AwaitSudo}
  /\ \A k \in 1..Len(p) : p[k] = AwaitSudo => k = 3 /\ Serial!FirstSudo(cmds, i)

\* The operations for one probe, with and without a sudo to wait for.
ProbeIs(p, setup, cmds, i) ==
  LET a == Serial!Send(cmds[i])
      b == Serial!Await(Serial!Echo(cmds[i]))
      d == Serial!Await(NodePrompt)
  IN  \/ p = <<a, b, AwaitSudo, d>> /\ Serial!FirstSudo(cmds, i)
      \/ p = <<a, b, d>>

\* A probe is written like that.
LEMMA ProbeWritten ==
  ASSUME NEW setup, NEW cmds \in Seq(Wires), NEW i \in 1..Len(cmds)
  PROVE  /\ ProbeIs(Serial!Probe(setup, cmds, i), setup, cmds, i)
         /\ Serial!Send(cmds[i]) \in WireSends
         /\ Serial!Await(Serial!Echo(cmds[i])) \in Awaits /\ Serial!Await(NodePrompt) \in Awaits
<1> DEFINE a == Serial!Send(cmds[i])
           b == Serial!Await(Serial!Echo(cmds[i]))
           d == Serial!Await(NodePrompt)
           p == Serial!Probe(setup, cmds, i)
<1>1. a \in WireSends /\ b \in Awaits /\ d \in Awaits
  <2>1. cmds[i] \in Wires
    OBVIOUS
  <2> QED
    BY <2>1, Printables DEF WireSends, Awaits, Serial!Lines, NodePrompt
<1>2. {a, b, d, AwaitSudo} \subseteq RestOps
  BY <1>1 DEF RestOps
<1>3. p = <<a, b>> \o (IF setup.sudo /\ Serial!FirstSudo(cmds, i) THEN <<AwaitSudo>> ELSE <<>>) \o <<d>>
  BY DEF Serial!Probe, AwaitSudo, PasswordPrompt, NodePrompt, SendSudoPassword
<1> HIDE DEF a, b, d, p
<1>4. \/ p = <<a, b, AwaitSudo, d>> /\ Serial!FirstSudo(cmds, i)
      \/ p = <<a, b, d>>
  <2>1. CASE setup.sudo /\ Serial!FirstSudo(cmds, i)
    BY <1>2, <1>3, <2>1, Joins
  <2>2. CASE ~(setup.sudo /\ Serial!FirstSudo(cmds, i))
    BY <1>2, <1>3, <2>2, Joins
  <2> QED
    BY <2>1, <2>2
<1> QED
  BY <1>1, <1>4 DEF ProbeIs, a, b, d, p

\* What they say of a probe for sudo.
LEMMA ProbeOps ==
  ASSUME NEW setup, NEW cmds \in Seq(Wires), NEW i \in 1..Len(cmds)
  PROVE  ForProbe(Serial!Probe(setup, cmds, i), cmds, i)
<1> DEFINE a == Serial!Send(cmds[i])
           b == Serial!Await(Serial!Echo(cmds[i]))
           d == Serial!Await(NodePrompt)
           p == Serial!Probe(setup, cmds, i)
<1>1. a \in WireSends /\ b \in Awaits /\ d \in Awaits
  BY ProbeWritten
<1>2. {a, b, d, AwaitSudo} \subseteq RestOps
  BY <1>1 DEF RestOps
<1>3. a # AwaitSudo /\ AwaitSudo \notin Awaits
  BY OpsApart
<1>4. \/ p = <<a, b, AwaitSudo, d>> /\ Serial!FirstSudo(cmds, i)
      \/ p = <<a, b, d>>
  BY ProbeWritten DEF ProbeIs
<1> HIDE DEF b, d, p
<1>5. CASE p = <<a, b, AwaitSudo, d>> /\ Serial!FirstSudo(cmds, i)
  <2>1. p \in Seq(RestOps) /\ Len(p) = 4 /\ p[1] = a /\ p[2] = b /\ p[3] = AwaitSudo /\ p[4] = d
    BY <1>2, <1>5
  <2>2. \A k \in 1..Len(p) : k = 1 \/ k = 2 \/ k = 3 \/ k = 4
    BY <2>1
  <2> HIDE DEF a
  <2> QED
    BY <1>1, <1>3, <1>5, <2>1, <2>2 DEF ForProbe, a, p
<1>6. CASE p = <<a, b, d>>
  <2>1. p \in Seq(RestOps) /\ Len(p) = 3 /\ p[1] = a /\ p[2] = b /\ p[3] = d
    BY <1>2, <1>6
  <2>2. \A k \in 1..Len(p) : k = 1 \/ k = 2 \/ k = 3
    BY <2>1
  <2> HIDE DEF a
  <2> QED
    BY <1>1, <1>3, <2>1, <2>2 DEF ForProbe, a, p
<1> QED
  BY <1>4, <1>5, <1>6

\* The operations for the first m probes.
Probing(s, cmds, m) ==
  /\ Ordered(s) /\ SudoAhead(s)
  /\ Len(s) >= 1 /\ s[1] \in WireSends
  /\ \A i \in 1..Len(s) : s[i] # Serial!Send(Serial!Leave)
  /\ (\A j \in 1..m : cmds[j] \notin SudoWires) =>
       \A i \in 1..Len(s) : s[i] \notin SudoSends /\ s[i] # AwaitSudo

\* The operations for one probe, seen from the kinds of operations.
LEMMA KindsForProbe ==
  ASSUME NEW cmds \in Seq(Wires), NEW i \in 1..Len(cmds), NEW p, ForProbe(p, cmds, i)
  PROVE  /\ p[1] \in WireSends /\ Len(p) \in Nat
         /\ \A k \in 1..Len(p) : p[k] # Serial!Send(Serial!Leave)
         /\ \A k \in 1..Len(p) : p[k] \in SudoSends => k = 1 /\ cmds[i] \in SudoWires
<1>1. cmds[i] \in Wires
  OBVIOUS
<1>2. p[1] \in WireSends /\ Len(p) \in Nat
  BY <1>1 DEF ForProbe, WireSends
<1>3. ASSUME NEW k \in 1..Len(p) PROVE p[k] # Serial!Send(Serial!Leave)
  <2>1. CASE k = 1
    BY <1>1, <2>1, LineOfSend, WiresAreNoWords DEF ForProbe
  <2>2. CASE k \in 2..Len(p)
    BY <2>2, OpsApart DEF ForProbe
  <2> QED
    BY <1>2, <2>1, <2>2
<1>4. ASSUME NEW k \in 1..Len(p), p[k] \in SudoSends PROVE k = 1 /\ cmds[i] \in SudoWires
  <2>1. PICK w \in SudoWires : p[k] = Serial!Send(w)
    BY <1>4 DEF SudoSends
  <2>2. CASE k = 1
    BY <2>1, <2>2, LineOfSend DEF ForProbe
  <2>3. CASE k \in 2..Len(p)
    BY <2>1, <2>3, OpsApart DEF ForProbe
  <2> QED
    BY <1>2, <2>2, <2>3
<1> QED
  BY <1>2, <1>3, <1>4

\* The first probe alone.
LEMMA FirstProbe ==
  ASSUME NEW cmds \in Seq(Wires), 1 \in 1..Len(cmds), NEW p, ForProbe(p, cmds, 1)
  PROVE  Probing(p, cmds, 1)
<1>1. /\ p[1] \in WireSends /\ Len(p) \in Nat
      /\ \A k \in 1..Len(p) : p[k] # Serial!Send(Serial!Leave)
      /\ \A k \in 1..Len(p) : p[k] \in SudoSends => k = 1 /\ cmds[1] \in SudoWires
  BY KindsForProbe
<1>2. \A k \in 1..Len(p) : p[k] = AwaitSudo => k = 3 /\ cmds[1] \in SudoWires
  BY DEF ForProbe, Serial!FirstSudo
<1>3. Ordered(p) /\ SudoAhead(p)
  BY <1>1, <1>2 DEF Ordered, SudoAhead, ForProbe
<1> QED
  BY <1>1, <1>2, <1>3 DEF Probing, ForProbe

\* One more probe behind those before it.
LEMMA NextProbe ==
  ASSUME NEW cmds \in Seq(Wires), NEW m \in Nat, m + 1 \in 1..Len(cmds),
         NEW s, Probing(s, cmds, m), NEW p, ForProbe(p, cmds, m + 1)
  PROVE  Probing(s \o p, cmds, m + 1)
<1> DEFINE t == s \o p
           n == Len(s)
<1>1. /\ p[1] \in WireSends /\ Len(p) \in Nat
      /\ \A k \in 1..Len(p) : p[k] # Serial!Send(Serial!Leave)
      /\ \A k \in 1..Len(p) : p[k] \in SudoSends => k = 1 /\ cmds[m + 1] \in SudoWires
  BY KindsForProbe
<1>2. s \in Seq(RestOps) /\ p \in Seq(RestOps) /\ n \in Nat
  BY DEF Probing, Ordered, ForProbe
<1>3. /\ t \in Seq(RestOps) /\ Len(t) = n + Len(p)
      /\ \A i \in 1..n + Len(p) : t[i] = IF i <= n THEN s[i] ELSE p[i - n]
  BY <1>2, ConcatProperties
<1> HIDE DEF t
<1>4. ASSUME NEW i \in 1..Len(t)
      PROVE  \/ i \in 1..n /\ t[i] = s[i]
             \/ i > n /\ i - n \in 1..Len(p) /\ t[i] = p[i - n]
  BY <1>1, <1>2, <1>3
<1> HIDE DEF n
<1>5. \A k \in 1..Len(p) : p[k] = AwaitSudo =>
        k = 3 /\ cmds[m + 1] \in SudoWires /\ \A j \in 1..m : cmds[j] \notin SudoWires
  BY DEF ForProbe, Serial!FirstSudo
<1>6. ASSUME NEW i \in 1..Len(t), t[i] = AwaitSudo, i > n
      PROVE  /\ i - n = 3
             /\ \A j \in 1..n : s[j] \notin SudoSends /\ s[j] # AwaitSudo
  <2>1. i - n \in 1..Len(p) /\ p[i - n] = AwaitSudo
    BY <1>2, <1>4, <1>6
  <2> QED
    BY <1>5, <2>1 DEF Probing, n
<1>7. n + 1 > n /\ 1..n + Len(p) = 1..Len(t) /\ Len(t) \in Nat
  BY <1>1, <1>2, <1>3
<1>8. Ordered(t)
  <2>1. \A i \in 1..Len(t) : t[i] # Serial!Send(Serial!Leave)
    BY <1>1, <1>4 DEF Probing, n
  <2>2. ASSUME NEW i \in 1..Len(t), NEW j \in 1..Len(t), t[i] = AwaitSudo, t[j] = AwaitSudo
        PROVE  i = j
    <3>1. CASE i <= n /\ j <= n
      <4>1. i \in 1..n /\ j \in 1..n /\ s[i] = AwaitSudo /\ s[j] = AwaitSudo
        BY <1>2, <1>4, <2>2, <3>1
      <4> QED
        BY <4>1 DEF Probing, Ordered, n
    <3>2. CASE i > n /\ j > n
      <4>1. i - n = 3 /\ j - n = 3
        BY <1>6, <2>2, <3>2
      <4> QED
        BY <1>2, <4>1
    <3>3. CASE i > n /\ j <= n
      BY <1>2, <1>4, <1>6, <2>2, <3>3
    <3>4. CASE i <= n /\ j > n
      BY <1>2, <1>4, <1>6, <2>2, <3>4
    <3> QED
      BY <1>2, <3>1, <3>2, <3>3, <3>4
  <2>3. ASSUME NEW i \in 1..Len(t), NEW j \in 1..Len(t), t[i] = AwaitSudo, j < i, t[j] \in SudoSends
        PROVE  j = i - 2
    <3>1. CASE i <= n
      <4>1. i \in 1..n /\ j \in 1..n /\ s[i] = AwaitSudo /\ s[j] \in SudoSends
        BY <1>2, <1>4, <2>3, <3>1
      <4> QED
        BY <2>3, <4>1 DEF Probing, Ordered, n
    <3>2. CASE i > n /\ j <= n
      BY <1>2, <1>4, <1>6, <2>3, <3>2
    <3>3. CASE i > n /\ j > n
      <4>1. j - n \in 1..Len(p) /\ p[j - n] \in SudoSends
        BY <1>2, <1>4, <2>3, <3>3
      <4>2. j - n = 1 /\ i - n = 3
        BY <1>1, <1>6, <2>3, <3>3, <4>1
      <4> QED
        BY <1>2, <4>2
    <3> QED
      BY <1>2, <3>1, <3>2, <3>3
  <2>4. ASSUME NEW i \in 1..Len(t), NEW j \in 1..Len(t), t[i] = AwaitSudo, j = i - 1
        PROVE  t[j] \in Awaits
    <3>1. CASE i <= n
      <4>1. i \in 1..n /\ j \in 1..n /\ s[i] = AwaitSudo /\ t[j] = s[j]
        BY <1>2, <1>4, <2>4, <3>1
      <4> QED
        BY <2>4, <4>1 DEF Probing, Ordered, n
    <3>2. CASE i > n
      <4>1. i - n = 3
        BY <1>6, <2>4, <3>2
      <4>2. j > n /\ j - n = 2
        BY <1>2, <2>4, <4>1
      <4>3. t[j] = p[2]
        BY <1>2, <1>4, <4>2
      <4> QED
        BY <4>3 DEF ForProbe
    <3> QED
      BY <1>2, <3>1, <3>2
  <2> QED
    BY <1>3, <2>1, <2>2, <2>3, <2>4 DEF Ordered
<1>9. SudoAhead(t)
  <2> SUFFICES ASSUME NEW i \in 1..Len(t), t[i] = AwaitSudo PROVE i > 2
    BY DEF SudoAhead
  <2>1. CASE i <= n
    <3>1. i \in 1..n /\ s[i] = AwaitSudo
      BY <1>2, <1>4, <2>1
    <3> QED
      BY <3>1 DEF Probing, SudoAhead, n
  <2>2. CASE i > n
    BY <1>2, <1>6, <2>2
  <2> QED
    BY <1>2, <2>1, <2>2
<1>10. Len(t) >= 1 /\ t[1] \in WireSends
  <2>1. n >= 1 /\ s[1] \in WireSends
    BY DEF Probing, n
  <2>2. 1 \in 1..n + Len(p) /\ 1 <= n
    BY <1>1, <1>2, <2>1
  <2> QED
    BY <1>3, <1>7, <2>1, <2>2 DEF n
<1>11. \A i \in 1..Len(t) : t[i] # Serial!Send(Serial!Leave)
  BY <1>1, <1>4 DEF Probing, n
<1>12. ASSUME \A j \in 1..m + 1 : cmds[j] \notin SudoWires, NEW i \in 1..Len(t)
       PROVE  t[i] \notin SudoSends /\ t[i] # AwaitSudo
  <2>1. cmds[m + 1] \notin SudoWires /\ \A j \in 1..m : cmds[j] \notin SudoWires
    BY <1>12
  <2> QED
    BY <1>1, <1>4, <1>5, <2>1 DEF Probing, n
<1> QED
  BY <1>8, <1>9, <1>10, <1>11, <1>12 DEF Probing, t

\* Behind the probes the script takes its leave.
LEMMA LeavesLast ==
  ASSUME NEW cmds, NEW m, NEW s, Probing(s, cmds, m), NEW c \in Seq(CloseOps)
  PROVE  Untouched(s \o c)
<1> DEFINE t == s \o c
           n == Len(s)
<1>1. s \in Seq(RestOps) /\ c \in Seq(RestOps) /\ n \in Nat /\ Len(c) \in Nat
  <2>1. CloseOps \subseteq RestOps
    BY DEF RestOps
  <2> QED
    BY <2>1, SeqMonotonic DEF Probing, Ordered
<1>2. /\ t \in Seq(RestOps) /\ Len(t) = n + Len(c)
      /\ \A i \in 1..n + Len(c) : t[i] = IF i <= n THEN s[i] ELSE c[i - n]
  BY <1>1, ConcatProperties
<1> HIDE DEF t
<1>3. ASSUME NEW i \in 1..Len(t)
      PROVE  \/ i \in 1..n /\ t[i] = s[i]
             \/ i > n /\ t[i] \in CloseOps
  <2>1. i > n => i - n \in 1..Len(c) /\ t[i] = c[i - n]
    BY <1>1, <1>2
  <2>2. \A k \in 1..Len(c) : c[k] \in CloseOps
    OBVIOUS
  <2> QED
    BY <1>1, <1>2, <2>1, <2>2
<1>4. AwaitSudo \notin CloseOps /\ \A o \in SudoSends : o \notin CloseOps
  <2>1. \A w \in SudoWires : Serial!Send(w) # Serial!Send(Serial!Leave)
    BY LineOfSend, WiresAreNoWords
  <2> QED
    BY <2>1, OpsApart DEF CloseOps, SudoSends
<1>5. n >= 1 /\ s[1] \in WireSends /\ 1 \in 1..Len(t)
  BY <1>1, <1>2 DEF Probing, n
<1> HIDE DEF n
<1>6. Ordered(t)
  <2>1. ASSUME NEW i \in 1..Len(t), NEW j \in 1..Len(t), i < j, t[i] = Serial!Send(Serial!Leave)
        PROVE  t[j] \in CloseOps
    <3>1. i > n
      BY <1>3, <2>1 DEF Probing, n
    <3> QED
      BY <1>1, <1>3, <2>1, <3>1
  <2>2. ASSUME NEW i \in 1..Len(t), t[i] = AwaitSudo
        PROVE  /\ i \in 1..n /\ s[i] = AwaitSudo
               /\ \A j \in 1..Len(t) : j <= i => j \in 1..n /\ t[j] = s[j]
    BY <1>1, <1>3, <1>4, <2>2
  <2>3. \A i, j \in 1..Len(t) : t[i] = AwaitSudo /\ t[j] = AwaitSudo => i = j
    BY <2>2 DEF Probing, Ordered, n
  <2>4. ASSUME NEW i \in 1..Len(t), NEW j \in 1..Len(t), t[i] = AwaitSudo, j < i, t[j] \in SudoSends
        PROVE  j = i - 2
    <3>1. i \in 1..n /\ s[i] = AwaitSudo /\ j \in 1..n /\ s[j] \in SudoSends
      BY <2>2, <2>4
    <3> QED
      BY <2>4, <3>1 DEF Probing, Ordered, n
  <2>5. ASSUME NEW i \in 1..Len(t), NEW j \in 1..Len(t), t[i] = AwaitSudo, j = i - 1
        PROVE  t[j] \in Awaits
    <3>1. i \in 1..n /\ s[i] = AwaitSudo /\ j \in 1..n /\ t[j] = s[j]
      BY <2>2, <2>5
    <3> QED
      BY <2>5, <3>1 DEF Probing, Ordered, n
  <2> QED
    BY <1>2, <2>1, <2>3, <2>4, <2>5 DEF Ordered
<1>7. SudoAhead(t)
  <2> SUFFICES ASSUME NEW i \in 1..Len(t), t[i] = AwaitSudo PROVE i > 2
    BY DEF SudoAhead
  <2>1. i \in 1..n /\ s[i] = AwaitSudo
    BY <1>3, <1>4
  <2> QED
    BY <2>1 DEF Probing, SudoAhead, n
<1>8. ProbeFirst(t)
  <2> SUFFICES ASSUME NEW i \in 1..Len(t), t[i] = Serial!Await(NodePrompt)
               PROVE  \E j \in 1..i - 1 : t[j] \in WireSends
    BY DEF ProbeFirst
  <2>1. t[1] = s[1]
    BY <1>1, <1>3, <1>5
  <2>2. t[1] # Serial!Await(NodePrompt)
    BY <1>5, <2>1, OpsApart, Printables DEF WireSends, Awaits, NodePrompt
  <2>3. i # 1 /\ 1 \in 1..i - 1
    BY <1>1, <1>2, <2>2
  <2> QED
    BY <1>5, <2>1, <2>3
<1> QED
  BY <1>6, <1>7, <1>8 DEF Untouched, t

\* The operations for all the probes, found probe by probe.
LEMMA ForProbes ==
  ASSUME NEW setup, NEW cmds \in Seq(Wires), Len(cmds) # 0
  PROVE  Probing(Serial!FlattenSeq([i \in DOMAIN cmds |-> Serial!Probe(setup, cmds, i)]),
                 cmds, Len(cmds))
<1> DEFINE n == Len(cmds)
           q == [i \in DOMAIN cmds |-> Serial!Probe(setup, cmds, i)]
<1>1. n \in Nat \ {0} /\ DOMAIN cmds = 1..n
  OBVIOUS
<1>2. \A i \in 1..n : ForProbe(Serial!Probe(setup, cmds, i), cmds, i)
  BY ProbeOps
<1>3. \A i \in 1..n : q[i] = Serial!Probe(setup, cmds, i) /\ q[i] \in Seq(RestOps)
  BY <1>1, <1>2 DEF ForProbe
<1>4. q \in Seq(Seq(RestOps)) /\ Len(q) = n
  <2>1. q = [i \in 1..n |-> q[i]] /\ q \in [1..n -> Seq(RestOps)]
    BY <1>1, <1>3
  <2> HIDE DEF q
  <2> QED
    BY <1>1, <2>1
<1> HIDE DEF q, n
<1>5. PICK f \in [1..n -> Seq(RestOps)] :
           /\ f[1] = q[1] /\ Serial!FlattenSeq(q) = f[n]
           /\ \A i \in 2..n : f[i] = f[i - 1] \o q[i]
  <2>1. Len(q) # 0
    BY <1>1, <1>4
  <2>2. OneByOne(q, Len(q), Seq(RestOps), Serial!FlattenSeq(q))
    BY <1>4, <2>1, Flattened
  <2> QED
    BY <1>4, <2>2 DEF OneByOne
<1> DEFINE I == {k \in Nat : \A m \in 1..n : m = k + 1 => Probing(f[m], cmds, m)}
<1>6. 0 \in I
  <2>1. 1 \in 1..n /\ 1 \in 1..Len(cmds)
    BY <1>1 DEF n
  <2>2. Probing(f[1], cmds, 1)
    BY <1>2, <1>3, <1>5, <2>1, FirstProbe
  <2> QED
    BY <2>2
<1>7. ASSUME NEW k \in I PROVE k + 1 \in I
  <2> SUFFICES ASSUME NEW m \in 1..n, m = k + 2 PROVE Probing(f[m], cmds, m)
    OBVIOUS
  <2> DEFINE l == k + 1
  <2>1. l \in Nat /\ l \in 1..n /\ m \in 2..n /\ m - 1 = l /\ m = l + 1 /\ m \in 1..Len(cmds)
    BY <1>1 DEF n
  <2>2. Probing(f[l], cmds, l)
    BY <2>1
  <2> HIDE DEF l, I
  <2>3. f[m] = f[l] \o q[m]
    BY <1>5, <2>1
  <2>4. ForProbe(q[m], cmds, l + 1)
    BY <1>2, <1>3, <2>1
  <2>5. Probing(f[l] \o q[m], cmds, l + 1)
    BY <2>1, <2>2, <2>4, NextProbe
  <2> QED
    BY <2>1, <2>3, <2>5
<1>8. I = Nat
  <2>1. I \in SUBSET Nat
    OBVIOUS
  <2> HIDE DEF I
  <2>2. \A k \in I : k + 1 \in I
    BY <1>7
  <2> QED
    BY <1>6, <2>1, <2>2, NatClosed
<1>9. Probing(f[n], cmds, n)
  <2>1. n - 1 \in Nat /\ n \in 1..n /\ n = (n - 1) + 1
    BY <1>1
  <2>2. n - 1 \in I
    <3> HIDE DEF I
    <3> QED
      BY <1>8, <2>1
  <2> QED
    BY <2>1, <2>2
<1> QED
  BY <1>5, <1>9 DEF q, n

\* What is awaited tells the operations that await apart.
LEMMA AwaitApart == ASSUME NEW t, NEW u, Serial!Await(t) = Serial!Await(u) PROVE t = u
<1> DEFINE b == [see |-> t, then |-> <<>>]
           c == [see |-> u, then |-> <<>>]
<1>1. <<b>> = <<c>>
  BY OpsApart
<1>2. <<b>>[1] = <<c>>[1]
  BY <1>1
<1>3. b = c
  <2> HIDE DEF b, c
  <2> QED
    BY <1>2
<1> QED
  BY <1>3

\* Two operations are one and then the other.
LEMMA PairJoins ==
  ASSUME NEW S, NEW a \in S, NEW b \in S
  PROVE  /\ <<a, b>> = <<a>> \o <<b>>
         /\ <<a>> \in Seq(S) /\ <<b>> \in Seq(S) /\ <<a, b>> \in Seq(S)
<1>1. <<a, b>> \in Seq(S) /\ <<a>> \in Seq(S) /\ <<b>> \in Seq(S)
  OBVIOUS
<1>2. /\ <<a>> \o <<b>> \in Seq(S) /\ Len(<<a>> \o <<b>>) = 2
      /\ \A i \in 1..2 : (<<a>> \o <<b>>)[i] = IF i <= 1 THEN <<a>>[i] ELSE <<b>>[i - 1]
  BY <1>1, ConcatProperties
<1>3. \A i \in 1..2 : (<<a>> \o <<b>>)[i] = <<a, b>>[i]
  BY <1>2
<1> QED
  BY <1>1, <1>2, <1>3, SeqEqual

\* What a script has behind its opening: the probes and its end.
Body(setup, cmds) ==
  Serial!FlattenSeq([i \in DOMAIN cmds |-> Serial!Probe(setup, cmds, i)]) \o Serial!Closing(setup)

\* How a script ends.
LEMMA ScriptCloses == ASSUME NEW setup PROVE Serial!Closing(setup) \in Seq(CloseOps)
<1> DEFINE rack == Serial!Await(Serial!Prompt("rack"))
           end == Serial!Await(<<"end", "of file">>)
           leave == Serial!Send(Serial!Leave)
           closing == Serial!Closing(setup)
<1>1. rack \in CloseOps
  BY Printables, AwaitApart DEF CloseOps, Awaits
<1>2. end \in CloseOps
  <2>1. <<"end", "of file">> # NodePrompt
    BY DEF NodePrompt, Serial!Prompt
  <2> QED
    BY <2>1, Printables, AwaitApart DEF CloseOps, Awaits
<1>3. leave \in CloseOps
  BY DEF CloseOps
<1>4. closing = IF setup.direct THEN <<leave, leave, end>> ELSE <<leave, rack>>
  BY DEF Serial!Closing
<1> HIDE DEF closing, rack, end, leave
<1>5. <<leave, leave, end>> \in Seq(CloseOps) /\ <<leave, rack>> \in Seq(CloseOps)
  BY <1>1, <1>2, <1>3
<1>6. closing \in Seq(CloseOps)
  BY <1>4, <1>5
<1> QED
  BY <1>6 DEF closing

\* The script of a session begins with its opening, and is untouched behind.
LEMMA ScriptOpens ==
  ASSUME NEW setup, NEW cmds \in Seq(Wires), Len(cmds) # 0
  PROVE  LET s == Serial!Script(setup, cmds) IN
         \/ AtRack(s) /\ Tail(Tail(Tail(s))) = Body(setup, cmds)
         \/ AtStart(s) /\ Tail(Tail(s)) = Body(setup, cmds)
<1> DEFINE probes == Serial!FlattenSeq([i \in DOMAIN cmds |-> Serial!Probe(setup, cmds, i)])
           closing == Serial!Closing(setup)
           r == probes \o closing
           logIn == IF setup.login THEN <<Serial!On(LoginPrompt, Serial!LogIn)>> ELSE <<>>
           start == Serial!Send(Serial!Start)
           session == Serial!Expect(<<Serial!On(Serial!Status, <<Serial!Exit3>>)>>
                                      \o logIn \o <<Serial!On(NodePrompt, <<>>)>>)
           rack == Serial!Await(Serial!Prompt("rack"))
<1>1. Probing(probes, cmds, Len(cmds))
  BY ForProbes
<1>2. closing \in Seq(CloseOps)
  BY ScriptCloses
<1>3. Untouched(r)
  BY <1>1, <1>2, LeavesLast
<1>4. session \in Starters
  BY DEF Starters
<1>5. /\ probes \in Seq(AnyOps) /\ closing \in Seq(AnyOps) /\ r \in Seq(AnyOps)
      /\ start \in AnyOps /\ session \in AnyOps /\ rack \in AnyOps
  <2>1. RestOps \subseteq AnyOps /\ CloseOps \subseteq AnyOps
    BY DEF AnyOps, RestOps
  <2>2. probes \in Seq(RestOps) /\ r \in Seq(RestOps)
    BY <1>1, <1>3 DEF Probing, Ordered, Untouched
  <2>3. rack \in RestOps
    BY Printables DEF RestOps, Awaits
  <2> QED
    BY <1>2, <1>4, <2>1, <2>2, <2>3, SeqMonotonic DEF AnyOps
<1>6. Serial!Opening(setup) =
        (IF setup.direct THEN <<>> ELSE <<rack>>) \o <<start, session>>
  BY DEF Serial!Opening, LoginPrompt, NodePrompt
<1>7. Serial!Script(setup, cmds) = Serial!Opening(setup) \o probes \o closing
  BY DEF Serial!Script
<1>b. r = Body(setup, cmds)
  BY DEF Body
<1> HIDE DEF r, probes, closing, start, session, rack
<1>8. /\ <<start, session>> = <<start>> \o <<session>>
      /\ <<start>> \in Seq(AnyOps) /\ <<session>> \in Seq(AnyOps)
      /\ <<start, session>> \in Seq(AnyOps) /\ <<rack>> \in Seq(AnyOps)
  BY <1>5, PairJoins
<1> DEFINE t == <<session>> \o r
           u == <<start>> \o t
           v == <<rack>> \o u
<1>9. /\ t \in Seq(AnyOps) /\ t # <<>> /\ Head(t) = session /\ Tail(t) = r
  BY <1>5, Prepended
<1>10. u \in Seq(AnyOps) /\ u # <<>> /\ Head(u) = start /\ Tail(u) = t
  BY <1>5, <1>9, Prepended
<1>11. v \in Seq(AnyOps) /\ v # <<>> /\ Head(v) = rack /\ Tail(v) = u
  BY <1>5, <1>10, Prepended
<1>12. <<start, session>> \o r = u
  BY <1>5, <1>8, ConcatAssociative
<1>13. AtStart(u)
  BY <1>3, <1>4, <1>9, <1>10 DEF AtStart, AtSession, Begins, start
<1>14. Serial!Script(setup, cmds) = Serial!Opening(setup) \o r
  <2>1. Serial!Opening(setup) \in Seq(AnyOps)
    <3>1. <<start, session>> \in Seq(AnyOps) /\ <<rack>> \in Seq(AnyOps) /\ <<>> \in Seq(AnyOps)
      BY <1>5
    <3>2. (IF setup.direct THEN <<>> ELSE <<rack>>) \in Seq(AnyOps)
      BY <3>1
    <3> QED
      BY <1>6, <3>1, <3>2, ConcatProperties
  <2> QED
    BY <1>5, <1>7, <2>1, ConcatAssociative DEF r
<1>15. CASE setup.direct
  <2>1. <<start, session>> \in Seq(AnyOps)
    BY <1>5
  <2>2. Serial!Opening(setup) = <<start, session>>
    BY <1>6, <1>15, <2>1, ConcatEmptySeq
  <2> QED
    BY <1>b, <1>9, <1>10, <1>12, <1>13, <1>14, <2>2
<1>16. CASE ~setup.direct
  <2>1. Serial!Opening(setup) = <<rack>> \o <<start, session>>
    BY <1>6, <1>16
  <2>2. (<<rack>> \o <<start, session>>) \o r = <<rack>> \o (<<start, session>> \o r)
    BY <1>5, <1>8, ConcatAssociative
  <2>4. Serial!Opening(setup) \o r = v
    BY <1>12, <2>1, <2>2
  <2>3. AtRack(v)
    BY <1>11, <1>13 DEF AtRack, Begins, rack
  <2> QED
    BY <1>b, <1>9, <1>10, <1>11, <1>14, <2>3, <2>4
<1> QED
  BY <1>15, <1>16

\* What is left when an operation is done.
LEMMA Shorter ==
  ASSUME NEW S, NEW s \in Seq(S), s # <<>>
  PROVE  /\ Head(s) = s[1] /\ s[1] \in S /\ 1 \in 1..Len(s)
         /\ Tail(s) \in Seq(S) /\ Len(s) \in Nat /\ Len(Tail(s)) = Len(s) - 1
         /\ \A i \in 1..Len(Tail(s)) : i + 1 \in 1..Len(s) /\ Tail(s)[i] = s[i + 1]
OBVIOUS

\* What is ordered stays so when its first operation is done.
LEMMA OrderedOn ==
  ASSUME NEW s, Ordered(s), s # <<>>
  PROVE  /\ Ordered(Tail(s)) /\ s[1] \in RestOps /\ Head(s) = s[1]
         /\ \A i \in 1..Len(Tail(s)) : i + 1 \in 1..Len(s) /\ Tail(s)[i] = s[i + 1]
<1>1. s \in Seq(RestOps)
  BY DEF Ordered
<1>2. /\ Head(s) = s[1] /\ s[1] \in RestOps /\ 1 \in 1..Len(s)
      /\ Tail(s) \in Seq(RestOps) /\ Len(s) \in Nat /\ Len(Tail(s)) = Len(s) - 1
      /\ \A i \in 1..Len(Tail(s)) : i + 1 \in 1..Len(s) /\ Tail(s)[i] = s[i + 1]
  BY <1>1, Shorter
<1> DEFINE t == Tail(s)
<1> HIDE DEF t
<1>3. \A i, j \in 1..Len(t) : i < j /\ t[i] = Serial!Send(Serial!Leave) => t[j] \in CloseOps
  BY <1>2 DEF Ordered, t
<1>4. \A i, j \in 1..Len(t) : t[i] = AwaitSudo /\ t[j] = AwaitSudo => i = j
  BY <1>2 DEF Ordered, t
<1>5. ASSUME NEW i \in 1..Len(t), NEW j \in 1..Len(t), t[i] = AwaitSudo, j < i, t[j] \in SudoSends
      PROVE  j = i - 2
  <2>1. i + 1 \in 1..Len(s) /\ j + 1 \in 1..Len(s) /\ j + 1 < i + 1
        /\ s[i + 1] = AwaitSudo /\ s[j + 1] \in SudoSends
    BY <1>2, <1>5 DEF t
  <2>2. j + 1 = (i + 1) - 2
    BY <2>1 DEF Ordered
  <2> QED
    BY <1>2, <2>2
<1>6. ASSUME NEW i \in 1..Len(t), NEW j \in 1..Len(t), t[i] = AwaitSudo, j = i - 1
      PROVE  t[j] \in Awaits
  <2>1. i + 1 \in 1..Len(s) /\ j + 1 \in 1..Len(s) /\ j + 1 = (i + 1) - 1
        /\ s[i + 1] = AwaitSudo /\ t[j] = s[j + 1]
    BY <1>2, <1>6 DEF t
  <2> QED
    BY <2>1 DEF Ordered
<1> QED
  BY <1>2, <1>3, <1>4, <1>5, <1>6 DEF Ordered, t

(* What is printed, consumed and read.                                     *)

\* Min is the least of the places it is taken of.
LEMMA Least ==
  ASSUME NEW I \in SUBSET Nat, I # {}
  PROVE  Serial!Min(I) \in I /\ \A p \in I : Serial!Min(I) <= p
<1>1. \E n \in I : \A m \in I : n <= m
  BY LeastNat
<1> QED
  BY <1>1 DEF Serial!Min

\* Behind one of its places a sequence has no more than it had.
LEMMA Behind ==
  ASSUME NEW S, NEW q \in Seq(S), NEW k \in 1..Len(q)
  PROVE  LET r == SubSeq(q, k + 1, Len(q)) IN
         /\ r \in Seq(S)
         /\ \A t : In(r, t) => In(q, t)
         /\ \A t : Final(q, t) => Final(r, t)
         /\ k = Len(q) => r = <<>>
<1> DEFINE r == SubSeq(q, k + 1, Len(q))
<1>1. Len(q) \in Nat /\ k \in Nat /\ k <= Len(q)
  OBVIOUS
<1>2. \A i \in (k + 1)..Len(q) : q[i] \in S
  OBVIOUS
<1>3. /\ r \in Seq(S) /\ Len(r) = Len(q) - k
      /\ \A i \in 1..Len(r) : r[i] = q[k + i]
  <2>1. k + 1 \in Int /\ Len(q) \in Int
    BY <1>1
  <2>2. /\ r \in Seq(S)
        /\ Len(r) = IF k + 1 <= Len(q) THEN Len(q) - (k + 1) + 1 ELSE 0
        /\ \A i \in 1..Len(q) - (k + 1) + 1 : r[i] = q[(k + 1) + i - 1]
    BY <1>2, <2>1, SubSeqProperties
  <2> HIDE DEF r
  <2>3. Len(r) = Len(q) - k /\ Len(q) - (k + 1) + 1 = Len(r)
    BY <1>1, <2>2
  <2>4. ASSUME NEW i \in 1..Len(r) PROVE r[i] = q[k + i]
    <3>1. i \in Int /\ (k + 1) + i - 1 = k + i
      BY <1>1, <2>3
    <3>2. r[i] = q[(k + 1) + i - 1]
      BY <2>2, <2>3
    <3> QED
      BY <3>1, <3>2
  <2> QED
    BY <2>2, <2>3, <2>4
<1> HIDE DEF r
<1>4. \A i \in 1..Len(r) : k + i \in 1..Len(q)
  BY <1>1, <1>3
<1>5. \A t : In(r, t) => In(q, t)
  BY <1>3, <1>4 DEF In
<1>6. ASSUME NEW t, Final(q, t), NEW i \in 1..Len(r), r[i] = t PROVE i = Len(r)
  <2>1. k + i = Len(q)
    BY <1>3, <1>4, <1>6 DEF Final
  <2>2. Len(r) = Len(q) - k /\ i \in Int
    BY <1>1, <1>3, <1>6
  <2> HIDE DEF r
  <2> QED
    BY <1>1, <2>1, <2>2
<1>7. k = Len(q) => r = <<>>
  BY <1>1, <1>3
<1> QED
  BY <1>3, <1>5, <1>6, <1>7 DEF Final, r

\* What is said comes behind what was said.
LEMMA Added ==
  ASSUME NEW S, NEW q \in Seq(S), NEW r \in Seq(S)
  PROVE  /\ q \o r \in Seq(S)
         /\ \A t : In(q \o r, t) => In(q, t) \/ In(r, t)
         /\ \A t : ~In(q, t) /\ Final(r, t) => Final(q \o r, t)
<1> DEFINE s == q \o r
<1>1. /\ s \in Seq(S) /\ Len(s) = Len(q) + Len(r) /\ Len(q) \in Nat /\ Len(r) \in Nat
      /\ \A i \in 1..Len(q) + Len(r) : s[i] = IF i <= Len(q) THEN q[i] ELSE r[i - Len(q)]
  BY ConcatProperties
<1> HIDE DEF s
<1>2. ASSUME NEW i \in 1..Len(s)
      PROVE  \/ i \in 1..Len(q) /\ s[i] = q[i]
             \/ i - Len(q) \in 1..Len(r) /\ s[i] = r[i - Len(q)]
  BY <1>1
<1>3. \A t : In(s, t) => In(q, t) \/ In(r, t)
  BY <1>2 DEF In
<1>4. ASSUME NEW t, ~In(q, t), Final(r, t), NEW i \in 1..Len(s), s[i] = t PROVE i = Len(s)
  <2>1. i - Len(q) \in 1..Len(r) /\ r[i - Len(q)] = t
    BY <1>2, <1>4 DEF In
  <2>2. i - Len(q) = Len(r)
    BY <1>4, <2>1 DEF Final
  <2> QED
    BY <1>1, <2>2
<1> QED
  BY <1>1, <1>3, <1>4 DEF Final, s

\* What stands in a sequence of none, one or two.
LEMMA OneOrTwo ==
  /\ \A x, t : In(<<x>>, t) => t = x
  /\ \A x, t : Final(<<x>>, t)
  /\ \A x, y, t : In(<<x, y>>, t) => t \in {x, y}
  /\ \A t : ~In(<<>>, t) /\ Final(<<>>, t)
<1>1. \A x, t : In(<<x>>, t) => t = x
  BY DEF In
<1>2. \A x, t : Final(<<x>>, t)
  BY DEF Final
<1>3. ASSUME NEW x, NEW y, NEW t, In(<<x, y>>, t) PROVE t \in {x, y}
  <2>1. PICK i \in 1..2 : <<x, y>>[i] = t
    BY <1>3 DEF In
  <2>2. i = 1 \/ i = 2
    OBVIOUS
  <2> QED
    BY <2>1, <2>2
<1>4. \A t : ~In(<<>>, t) /\ Final(<<>>, t)
  BY DEF In, Final
<1> QED
  BY <1>1, <1>2, <1>3, <1>4

\* A line that is read leaves the others.
LEMMA LinesLeft ==
  ASSUME NEW S, NEW q \in Seq(S), q # <<>>
  PROVE  /\ Tail(q) \in Seq(S) /\ Head(q) \in S
         /\ Len(q) \in Nat \ {0} /\ Len(Tail(q)) = Len(q) - 1 /\ Head(q) = q[1]
         /\ \A i \in 1..Len(Tail(q)) : i + 1 \in 1..Len(q) /\ Tail(q)[i] = q[i + 1]
         /\ \A i \in 1..Len(q) : i = 1 \/ (i - 1 \in 1..Len(Tail(q)) /\ Tail(q)[i - 1] = q[i])
<1>1. /\ Tail(q) \in Seq(S) /\ Head(q) \in S
      /\ Len(q) \in Nat \ {0} /\ Len(Tail(q)) = Len(q) - 1 /\ Head(q) = q[1]
      /\ \A i \in 1..Len(Tail(q)) : i + 1 \in 1..Len(q) /\ Tail(q)[i] = q[i + 1]
  OBVIOUS
<1>2. ASSUME NEW i \in 1..Len(q), i # 1
      PROVE  i - 1 \in 1..Len(Tail(q)) /\ Tail(q)[i - 1] = q[i]
  <2>1. i - 1 \in 1..Len(Tail(q)) /\ (i - 1) + 1 = i
    BY <1>1, <1>2
  <2> QED
    BY <1>1, <2>1
<1> QED
  BY <1>1, <1>2

\* A probe is typed or was read.
LEMMA ProbesAre ==
  Serial!ProbesTyped <=>
    (\E i \in DOMAIN typed : typed[i] \in Wires) \/ (\E h \in heard : h[1] \in Wires)
BY DEF Serial!ProbesTyped, Serial!ToSet

(* What expect does.                                                       *)

\* Of what was unread a part is left, from somewhere to its end.
Consumed ==
  /\ unread' \in Seq(Printable)
  /\ \A t : In(unread', t) => In(unread, t)
  /\ \A t : Final(unread, t) => Final(unread', t)

\* An expect that matched a branch: its operations come first.
Taken(b) ==
  /\ In(unread, b.see) /\ Consumed
  /\ Final(unread, b.see) => unread' = <<>>
  /\ script' = b.then \o Tail(script)
  /\ anchored' <=> (anchored \/ (b.see = NodePrompt /\ ~Serial!ProbesTyped))
  /\ UNCHANGED <<typed, reader, running, exit, heard>>

\* An expect that matches takes one of its branches.
LEMMA Matched ==
  ASSUME unread \in Seq(Printable), NEW B, Head(script).branches \in Seq(B), Serial!Match
  PROVE  \E b \in B : Taken(b)
<1> DEFINE q == Head(script).branches
           I == {i \in 1..Len(q) : Serial!Contains(unread, q[i].see)}
           m == Serial!Matching
           b == q[m]
           J == {i \in 1..Len(unread) : unread[i] = b.see}
           k == Serial!SelectInSeq(unread, LAMBDA t : t = b.see)
<1>1. m = IF I # {} THEN Serial!Min(I) ELSE 0
  BY DEF Serial!Matching, Serial!SelectInSeq, Serial!Now
<1>2. m # 0
  BY DEF Serial!Match
<1>3. /\ unread' = SubSeq(unread, k + 1, Len(unread))
      /\ script' = b.then \o Tail(script)
      /\ anchored' = (anchored \/ (b.see = NodePrompt /\ ~Serial!ProbesTyped))
      /\ UNCHANGED <<typed, reader, running, exit, heard>>
  BY DEF Serial!Match, Serial!Now, NodePrompt
<1>4. k = IF J # {} THEN Serial!Min(J) ELSE 0
  BY DEF Serial!SelectInSeq
<1> HIDE DEF m, k
<1>5. m \in I
  <2>1. I \in SUBSET Nat /\ I # {}
    BY <1>1, <1>2
  <2> HIDE DEF I
  <2> QED
    BY <1>1, <2>1, Least
<1>6. b \in B /\ Serial!Contains(unread, b.see)
  BY <1>5
<1>7. J # {} /\ In(unread, b.see)
  BY <1>6 DEF Serial!Contains, In
<1>8. k \in J
  <2>1. J \in SUBSET Nat
    OBVIOUS
  <2> HIDE DEF J
  <2> QED
    BY <1>4, <1>7, <2>1, Least
<1>9. k \in 1..Len(unread) /\ unread[k] = b.see
  BY <1>8
<1> HIDE DEF b, q
<1>10. /\ Consumed
       /\ k = Len(unread) => unread' = <<>>
  BY <1>3, <1>9, Behind DEF Consumed
<1>11. Final(unread, b.see) => k = Len(unread)
  BY <1>9 DEF Final
<1>12. anchored' <=> (anchored \/ (b.see = NodePrompt /\ ~Serial!ProbesTyped))
  BY <1>3
<1> QED
  BY <1>3, <1>6, <1>7, <1>10, <1>11, <1>12 DEF Taken

\* With one branch it takes that.
LEMMA MatchedOne ==
  ASSUME unread \in Seq(Printable), NEW t, NEW r,
         Head(script).branches = <<[see |-> t, then |-> r]>>, Serial!Match
  PROVE  Taken([see |-> t, then |-> r])
<1> DEFINE b == [see |-> t, then |-> r]
<1>1. Head(script).branches \in Seq({b})
  <2>1. Head(script).branches = <<b>>
    OBVIOUS
  <2> HIDE DEF b
  <2>2. b \in {b}
    OBVIOUS
  <2>3. <<b>> \in Seq({b})
    BY <2>2
  <2> QED
    BY <2>1, <2>3
<1> HIDE DEF b
<1> QED
  BY <1>1, Matched DEF b

\* What a starter may match.
StartBranches ==
  {Serial!On(Serial!Status, <<Serial!Exit3>>), Serial!On(LoginPrompt, Serial!LogIn),
   Serial!On(NodePrompt, <<>>)}

\* The branches of the expect behind the start.
LEMMA StarterBranches ==
  ASSUME NEW s \in Starters
  PROVE  s.branches \in Seq(StartBranches) /\ s.op = "expect"
<1> DEFINE a == Serial!On(Serial!Status, <<Serial!Exit3>>)
           b == Serial!On(LoginPrompt, Serial!LogIn)
           c == Serial!On(NodePrompt, <<>>)
<1>1. PICK logIn \in {<<>>, <<b>>} : s = Serial!Expect(<<a>> \o logIn \o <<c>>)
  BY DEF Starters
<1>2. s.branches = <<a>> \o logIn \o <<c>> /\ s.op = "expect"
  BY <1>1 DEF Serial!Expect
<1>3. a \in StartBranches /\ b \in StartBranches /\ c \in StartBranches
  BY DEF StartBranches
<1> HIDE DEF a, b, c
<1>4. <<a>> \in Seq(StartBranches) /\ logIn \in Seq(StartBranches) /\ <<c>> \in Seq(StartBranches)
  <2> HIDE DEF StartBranches
  <2>1. /\ <<a>> \in Seq(StartBranches) /\ <<c>> \in Seq(StartBranches)
        /\ <<b>> \in Seq(StartBranches) /\ <<>> \in Seq(StartBranches)
    BY <1>3
  <2> QED
    BY <2>1
<1>5. <<a>> \o logIn \o <<c>> \in Seq(StartBranches)
  BY <1>4, ConcatProperties
<1> QED
  BY <1>2, <1>5

\* What a step can do, by the operation that is next.
Still == UNCHANGED <<unread, typed, reader, running, heard, anchored>>

\* A line is typed, and echoed by a probe that runs.
Sent ==
  /\ reader # "gone"
  /\ typed' = Append(typed, Head(script).line) /\ script' = Tail(script)
  /\ reader = "busy" => Serial!Say(<<Serial!Echo(Head(script).line)>>)
  /\ reader # "busy" => unread' = unread
  /\ UNCHANGED <<reader, running, heard, anchored>>

\* A send is done, or waits.
LEMMA Sending ==
  ASSUME Head(script).op = "send", Serial!Expecting
  PROVE  Sent \/ (Still /\ script' = script)
BY DEF Serial!Expecting, Serial!SendLine, Serial!SendToNobody, Serial!Match,
   Serial!GoOn, Serial!ExitNonZero, Serial!EndOfScript, Serial!Doing, Serial!Now,
   Serial!Unprinted, Serial!terminalVars, Sent, Still

\* An expect matches, times out and goes on, or waits.
LEMMA Awaiting ==
  ASSUME Head(script).op = "expect", Serial!Expecting
  PROVE  \/ Serial!Match
         \/ Still /\ script' = Tail(script)
         \/ Still /\ script' = script
BY DEF Serial!Expecting, Serial!SendLine, Serial!SendToNobody,
   Serial!GoOn, Serial!ExitNonZero, Serial!EndOfScript, Serial!Doing, Serial!Now,
   Serial!terminalVars, Still

\* An exit ends the script, which is the runner's to notice.
LEMMA Exiting ==
  ASSUME Head(script).op = "exit", Serial!Expecting
  PROVE  Still /\ script' = script
BY DEF Serial!Expecting, Serial!SendLine, Serial!SendToNobody, Serial!Match,
   Serial!GoOn, Serial!ExitNonZero, Serial!EndOfScript, Serial!Doing, Serial!Now,
   Serial!terminalVars, Still

\* A step that leaves the dialogue as it is.
LEMMA Stands ==
  Types /\ Still => Types'
BY DEF Types, Still

\* What is printed comes behind what is unread.
LEMMA Said ==
  ASSUME unread \in Seq(Printable), NEW r \in Seq(Printable), Serial!Say(r)
  PROVE  /\ unread' \in Seq(Printable)
         /\ \A t : In(unread', t) => In(unread, t) \/ In(r, t)
         /\ \A t : ~In(unread, t) /\ Final(r, t) => Final(unread', t)
<1>1. unread' = unread \o r
  BY DEF Serial!Say
<1> QED
  BY <1>1, Added

\* Typing a line prints no prompt.
LEMMA SentTypes ==
  ASSUME Types, Sent, Head(script).line \in Serial!Lines
  PROVE  /\ Types'
         /\ \A t : In(unread', t) => In(unread, t) \/ t = Serial!Echo(Head(script).line)
<1> DEFINE line == Head(script).line
<1>1. typed' \in Seq(Serial!Lines) /\ running' \in Serial!Lines \cup {Serial!NoLine}
  BY DEF Types, Sent
<1>2. CASE reader = "busy"
  <2>1. Serial!Say(<<Serial!Echo(line)>>) /\ unread \in Seq(Printable)
    BY <1>2 DEF Sent, Types
  <2>4. Serial!Echo(line) \in Printable
    BY Printables
  <2>2. <<Serial!Echo(line)>> \in Seq(Printable)
    <3> HIDE DEF line
    <3> QED
      BY <2>4
  <2> HIDE DEF line
  <2>3. /\ unread' \in Seq(Printable)
        /\ \A t : In(unread', t) => In(unread, t) \/ In(<<Serial!Echo(line)>>, t)
    BY <2>1, <2>2, Said
  <2> QED
    BY <1>1, <2>3, OneOrTwo DEF Types, line
<1>3. CASE reader # "busy"
  BY <1>1, <1>3 DEF Types, Sent
<1> QED
  BY <1>2, <1>3

(* The other side: what it reads and what it prints.                       *)
Prompts == {NodePrompt, LoginPrompt, PasswordPrompt}

\* Of the prompts only those of new are printed, each as the last.
Prints(new) ==
  /\ unread' \in Seq(Printable)
  /\ \A t \in Prompts : In(unread', t) => In(unread, t) \/ t \in new
  /\ \A t \in Prompts : ~In(unread, t) => Final(unread', t)

\* The line typed first is read, by who reads now; or none is.
HearsIt ==
  /\ typed # <<>> /\ typed' = Tail(typed)
  /\ heard' = heard \cup {<<Head(typed), reader>>}
HearsNot == UNCHANGED <<typed, heard>>

\* One token is printed.
LEMMA PrintsOne ==
  ASSUME Types, NEW a \in Printable, Serial!Say(<<a>>) PROVE Prints({a})
<1>1. <<a>> \in Seq(Printable) /\ unread \in Seq(Printable)
  BY DEF Types
<1>2. /\ unread' \in Seq(Printable)
      /\ \A t : In(unread', t) => In(unread, t) \/ In(<<a>>, t)
      /\ \A t : ~In(unread, t) /\ Final(<<a>>, t) => Final(unread', t)
  BY <1>1, Said
<1> QED
  BY <1>2, OneOrTwo DEF Prints

\* A token that is no prompt is printed, and one behind it.
LEMMA PrintsTwo ==
  ASSUME Types, NEW a \in Printable, NEW b \in Printable, a \notin Prompts,
         Serial!Say(<<a, b>>)
  PROVE  Prints({b})
<1>1. <<a, b>> \in Seq(Printable) /\ unread \in Seq(Printable)
  BY DEF Types
<1>2. /\ unread' \in Seq(Printable)
      /\ \A t : In(unread', t) => In(unread, t) \/ In(<<a, b>>, t)
      /\ \A t : ~In(unread, t) /\ Final(<<a, b>>, t) => Final(unread', t)
  BY <1>1, Said
<1>3. ASSUME NEW t \in Prompts PROVE Final(<<a, b>>, t)
  <2>1. ASSUME NEW i \in 1..2, <<a, b>>[i] = t PROVE i = 2
    <3>1. i = 1 \/ i = 2
      OBVIOUS
    <3> QED
      BY <2>1, <3>1
  <2> QED
    BY <2>1 DEF Final
<1> QED
  BY <1>2, <1>3, OneOrTwo DEF Prints

\* Nothing is printed.
LEMMA PrintsNone ==
  ASSUME Types, Serial!Unprinted PROVE Prints({})
BY DEF Types, Serial!Unprinted, Prints, Final, In

\* Less is printed than may be.
LEMMA PrintsLess ==
  ASSUME NEW new, NEW more, Prints(new), new \cap Prompts \subseteq more PROVE Prints(more)
BY DEF Prints

\* What each reader may do, by whom it is read next and what is printed.
RackAnswers ==
  /\ reader = "rack" /\ HearsIt /\ Prints({}) /\ running' = running
  /\ \/ Head(typed) = Serial!Start /\ reader' = "starting"
     \/ Head(typed) = Serial!Leave /\ reader' = "gone"
     \/ Head(typed) \notin {Serial!Start, Serial!Leave} /\ reader' = "rack"

\* The session fails or starts.
StartAnswers ==
  /\ reader = "starting" /\ HearsNot /\ running' = running
  /\ \/ reader' = "rack" /\ Prints({})
     \/ reader' = "node" /\ Prints({NodePrompt})
     \/ reader' = "login" /\ Prints({LoginPrompt})

\* The login reads the user and asks for the password.
LoginAnswers ==
  /\ reader = "login" /\ HearsIt /\ Prints({PasswordPrompt})
  /\ reader' = "password" /\ running' = Head(typed)

\* The password is refused or lets in.
PasswordAnswers ==
  /\ reader = "password" /\ HearsIt
  /\ \/ reader' = "login" /\ Prints({LoginPrompt})
     \/ reader' = "node" /\ Prints({NodePrompt})

\* The node reads an exit, something of no meaning, a sudo or another probe.
ShellAnswers ==
  /\ reader = "node" /\ HearsIt
  /\ \/ Head(typed) = Serial!Leave /\ reader' = "rack" /\ Prints({})
     \/ Head(typed) \notin Wires /\ reader' = "node" /\ Prints({NodePrompt})
     \/ Head(typed) \in SudoWires /\ reader' = "sudo" /\ Prints({PasswordPrompt})
     \/ Head(typed) \in Wires /\ reader' = "busy" /\ Prints({})

\* The sudo takes the password, asks again or gives up.
SudoAnswers ==
  /\ reader = "sudo" /\ HearsIt
  /\ \/ reader' = "busy" /\ Prints({})
     \/ reader' = "sudo" /\ Prints({PasswordPrompt})
     \/ reader' = "node" /\ Prints({NodePrompt})

\* A probe comes to its end.
ProbeAnswers ==
  reader = "busy" /\ HearsNot /\ reader' = "node" /\ Prints({NodePrompt})

\* The line drops.
Drops ==
  /\ reader # "gone" /\ HearsNot /\ reader' = "gone" /\ UNCHANGED <<unread, running>>

\* A step of the other side is one of these.
Answers ==
  \/ RackAnswers \/ StartAnswers \/ LoginAnswers \/ PasswordAnswers
  \/ ShellAnswers \/ SudoAnswers \/ ProbeAnswers \/ Drops

\* What a line that is read leaves.
LEMMA HeardTypes ==
  ASSUME Types, NEW who, Serial!Reads(who), Serial!Hear
  PROVE  /\ HearsIt /\ reader = who
         /\ typed' \in Seq(Serial!Lines) /\ Head(typed) \in Serial!Lines
<1>1. typed # <<>> /\ reader = who
  BY DEF Serial!Reads
<1>2. typed' = Tail(typed) /\ heard' = heard \cup {<<Head(typed), reader>>}
  BY DEF Serial!Hear
<1>3. typed \in Seq(Serial!Lines)
  BY DEF Types
<1> QED
  BY <1>1, <1>2, <1>3, LinesLeft DEF HearsIt

\* What is printed are tokens.
LEMMA TypesAre ==
  ASSUME NEW new, Prints(new), typed' \in Seq(Serial!Lines),
         running' \in Serial!Lines \cup {Serial!NoLine}
  PROVE  Types'
BY DEF Prints, Types

\* An echo and a prompt, or the prompt alone.
LEMMA Tokens ==
  /\ \A l \in Serial!Lines : Serial!Echo(l) \in Printable /\ Serial!Echo(l) \notin Prompts
  /\ \A l \in Serial!Lines \cup {Serial!NoLine} :
       Serial!Out(l) \in Printable /\ Serial!Out(l) \notin Prompts
  /\ NodePrompt \in Printable /\ LoginPrompt \in Printable /\ PasswordPrompt \in Printable
  /\ Serial!Prompt("rack") \in Printable /\ Serial!Prompt("rack") \notin Prompts
  /\ Serial!Status \in Printable /\ Serial!Status \notin Prompts
BY Printables DEF Prompts, NodePrompt, LoginPrompt, PasswordPrompt

\* The rack's shell reads.
LEMMA RackReading ==
  ASSUME Types, Serial!RackReads PROVE RackAnswers /\ Types'
<1>1. /\ HearsIt /\ reader = "rack"
      /\ typed' \in Seq(Serial!Lines) /\ Head(typed) \in Serial!Lines
  BY HeardTypes DEF Serial!RackReads
<1>2. running' = running
  BY DEF Serial!RackReads
<1>3. \/ Head(typed) = Serial!Start /\ reader' = "starting" /\ Serial!Unprinted
      \/ Head(typed) = Serial!Leave /\ reader' = "gone" /\ Serial!Unprinted
      \/ /\ Head(typed) \notin {Serial!Start, Serial!Leave} /\ reader' = reader
         /\ Serial!Say(<<Serial!Echo(Head(typed)), Serial!Prompt("rack")>>)
  BY DEF Serial!RackReads
<1>4. Prints({})
  <2>1. CASE Serial!Unprinted
    BY <2>1, PrintsNone
  <2>2. CASE Serial!Say(<<Serial!Echo(Head(typed)), Serial!Prompt("rack")>>)
    <3>1. Prints({Serial!Prompt("rack")})
      BY <1>1, <2>2, Tokens, PrintsTwo
    <3> QED
      BY <3>1, Tokens, PrintsLess
  <2> QED
    BY <1>3, <2>1, <2>2
<1>5. Types'
  BY <1>1, <1>2, <1>4, TypesAre DEF Types
<1> QED
  BY <1>1, <1>2, <1>3, <1>4, <1>5 DEF RackAnswers

\* The console answers the start.
LEMMA Starting ==
  ASSUME Types, Serial!SessionFails \/ Serial!SessionStarts
  PROVE  StartAnswers /\ Types'
<1>1. HearsNot /\ running' = running
  BY DEF HearsNot, Serial!SessionFails, Serial!SessionStarts
<1>2. typed' \in Seq(Serial!Lines) /\ running' \in Serial!Lines \cup {Serial!NoLine}
  BY <1>1 DEF Types, HearsNot
<1>3. CASE Serial!SessionFails
  <2>1. /\ reader = "starting" /\ reader' = "rack"
        /\ Serial!Say(<<Serial!Status, Serial!Prompt("rack")>>)
    BY <1>3 DEF Serial!SessionFails
  <2>2. Prints({Serial!Prompt("rack")})
    BY <2>1, Tokens, PrintsTwo
  <2>3. Prints({})
    BY <2>2, Tokens, PrintsLess
  <2> QED
    BY <1>1, <1>2, <2>1, <2>3, TypesAre DEF StartAnswers
<1>4. CASE Serial!SessionStarts
  <2>1. PICK who \in {"node", "login"} : reader' = who /\ Serial!Say(<<Serial!Prompt(who)>>)
    BY <1>4 DEF Serial!SessionStarts
  <2>2. reader = "starting"
    BY <1>4 DEF Serial!SessionStarts
  <2>3. CASE who = "node"
    <3>1. Prints({NodePrompt})
      BY <2>1, <2>3, Tokens, PrintsOne DEF NodePrompt
    <3> QED
      BY <1>1, <1>2, <2>1, <2>2, <2>3, <3>1, TypesAre DEF StartAnswers
  <2>4. CASE who = "login"
    <3>1. Prints({LoginPrompt})
      BY <2>1, <2>4, Tokens, PrintsOne DEF LoginPrompt
    <3> QED
      BY <1>1, <1>2, <2>1, <2>2, <2>4, <3>1, TypesAre DEF StartAnswers
  <2> QED
    BY <2>3, <2>4
<1> QED
  BY <1>3, <1>4

\* The login reads.
LEMMA LoginReading ==
  ASSUME Types, Serial!LoginReads PROVE LoginAnswers /\ Types'
<1>1. /\ HearsIt /\ reader = "login"
      /\ typed' \in Seq(Serial!Lines) /\ Head(typed) \in Serial!Lines
  BY HeardTypes DEF Serial!LoginReads
<1>2. /\ running' = Head(typed) /\ reader' = "password"
      /\ Serial!Say(<<Serial!Echo(Head(typed)), Serial!Prompt("password")>>)
  BY DEF Serial!LoginReads
<1>3. Prints({PasswordPrompt})
  BY <1>1, <1>2, Tokens, PrintsTwo DEF PasswordPrompt
<1> QED
  BY <1>1, <1>2, <1>3, TypesAre DEF LoginAnswers

\* The password prompt reads.
LEMMA PasswordReading ==
  ASSUME Types, Serial!PasswordReads PROVE PasswordAnswers /\ Types'
<1>1. /\ HearsIt /\ reader = "password"
      /\ typed' \in Seq(Serial!Lines)
  BY HeardTypes DEF Serial!PasswordReads
<1>2. running' = Serial!NoLine
  BY DEF Serial!PasswordReads
<1>3. PICK who \in {"node", "login"} : reader' = who /\ Serial!Say(<<Serial!Prompt(who)>>)
  BY DEF Serial!PasswordReads
<1>4. CASE who = "node"
  <2>1. Prints({NodePrompt})
    BY <1>3, <1>4, Tokens, PrintsOne DEF NodePrompt
  <2> QED
    BY <1>1, <1>2, <1>3, <1>4, <2>1, TypesAre DEF PasswordAnswers
<1>5. CASE who = "login"
  <2>1. Prints({LoginPrompt})
    BY <1>3, <1>5, Tokens, PrintsOne DEF LoginPrompt
  <2> QED
    BY <1>1, <1>2, <1>3, <1>5, <2>1, TypesAre DEF PasswordAnswers
<1> QED
  BY <1>4, <1>5

\* The node's shell reads.
LEMMA ShellReading ==
  ASSUME Types, Serial!ShellReads PROVE ShellAnswers /\ Types'
<1>1. /\ HearsIt /\ reader = "node"
      /\ typed' \in Seq(Serial!Lines) /\ Head(typed) \in Serial!Lines
  BY HeardTypes DEF Serial!ShellReads
<1>2. \/ /\ Head(typed) = Serial!Leave /\ reader' = "rack" /\ running' = running
         /\ Serial!Say(<<Serial!Echo(Head(typed)), Serial!Prompt("rack")>>)
      \/ /\ Head(typed) \notin Wires /\ reader' = "node" /\ running' = running
         /\ Serial!Say(<<Serial!Echo(Head(typed)), Serial!Prompt("node")>>)
      \/ /\ Head(typed) \in SudoWires /\ reader' = "sudo" /\ running' = Head(typed)
         /\ Serial!Say(<<Serial!Echo(Head(typed)), Serial!Prompt("password")>>)
      \/ /\ Head(typed) \in Wires /\ reader' = "busy" /\ running' = Head(typed)
         /\ Serial!Say(<<Serial!Echo(Head(typed))>>)
  BY <1>1 DEF Serial!ShellReads
<1>3. Serial!Echo(Head(typed)) \in Printable /\ Serial!Echo(Head(typed)) \notin Prompts
  BY <1>1, Tokens
<1>4. running' \in Serial!Lines \cup {Serial!NoLine}
  BY <1>1, <1>2 DEF Types
<1>5. CASE Head(typed) = Serial!Leave /\ reader' = "rack"
           /\ Serial!Say(<<Serial!Echo(Head(typed)), Serial!Prompt("rack")>>)
  <2>1. Prints({Serial!Prompt("rack")})
    BY <1>3, <1>5, Tokens, PrintsTwo
  <2>2. Prints({})
    BY <2>1, Tokens, PrintsLess
  <2> QED
    BY <1>1, <1>4, <1>5, <2>2, TypesAre DEF ShellAnswers
<1>6. CASE Head(typed) \notin Wires /\ reader' = "node"
           /\ Serial!Say(<<Serial!Echo(Head(typed)), Serial!Prompt("node")>>)
  <2>1. Prints({NodePrompt})
    BY <1>3, <1>6, Tokens, PrintsTwo DEF NodePrompt
  <2> QED
    BY <1>1, <1>4, <1>6, <2>1, TypesAre DEF ShellAnswers
<1>7. CASE Head(typed) \in SudoWires /\ reader' = "sudo"
           /\ Serial!Say(<<Serial!Echo(Head(typed)), Serial!Prompt("password")>>)
  <2>1. Prints({PasswordPrompt})
    BY <1>3, <1>7, Tokens, PrintsTwo DEF PasswordPrompt
  <2> QED
    BY <1>1, <1>4, <1>7, <2>1, TypesAre DEF ShellAnswers
<1>8. CASE Head(typed) \in Wires /\ reader' = "busy"
           /\ Serial!Say(<<Serial!Echo(Head(typed))>>)
  <2>1. Prints({Serial!Echo(Head(typed))})
    BY <1>3, <1>8, PrintsOne
  <2>2. Prints({})
    BY <1>3, <2>1, PrintsLess
  <2> QED
    BY <1>1, <1>4, <1>8, <2>2, TypesAre DEF ShellAnswers
<1> QED
  BY <1>2, <1>5, <1>6, <1>7, <1>8

\* A sudo reads.
LEMMA SudoReading ==
  ASSUME Types, Serial!SudoReads PROVE SudoAnswers /\ Types'
<1>1. HearsIt /\ reader = "sudo" /\ typed' \in Seq(Serial!Lines)
  BY HeardTypes DEF Serial!SudoReads
<1>2. \/ reader' = "busy" /\ running' = running /\ Serial!Unprinted
      \/ reader' = "sudo" /\ running' = running /\ Serial!Say(<<Serial!Prompt("password")>>)
      \/ reader' = "node" /\ running' = Serial!NoLine /\ Serial!Say(<<Serial!Prompt("node")>>)
  BY <1>1 DEF Serial!SudoReads
<1>3. running' \in Serial!Lines \cup {Serial!NoLine}
  BY <1>2 DEF Types
<1>4. CASE reader' = "busy" /\ Serial!Unprinted
  <2>1. Prints({})
    BY <1>4, PrintsNone
  <2> QED
    BY <1>1, <1>3, <1>4, <2>1, TypesAre DEF SudoAnswers
<1>5. CASE reader' = "sudo" /\ Serial!Say(<<Serial!Prompt("password")>>)
  <2>1. Prints({PasswordPrompt})
    BY <1>5, Tokens, PrintsOne DEF PasswordPrompt
  <2> QED
    BY <1>1, <1>3, <1>5, <2>1, TypesAre DEF SudoAnswers
<1>6. CASE reader' = "node" /\ Serial!Say(<<Serial!Prompt("node")>>)
  <2>1. Prints({NodePrompt})
    BY <1>6, Tokens, PrintsOne DEF NodePrompt
  <2> QED
    BY <1>1, <1>3, <1>6, <2>1, TypesAre DEF SudoAnswers
<1> QED
  BY <1>2, <1>4, <1>5, <1>6

\* A probe ends.
LEMMA ProbeEnding ==
  ASSUME Types, Serial!ProbeEnds PROVE ProbeAnswers /\ Types'
<1>1. /\ reader = "busy" /\ reader' = "node" /\ running' = Serial!NoLine
      /\ UNCHANGED <<typed, heard>>
      /\ Serial!Say(<<Serial!Out(running), Serial!Prompt("node")>>)
  BY DEF Serial!ProbeEnds
<1>2. running \in Serial!Lines \cup {Serial!NoLine} /\ typed' \in Seq(Serial!Lines)
  BY <1>1 DEF Types
<1>3. Serial!Out(running) \in Printable /\ Serial!Out(running) \notin Prompts
  BY <1>2, Tokens
<1>4. Prints({NodePrompt})
  BY <1>1, <1>3, Tokens, PrintsTwo DEF NodePrompt
<1>5. running' \in Serial!Lines \cup {Serial!NoLine}
  BY <1>1
<1> QED
  BY <1>1, <1>2, <1>4, <1>5, TypesAre DEF ProbeAnswers, HearsNot

\* The line drops.
LEMMA Dropping ==
  ASSUME Types, Serial!SessionDrops PROVE Drops /\ Types'
BY DEF Types, Serial!SessionDrops, Drops, HearsNot

\* Whatever answers, answers in one of these ways, and the script stands.
LEMMA Answered ==
  ASSUME Types, Serial!Answering
  PROVE  Answers /\ Types' /\ UNCHANGED <<script, anchored, exit>>
<1>1. UNCHANGED <<script, anchored, exit>>
  BY DEF Serial!Answering
<1>2. \/ Serial!RackReads \/ Serial!SessionFails \/ Serial!SessionStarts \/ Serial!LoginReads
      \/ Serial!PasswordReads \/ Serial!ShellReads \/ Serial!SudoReads \/ Serial!ProbeEnds
      \/ Serial!SessionDrops
  BY DEF Serial!Answering
<1> QED
  BY <1>1, <1>2, RackReading, Starting, LoginReading, PasswordReading, ShellReading,
     SudoReading, ProbeEnding, Dropping DEF Answers

\* No line is typed that is left to read.
LEMMA OneLine ==
  /\ \A x : <<x>> # <<>> /\ Head(<<x>>) = x /\ Tail(<<x>>) = <<>>
  /\ \A x, y : <<x, y>> # <<>> /\ Head(<<x, y>>) = x /\ Tail(<<x, y>>) = <<y>>
OBVIOUS

\* The opening, while the other side answers.
LEMMA RackAnswered ==
  ASSUME Answers, script' = script, RackPhase PROVE RackPhase'
<1>1. typed = <<>> /\ reader \in {"rack", "gone"}
  BY DEF RackPhase
<1>2. Drops
  BY <1>1 DEF Answers, HearsIt, RackAnswers, StartAnswers, LoginAnswers, PasswordAnswers,
     ShellAnswers, SudoAnswers, ProbeAnswers
<1> QED
  BY <1>2 DEF RackPhase, Drops, HearsNot

\* At the user's prompt nothing is typed that could be answered.
LEMMA UserAnswered ==
  ASSUME Answers, script' = script, UserPhase PROVE UserPhase'
<1>1. typed = <<>> /\ reader \in {"login", "gone"}
  BY DEF UserPhase
<1>2. Drops
  BY <1>1 DEF Answers, HearsIt, RackAnswers, StartAnswers, LoginAnswers, PasswordAnswers,
     ShellAnswers, SudoAnswers, ProbeAnswers
<1> QED
  BY <1>2 DEF UserPhase, Drops, HearsNot

\* The start is answered by one prompt at most.
LEMMA SessionAnswered ==
  ASSUME Answers, script' = script, StartPhase PROVE StartPhase'
<1>1. NodePrompt \in Prompts /\ LoginPrompt \in Prompts /\ PasswordPrompt \in Prompts
      /\ NodePrompt # LoginPrompt /\ NodePrompt # PasswordPrompt /\ LoginPrompt # PasswordPrompt
  BY Printables DEF Prompts
<1>2. CASE Drops
  BY <1>2 DEF StartPhase, Drops, HearsNot
<1>3. CASE typed = <<Serial!Start>> /\ RackAnswers
  <2>1. /\ reader = "rack" /\ typed' = <<>> /\ reader' = "starting" /\ Prints({})
        /\ heard' = heard \cup {<<Serial!Start, "rack">>}
    BY <1>3, OneLine DEF RackAnswers, HearsIt, Serial!Start, Serial!Leave
  <2>2. ~In(unread, NodePrompt) /\ ~In(unread, LoginPrompt) /\ ~In(unread, PasswordPrompt)
    BY <1>3, <2>1 DEF StartPhase
  <2>3. /\ ~In(unread', NodePrompt) /\ ~In(unread', LoginPrompt) /\ ~In(unread', PasswordPrompt)
        /\ Final(unread', NodePrompt) /\ Final(unread', LoginPrompt)
    BY <1>1, <2>1, <2>2 DEF Prints
  <2> QED
    BY <2>1, <2>3 DEF StartPhase
<1>4. CASE StartAnswers
  <2>1. reader = "starting" /\ UNCHANGED <<typed, heard>>
    BY <1>4 DEF StartAnswers, HearsNot
  <2>2. /\ typed = <<>> /\ ~In(unread, NodePrompt) /\ ~In(unread, LoginPrompt)
        /\ ~In(unread, PasswordPrompt)
    BY <2>1 DEF StartPhase
  <2>3. /\ reader' \in {"rack", "node", "login"}
        /\ In(unread', NodePrompt) => reader' = "node"
        /\ In(unread', LoginPrompt) => reader' = "login"
        /\ ~In(unread', PasswordPrompt)
        /\ Final(unread', NodePrompt) /\ Final(unread', LoginPrompt)
    BY <1>1, <1>4, <2>2 DEF StartAnswers, Prints
  <2> QED
    BY <2>1, <2>2, <2>3 DEF StartPhase
<1>5. \/ typed = <<>> /\ reader \in {"rack", "starting", "node", "login", "gone"}
      \/ typed = <<Serial!Start>> /\ reader \in {"rack", "gone"}
  BY DEF StartPhase
<1>6. Drops \/ (typed = <<Serial!Start>> /\ RackAnswers) \/ StartAnswers
  BY <1>5 DEF Answers, HearsIt, RackAnswers, StartAnswers, LoginAnswers, PasswordAnswers,
     ShellAnswers, SudoAnswers, ProbeAnswers
<1> QED
  BY <1>2, <1>3, <1>4, <1>6

\* The user is read by the login, and by it alone.
LEMMA AskedAnswered ==
  ASSUME Answers, script' = script, AskedPhase PROVE AskedPhase'
<1>1. CASE Drops
  BY <1>1 DEF AskedPhase, Drops, HearsNot
<1>2. CASE typed = <<Serial!User>> /\ LoginAnswers
  <2>1. /\ reader = "login" /\ typed' = <<>> /\ reader' = "password" /\ running' = Serial!User
        /\ heard' = heard \cup {<<Serial!User, "login">>} /\ Prints({PasswordPrompt})
    BY <1>2, OneLine DEF LoginAnswers, HearsIt
  <2>2. ~In(unread', NodePrompt)
    BY <2>1, Printables DEF AskedPhase, Prints, Prompts
  <2>3. heard' \subseteq HeardOpening
    BY <2>1 DEF AskedPhase, HeardOpening
  <2> QED
    BY <2>1, <2>2, <2>3 DEF AskedPhase
<1>3. \/ typed = <<Serial!User>> /\ reader \in {"login", "gone"}
      \/ typed = <<>> /\ reader \in {"password", "gone"}
  BY DEF AskedPhase
<1>4. Drops \/ (typed = <<Serial!User>> /\ LoginAnswers)
  BY <1>3 DEF Answers, HearsIt, RackAnswers, StartAnswers, LoginAnswers, PasswordAnswers,
     ShellAnswers, SudoAnswers, ProbeAnswers
<1> QED
  BY <1>1, <1>2, <1>4

\* User and password are read by the prompts that asked.
LEMMA NodeAnswered ==
  ASSUME Answers, script' = script, NodePhase PROVE NodePhase'
<1>1. NodePrompt \in Prompts /\ NodePrompt # LoginPrompt /\ NodePrompt # PasswordPrompt
  BY Printables DEF Prompts
<1>2. CASE Drops
  BY <1>2 DEF NodePhase, Drops, HearsNot
<1>3. CASE typed = <<Serial!User, Serial!NodePassword>> /\ LoginAnswers
  <2>1. /\ reader = "login" /\ typed' = <<Serial!NodePassword>> /\ reader' = "password"
        /\ running' = Serial!User /\ Prints({PasswordPrompt})
        /\ heard' = heard \cup {<<Serial!User, "login">>}
    BY <1>3, OneLine DEF LoginAnswers, HearsIt
  <2>2. ~In(unread, NodePrompt)
    BY <1>3, <2>1, OneLine DEF NodePhase
  <2>3. ~In(unread', NodePrompt) /\ Final(unread', NodePrompt)
    BY <1>1, <2>1, <2>2 DEF Prints
  <2>4. heard' \subseteq HeardOpening
    BY <2>1 DEF NodePhase, HeardOpening
  <2> QED
    BY <2>1, <2>3, <2>4 DEF NodePhase
<1>4. CASE typed = <<Serial!NodePassword>> /\ PasswordAnswers
  <2>1. /\ reader = "password" /\ typed' = <<>>
        /\ heard' = heard \cup {<<Serial!NodePassword, "password">>}
        /\ \/ reader' = "login" /\ Prints({LoginPrompt})
           \/ reader' = "node" /\ Prints({NodePrompt})
    BY <1>4, OneLine DEF PasswordAnswers, HearsIt
  <2>2. ~In(unread, NodePrompt)
    BY <1>4, <2>1, OneLine DEF NodePhase
  <2>3. /\ In(unread', NodePrompt) => reader' = "node"
        /\ Final(unread', NodePrompt)
    BY <1>1, <2>1, <2>2 DEF Prints
  <2>4. heard' \subseteq HeardOpening
    BY <2>1 DEF NodePhase, HeardOpening
  <2> QED
    BY <2>1, <2>3, <2>4 DEF NodePhase
<1>5. \/ typed = <<Serial!User, Serial!NodePassword>> /\ reader \in {"login", "gone"}
      \/ typed = <<Serial!NodePassword>> /\ reader \in {"password", "gone"}
      \/ typed = <<>> /\ reader \in {"node", "login", "gone"}
  BY DEF NodePhase
<1>6. \/ Drops
      \/ typed = <<Serial!User, Serial!NodePassword>> /\ LoginAnswers
      \/ typed = <<Serial!NodePassword>> /\ PasswordAnswers
  BY <1>5 DEF Answers, HearsIt, RackAnswers, StartAnswers, LoginAnswers, PasswordAnswers,
     ShellAnswers, SudoAnswers, ProbeAnswers
<1> QED
  BY <1>2, <1>3, <1>4, <1>6

\* A probe that was typed stays typed, or was read.
LEMMA StillTyped ==
  ASSUME Types, Answers, Serial!ProbesTyped PROVE Serial!ProbesTyped'
<1>1. PICK w \in Wires : (\E i \in DOMAIN typed : typed[i] = w) \/ (\E h \in heard : h[1] = w)
  BY ProbesAre
<1>2. HearsIt \/ HearsNot
  BY DEF Answers, RackAnswers, StartAnswers, LoginAnswers, PasswordAnswers,
     ShellAnswers, SudoAnswers, ProbeAnswers, Drops
<1>3. (\E i \in DOMAIN typed' : typed'[i] = w) \/ (\E h \in heard' : h[1] = w)
  <2>1. CASE HearsNot
    BY <1>1, <2>1 DEF HearsNot
  <2>2. CASE HearsIt
    <3>1. typed \in Seq(Serial!Lines) /\ typed # <<>>
      BY <2>2 DEF Types, HearsIt
    <3>2. /\ Len(typed) \in Nat \ {0} /\ Head(typed) = typed[1] /\ Tail(typed) \in Seq(Serial!Lines)
          /\ \A i \in 1..Len(typed) : i = 1 \/ (i - 1 \in 1..Len(Tail(typed)) /\ Tail(typed)[i - 1] = typed[i])
      BY <3>1, LinesLeft
    <3>3. DOMAIN typed = 1..Len(typed) /\ DOMAIN typed' = 1..Len(Tail(typed))
      BY <2>2, <3>1, <3>2 DEF HearsIt
    <3>4. CASE \E h \in heard : h[1] = w
      BY <2>2, <3>4 DEF HearsIt
    <3>5. ASSUME NEW i \in DOMAIN typed, typed[i] = w
          PROVE  (\E j \in DOMAIN typed' : typed'[j] = w) \/ (\E h \in heard' : h[1] = w)
      <4>1. CASE i = 1
        <5>1. <<typed[1], reader>> \in heard' /\ <<typed[1], reader>>[1] = w
          BY <2>2, <3>2, <3>5, <4>1 DEF HearsIt
        <5> QED
          BY <5>1
      <4>2. CASE i # 1
        BY <2>2, <3>2, <3>3, <3>5, <4>2 DEF HearsIt
      <4> QED
        BY <4>1, <4>2
    <3> QED
      BY <1>1, <3>4, <3>5
  <2> QED
    BY <1>2, <2>1, <2>2
<1> QED
  BY <1>3 DEF Serial!ProbesTyped, Serial!ToSet

\* Past the node's prompt, while the other side answers.
LEMMA TalksAnswered ==
  ASSUME Answers, Talks PROVE Talks'
<1> DEFINE S == Wires \cup {Serial!SudoPassword, Serial!Leave}
<1>1. typed \in Seq(S)
  BY DEF Talks
<1>2. CASE Drops
  BY <1>2 DEF Drops, HearsNot, Talks, Leaves
<1>3. CASE ProbeAnswers
  BY <1>3 DEF ProbeAnswers, HearsNot, Talks, Leaves
<1>4. CASE HearsIt
  <2>1. typed # <<>> /\ typed' = Tail(typed)
    BY <1>4 DEF HearsIt
  <2> HIDE DEF S
  <2>2. /\ \A i \in 1..Len(Tail(typed)) : i + 1 \in 1..Len(typed) /\ Tail(typed)[i] = typed[i + 1]
        /\ Len(typed) \in Nat \ {0} /\ Len(Tail(typed)) = Len(typed) - 1
        /\ Head(typed) = typed[1] /\ Head(typed) \in S /\ Tail(typed) \in Seq(S)
    BY <1>1, <2>1, LinesLeft
  <2>3. reader \in {"node", "sudo", "busy", "rack", "gone"}
    BY DEF Talks
  <2>4. \A i \in 1..Len(typed') : typed'[i] # Serial!SudoPassword
    <3> SUFFICES ASSUME NEW i \in 1..Len(typed'), typed'[i] = Serial!SudoPassword PROVE FALSE
      OBVIOUS
    <3>1. i + 1 \in 1..Len(typed) /\ typed[i + 1] = Serial!SudoPassword
      BY <2>1, <2>2
    <3>2. i + 1 = 1
      BY <3>1 DEF Talks
    <3> QED
      BY <2>1, <2>2, <3>2
  <2>5. ASSUME NEW i \in 1..Len(typed'), NEW j \in 1..Len(typed'), i < j,
               typed'[i] = Serial!Leave
        PROVE  typed'[j] = Serial!Leave
    <3>1. i + 1 \in 1..Len(typed) /\ j + 1 \in 1..Len(typed) /\ i + 1 < j + 1
          /\ typed[i + 1] = Serial!Leave /\ typed'[j] = typed[j + 1]
      BY <2>1, <2>2, <2>5
    <3>2. i + 1 \in Leaves
      BY <3>1 DEF Leaves
    <3>3. j + 1 \in Leaves
      BY <3>1, <3>2 DEF Talks
    <3> QED
      BY <3>1, <3>3 DEF Leaves
  <2>6. ASSUME reader' = "rack", NEW i \in 1..Len(typed') PROVE typed'[i] = Serial!Leave
    <3>1. i + 1 \in 1..Len(typed) /\ typed'[i] = typed[i + 1] /\ 1 \in 1..Len(typed) /\ 1 < i + 1
      BY <2>1, <2>2
    <3>2. typed[i + 1] = Serial!Leave
      <4>1. CASE reader = "rack"
        BY <3>1, <4>1 DEF Talks, Leaves
      <4>2. CASE reader = "node"
        <5>1. Head(typed) = Serial!Leave
          BY <2>6, <4>2 DEF Answers, RackAnswers, StartAnswers, LoginAnswers, PasswordAnswers,
             ShellAnswers, SudoAnswers, ProbeAnswers, Drops
        <5>2. 1 \in Leaves
          BY <2>2, <3>1, <5>1 DEF Leaves
        <5>3. i + 1 \in Leaves
          BY <3>1, <5>2 DEF Talks
        <5> QED
          BY <5>3 DEF Leaves
      <4>3. reader = "rack" \/ reader = "node"
        BY <2>3, <2>6 DEF Answers, RackAnswers, StartAnswers, LoginAnswers, PasswordAnswers,
           ShellAnswers, SudoAnswers, ProbeAnswers, Drops
      <4> QED
        BY <4>1, <4>2, <4>3
    <3> QED
      BY <3>1, <3>2
  <2>7. reader' \in {"node", "sudo", "busy", "rack", "gone"}
    <3>1. reader = "rack" => Head(typed) = Serial!Leave
      <4>1. 1 \in 1..Len(typed)
        BY <2>2
      <4> QED
        BY <2>2, <4>1 DEF Talks, Leaves
    <3>2. Serial!Leave # Serial!Start
      BY DEF Serial!Leave, Serial!Start
    <3> QED
      BY <2>3, <3>1, <3>2 DEF Answers, RackAnswers, StartAnswers, LoginAnswers, PasswordAnswers,
         ShellAnswers, SudoAnswers, ProbeAnswers, Drops
  <2>8. typed' \in Seq(Wires \cup {Serial!SudoPassword, Serial!Leave})
    BY <2>1, <2>2 DEF S
  <2> QED
    BY <2>4, <2>5, <2>6, <2>7, <2>8 DEF Talks, Leaves
<1>5. reader \in {"node", "sudo", "busy", "rack", "gone"}
  BY DEF Talks
<1> QED
  BY <1>2, <1>3, <1>4, <1>5 DEF Answers, RackAnswers, StartAnswers, LoginAnswers,
     PasswordAnswers, ShellAnswers, SudoAnswers

\* Past the prompt each line is read by whom it was meant for.
LEMMA SpokenAnswered ==
  ASSUME Answers, Talks, \A h \in heard : Spoken(h) PROVE \A h \in heard' : Spoken(h)
<1> DEFINE S == Wires \cup {Serial!SudoPassword, Serial!Leave}
<1>1. typed \in Seq(S)
  BY DEF Talks
<1>2. ASSUME HearsIt PROVE Spoken(<<Head(typed), reader>>)
  <2>1. typed # <<>>
    BY <1>2 DEF HearsIt
  <2>2. Head(typed) \in S /\ Head(typed) = typed[1] /\ 1 \in 1..Len(typed)
    <3> HIDE DEF S
    <3> QED
      BY <1>1, <2>1, LinesLeft
  <2>3. reader \in {"node", "sudo", "rack"}
    BY <1>2 DEF Talks, Answers, RackAnswers, StartAnswers, LoginAnswers, PasswordAnswers,
         ShellAnswers, SudoAnswers, ProbeAnswers, Drops, HearsIt, HearsNot
  <2>4. Head(typed) = Serial!SudoPassword => reader = "sudo"
    BY <2>2, <2>3 DEF Talks
  <2>5. reader = "rack" => Head(typed) = Serial!Leave
    BY <2>2 DEF Talks, Leaves
  <2>6. /\ Serial!SudoPassword \notin Wires /\ Serial!Leave \notin Wires
        /\ Serial!NodePassword \notin Wires
        /\ Serial!SudoPassword # Serial!Leave /\ Serial!NodePassword # Serial!Leave
        /\ Serial!SudoPassword # Serial!NodePassword
    BY WiresAreNoWords DEF Serial!SudoPassword, Serial!NodePassword, Serial!Leave
  <2> QED
    BY <2>2, <2>3, <2>4, <2>5, <2>6 DEF Spoken
<1>3. HearsIt \/ HearsNot
  BY DEF Answers, RackAnswers, StartAnswers, LoginAnswers, PasswordAnswers,
     ShellAnswers, SudoAnswers, ProbeAnswers, Drops
<1> QED
  BY <1>2, <1>3 DEF HearsIt, HearsNot

\* The password for sudo is next, while the other side answers.
LEMMA SudoNextAnswered ==
  ASSUME Answers, script' = script, SudoNext PROVE SudoNext'
<1>1. Drops
  BY DEF SudoNext, Answers, HearsIt, RackAnswers, StartAnswers, LoginAnswers, PasswordAnswers,
     ShellAnswers, SudoAnswers, ProbeAnswers
<1> QED
  BY <1>1 DEF SudoNext, Drops, HearsNot

\* What of sudo and exit is typed, once a line is read.
LEMMA FewerTyped ==
  ASSUME Talks, HearsIt
  PROVE  /\ Leaves' # {} => Leaves # {}
         /\ SudoTyped' # {} => \E i \in SudoTyped : i # 1
         /\ SudoTyped \subseteq {Len(typed)} => SudoTyped' \subseteq {Len(typed')}
         /\ Head(typed) \in SudoWires => 1 \in SudoTyped
         /\ Len(typed) = 1 => typed' = <<>>
         /\ Head(typed) = Serial!Leave => Leaves # {}
<1> DEFINE S == Wires \cup {Serial!SudoPassword, Serial!Leave}
<1>1. typed \in Seq(S) /\ typed # <<>> /\ typed' = Tail(typed)
  BY DEF Talks, HearsIt
<1> HIDE DEF S
<1>2. /\ Tail(typed) \in Seq(S)
      /\ Len(typed) \in Nat \ {0} /\ Len(Tail(typed)) = Len(typed) - 1 /\ Head(typed) = typed[1]
      /\ \A i \in 1..Len(Tail(typed)) : i + 1 \in 1..Len(typed) /\ Tail(typed)[i] = typed[i + 1]
  BY <1>1, LinesLeft
<1>3. Leaves' # {} => Leaves # {}
  BY <1>1, <1>2 DEF Leaves
<1>4. ASSUME NEW i \in SudoTyped' PROVE i \in 1..Len(typed') /\ i + 1 \in SudoTyped /\ i + 1 # 1
  BY <1>1, <1>2, <1>4 DEF SudoTyped
<1>5. ASSUME SudoTyped \subseteq {Len(typed)} PROVE SudoTyped' \subseteq {Len(typed')}
  <2> SUFFICES ASSUME NEW i \in SudoTyped' PROVE i = Len(typed')
    OBVIOUS
  <2>1. i \in 1..Len(typed') /\ i + 1 \in SudoTyped
    BY <1>4
  <2>2. i + 1 = Len(typed)
    BY <1>5, <2>1
  <2> QED
    <3>1. Len(typed) \in Nat /\ Len(typed') \in Nat /\ Len(typed') = Len(typed) - 1
      BY <1>1, <1>2
    <3>2. i \in Nat
      BY <2>1, <3>1
    <3> QED
      BY <2>2, <3>1, <3>2
<1>6. 1 \in 1..Len(typed)
  BY <1>2
<1>7. Len(typed) = 1 => typed' = <<>>
  BY <1>1, <1>2
<1> QED
  BY <1>2, <1>3, <1>4, <1>5, <1>6, <1>7 DEF SudoTyped, Leaves

\* The rack manager reads again only behind an exit.
LEMMA BackAtRack ==
  ASSUME Answers, Talks, reader' = "rack" PROVE reader = "rack" \/ Leaves # {}
<1>1. reader \in {"node", "sudo", "busy", "rack", "gone"}
  BY DEF Talks
<1>2. reader = "rack" \/ (HearsIt /\ Head(typed) = Serial!Leave)
  BY <1>1 DEF Answers, RackAnswers, StartAnswers, LoginAnswers, PasswordAnswers,
     ShellAnswers, SudoAnswers, ProbeAnswers, Drops
<1> QED
  BY <1>2, FewerTyped

\* No sudo asks before one is typed.
LEMMA LaterAnswered ==
  ASSUME Answers, Talks, SudoLater PROVE SudoLater'
<1>1. reader \in {"node", "busy", "rack", "gone"}
  BY DEF Talks, SudoLater
<1>2. PasswordPrompt \in Prompts /\ PasswordPrompt \notin {NodePrompt}
  BY Printables DEF Prompts
<1>3. CASE HearsIt
  <2>1. SudoTyped' = {} /\ Head(typed) \notin SudoWires
    BY <1>3, FewerTyped DEF SudoLater
  <2> QED
    BY <1>1, <1>2, <1>3, <2>1 DEF SudoLater, Answers, RackAnswers, StartAnswers, LoginAnswers,
       PasswordAnswers, ShellAnswers, SudoAnswers, ProbeAnswers, Drops, Prints
<1>4. CASE HearsNot
  <2>1. SudoTyped' = {}
    BY <1>4 DEF HearsNot, SudoLater, SudoTyped
  <2>2. Drops \/ ProbeAnswers \/ HearsIt
    BY <1>1 DEF Answers, RackAnswers, StartAnswers, LoginAnswers,
       PasswordAnswers, ShellAnswers, SudoAnswers
  <2> QED
    BY <1>2, <1>3, <2>1, <2>2 DEF Drops, ProbeAnswers, SudoLater, Prints
<1>5. HearsIt \/ HearsNot
  BY DEF Answers, RackAnswers, StartAnswers, LoginAnswers, PasswordAnswers,
     ShellAnswers, SudoAnswers, ProbeAnswers, Drops
<1> QED
  BY <1>3, <1>4, <1>5

\* The sudo that was typed last asks with nothing typed behind it.
LEMMA SoonAnswered ==
  ASSUME Answers, Talks, SudoSoon PROVE SudoSoon'
<1>1. reader \in {"node", "sudo", "busy", "rack", "gone"}
  BY DEF Talks
<1>2. PasswordPrompt \in Prompts /\ PasswordPrompt \notin {NodePrompt}
  BY Printables DEF Prompts
<1>3. CASE Drops
  BY <1>3 DEF Drops, HearsNot, SudoSoon, SudoTyped
<1>4. CASE ProbeAnswers
  BY <1>2, <1>4 DEF ProbeAnswers, HearsNot, Prints, SudoSoon, SudoTyped
<1>5. CASE RackAnswers \/ ShellAnswers
  <2>1. HearsIt /\ typed # <<>> /\ reader \in {"rack", "node"}
    BY <1>5 DEF RackAnswers, ShellAnswers, HearsIt
  <2>2. SudoTyped' \subseteq {Len(typed')}
    BY <2>1, FewerTyped DEF SudoSoon
  <2>3. ~In(unread, PasswordPrompt)
    BY <2>1 DEF SudoSoon
  <2>4. CASE Head(typed) \in SudoWires /\ reader' = "sudo"
    <3>1. Len(typed) = 1
      BY <2>1, <2>4, FewerTyped DEF SudoSoon
    <3> QED
      BY <2>1, <2>2, <2>4, <3>1, FewerTyped DEF SudoSoon
  <2>5. CASE reader' # "sudo" /\ ~In(unread', PasswordPrompt)
    BY <2>2, <2>5 DEF SudoSoon
  <2> QED
    BY <1>2, <1>5, <2>3, <2>4, <2>5 DEF RackAnswers, ShellAnswers, Prints
<1>6. SudoAnswers => FALSE
  BY DEF SudoAnswers, HearsIt, SudoSoon
<1> QED
  BY <1>1, <1>3, <1>4, <1>5, <1>6 DEF Answers, StartAnswers, LoginAnswers, PasswordAnswers

\* A script stays at its place whatever is answered.
LEMMA ProceedsAnswered ==
  ASSUME Answers, script' = script, Talks, Proceeds PROVE Proceeds'
<1>1. Ordered(script')
  BY DEF Proceeds
<1>2. Leaves' # {} => Leaves # {}
  <2>1. HearsIt \/ HearsNot
    BY DEF Answers, RackAnswers, StartAnswers, LoginAnswers, PasswordAnswers,
       ShellAnswers, SudoAnswers, ProbeAnswers, Drops
  <2> QED
    BY <2>1, FewerTyped DEF HearsNot, Leaves
<1>3. Leaves' # {} \/ reader' = "rack" => script' \in Seq(CloseOps)
  BY <1>2, BackAtRack DEF Proceeds
<1>4. ASSUME NEW i \in 1..Len(script'), script'[i] = AwaitSudo
      PROVE  IF i > 2 THEN SudoLater' ELSE SudoSoon'
  <2>1. IF i > 2 THEN SudoLater ELSE SudoSoon
    BY <1>4 DEF Proceeds
  <2> QED
    BY <2>1, LaterAnswered, SoonAnswered
<1> QED
  BY <1>1, <1>3, <1>4 DEF Proceeds

\* The dialogue, while the other side answers.
LEMMA OpensAnswered ==
  ASSUME Answers, script' = script, Opens PROVE Opens'
BY RackAnswered, SessionAnswered, UserAnswered, AskedAnswered, NodeAnswered DEF Opens

\* The dialogue's invariant through every answer.
LEMMA DialogueAnswered ==
  ASSUME DialogueInv, exit # "none", Serial!Answering PROVE DialogueInv'
<1>1. Types
  BY DEF DialogueInv
<1>2. Answers /\ Types' /\ UNCHANGED <<script, anchored, exit>>
  BY <1>1, Answered
<1>3. ASSUME anchored PROVE Anchored'
  <2>1. Talks /\ (SudoNext \/ Proceeds) /\ \A h \in heard : Spoken(h)
    BY <1>3 DEF DialogueInv, Anchored
  <2> QED
    BY <1>2, <2>1, TalksAnswered, SpokenAnswered, SudoNextAnswered, ProceedsAnswered DEF Anchored
<1>4. ASSUME ~anchored PROVE Opens' \/ AtExit(script') \/ Astray'
  <2>1. Opens \/ AtExit(script) \/ Astray
    BY <1>4 DEF DialogueInv
  <2>2. Astray => Astray'
    BY <1>1, <1>2, StillTyped DEF Astray
  <2> QED
    BY <1>2, <2>1, <2>2, OpensAnswered
<1> QED
  BY <1>2, <1>3, <1>4 DEF DialogueInv

-----------------------------------------------------------------------------
(* The steps of a script: its opening.                                     *)

\* What is left when the operation that is next is done.
LEMMA OpDone ==
  ASSUME NEW s \in Seq(AnyOps), s # <<>>
  PROVE  Tail(s) \in Seq(AnyOps) /\ <<>> \o Tail(s) = Tail(s)
<1>1. Tail(s) \in Seq(AnyOps)
  <2> HIDE DEF AnyOps
  <2> QED
    OBVIOUS
<1> HIDE DEF AnyOps
<1> QED
  BY <1>1, ConcatEmptySeq

\* An expect that waits for one token and has nothing else to do.
LEMMA AwaitingOne ==
  ASSUME Types, NEW t, Begins(script, Serial!Await(t)), Serial!Expecting
  PROVE  /\ Types' /\ UNCHANGED <<typed, reader, running, heard>>
         /\ \A u : In(unread', u) => In(unread, u)
         /\ \A u : Final(unread, u) => Final(unread', u)
         /\ \/ /\ script' = Tail(script) /\ In(unread, t)
               /\ Final(unread, t) => unread' = <<>>
               /\ anchored' <=> (anchored \/ (t = NodePrompt /\ ~Serial!ProbesTyped))
            \/ script' = Tail(script) /\ Still
            \/ script' = script /\ Still
<1>1. Head(script) = Serial!Await(t) /\ script \in Seq(AnyOps) /\ script # <<>>
  BY DEF Begins
<1>2. /\ Head(script).op = "expect"
      /\ Head(script).branches = <<[see |-> t, then |-> <<>>]>>
  BY <1>1, OpsApart
<1>3. \/ Serial!Match
      \/ Still /\ script' = Tail(script)
      \/ Still /\ script' = script
  BY <1>2, Awaiting
<1>4. CASE Still /\ script' \in {script, Tail(script)}
  BY <1>4, Stands DEF Still
<1>5. CASE Serial!Match
  <2>1. unread \in Seq(Printable)
    BY DEF Types
  <2>2. Taken([see |-> t, then |-> <<>>])
    BY <1>2, <1>5, <2>1, MatchedOne
  <2>3. <<>> \o Tail(script) = Tail(script)
    BY <1>1, OpDone
  <2> QED
    BY <2>2, <2>3 DEF Taken, Consumed, Types
<1> QED
  BY <1>3, <1>4, <1>5

\* A line that is typed, by whoever reads it.
LEMMA SendingOne ==
  ASSUME Types, NEW l \in Serial!Lines, Begins(script, Serial!Send(l)), Serial!Expecting
  PROVE  /\ Types' /\ UNCHANGED <<reader, running, heard, anchored>>
         /\ \/ /\ script' = Tail(script) /\ typed' = Append(typed, l) /\ reader # "gone"
               /\ reader # "busy" => unread' = unread
               /\ \A t \in Prompts : In(unread', t) => In(unread, t)
            \/ script' = script /\ Still
<1>1. Head(script).op = "send" /\ Head(script).line = l
  BY OpsApart DEF Begins
<1>2. Sent \/ (Still /\ script' = script)
  BY <1>1, Sending
<1>3. CASE Still /\ script' = script
  BY <1>3, Stands DEF Still
<1>4. CASE Sent
  <2>1. Types' /\ \A t : In(unread', t) => In(unread, t) \/ t = Serial!Echo(l)
    BY <1>1, <1>4, SentTypes
  <2>2. Serial!Echo(l) \notin Prompts
    BY Tokens
  <2> QED
    BY <1>1, <1>4, <2>1, <2>2 DEF Sent
<1> QED
  BY <1>2, <1>3, <1>4

\* The words a script may type.
LEMMA LinesAre ==
  /\ Serial!Start \in Serial!Lines /\ Serial!User \in Serial!Lines
  /\ Serial!NodePassword \in Serial!Lines /\ Serial!SudoPassword \in Serial!Lines
  /\ Serial!Leave \in Serial!Lines /\ Wires \subseteq Serial!Lines
BY DEF Serial!Lines, Serial!Secrets

\* A second element behind one.
LEMMA SecondOf == ASSUME NEW x, NEW y PROVE Append(<<x>>, y) = <<x, y>>
<1> DEFINE S == {x, y}
           s == Append(<<x>>, y)
           t == <<x, y>>
<1>1. <<x>> \in Seq(S) /\ y \in S /\ Len(<<x>>) = 1 /\ <<x>>[1] = x
  OBVIOUS
<1>2. s \in Seq(S) /\ Len(s) = 2 /\ s[1] = x /\ s[2] = y
  <2> HIDE DEF S
  <2> QED
    BY <1>1, AppendProperties
<1>3. t \in Seq(S) /\ Len(t) = 2 /\ t[1] = x /\ t[2] = y
  OBVIOUS
<1>4. \A i \in 1..2 : i = 1 \/ i = 2
  OBVIOUS
<1> HIDE DEF s, t, S
<1> QED
  BY <1>2, <1>3, <1>4, SeqEqual DEF s, t

\* The opening, while expect goes on.
LEMMA RackExpects ==
  ASSUME Types, RackPhase, ~anchored, Serial!Expecting PROVE Types' /\ ~anchored' /\ Opens'
<1>1. heard = {} /\ typed = <<>> /\ reader \in {"rack", "gone"}
      /\ \A t \in Prompts : ~In(unread, t)
  BY DEF RackPhase, Prompts
<1>2. CASE AtRack(script)
  <2>1. Begins(script, Serial!Await(Serial!Prompt("rack"))) /\ AtStart(Tail(script))
    BY <1>2 DEF AtRack
  <2>2. Serial!Prompt("rack") # NodePrompt
    BY Printables
  <2>3. /\ Types' /\ UNCHANGED <<typed, reader, running, heard>>
        /\ \A u : In(unread', u) => In(unread, u)
        /\ script' = Tail(script) \/ script' = script
        /\ ~anchored'
    BY <2>1, <2>2, AwaitingOne DEF Still
  <2> QED
    BY <1>1, <1>2, <2>1, <2>3 DEF RackPhase, Prompts, Opens
<1>3. CASE AtStart(script)
  <2>1. Begins(script, Serial!Send(Serial!Start)) /\ AtSession(Tail(script))
    BY <1>3 DEF AtStart
  <2>2. /\ Types' /\ UNCHANGED <<reader, running, heard, anchored>>
        /\ \/ /\ script' = Tail(script) /\ typed' = Append(typed, Serial!Start)
              /\ unread' = unread
           \/ script' = script /\ Still
    BY <1>1, <2>1, LinesAre, SendingOne
  <2>3. CASE script' = script /\ Still
    BY <1>1, <1>3, <2>2, <2>3 DEF RackPhase, Prompts, Opens, Still
  <2>4. CASE script' = Tail(script) /\ typed' = Append(typed, Serial!Start) /\ unread' = unread
    <3>1. typed' = <<Serial!Start>>
      BY <1>1, <2>4
    <3>2. \A t \in Prompts : Final(unread', t)
      BY <1>1, <2>4 DEF Final, In
    <3>3. StartPhase'
      BY <1>1, <2>1, <2>2, <2>4, <3>1, <3>2 DEF StartPhase, Prompts
    <3> QED
      BY <2>2, <3>3 DEF Opens
  <2> QED
    BY <2>2, <2>3, <2>4
<1> QED
  BY <1>2, <1>3 DEF RackPhase

\* The script goes on without the node's prompt.
LEMMA Strays ==
  ASSUME NEW s, Untouched(s), script' = s PROVE Astray'
<1>1. s \in Seq(RestOps) /\ ProbeFirst(s)
  BY DEF Untouched, Ordered
<1>2. RestOps \subseteq RestOps \cup {SendSudoPassword}
  OBVIOUS
<1>3. Typing(s)
  BY <1>1, <1>2, SeqMonotonic DEF Typing
<1> QED
  BY <1>1, <1>3 DEF Astray

\* The node's prompt is matched: nothing is typed but what opened the session.
LEMMA Anchoring ==
  ASSUME Untouched(script'), heard' \subseteq HeardOpening, typed' = <<>>, unread' = <<>>,
         reader' \in {"node", "gone"}
  PROVE  Anchored'
<1>1. \A h \in heard' : Spoken(h)
  <2>1. ASSUME NEW h \in HeardOpening PROVE Spoken(h)
    <3>1. /\ Serial!Start \notin Wires /\ Serial!User \notin Wires /\ Serial!NodePassword \notin Wires
          /\ Serial!SudoPassword \notin {Serial!Start, Serial!User, Serial!NodePassword}
          /\ Serial!NodePassword \notin {Serial!Start, Serial!User}
      BY WiresAreNoWords DEF Serial!Start, Serial!User, Serial!NodePassword, Serial!SudoPassword
    <3> QED
      BY <3>1 DEF HeardOpening, Spoken
  <2> QED
    BY <2>1
<1>2. Talks'
  <2>1. Len(typed') = 0 /\ <<>> \in Seq(Wires \cup {Serial!SudoPassword, Serial!Leave})
    OBVIOUS
  <2>2. 1..Len(typed') = {}
    BY <2>1
  <2> QED
    BY <2>2, <2>1 DEF Talks, Leaves
<1>3. Proceeds'
  <2>1. Len(typed') = 0 /\ 1..Len(typed') = {}
    BY DEF Leaves
  <2>2. Leaves' = {} /\ SudoTyped' = {} /\ reader' \notin {"rack", "sudo"}
        /\ ~In(unread', PasswordPrompt)
    BY <2>1, OneOrTwo DEF Leaves, SudoTyped
  <2>3. SudoLater'
    BY <2>2 DEF SudoLater
  <2> QED
    BY <2>2, <2>3 DEF Proceeds, Untouched, SudoAhead
<1> QED
  BY <1>1, <1>2, <1>3 DEF Anchored

\* No probe is typed as long as the session opens.
LEMMA NoProbeYet ==
  ASSUME heard \subseteq HeardOpening, typed = <<>> PROVE ~Serial!ProbesTyped
<1>1. \A h \in HeardOpening : h[1] \notin Wires
  BY WiresAreNoWords DEF HeardOpening
<1>2. DOMAIN typed = {}
  OBVIOUS
<1> QED
  BY <1>1, <1>2, ProbesAre

\* The step of a script at the user's prompt.
LEMMA UserExpects ==
  ASSUME Types, UserPhase, ~anchored, Serial!Expecting PROVE Types' /\ ~anchored' /\ Opens'
<1>1. /\ heard \subseteq HeardOpening /\ typed = <<>> /\ reader \in {"login", "gone"}
      /\ unread = <<>> /\ AtUser(script)
  BY DEF UserPhase
<1>2. Begins(script, Serial!Send(Serial!User)) /\ AtAsked(Tail(script))
  BY <1>1 DEF AtUser
<1>3. /\ Types' /\ UNCHANGED <<reader, running, heard, anchored>>
      /\ \/ /\ script' = Tail(script) /\ typed' = Append(typed, Serial!User)
            /\ unread' = unread
         \/ script' = script /\ Still
  BY <1>1, <1>2, LinesAre, SendingOne
<1>4. CASE script' = script /\ Still
  BY <1>1, <1>3, <1>4 DEF UserPhase, Opens, Still
<1>5. CASE script' = Tail(script) /\ typed' = Append(typed, Serial!User) /\ unread' = unread
  <2>1. typed' = <<Serial!User>>
    BY <1>1, <1>5
  <2>2. ~In(unread', NodePrompt)
    BY <1>1, <1>5, OneOrTwo
  <2>3. AskedPhase'
    <3>1. reader' \in {"login", "gone"} /\ heard' \subseteq HeardOpening /\ AtAsked(script')
      BY <1>1, <1>2, <1>3, <1>5
    <3> QED
      BY <2>1, <2>2, <3>1 DEF AskedPhase
  <2> QED
    BY <1>3, <2>3 DEF Opens
<1> QED
  BY <1>3, <1>4, <1>5

\* The step of a script that waits for the password prompt, or types the password.
LEMMA AskedExpects ==
  ASSUME Types, AskedPhase, ~anchored, Serial!Expecting PROVE Types' /\ ~anchored' /\ Opens'
<1>1. /\ heard \subseteq HeardOpening /\ ~In(unread, NodePrompt)
      /\ \/ typed = <<Serial!User>> /\ reader \in {"login", "gone"}
         \/ typed = <<>> /\ reader \in {"password", "gone"} /\ running = Serial!User
  BY DEF AskedPhase
<1>2. CASE AtAsked(script)
  <2>1. Begins(script, Serial!Await(PasswordPrompt)) /\ AtSecret(Tail(script))
    BY <1>2 DEF AtAsked
  <2>2. PasswordPrompt # NodePrompt
    BY Printables
  <2>3. /\ Types' /\ UNCHANGED <<typed, reader, running, heard>>
        /\ \A u : In(unread', u) => In(unread, u)
        /\ script' = Tail(script) \/ script' = script
        /\ ~anchored'
    BY <2>1, <2>2, AwaitingOne DEF Still
  <2> QED
    BY <1>1, <1>2, <2>1, <2>3 DEF AskedPhase, Opens
<1>3. CASE AtSecret(script)
  <2>1. Begins(script, Serial!Send(Serial!NodePassword)) /\ AtNode(Tail(script))
    BY <1>3 DEF AtSecret
  <2>2. /\ Types' /\ UNCHANGED <<reader, running, heard, anchored>>
        /\ \/ /\ script' = Tail(script) /\ typed' = Append(typed, Serial!NodePassword)
              /\ unread' = unread
           \/ script' = script /\ Still
    BY <1>1, <2>1, LinesAre, SendingOne
  <2>3. CASE script' = script /\ Still
    BY <1>1, <1>3, <2>2, <2>3 DEF AskedPhase, Opens, Still
  <2>4. CASE script' = Tail(script) /\ typed' = Append(typed, Serial!NodePassword) /\ unread' = unread
    <3>1. \/ typed' = <<Serial!User, Serial!NodePassword>> /\ reader' \in {"login", "gone"}
          \/ /\ typed' = <<Serial!NodePassword>> /\ reader' \in {"password", "gone"}
             /\ running' = Serial!User
      <4>1. CASE typed = <<Serial!User>> /\ reader \in {"login", "gone"}
        <5>1. typed' = Append(<<Serial!User>>, Serial!NodePassword)
          BY <2>4, <4>1
        <5>2. typed' = <<Serial!User, Serial!NodePassword>>
          BY <5>1, SecondOf
        <5> QED
          BY <2>2, <4>1, <5>2
      <4>2. CASE typed = <<>> /\ reader \in {"password", "gone"} /\ running = Serial!User
        <5>1. typed' = <<Serial!NodePassword>>
          BY <2>4, <4>2
        <5> QED
          BY <2>2, <4>2, <5>1
      <4> QED
        BY <1>1, <4>1, <4>2
    <3>2. ~In(unread', NodePrompt) /\ Final(unread', NodePrompt)
      BY <1>1, <2>4 DEF In, Final
    <3>3. NodePhase'
      <4>1. AtNode(script') /\ heard' \subseteq HeardOpening
        BY <1>1, <2>1, <2>2, <2>4
      <4> QED
        BY <3>1, <3>2, <4>1 DEF NodePhase
    <3> QED
      BY <2>2, <3>3 DEF Opens
  <2> QED
    BY <2>2, <2>3, <2>4
<1> QED
  BY <1>2, <1>3 DEF AskedPhase

\* The step of a script that waits for the node's prompt: it matches, or goes astray.
LEMMA NodeExpects ==
  ASSUME Types, NodePhase, ~anchored, Serial!Expecting
  PROVE  Types' /\ IF anchored' THEN Anchored' ELSE Opens' \/ Astray'
<1>1. /\ AtNode(script) /\ heard \subseteq HeardOpening /\ Final(unread, NodePrompt)
      /\ In(unread, NodePrompt) => typed = <<>> /\ reader \in {"node", "gone"}
  BY DEF NodePhase
<1>2. Begins(script, Serial!Await(NodePrompt)) /\ Untouched(Tail(script))
  BY <1>1 DEF AtNode
<1>3. /\ Types' /\ UNCHANGED <<typed, reader, running, heard>>
      /\ \A u : In(unread', u) => In(unread, u)
      /\ \A u : Final(unread, u) => Final(unread', u)
      /\ \/ /\ script' = Tail(script) /\ In(unread, NodePrompt) /\ unread' = <<>>
            /\ anchored' <=> (anchored \/ ~Serial!ProbesTyped)
         \/ script' = Tail(script) /\ anchored' = anchored
         \/ script' = script /\ Still
  BY <1>1, <1>2, AwaitingOne DEF Still
<1>4. CASE script' = Tail(script) /\ In(unread, NodePrompt) /\ unread' = <<>>
           /\ (anchored' <=> (anchored \/ ~Serial!ProbesTyped))
  <2>1. anchored'
    BY <1>1, <1>4, NoProbeYet
  <2>2. Anchored'
    BY <1>1, <1>2, <1>3, <1>4, Anchoring
  <2> QED
    BY <1>3, <2>1, <2>2
<1>5. CASE script' = Tail(script) /\ anchored' = anchored
  BY <1>2, <1>3, <1>5, Strays
<1>6. CASE script' = script /\ Still
  BY <1>3, <1>6 DEF NodePhase, Opens, Still
<1> QED
  BY <1>3, <1>4, <1>5, <1>6

\* A branch with several operations goes before what is left, one by one.
OneAfterOther(a, b, c, d, r) ==
  <<a, b, c, d>> \o r = <<a>> \o (<<b>> \o (<<c>> \o (<<d>> \o r)))

\* Four operations before others, one after the other.
LEMMA FourJoin ==
  ASSUME NEW S, NEW a \in S, NEW b \in S, NEW c \in S, NEW d \in S, NEW r \in Seq(S)
  PROVE  OneAfterOther(a, b, c, d, r)
<1> DEFINE s == <<a, b, c, d>> \o r
           r1 == <<d>> \o r
           r2 == <<c>> \o r1
           r3 == <<b>> \o r2
           r4 == <<a>> \o r3
<1>1. /\ <<a, b, c, d>> \in Seq(S) /\ Len(<<a, b, c, d>>) = 4 /\ Len(r) \in Nat
      /\ <<a>> \in Seq(S) /\ <<b>> \in Seq(S) /\ <<c>> \in Seq(S) /\ <<d>> \in Seq(S)
  OBVIOUS
<1>2. /\ s \in Seq(S) /\ Len(s) = 4 + Len(r)
      /\ \A i \in 1..4 + Len(r) : s[i] = IF i <= 4 THEN <<a, b, c, d>>[i] ELSE r[i - 4]
  BY <1>1, ConcatProperties
<1>3. /\ r1 \in Seq(S) /\ Len(r1) = 1 + Len(r)
      /\ \A i \in 1..1 + Len(r) : r1[i] = IF i <= 1 THEN d ELSE r[i - 1]
  <2>1. \A i \in 1..1 : <<d>>[i] = d
    OBVIOUS
  <2>2. Len(<<d>>) = 1
    OBVIOUS
  <2> QED
    BY <1>1, <2>1, <2>2, ConcatProperties
<1> HIDE DEF r1
<1>4. /\ r2 \in Seq(S) /\ Len(r2) = 2 + Len(r)
      /\ \A i \in 1..2 + Len(r) : r2[i] = IF i <= 1 THEN c ELSE r1[i - 1]
  <2>1. \A i \in 1..1 : <<c>>[i] = c
    OBVIOUS
  <2>2. Len(<<c>>) = 1
    OBVIOUS
  <2> QED
    BY <1>1, <1>3, <2>1, <2>2, ConcatProperties
<1> HIDE DEF r2
<1>5. /\ r3 \in Seq(S) /\ Len(r3) = 3 + Len(r)
      /\ \A i \in 1..3 + Len(r) : r3[i] = IF i <= 1 THEN b ELSE r2[i - 1]
  <2>1. \A i \in 1..1 : <<b>>[i] = b
    OBVIOUS
  <2>2. Len(<<b>>) = 1
    OBVIOUS
  <2> QED
    BY <1>1, <1>4, <2>1, <2>2, ConcatProperties
<1> HIDE DEF r3
<1>6. /\ r4 \in Seq(S) /\ Len(r4) = 4 + Len(r)
      /\ \A i \in 1..4 + Len(r) : r4[i] = IF i <= 1 THEN a ELSE r3[i - 1]
  <2>1. \A i \in 1..1 : <<a>>[i] = a
    OBVIOUS
  <2>2. Len(<<a>>) = 1
    OBVIOUS
  <2> QED
    BY <1>1, <1>5, <2>1, <2>2, ConcatProperties
<1> HIDE DEF s, r4
<1>7. ASSUME NEW i \in 1..4 + Len(r) PROVE s[i] = r4[i]
  <2>1. CASE i = 1
    BY <1>1, <1>2, <1>6, <2>1
  <2>2. CASE i = 2
    <3>1. r4[2] = r3[1] /\ r3[1] = b /\ s[2] = b
      BY <1>1, <1>2, <1>5, <1>6, <2>2
    <3> QED
      BY <2>2, <3>1
  <2>3. CASE i = 3
    <3>1. r4[3] = r3[2] /\ s[3] = c
      BY <1>1, <1>2, <1>6, <2>3
    <3>2. r3[2] = r2[1] /\ r2[1] = c
      BY <1>1, <1>4, <1>5
    <3> QED
      BY <2>3, <3>1, <3>2
  <2>4. CASE i = 4
    <3>1. r4[4] = r3[3] /\ s[4] = d
      BY <1>1, <1>2, <1>6, <2>4
    <3>2. r3[3] = r2[2]
      BY <1>1, <1>5
    <3>3. r2[2] = r1[1] /\ r1[1] = d
      BY <1>1, <1>3, <1>4
    <3> QED
      BY <2>4, <3>1, <3>2, <3>3
  <2>5. CASE i > 4
    <3>1. s[i] = r[i - 4]
      BY <1>1, <1>2, <2>5
    <3>2. r4[i] = r3[i - 1]
      BY <1>1, <1>6, <2>5
    <3>3. r3[i - 1] = r2[i - 2]
      <4>1. i - 1 \in 1..3 + Len(r) /\ i - 1 > 1 /\ (i - 1) - 1 = i - 2
        BY <1>1, <2>5
      <4> QED
        BY <1>5, <4>1
    <3>4. r2[i - 2] = r1[i - 3]
      <4>1. i - 2 \in 1..2 + Len(r) /\ i - 2 > 1 /\ (i - 2) - 1 = i - 3
        BY <1>1, <2>5
      <4> QED
        BY <1>4, <4>1
    <3>5. r1[i - 3] = r[i - 4]
      <4>1. i - 3 \in 1..1 + Len(r) /\ i - 3 > 1 /\ (i - 3) - 1 = i - 4
        BY <1>1, <2>5
      <4> QED
        BY <1>3, <4>1
    <3> QED
      BY <3>1, <3>2, <3>3, <3>4, <3>5
  <2> QED
    BY <1>1, <2>1, <2>2, <2>3, <2>4, <2>5
<1>8. s = r4
  BY <1>2, <1>6, <1>7, SeqEqual
<1> QED
  BY <1>8 DEF s, r4, r3, r2, r1, OneAfterOther

\* What the login of the node puts before the probes.
LEMMA LogInOpens ==
  ASSUME NEW r, Untouched(r)
  PROVE  AtUser(Serial!LogIn \o r) /\ Tail(Tail(Tail(Tail(Serial!LogIn \o r)))) = r
<1> DEFINE a == Serial!Send(Serial!User)
           b == Serial!Await(PasswordPrompt)
           c == Serial!Send(Serial!NodePassword)
           d == Serial!Await(NodePrompt)
           r1 == <<d>> \o r
           r2 == <<c>> \o r1
           r3 == <<b>> \o r2
           r4 == <<a>> \o r3
<1>1. r \in Seq(AnyOps)
  <2>1. r \in Seq(RestOps) /\ RestOps \subseteq AnyOps
    BY DEF Untouched, Ordered, AnyOps
  <2> QED
    BY <2>1, SeqMonotonic
<1>2. a \in AnyOps /\ b \in AnyOps /\ c \in AnyOps /\ d \in AnyOps
  <2>1. NodePrompt \in Printable /\ PasswordPrompt \in Printable
    BY Tokens
  <2>2. b \in RestOps /\ d \in RestOps
    BY <2>1 DEF RestOps, Awaits
  <2> QED
    BY <2>2 DEF AnyOps
<1>3. Serial!LogIn = <<a, b, c, d>>
  BY DEF Serial!LogIn, PasswordPrompt, NodePrompt
<1> HIDE DEF a, b, c, d
<1>4. r1 \in Seq(AnyOps) /\ r1 # <<>> /\ Head(r1) = d /\ Tail(r1) = r
  BY <1>1, <1>2, Prepended
<1> HIDE DEF r1
<1>5. r2 \in Seq(AnyOps) /\ r2 # <<>> /\ Head(r2) = c /\ Tail(r2) = r1
  BY <1>2, <1>4, Prepended
<1> HIDE DEF r2
<1>6. r3 \in Seq(AnyOps) /\ r3 # <<>> /\ Head(r3) = b /\ Tail(r3) = r2
  BY <1>2, <1>5, Prepended
<1> HIDE DEF r3
<1>7. r4 \in Seq(AnyOps) /\ r4 # <<>> /\ Head(r4) = a /\ Tail(r4) = r3
  BY <1>2, <1>6, Prepended
<1>8. <<a, b, c, d>> \o r = r4
  <2> HIDE DEF r4
  <2>1. OneAfterOther(a, b, c, d, r)
    BY <1>1, <1>2, FourJoin
  <2> QED
    BY <2>1 DEF OneAfterOther, r1, r2, r3, r4
<1> HIDE DEF r4
<1>9. AtNode(r1)
  BY <1>4 DEF AtNode, Begins, d
<1>10. AtSecret(r2)
  BY <1>5, <1>9 DEF AtSecret, Begins, c
<1>11. AtAsked(r3)
  BY <1>6, <1>10 DEF AtAsked, Begins, b
<1>12. AtUser(r4)
  BY <1>7, <1>11 DEF AtUser, Begins, a
<1>13. Tail(Tail(Tail(Tail(r4)))) = r
  BY <1>4, <1>5, <1>6, <1>7
<1> QED
  BY <1>3, <1>8, <1>12, <1>13

\* The step of a script behind the start, which branches.
LEMMA SessionExpects ==
  ASSUME Types, StartPhase, ~anchored, Serial!Expecting
  PROVE  Types' /\ IF anchored' THEN Anchored' ELSE Opens' \/ AtExit(script') \/ Astray'
<1>1. /\ AtSession(script) /\ heard \subseteq {<<Serial!Start, "rack">>}
      /\ \/ typed = <<>>
         \/ ~In(unread, NodePrompt) /\ ~In(unread, LoginPrompt)
      /\ In(unread, NodePrompt) => reader \in {"node", "gone"}
      /\ In(unread, LoginPrompt) => reader \in {"login", "gone"}
      /\ Final(unread, NodePrompt) /\ Final(unread, LoginPrompt)
  BY DEF StartPhase
<1>2. /\ script \in Seq(AnyOps) /\ script # <<>> /\ Head(script) \in Starters
      /\ Untouched(Tail(script))
  BY <1>1 DEF AtSession
<1>3. Head(script).branches \in Seq(StartBranches) /\ Head(script).op = "expect"
  BY <1>2, StarterBranches
<1>4. \/ Serial!Match
      \/ Still /\ script' = Tail(script)
      \/ Still /\ script' = script
  BY <1>3, Awaiting
<1>h. heard \subseteq HeardOpening
  BY <1>1 DEF HeardOpening
<1>5. CASE Still /\ script' = Tail(script)
  BY <1>2, <1>5, Stands, Strays DEF Still
<1>6. CASE Still /\ script' = script
  <2>1. StartPhase'
    BY <1>6 DEF Still, StartPhase
  <2> QED
    BY <1>6, <2>1, Stands DEF Still, Opens
<1>7. CASE Serial!Match
  <2>1. unread \in Seq(Printable)
    BY DEF Types
  <2>2. PICK b \in StartBranches : Taken(b)
    BY <1>3, <1>7, <2>1, Matched
  <2>3. /\ In(unread, b.see) /\ Consumed
        /\ Final(unread, b.see) => unread' = <<>>
        /\ script' = b.then \o Tail(script)
        /\ anchored' <=> (b.see = NodePrompt /\ ~Serial!ProbesTyped)
        /\ UNCHANGED <<typed, reader, running, exit, heard>>
    BY <2>2 DEF Taken
  <2>4. Types'
    BY <2>3 DEF Types, Consumed
  <2>5. CASE b = Serial!On(Serial!Status, <<Serial!Exit3>>)
    <3>1. b.see = Serial!Status /\ b.then = <<Serial!Exit3>>
      BY <2>5 DEF Serial!On
    <3>2. ~anchored'
      BY <2>3, <3>1, Printables
    <3>3. Serial!Exit3 \in AnyOps /\ Tail(script) \in Seq(AnyOps)
      BY <1>2, OpDone DEF AnyOps
    <3>4. Begins(script', Serial!Exit3)
      BY <2>3, <3>1, <3>3, Prepended DEF Begins
    <3> QED
      BY <2>4, <3>2, <3>4 DEF AtExit
  <2>6. CASE b = Serial!On(LoginPrompt, Serial!LogIn)
    <3>1. b.see = LoginPrompt /\ b.then = Serial!LogIn
      BY <2>6 DEF Serial!On
    <3>2. ~anchored'
      BY <2>3, <3>1, Printables
    <3>3. AtUser(script')
      BY <1>2, <2>3, <3>1, LogInOpens
    <3>4. typed' = <<>> /\ unread' = <<>> /\ reader' \in {"login", "gone"}
      BY <1>1, <2>3, <3>1
    <3>5. UserPhase'
      BY <1>h, <2>3, <3>3, <3>4 DEF UserPhase
    <3> QED
      BY <2>4, <3>2, <3>5 DEF Opens
  <2>7. CASE b = Serial!On(NodePrompt, <<>>)
    <3>1. b.see = NodePrompt /\ b.then = <<>>
      BY <2>7 DEF Serial!On
    <3>2. script' = Tail(script)
      BY <1>2, <2>3, <3>1, OpDone
    <3>3. typed' = <<>> /\ unread' = <<>> /\ reader' \in {"node", "gone"} /\ typed = <<>>
      BY <1>1, <2>3, <3>1
    <3>4. Anchored'
      BY <1>2, <1>h, <2>3, <3>2, <3>3, Anchoring
    <3>5. anchored'
      BY <1>h, <2>3, <3>1, <3>3, NoProbeYet
    <3> QED
      BY <2>4, <3>4, <3>5
  <2> QED
    BY <2>5, <2>6, <2>7 DEF StartBranches
<1> QED
  BY <1>4, <1>5, <1>6, <1>7

\* A script at its exit does nothing more.
LEMMA ExitExpects ==
  ASSUME Types, AtExit(script), ~anchored, Serial!Expecting
  PROVE  Types' /\ ~anchored' /\ AtExit(script')
<1>1. Head(script).op = "exit"
  BY OpsApart DEF AtExit, Begins
<1>2. Still /\ script' = script
  BY <1>1, Exiting
<1> QED
  BY <1>2, Stands DEF Still

-----------------------------------------------------------------------------
(* The steps of a script behind its opening.                               *)

\* The operations past the opening type a probe, exit or the sudo password,
\* or wait for one token.
LEMMA OpsAre ==
  ASSUME NEW s \in Seq(RestOps \cup {SendSudoPassword}), s # <<>>
  PROVE  /\ \/ \E l \in Wires \cup {Serial!Leave, Serial!SudoPassword} : Begins(s, Serial!Send(l))
            \/ \E t : Begins(s, Serial!Await(t))
            \/ Begins(s, AwaitSudo)
         /\ Tail(s) \in Seq(RestOps \cup {SendSudoPassword})
         /\ Head(s) = s[1] /\ 1 \in 1..Len(s)
         /\ \A i \in 1..Len(Tail(s)) : i + 1 \in 1..Len(s) /\ Tail(s)[i] = s[i + 1]
         /\ Len(s) \in Nat /\ Len(Tail(s)) = Len(s) - 1
<1> DEFINE R == RestOps \cup {SendSudoPassword}
<1>1. R \subseteq AnyOps
  BY DEF AnyOps
<1> HIDE DEF R
<1>2. /\ Head(s) = s[1] /\ s[1] \in R /\ 1 \in 1..Len(s) /\ Tail(s) \in Seq(R)
      /\ Len(s) \in Nat /\ Len(Tail(s)) = Len(s) - 1
      /\ \A i \in 1..Len(Tail(s)) : i + 1 \in 1..Len(s) /\ Tail(s)[i] = s[i + 1]
  <2>1. s \in Seq(R)
    BY DEF R
  <2> QED
    BY <2>1, Shorter
<1>3. s \in Seq(AnyOps)
  BY <1>1, SeqMonotonic DEF R
<1>4. \/ \E l \in Wires \cup {Serial!Leave, Serial!SudoPassword} : s[1] = Serial!Send(l)
      \/ \E t : s[1] = Serial!Await(t)
      \/ s[1] = AwaitSudo
  BY <1>2 DEF R, RestOps, CloseOps, WireSends, Awaits, SendSudoPassword
<1>5. \A op : s[1] = op => Begins(s, op)
  BY <1>2, <1>3 DEF Begins
<1> QED
  BY <1>2, <1>4, <1>5 DEF R

\* A probe that is typed counts, as do those typed before.
LEMMA ProbeAppended ==
  ASSUME Types, NEW l \in Serial!Lines, typed' = Append(typed, l), heard' = heard
  PROVE  /\ Serial!ProbesTyped \/ l \in Wires => Serial!ProbesTyped'
<1>1. typed \in Seq(Serial!Lines)
  BY DEF Types
<1>2. /\ typed' \in Seq(Serial!Lines) /\ Len(typed') = Len(typed) + 1 /\ Len(typed) \in Nat
      /\ typed'[Len(typed) + 1] = l /\ \A i \in 1..Len(typed) : typed'[i] = typed[i]
  BY <1>1
<1>3. DOMAIN typed = 1..Len(typed) /\ DOMAIN typed' = 1..Len(typed) + 1
  BY <1>1, <1>2
<1>4. Len(typed) + 1 \in DOMAIN typed' /\ \A i \in DOMAIN typed : i \in DOMAIN typed' /\ typed'[i] = typed[i]
  BY <1>2, <1>3
<1>5. CASE l \in Wires
  <2>1. \E i \in DOMAIN typed' : typed'[i] \in Wires
    BY <1>2, <1>4, <1>5
  <2> QED
    BY <2>1 DEF Serial!ProbesTyped, Serial!ToSet
<1>6. CASE Serial!ProbesTyped
  <2>1. (\E i \in DOMAIN typed : typed[i] \in Wires) \/ (\E h \in heard : h[1] \in Wires)
    BY <1>6, ProbesAre
  <2>2. (\E i \in DOMAIN typed' : typed'[i] \in Wires) \/ (\E h \in heard' : h[1] \in Wires)
    BY <1>4, <2>1
  <2> QED
    BY <2>2 DEF Serial!ProbesTyped, Serial!ToSet
<1> QED
  BY <1>5, <1>6

\* A probe goes before each wait for the node's prompt, but the first operation
\* is done when it was none.
LEMMA ProbeFirstOn ==
  ASSUME NEW s \in Seq(RestOps \cup {SendSudoPassword}), s # <<>>, ProbeFirst(s),
         s[1] \notin WireSends
  PROVE  ProbeFirst(Tail(s)) /\ s[1] # Serial!Await(NodePrompt)
<1>1. /\ \A i \in 1..Len(Tail(s)) : i + 1 \in 1..Len(s) /\ Tail(s)[i] = s[i + 1]
      /\ Len(s) \in Nat /\ Len(Tail(s)) = Len(s) - 1 /\ 1 \in 1..Len(s)
  BY OpsAre
<1> DEFINE t == Tail(s)
<1> HIDE DEF t
<1>2. ASSUME NEW i \in 1..Len(t), t[i] = Serial!Await(NodePrompt)
      PROVE  \E j \in 1..i - 1 : t[j] \in WireSends
  <2>1. i + 1 \in 1..Len(s) /\ s[i + 1] = Serial!Await(NodePrompt)
    BY <1>1, <1>2 DEF t
  <2>2. PICK j \in 1..(i + 1) - 1 : s[j] \in WireSends
    BY <2>1 DEF ProbeFirst
  <2>3. j # 1
    BY <2>2
  <2>4. i \in Nat /\ i <= Len(t) /\ Len(t) \in Nat
    BY <1>1 DEF t
  <2>5. j - 1 \in 1..i - 1 /\ j - 1 \in 1..Len(t) /\ (j - 1) + 1 = j
    BY <2>2, <2>3, <2>4
  <2>6. t[j - 1] = s[j]
    BY <1>1, <2>5 DEF t
  <2> QED
    BY <2>2, <2>5, <2>6
<1>3. s[1] # Serial!Await(NodePrompt)
  <2> SUFFICES ASSUME s[1] = Serial!Await(NodePrompt) PROVE FALSE
    OBVIOUS
  <2>1. \E j \in 1..1 - 1 : s[j] \in WireSends
    BY <1>1 DEF ProbeFirst
  <2> QED
    BY <2>1
<1> QED
  BY <1>2, <1>3 DEF ProbeFirst, t

\* The sudo password goes where its wait stood.
LEMMA ProbeFirstPut ==
  ASSUME NEW s \in Seq(RestOps \cup {SendSudoPassword}), s # <<>>, ProbeFirst(s), s[1] = AwaitSudo,
         NEW u, u = <<SendSudoPassword>> \o Tail(s)
  PROVE  ProbeFirst(u)
<1> DEFINE R == RestOps \cup {SendSudoPassword}
<1>1. /\ Tail(s) \in Seq(R) /\ Len(s) \in Nat /\ Len(Tail(s)) = Len(s) - 1
      /\ \A i \in 1..Len(Tail(s)) : i + 1 \in 1..Len(s) /\ Tail(s)[i] = s[i + 1]
  BY OpsAre
<1>2. SendSudoPassword \in R
  OBVIOUS
<1> HIDE DEF R
<1>3. u \in Seq(R) /\ u # <<>> /\ Head(u) = SendSudoPassword /\ Tail(u) = Tail(s)
  BY <1>1, <1>2, Prepended
<1>4. /\ u[1] = SendSudoPassword /\ Len(u) \in Nat /\ Len(Tail(u)) = Len(u) - 1
      /\ \A i \in 1..Len(Tail(u)) : Tail(u)[i] = u[i + 1]
  BY <1>3, Shorter
<1>5. Len(u) = Len(s)
  BY <1>1, <1>3, <1>4
<1>6. \A i \in 1..Len(u) : i # 1 => u[i] = s[i]
  <2> SUFFICES ASSUME NEW i \in 1..Len(u), i # 1 PROVE u[i] = s[i]
    OBVIOUS
  <2>1. i - 1 \in 1..Len(Tail(s)) /\ (i - 1) + 1 = i
    BY <1>1, <1>5
  <2> QED
    BY <1>1, <1>3, <1>4, <2>1
<1>7. /\ SendSudoPassword # Serial!Await(NodePrompt)
      /\ s[1] \notin WireSends
  <2>1. SendSudoPassword \notin Awaits
    BY OpsApart DEF SendSudoPassword
  <2>2. \A t \in Printable : Serial!Await(t) \in Awaits
    BY DEF Awaits
  <2>3. \A l : AwaitSudo # Serial!Send(l)
    BY OpsApart
  <2> QED
    BY <2>1, <2>2, <2>3, Tokens DEF WireSends
<1>8. ASSUME NEW i \in 1..Len(u), u[i] = Serial!Await(NodePrompt)
      PROVE  \E j \in 1..i - 1 : u[j] \in WireSends
  <2>1. i # 1 /\ i \in 1..Len(s)
    BY <1>4, <1>5, <1>7, <1>8
  <2>2. s[i] = Serial!Await(NodePrompt)
    BY <1>6, <1>8, <2>1
  <2>3. PICK j \in 1..i - 1 : s[j] \in WireSends
    BY <2>1, <2>2 DEF ProbeFirst
  <2>4. j # 1 /\ j \in 1..Len(u)
    BY <1>4, <1>5, <1>7, <2>3
  <2> QED
    BY <1>6, <2>3, <2>4
<1> QED
  BY <1>8 DEF ProbeFirst

\* The wait for a sudo matched: its password is next.
LEMMA SudoMatched ==
  ASSUME Types, Begins(script, AwaitSudo), Serial!Expecting
  PROVE  /\ Types' /\ UNCHANGED <<typed, reader, running, heard>>
         /\ anchored' <=> anchored
         /\ \A u : In(unread', u) => In(unread, u)
         /\ \/ script' = <<SendSudoPassword>> \o Tail(script) /\ In(unread, PasswordPrompt)
            \/ script' = Tail(script) /\ Still
            \/ script' = script /\ Still
<1>2. /\ Head(script).op = "expect"
      /\ Head(script).branches = <<[see |-> PasswordPrompt, then |-> <<SendSudoPassword>>]>>
  BY OpsApart DEF Begins
<1>3. \/ Serial!Match
      \/ Still /\ script' = Tail(script)
      \/ Still /\ script' = script
  BY <1>2, Awaiting
<1>4. CASE Still /\ script' \in {script, Tail(script)}
  BY <1>4, Stands DEF Still
<1>5. CASE Serial!Match
  <2>1. unread \in Seq(Printable)
    BY DEF Types
  <2>2. Taken([see |-> PasswordPrompt, then |-> <<SendSudoPassword>>])
    BY <1>2, <1>5, <2>1, MatchedOne
  <2>3. PasswordPrompt # NodePrompt
    BY Printables
  <2> QED
    BY <2>2, <2>3 DEF Taken, Consumed, Types
<1> QED
  BY <1>3, <1>4, <1>5

\* A script that has gone astray never counts as past the prompt.
LEMMA AstrayExpects ==
  ASSUME Types, Astray, ~anchored, Serial!Expecting PROVE Types' /\ ~anchored' /\ Astray'
<1> DEFINE R == RestOps \cup {SendSudoPassword}
<1>1. script \in Seq(R) /\ (Serial!ProbesTyped \/ ProbeFirst(script))
  BY DEF Astray, Typing
<1>2. CASE script = <<>>
  <2>1. Still /\ script' = script
    BY <1>2 DEF Serial!Expecting, Serial!SendLine, Serial!SendToNobody, Serial!Match,
       Serial!GoOn, Serial!ExitNonZero, Serial!EndOfScript, Serial!Doing,
       Serial!terminalVars, Still
  <2>2. Serial!ProbesTyped' <=> Serial!ProbesTyped
    BY <2>1 DEF Still, Serial!ProbesTyped
  <2> QED
    BY <1>1, <2>1, <2>2, Stands DEF Still, Astray, Typing
<1>3. CASE script # <<>>
  <2>1. /\ \/ \E l \in Wires \cup {Serial!Leave, Serial!SudoPassword} : Begins(script, Serial!Send(l))
           \/ \E t : Begins(script, Serial!Await(t))
           \/ Begins(script, AwaitSudo)
        /\ Tail(script) \in Seq(R) /\ Head(script) = script[1]
    BY <1>1, <1>3, OpsAre
  <2> HIDE DEF R
  <2>2. ASSUME NEW l \in Wires \cup {Serial!Leave, Serial!SudoPassword}, Begins(script, Serial!Send(l))
        PROVE  Types' /\ ~anchored' /\ Astray'
    <3>1. l \in Serial!Lines
      BY LinesAre
    <3>2. /\ Types' /\ UNCHANGED <<reader, running, heard, anchored>>
          /\ \/ script' = Tail(script) /\ typed' = Append(typed, l)
             \/ script' = script /\ Still
      BY <2>2, <3>1, SendingOne
    <3>3. CASE script' = script /\ Still
      <4>1. Serial!ProbesTyped' <=> Serial!ProbesTyped
        BY <3>3 DEF Still, Serial!ProbesTyped
      <4> QED
        BY <1>1, <3>2, <3>3, <4>1 DEF Astray, Typing, R
    <3>4. CASE script' = Tail(script) /\ typed' = Append(typed, l)
      <4>1. Serial!ProbesTyped \/ l \in Wires => Serial!ProbesTyped'
        BY <3>1, <3>2, <3>4, ProbeAppended
      <4>2. l \notin Wires => script[1] \notin WireSends
        BY <2>1, <2>2, LineOfSend DEF WireSends, Begins
      <4>3. l \notin Wires /\ ProbeFirst(script) => ProbeFirst(script')
        BY <1>1, <1>3, <3>4, <4>2, ProbeFirstOn DEF R
      <4> QED
        BY <1>1, <2>1, <3>2, <3>4, <4>1, <4>3 DEF Astray, Typing, R
    <3> QED
      BY <3>2, <3>3, <3>4
  <2>3. ASSUME NEW t, Begins(script, Serial!Await(t)) PROVE Types' /\ ~anchored' /\ Astray'
    <3>1. script[1] = Serial!Await(t) /\ script[1] \notin WireSends
      <4>1. \A l : Serial!Await(t) # Serial!Send(l)
        BY OpsApart
      <4> QED
        BY <2>1, <2>3, <4>1 DEF WireSends, Begins
    <3>2. /\ Types' /\ UNCHANGED <<typed, heard>>
          /\ \/ /\ script' = Tail(script)
                /\ anchored' <=> (anchored \/ (t = NodePrompt /\ ~Serial!ProbesTyped))
             \/ script' = Tail(script) /\ anchored' = anchored
             \/ script' = script /\ anchored' = anchored
      BY <2>3, AwaitingOne DEF Still
    <3>3. Serial!ProbesTyped' <=> Serial!ProbesTyped
      BY <3>2 DEF Serial!ProbesTyped
    <3>4. ProbeFirst(script) => ProbeFirst(Tail(script)) /\ t # NodePrompt
      BY <1>1, <1>3, <3>1, ProbeFirstOn DEF R
    <3>5. script' \in Seq(R) /\ ~anchored'
      BY <1>1, <2>1, <3>2, <3>4
    <3>6. Serial!ProbesTyped' \/ ProbeFirst(script')
      BY <1>1, <3>2, <3>3, <3>4
    <3> QED
      BY <3>2, <3>5, <3>6 DEF Astray, Typing, R
  <2>4. CASE Begins(script, AwaitSudo)
    <3>1. script[1] = AwaitSudo /\ script[1] \notin WireSends
      <4>1. \A l : AwaitSudo # Serial!Send(l)
        BY OpsApart
      <4> QED
        BY <2>1, <2>4, <4>1 DEF WireSends, Begins
    <3>2. /\ Types' /\ UNCHANGED <<typed, heard>> /\ ~anchored'
          /\ \/ script' = <<SendSudoPassword>> \o Tail(script)
             \/ script' = Tail(script)
             \/ script' = script
      BY <2>4, SudoMatched
    <3>3. Serial!ProbesTyped' <=> Serial!ProbesTyped
      BY <3>2 DEF Serial!ProbesTyped
    <3>4. ProbeFirst(script) => ProbeFirst(script')
      <4>1. CASE script' = <<SendSudoPassword>> \o Tail(script)
        BY <1>1, <1>3, <3>1, <4>1, ProbeFirstPut DEF R
      <4>2. CASE script' = Tail(script)
        BY <1>1, <1>3, <3>1, <4>2, ProbeFirstOn DEF R
      <4> QED
        BY <3>2, <4>1, <4>2
    <3>5. script' \in Seq(R)
      <4>1. SendSudoPassword \in R
        BY DEF R
      <4>2. <<SendSudoPassword>> \o Tail(script) \in Seq(R)
        BY <2>1, <4>1, Prepended
      <4> QED
        BY <1>1, <2>1, <3>2, <4>2
    <3> QED
      BY <1>1, <3>2, <3>3, <3>4, <3>5 DEF Astray, Typing, R
  <2> QED
    BY <2>1, <2>2, <2>3, <2>4
<1> QED
  BY <1>2, <1>3

\* A line is typed behind the others.
LEMMA OneMoreLine ==
  ASSUME NEW S, NEW q \in Seq(S), NEW l \in S
  PROVE  /\ Append(q, l) \in Seq(S) /\ Len(Append(q, l)) = Len(q) + 1 /\ Len(q) \in Nat
         /\ Append(q, l)[Len(q) + 1] = l
         /\ \A i \in 1..Len(q) : Append(q, l)[i] = q[i]
         /\ \A i \in 1..Len(q) + 1 : i \in 1..Len(q) \/ i = Len(q) + 1
BY AppendProperties

\* One more line typed at the node, a probe or an exit.
LEMMA TypesOne ==
  ASSUME Talks, NEW l \in Wires \cup {Serial!Leave}, typed' = Append(typed, l), reader' = reader,
         l \in Wires => Leaves = {} /\ reader # "rack"
  PROVE  /\ Talks'
         /\ l \in Wires => Leaves' = {}
         /\ SudoTyped = {} /\ l \notin SudoWires => SudoTyped' = {}
         /\ SudoTyped = {} => SudoTyped' \subseteq {Len(typed')}
<1> DEFINE S == Wires \cup {Serial!SudoPassword, Serial!Leave}
           n == Len(typed)
<1>0. typed \in Seq(S) /\ l \in S
  BY DEF Talks
<1>1. /\ typed' \in Seq(S) /\ Len(typed') = n + 1 /\ n \in Nat /\ typed'[n + 1] = l
      /\ \A i \in 1..n : typed'[i] = typed[i]
      /\ \A i \in 1..n + 1 : i \in 1..n \/ i = n + 1
  <2> HIDE DEF S
  <2> QED
    BY <1>0, OneMoreLine
<1>2. /\ Serial!SudoPassword \notin Wires /\ Serial!Leave \notin Wires
      /\ Serial!SudoPassword # Serial!Leave /\ SudoWires \subseteq Wires
  BY WiresAreNoWords DEF Serial!SudoPassword, Serial!Leave
<1> HIDE DEF n
<1>3. ASSUME NEW i \in 1..Len(typed'), typed'[i] = Serial!SudoPassword
      PROVE  i = 1 /\ reader' \in {"sudo", "gone"}
  <2>1. i \in 1..n
    BY <1>1, <1>2, <1>3
  <2> QED
    BY <1>1, <1>3, <2>1 DEF Talks, n
<1>4. ASSUME NEW i \in Leaves', NEW j \in 1..Len(typed'), i < j PROVE j \in Leaves'
  <2>1. i \in 1..n + 1 /\ j \in 1..n + 1 /\ typed'[i] = Serial!Leave
    BY <1>1, <1>4 DEF Leaves
  <2>2. i \in 1..n
    BY <1>1, <1>4, <2>1
  <2>3. i \in Leaves
    BY <1>1, <2>1, <2>2 DEF Leaves, n
  <2>4. CASE j \in 1..n
    <3>1. j \in Leaves
      BY <1>4, <2>2, <2>3, <2>4 DEF Talks, n
    <3> QED
      BY <1>1, <2>4, <3>1 DEF Leaves, n
  <2>5. CASE j = n + 1
    <3>1. l = Serial!Leave
      BY <2>3
    <3> QED
      BY <1>1, <2>1, <2>5, <3>1 DEF Leaves
  <2> QED
    BY <1>1, <2>1, <2>4, <2>5
<1>5. ASSUME reader = "rack", NEW i \in 1..Len(typed') PROVE i \in Leaves'
  <2>1. l = Serial!Leave
    BY <1>5
  <2>2. i \in 1..n => typed[i] = Serial!Leave
    BY <1>5 DEF Talks, Leaves, n
  <2> QED
    BY <1>1, <2>1, <2>2 DEF Leaves
<1>6. Talks'
  <2>1. Leaves' \subseteq 1..Len(typed')
    BY DEF Leaves
  <2>2. \A i, j \in 1..Len(typed') : i < j /\ i \in Leaves' => j \in Leaves'
    BY <1>4
  <2>3. reader' \in {"node", "sudo", "busy", "rack", "gone"}
    BY DEF Talks
  <2>4. reader' = "rack" => Leaves' = 1..Len(typed')
    BY <1>5, <2>1
  <2> QED
    BY <1>1, <1>3, <2>2, <2>3, <2>4 DEF Talks, S
<1>7. l \in Wires => Leaves' = {}
  <2> SUFFICES ASSUME l \in Wires, NEW i \in Leaves' PROVE FALSE
    OBVIOUS
  <2>1. i \in 1..n + 1 /\ typed'[i] = Serial!Leave
    BY <1>1 DEF Leaves
  <2>2. i \in 1..n /\ typed[i] = Serial!Leave
    BY <1>1, <1>2, <2>1
  <2> QED
    BY <2>2 DEF Leaves, n
<1>8. ASSUME SudoTyped = {} PROVE \A i \in SudoTyped' : i = n + 1 /\ l \in SudoWires
  <2> SUFFICES ASSUME NEW i \in SudoTyped' PROVE i = n + 1 /\ l \in SudoWires
    OBVIOUS
  <2>1. i \in 1..n + 1 /\ typed'[i] \in SudoWires
    BY <1>1 DEF SudoTyped
  <2>2. i \notin 1..n
    BY <1>1, <1>8, <2>1 DEF SudoTyped, n
  <2> QED
    BY <1>1, <2>1, <2>2
<1> QED
  BY <1>1, <1>6, <1>7, <1>8

\* Nothing is typed behind the first exit but another.
LEMMA ClosesOn ==
  ASSUME NEW s, Ordered(s), s # <<>>
  PROVE  /\ s \in Seq(CloseOps) => Tail(s) \in Seq(CloseOps) /\ s[1] \in CloseOps
         /\ s[1] = Serial!Send(Serial!Leave) => Tail(s) \in Seq(CloseOps)
<1>1. /\ s \in Seq(RestOps) /\ Tail(s) \in Seq(RestOps) /\ Len(s) \in Nat /\ Len(Tail(s)) = Len(s) - 1
      /\ 1 \in 1..Len(s)
      /\ \A i \in 1..Len(Tail(s)) : i + 1 \in 1..Len(s) /\ Tail(s)[i] = s[i + 1]
  BY Shorter DEF Ordered
<1>2. s \in Seq(CloseOps) => Tail(s) \in Seq(CloseOps) /\ s[1] \in CloseOps
  BY Shorter
<1>3. ASSUME s[1] = Serial!Send(Serial!Leave) PROVE Tail(s) \in Seq(CloseOps)
  <2> DEFINE t == Tail(s)
  <2> HIDE DEF t
  <2>1. ASSUME NEW i \in 1..Len(t) PROVE t[i] \in CloseOps
    <3>1. i + 1 \in 1..Len(s) /\ t[i] = s[i + 1] /\ 1 < i + 1
      BY <1>1 DEF t
    <3> QED
      BY <1>1, <1>3, <3>1 DEF Ordered
  <2>2. t \in Seq(RestOps)
    BY <1>1 DEF t
  <2>3. t \in [1..Len(t) -> CloseOps] /\ Len(t) \in Nat
    BY <2>1, <2>2
  <2>4. t \in Seq(CloseOps)
    BY <2>3
  <2> QED
    BY <2>4 DEF t
<1> QED
  BY <1>2, <1>3

\* No probe and no wait for a sudo is part of a script's end.
LEMMA CloseApart ==
  /\ AwaitSudo \notin CloseOps
  /\ \A l \in Wires : Serial!Send(l) \notin CloseOps
<1>1. AwaitSudo \notin Awaits /\ \A l : Serial!Send(l) \notin Awaits /\ Serial!Send(l) # AwaitSudo
  BY OpsApart
<1>2. \A l \in Wires : Serial!Send(l) # Serial!Send(Serial!Leave)
  BY LineOfSend, WiresAreNoWords
<1> QED
  BY <1>1, <1>2 DEF CloseOps

\* Where the wait for a sudo stands once the first operation is done.
LEMMA SudoShifts ==
  ASSUME NEW s, Ordered(s), s # <<>>, NEW i \in 1..Len(Tail(s)), Tail(s)[i] = AwaitSudo
  PROVE  /\ i + 1 \in 1..Len(s) /\ s[i + 1] = AwaitSudo /\ i \in Nat /\ i >= 1
         /\ s[1] # AwaitSudo
         /\ i = 1 => s[1] \in Awaits
         /\ s[1] \in SudoSends => i = 2
<1>1. /\ s \in Seq(RestOps) /\ Len(s) \in Nat /\ Len(Tail(s)) = Len(s) - 1 /\ 1 \in 1..Len(s)
      /\ \A k \in 1..Len(Tail(s)) : k + 1 \in 1..Len(s) /\ Tail(s)[k] = s[k + 1]
  BY Shorter DEF Ordered
<1>2. i + 1 \in 1..Len(s) /\ s[i + 1] = AwaitSudo /\ i \in Nat /\ i >= 1
  BY <1>1
<1>3. s[1] # AwaitSudo
  <2> SUFFICES ASSUME s[1] = AwaitSudo PROVE FALSE
    OBVIOUS
  <2>1. 1 = i + 1
    BY <1>1, <1>2 DEF Ordered
  <2> QED
    BY <1>2, <2>1
<1>4. i = 1 => s[1] \in Awaits
  BY <1>1, <1>2 DEF Ordered
<1>5. ASSUME s[1] \in SudoSends PROVE i = 2
  <2>1. 1 < i + 1
    BY <1>2
  <2>2. 1 = (i + 1) - 2
    BY <1>1, <1>2, <1>5, <2>1 DEF Ordered
  <2> QED
    BY <1>2, <2>2
<1> QED
  BY <1>2, <1>3, <1>4, <1>5

\* The step of a script past the prompt that types.
LEMMA ProceedsSends ==
  ASSUME Types, Talks, Proceeds, NEW l \in Wires \cup {Serial!Leave},
         Begins(script, Serial!Send(l)), Serial!Expecting
  PROVE  Types' /\ Talks' /\ Proceeds' /\ UNCHANGED <<heard, anchored>>
<1>1. /\ Types' /\ UNCHANGED <<reader, running, heard, anchored>>
      /\ \/ /\ script' = Tail(script) /\ typed' = Append(typed, l)
            /\ \A t \in Prompts : In(unread', t) => In(unread, t)
         \/ script' = script /\ Still
  BY LinesAre, SendingOne
<1>2. Ordered(script) /\ script # <<>> /\ script[1] = Serial!Send(l)
  <2>1. script \in Seq(RestOps) /\ script # <<>> /\ Head(script) = Serial!Send(l)
    BY DEF Proceeds, Ordered, Begins
  <2> QED
    BY <2>1, Shorter DEF Proceeds
<1>3. CASE script' = script /\ Still
  BY <1>1, <1>3 DEF Still, Talks, Leaves, Proceeds, SudoLater, SudoSoon, SudoTyped
<1>4. CASE /\ script' = Tail(script) /\ typed' = Append(typed, l)
           /\ \A t \in Prompts : In(unread', t) => In(unread, t)
  <2>1. Ordered(script')
    BY <1>2, <1>4, OrderedOn
  <2>2. l \in Wires => Leaves = {} /\ reader # "rack"
    <3>1. l \in Wires => script \notin Seq(CloseOps)
      BY <1>2, ClosesOn, CloseApart
    <3> QED
      BY <3>1 DEF Proceeds
  <2>3. /\ Talks'
        /\ l \in Wires => Leaves' = {}
        /\ SudoTyped = {} /\ l \notin SudoWires => SudoTyped' = {}
        /\ SudoTyped = {} => SudoTyped' \subseteq {Len(typed')}
    BY <1>1, <1>4, <2>2, TypesOne
  <2>4. l = Serial!Leave => script' \in Seq(CloseOps)
    BY <1>2, <1>4, ClosesOn
  <2>5. Leaves' # {} \/ reader' = "rack" => script' \in Seq(CloseOps)
    BY <1>1, <2>2, <2>3, <2>4
  <2>6. ASSUME NEW i \in 1..Len(script'), script'[i] = AwaitSudo
        PROVE  IF i > 2 THEN SudoLater' ELSE SudoSoon'
    <3>1. /\ i + 1 \in 1..Len(script) /\ script[i + 1] = AwaitSudo /\ i \in Nat /\ i >= 1
          /\ i = 1 => script[1] \in Awaits
          /\ script[1] \in SudoSends => i = 2
      BY <1>2, <1>4, <2>6, SudoShifts
    <3>2. script[1] \notin Awaits
      BY <1>2, OpsApart
    <3>3. i + 1 > 2
      BY <3>1, <3>2
    <3>4. SudoLater
      BY <3>1, <3>3 DEF Proceeds
    <3>5. PasswordPrompt \in Prompts
      BY DEF Prompts
    <3>6. SudoTyped = {} /\ reader' # "sudo" /\ ~In(unread', PasswordPrompt)
      BY <1>1, <1>4, <3>4, <3>5 DEF SudoLater
    <3>7. i > 2 => l \notin SudoWires
      BY <1>2, <3>1 DEF SudoSends
    <3>8. i > 2 => SudoLater'
      BY <2>3, <3>6, <3>7 DEF SudoLater
    <3>9. SudoSoon'
      BY <2>3, <3>6 DEF SudoSoon
    <3> QED
      BY <3>8, <3>9
  <2> QED
    BY <1>1, <2>1, <2>3, <2>5, <2>6 DEF Proceeds
<1> QED
  BY <1>1, <1>3, <1>4

\* What is unread can only become less while expect waits.
LEMMA LessUnread ==
  ASSUME Talks, UNCHANGED <<typed, reader>>, \A u : In(unread', u) => In(unread, u)
  PROVE  /\ Talks' /\ Leaves' = Leaves /\ SudoTyped' = SudoTyped
         /\ SudoLater => SudoLater' /\ SudoSoon'
         /\ SudoSoon => SudoSoon'
BY DEF Talks, Leaves, SudoTyped, SudoLater, SudoSoon

\* The step of a script past the prompt that waits for a token.
LEMMA ProceedsAwaits ==
  ASSUME Types, Talks, Proceeds, anchored, NEW t, Begins(script, Serial!Await(t)), Serial!Expecting
  PROVE  Types' /\ Talks' /\ Proceeds' /\ heard' = heard /\ anchored'
<1>1. /\ Types' /\ UNCHANGED <<typed, reader, running, heard>> /\ anchored'
      /\ \A u : In(unread', u) => In(unread, u)
      /\ script' \in {Tail(script), script}
  BY AwaitingOne DEF Still
<1>2. Ordered(script) /\ script # <<>>
  BY DEF Proceeds, Begins
<1>3. /\ Talks' /\ Leaves' = Leaves /\ SudoTyped' = SudoTyped
      /\ SudoLater => SudoLater' /\ SudoSoon'
      /\ SudoSoon => SudoSoon'
  BY <1>1, LessUnread
<1>4. CASE script' = script
  BY <1>1, <1>3, <1>4 DEF Proceeds
<1>5. CASE script' = Tail(script)
  <2>1. Ordered(script')
    BY <1>2, <1>5, OrderedOn
  <2>2. Leaves' # {} \/ reader' = "rack" => script' \in Seq(CloseOps)
    BY <1>1, <1>2, <1>3, <1>5, ClosesOn DEF Proceeds
  <2>3. ASSUME NEW i \in 1..Len(script'), script'[i] = AwaitSudo
        PROVE  IF i > 2 THEN SudoLater' ELSE SudoSoon'
    <3>1. i + 1 \in 1..Len(script) /\ script[i + 1] = AwaitSudo /\ i \in Nat
      BY <1>2, <1>5, <2>3, SudoShifts
    <3>2. IF i + 1 > 2 THEN SudoLater ELSE SudoSoon
      BY <3>1 DEF Proceeds
    <3>3. i > 2 => i + 1 > 2
      BY <3>1
    <3> QED
      BY <1>3, <3>2, <3>3
  <2> QED
    BY <1>1, <1>3, <2>1, <2>2, <2>3 DEF Proceeds
<1> QED
  BY <1>1, <1>4, <1>5

\* The step of a script past the prompt that waits for a sudo.
LEMMA ProceedsSudo ==
  ASSUME Types, Talks, Proceeds, anchored, Begins(script, AwaitSudo), Serial!Expecting
  PROVE  Types' /\ Talks' /\ (SudoNext' \/ Proceeds') /\ heard' = heard /\ anchored'
<1>1. /\ Types' /\ UNCHANGED <<typed, reader, running, heard>> /\ anchored'
      /\ \A u : In(unread', u) => In(unread, u)
      /\ \/ script' = <<SendSudoPassword>> \o Tail(script) /\ In(unread, PasswordPrompt)
         \/ script' = Tail(script)
         \/ script' = script
  BY SudoMatched DEF Still
<1>2. /\ Ordered(script) /\ script # <<>> /\ script \in Seq(AnyOps) /\ Head(script) = AwaitSudo
      /\ script \in Seq(RestOps)
  BY DEF Proceeds, Begins, Ordered
<1>3. script[1] = AwaitSudo /\ 1 \in 1..Len(script)
  BY <1>2, Shorter
<1>4. /\ Talks' /\ Leaves' = Leaves /\ SudoTyped' = SudoTyped
      /\ SudoLater => SudoLater' /\ SudoSoon'
      /\ SudoSoon => SudoSoon'
  BY <1>1, LessUnread
<1>5. Ordered(Tail(script)) /\ \A i \in 1..Len(Tail(script)) : Tail(script)[i] # AwaitSudo
  BY <1>2, <1>3, OrderedOn, SudoShifts
<1>6. Leaves = {} /\ reader # "rack"
  BY <1>2, <1>3, ClosesOn, CloseApart DEF Proceeds
<1>7. CASE script' = script
  BY <1>1, <1>4, <1>7 DEF Proceeds
<1>8. CASE script' = Tail(script)
  BY <1>1, <1>4, <1>5, <1>6, <1>8 DEF Proceeds
<1>9. CASE script' = <<SendSudoPassword>> \o Tail(script) /\ In(unread, PasswordPrompt)
  <2>1. SudoSoon
    BY <1>3 DEF Proceeds
  <2>2. typed' = <<>> /\ reader' \in {"sudo", "gone"}
    BY <1>1, <1>9, <2>1 DEF SudoSoon
  <2>3. Tail(script) \in Seq(AnyOps) /\ SendSudoPassword \in AnyOps
    BY <1>2, OpDone DEF AnyOps
  <2>4. Begins(script', SendSudoPassword) /\ Tail(script') = Tail(script)
    BY <1>9, <2>3, Prepended DEF Begins
  <2>5. SudoNext'
    BY <1>5, <2>2, <2>4 DEF SudoNext
  <2> QED
    BY <1>1, <1>4, <2>5
<1> QED
  BY <1>1, <1>7, <1>8, <1>9

\* The password for sudo is typed to the sudo that asked.
LEMMA SudoNextExpects ==
  ASSUME Types, Talks, SudoNext, anchored, Serial!Expecting
  PROVE  Types' /\ Talks' /\ (SudoNext' \/ Proceeds') /\ heard' = heard /\ anchored'
<1> DEFINE l == Serial!SudoPassword
<1>1. /\ Begins(script, Serial!Send(l)) /\ Ordered(Tail(script))
      /\ \A i \in 1..Len(Tail(script)) : Tail(script)[i] # AwaitSudo
      /\ reader \in {"sudo", "gone"} /\ typed = <<>>
  BY DEF SudoNext, SendSudoPassword
<1>2. /\ Types' /\ UNCHANGED <<reader, running, heard, anchored>>
      /\ \/ /\ script' = Tail(script) /\ typed' = Append(typed, l) /\ reader # "gone"
         \/ script' = script /\ Still
  <2>1. l \in Serial!Lines
    BY LinesAre
  <2> HIDE DEF l
  <2> QED
    BY <1>1, <2>1, SendingOne
<1>3. CASE script' = script /\ Still
  BY <1>2, <1>3 DEF Still, Talks, Leaves, SudoNext
<1>4. CASE script' = Tail(script) /\ typed' = Append(typed, l) /\ reader # "gone"
  <2>1. typed' = <<l>>
    BY <1>1, <1>4
  <2>2. l # Serial!Leave /\ l \notin SudoWires
    BY WiresAreNoWords DEF Serial!SudoPassword, Serial!Leave
  <2>3. Len(typed') = 1 /\ \A i \in 1..Len(typed') : i = 1 /\ typed'[i] = l
    BY <2>1
  <2>4. typed' \in Seq(Wires \cup {l, Serial!Leave})
    <3> DEFINE S == Wires \cup {l, Serial!Leave}
    <3>1. l \in S
      OBVIOUS
    <3> HIDE DEF S, l
    <3>2. <<l>> \in Seq(S)
      BY <3>1
    <3> QED
      BY <2>1, <3>2 DEF S
  <2>5. reader' = "sudo"
    BY <1>1, <1>2, <1>4
  <2>6. Leaves' = {}
    BY <2>2, <2>3 DEF Leaves
  <2>7. Talks'
    BY <2>3, <2>4, <2>5, <2>6 DEF Talks
  <2>8. Proceeds'
    BY <1>1, <1>4, <2>5, <2>6 DEF Proceeds
  <2> QED
    BY <1>2, <2>7, <2>8
<1> QED
  BY <1>2, <1>3, <1>4

\* Any step of a script past the prompt.
LEMMA AnchoredExpects ==
  ASSUME Types, Anchored, anchored, Serial!Expecting
  PROVE  Types' /\ Anchored' /\ anchored'
<1>1. Talks /\ \A h \in heard : Spoken(h)
  BY DEF Anchored
<1>2. CASE SudoNext
  BY <1>1, <1>2, SudoNextExpects DEF Anchored
<1>3. CASE Proceeds
  <2>1. script \in Seq(RestOps)
    BY <1>3 DEF Proceeds, Ordered
  <2>2. CASE script = <<>>
    <3>1. Still /\ script' = script
      BY <2>2 DEF Serial!Expecting, Serial!SendLine, Serial!SendToNobody, Serial!Match,
         Serial!GoOn, Serial!ExitNonZero, Serial!EndOfScript, Serial!Doing,
         Serial!terminalVars, Still
    <3> QED
      BY <3>1, Stands DEF Still, Anchored, Talks, Leaves, SudoNext, Proceeds,
         SudoLater, SudoSoon, SudoTyped
  <2>3. CASE script # <<>>
    <3>1. \/ \E l \in Wires \cup {Serial!Leave} : Begins(script, Serial!Send(l))
          \/ \E t : Begins(script, Serial!Await(t))
          \/ Begins(script, AwaitSudo)
      <4>1. script[1] \in RestOps /\ Head(script) = script[1]
        BY <2>1, <2>3, Shorter
      <4>2. script \in Seq(AnyOps)
        <5>1. RestOps \subseteq AnyOps
          BY DEF AnyOps
        <5> QED
          BY <2>1, <5>1, SeqMonotonic
      <4>3. \/ \E l \in Wires \cup {Serial!Leave} : script[1] = Serial!Send(l)
            \/ \E t : script[1] = Serial!Await(t)
            \/ script[1] = AwaitSudo
        BY <4>1 DEF RestOps, CloseOps, WireSends, Awaits
      <4> QED
        BY <2>3, <4>1, <4>2, <4>3 DEF Begins
    <3> QED
      BY <1>1, <1>3, <3>1, ProceedsSends, ProceedsAwaits, ProceedsSudo DEF Anchored
  <2> QED
    BY <2>2, <2>3
<1> QED
  BY <1>2, <1>3 DEF Anchored

\* The dialogue goes on only while the script runs, which then ends or runs.
LEMMA Running ==
  ASSUME Serial!Dialogue PROVE exit = "running" /\ exit' # "none"
BY DEF Serial!Dialogue, Serial!Expecting, Serial!SendLine, Serial!SendToNobody, Serial!Match,
   Serial!GoOn, Serial!ExitNonZero, Serial!EndOfScript, Serial!Doing,
   Serial!Answering, Serial!RackReads, Serial!SessionFails, Serial!SessionStarts,
   Serial!LoginReads, Serial!PasswordReads, Serial!ShellReads, Serial!SudoReads,
   Serial!ProbeEnds, Serial!SessionDrops, Serial!Reads

\* The dialogue's invariant through every step of script and other side.
LEMMA DialogueGoesOn ==
  ASSUME DialogueInv, Serial!Dialogue PROVE DialogueInv'
<1>1. exit # "none" /\ exit' # "none" /\ Types
  BY Running DEF DialogueInv
<1>2. CASE Serial!Answering
  BY <1>1, <1>2, DialogueAnswered
<1>3. CASE Serial!Expecting
  <2>1. CASE anchored
    <3>1. Anchored
      BY <1>1, <2>1 DEF DialogueInv
    <3> QED
      BY <1>1, <1>3, <2>1, <3>1, AnchoredExpects DEF DialogueInv
  <2>2. CASE ~anchored
    <3>1. RackPhase \/ StartPhase \/ UserPhase \/ AskedPhase \/ NodePhase \/ AtExit(script) \/ Astray
      BY <1>1, <2>2 DEF DialogueInv, Opens
    <3>2. Types' /\ IF anchored' THEN Anchored' ELSE Opens' \/ AtExit(script') \/ Astray'
      BY <1>1, <1>3, <2>2, <3>1, RackExpects, SessionExpects, UserExpects, AskedExpects,
         NodeExpects, ExitExpects, AstrayExpects
    <3> QED
      BY <1>1, <3>2 DEF DialogueInv
  <2> QED
    BY <2>1, <2>2
<1> QED
  BY <1>2, <1>3 DEF Serial!Dialogue

-----------------------------------------------------------------------------
(* What a script has still to do, probe by probe.                          *)
Rest(setup, b, R) ==
  /\ R \in [0..Len(b) -> Seq(RestOps)]
  /\ R[Len(b)] = Serial!Closing(setup)
  /\ \A k \in 1..Len(b) : R[k - 1] = Serial!Probe(setup, b, k) \o R[k]

\* There is such a list, built from the end.
LEMMA RestIs ==
  ASSUME NEW setup, NEW b \in Seq(Wires), Len(b) # 0
  PROVE  \E R : Rest(setup, b, R)
<1> DEFINE n == Len(b)
           V == Seq(RestOps)
           a == Serial!Closing(setup)
           P(k) == Serial!Probe(setup, b, k)
           h == [p \in V \X (2..n + 1) |-> P(n + 2 - p[2]) \o p[1]]
<1>1. n \in Nat \ {0}
  OBVIOUS
<1>2. \A k \in 1..n : P(k) \in V
  BY ProbeOps DEF ForProbe
<1>3. a \in V
  <2>1. CloseOps \subseteq RestOps
    BY DEF RestOps
  <2> QED
    BY <2>1, ScriptCloses, SeqMonotonic
<1>4. \A v, w \in V : v \o w \in V
  BY ConcatProperties
<1> HIDE DEF V, a, P, n
<1>5. h \in [V \X (2..n + 1) -> V]
  <2>1. ASSUME NEW p \in V \X (2..n + 1) PROVE P(n + 2 - p[2]) \o p[1] \in V
    <3>1. p[1] \in V /\ p[2] \in 2..n + 1
      OBVIOUS
    <3>2. n + 2 - p[2] \in 1..n
      BY <1>1, <3>1
    <3> QED
      BY <1>2, <1>4, <3>1, <3>2
  <2> QED
    BY <2>1
<1>6. PICK f \in [1..n + 1 -> V] : f[1] = a /\ \A i \in 2..n + 1 : f[i] = h[<<f[i - 1], i>>]
  <2>1. n + 1 \in Nat \ {0}
    BY <1>1
  <2> HIDE DEF h
  <2>2. Along(n + 1, V, a, h)
    BY <1>3, <1>5, <2>1, Recursion
  <2> QED
    BY <2>2 DEF Along
<1>7. ASSUME NEW i \in 2..n + 1 PROVE f[i] = P(n + 2 - i) \o f[i - 1]
  <2>1. f[i - 1] \in V
    BY <1>1
  <2>2. <<f[i - 1], i>> \in V \X (2..n + 1)
    BY <2>1
  <2>3. h[<<f[i - 1], i>>] = P(n + 2 - i) \o f[i - 1]
    BY <2>2
  <2> HIDE DEF h
  <2> QED
    BY <1>6, <2>3
<1> HIDE DEF h
<1> DEFINE R == [k \in 0..n |-> f[n + 1 - k]]
<1>8. R \in [0..n -> V]
  BY <1>1
<1>9. R[n] = a
  BY <1>1, <1>6
<1>10. ASSUME NEW k \in 1..n PROVE R[k - 1] = P(k) \o R[k]
  <2>1. /\ k - 1 \in 0..n /\ k \in 0..n /\ n + 1 - (k - 1) \in 2..n + 1
        /\ n + 2 - (n + 1 - (k - 1)) = k /\ (n + 1 - (k - 1)) - 1 = n + 1 - k
    BY <1>1
  <2>2. R[k - 1] = f[n + 1 - (k - 1)] /\ R[k] = f[n + 1 - k]
    BY <2>1
  <2> HIDE DEF R
  <2> QED
    BY <1>7, <2>1, <2>2
<1> HIDE DEF R
<1>11. Rest(setup, b, R)
  BY <1>8, <1>9, <1>10 DEF Rest, n, V, a, P
<1> QED
  BY <1>11

\* The first of them is all that a script has behind its opening.
LEMMA BodyIs ==
  ASSUME NEW setup, NEW b \in Seq(Wires), Len(b) # 0, NEW R, Rest(setup, b, R)
  PROVE  R[0] = Body(setup, b)
<1> DEFINE n == Len(b)
           V == Seq(RestOps)
           q == [i \in DOMAIN b |-> Serial!Probe(setup, b, i)]
<1>1. n \in Nat \ {0} /\ DOMAIN b = 1..n
  OBVIOUS
<1>2. \A i \in 1..n : q[i] = Serial!Probe(setup, b, i) /\ q[i] \in V
  BY <1>1, ProbeOps DEF ForProbe
<1>3. q \in Seq(V) /\ Len(q) = n
  <2>1. q = [i \in 1..n |-> q[i]] /\ q \in [1..n -> V]
    BY <1>1, <1>2
  <2> HIDE DEF q, V
  <2> QED
    BY <1>1, <2>1
<1> HIDE DEF q
<1>4. /\ R \in [0..n -> V] /\ R[n] = Serial!Closing(setup)
      /\ \A k \in 1..n : R[k - 1] = q[k] \o R[k]
  BY <1>2 DEF Rest
<1> HIDE DEF n
<1>5. PICK f \in [1..n -> V] : /\ f[1] = q[1] /\ Serial!FlattenSeq(q) = f[n]
                               /\ \A i \in 2..n : f[i] = f[i - 1] \o q[i]
  <2>1. Len(q) # 0
    BY <1>1, <1>3
  <2>2. OneByOne(q, Len(q), V, Serial!FlattenSeq(q))
    BY <1>3, <2>1, Flattened
  <2> QED
    BY <1>3, <2>2 DEF OneByOne
<1>a. \A u, v, w \in V : (u \o v) \o w = u \o (v \o w)
  BY ConcatAssociative
<1> HIDE DEF V
<1> DEFINE I == {k \in Nat : \A m \in 1..n : m = k + 1 => f[m] \o R[m] = R[0]}
<1>6. 0 \in I
  <2>1. 1 \in 1..n /\ 1 - 1 = 0
    BY <1>1
  <2> DEFINE j == 1
  <2>2. R[j - 1] = q[j] \o R[j]
    <3> HIDE DEF j
    <3> QED
      BY <1>4, <2>1 DEF j
  <2>3. f[1] \o R[1] = R[0]
    BY <1>5, <2>1, <2>2
  <2>4. ASSUME NEW m \in 1..n, m = 0 + 1 PROVE f[m] \o R[m] = R[0]
    <3>1. m = 1
      BY <2>4
    <3> QED
      BY <2>3, <3>1
  <2> QED
    BY <2>4
<1>7. ASSUME NEW k \in I PROVE k + 1 \in I
  <2> SUFFICES ASSUME NEW m \in 1..n, m = k + 2 PROVE f[m] \o R[m] = R[0]
    OBVIOUS
  <2> DEFINE l == k + 1
  <2>1. /\ l \in 1..n /\ m \in 2..n /\ m - 1 = l /\ l \in 0..n /\ m \in 0..n
    BY <1>1
  <2>2. f[l] \o R[l] = R[0]
    BY <2>1
  <2> HIDE DEF l, I
  <2>3. f[m] = f[l] \o q[m] /\ R[l] = q[m] \o R[m]
    BY <1>4, <1>5, <2>1
  <2>4. f[l] \in V /\ q[m] \in V /\ R[m] \in V
    BY <1>2, <1>4, <2>1
  <2>5. (f[l] \o q[m]) \o R[m] = f[l] \o (q[m] \o R[m])
    BY <1>a, <2>4
  <2> QED
    BY <2>2, <2>3, <2>5
<1>8. I = Nat
  <2>1. I \in SUBSET Nat
    OBVIOUS
  <2> HIDE DEF I
  <2>2. \A k \in I : k + 1 \in I
    BY <1>7
  <2> QED
    BY <1>6, <2>1, <2>2, NatClosed
<1>9. f[n] \o R[n] = R[0]
  <2>1. n - 1 \in Nat /\ n \in 1..n /\ n = (n - 1) + 1
    BY <1>1
  <2>2. n - 1 \in I
    <3> HIDE DEF I
    <3> QED
      BY <1>8, <2>1
  <2>3. \A m \in 1..n : m = (n - 1) + 1 => f[m] \o R[m] = R[0]
    BY <2>2
  <2> QED
    BY <2>1, <2>3
<1> QED
  BY <1>4, <1>5, <1>9 DEF Body, q

(* Where the script is with a probe w, if it goes on with r.               *)
AtPrompt(s, r) == Begins(s, Serial!Await(NodePrompt)) /\ Tail(s) = r
AtPassword(s, r) == Begins(s, SendSudoPassword) /\ AtPrompt(Tail(s), r)
AtSudo(s, r) == Begins(s, AwaitSudo) /\ AtPrompt(Tail(s), r)
AtEcho(s, r, w) ==
  Begins(s, Serial!Await(Serial!Echo(w))) /\ (AtSudo(Tail(s), r) \/ AtPrompt(Tail(s), r))
AtProbe(s, r, w) == Begins(s, Serial!Send(w)) /\ AtEcho(Tail(s), r, w)

\* Three operations before others, one after the other.
OneOfThree(a, b, d, r) == <<a, b, d>> \o r = <<a>> \o (<<b>> \o (<<d>> \o r))

\* And so they are of any operations.
LEMMA ThreeJoin ==
  ASSUME NEW S, NEW a \in S, NEW b \in S, NEW d \in S, NEW r \in Seq(S)
  PROVE  OneOfThree(a, b, d, r)
<1>1. /\ <<a, b>> = <<a>> \o <<b>> /\ <<a, b>> \in Seq(S)
      /\ <<a>> \in Seq(S) /\ <<b>> \in Seq(S) /\ <<d>> \in Seq(S)
  BY PairJoins
<1>2. <<a, b>> \o <<d>> = <<a, b, d>>
  <2>1. <<a, b>> \o <<>> \o <<d>> = <<a, b, d>>
    BY Joins
  <2>2. <<a, b>> \o <<>> = <<a, b>>
    BY <1>1, ConcatEmptySeq
  <2> QED
    BY <2>1, <2>2
<1>3. \A u, v, w \in Seq(S) : (u \o v) \o w = u \o (v \o w)
  BY ConcatAssociative
<1>4. (<<a, b>> \o <<d>>) \o r = <<a, b>> \o (<<d>> \o r)
  BY <1>1, <1>3
<1>5. <<d>> \o r \in Seq(S)
  BY <1>1, ConcatProperties
<1>6. (<<a>> \o <<b>>) \o (<<d>> \o r) = <<a>> \o (<<b>> \o (<<d>> \o r))
  BY <1>1, <1>3, <1>5
<1> QED
  BY <1>1, <1>2, <1>4, <1>6 DEF OneOfThree

\* What a probe puts before the rest.
LEMMA ProbeLeads ==
  ASSUME NEW setup, NEW b \in Seq(Wires), NEW k \in 1..Len(b), NEW r \in Seq(AnyOps)
  PROVE  AtProbe(Serial!Probe(setup, b, k) \o r, r, b[k])
<1> DEFINE w == b[k]
           x == Serial!Send(w)
           y == Serial!Await(Serial!Echo(w))
           z == Serial!Await(NodePrompt)
           p == Serial!Probe(setup, b, k)
<1>1. x \in AnyOps /\ y \in AnyOps /\ z \in AnyOps /\ AwaitSudo \in AnyOps
  BY ProbeWritten DEF AnyOps, RestOps
<1>2. p = <<x, y, AwaitSudo, z>> \/ p = <<x, y, z>>
  BY ProbeWritten DEF ProbeIs
<1> DEFINE r1 == <<z>> \o r
           r2 == <<AwaitSudo>> \o r1
<1> HIDE DEF x, y, z, p, w
<1>3. r1 \in Seq(AnyOps) /\ r1 # <<>> /\ Head(r1) = z /\ Tail(r1) = r
  BY <1>1, Prepended
<1>4. AtPrompt(r1, r)
  BY <1>3 DEF AtPrompt, Begins, z
<1> HIDE DEF r1
<1>5. r2 \in Seq(AnyOps) /\ r2 # <<>> /\ Head(r2) = AwaitSudo /\ Tail(r2) = r1
  BY <1>1, <1>3, Prepended
<1>6. AtSudo(r2, r)
  BY <1>4, <1>5 DEF AtSudo, Begins
<1> HIDE DEF r2
<1>7. ASSUME NEW q \in Seq(AnyOps), AtSudo(q, r) \/ AtPrompt(q, r)
      PROVE  AtProbe(<<x>> \o (<<y>> \o q), r, w)
  <2> DEFINE q1 == <<y>> \o q
             q2 == <<x>> \o q1
  <2>1. q1 \in Seq(AnyOps) /\ q1 # <<>> /\ Head(q1) = y /\ Tail(q1) = q
    BY <1>1, Prepended
  <2>2. AtEcho(q1, r, w)
    BY <1>7, <2>1 DEF AtEcho, Begins, y
  <2> HIDE DEF q1
  <2>3. q2 \in Seq(AnyOps) /\ q2 # <<>> /\ Head(q2) = x /\ Tail(q2) = q1
    BY <1>1, <2>1, Prepended
  <2>4. AtProbe(q2, r, w)
    BY <2>2, <2>3 DEF AtProbe, Begins, x
  <2> QED
    BY <2>4 DEF q1
<1>8. CASE p = <<x, y, AwaitSudo, z>>
  <2>1. OneAfterOther(x, y, AwaitSudo, z, r)
    BY <1>1, FourJoin
  <2>2. p \o r = <<x>> \o (<<y>> \o r2)
    BY <1>8, <2>1 DEF OneAfterOther, r1, r2
  <2> QED
    BY <1>5, <1>6, <1>7, <2>2 DEF p, w
<1>9. CASE p = <<x, y, z>>
  <2>1. OneOfThree(x, y, z, r)
    BY <1>1, ThreeJoin
  <2>2. p \o r = <<x>> \o (<<y>> \o r1)
    BY <1>9, <2>1 DEF OneOfThree, r1
  <2> QED
    BY <1>3, <1>4, <1>7, <2>2 DEF p, w
<1> QED
  BY <1>2, <1>8, <1>9

(* A script that has still to type something.                              *)
HasSend(s) == \E i \in 1..Len(s) : s[i].op = "send"

\* What is left of it when something else is done, and what goes before it.
LEMMA SendLeft ==
  ASSUME NEW s \in Seq(AnyOps), s # <<>>
  PROVE  /\ HasSend(Tail(s)) => HasSend(s)
         /\ Head(s).op = "send" => HasSend(s)
         /\ Head(s).op # "send" /\ HasSend(s) => HasSend(Tail(s))
<1>1. /\ Tail(s) \in Seq(AnyOps) /\ Head(s) \in AnyOps
      /\ Len(s) \in Nat \ {0} /\ Len(Tail(s)) = Len(s) - 1 /\ Head(s) = s[1]
      /\ \A i \in 1..Len(Tail(s)) : i + 1 \in 1..Len(s) /\ Tail(s)[i] = s[i + 1]
      /\ \A i \in 1..Len(s) : i = 1 \/ (i - 1 \in 1..Len(Tail(s)) /\ Tail(s)[i - 1] = s[i])
  BY LinesLeft
<1>2. 1 \in 1..Len(s)
  BY <1>1
<1> QED
  BY <1>1, <1>2 DEF HasSend

\* Each of the lists types something first.
LEMMA RestSends ==
  ASSUME NEW setup, NEW b \in Seq(Wires), NEW R, Rest(setup, b, R), NEW k \in 0..Len(b)
  PROVE  /\ R[k] \in Seq(RestOps) /\ R[k] \in Seq(AnyOps) /\ HasSend(R[k])
         /\ R[k] # <<>>
         /\ k < Len(b) => k + 1 \in 0..Len(b) /\ AtProbe(R[k], R[k + 1], b[k + 1])
<1>1. \A j \in 0..Len(b) : R[j] \in Seq(RestOps) /\ R[j] \in Seq(AnyOps)
  <2>1. RestOps \subseteq AnyOps
    BY DEF AnyOps
  <2> QED
    BY <2>1, SeqMonotonic DEF Rest
<1>2. CASE k < Len(b)
  <2>1. k + 1 \in 1..Len(b) /\ k + 1 \in 0..Len(b) /\ (k + 1) - 1 = k
    BY <1>2
  <2>2. R[k] = Serial!Probe(setup, b, k + 1) \o R[k + 1]
    BY <2>1 DEF Rest
  <2>3. AtProbe(R[k], R[k + 1], b[k + 1])
    BY <1>1, <2>1, <2>2, ProbeLeads
  <2>4. R[k] # <<>> /\ Head(R[k]).op = "send"
    BY <2>3, OpsApart DEF AtProbe, Begins
  <2> QED
    BY <1>1, <2>1, <2>3, <2>4, SendLeft
<1>3. CASE k = Len(b)
  <2> DEFINE leave == Serial!Send(Serial!Leave)
             end == Serial!Await(<<"end", "of file">>)
             rack == Serial!Await(Serial!Prompt("rack"))
  <2>1. R[k] = IF setup.direct THEN <<leave, leave, end>> ELSE <<leave, rack>>
    BY <1>3 DEF Rest, Serial!Closing
  <2>2. leave.op = "send"
    BY OpsApart
  <2> HIDE DEF leave, end, rack
  <2>3. R[k] # <<>> /\ Head(R[k]) = leave
    BY <2>1
  <2> QED
    BY <1>1, <1>3, <2>2, <2>3, SendLeft
<1> QED
  BY <1>2, <1>3

-----------------------------------------------------------------------------
(* What a transcript tells: the echo of each probe, and what it printed.   *)
Mark(t) == t[1] = "out" \/ \E w \in Wires : t = Serial!Echo(w)
Plain(q) == \A p \in 1..Len(q) : ~Mark(q[p])

\* Places of the first m echoes of b and of the first k outputs, each output
\* between its echo and the next, and nothing else of a probe.
Places(q, b, m, k, e, o) ==
  /\ e \in [1..m -> 1..Len(q)] /\ o \in [1..k -> 1..Len(q)]
  /\ \A i \in 1..m : q[e[i]] = Serial!Echo(b[i])
  /\ \A i \in 1..k : q[o[i]] = Serial!Out(b[i]) /\ e[i] < o[i]
  /\ \A i \in 1..k, j \in 1..m : i < j => o[i] < e[j]
  /\ \A p \in 1..Len(q) :
       Mark(q[p]) => (\E i \in 1..m : p = e[i]) \/ (\E i \in 1..k : p = o[i])
Tells(q, b, m, k) == \E e, o : Places(q, b, m, k, e, o)

\* A sequence and one member more.
LEMMA OneLonger ==
  ASSUME NEW S, NEW q \in Seq(S), NEW t \in S
  PROVE  /\ Append(q, t) \in Seq(S) /\ Len(Append(q, t)) = Len(q) + 1 /\ Len(q) \in Nat
         /\ Append(q, t)[Len(q) + 1] = t
         /\ \A i \in 1..Len(q) : i \in 1..Len(q) + 1 /\ Append(q, t)[i] = q[i]
         /\ \A i \in 1..Len(q) + 1 : i \in 1..Len(q) \/ i = Len(q) + 1
BY AppendProperties

\* Nothing is told before a probe was typed.
LEMMA TellsNothing ==
  ASSUME NEW S, NEW q \in Seq(S), Plain(q), NEW b PROVE Tells(q, b, 0, 0)
<1> DEFINE e == [i \in 1..0 |-> 0]
<1>1. 1..0 = {}
  OBVIOUS
<1>2. e \in [1..0 -> 1..Len(q)]
  BY <1>1
<1> HIDE DEF e
<1>3. Places(q, b, 0, 0, e, e)
  BY <1>1, <1>2 DEF Places, Plain
<1> QED
  BY <1>3 DEF Tells

\* Nor does it tell more by what is no echo of a probe and no output.
LEMMA TellsMore ==
  ASSUME NEW S, NEW q \in Seq(S), NEW t \in S, ~Mark(t), NEW b,
         NEW m \in Nat, NEW k \in Nat, k <= m, Tells(q, b, m, k)
  PROVE  Tells(Append(q, t), b, m, k)
<1> DEFINE r == Append(q, t)
           n == Len(q)
<1>1. PICK e, o : Places(q, b, m, k, e, o)
  BY DEF Tells
<1>2. /\ r \in Seq(S) /\ Len(r) = n + 1 /\ n \in Nat /\ r[n + 1] = t
      /\ \A i \in 1..n : i \in 1..n + 1 /\ r[i] = q[i]
      /\ \A i \in 1..n + 1 : i \in 1..n \/ i = n + 1
  BY OneLonger
<1> HIDE DEF r
<1>3. /\ e \in [1..m -> 1..n] /\ o \in [1..k -> 1..n]
      /\ \A i \in 1..m : e[i] \in 1..n /\ q[e[i]] = Serial!Echo(b[i])
      /\ \A i \in 1..k : o[i] \in 1..n /\ q[o[i]] = Serial!Out(b[i]) /\ e[i] < o[i]
      /\ \A i \in 1..k, j \in 1..m : i < j => o[i] < e[j]
      /\ \A p \in 1..n :
           Mark(q[p]) => (\E i \in 1..m : p = e[i]) \/ (\E i \in 1..k : p = o[i])
  BY <1>1 DEF Places
<1> HIDE DEF n
<1>4. e \in [1..m -> 1..n + 1] /\ o \in [1..k -> 1..n + 1]
  BY <1>2, <1>3
<1>5. ASSUME NEW p \in 1..n + 1, Mark(r[p])
      PROVE (\E i \in 1..m : p = e[i]) \/ (\E i \in 1..k : p = o[i])
  <2>1. p \in 1..n
    BY <1>2, <1>5
  <2> QED
    BY <1>2, <1>3, <1>5, <2>1
<1>6. Places(r, b, m, k, e, o)
  BY <1>2, <1>3, <1>4, <1>5 DEF Places
<1> QED
  BY <1>6 DEF Tells, r

\* The next probe is echoed.
LEMMA TellsEcho ==
  ASSUME NEW S, NEW q \in Seq(S), NEW b, NEW k \in Nat, Tells(q, b, k, k),
         NEW t \in S, t = Serial!Echo(b[k + 1])
  PROVE  Tells(Append(q, t), b, k + 1, k)
<1> DEFINE r == Append(q, t)
           n == Len(q)
<1>1. PICK e, o : Places(q, b, k, k, e, o)
  BY DEF Tells
<1> DEFINE f == [i \in 1..k + 1 |-> IF i = k + 1 THEN n + 1 ELSE e[i]]
<1>2. /\ r \in Seq(S) /\ Len(r) = n + 1 /\ n \in Nat /\ r[n + 1] = t
      /\ \A i \in 1..n : i \in 1..n + 1 /\ r[i] = q[i]
      /\ \A i \in 1..n + 1 : i \in 1..n \/ i = n + 1
  BY OneLonger
<1> HIDE DEF r
<1>3. /\ e \in [1..k -> 1..n] /\ o \in [1..k -> 1..n]
      /\ \A i \in 1..k : e[i] \in 1..n /\ q[e[i]] = Serial!Echo(b[i])
      /\ \A i \in 1..k : o[i] \in 1..n /\ q[o[i]] = Serial!Out(b[i]) /\ e[i] < o[i]
      /\ \A i, j \in 1..k : i < j => o[i] < e[j]
      /\ \A p \in 1..n :
           Mark(q[p]) => (\E i \in 1..k : p = e[i]) \/ (\E i \in 1..k : p = o[i])
  BY <1>1 DEF Places
<1> HIDE DEF n
<1>4. /\ f \in [1..k + 1 -> 1..n + 1] /\ o \in [1..k -> 1..n + 1]
      /\ f[k + 1] = n + 1 /\ \A i \in 1..k : i \in 1..k + 1 /\ f[i] = e[i]
      /\ \A i \in 1..k + 1 : i \in 1..k \/ i = k + 1
  <2>1. \A i \in 1..k + 1 : i \in 1..k \/ i = k + 1
    OBVIOUS
  <2>2. \A i \in 1..k : i \in 1..k + 1 /\ i # k + 1
    OBVIOUS
  <2>3. k + 1 \in 1..k + 1 /\ n + 1 \in 1..n + 1
    BY <1>2
  <2> QED
    BY <1>2, <1>3, <2>1, <2>2, <2>3
<1> HIDE DEF f
<1>5. \A i \in 1..k + 1 : r[f[i]] = Serial!Echo(b[i])
  BY <1>2, <1>3, <1>4
<1>6. \A i \in 1..k : r[o[i]] = Serial!Out(b[i]) /\ f[i] < o[i]
  <2> SUFFICES ASSUME NEW i \in 1..k PROVE r[o[i]] = Serial!Out(b[i]) /\ f[i] < o[i]
    OBVIOUS
  <2>1. o[i] \in 1..n /\ q[o[i]] = Serial!Out(b[i]) /\ e[i] < o[i] /\ f[i] = e[i]
    BY <1>3, <1>4
  <2>2. r[o[i]] = q[o[i]]
    BY <1>2, <2>1
  <2> QED
    BY <2>1, <2>2
<1>7. ASSUME NEW i \in 1..k, NEW j \in 1..k + 1, i < j PROVE o[i] < f[j]
  <2>1. o[i] \in 1..n
    BY <1>3
  <2>2. CASE j = k + 1
    BY <1>2, <1>4, <2>1, <2>2
  <2>3. CASE j \in 1..k
    <3>1. o[i] < e[j] /\ f[j] = e[j]
      BY <1>3, <1>4, <1>7, <2>3
    <3> QED
      BY <3>1
  <2> QED
    BY <1>4, <2>2, <2>3
<1>8. ASSUME NEW p \in 1..n + 1, Mark(r[p])
      PROVE (\E i \in 1..k + 1 : p = f[i]) \/ (\E i \in 1..k : p = o[i])
  <2>1. CASE p = n + 1
    <3>1. k + 1 \in 1..k + 1
      OBVIOUS
    <3> QED
      BY <1>4, <2>1, <3>1
  <2>2. CASE p \in 1..n
    <3>1. Mark(q[p])
      BY <1>2, <1>8, <2>2
    <3>2. CASE \E i \in 1..k : p = e[i]
      BY <1>4, <3>2
    <3>3. CASE \E i \in 1..k : p = o[i]
      BY <3>3
    <3> QED
      BY <1>3, <2>2, <3>1, <3>2, <3>3
  <2> QED
    BY <1>2, <2>1, <2>2
<1>9. Places(r, b, k + 1, k, f, o)
  BY <1>2, <1>4, <1>5, <1>6, <1>7, <1>8 DEF Places
<1> QED
  BY <1>9 DEF Tells, r

\* It prints what it has to print.
LEMMA TellsOut ==
  ASSUME NEW S, NEW q \in Seq(S), NEW b, NEW k \in Nat, Tells(q, b, k + 1, k),
         NEW t \in S, t = Serial!Out(b[k + 1])
  PROVE  Tells(Append(q, t), b, k + 1, k + 1)
<1> DEFINE r == Append(q, t)
           n == Len(q)
<1>1. PICK e, o : Places(q, b, k + 1, k, e, o)
  BY DEF Tells
<1> DEFINE f == [i \in 1..k + 1 |-> IF i = k + 1 THEN n + 1 ELSE o[i]]
<1>2. /\ r \in Seq(S) /\ Len(r) = n + 1 /\ n \in Nat /\ r[n + 1] = t
      /\ \A i \in 1..n : i \in 1..n + 1 /\ r[i] = q[i]
      /\ \A i \in 1..n + 1 : i \in 1..n \/ i = n + 1
  BY OneLonger
<1> HIDE DEF r
<1>3. /\ e \in [1..k + 1 -> 1..n] /\ o \in [1..k -> 1..n]
      /\ \A i \in 1..k + 1 : e[i] \in 1..n /\ q[e[i]] = Serial!Echo(b[i])
      /\ \A i \in 1..k : o[i] \in 1..n /\ q[o[i]] = Serial!Out(b[i]) /\ e[i] < o[i]
      /\ \A i \in 1..k, j \in 1..k + 1 : i < j => o[i] < e[j]
      /\ \A p \in 1..n :
           Mark(q[p]) => (\E i \in 1..k + 1 : p = e[i]) \/ (\E i \in 1..k : p = o[i])
  BY <1>1 DEF Places
<1> HIDE DEF n
<1>4. /\ e \in [1..k + 1 -> 1..n + 1] /\ f \in [1..k + 1 -> 1..n + 1]
      /\ f[k + 1] = n + 1 /\ \A i \in 1..k : i \in 1..k + 1 /\ f[i] = o[i]
      /\ \A i \in 1..k + 1 : i \in 1..k \/ i = k + 1
  <2>1. \A i \in 1..k + 1 : i \in 1..k \/ i = k + 1
    OBVIOUS
  <2>2. \A i \in 1..k : i \in 1..k + 1 /\ i # k + 1
    OBVIOUS
  <2>3. k + 1 \in 1..k + 1 /\ n + 1 \in 1..n + 1
    BY <1>2
  <2> QED
    BY <1>2, <1>3, <2>1, <2>2, <2>3
<1> HIDE DEF f
<1>5. \A i \in 1..k + 1 : r[e[i]] = Serial!Echo(b[i])
  BY <1>2, <1>3
<1>6. \A i \in 1..k + 1 : r[f[i]] = Serial!Out(b[i]) /\ e[i] < f[i]
  <2> SUFFICES ASSUME NEW i \in 1..k + 1 PROVE r[f[i]] = Serial!Out(b[i]) /\ e[i] < f[i]
    OBVIOUS
  <2>1. CASE i = k + 1
    BY <1>2, <1>3, <1>4, <2>1
  <2>2. CASE i \in 1..k
    BY <1>2, <1>3, <1>4, <2>2
  <2> QED
    BY <1>4, <2>1, <2>2
<1>7. ASSUME NEW i \in 1..k + 1, NEW j \in 1..k + 1, i < j PROVE f[i] < e[j]
  <2>1. i \in 1..k
    BY <1>7
  <2> QED
    BY <1>3, <1>4, <1>7, <2>1
<1>8. ASSUME NEW p \in 1..n + 1, Mark(r[p])
      PROVE (\E i \in 1..k + 1 : p = e[i]) \/ (\E i \in 1..k + 1 : p = f[i])
  <2>1. CASE p = n + 1
    <3>1. k + 1 \in 1..k + 1
      OBVIOUS
    <3> QED
      BY <1>4, <2>1, <3>1
  <2>2. CASE p \in 1..n
    <3>1. Mark(q[p])
      BY <1>2, <1>8, <2>2
    <3>2. CASE \E i \in 1..k + 1 : p = e[i]
      BY <3>2
    <3>3. CASE \E i \in 1..k : p = o[i]
      BY <1>4, <3>3
    <3> QED
      BY <1>3, <2>2, <3>1, <3>2, <3>3
  <2> QED
    BY <1>2, <2>1, <2>2
<1>9. Places(r, b, k + 1, k + 1, e, f)
  BY <1>2, <1>4, <1>5, <1>6, <1>7, <1>8 DEF Places
<1> QED
  BY <1>9 DEF Tells, r

\* What is printed is told behind the rest.
LEMMA Uttered ==
  ASSUME NEW S, NEW q \in Seq(S), NEW x \in S, NEW y \in S
  PROVE  /\ q \o <<x>> = Append(q, x) /\ Append(q, x) \in Seq(S)
         /\ q \o <<x, y>> = Append(Append(q, x), y) /\ Append(Append(q, x), y) \in Seq(S)
<1>1. \A r \in Seq(S), z \in S : Append(r, z) = r \o <<z>> /\ Append(r, z) \in Seq(S)
  BY AppendIsConcat, AppendProperties
<1>2. /\ <<x, y>> = <<x>> \o <<y>> /\ <<x>> \in Seq(S) /\ <<y>> \in Seq(S)
  BY PairJoins
<1>3. (q \o <<x>>) \o <<y>> = q \o (<<x>> \o <<y>>)
  BY <1>2, ConcatAssociative
<1> QED
  BY <1>1, <1>2, <1>3

\* What is printed is neither the echo of a probe nor an output.
Quiet ==
  \/ transcript' = transcript
  \/ \E t \in Printable : ~Mark(t) /\ transcript' = Append(transcript, t)
  \/ \E t, u \in Printable :
       ~Mark(t) /\ ~Mark(u) /\ transcript' = Append(Append(transcript, t), u)

\* The tokens that are neither.
LEMMA Unmarked ==
  /\ \A x : ~Mark(Serial!Prompt(x))
  /\ ~Mark(Serial!Status)
  /\ \A l : l \notin Wires => ~Mark(Serial!Echo(l))
<1>1. \A l, w : Serial!Echo(l) = Serial!Echo(w) => l = w
  <2>1. \A l : Serial!Echo(l)[2] = l
    BY DEF Serial!Echo
  <2> QED
    BY <2>1
<1>2. \A l : Serial!Echo(l)[1] = "echo"
  BY DEF Serial!Echo
<1>3. \A x : Serial!Prompt(x)[1] = "prompt"
  BY DEF Serial!Prompt
<1>4. Serial!Status[1] = "status"
  BY DEF Serial!Status
<1> QED
  BY <1>1, <1>2, <1>3, <1>4 DEF Mark

\* A plain transcript stays plain.
LEMMA PlainMore ==
  ASSUME NEW S, NEW q \in Seq(S), Plain(q), NEW t \in S, ~Mark(t)
  PROVE  Plain(Append(q, t))
<1>1. /\ Len(Append(q, t)) = Len(q) + 1 /\ Append(q, t)[Len(q) + 1] = t
      /\ \A i \in 1..Len(q) : i \in 1..Len(q) + 1 /\ Append(q, t)[i] = q[i]
      /\ \A i \in 1..Len(q) + 1 : i \in 1..Len(q) \/ i = Len(q) + 1
  BY OneLonger
<1> QED
  BY <1>1 DEF Plain

\* What is printed so changes nothing of what is told.
LEMMA QuietKeeps ==
  ASSUME transcript \in Seq(Printable), Quiet
  PROVE  /\ transcript' \in Seq(Printable)
         /\ Plain(transcript) => Plain(transcript')
         /\ \A b : \A m, k \in Nat :
              k <= m /\ Tells(transcript, b, m, k) => Tells(transcript', b, m, k)
<1>1. ASSUME NEW q \in Seq(Printable), NEW t \in Printable, ~Mark(t)
      PROVE  /\ Append(q, t) \in Seq(Printable)
             /\ Plain(q) => Plain(Append(q, t))
             /\ \A b : \A m, k \in Nat : k <= m /\ Tells(q, b, m, k) => Tells(Append(q, t), b, m, k)
  BY <1>1, PlainMore, TellsMore, AppendProperties
<1>2. CASE transcript' = transcript
  BY <1>2
<1>3. CASE \E t \in Printable : ~Mark(t) /\ transcript' = Append(transcript, t)
  BY <1>1, <1>3
<1>4. CASE \E t, u \in Printable :
             ~Mark(t) /\ ~Mark(u) /\ transcript' = Append(Append(transcript, t), u)
  <2>1. PICK t \in Printable, u \in Printable :
               ~Mark(t) /\ ~Mark(u) /\ transcript' = Append(Append(transcript, t), u)
    BY <1>4
  <2> DEFINE q == Append(transcript, t)
  <2>2. /\ q \in Seq(Printable)
        /\ Plain(transcript) => Plain(q)
        /\ \A b : \A m, k \in Nat : k <= m /\ Tells(transcript, b, m, k) => Tells(q, b, m, k)
    BY <1>1, <2>1
  <2>3. transcript' = Append(q, u)
    BY <2>1
  <2> HIDE DEF q
  <2>4. /\ Append(q, u) \in Seq(Printable)
        /\ Plain(q) => Plain(Append(q, u))
        /\ \A b : \A m, k \in Nat : k <= m /\ Tells(q, b, m, k) => Tells(Append(q, u), b, m, k)
    BY <1>1, <2>1, <2>2
  <2> QED
    BY <2>2, <2>3, <2>4
<1> QED
  BY <1>2, <1>3, <1>4 DEF Quiet

\* What is said of one or two such tokens.
LEMMA SaidQuietly ==
  ASSUME transcript \in Seq(Printable)
  PROVE  /\ Serial!Unprinted => Quiet
         /\ \A t \in Printable : ~Mark(t) /\ Serial!Say(<<t>>) => Quiet
         /\ \A t, u \in Printable : ~Mark(t) /\ ~Mark(u) /\ Serial!Say(<<t, u>>) => Quiet
<1>1. ASSUME NEW t \in Printable, NEW u \in Printable
      PROVE  /\ Serial!Say(<<t>>) => transcript' = Append(transcript, t)
             /\ Serial!Say(<<t, u>>) => transcript' = Append(Append(transcript, t), u)
  BY <1>1, Uttered DEF Serial!Say
<1> QED
  BY <1>1 DEF Quiet, Serial!Unprinted

\* Who does not read a probe, nor runs one, prints none of it.
LEMMA Quietly ==
  ASSUME Types, transcript \in Seq(Printable), Serial!Answering, reader # "busy",
         reader # "sudo" /\ typed # <<>> => Head(typed) \notin Wires
  PROVE  Quiet
<1>1. typed # <<>> => Head(typed) \in Serial!Lines
  BY LinesLeft DEF Types
<1>2. /\ \A l \in Serial!Lines : Serial!Echo(l) \in Printable
      /\ \A w \in {"rack", "node", "login", "password"} : Serial!Prompt(w) \in Printable
      /\ Serial!Status \in Printable
  BY Printables
<1>3. CASE Serial!RackReads
  BY <1>1, <1>2, <1>3, SaidQuietly, Unmarked DEF Serial!RackReads, Serial!Reads
<1>4. CASE Serial!SessionFails
  BY <1>2, <1>4, SaidQuietly, Unmarked DEF Serial!SessionFails
<1>5. CASE Serial!SessionStarts
  <2>1. PICK who \in {"node", "login"} : Serial!Say(<<Serial!Prompt(who)>>)
    BY <1>5 DEF Serial!SessionStarts
  <2> QED
    BY <1>2, <2>1, SaidQuietly, Unmarked
<1>6. CASE Serial!LoginReads
  BY <1>1, <1>2, <1>6, SaidQuietly, Unmarked DEF Serial!LoginReads, Serial!Reads
<1>7. CASE Serial!PasswordReads
  <2>1. PICK who \in {"node", "login"} : Serial!Say(<<Serial!Prompt(who)>>)
    BY <1>7 DEF Serial!PasswordReads
  <2> QED
    BY <1>2, <2>1, SaidQuietly, Unmarked
<1>8. CASE Serial!ShellReads
  <2>1. reader = "node" /\ typed # <<>>
    BY <1>8 DEF Serial!ShellReads, Serial!Reads
  <2>2. Head(typed) \notin Wires /\ Head(typed) \in Serial!Lines
    BY <1>1, <2>1
  <2>3. \/ Serial!Say(<<Serial!Echo(Head(typed)), Serial!Prompt("rack")>>)
        \/ Serial!Say(<<Serial!Echo(Head(typed)), Serial!Prompt("node")>>)
    BY <1>8, <2>2, WiresAreNoWords DEF Serial!ShellReads
  <2> QED
    BY <1>2, <2>2, <2>3, SaidQuietly, Unmarked
<1>9. CASE Serial!SudoReads
  <2>1. \/ Serial!Unprinted
        \/ \E who \in {"node", "password"} : Serial!Say(<<Serial!Prompt(who)>>)
    BY <1>9 DEF Serial!SudoReads
  <2> QED
    BY <1>2, <2>1, SaidQuietly, Unmarked
<1>10. CASE Serial!SessionDrops
  BY <1>10 DEF Serial!SessionDrops, Quiet
<1> QED
  BY <1>3, <1>4, <1>5, <1>6, <1>7, <1>8, <1>9, <1>10 DEF Serial!Answering, Serial!ProbeEnds

-----------------------------------------------------------------------------
(* A transcript that tells everything, cut into its probes' blocks.        *)

\* One output is in a block, and it is this one.
OneOut(q, t) ==
  /\ q \in Seq(Printable)
  /\ \E p \in 1..Len(q) : q[p] = t /\ t[1] = "out" /\ \A k \in 1..Len(q) : q[k][1] = "out" => k = p

\* A place in the middle of a transcript, and of the part cut out of it.
LEMMA CutOut ==
  ASSUME NEW q \in Seq(Printable), NEW a \in 1..Len(q), NEW z \in 1..Len(q), a < z,
         NEW p \in 1..Len(q), a < p, p <= z, NEW t, q[p] = t, t[1] = "out",
         \A k \in 1..Len(q) : a < k /\ k <= z /\ q[k][1] = "out" => k = p
  PROVE  OneOut(SubSeq(q, a + 1, z), t)
<1> DEFINE S == Printable
           r == SubSeq(q, a + 1, z)
<1>1. q \in Seq(S) /\ Len(q) \in Nat /\ a + 1 \in 1..Len(q) + 1 /\ z \in a + 1 - 1..Len(q)
  OBVIOUS
<1> HIDE DEF S
<1>2. /\ r \in Seq(S) /\ Len(r) = z - a
      /\ \A i \in 1..z - a : r[i] = q[a + i]
  <2>1. /\ r \in Seq(S) /\ Len(r) = z - (a + 1) + 1
        /\ \A i \in 1..z - (a + 1) + 1 : r[i] = q[a + 1 + i - 1]
    BY <1>1, SubSeqProperties
  <2>2. z - (a + 1) + 1 = z - a
    OBVIOUS
  <2>3. ASSUME NEW i \in 1..z - a PROVE r[i] = q[a + i]
    <3>1. a + 1 + i - 1 = a + i
      OBVIOUS
    <3> HIDE DEF r
    <3> QED
      BY <2>1, <2>2, <3>1
  <2> HIDE DEF r
  <2> QED
    BY <2>1, <2>2, <2>3
<1> HIDE DEF r
<1>3. p - a \in 1..Len(r) /\ r[p - a] = t
  <2>1. p - a \in 1..z - a /\ a + (p - a) = p
    OBVIOUS
  <2> QED
    BY <1>2, <2>1
<1>4. ASSUME NEW k \in 1..Len(r), r[k][1] = "out" PROVE k = p - a
  <2>1. k \in 1..z - a /\ a + k \in 1..Len(q) /\ a < a + k /\ a + k <= z
    BY <1>2
  <2>2. a + k = p
    BY <1>2, <1>4, <2>1
  <2> QED
    BY <2>1, <2>2
<1> QED
  BY <1>2, <1>3, <1>4 DEF OneOut, r, S

\* The marks of two kinds are told apart.
LEMMA MarksApart ==
  /\ \A l : Serial!Echo(l)[1] = "echo" /\ Serial!Out(l)[1] = "out"
  /\ \A l, m : Serial!Echo(l) # Serial!Out(m)
  /\ \A l, m : Serial!Out(l) = Serial!Out(m) => l = m
<1>1. \A l : Serial!Echo(l)[1] = "echo" /\ Serial!Out(l)[1] = "out" /\ Serial!Out(l)[2] = l
  BY DEF Serial!Echo, Serial!Out
<1>2. "echo" # "out"
  OBVIOUS
<1>3. ASSUME NEW l, NEW m, Serial!Echo(l) = Serial!Out(m) PROVE FALSE
  <2>1. Serial!Echo(l)[1] = Serial!Out(m)[1]
    BY <1>3
  <2> QED
    BY <1>1, <1>2, <2>1
<1>4. ASSUME NEW l, NEW m, Serial!Out(l) = Serial!Out(m) PROVE l = m
  <2>1. Serial!Out(l)[2] = Serial!Out(m)[2]
    BY <1>4
  <2> QED
    BY <1>1, <2>1
<1> QED
  BY <1>1, <1>3, <1>4

\* The places of a transcript that tells all.
LEMMA PlacesAre ==
  ASSUME NEW q \in Seq(Printable), NEW b \in Seq(Wires), NEW e, NEW o,
         Places(q, b, Len(b), Len(b), e, o)
  PROVE  LET n == Len(b)
             m == Len(q)
         IN  /\ \A j \in 1..n : e[j] \in 1..m /\ o[j] \in 1..m /\ q[e[j]] = Serial!Echo(b[j])
                               /\ q[o[j]] = Serial!Out(b[j]) /\ e[j] < o[j]
             /\ \A j, k \in 1..n : j < k => o[j] < e[k]
             /\ \A p \in 1..m : Mark(q[p]) => (\E j \in 1..n : p = e[j]) \/ (\E j \in 1..n : p = o[j])
             /\ n \in Nat /\ m \in Nat /\ \A j \in 1..n : b[j] \in Wires
<1> DEFINE n == Len(b)
           m == Len(q)
<1>1. n \in Nat /\ m \in Nat /\ \A j \in 1..n : b[j] \in Wires
  OBVIOUS
<1>2. Places(q, b, n, n, e, o)
  OBVIOUS
<1>3. e \in [1..n -> 1..m] /\ o \in [1..n -> 1..m]
  BY <1>2 DEF Places
<1>4. /\ \A j \in 1..n : q[e[j]] = Serial!Echo(b[j])
      /\ \A j \in 1..n : q[o[j]] = Serial!Out(b[j]) /\ e[j] < o[j]
      /\ \A j, k \in 1..n : j < k => o[j] < e[k]
  BY <1>2 DEF Places
<1>5. \A p \in 1..m : Mark(q[p]) => (\E j \in 1..n : p = e[j]) \/ (\E j \in 1..n : p = o[j])
  BY <1>2 DEF Places
<1> HIDE DEF n, m
<1>6. \A j \in 1..n : e[j] \in 1..m /\ o[j] \in 1..m
  BY <1>3
<1> QED
  BY <1>1, <1>4, <1>5, <1>6 DEF n, m

\* The first echo behind the one before is the probe's own.
LEMMA EchoFound ==
  ASSUME NEW q \in Seq(Printable), NEW b \in Seq(Wires), NEW e, NEW o,
         Places(q, b, Len(b), Len(b), e, o), NEW i \in 1..Len(b), NEW from \in Nat,
         IF i = 1 THEN from = 1 ELSE from = e[i - 1] + 1
  PROVE  Serial!FirstEcho(q, b[i], from) = e[i]
<1> DEFINE n == Len(b)
           m == Len(q)
           w == b[i]
           I == {p \in from..m : \E x \in Endings[w] : q[p] = Serial!Echo(x)}
<1>1. /\ \A j \in 1..n : e[j] \in 1..m /\ o[j] \in 1..m /\ q[e[j]] = Serial!Echo(b[j])
                        /\ q[o[j]] = Serial!Out(b[j]) /\ e[j] < o[j]
      /\ \A j, k \in 1..n : j < k => o[j] < e[k]
      /\ \A p \in 1..m : Mark(q[p]) => (\E j \in 1..n : p = e[j]) \/ (\E j \in 1..n : p = o[j])
      /\ n \in Nat /\ m \in Nat /\ \A j \in 1..n : b[j] \in Wires
  BY PlacesAre
<1>2. Serial!FirstEcho(q, w, from) = IF I # {} THEN Serial!Min(I) ELSE 0
  BY DEF Serial!FirstEcho, Serial!SelectInSubSeq
<1>e. w \in Wires /\ w \in Endings[w] /\ Endings[w] \subseteq Wires
  BY <1>1, PartsAssumption DEF Serial!CommandAssumption
<1> HIDE DEF n, m
<1>3. from >= 1 /\ from <= e[i]
  <2>1. CASE i = 1
    BY <1>1, <2>1 DEF n
  <2>2. CASE i # 1
    <3>1. i - 1 \in 1..n /\ i - 1 < i /\ i \in 1..n
      BY <1>1, <2>2 DEF n
    <3>2. e[i - 1] < o[i - 1] /\ o[i - 1] < e[i] /\ e[i - 1] \in 1..m /\ o[i - 1] \in 1..m
          /\ e[i] \in 1..m
      BY <1>1, <3>1
    <3> QED
      BY <1>1, <2>2, <3>2
  <2> QED
    BY <2>1, <2>2
<1>4. e[i] \in I
  BY <1>1, <1>3, <1>e DEF n
<1>5. ASSUME NEW p \in I PROVE e[i] <= p
  <2>1. PICK x \in Wires : p \in 1..m /\ q[p] = Serial!Echo(x) /\ p >= from
    BY <1>1, <1>3, <1>e DEF n
  <2>2. Mark(q[p])
    BY <2>1 DEF Mark
  <2>3. PICK j \in 1..n : p = e[j]
    <3>1. ASSUME NEW j \in 1..n, p = o[j] PROVE FALSE
      BY <1>1, <2>1, <3>1, MarksApart
    <3> QED
      BY <1>1, <2>1, <2>2, <3>1
  <2>4. CASE i < j
    <3>1. e[i] < o[i] /\ o[i] < e[j] /\ e[i] \in 1..m /\ o[i] \in 1..m /\ e[j] \in 1..m
      BY <1>1, <2>4 DEF n
    <3> QED
      BY <1>1, <2>3, <3>1
  <2>5. CASE j = i
    BY <1>1, <2>3, <2>5
  <2>6. CASE j < i
    <3>1. i # 1 /\ i - 1 \in 1..n /\ j <= i - 1 /\ from = e[i - 1] + 1
      BY <1>1, <2>6 DEF n
    <3>2. CASE j = i - 1
      BY <1>1, <2>1, <2>3, <3>1, <3>2
    <3>3. CASE j < i - 1
      <4>1. e[j] < o[j] /\ o[j] < e[i - 1] /\ e[j] \in 1..m /\ o[j] \in 1..m /\ e[i - 1] \in 1..m
        BY <1>1, <3>1, <3>3
      <4> QED
        BY <1>1, <2>1, <2>3, <3>1, <4>1
    <3> QED
      BY <3>1, <3>2, <3>3
  <2> QED
    BY <1>1, <2>4, <2>5, <2>6 DEF n
<1>6. I \in SUBSET Nat
  BY <1>1
<1> HIDE DEF I
<1>7. Serial!Min(I) \in I /\ \A p \in I : Serial!Min(I) <= p
  BY <1>4, <1>6, Least
<1>8. Serial!Min(I) = e[i]
  <2>1. Serial!Min(I) <= e[i] /\ e[i] <= Serial!Min(I) /\ e[i] \in Nat /\ Serial!Min(I) \in Nat
    BY <1>4, <1>5, <1>6, <1>7
  <2> QED
    BY <2>1
<1> QED
  BY <1>2, <1>4, <1>8

\* Each echo is looked for behind the one before it, and found.
LEMMA PlacesFound ==
  ASSUME NEW q \in Seq(Printable), NEW b \in Seq(Wires), NEW e, NEW o,
         Places(q, b, Len(b), Len(b), e, o)
  PROVE  \A i \in 1..Len(b) : Serial!EchoPlaces(q, b)[i] = e[i]
<1> DEFINE n == Len(b)
           From(f, i) == IF i = 1 THEN 1 ELSE IF f[i - 1] = 0 THEN Len(q) + 1 ELSE f[i - 1] + 1
           Step(f) == [i \in DOMAIN b |-> Serial!FirstEcho(q, b[i], From(f, i))]
           F == CHOOSE f : f = Step(f)
<1>1. n \in Nat /\ Len(q) \in Nat /\ \A i \in 1..n : e[i] \in 1..Len(q)
  BY PlacesAre
<1>d. DOMAIN b = 1..n
  OBVIOUS
<1>2. Serial!EchoPlaces(q, b) = F
  BY DEF Serial!EchoPlaces
<1>3. ASSUME NEW f, NEW i \in 1..n, i # 1 => f[i - 1] = e[i - 1]
      PROVE  Serial!FirstEcho(q, b[i], From(f, i)) = e[i]
  <2> DEFINE from == From(f, i)
  <2>1. CASE i = 1
    <3>1. from = 1
      BY <2>1
    <3> HIDE DEF from
    <3> QED
      BY <2>1, <3>1, EchoFound
  <2>2. CASE i # 1
    <3>1. i - 1 \in 1..n
      BY <1>1, <2>2
    <3>2. e[i - 1] \in 1..Len(q)
      BY <1>1, <3>1
    <3>3. from = e[i - 1] + 1 /\ e[i - 1] + 1 \in Nat
      BY <1>1, <1>3, <2>2, <3>2
    <3> HIDE DEF from
    <3>4. from \in Nat /\ IF i = 1 THEN from = 1 ELSE from = e[i - 1] + 1
      BY <2>2, <3>3
    <3>5. Serial!FirstEcho(q, b[i], from) = e[i]
      BY <3>4, EchoFound
    <3> QED
      BY <3>5 DEF from
  <2> QED
    BY <2>1, <2>2
<1> DEFINE g == [i \in 1..n |-> e[i]]
<1>4. g = Step(g)
  <2>1. ASSUME NEW i \in 1..n PROVE Serial!FirstEcho(q, b[i], From(g, i)) = g[i]
    <3>1. i # 1 => i - 1 \in 1..n
      BY <1>1
    <3>2. (i # 1 => g[i - 1] = e[i - 1]) /\ g[i] = e[i]
      BY <3>1
    <3> HIDE DEF g, From
    <3> QED
      BY <1>3, <3>2
  <2> HIDE DEF From
  <2> QED
    BY <1>d, <2>1
<1>5. F = Step(F)
  <2>1. \E f : f = Step(f)
    BY <1>4
  <2> HIDE DEF Step
  <2> QED
    BY <2>1
<1> HIDE DEF F
<1>6. \A i \in 1..n : F[i] = Serial!FirstEcho(q, b[i], From(F, i))
  <2> HIDE DEF From
  <2>1. F = [i \in 1..n |-> Serial!FirstEcho(q, b[i], From(F, i))]
    BY <1>d, <1>5
  <2> QED
    BY <2>1
<1> HIDE DEF From, Step, g, n
<1> DEFINE I == {k \in Nat : k + 1 \in 1..n => F[k + 1] = e[k + 1]}
<1>7. 0 \in I
  <2>1. ASSUME 0 + 1 \in 1..n PROVE F[1] = e[1]
    BY <1>3, <1>6, <2>1
  <2> QED
    BY <2>1
<1>8. ASSUME NEW k \in I PROVE k + 1 \in I
  <2> SUFFICES ASSUME NEW m, m = (k + 1) + 1, m \in 1..n PROVE F[m] = e[m]
    OBVIOUS
  <2>1. k + 1 \in 1..n /\ m - 1 = k + 1
    BY <1>1
  <2>2. F[m - 1] = e[m - 1]
    BY <2>1
  <2> HIDE DEF I
  <2> QED
    BY <1>3, <1>6, <2>2
<1>9. I = Nat
  <2>1. I \in SUBSET Nat
    OBVIOUS
  <2> HIDE DEF I
  <2>2. \A k \in I : k + 1 \in I
    BY <1>8
  <2> QED
    BY <1>7, <2>1, <2>2, NatClosed
<1>10. ASSUME NEW i \in 1..n PROVE F[i] = e[i]
  <2>1. PICK k : k = i - 1
    OBVIOUS
  <2>2. k \in Nat /\ k + 1 = i
    BY <1>1, <2>1
  <2>3. k \in I
    <3> HIDE DEF I
    <3> QED
      BY <1>9, <2>2
  <2> QED
    BY <2>2, <2>3
<1> QED
  BY <1>2, <1>10 DEF n

\* A block holds the one output of its probe.
LEMMA BlocksOwn ==
  ASSUME NEW q \in Seq(Printable), NEW b \in Seq(Wires), Tells(q, b, Len(b), Len(b)),
         NEW i \in 1..Len(b)
  PROVE  OneOut(Serial!SplitBatch(q, b)[i], Serial!Out(b[i]))
<1> DEFINE n == Len(b)
           m == Len(q)
           place == Serial!EchoPlaces(q, b)
           End(j) == IF j = n THEN m ELSE IF place[j + 1] = 0 THEN m ELSE place[j + 1] - 1
           Block(j) == IF place[j] = 0 THEN <<>> ELSE SubSeq(q, place[j] + 1, End(j))
           z == End(i)
<1>1. PICK e, o : Places(q, b, n, n, e, o)
  BY DEF Tells
<1>2. /\ \A j \in 1..n : e[j] \in 1..m /\ o[j] \in 1..m /\ q[e[j]] = Serial!Echo(b[j])
                        /\ q[o[j]] = Serial!Out(b[j]) /\ e[j] < o[j]
      /\ \A j, k \in 1..n : j < k => o[j] < e[k]
      /\ \A p \in 1..m : Mark(q[p]) => (\E j \in 1..n : p = e[j]) \/ (\E j \in 1..n : p = o[j])
      /\ n \in Nat /\ m \in Nat
  BY <1>1, PlacesAre
<1>3. \A j \in 1..n : place[j] = e[j]
  BY <1>1, PlacesFound
<1>4. Serial!SplitBatch(q, b)[i] = Block(i)
  <2>1. Serial!SplitBatch(q, b) = [j \in 1..n |-> Block(j)]
    BY DEF Serial!SplitBatch
  <2> HIDE DEF Block
  <2> QED
    BY <2>1
<1> HIDE DEF place, n, m
<1>5. /\ e[i] \in 1..m /\ o[i] \in 1..m /\ e[i] < o[i] /\ place[i] = e[i]
      /\ q[o[i]] = Serial!Out(b[i])
  BY <1>2, <1>3 DEF n
<1>6. i # n => i + 1 \in 1..n /\ e[i + 1] \in 1..m /\ place[i + 1] = e[i + 1] /\ o[i] < e[i + 1]
  BY <1>2, <1>3 DEF n
<1>7. z = (IF i = n THEN m ELSE e[i + 1] - 1) /\ z \in 1..m /\ o[i] <= z
  BY <1>2, <1>5, <1>6
<1> HIDE DEF z
<1>8. Block(i) = SubSeq(q, e[i] + 1, z)
  <2>1. place[i] # 0 /\ place[i] = e[i]
    BY <1>2, <1>5
  <2>2. z = End(i)
    BY DEF z
  <2> HIDE DEF End
  <2> QED
    BY <2>1, <2>2
<1>9. ASSUME NEW k \in 1..m, e[i] < k, k <= z, q[k][1] = "out" PROVE k = o[i]
  <2>1. (\E j \in 1..n : k = e[j]) \/ (\E j \in 1..n : k = o[j])
    BY <1>2, <1>9 DEF Mark
  <2>2. PICK j \in 1..n : k = o[j]
    <3>1. ASSUME NEW j \in 1..n, k = e[j] PROVE FALSE
      <4>1. Serial!Echo(b[j])[1] = "out"
        BY <1>2, <1>9, <3>1
      <4> QED
        BY <4>1, MarksApart
    <3> QED
      BY <2>1, <3>1
  <2>3. CASE j < i
    <3>1. o[j] < e[i]
      BY <1>2, <2>3 DEF n
    <3> QED
      BY <1>2, <1>5, <1>9, <2>2, <3>1
  <2>4. CASE i < j
    <3>1. i # n
      BY <1>2, <2>4 DEF n
    <3>2. z = e[i + 1] - 1
      BY <1>7, <3>1
    <3>3. e[j] \in 1..m /\ o[j] \in 1..m /\ e[j] < o[j]
      BY <1>2
    <3>4. CASE j = i + 1
      BY <1>6, <1>9, <2>2, <3>1, <3>2, <3>3, <3>4
    <3>5. CASE i + 1 < j
      <4>1. o[i + 1] < e[j] /\ e[i + 1] < o[i + 1] /\ o[i + 1] \in 1..m
        BY <1>2, <1>6, <3>1, <3>5
      <4> QED
        BY <1>6, <1>9, <2>2, <3>1, <3>2, <3>3, <4>1
    <3> QED
      BY <1>6, <2>4, <3>1, <3>4, <3>5 DEF n
  <2> QED
    BY <2>2, <2>3, <2>4 DEF n
<1>10. Serial!Out(b[i])[1] = "out"
  BY MarksApart
<1> DEFINE t == Serial!Out(b[i])
           a == e[i]
           p == o[i]
<1>11. /\ a \in 1..Len(q) /\ z \in 1..Len(q) /\ a < z /\ p \in 1..Len(q) /\ a < p /\ p <= z
       /\ q[p] = t /\ t[1] = "out" /\ \A k \in 1..Len(q) : a < k /\ k <= z /\ q[k][1] = "out" => k = p
  BY <1>2, <1>5, <1>7, <1>9, <1>10 DEF m
<1> HIDE DEF t, a, p
<1>12. OneOut(SubSeq(q, a + 1, z), t)
  BY <1>11, CutOut
<1> QED
  BY <1>4, <1>8, <1>12 DEF a, t

\* The transcript of one probe holds its one output.
LEMMA WholeOwn ==
  ASSUME NEW q \in Seq(Printable), NEW b \in Seq(Wires), Tells(q, b, Len(b), Len(b)),
         NEW i \in 1..Len(b), \A j \in 1..Len(b) : j = i
  PROVE  OneOut(q, Serial!Out(b[i]))
<1> DEFINE n == Len(b)
           m == Len(q)
<1>1. PICK e, o : Places(q, b, n, n, e, o)
  BY DEF Tells
<1>2. /\ \A j \in 1..n : e[j] \in 1..m /\ o[j] \in 1..m /\ q[e[j]] = Serial!Echo(b[j])
                        /\ q[o[j]] = Serial!Out(b[j])
      /\ \A p \in 1..m : Mark(q[p]) => (\E j \in 1..n : p = e[j]) \/ (\E j \in 1..n : p = o[j])
  BY <1>1, PlacesAre
<1> HIDE DEF n, m
<1>3. i \in 1..n /\ \A j \in 1..n : j = i
  BY DEF n
<1>4. ASSUME NEW k \in 1..m, q[k][1] = "out" PROVE k = o[i]
  <2>1. k = e[i] \/ k = o[i]
    BY <1>2, <1>3, <1>4 DEF Mark
  <2>2. k # e[i]
    <3>1. k = e[i] => Serial!Echo(b[i])[1] = "out"
      BY <1>2, <1>3, <1>4
    <3> QED
      BY <3>1, MarksApart
  <2> QED
    BY <2>1, <2>2
<1>5. o[i] \in 1..m /\ q[o[i]] = Serial!Out(b[i])
  BY <1>2, <1>3
<1> QED
  BY <1>4, <1>5, MarksApart DEF OneOut, m
=============================================================================
