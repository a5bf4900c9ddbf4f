---------------------------- MODULE MemoryProofs -----------------------------
(***************************************************************************)
(* Proofs about what the system keeps from one run to the next: the        *)
(* conversations with the agent, the library of documents, and what the    *)
(* outcomes of past runs taught; about the confidence an answer is given;  *)
(* and about the evals that replay past runs.                              *)
(*                                                                         *)
(* Conversations and documents live in files that every process of the     *)
(* operator's reads and writes, and neither part locks its files.  What is  *)
(* said of conversations holds of any number of processes.  What is said   *)
(* of the library holds when one process works on it (OneProcess), which   *)
(* may be killed between any two writes and started again; of two that     *)
(* write at once nothing is claimed.  The hypothesis is on the constant    *)
(* Procs, so it is a hypothesis of the theorem and of no definition.       *)
(*                                                                         *)
(* The steps that a property is disturbed by are those of its own part; a  *)
(* step of another leaves the part's variables alone.                      *)
(***************************************************************************)
EXTENDS Memory, FiniteSetTheorems, SequenceTheorems, WellFoundedInduction,
        TLAPS

-----------------------------------------------------------------------------
(* Evaluation, which is an eval by itself: its Spec has no other part.     *)

(* Where an eval is, and what it has in hand there.                        *)
EvalInv ==
    /\ eval.at \in {"idle", "hold", "replay"}
    /\ eval.at = "idle" => eval = Idle
    /\ eval.at = "replay" =>
          eval = [at |-> "replay", update |-> eval.update, holdout |-> eval.holdout,
                  outcomes |-> eval.outcomes, results |-> eval.results]

(* A baseline that can be read is the one last set.                        *)
BaselineInv ==
    baseline \notin {NoFile, Torn} => golden = baseline

ReplayInv == EvalInv /\ BaselineInv

(* Nothing has been replayed, and no baseline set.                         *)
LEMMA ReplayStarts == Init => ReplayInv
BY DEF Init, ReplayInv, EvalInv, BaselineInv, Idle

(* Only SetBaseline makes a baseline that can be read.                      *)
LEMMA ReplayStep == ReplayInv /\ [Next]_vars => ReplayInv'
<1> SUFFICES ASSUME ReplayInv, [Next]_vars PROVE ReplayInv'
  OBVIOUS
<1> USE DEF ReplayInv, EvalInv, BaselineInv
<1>1. ASSUME NEW r \in Runs, Record(r) PROVE ReplayInv'
  BY <1>1 DEF Record
<1>2. ASSUME NEW r \in Runs, Replay(r) PROVE ReplayInv'
  <2>1. PICK hit \in BOOLEAN, c \in Confidences :
          eval' = [eval EXCEPT
                      !.results = [x \in DOMAIN @ \cup {r} |->
                                      IF x = r THEN [hit |-> hit, confidence |-> c] ELSE @[x]]]
    BY <1>2 DEF Replay
  <2>2. eval.at = "replay" /\ UNCHANGED <<baseline, golden>>
    BY <1>2 DEF Replay
  <2> QED
    BY <2>1, <2>2
<1>3. CASE Begin
  BY <1>3 DEF Begin, Ended, Idle
<1>4. CASE Hold
  BY <1>4 DEF Hold
<1>6. CASE ReplayFails
  BY <1>6 DEF ReplayFails, Ended, Idle
<1>7. CASE NothingReplayed
  BY <1>7 DEF NothingReplayed, Ended, Idle
<1>8. CASE SetBaseline
  BY <1>8 DEF SetBaseline, Ended, Idle
<1>9. CASE KillInSet
  BY <1>9 DEF KillInSet, Ended, Idle
<1>10. CASE Compare
  BY <1>10 DEF Compare, Ended, Idle
<1>11. CASE UNCHANGED vars
  BY <1>11 DEF vars
<1> QED
  BY <1>1, <1>2, <1>3, <1>4, <1>6, <1>7, <1>8, <1>9, <1>10, <1>11 DEF Next

(* The invariant holds of every behaviour.                                 *)
LEMMA EvaluationInvariant == Spec => []ReplayInv
BY ReplayStarts, ReplayStep, PTL DEF Spec

(* The shape of the state is kept too; that a replay adds a case of the     *)
(* holdout to its results needs to know what a replay has in hand.          *)
LEMMA NextTypeOK == ReplayInv /\ TypeOK /\ [Next]_vars => TypeOK'
<1> SUFFICES ASSUME ReplayInv, TypeOK, [Next]_vars PROVE TypeOK'
  OBVIOUS
<1>0. MaxEvals \in Nat /\ Labels \subseteq Outcomes
  BY EvaluationAssumption
<1> USE <1>0 DEF TypeOK
<1>1. ASSUME NEW r \in Runs, Record(r) PROVE TypeOK'
  BY <1>1 DEF Record
<1>2. ASSUME NEW r \in Runs, Replay(r) PROVE TypeOK'
  <2>1. PICK hit \in BOOLEAN, c \in Confidences :
          eval' = [eval EXCEPT
                      !.results = [x \in DOMAIN @ \cup {r} |->
                                      IF x = r THEN [hit |-> hit, confidence |-> c] ELSE @[x]]]
    BY <1>2 DEF Replay
  <2>2. /\ eval.at = "replay" /\ r \in eval.holdout
        /\ UNCHANGED <<cases, evals, verdict>>
    BY <1>2 DEF Replay
  <2>3. /\ eval'.at = "replay" /\ eval'.holdout = eval.holdout
        /\ DOMAIN eval'.results = DOMAIN eval.results \cup {r}
    BY <2>1, <2>2 DEF ReplayInv, EvalInv
  <2> QED
    BY <2>2, <2>3
<1>3. CASE Begin
  BY <1>3 DEF Begin, Ended, Idle
<1>4. CASE Hold
  BY <1>4 DEF Hold
<1>6. CASE ReplayFails
  BY <1>6 DEF ReplayFails, Ended, Idle
<1>7. CASE NothingReplayed
  BY <1>7 DEF NothingReplayed, Ended, Idle
<1>8. CASE SetBaseline
  BY <1>8 DEF SetBaseline, Ended, Idle
<1>9. CASE KillInSet
  BY <1>9 DEF KillInSet, Ended, Idle
<1>10. CASE Compare
  BY <1>10 DEF Compare, Ended, Idle
<1>11. CASE UNCHANGED vars
  BY <1>11 DEF vars
<1> QED
  BY <1>1, <1>2, <1>3, <1>4, <1>6, <1>7, <1>8, <1>9, <1>10, <1>11 DEF Next

LEMMA InitTypeOK == Init => TypeOK
BY EvaluationAssumption DEF Init, TypeOK, Idle

(* Every part of the state keeps its shape.                                *)
THEOREM EvaluationTypeCorrect == Spec => []TypeOK
BY ReplayStarts, ReplayStep, InitTypeOK, NextTypeOK, PTL DEF Spec

(* An eval that passes has not regressed from the numbers last set as the  *)
(* baseline, however many evals passed, failed or were killed since        *)
(* (cli.py:1979-2008).                                                     *)
THEOREM PassingMeansNoDrift == Spec => NoDrift
<1>1. ReplayInv /\ [Next]_vars =>
        [eval.at = "replay" /\ eval' = Idle /\ verdict' = "passed" =>
           /\ golden # NoFile
           /\ ~(Numbers.accuracy < golden.accuracy - Tolerance)
           /\ ~(Numbers.ece > golden.ece + Tolerance)]_vars
  <2> SUFFICES ASSUME ReplayInv, Next,
                      eval.at = "replay", eval' = Idle, verdict' = "passed"
               PROVE /\ golden # NoFile
                     /\ ~(Numbers.accuracy < golden.accuracy - Tolerance)
                     /\ ~(Numbers.ece > golden.ece + Tolerance)
    OBVIOUS
  <2>1. Compare
    <3>1. ~(\E r \in Runs : Record(r) \/ Replay(r))
      <4>1. ASSUME NEW r \in Runs, Record(r) PROVE FALSE
        BY <4>1 DEF Record, Idle
      <4>2. ASSUME NEW r \in Runs, Replay(r) PROVE FALSE
        BY <4>2 DEF Replay, Idle, ReplayInv, EvalInv
      <4> QED
        BY <4>1, <4>2
    <3>2. ~Begin /\ ~Hold
      BY DEF Begin, Hold
    <3>3. ~ReplayFails /\ ~NothingReplayed /\ ~SetBaseline /\ ~KillInSet
      BY DEF ReplayFails, NothingReplayed, SetBaseline, KillInSet, Ended
    <3> QED
      BY <3>1, <3>2, <3>3 DEF Next
  <2>2. baseline \notin {NoFile, Torn} /\ ~Regressed(Numbers, baseline)
    BY <2>1 DEF Compare, Ended
  <2>3. golden = baseline
    BY <2>2 DEF ReplayInv, BaselineInv
  <2> QED
    BY <2>2, <2>3 DEF Regressed
<1> QED
  BY <1>1, EvaluationInvariant, PTL DEF Spec, NoDrift

-----------------------------------------------------------------------------
(* Conversation.  What a process holds of its session and what a file of it *)
(* says are of one type, so a session saved, loaded or resumed stays one.   *)
(* Any number of processes, each with a loop and a worker, work over the    *)
(* same directories; nothing below assumes that they take turns.            *)

\* The bounds are natural numbers.
LEMMA TalkBounds ==
  /\ MaxSaid \in Nat /\ MaxDiagnoses \in Nat /\ ToolBudget \in Nat
  /\ MaxStarts \in Nat /\ Down \notin Procs
BY PartsAssumption DEF Talk!ConversationAssumption

\* A digest that tells of runs among D, as Recorded has it of `done'.
GoodDigest(g, D) ==
  g # Talk!NoDigest =>
    /\ g.run \in DOMAIN D /\ g.diag \in DOMAIN D
    /\ g.run # g.diag => g.run > g.diag /\ D[g.run] # D[g.diag]

GoodRuns(runs, D) == \A i \in DOMAIN runs : runs[i] \in DOMAIN D

\* What a payload says.
Kept(f, D) == GoodDigest(f.digest, D) /\ GoodRuns(f.runs, D)

\* What a session says, and what a /resume under way has read.
Known(s, D) == Kept(s, D) /\ (s.payload # NoFile => Kept(s.payload, D))

\* What the worker has in hand: between the end of its diagnosis and the
\* search for the newest run, no later run is its own process's; what it then
\* lists and shows is the run it made, or a newer one of another process.
InHand(p, s, D) ==
  /\ s.step = "find" =>
       /\ s.made \in DOMAIN D /\ D[s.made] = p
       /\ \A r \in DOMAIN D : r > s.made => D[r] # p
  /\ s.step \in {"list", "show"} =>
       /\ s.last \in DOMAIN D /\ s.made \in DOMAIN D
       /\ s.last # s.made => s.last > s.made /\ D[s.last] # D[s.made]

\* A chat without a target.
Targetless(s) ==
  s.mode = "chat" =>
    s.target = NoTarget /\ s.aim = NoTarget /\ s.tool \notin Talk!DebugOnly

Held(p, s, D) ==
  /\ s \in Talk!Session /\ (s.loop # "poll" => s.payload # NoFile)
  /\ Targetless(s)
  /\ Known(s, D) /\ InHand(p, s, D)

TalkInv ==
  /\ Talk!TypeOK
  /\ \A p \in Procs : Talk!Up(p) => Held(p, ses[p], done)
  /\ \A d \in Dirs : Talk!Readable(d) => Kept(file[d], done)

\* One more run, by q.
LEMMA OneRunMore ==
  ASSUME NEW q \in Procs \cup {Down}, NEW D \in Seq(Procs \cup {Down})
  PROVE  /\ Append(D, q) \in Seq(Procs \cup {Down})
         /\ Len(Append(D, q)) = Len(D) + 1 /\ Len(D) \in Nat
         /\ DOMAIN D = 1..Len(D) /\ DOMAIN Append(D, q) = 1..(Len(D) + 1)
         /\ \A i \in DOMAIN D : i \in DOMAIN Append(D, q) /\ Append(D, q)[i] = D[i]
         /\ Append(D, q)[Len(D) + 1] = q
OBVIOUS

\* What tells of the runs there are tells of them when there is one more.
LEMMA KnownGrows ==
  ASSUME NEW q \in Procs \cup {Down}, NEW D \in Seq(Procs \cup {Down}), NEW s
  PROVE  /\ Kept(s, D) => Kept(s, Append(D, q))
         /\ Known(s, D) => Known(s, Append(D, q))
<1>1. \A f : Kept(f, D) => Kept(f, Append(D, q))
  BY OneRunMore DEF Kept, GoodDigest, GoodRuns
<1> QED
  BY <1>1 DEF Known

\* The worker of another process has in hand what it had.
LEMMA HeldGrows ==
  ASSUME NEW q \in Procs \cup {Down}, NEW D \in Seq(Procs \cup {Down}),
         NEW p \in Procs, p # q, NEW s, Held(p, s, D)
  PROVE  Held(p, s, Append(D, q))
<1>1. Known(s, Append(D, q))
  BY KnownGrows DEF Held
<1>2. ASSUME s.step = "find"
      PROVE  /\ s.made \in DOMAIN Append(D, q) /\ Append(D, q)[s.made] = p
             /\ \A r \in DOMAIN Append(D, q) :
                  r > s.made => Append(D, q)[r] # p
  <2>1. /\ s.made \in DOMAIN D /\ D[s.made] = p
        /\ \A r \in DOMAIN D : r > s.made => D[r] # p
    BY <1>2 DEF Held, InHand
  <2>2. \A r \in DOMAIN Append(D, q) : r \in DOMAIN D \/ r = Len(D) + 1
    BY OneRunMore
  <2> QED
    BY <2>1, <2>2, OneRunMore
<1>3. s.step \in {"list", "show"} =>
        /\ s.last \in DOMAIN Append(D, q) /\ s.made \in DOMAIN Append(D, q)
        /\ s.last # s.made =>
             s.last > s.made /\ Append(D, q)[s.last] # Append(D, q)[s.made]
  BY OneRunMore DEF Held, InHand
<1> QED
  BY <1>1, <1>2, <1>3 DEF Held, InHand

\* What a launched session starts from.
LEMMA FreshIsHeld ==
  ASSUME NEW mode \in {"chat", "debug"}, NEW d \in Dirs,
         NEW t \in Targets \cup {NoTarget}, mode = "chat" => t = NoTarget,
         NEW p, NEW D
  PROVE  Held(p, Talk!Fresh(mode, d, t), D)
<1> DEFINE s == Talk!Fresh(mode, d, t)
<1>1. s \in Talk!Session
  BY TalkBounds DEF Talk!Fresh, Talk!Session, Talk!Digest, Talk!NoDigest,
     Talk!RunIds, Talk!NoRun
<1>2. s.loop = "poll" /\ s.step = "idle" /\ s.payload = NoFile
  BY DEF Talk!Fresh
<1>3. Targetless(s)
  BY DEF Talk!Fresh, Targetless, Talk!DebugOnly, Talk!DebugTools
<1>4. Kept(s, D)
  BY DEF Talk!Fresh, Kept, GoodDigest, GoodRuns
<1> QED
  BY <1>1, <1>2, <1>3, <1>4 DEF Held, Known, InHand

\* The digest rebuilt from a list of runs.
LEMMA RebuiltIsGood ==
  ASSUME NEW g \in Talk!Digest, NEW runs \in Seq(Talk!RunIds), NEW D,
         GoodDigest(g, D), GoodRuns(runs, D)
  PROVE  /\ Talk!Rebuilt(g, runs) \in Talk!Digest
         /\ GoodDigest(Talk!Rebuilt(g, runs), D)
<1>1. CASE runs = <<>>
  BY <1>1 DEF Talk!Rebuilt
<1>2. CASE runs # <<>>
  <2>1. PICK r \in Talk!RunIds :
          r \in DOMAIN D /\ Talk!Rebuilt(g, runs) = [run |-> r, diag |-> r]
    <3>1. Len(runs) \in DOMAIN runs
      BY <1>2
    <3> QED
      BY <1>2, <3>1 DEF Talk!Rebuilt, GoodRuns, Talk!Last
  <2> QED
    BY <2>1 DEF Talk!Digest, GoodDigest
<1> QED
  BY <1>1, <1>2

\* The target once a payload is loaded.
LEMMA TargetStaysOff ==
  ASSUME NEW s \in Talk!Session, Targetless(s), NEW f \in Talk!Payload
  PROVE  /\ Talk!TargetLoaded(s, f) \in Targets \cup {NoTarget}
         /\ s.mode = "chat" => Talk!TargetLoaded(s, f) = NoTarget
BY DEF Talk!Session, Talk!Payload, Talk!TargetLoaded, Targetless

\* A launched session that resumes a directory.
LEMMA LoadedIsHeld ==
  ASSUME TalkInv, NEW p, NEW s, Held(p, s, done), s.step = "idle",
         s.payload = NoFile, NEW d \in Dirs, Talk!Readable(d)
  PROVE  Held(p, Talk!Loaded(s, d), done)
<1> DEFINE f == file[d]
           g == IF f.digest = Talk!NoDigest THEN Talk!Rebuilt(f.digest, f.runs)
                ELSE f.digest
           t == Talk!TargetLoaded(s, f)
           l == Talk!Loaded(s, d)
<1>1. f \in Talk!Payload /\ Kept(f, done)
  BY DEF TalkInv, Talk!TypeOK, Talk!Readable
<1>2. /\ f.log \in SUBSET Talk!Entry /\ f.digest \in Talk!Digest
      /\ f.runs \in Seq(Talk!RunIds)
  BY <1>1 DEF Talk!Payload
<1>3. g \in Talk!Digest /\ GoodDigest(g, done)
  BY <1>1, <1>2, RebuiltIsGood DEF Kept
<1>4. s \in Talk!Session /\ Targetless(s)
  BY DEF Held
<1>5. t \in Targets \cup {NoTarget} /\ (s.mode = "chat" => t = NoTarget)
  BY <1>1, <1>4, TargetStaysOff
<1>6. l = [s EXCEPT !.talk = d, !.log = f.log, !.runs = f.runs, !.digest = g,
                    !.target = t]
  BY DEF Talk!Loaded
<1> HIDE DEF f, g, t, l
<1>7. l \in Talk!Session
  BY <1>2, <1>3, <1>4, <1>5, <1>6 DEF Talk!Session
<1>8. /\ l.digest = g /\ l.runs = f.runs /\ l.payload = NoFile
      /\ l.step = "idle" /\ l.loop = s.loop
  BY <1>4, <1>6 DEF Talk!Session
<1>9. Targetless(l)
  BY <1>4, <1>5, <1>6 DEF Targetless, Talk!Session
<1>10. Known(l, done) /\ InHand(p, l, done) /\ l.loop = "poll"
  BY <1>1, <1>3, <1>8 DEF Held, Known, Kept, InHand
<1>11. Held(p, l, done)
  BY <1>7, <1>9, <1>10 DEF Held
<1> QED
  BY <1>11 DEF l

\* What is saved of a session.
LEMMA SavedIsPayload ==
  ASSUME NEW s \in Talk!Session
  PROVE  /\ Talk!Saved(s) \in Talk!Payload
         /\ \A D : Known(s, D) => Kept(Talk!Saved(s), D)
BY DEF Talk!Saved, Talk!Session, Talk!Payload, Known, Kept

\* Taking one element out of a sequence without repetitions leaves one.
LEMMA RemovedOnce ==
  ASSUME NEW S, NEW q \in Seq(S), Talk!IsInjective(q), NEW k \in DOMAIN q
  PROVE  /\ Talk!RemoveAt(q, k) \in Seq(S)
         /\ Talk!IsInjective(Talk!RemoveAt(q, k))
         /\ \A i \in DOMAIN Talk!RemoveAt(q, k) : Talk!RemoveAt(q, k)[i] # q[k]
<1> DEFINE r == Talk!RemoveAt(q, k)
<1>1. k \in 1..Len(q) /\ Len(q) \in Nat /\ \A i \in 1..Len(q) : q[i] \in S
  OBVIOUS
<1>2. /\ SubSeq(q, 1, k - 1) \in Seq(S) /\ Len(SubSeq(q, 1, k - 1)) = k - 1
      /\ \A i \in 1..(k - 1) : SubSeq(q, 1, k - 1)[i] = q[i]
  BY <1>1
<1>3. /\ SubSeq(q, k + 1, Len(q)) \in Seq(S)
      /\ Len(SubSeq(q, k + 1, Len(q))) = Len(q) - k
      /\ \A i \in 1..(Len(q) - k) : SubSeq(q, k + 1, Len(q))[i] = q[k + i]
  BY <1>1
<1>4. /\ r \in Seq(S) /\ Len(r) = Len(q) - 1
      /\ \A i \in 1..(Len(q) - 1) : r[i] = IF i < k THEN q[i] ELSE q[i + 1]
  <2>1. PICK a \in Seq(S) :
          /\ a = SubSeq(q, 1, k - 1) /\ Len(a) = k - 1
          /\ \A i \in 1..(k - 1) : a[i] = q[i]
    BY <1>2
  <2>2. PICK b \in Seq(S) :
          /\ b = SubSeq(q, k + 1, Len(q)) /\ Len(b) = Len(q) - k
          /\ \A i \in 1..(Len(q) - k) : b[i] = q[k + i]
    BY <1>3
  <2>3. r = a \o b
    BY <2>1, <2>2 DEF Talk!RemoveAt
  <2>4. /\ a \o b \in Seq(S) /\ Len(a \o b) = Len(q) - 1
        /\ \A i \in 1..(Len(q) - 1) :
             (a \o b)[i] = IF i <= k - 1 THEN a[i] ELSE b[i - (k - 1)]
    <3>1. /\ a \o b \in Seq(S) /\ Len(a \o b) = Len(a) + Len(b)
          /\ \A i \in 1..(Len(a) + Len(b)) :
               (a \o b)[i] = IF i <= Len(a) THEN a[i] ELSE b[i - Len(a)]
      BY ConcatProperties
    <3>2. Len(a) + Len(b) = Len(q) - 1
      <4>1. k \in Int /\ Len(q) \in Int /\ Len(a) = k - 1 /\ Len(b) = Len(q) - k
        BY <1>1, <2>1, <2>2
      <4> QED
        BY <4>1
    <3> QED
      BY <2>1, <3>1, <3>2
  <2>5. ASSUME NEW i \in 1..(Len(q) - 1)
        PROVE  (a \o b)[i] = IF i < k THEN q[i] ELSE q[i + 1]
    <3>1. CASE i < k
      BY <1>1, <2>1, <2>4, <3>1
    <3>2. CASE ~(i < k)
      <4>1. i - (k - 1) \in 1..(Len(q) - k) /\ k + (i - (k - 1)) = i + 1
        BY <1>1, <3>2
      <4>2. b[i - (k - 1)] = q[i + 1]
        BY <2>2, <4>1
      <4>3. (a \o b)[i] = b[i - (k - 1)]
        BY <1>1, <2>4, <3>2
      <4> QED
        BY <3>2, <4>2, <4>3
    <3> QED
      BY <3>1, <3>2
  <2> HIDE DEF r
  <2> QED
    BY <2>3, <2>4, <2>5
<1>5. DOMAIN r = 1..(Len(q) - 1) /\ DOMAIN q = 1..Len(q)
  BY <1>1, <1>4
<1> HIDE DEF r
<1>6. \A i \in DOMAIN r : \E j \in DOMAIN q : r[i] = q[j] /\ j # k /\ j = IF i < k THEN i ELSE i + 1
  BY <1>1, <1>4, <1>5
<1>7. \A i \in DOMAIN r : r[i] # q[k]
  BY <1>1, <1>5, <1>6 DEF Talk!IsInjective
<1>8. \A a, b \in DOMAIN r : r[a] = r[b] => a = b
  BY <1>1, <1>5, <1>6 DEF Talk!IsInjective
<1>9. r \in Seq(S) /\ Talk!IsInjective(r) /\ \A i \in DOMAIN r : r[i] # q[k]
  BY <1>4, <1>7, <1>8 DEF Talk!IsInjective
<1> QED
  BY <1>9 DEF r

\* The order of the saves without a directory.
LEMMA WithoutOnce ==
  ASSUME Talk!TypeOK, NEW d \in Dirs
  PROVE  /\ Talk!Without(d) \in Seq(Dirs)
         /\ Talk!IsInjective(Talk!Without(d))
         /\ \A i \in DOMAIN Talk!Without(d) : Talk!Without(d)[i] # d
<1> USE DEF Talk!TypeOK
<1>1. CASE d \in Talk!ToSet(saves)
  <2>1. PICK k \in DOMAIN saves :
          saves[k] = d /\ Talk!Without(d) = Talk!RemoveAt(saves, k)
    BY <1>1 DEF Talk!ToSet, Talk!Without
  <2> QED
    BY <2>1, RemovedOnce
<1>2. CASE d \notin Talk!ToSet(saves)
  BY <1>2 DEF Talk!Without, Talk!ToSet
<1> QED
  BY <1>1, <1>2

\* A write puts a payload, or half of one, and the directory last.
LEMMA SaveKeepsType ==
  ASSUME Talk!TypeOK, NEW s \in Talk!Session,
         Talk!Save(s) \/ Talk!ForcedSave(s) \/ Talk!Write(s)
  PROVE  /\ file' \in [Dirs -> Talk!Payload \cup {NoFile, Torn}]
         /\ \A d \in Dirs : file'[d] \in {file[d], Talk!Saved(s), Torn}
         /\ saves' \in Seq(Dirs) /\ Talk!IsInjective(saves')
<1> USE DEF Talk!TypeOK
<1>1. CASE UNCHANGED <<file, saves>>
  BY <1>1
<1>2. CASE Talk!Write(s)
  <2>1. s.dir \in Dirs
    BY DEF Talk!Session
  <2>2. PICK f \in {Talk!Saved(s), Torn} :
          /\ file' = [file EXCEPT ![s.dir] = f]
          /\ saves' = Append(Talk!Without(s.dir), s.dir)
    BY <1>2 DEF Talk!Write
  <2>3. /\ Talk!Without(s.dir) \in Seq(Dirs)
        /\ Talk!IsInjective(Talk!Without(s.dir))
        /\ \A i \in DOMAIN Talk!Without(s.dir) : Talk!Without(s.dir)[i] # s.dir
    BY <2>1, WithoutOnce
  <2>4. saves' \in Seq(Dirs) /\ Talk!IsInjective(saves')
    BY <2>1, <2>2, <2>3 DEF Talk!IsInjective
  <2> QED
    BY <2>1, <2>2, <2>4, SavedIsPayload
<1> QED
  BY <1>1, <1>2 DEF Talk!Save, Talk!ForcedSave

\* Of the files, those that can be read stay kept when each stands, is torn or
\* says what a session knows.
LEMMA FilesKept ==
  ASSUME TalkInv, NEW D, done' = D,
         D = done \/ \E q \in Procs \cup {Down} : D = Append(done, q),
         \A d \in Dirs : file'[d] \in {file[d], Torn} \/ Kept(file'[d], D)
  PROVE  \A d \in Dirs : Talk!Readable(d)' => Kept(file[d], done)'
<1>1. \A d \in Dirs : Talk!Readable(d) => Kept(file[d], D)
  BY KnownGrows DEF TalkInv, Talk!TypeOK
<1>2. \A d \in Dirs : file'[d] \notin {NoFile, Torn} => Kept(file'[d], D)
  BY <1>1 DEF Talk!Readable
<1> QED
  BY <1>2 DEF Talk!Readable

\* The sessions stay held when one becomes another and at most its process, or
\* nobody, has made a run.
LEMMA SessionsHeld ==
  ASSUME TalkInv, NEW p \in Procs, NEW s, Talk!Became(p, s), NEW D, done' = D,
         D = done \/ D = Append(done, p), s = Down \/ Held(p, s, D)
  PROVE  /\ (ses \in [Procs -> Talk!Session \cup {Down}])'
         /\ \A q \in Procs : (Talk!Up(q) => Held(q, ses[q], done))'
<1>1. ses' = [ses EXCEPT ![p] = s] /\ ses \in [Procs -> Talk!Session \cup {Down}]
  BY DEF Talk!Became, TalkInv, Talk!TypeOK
<1>2. s = Down \/ s \in Talk!Session
  BY DEF Held
<1>3. ASSUME NEW q \in Procs, ses'[q] # Down PROVE Held(q, ses'[q], D)
  <2>1. CASE q = p
    BY <1>1, <1>3, <2>1
  <2>2. CASE q # p
    <3>1. ses'[q] = ses[q] /\ Held(q, ses[q], done)
      BY <1>1, <1>3, <2>2 DEF TalkInv, Talk!Up
    <3> QED
      BY <2>2, <3>1, HeldGrows DEF TalkInv, Talk!TypeOK
  <2> QED
    BY <2>1, <2>2
<1> QED
  BY <1>1, <1>2, <1>3 DEF Talk!Up

\* What the type invariant says of a session that is up.
LEMMA HeldLoops ==
  ASSUME \A q \in Procs : Talk!Up(q) => Held(q, ses[q], done)
  PROVE  \A q \in Procs :
           Talk!Up(q) /\ ses[q].loop # "poll" => ses[q].payload # NoFile
BY DEF Held

\* A step that only turns one session into another.
LEMMA JustBecomes ==
  ASSUME TalkInv, NEW p \in Procs, NEW s, Talk!Became(p, s),
         s = Down \/ Held(p, s, done), said' \in 0..MaxSaid,
         UNCHANGED <<file, saves, done, starts>>
  PROVE  TalkInv'
<1>1. \A d \in Dirs : Talk!Readable(d)' => Kept(file[d], done)'
  BY DEF TalkInv, Talk!Readable
<1>2. /\ (ses \in [Procs -> Talk!Session \cup {Down}])'
      /\ \A q \in Procs : (Talk!Up(q) => Held(q, ses[q], done))'
  BY SessionsHeld
<1>3. Talk!TypeOK'
  BY <1>2 DEF TalkInv, Talk!TypeOK, Held
<1> QED
  BY <1>1, <1>2, <1>3 DEF TalkInv

\* A step that saves a session and turns it into another.
LEMMA SavesAndBecomes ==
  ASSUME TalkInv, NEW p \in Procs, NEW s, Talk!Became(p, s),
         s = Down \/ Held(p, s, done), said' \in 0..MaxSaid,
         starts' \in 0..MaxStarts, UNCHANGED done,
         NEW t \in Talk!Session, Known(t, done),
         Talk!Save(t) \/ Talk!ForcedSave(t) \/ Talk!Write(t)
  PROVE  TalkInv'
<1>1. /\ file' \in [Dirs -> Talk!Payload \cup {NoFile, Torn}]
      /\ \A d \in Dirs : file'[d] \in {file[d], Talk!Saved(t), Torn}
      /\ saves' \in Seq(Dirs) /\ Talk!IsInjective(saves')
  BY SaveKeepsType DEF TalkInv
<1>2. \A d \in Dirs : file'[d] \in {file[d], Torn} \/ Kept(file'[d], done)
  BY <1>1, SavedIsPayload
<1>3. \A d \in Dirs : Talk!Readable(d)' => Kept(file[d], done)'
  BY <1>2, FilesKept
<1>4. /\ (ses \in [Procs -> Talk!Session \cup {Down}])'
      /\ \A q \in Procs : (Talk!Up(q) => Held(q, ses[q], done))'
  BY SessionsHeld
<1>5. Talk!TypeOK'
  BY <1>1, <1>4 DEF TalkInv, Talk!TypeOK, Held
<1> QED
  BY <1>3, <1>4, <1>5 DEF TalkInv

\* A session in which neither what it knows nor what its worker has in hand
\* has changed.
LEMMA StillHeld ==
  ASSUME NEW p, NEW D, NEW s, Held(p, s, D), NEW t \in Talk!Session,
         t.loop # "poll" => t.payload # NoFile, Targetless(t),
         t.digest = s.digest, t.runs = s.runs,
         t.payload \in {s.payload, NoFile},
         \/ t.step = s.step /\ t.made = s.made /\ t.last = s.last
         \/ t.step \notin {"find", "list", "show"}
  PROVE  Held(p, t, D)
<1>1. Known(t, D)
  BY DEF Held, Known, Kept
<1>2. InHand(p, t, D)
  BY DEF Held, InHand
<1> QED
  BY <1>1, <1>2 DEF Held

\* What the model is shown changes only the queued pages and the sight.
LEMMA SeenKeeps ==
  ASSUME NEW s \in Talk!Session,
         NEW seen \in {Talk!ShowMessages(s), Talk!Rejected(Talk!ShowMessages(s))}
  PROVE  /\ seen \in Talk!Session
         /\ \E g \in 0..MaxSaid, v \in {"unknown", "yes", "no"} :
              seen = [s EXCEPT !.pages = g, !.sight = v]
<1>1. 0 \in 0..MaxSaid
  BY TalkBounds
<1>2. PICK v \in {"unknown", "yes", "no"} :
        seen = [s EXCEPT !.pages = 0, !.sight = v]
  <2>1. Talk!ShowMessages(s) = [s EXCEPT !.pages = 0, !.sight = s.sight]
        /\ s.sight \in {"unknown", "yes", "no"}
    BY DEF Talk!ShowMessages, Talk!Session
  <2>2. Talk!Rejected(Talk!ShowMessages(s)) = [s EXCEPT !.pages = 0, !.sight = "no"]
    BY DEF Talk!ShowMessages, Talk!Rejected, Talk!Session
  <2> QED
    BY <2>1, <2>2
<1>3. seen \in Talk!Session
  BY <1>1, <1>2 DEF Talk!Session
<1> QED
  BY <1>1, <1>2, <1>3

\* What is known of the session of a process that is up.
LEMMA InSession ==
  ASSUME TalkInv, NEW p \in Procs, Talk!Up(p)
  PROVE  /\ Held(p, ses[p], done) /\ ses[p] \in Talk!Session
         /\ Targetless(ses[p]) /\ Known(ses[p], done)
         /\ ses[p].loop # "poll" => ses[p].payload # NoFile
BY DEF TalkInv, Held

\* The lines of the operator, the ways up and the ways down.
LEMMA LoopKeeps ==
  ASSUME TalkInv, NEW p \in Procs, Talk!LoopStep(p)
  PROVE  TalkInv'
<1>0. /\ said \in 0..MaxSaid /\ starts \in 0..MaxStarts
      /\ MaxSaid \in Nat /\ MaxStarts \in Nat
  BY TalkBounds DEF TalkInv, Talk!TypeOK
<1>1. CASE Talk!Launch(p)
  <2>1. \A m, t, d : /\ m \in {"chat", "debug"} /\ t \in Targets \cup {NoTarget}
                     /\ m = "chat" => t = NoTarget
                     /\ d \in Dirs
                     => /\ Held(p, Talk!Fresh(m, d, t), done)
                        /\ Talk!Readable(d) =>
                             Held(p, Talk!Loaded(Talk!Fresh(m, d, t), d), done)
    <3>1. \A m, t, d : Talk!Fresh(m, d, t).step = "idle"
                       /\ Talk!Fresh(m, d, t).payload = NoFile
      BY DEF Talk!Fresh
    <3> QED
      BY <3>1, FreshIsHeld, LoadedIsHeld
  <2>2. \A m, t : /\ m \in {"chat", "debug"} /\ t \in Targets \cup {NoTarget}
                  /\ m = "chat" => t = NoTarget
                  /\ \/ Talk!Continue(p, m, t) \/ Talk!StartFresh(p, m, t)
                     \/ Talk!ResumeDir(p, m, t)
                  => \E s : Held(p, s, done) /\ Talk!Start(p, s)
    BY <2>1 DEF Talk!Continue, Talk!NewestSession, Talk!Continues,
       Talk!StartFresh, Talk!ResumeDir
  <2>3. PICK s : Held(p, s, done) /\ Talk!Start(p, s)
    BY <1>1, <2>2 DEF Talk!Launch
  <2>4. Talk!Became(p, s) /\ Talk!Save(s) /\ UNCHANGED <<done, said>>
    BY <2>3 DEF Talk!Start, Talk!Became
  <2>5. starts' \in 0..MaxStarts
    BY <1>0, <1>1, <2>3 DEF Talk!Launch, Talk!Start
  <2>6. s \in Talk!Session /\ Known(s, done)
    BY <2>3 DEF Held
  <2> QED
    BY <1>0, <2>3, <2>4, <2>5, <2>6, SavesAndBecomes
<1>2. CASE Talk!Quit(p)
  <2>1. Talk!Up(p) /\ Talk!Save(ses[p]) /\ Talk!Became(p, Down)
        /\ UNCHANGED <<done, said, starts>>
    BY <1>2 DEF Talk!Quit, Talk!Became
  <2> QED
    BY <1>0, <2>1, InSession, SavesAndBecomes
<1>3. CASE Talk!Kill(p)
  <2>1. Talk!Became(p, Down) /\ UNCHANGED <<file, saves, done, said, starts>>
    BY <1>3 DEF Talk!Kill, Talk!Became
  <2> QED
    BY <1>0, <2>1, JustBecomes
<1>4. CASE Talk!KillInSave(p)
  <2>1. Talk!Up(p) /\ Talk!Write(ses[p]) /\ Talk!Became(p, Down)
        /\ UNCHANGED <<done, said, starts>>
    BY <1>4 DEF Talk!KillInSave, Talk!Became, Talk!Write
  <2> QED
    BY <1>0, <2>1, InSession, SavesAndBecomes
<1>5. CASE Talk!Message(p)
  <2>1. PICK s : s = ses[p] /\ Talk!Up(p) /\ said < MaxSaid
    BY <1>5 DEF Talk!Message, Talk!Polls
  <2>2. Held(p, s, done) /\ s \in Talk!Session /\ Targetless(s)
        /\ (s.loop # "poll" => s.payload # NoFile)
    BY <2>1, InSession
  <2>3. PICK e \in Talk!Entry, m \in 0..MaxSaid :
          e = Talk!NewEntry(s) /\ m = said + 1
    <3>1. said + 1 \in 1..MaxSaid /\ said + 1 \in 0..MaxSaid /\ s.talk \in Dirs
      BY <1>0, <2>1, <2>2 DEF Talk!Session
    <3>2. Talk!NewEntry(s) \in Talk!Entry
      BY <3>1 DEF Talk!NewEntry, Talk!Entry
    <3> QED
      BY <3>1, <3>2
  <2>4. PICK t : /\ t = [s EXCEPT !.log = @ \cup {e}, !.msg = m, !.step = "decide"]
                 /\ Talk!Became(p, t) /\ Talk!Save(t)
    BY <1>5, <2>1, <2>3 DEF Talk!Message
  <2>5. t \in Talk!Session /\ Targetless(t)
    BY <2>2, <2>4 DEF Talk!Session, Targetless
  <2>6. /\ t.loop = s.loop /\ t.payload = s.payload /\ t.digest = s.digest
        /\ t.runs = s.runs /\ t.step = "decide"
    BY <2>2, <2>4 DEF Talk!Session
  <2>7. Held(p, t, done)
    BY <2>2, <2>5, <2>6, StillHeld
  <2>8. Known(t, done)
    BY <2>7 DEF Held
  <2>9. said' \in 0..MaxSaid /\ UNCHANGED <<done, starts>>
    BY <1>5, <2>1, <2>3 DEF Talk!Message
  <2> QED
    BY <1>0, <2>4, <2>5, <2>7, <2>8, <2>9, SavesAndBecomes
<1>6. CASE Talk!Note(p)
  <2>1. PICK s : s = ses[p] /\ Talk!Up(p) /\ said < MaxSaid
    BY <1>6 DEF Talk!Note, Talk!Polls
  <2>2. Held(p, s, done) /\ s \in Talk!Session /\ Targetless(s)
        /\ (s.loop # "poll" => s.payload # NoFile)
    BY <2>1, InSession
  <2>3. PICK e \in Talk!Entry : e = Talk!NewEntry(s) /\ said + 1 \in 0..MaxSaid
    <3>1. said + 1 \in 1..MaxSaid /\ said + 1 \in 0..MaxSaid /\ s.talk \in Dirs
      BY <1>0, <2>1, <2>2 DEF Talk!Session
    <3>2. Talk!NewEntry(s) \in Talk!Entry
      BY <3>1 DEF Talk!NewEntry, Talk!Entry
    <3> QED
      BY <3>1, <3>2
  <2>4. PICK t : t = [s EXCEPT !.log = @ \cup {e}] /\ Talk!Became(p, t)
    BY <1>6, <2>1, <2>3 DEF Talk!Note
  <2>5. t \in Talk!Session /\ Targetless(t)
    BY <2>2, <2>4 DEF Talk!Session, Targetless
  <2>6. /\ t.loop = s.loop /\ t.payload = s.payload /\ t.digest = s.digest
        /\ t.runs = s.runs /\ t.step = s.step /\ t.made = s.made
        /\ t.last = s.last
    BY <2>2, <2>4 DEF Talk!Session
  <2>7. Held(p, t, done)
    BY <2>2, <2>5, <2>6, StillHeld
  <2> QED
    BY <1>6, <2>3, <2>4, <2>7, JustBecomes DEF Talk!Note
<1>7. CASE Talk!Use(p)
  <2>1. PICK s : s = ses[p] /\ Talk!Up(p) /\ s.mode = "debug"
    BY <1>7 DEF Talk!Use, Talk!Polls
  <2>2. Held(p, s, done) /\ s \in Talk!Session
        /\ (s.loop # "poll" => s.payload # NoFile)
    BY <2>1, InSession
  <2>3. PICK t : /\ \E g \in Targets : t = [s EXCEPT !.target = g]
                 /\ Talk!Became(p, t)
    BY <1>7, <2>1 DEF Talk!Use, Talk!SetTarget
  <2>4. t \in Talk!Session /\ Targetless(t)
    BY <2>1, <2>2, <2>3 DEF Talk!Session, Targetless
  <2>5. /\ t.loop = s.loop /\ t.payload = s.payload /\ t.digest = s.digest
        /\ t.runs = s.runs /\ t.step = s.step /\ t.made = s.made
        /\ t.last = s.last
    BY <2>2, <2>3 DEF Talk!Session
  <2>6. Held(p, t, done)
    BY <2>2, <2>4, <2>5, StillHeld
  <2> QED
    BY <1>0, <1>7, <2>3, <2>6, JustBecomes DEF Talk!Use
<1>8. CASE Talk!SaveNow(p)
  <2>1. Talk!Up(p) /\ Talk!ForcedSave(ses[p])
        /\ UNCHANGED <<ses, done, said, starts>>
    BY <1>8 DEF Talk!SaveNow, Talk!Polls
  <2>2. Talk!Became(p, ses[p])
    BY <2>1 DEF Talk!Became, TalkInv, Talk!TypeOK
  <2> QED
    BY <1>0, <2>1, <2>2, InSession, SavesAndBecomes
<1>9. CASE Talk!Finish(p)
  <2>1. PICK s : s = ses[p] /\ Talk!Up(p)
    BY <1>9 DEF Talk!Finish, Talk!Polls
  <2>2. Held(p, s, done) /\ s \in Talk!Session /\ Targetless(s)
        /\ (s.loop # "poll" => s.payload # NoFile)
    BY <2>1, InSession
  <2>3. PICK t : /\ t = [s EXCEPT !.step = "idle", !.msg = 0, !.calls = 0]
                 /\ Talk!Became(p, t) /\ Talk!Save(t)
    BY <1>9, <2>1 DEF Talk!Finish
  <2>4. t \in Talk!Session /\ Targetless(t)
    <3>1. 0 \in 0..MaxSaid /\ 0 \in 0..ToolBudget
      BY TalkBounds
    <3> QED
      BY <2>2, <2>3, <3>1 DEF Talk!Session, Targetless
  <2>5. /\ t.loop = s.loop /\ t.payload = s.payload /\ t.digest = s.digest
        /\ t.runs = s.runs /\ t.step = "idle"
    BY <2>2, <2>3 DEF Talk!Session
  <2>6. Held(p, t, done)
    BY <2>2, <2>4, <2>5, StillHeld
  <2>7. Known(t, done) /\ UNCHANGED <<done, said, starts>>
    BY <1>9, <2>6 DEF Talk!Finish, Held
  <2> QED
    BY <1>0, <2>3, <2>4, <2>6, <2>7, SavesAndBecomes
<1>10. CASE Talk!SlashResume(p)
  <2>1. PICK s : s = ses[p] /\ Talk!Up(p)
    BY <1>10 DEF Talk!SlashResume, Talk!Polls
  <2>2. Held(p, s, done) /\ s \in Talk!Session /\ Targetless(s)
    BY <2>1, InSession
  <2>3. PICK d \in Dirs, f \in Talk!Payload :
          /\ f # NoFile /\ Kept(f, done)
          /\ Talk!Became(p, [s EXCEPT !.talk = d, !.log = f.log, !.runs = f.runs,
                               !.payload = f, !.loop = "evidence"])
    BY <1>10, <2>1 DEF Talk!SlashResume, TalkInv, Talk!TypeOK, Talk!Readable
  <2> DEFINE t == [s EXCEPT !.talk = d, !.log = f.log, !.runs = f.runs,
                            !.payload = f, !.loop = "evidence"]
  <2>4. f.log \in SUBSET Talk!Entry /\ f.runs \in Seq(Talk!RunIds)
    BY DEF Talk!Payload
  <2>5. t \in Talk!Session /\ Targetless(t)
    BY <2>2, <2>3, <2>4 DEF Talk!Session, Targetless
  <2>6. /\ t.payload = f /\ t.digest = s.digest /\ t.runs = f.runs
        /\ t.step = s.step /\ t.made = s.made /\ t.last = s.last
    BY <2>2, <2>3 DEF Talk!Session
  <2>7. Known(t, done) /\ InHand(p, t, done)
    BY <2>2, <2>3, <2>6 DEF Held, Known, Kept, InHand
  <2>8. Held(p, t, done)
    BY <2>3, <2>5, <2>6, <2>7 DEF Held
  <2> HIDE DEF t
  <2>9. /\ Talk!Became(p, t)
        /\ UNCHANGED <<file, saves, done, said, starts>>
    BY <1>10, <2>3 DEF Talk!SlashResume, t
  <2> QED
    BY <1>0, <2>8, <2>9, JustBecomes
<1>11. CASE Talk!ResumeEvidence(p)
  <2>1. PICK s : s = ses[p] /\ Talk!Up(p) /\ s.loop = "evidence"
    BY <1>11 DEF Talk!ResumeEvidence
  <2>2. /\ Held(p, s, done) /\ s \in Talk!Session /\ Targetless(s)
        /\ s.payload # NoFile
    BY <2>1, InSession
  <2>3. PICK g \in Talk!Digest : g = s.payload.digest /\ GoodDigest(g, done)
    BY <2>2 DEF Talk!Session, Talk!Payload, Held, Known, Kept
  <2>4. PICK t : t = [s EXCEPT !.digest = g, !.loop = "check"]
                 /\ Talk!Became(p, t)
    BY <1>11, <2>1, <2>3 DEF Talk!ResumeEvidence
  <2>5. t \in Talk!Session /\ Targetless(t)
    BY <2>2, <2>4 DEF Talk!Session, Targetless
  <2>6. /\ t.payload = s.payload /\ t.digest = g /\ t.runs = s.runs
        /\ t.step = s.step /\ t.made = s.made /\ t.last = s.last
    BY <2>2, <2>4 DEF Talk!Session
  <2>7. Known(t, done) /\ InHand(p, t, done)
    BY <2>2, <2>3, <2>6 DEF Held, Known, Kept, InHand
  <2>8. Held(p, t, done)
    BY <2>2, <2>5, <2>6, <2>7 DEF Held
  <2>9. UNCHANGED <<file, saves, done, said, starts>>
    BY <1>11 DEF Talk!ResumeEvidence
  <2> QED
    BY <1>0, <2>4, <2>8, <2>9, JustBecomes
<1>12. CASE Talk!ResumeCheck(p)
  <2>1. PICK s : s = ses[p] /\ Talk!Up(p) /\ s.loop = "check"
    BY <1>12 DEF Talk!ResumeCheck
  <2>2. /\ Held(p, s, done) /\ s \in Talk!Session /\ Targetless(s)
        /\ s.payload # NoFile
    BY <2>1, InSession
  <2>3. PICK t : /\ \E l \in {"rebuild", "target"} : t = [s EXCEPT !.loop = l]
                 /\ Talk!Became(p, t)
    BY <1>12, <2>1 DEF Talk!ResumeCheck
  <2>4. t \in Talk!Session /\ Targetless(t)
    BY <2>2, <2>3 DEF Talk!Session, Targetless
  <2>5. /\ t.payload = s.payload /\ t.digest = s.digest /\ t.runs = s.runs
        /\ t.step = s.step /\ t.made = s.made /\ t.last = s.last
    BY <2>2, <2>3 DEF Talk!Session
  <2>6. Held(p, t, done)
    BY <2>2, <2>4, <2>5, StillHeld
  <2>7. UNCHANGED <<file, saves, done, said, starts>>
    BY <1>12 DEF Talk!ResumeCheck
  <2> QED
    BY <1>0, <2>3, <2>6, <2>7, JustBecomes
<1>13. CASE Talk!ResumeRebuild(p)
  <2>1. PICK s : s = ses[p] /\ Talk!Up(p) /\ s.loop = "rebuild"
    BY <1>13 DEF Talk!ResumeRebuild
  <2>2. /\ Held(p, s, done) /\ s \in Talk!Session /\ Targetless(s)
        /\ s.payload # NoFile
    BY <2>1, InSession
  <2>3. PICK g \in Talk!Digest :
          g = Talk!Rebuilt(s.digest, s.runs) /\ GoodDigest(g, done)
    <3>1. /\ s.digest \in Talk!Digest /\ s.runs \in Seq(Talk!RunIds)
          /\ GoodDigest(s.digest, done) /\ GoodRuns(s.runs, done)
      BY <2>2 DEF Talk!Session, Held, Known, Kept
    <3> QED
      BY <3>1, RebuiltIsGood
  <2>4. PICK t : t = [s EXCEPT !.digest = g, !.loop = "target"]
                 /\ Talk!Became(p, t)
    BY <1>13, <2>1, <2>3 DEF Talk!ResumeRebuild
  <2>5. t \in Talk!Session /\ Targetless(t)
    BY <2>2, <2>4 DEF Talk!Session, Targetless
  <2>6. /\ t.payload = s.payload /\ t.digest = g /\ t.runs = s.runs
        /\ t.step = s.step /\ t.made = s.made /\ t.last = s.last
    BY <2>2, <2>4 DEF Talk!Session
  <2>7. Known(t, done) /\ InHand(p, t, done)
    BY <2>2, <2>3, <2>6 DEF Held, Known, Kept, InHand
  <2>8. Held(p, t, done)
    BY <2>2, <2>5, <2>6, <2>7 DEF Held
  <2>9. UNCHANGED <<file, saves, done, said, starts>>
    BY <1>13 DEF Talk!ResumeRebuild
  <2> QED
    BY <1>0, <2>4, <2>8, <2>9, JustBecomes
<1>14. CASE Talk!ResumeTarget(p)
  <2>1. PICK s : s = ses[p] /\ Talk!Up(p) /\ s.loop = "target"
    BY <1>14 DEF Talk!ResumeTarget
  <2>2. /\ Held(p, s, done) /\ s \in Talk!Session /\ Targetless(s)
        /\ s.payload # NoFile
    BY <2>1, InSession
  <2>3. s.payload \in Talk!Payload
    BY <2>2 DEF Talk!Session
  <2>4. PICK g \in Targets \cup {NoTarget} :
          /\ g = Talk!TargetLoaded(s, s.payload)
          /\ s.mode = "chat" => g = NoTarget
    BY <2>2, <2>3, TargetStaysOff
  <2>5. PICK t : t = [s EXCEPT !.target = g, !.payload = NoFile, !.loop = "poll"]
                 /\ Talk!Became(p, t)
    BY <1>14, <2>1, <2>4 DEF Talk!ResumeTarget
  <2>6. t \in Talk!Session /\ Targetless(t)
    BY <2>2, <2>4, <2>5 DEF Talk!Session, Targetless
  <2>7. /\ t.payload = NoFile /\ t.loop = "poll" /\ t.digest = s.digest
        /\ t.runs = s.runs /\ t.step = s.step /\ t.made = s.made
        /\ t.last = s.last
    BY <2>2, <2>5 DEF Talk!Session
  <2>8. Held(p, t, done)
    BY <2>2, <2>6, <2>7, StillHeld
  <2>9. UNCHANGED <<file, saves, done, said, starts>>
    BY <1>14 DEF Talk!ResumeTarget
  <2> QED
    BY <1>0, <2>5, <2>8, <2>9, JustBecomes
<1>15. CASE Talk!ResumeTorn(p)
  <2>1. Talk!Up(p) /\ Talk!Save(ses[p]) /\ Talk!Became(p, Down)
        /\ UNCHANGED <<done, said, starts>>
    BY <1>15 DEF Talk!ResumeTorn, Talk!Polls, Talk!Became
  <2> QED
    BY <1>0, <2>1, InSession, SavesAndBecomes
<1> QED
  BY <1>1, <1>2, <1>3, <1>4, <1>5, <1>6, <1>7, <1>8, <1>9, <1>10, <1>11, <1>12,
     <1>13, <1>14, <1>15 DEF Talk!LoopStep

\* A session that has taken one of the quiet ways on: what it knows stands.
LEMMA QuietStep ==
  ASSUME TalkInv, NEW p \in Procs, Talk!Up(p), NEW t \in Talk!Session,
         t.loop = ses[p].loop, t.payload = ses[p].payload, Targetless(t),
         t.digest = ses[p].digest, t.runs = ses[p].runs,
         t.step \in {"decide", "act", "over"}, Talk!Became(p, t),
         UNCHANGED <<file, saves, done, said, starts>>
  PROVE  TalkInv'
<1>1. Held(p, ses[p], done) /\ (ses[p].loop # "poll" => ses[p].payload # NoFile)
  BY InSession
<1>2. t.step \notin {"find", "list", "show"}
  OBVIOUS
<1>3. Held(p, t, done)
  BY <1>1, <1>2, StillHeld
<1>4. said' \in 0..MaxSaid
  BY DEF TalkInv, Talk!TypeOK
<1> QED
  BY <1>3, <1>4, JustBecomes

\* The steps of the agent's turn.
LEMMA AgentKeeps ==
  ASSUME TalkInv, NEW p \in Procs, Talk!AgentStep(p)
  PROVE  TalkInv'
<1>0. /\ said \in 0..MaxSaid /\ 0 \in 0..MaxSaid
      /\ done \in Seq(Procs \cup {Down}) /\ Len(done) \in 0..MaxDiagnoses
      /\ DOMAIN done = 1..Len(done) /\ MaxDiagnoses \in Nat
      /\ Talk!RunIds = 0..MaxDiagnoses
  BY TalkBounds DEF TalkInv, Talk!TypeOK, Talk!RunIds
<1>1. CASE Talk!Decide(p)
  <2>1. Talk!Up(p) /\ ses[p] \in Talk!Session /\ Targetless(ses[p])
    BY <1>1, InSession DEF Talk!Decide
  <2>2. PICK s \in Talk!Session : s = ses[p] /\ Targetless(s)
    BY <2>1
  <2>3. PICK turn \in Talk!Allowed(s.mode),
             seen \in {Talk!ShowMessages(s)} \cup
               (IF s.pages # 0 THEN {Talk!Rejected(Talk!ShowMessages(s))} ELSE {}) :
          \/ Talk!Became(p, [seen EXCEPT !.step = "over"])
          \/ /\ turn # "none" /\ ~Talk!Spent(s)
             /\ \E t \in Talk!TurnTargets(s, turn) :
                  Talk!Became(p, [seen EXCEPT !.step = "act", !.tool = turn,
                                    !.calls = @ + 1, !.target = t, !.aim = t])
    BY <1>1, <2>2 DEF Talk!Decide, Talk!TargetArgv
  <2>4. /\ seen \in Talk!Session
        /\ seen.calls = s.calls /\ seen.mode = s.mode /\ seen.target = s.target
        /\ seen.aim = s.aim /\ seen.tool = s.tool /\ seen.loop = s.loop
        /\ seen.payload = s.payload /\ seen.digest = s.digest
        /\ seen.runs = s.runs
    <3>1. PICK g \in 0..MaxSaid, v \in {"unknown", "yes", "no"} :
            seen = [s EXCEPT !.pages = g, !.sight = v]
      <4>1. seen \in {Talk!ShowMessages(s), Talk!Rejected(Talk!ShowMessages(s))}
        BY <2>3
      <4> QED
        BY <4>1, SeenKeeps
    <3> QED
      BY <3>1 DEF Talk!Session
  <2>5. CASE Talk!Became(p, [seen EXCEPT !.step = "over"])
    <3>1. PICK t : t = [seen EXCEPT !.step = "over"]
      OBVIOUS
    <3>2. /\ t \in Talk!Session /\ Targetless(t) /\ t.step = "over"
          /\ t.loop = s.loop /\ t.payload = s.payload /\ t.digest = s.digest
          /\ t.runs = s.runs
      BY <2>2, <2>4, <3>1 DEF Talk!Session, Targetless
    <3> QED
      BY <1>1, <2>1, <2>2, <2>5, <3>1, <3>2, QuietStep DEF Talk!Decide
  <2>6. ASSUME turn # "none", ~Talk!Spent(s), NEW g \in Talk!TurnTargets(s, turn),
               Talk!Became(p, [seen EXCEPT !.step = "act", !.tool = turn,
                                 !.calls = @ + 1, !.target = g, !.aim = g])
        PROVE  TalkInv'
    <3>1. turn \in Talk!DebugTools
      BY <2>6 DEF Talk!Allowed, Talk!DebugTools, Talk!ChatTools
    <3>2. g \in Targets \cup {NoTarget}
      BY DEF Talk!TurnTargets, Talk!Session
    <3>3. s.mode = "chat" => g = NoTarget /\ turn \notin Talk!DebugOnly
      <4>1. s.mode = "chat" => turn \in {"docs", "run", "file", "none"}
        BY DEF Talk!Allowed, Talk!ChatTools
      <4>2. s.mode = "chat" => g = s.target
        BY <4>1 DEF Talk!TurnTargets
      <4> QED
        BY <2>2, <4>1, <4>2 DEF Targetless, Talk!DebugOnly, Talk!ChatTools,
           Talk!DebugTools
    <3>4. PICK c \in 0..ToolBudget : c = seen.calls + 1
      BY <2>4, <2>6, TalkBounds DEF Talk!Spent, Talk!Session
    <3>5. PICK t : t = [seen EXCEPT !.step = "act", !.tool = turn, !.calls = c,
                                    !.target = g, !.aim = g]
      OBVIOUS
    <3>6. Talk!Became(p, t)
      BY <2>6, <3>4, <3>5
    <3>7. t \in Talk!Session /\ t.step = "act"
          /\ t.loop = s.loop /\ t.payload = s.payload /\ t.digest = s.digest
          /\ t.runs = s.runs
      BY <2>4, <3>1, <3>2, <3>5 DEF Talk!Session
    <3>8. Targetless(t)
      BY <2>4, <3>3, <3>5 DEF Talk!Session, Targetless
    <3> QED
      BY <1>1, <2>1, <2>2, <3>6, <3>7, <3>8, QuietStep DEF Talk!Decide
  <2> QED
    BY <2>3, <2>5, <2>6
<1>2. CASE Talk!Cancelled(p)
  <2>1. PICK s \in Talk!Session : s = ses[p] /\ Talk!Up(p) /\ Targetless(s)
    BY <1>2, InSession DEF Talk!Cancelled
  <2>2. PICK t : t = [s EXCEPT !.step = "over"]
    OBVIOUS
  <2>3. /\ t \in Talk!Session /\ Targetless(t) /\ t.step = "over"
        /\ t.loop = s.loop /\ t.payload = s.payload /\ t.digest = s.digest
        /\ t.runs = s.runs
    BY <2>1, <2>2 DEF Talk!Session, Targetless
  <2> QED
    BY <1>2, <2>1, <2>2, <2>3, QuietStep DEF Talk!Cancelled
<1>3. CASE Talk!Diagnose(p)
  <2>1. PICK s \in Talk!Session :
          /\ s = ses[p] /\ Talk!Up(p) /\ Targetless(s) /\ Known(s, done)
          /\ s.loop # "poll" => s.payload # NoFile
    BY <1>3, InSession DEF Talk!Diagnose
  <2>2. PICK m \in Talk!RunIds, D \in Seq(Procs \cup {Down}) :
          m = Len(done) + 1 /\ D = Append(done, p) /\ done' = D
    BY <1>0, <1>3, OneRunMore DEF Talk!Diagnose
  <2>3. PICK t : t = [s EXCEPT !.step = "find", !.made = m]
    OBVIOUS
  <2>4. /\ t \in Talk!Session /\ Targetless(t) /\ t.step = "find"
        /\ t.loop = s.loop /\ t.payload = s.payload /\ t.digest = s.digest
        /\ t.runs = s.runs /\ t.made = m
    <3>1. t \in Talk!Session
      BY <2>3 DEF Talk!Session
    <3>2. Targetless(t)
      BY <2>1, <2>3 DEF Talk!Session, Targetless
    <3>3. /\ t.step = "find" /\ t.loop = s.loop /\ t.payload = s.payload
          /\ t.digest = s.digest /\ t.runs = s.runs /\ t.made = m
      BY <2>3 DEF Talk!Session
    <3> QED
      BY <3>1, <3>2, <3>3
  <2>5. Known(t, D)
    <3>1. Known(s, D)
      BY <1>0, <2>1, <2>2, KnownGrows
    <3> QED
      BY <2>4, <3>1 DEF Known, Kept
  <2>6. InHand(p, t, D)
    <3>1. DOMAIN D = 1..(Len(done) + 1) /\ Len(done) \in Nat /\ D[Len(done) + 1] = p
      BY <1>0, <2>2, OneRunMore
    <3> QED
      BY <2>2, <2>4, <3>1 DEF InHand
  <2>7. Held(p, t, D) /\ Talk!Became(p, t)
    BY <1>3, <2>1, <2>2, <2>3, <2>4, <2>5, <2>6 DEF Held, Talk!Diagnose
  <2>8. /\ (ses \in [Procs -> Talk!Session \cup {Down}])'
        /\ \A q \in Procs : (Talk!Up(q) => Held(q, ses[q], done))'
    BY <2>2, <2>7, SessionsHeld
  <2>9. UNCHANGED <<file, saves, said, starts>>
    BY <1>3 DEF Talk!Diagnose
  <2>10. \A d \in Dirs : Talk!Readable(d)' => Kept(file[d], done)'
    BY <2>2, <2>9, FilesKept
  <2>11. done' \in Seq(Procs \cup {Down}) /\ Len(done') <= MaxDiagnoses
    BY <1>0, <2>2, OneRunMore
  <2>12. Talk!TypeOK'
    BY <2>8, <2>9, <2>11 DEF TalkInv, Talk!TypeOK, Held
  <2> QED
    BY <2>8, <2>10, <2>12 DEF TalkInv
<1>4. CASE Talk!FindRun(p)
  <2>1. PICK s \in Talk!Session :
          /\ s = ses[p] /\ Held(p, s, done) /\ s.step = "find"
          /\ s.loop # "poll" => s.payload # NoFile
    BY <1>4, InSession DEF Talk!FindRun
  <2>2. PICK l \in Talk!RunIds : l = Len(done)
    BY <1>0
  <2>3. PICK t : t = [s EXCEPT !.step = "list", !.last = l] /\ Talk!Became(p, t)
    BY <1>4, <2>1, <2>2 DEF Talk!FindRun
  <2>4. /\ t \in Talk!Session /\ t.step = "list" /\ t.last = l
        /\ t.loop = s.loop /\ t.payload = s.payload /\ t.digest = s.digest
        /\ t.runs = s.runs /\ t.made = s.made
    BY <2>3 DEF Talk!Session
  <2>5. Targetless(t)
    BY <2>1, <2>3 DEF Held, Talk!Session, Targetless
  <2>6. Known(t, done)
    BY <2>1, <2>4 DEF Held, Known, Kept
  <2>7. InHand(p, t, done)
    <3>1. /\ s.made \in DOMAIN done /\ done[s.made] = p
          /\ \A r \in DOMAIN done : r > s.made => done[r] # p
      BY <2>1 DEF Held, InHand
    <3>2. l \in DOMAIN done /\ (l # s.made => l > s.made)
      BY <1>0, <2>2, <3>1
    <3> QED
      BY <2>4, <3>1, <3>2 DEF InHand
  <2>8. Held(p, t, done) /\ UNCHANGED <<file, saves, done, said, starts>>
    BY <1>4, <2>1, <2>4, <2>5, <2>6, <2>7 DEF Held, Talk!FindRun
  <2> QED
    BY <1>0, <2>3, <2>8, JustBecomes
<1>5. CASE Talk!LoadRun(p)
  <2>1. PICK s \in Talk!Session :
          /\ s = ses[p] /\ Held(p, s, done)
          /\ s.loop # "poll" => s.payload # NoFile
    BY <1>5, InSession DEF Talk!LoadRun
  <2>0. PICK r \in DOMAIN done :
          Talk!Became(p, [s EXCEPT !.step = "list", !.last = r, !.made = r])
    BY <1>5, <2>1 DEF Talk!LoadRun
  <2>2. PICK t : t = [s EXCEPT !.step = "list", !.last = r, !.made = r]
    OBVIOUS
  <2> r \in Talk!RunIds
    BY <1>0
  <2>3. /\ t \in Talk!Session /\ t.step = "list" /\ t.last = r /\ t.made = r
        /\ t.loop = s.loop /\ t.payload = s.payload /\ t.digest = s.digest
        /\ t.runs = s.runs
    BY <2>2 DEF Talk!Session
  <2>4. Targetless(t)
    BY <2>1, <2>2 DEF Held, Talk!Session, Targetless
  <2>5. Known(t, done) /\ InHand(p, t, done)
    BY <2>1, <2>3 DEF Held, Known, Kept, InHand
  <2>6. Held(p, t, done) /\ UNCHANGED <<file, saves, done, said, starts>>
    BY <1>5, <2>1, <2>3, <2>4, <2>5 DEF Held, Talk!LoadRun
  <2> QED
    BY <1>0, <2>0, <2>2, <2>6, JustBecomes
<1>6. CASE Talk!ListRun(p)
  <2>1. PICK s \in Talk!Session :
          /\ s = ses[p] /\ Held(p, s, done) /\ s.step = "list"
          /\ s.loop # "poll" => s.payload # NoFile
    BY <1>6, InSession DEF Talk!ListRun
  <2>2. /\ s.last \in DOMAIN done /\ s.runs \in Seq(Talk!RunIds)
        /\ s.last \in Talk!RunIds /\ GoodRuns(s.runs, done)
    BY <2>1 DEF Held, InHand, Known, Kept, Talk!Session
  <2>3. PICK R \in Seq(Talk!RunIds) :
          /\ R = IF s.tool = "run" /\ s.last \in Talk!ToSet(s.runs) THEN s.runs
                 ELSE Append(s.runs, s.last)
          /\ GoodRuns(R, done)
    <3>1. /\ Append(s.runs, s.last) \in Seq(Talk!RunIds)
          /\ GoodRuns(Append(s.runs, s.last), done)
      BY <2>2 DEF GoodRuns
    <3> QED
      BY <2>2, <3>1
  <2>4. PICK t : t = [s EXCEPT !.step = "show", !.runs = R] /\ Talk!Became(p, t)
    BY <1>6, <2>1, <2>3 DEF Talk!ListRun
  <2>5. /\ t \in Talk!Session /\ t.step = "show" /\ t.last = s.last
        /\ t.made = s.made /\ t.loop = s.loop /\ t.payload = s.payload
        /\ t.digest = s.digest /\ t.runs = R
    BY <2>4 DEF Talk!Session
  <2>6. Targetless(t)
    BY <2>1, <2>4 DEF Held, Talk!Session, Targetless
  <2>7. Known(t, done) /\ InHand(p, t, done)
    BY <2>1, <2>3, <2>5 DEF Held, Known, Kept, InHand
  <2>8. Held(p, t, done) /\ UNCHANGED <<file, saves, done, said, starts>>
    BY <1>6, <2>1, <2>5, <2>6, <2>7 DEF Held, Talk!ListRun
  <2> QED
    BY <1>0, <2>4, <2>8, JustBecomes
<1>7. CASE Talk!ShowRun(p)
  <2>1. PICK s \in Talk!Session :
          /\ s = ses[p] /\ Held(p, s, done) /\ s.step = "show"
          /\ s.loop # "poll" => s.payload # NoFile
    BY <1>7, InSession DEF Talk!ShowRun
  <2>2. PICK g \in Talk!Digest :
          g = [run |-> s.last, diag |-> s.made] /\ GoodDigest(g, done)
    <3>1. /\ s.last \in DOMAIN done /\ s.made \in DOMAIN done
          /\ s.last # s.made => s.last > s.made /\ done[s.last] # done[s.made]
          /\ s.last \in Talk!RunIds /\ s.made \in Talk!RunIds
      BY <2>1 DEF Held, InHand, Talk!Session
    <3>2. PICK g : g = [run |-> s.last, diag |-> s.made]
      OBVIOUS
    <3>3. g.run = s.last /\ g.diag = s.made /\ g \in Talk!Digest
      BY <3>1, <3>2 DEF Talk!Digest
    <3>4. GoodDigest(g, done)
      BY <3>1, <3>3 DEF GoodDigest
    <3> QED
      BY <3>2, <3>3, <3>4
  <2>3. PICK t : t = [s EXCEPT !.step = "decide", !.tool = "none",
                        !.aim = NoTarget, !.digest = g, !.made = 0]
                 /\ Talk!Became(p, t)
    BY <1>7, <2>1, <2>2 DEF Talk!ShowRun, Talk!NoRun
  <2>4. /\ t \in Talk!Session /\ t.step = "decide" /\ t.loop = s.loop
        /\ t.payload = s.payload /\ t.digest = g /\ t.runs = s.runs
    <3>1. 0 \in Talk!RunIds
      BY <1>0
    <3> QED
      BY <2>3, <3>1 DEF Talk!Session
  <2>5. Targetless(t)
    BY <2>1, <2>3 DEF Held, Talk!Session, Targetless, Talk!DebugOnly,
       Talk!DebugTools
  <2>6. Known(t, done) /\ InHand(p, t, done)
    BY <2>1, <2>2, <2>4 DEF Held, Known, Kept, InHand
  <2>7. Held(p, t, done) /\ UNCHANGED <<file, saves, done, said, starts>>
    BY <1>7, <2>1, <2>4, <2>5, <2>6 DEF Held, Talk!ShowRun
  <2> QED
    BY <1>0, <2>3, <2>7, JustBecomes
<1>8. CASE Talk!LookUp(p)
  <2>1. PICK s \in Talk!Session : s = ses[p] /\ Talk!Up(p) /\ Targetless(s)
    BY <1>8, InSession DEF Talk!LookUp
  <2>2. PICK v \in {"unknown", "yes", "no"}, g \in 0..MaxSaid :
          Talk!Became(p, [s EXCEPT !.step = "decide", !.tool = "none",
                            !.aim = NoTarget, !.sight = v, !.pages = g])
    <3>1. PICK v \in Talk!Sights(s), found \in BOOLEAN :
            Talk!Became(p, [s EXCEPT !.step = "decide", !.tool = "none",
                              !.aim = NoTarget, !.sight = v,
                              !.pages = IF v = "yes" /\ found THEN s.msg ELSE @])
      BY <1>8, <2>1 DEF Talk!LookUp
    <3>2. s.msg \in 0..MaxSaid /\ s.pages \in 0..MaxSaid
      BY DEF Talk!Session
    <3>3. v \in {"unknown", "yes", "no"}
      BY DEF Talk!Sights, Talk!Session
    <3>4. (IF v = "yes" /\ found THEN s.msg ELSE s.pages) \in 0..MaxSaid
      BY <3>2
    <3> QED
      BY <3>1, <3>3, <3>4
  <2>3. PICK t : t = [s EXCEPT !.step = "decide", !.tool = "none",
                        !.aim = NoTarget, !.sight = v, !.pages = g]
    OBVIOUS
  <2>4. /\ t \in Talk!Session /\ t.step = "decide" /\ t.loop = s.loop
        /\ t.payload = s.payload /\ t.digest = s.digest /\ t.runs = s.runs
    BY <2>3 DEF Talk!Session
  <2>5. Targetless(t)
    BY <2>1, <2>3 DEF Talk!Session, Targetless, Talk!DebugOnly, Talk!DebugTools
  <2> QED
    BY <1>8, <2>1, <2>2, <2>3, <2>4, <2>5, QuietStep DEF Talk!LookUp
<1>9. CASE Talk!Verify(p) \/ Talk!Observe(p)
  <2>1. PICK s \in Talk!Session : s = ses[p] /\ Talk!Up(p) /\ Targetless(s)
    BY <1>9, InSession DEF Talk!Verify, Talk!Observe
  <2>2. PICK t : t = [s EXCEPT !.step = "decide", !.tool = "none",
                        !.aim = NoTarget]
    OBVIOUS
  <2>3. Talk!Became(p, t) /\ UNCHANGED <<file, saves, done, said, starts>>
    BY <1>9, <2>1, <2>2 DEF Talk!Verify, Talk!Observe, Talk!Observed
  <2>4. /\ t \in Talk!Session /\ t.step = "decide" /\ t.loop = s.loop
        /\ t.payload = s.payload /\ t.digest = s.digest /\ t.runs = s.runs
    BY <2>2 DEF Talk!Session
  <2>5. Targetless(t)
    BY <2>1, <2>2 DEF Talk!Session, Targetless, Talk!DebugOnly, Talk!DebugTools
  <2> QED
    BY <2>1, <2>3, <2>4, <2>5, QuietStep
<1> QED
  BY <1>1, <1>2, <1>3, <1>4, <1>5, <1>6, <1>7, <1>8, <1>9 DEF Talk!AgentStep

\* A diagnosis made outside of every session.
LEMMA ElsewhereKeeps ==
  ASSUME TalkInv, Talk!DiagnoseElsewhere
  PROVE  TalkInv'
<1>1. /\ done \in Seq(Procs \cup {Down}) /\ done' = Append(done, Down)
      /\ Len(done) < MaxDiagnoses /\ MaxDiagnoses \in Nat
      /\ UNCHANGED <<ses, file, saves, said, starts>>
  BY TalkBounds DEF TalkInv, Talk!TypeOK, Talk!DiagnoseElsewhere
<1>2. \A p \in Procs : (Talk!Up(p) => Held(p, ses[p], done))'
  BY <1>1, HeldGrows, TalkBounds DEF TalkInv, Talk!Up
<1>3. \A d \in Dirs : Talk!Readable(d)' => Kept(file[d], done)'
  BY <1>1, FilesKept
<1>4. done' \in Seq(Procs \cup {Down}) /\ Len(done') <= MaxDiagnoses
  BY <1>1, OneRunMore
<1>5. Talk!TypeOK'
  BY <1>1, <1>2, <1>4 DEF TalkInv, Talk!TypeOK, Talk!Up
<1> QED
  BY <1>2, <1>3, <1>5 DEF TalkInv

\* Every step of the conversation keeps what is held of it.
LEMMA TalkStepKeeps == TalkInv /\ [Talk!Next]_talkVars => TalkInv'
<1> SUFFICES ASSUME TalkInv, [Talk!Next]_talkVars PROVE TalkInv'
  OBVIOUS
<1>1. CASE Talk!Next
  BY <1>1, ElsewhereKeeps, LoopKeeps, AgentKeeps DEF Talk!Next
<1>2. CASE UNCHANGED talkVars
  BY <1>2 DEF talkVars, TalkInv, Talk!TypeOK, Talk!Up, Talk!Readable
<1> QED
  BY <1>1, <1>2

-----------------------------------------------------------------------------
\* In the composed specification, a step is one of the conversation or leaves
\* it alone.
LEMMA TalkAlone == [MemoryNext]_memoryVars => [Talk!Next]_talkVars
BY DEF MemoryNext, memoryVars, talkVars, TalkStep, DocStep, LearnStep, ScoreStep,
   EvalStep

LEMMA TalkStarts == MemoryInit => TalkInv
BY TalkBounds DEF MemoryInit, Talk!Init, TalkInv, Talk!TypeOK, Talk!IsInjective,
   Talk!Up, Talk!Readable

\* The invariant holds of every behaviour of any number of processes.
LEMMA TalkInvariant == MemorySpec => []TalkInv
<1>1. TalkInv /\ [MemoryNext]_memoryVars => TalkInv'
  BY TalkAlone, TalkStepKeeps
<1> QED
  BY TalkStarts, <1>1, PTL DEF MemorySpec

\* TypeOK of Conversation: each session, each session.json and the order of
\* the saves keep their shape, and a /resume under way has its payload.
THEOREM TalkTypeCorrect == MemorySpec => []Talk!TypeOK
<1>1. TalkInv => Talk!TypeOK
  BY DEF TalkInv
<1> QED
  BY TalkInvariant, <1>1, PTL

\* ChatIsTargetless, for any number of processes and directories: no way of
\* starting, continuing or resuming gives a chat a target.
THEOREM ChatsAreTargetless == MemorySpec => []ChatIsTargetless
<1>1. TalkInv => ChatIsTargetless
  BY DEF TalkInv, Held, Targetless, ChatIsTargetless, Talk!ChatIsTargetless
<1> QED
  BY TalkInvariant, <1>1, PTL

\* DigestIsRecorded, for any number of processes and directories and for
\* diagnoses made elsewhere meanwhile: the digest a session reasons from, or
\* one that was saved, is that of the run it names, or names a newer run of
\* another process over the diagnosis the session made; also when a /resume
\* falls between the worker's statements (repl.py:1116-1120, 543-546,
\* 1698-1715), a save is cut off or the process is killed.
THEOREM DigestsAreRecorded == MemorySpec => []DigestIsRecorded
<1>1. TalkInv => DigestIsRecorded
  <2>1. \A g : GoodDigest(g, done) => Talk!Recorded(g)
    BY DEF GoodDigest, Talk!Recorded
  <2> QED
    BY <2>1 DEF TalkInv, Held, Known, Kept, DigestIsRecorded,
       Talk!DigestIsRecorded
<1> QED
  BY TalkInvariant, <1>1, PTL

-----------------------------------------------------------------------------
(* DocLibrary.  One process works on the library, and anybody may change   *)
(* the sources by hand.                                                    *)

OneProcess == \A p, q \in Procs : p = q

\* The operations under way.
Jobs ==
  [at : {"file", "unlink", "load", "chunks", "chunks-write", "chunks-replace",
         "manifest", "manifest-write", "manifest-replace"},
   kind : {"add", "reindex", "remove", "retag"},
   files : Seq(Names \X (Versions \cup {None})), gone : SUBSET Names,
   tags : Docs!Tags, force : BOOLEAN,
   manifest : [Names -> Docs!Entries \cup {None}],
   cached : SUBSET Docs!Chunks, fresh : SUBSET Docs!Chunks,
   touched : SUBSET Names]

\* Between its two replacements.
Late(w) == w.at \in {"manifest", "manifest-write", "manifest-replace"}

\* What of a manifest m an operation has changed, as Touches.
Touched(w, m) ==
  IF w.at = "idle" THEN {}
  ELSE IF w.kind = "retag" THEN {n \in Names : w.manifest[n] # m[n]}
  ELSE w.touched

ChunkOf(n, e) == [title |-> n, version |-> e.version, tags |-> e.tags]

\* What the manifest m lists is among the chunks cs, but for the names in out.
Backed(m, cs, out) ==
  \A n \in Names \ out :
    m[n] # None /\ m[n].ok => ChunkOf(n, m[n]) \in cs

\* The names of gone are neither listed in m nor answered for in cs.
NotIn(m, cs, gone) ==
  \A n \in gone : m[n] = None /\ \A c \in cs : c.title # n

NoSource(pf, gone) == \A n \in gone : pf[n] = None

\* An operation, in its place: what it will leave is backed and without what
\* was removed; what it read is still so, and it has written what it holds.
JobOK(w, pf, m, cs, mt, ct, h, r) ==
  /\ w \in Jobs
  /\ Backed(w.manifest, Docs!NewChunks(w), h \ Docs!Redone(w))
  /\ NotIn(w.manifest, Docs!NewChunks(w), r \cup w.gone)
  /\ NoSource(pf, w.gone)
  /\ w.at = "file" => w.gone = {}
  /\ w.at = "unlink" => /\ \E n \in Names : w.touched = {n}
                        /\ NotIn(w.manifest, Docs!NewChunks(w), w.touched)
  /\ w.at \in {"unlink", "load"} => w.cached = cs
  /\ \A n \in Names \ Touched(w, m) : w.manifest[n] = m[n]
  /\ w.at = "chunks-replace" => ct = Docs!NewChunks(w)
  /\ w.at = "manifest-replace" => mt = w.manifest
  /\ Late(w) => cs = Docs!NewChunks(w)

\* The library, with that process at w.
LibOK(w, pf, m, cs, mt, ct, h, r) ==
  /\ NotIn(m, cs, r)
  /\ NoSource(pf, r)
  /\ Backed(m, cs, IF Late(w) THEN h \cup Touched(w, m) ELSE h)
  /\ w = Docs!Idle \/ JobOK(w, pf, m, cs, mt, ct, h, r)

LibInv ==
  /\ Docs!TypeOK
  /\ work \in [Procs -> Jobs \cup {Docs!Idle}]
  /\ \A p \in Procs :
       LibOK(work[p], pdfs, manifest, chunks, manifestTmp, chunksTmp, hurt, removed)

\* The process is the only one: where it goes is where the work is.
LEMMA OnlyOneWorks ==
  ASSUME OneProcess, LibInv, NEW p \in Procs, NEW w \in Jobs \cup {Docs!Idle},
         Docs!Go(p, w), Docs!TypeOK',
         LibOK(w, pdfs', manifest', chunks', manifestTmp', chunksTmp', hurt',
               removed')
  PROVE  LibInv'
<1>1. work' = [work EXCEPT ![p] = w]
  BY DEF Docs!Go
<1>2. work' \in [Procs -> Jobs \cup {Docs!Idle}] /\ work'[p] = w
  BY <1>1 DEF LibInv
<1>3. \A q \in Procs : work'[q] = w
  BY <1>2 DEF OneProcess
<1>4. \A q \in Procs :
        LibOK(work'[q], pdfs', manifest', chunks', manifestTmp', chunksTmp', hurt',
              removed')
  BY <1>3
<1> QED
  BY <1>2, <1>4 DEF LibInv

\* A process that does nothing is idle, one at work has its job in place.
LEMMA AtWork ==
  ASSUME LibInv, NEW p \in Procs
  PROVE  /\ Docs!At(p, "idle") => work[p] = Docs!Idle
         /\ ~Docs!At(p, "idle") =>
              JobOK(work[p], pdfs, manifest, chunks, manifestTmp, chunksTmp, hurt,
                    removed)
         /\ NotIn(manifest, chunks, removed) /\ NoSource(pdfs, removed)
         /\ ~Late(work[p]) => Backed(manifest, chunks, hurt)
<1>1. LibOK(work[p], pdfs, manifest, chunks, manifestTmp, chunksTmp, hurt, removed)
  BY DEF LibInv
<1>2. \A w \in Jobs : w.at # "idle"
  BY DEF Jobs
<1>3. Docs!Idle.at = "idle"
  BY DEF Docs!Idle
<1> QED
  BY <1>1, <1>2, <1>3 DEF LibOK, JobOK, Docs!At

\* The chunks a job will leave are chunks.
LEMMA NewChunksAreChunks ==
  ASSUME NEW w \in Jobs
  PROVE  Docs!NewChunks(w) \subseteq Docs!Chunks
BY DEF Jobs, Docs!NewChunks

\* A job that has changed nothing yet is in its place.
LEMMA JobBegun ==
  ASSUME LibInv, NEW p \in Procs, Docs!At(p, "idle"),
         NEW w \in Jobs, w.at = "file", w.kind \in {"add", "reindex"},
         w.manifest = manifest, w.cached = chunks, w.fresh = {}, w.touched = {},
         w.gone = {}
  PROVE  LibOK(w, pdfs, manifest, chunks, manifestTmp, chunksTmp, hurt, removed)
<1>1. NotIn(manifest, chunks, removed) /\ NoSource(pdfs, removed)
      /\ Backed(manifest, chunks, hurt)
  BY AtWork DEF Docs!At, Late
<1>2. Docs!NewChunks(w) = chunks /\ Docs!Redone(w) = {}
  BY DEF Docs!NewChunks, Docs!Redone
<1>3. NoSource(pdfs, {}) /\ hurt \ {} = hurt /\ removed \cup {} = removed
  BY DEF NoSource
<1>4. ~Late(w) /\ w.at \notin {"unlink", "load", "chunks-replace", "manifest-replace"}
  BY DEF Late
<1> QED
  BY <1>1, <1>2, <1>3, <1>4 DEF LibOK, JobOK

\* A step from one place of a job to another changes nothing it holds.
LEMMA SameJob ==
  ASSUME NEW w \in Jobs, NEW v \in Jobs, v.kind = w.kind, v.manifest = w.manifest,
         v.cached = w.cached, v.fresh = w.fresh, v.touched = w.touched
  PROVE  /\ Docs!NewChunks(v) = Docs!NewChunks(w)
         /\ Docs!Redone(v) = Docs!Redone(w)
         /\ \A m : Touched(v, m) = Touched(w, m)
<1>1. w.at # "idle" /\ v.at # "idle"
  BY DEF Jobs
<1> QED
  BY <1>1 DEF Docs!NewChunks, Docs!Redone, Touched

\* The upload list of an add, and the files reindex finds, are file lists.
LEMMA FileLists ==
  /\ \A files \in Uploads : files \in Seq(Names \X (Versions \cup {None}))
  /\ [i \in DOMAIN Docs!SetToSeq(Docs!Present) |->
        <<Docs!SetToSeq(Docs!Present)[i], None>>]
       \in Seq(Names \X (Versions \cup {None}))
<1>1. ASSUME NEW files \in Uploads
      PROVE  files \in Seq(Names \X (Versions \cup {None}))
  <2>1. files \in Seq(Names \X Versions)
    BY PartsAssumption DEF Docs!LibraryAssumption, Docs!Uploadable
  <2>2. Names \X Versions \subseteq Names \X (Versions \cup {None})
    OBVIOUS
  <2> QED
    BY <2>1, <2>2
<1>2. PICK n \in Nat : Docs!SetToSeq(Docs!Present) \in [1..n -> Docs!Present]
  <2>1. IsFiniteSet(Docs!Present)
    <3>1. IsFiniteSet(Names)
      BY PartsAssumption DEF Docs!LibraryAssumption, Docs!IsFiniteSet, IsFiniteSet
    <3> QED
      BY <3>1, FS_Subset DEF Docs!Present
  <2>2. Cardinality(Docs!Present) \in Nat
        /\ ExistsBijection(1..Cardinality(Docs!Present), Docs!Present)
    BY <2>1, FS_CardinalityType
  <2>3. \E f \in [1..Cardinality(Docs!Present) -> Docs!Present] : Docs!IsInjective(f)
    BY <2>2 DEF ExistsBijection, Bijection, Injection, IsInjective, Docs!IsInjective
  <2>4. Docs!SetToSeq(Docs!Present)
          \in [1..Cardinality(Docs!Present) -> Docs!Present]
    <3>1. Docs!Cardinality(Docs!Present) = Cardinality(Docs!Present)
      BY DEF Docs!Cardinality, Cardinality
    <3> QED
      BY <2>3, <3>1 DEF Docs!SetToSeq
  <2> QED
    BY <2>2, <2>4
<1>3. [i \in 1..n |-> <<Docs!SetToSeq(Docs!Present)[i], None>>]
        \in [1..n -> Names \X (Versions \cup {None})]
  BY <1>2 DEF Docs!Present
<1>4. [1..n -> Names \X (Versions \cup {None})]
        \subseteq Seq(Names \X (Versions \cup {None}))
  OBVIOUS
<1>5. DOMAIN Docs!SetToSeq(Docs!Present) = 1..n
  BY <1>2
<1> QED
  BY <1>1, <1>3, <1>4, <1>5

LEMMA AddStep ==
  ASSUME OneProcess, LibInv, NEW p \in Procs, Docs!Add(p)
  PROVE  LibInv'
<1>1. PICK files \in Uploads, tags \in Docs!Tags, force \in BOOLEAN :
        Docs!Go(p, Docs!Job("add", files, tags, force))
  <2>1. FALSE \in BOOLEAN
    OBVIOUS
  <2> QED
    BY <2>1, Zenon DEF Docs!Add
<1>2. PICK w \in Jobs :
        /\ w = Docs!Job("add", files, tags, force)
        /\ w.at = "file" /\ w.kind = "add" /\ w.manifest = manifest
        /\ w.cached = chunks /\ w.fresh = {} /\ w.touched = {} /\ w.gone = {}
  <2>1. files \in Seq(Names \X (Versions \cup {None})) /\ Docs!TypeOK
    BY FileLists DEF LibInv
  <2>2. LET w == Docs!Job("add", files, tags, force)
        IN  /\ w \in Jobs
            /\ w.at = "file" /\ w.kind = "add" /\ w.manifest = manifest
            /\ w.cached = chunks /\ w.fresh = {} /\ w.touched = {} /\ w.gone = {}
    BY <2>1 DEF Docs!Job, Jobs, Docs!TypeOK
  <2> QED
    BY <2>2, Zenon
<1>3. /\ Docs!At(p, "idle")
      /\ UNCHANGED <<pdfs, manifest, chunks, manifestTmp, chunksTmp, hurt, removed>>
  BY DEF Docs!Add, Docs!BeginOp, Docs!disk
<1>4. Docs!TypeOK'
  BY <1>3 DEF LibInv, Docs!TypeOK
<1>5. LibOK(w, pdfs', manifest', chunks', manifestTmp', chunksTmp', hurt', removed')
  BY <1>2, <1>3, JobBegun
<1> QED
  BY <1>1, <1>2, <1>4, <1>5, OnlyOneWorks

LEMMA ReindexStep ==
  ASSUME OneProcess, LibInv, NEW p \in Procs, Docs!Reindex(p)
  PROVE  LibInv'
<1> DEFINE files == [i \in DOMAIN Docs!SetToSeq(Docs!Present) |->
                       <<Docs!SetToSeq(Docs!Present)[i], None>>]
<1>1. PICK force \in BOOLEAN : Docs!Go(p, Docs!Job("reindex", files, {}, force))
  BY DEF Docs!Reindex
<1>2. files \in Seq(Names \X (Versions \cup {None})) /\ {} \in Docs!Tags
  BY FileLists DEF Docs!Tags
<1> HIDE DEF files
<1>3. PICK w \in Jobs :
        /\ w = Docs!Job("reindex", files, {}, force)
        /\ w.at = "file" /\ w.kind = "reindex" /\ w.manifest = manifest
        /\ w.cached = chunks /\ w.fresh = {} /\ w.touched = {} /\ w.gone = {}
  <2>1. Docs!TypeOK
    BY DEF LibInv
  <2>2. LET w == Docs!Job("reindex", files, {}, force)
        IN  /\ w \in Jobs
            /\ w.at = "file" /\ w.kind = "reindex" /\ w.manifest = manifest
            /\ w.cached = chunks /\ w.fresh = {} /\ w.touched = {} /\ w.gone = {}
    BY <1>2, <2>1 DEF Docs!Job, Jobs, Docs!TypeOK
  <2> QED
    BY <2>2, Zenon
<1>4. /\ Docs!At(p, "idle")
      /\ UNCHANGED <<pdfs, manifest, chunks, manifestTmp, chunksTmp, hurt, removed>>
  BY DEF Docs!Reindex, Docs!BeginOp, Docs!disk
<1>5. Docs!TypeOK'
  BY <1>4 DEF LibInv, Docs!TypeOK
<1>6. LibOK(w, pdfs', manifest', chunks', manifestTmp', chunksTmp', hurt', removed')
  BY <1>3, <1>4, JobBegun
<1> QED
  BY <1>1, <1>3, <1>5, <1>6, OnlyOneWorks

LEMMA RemoveStep ==
  ASSUME OneProcess, LibInv, NEW p \in Procs, Docs!RemoveDoc(p)
  PROVE  LibInv'
<1>1. PICK n \in Names, force \in BOOLEAN :
        Docs!Go(p, [Docs!Job("remove", <<>>, {}, force) EXCEPT
                      !.at = "unlink", !.touched = {n}, !.manifest[n] = None])
  <2>1. FALSE \in BOOLEAN
    OBVIOUS
  <2> QED
    BY <2>1, Zenon DEF Docs!RemoveDoc
<1>2. PICK w \in Jobs :
        /\ w = [Docs!Job("remove", <<>>, {}, force) EXCEPT
                  !.at = "unlink", !.touched = {n}, !.manifest[n] = None]
        /\ w.at = "unlink" /\ w.kind = "remove"
        /\ w.manifest = [manifest EXCEPT ![n] = None]
        /\ w.cached = chunks /\ w.fresh = {} /\ w.touched = {n} /\ w.gone = {}
  <2>1. [manifest EXCEPT ![n] = None] \in [Names -> Docs!Entries \cup {None}]
    BY DEF LibInv, Docs!TypeOK
  <2>2. <<>> \in Seq(Names \X (Versions \cup {None})) /\ {} \in Docs!Tags
    BY DEF Docs!Tags
  <2>3. PICK j \in Jobs :
          /\ j = Docs!Job("remove", <<>>, {}, force)
          /\ j.kind = "remove" /\ j.manifest = manifest
          /\ j.cached = chunks /\ j.fresh = {} /\ j.gone = {}
    <3>1. Docs!TypeOK
      BY DEF LibInv
    <3>2. LET w == Docs!Job("remove", <<>>, {}, force)
          IN  /\ w \in Jobs
              /\ w.at = "file" /\ w.kind = "remove" /\ w.manifest = manifest
              /\ w.cached = chunks /\ w.fresh = {} /\ w.touched = {} /\ w.gone = {}
      BY <2>2, <3>1 DEF Docs!Job, Jobs, Docs!TypeOK
    <3> QED
      BY <3>2, Zenon
  <2>4. LET w == [j EXCEPT !.at = "unlink", !.touched = {n},
                           !.manifest = [manifest EXCEPT ![n] = None]]
        IN  /\ w \in Jobs
            /\ w.at = "unlink" /\ w.kind = "remove"
            /\ w.manifest = [manifest EXCEPT ![n] = None]
            /\ w.cached = chunks /\ w.fresh = {} /\ w.touched = {n} /\ w.gone = {}
    BY <2>1, <2>3 DEF Jobs
  <2>5. [j EXCEPT !.at = "unlink", !.touched = {n},
                  !.manifest = [manifest EXCEPT ![n] = None]]
          = [j EXCEPT !.at = "unlink", !.touched = {n}, !.manifest[n] = None]
    BY <2>3 DEF Jobs
  <2> QED
    BY <2>3, <2>4, <2>5
<1>3. /\ Docs!At(p, "idle")
      /\ UNCHANGED <<pdfs, manifest, chunks, manifestTmp, chunksTmp, hurt, removed>>
  BY DEF Docs!RemoveDoc, Docs!BeginOp, Docs!disk
<1>4. Docs!TypeOK'
  BY <1>3 DEF LibInv, Docs!TypeOK
<1>5. NotIn(manifest, chunks, removed) /\ NoSource(pdfs, removed)
      /\ Backed(manifest, chunks, hurt)
  BY <1>3, AtWork DEF Docs!At, Late, Docs!Idle
<1>6. Docs!NewChunks(w) = {c \in chunks : c.title # n}
  BY <1>2 DEF Docs!NewChunks
<1>7. \A k \in Names : w.manifest[k] = IF k = n THEN None ELSE manifest[k]
  <2>1. manifest \in [Names -> Docs!Entries \cup {None}]
    BY DEF LibInv, Docs!TypeOK
  <2>2. w.manifest = [manifest EXCEPT ![n] = None]
    BY <1>2
  <2> QED
    BY <2>1, <2>2
<1>8. Backed(w.manifest, Docs!NewChunks(w), hurt \ Docs!Redone(w))
  <2>1. Docs!Redone(w) = {n}
    BY <1>2 DEF Docs!Redone
  <2> QED
    BY <1>5, <1>6, <1>7, <2>1 DEF Backed, ChunkOf
<1>9. NotIn(w.manifest, Docs!NewChunks(w), {n})
  BY <1>6, <1>7 DEF NotIn
<1>10. NotIn(w.manifest, Docs!NewChunks(w), removed \cup w.gone)
  BY <1>2, <1>5, <1>6, <1>7 DEF NotIn, LibInv, Docs!TypeOK
<1>11. \A k \in Names \ Touched(w, manifest) : w.manifest[k] = manifest[k]
  BY <1>2, <1>7 DEF Touched
<1>12. LibOK(w, pdfs, manifest, chunks, manifestTmp, chunksTmp, hurt, removed)
  BY <1>2, <1>5, <1>8, <1>9, <1>10, <1>11 DEF LibOK, JobOK, Late, NoSource
<1> QED
  BY <1>1, <1>2, <1>3, <1>4, <1>12, OnlyOneWorks

LEMMA RetagStep ==
  ASSUME OneProcess, LibInv, NEW p \in Procs, Docs!Retag(p)
  PROVE  LibInv'
<1>1. PICK n \in Names, tags \in Docs!Tags, force \in BOOLEAN :
        /\ manifest[n] # None
        /\ Docs!Go(p, [Docs!Job("retag", <<>>, {}, force) EXCEPT
                         !.at = "chunks",
                         !.manifest[n] = Docs!Retagged(manifest[n], tags),
                         !.cached = {IF c.title = n THEN Docs!Retagged(c, tags)
                                     ELSE c : c \in chunks}])
  <2>1. FALSE \in BOOLEAN
    OBVIOUS
  <2> QED
    BY <2>1, Zenon DEF Docs!Retag
<1>2. /\ Docs!At(p, "idle") /\ Docs!TypeOK
      /\ UNCHANGED <<pdfs, manifest, chunks, manifestTmp, chunksTmp, hurt, removed>>
  BY DEF Docs!Retag, Docs!BeginOp, Docs!disk, LibInv
<1>3. PICK e \in Docs!Entries :
        /\ e = Docs!Retagged(manifest[n], tags)
        /\ e.version = manifest[n].version /\ e.ok = manifest[n].ok /\ e.tags = tags
  <2>1. manifest[n] \in Docs!Entries
    BY <1>1, <1>2 DEF Docs!TypeOK
  <2>2. PICK v \in Versions, o \in BOOLEAN, t \in Docs!Tags :
          manifest[n] = [version |-> v, ok |-> o, tags |-> t]
    BY <2>1 DEF Docs!Entries
  <2>3. Docs!Retagged(manifest[n], tags) = [version |-> v, ok |-> o, tags |-> tags]
    BY <2>2 DEF Docs!Retagged
  <2> QED
    BY <2>2, <2>3 DEF Docs!Entries
<1>4. PICK cs \in SUBSET Docs!Chunks :
        /\ cs = {IF c.title = n THEN Docs!Retagged(c, tags) ELSE c : c \in chunks}
        /\ \A c \in cs : \E b \in chunks : c.title = b.title
        /\ \A c \in chunks : c.title # n => c \in cs
        /\ \A v : [title |-> n, version |-> v, tags |-> manifest[n].tags] \in chunks
                    => [title |-> n, version |-> v, tags |-> tags] \in cs
  <2> DEFINE cs == {IF c.title = n THEN Docs!Retagged(c, tags) ELSE c : c \in chunks}
  <2>1. ASSUME NEW c \in Docs!Chunks
        PROVE  /\ Docs!Retagged(c, tags) \in Docs!Chunks
               /\ Docs!Retagged(c, tags).title = c.title
               /\ Docs!Retagged(c, tags)
                    = [title |-> c.title, version |-> c.version, tags |-> tags]
    BY DEF Docs!Chunks, Docs!Retagged
  <2>2. chunks \subseteq Docs!Chunks
    BY <1>2 DEF Docs!TypeOK
  <2>3. \A c \in cs : \E b \in chunks :
          c = IF b.title = n THEN Docs!Retagged(b, tags) ELSE b
    OBVIOUS
  <2>4. \A b \in chunks : (IF b.title = n THEN Docs!Retagged(b, tags) ELSE b) \in cs
    OBVIOUS
  <2> HIDE DEF cs
  <2>5. cs \subseteq Docs!Chunks /\ \A c \in cs : \E b \in chunks : c.title = b.title
    BY <2>1, <2>2, <2>3
  <2>6. \A c \in chunks : c.title # n => c \in cs
    BY <2>4
  <2>7. ASSUME NEW v,
               [title |-> n, version |-> v, tags |-> manifest[n].tags] \in chunks
        PROVE  [title |-> n, version |-> v, tags |-> tags] \in cs
    BY <2>1, <2>2, <2>4, <2>7
  <2> QED
    BY <2>5, <2>6, <2>7 DEF cs
<1>5. PICK w \in Jobs :
        /\ w = [Docs!Job("retag", <<>>, {}, force) EXCEPT
                  !.at = "chunks", !.manifest[n] = e, !.cached = cs]
        /\ w.at = "chunks" /\ w.kind = "retag"
        /\ w.manifest = [manifest EXCEPT ![n] = e]
        /\ w.cached = cs /\ w.fresh = {} /\ w.touched = {} /\ w.gone = {}
  <2>1. [manifest EXCEPT ![n] = e] \in [Names -> Docs!Entries \cup {None}]
    BY <1>2 DEF Docs!TypeOK
  <2>2. <<>> \in Seq(Names \X (Versions \cup {None})) /\ {} \in Docs!Tags
    BY DEF Docs!Tags
  <2>3. PICK j \in Jobs :
          /\ j = Docs!Job("retag", <<>>, {}, force)
          /\ j.kind = "retag" /\ j.manifest = manifest /\ j.fresh = {}
          /\ j.touched = {} /\ j.gone = {}
    <3>1. LET w == Docs!Job("retag", <<>>, {}, force)
          IN  /\ w \in Jobs
              /\ w.kind = "retag" /\ w.manifest = manifest /\ w.fresh = {}
              /\ w.touched = {} /\ w.gone = {}
      BY <1>2, <2>2 DEF Docs!Job, Jobs, Docs!TypeOK
    <3> QED
      BY <3>1, Zenon
  <2>4. LET w == [j EXCEPT !.at = "chunks",
                           !.manifest = [manifest EXCEPT ![n] = e], !.cached = cs]
        IN  /\ w \in Jobs
            /\ w.at = "chunks" /\ w.kind = "retag"
            /\ w.manifest = [manifest EXCEPT ![n] = e]
            /\ w.cached = cs /\ w.fresh = {} /\ w.touched = {} /\ w.gone = {}
    BY <2>1, <2>3 DEF Jobs
  <2>5. [j EXCEPT !.at = "chunks", !.manifest = [manifest EXCEPT ![n] = e],
                  !.cached = cs]
          = [j EXCEPT !.at = "chunks", !.manifest[n] = e, !.cached = cs]
    BY <2>3 DEF Jobs
  <2> QED
    BY <2>3, <2>4, <2>5
<1>6. Docs!Go(p, w)
  BY <1>1, <1>3, <1>4, <1>5
<1>7. Docs!TypeOK'
  BY <1>2 DEF Docs!TypeOK
<1>8. NotIn(manifest, chunks, removed) /\ NoSource(pdfs, removed)
      /\ Backed(manifest, chunks, hurt)
  BY <1>2, AtWork DEF Docs!At, Late, Docs!Idle
<1>9. Docs!NewChunks(w) = cs /\ Docs!Redone(w) = {}
  BY <1>5 DEF Docs!NewChunks, Docs!Redone
<1>10. \A k \in Names : w.manifest[k] = IF k = n THEN e ELSE manifest[k]
  <2>1. manifest \in [Names -> Docs!Entries \cup {None}]
    BY <1>2 DEF Docs!TypeOK
  <2>2. w.manifest = [manifest EXCEPT ![n] = e]
    BY <1>5
  <2> QED
    BY <2>1, <2>2
<1>11. Backed(w.manifest, cs, hurt)
  <2> SUFFICES ASSUME NEW k \in Names \ hurt, w.manifest[k] # None, w.manifest[k].ok
               PROVE  ChunkOf(k, w.manifest[k]) \in cs
    BY DEF Backed
  <2>1. CASE k = n
    <3>1. manifest[n].ok
      BY <1>3, <1>10, <2>1
    <3>2. ChunkOf(n, manifest[n]) \in chunks
      BY <1>1, <1>8, <2>1, <3>1 DEF Backed
    <3>3. ChunkOf(n, e) \in cs
      BY <1>3, <1>4, <3>2 DEF ChunkOf
    <3> QED
      BY <1>10, <2>1, <3>3
  <2>2. CASE k # n
    <3>1. ChunkOf(k, manifest[k]) \in chunks
      BY <1>8, <1>10, <2>2 DEF Backed
    <3>2. ChunkOf(k, manifest[k]).title = k
      BY DEF ChunkOf
    <3> QED
      BY <1>4, <1>10, <2>2, <3>1, <3>2
  <2> QED
    BY <2>1, <2>2
<1>12. NotIn(w.manifest, cs, removed)
  BY <1>1, <1>4, <1>8, <1>10 DEF NotIn, LibInv, Docs!TypeOK
<1>13. \A k \in Names \ Touched(w, manifest) : w.manifest[k] = manifest[k]
  BY <1>5 DEF Touched
<1>14. hurt \ {} = hurt /\ removed \cup w.gone = removed
  BY <1>5
<1>15. LibOK(w, pdfs, manifest, chunks, manifestTmp, chunksTmp, hurt, removed)
  BY <1>5, <1>8, <1>9, <1>11, <1>12, <1>13, <1>14 DEF LibOK, JobOK, Late, NoSource
<1> QED
  BY <1>2, <1>6, <1>7, <1>15, OnlyOneWorks

\* A job that goes on, with all it holds, stays in its place.
LEMMA JobMoves ==
  ASSUME LibInv, NEW p \in Procs, ~Docs!At(p, "idle"),
         NEW v \in Jobs, NEW mt, NEW ct,
         v.kind = work[p].kind, v.manifest = work[p].manifest,
         v.cached = work[p].cached, v.fresh = work[p].fresh,
         v.touched = work[p].touched, v.gone = work[p].gone,
         v.at \notin {"unlink", "load"}, v.at = "file" => Docs!At(p, "file"),
         Late(v) <=> Late(work[p]),
         v.at = "chunks-replace" => ct = Docs!NewChunks(work[p]),
         v.at = "manifest-replace" => mt = work[p].manifest
  PROVE  LibOK(v, pdfs, manifest, chunks, mt, ct, hurt, removed)
<1> DEFINE w == work[p]
<1>1. JobOK(w, pdfs, manifest, chunks, manifestTmp, chunksTmp, hurt, removed)
      /\ NotIn(manifest, chunks, removed) /\ NoSource(pdfs, removed)
  BY AtWork
<1>2. Backed(manifest, chunks, IF Late(w) THEN hurt \cup Touched(w, manifest) ELSE hurt)
  BY DEF LibInv, LibOK
<1>3. w \in Jobs
  BY <1>1 DEF JobOK
<1> HIDE DEF w
<1>4. w = work[p]
  BY DEF w
<1>5. /\ Docs!NewChunks(v) = Docs!NewChunks(w) /\ Docs!Redone(v) = Docs!Redone(w)
      /\ Touched(v, manifest) = Touched(w, manifest)
  BY <1>3, <1>4, SameJob
<1> QED
  BY <1>1, <1>2, <1>4, <1>5 DEF LibOK, JobOK, Docs!At

\* An operation that ends before it has replaced anything leaves all as it was.
LEMMA JobDropped ==
  ASSUME LibInv, NEW p \in Procs, ~Late(work[p]), NEW mt, NEW ct
  PROVE  LibOK(Docs!Idle, pdfs, manifest, chunks, mt, ct, hurt, removed)
<1>1. ~Late(Docs!Idle)
  BY DEF Late, Docs!Idle
<1> QED
  BY <1>1, AtWork DEF LibOK

LEMMA SkipStep ==
  ASSUME OneProcess, LibInv, NEW p \in Procs, Docs!Skip(p)
  PROVE  LibInv'
<1>1. /\ Docs!At(p, "file") /\ ~Docs!At(p, "idle") /\ work[p].files # <<>>
      /\ Docs!Go(p, [work[p] EXCEPT !.files = Tail(@)])
      /\ UNCHANGED <<pdfs, manifest, chunks, manifestTmp, chunksTmp, hurt, removed>>
  BY DEF Docs!Skip, Docs!AtFile, Docs!At, Docs!disk
<1>2. work[p] \in Jobs
  BY <1>1, AtWork DEF JobOK
<1>3. Tail(work[p].files) \in Seq(Names \X (Versions \cup {None}))
  BY <1>1, <1>2 DEF Jobs
<1>4. PICK v \in Jobs :
        /\ v = [work[p] EXCEPT !.files = Tail(@)] /\ v.at = work[p].at
        /\ v.kind = work[p].kind /\ v.manifest = work[p].manifest
        /\ v.cached = work[p].cached /\ v.fresh = work[p].fresh
        /\ v.touched = work[p].touched /\ v.gone = work[p].gone
  <2>1. LET v == [work[p] EXCEPT !.files = Tail(work[p].files)]
        IN  /\ v \in Jobs /\ v.at = work[p].at
            /\ v.kind = work[p].kind /\ v.manifest = work[p].manifest
            /\ v.cached = work[p].cached /\ v.fresh = work[p].fresh
            /\ v.touched = work[p].touched /\ v.gone = work[p].gone
    BY <1>2, <1>3 DEF Jobs
  <2> QED
    BY <2>1, Zenon
<1>5. LibOK(v, pdfs, manifest, chunks, manifestTmp, chunksTmp, hurt, removed)
  BY <1>1, <1>4, JobMoves DEF Docs!At, Late
<1>6. Docs!TypeOK'
  BY <1>1 DEF LibInv, Docs!TypeOK
<1> QED
  BY <1>1, <1>4, <1>5, <1>6, OnlyOneWorks

LEMMA VanishedStep ==
  ASSUME OneProcess, LibInv, NEW p \in Procs, Docs!Vanished(p)
  PROVE  LibInv'
<1>1. /\ ~Late(work[p]) /\ Docs!Go(p, Docs!Idle)
      /\ UNCHANGED <<pdfs, manifest, chunks, manifestTmp, chunksTmp, hurt, removed>>
  BY DEF Docs!Vanished, Docs!AtFile, Docs!At, Docs!disk, Late
<1>2. Docs!TypeOK'
  BY <1>1 DEF LibInv, Docs!TypeOK
<1> QED
  BY <1>1, <1>2, JobDropped, OnlyOneWorks

\* The job goes from one place to another, and nothing else moves.
LEMMA PlaceChanged ==
  ASSUME NEW w \in Jobs,
         NEW a \in {"file", "unlink", "chunks", "chunks-write", "chunks-replace",
                    "manifest", "manifest-write", "manifest-replace"}
  PROVE  LET v == [w EXCEPT !.at = a]
         IN  /\ v \in Jobs /\ v.at = a
             /\ v.kind = w.kind /\ v.manifest = w.manifest
             /\ v.cached = w.cached /\ v.fresh = w.fresh
             /\ v.touched = w.touched /\ v.gone = w.gone
BY DEF Jobs

LEMMA FilesDoneStep ==
  ASSUME OneProcess, LibInv, NEW p \in Procs, Docs!FilesDone(p)
  PROVE  LibInv'
<1>1. /\ Docs!At(p, "file") /\ ~Docs!At(p, "idle") /\ ~Late(work[p])
      /\ UNCHANGED <<pdfs, manifest, chunks, manifestTmp, chunksTmp, hurt, removed>>
      /\ \/ Docs!Go(p, Docs!Idle) \/ Docs!Go(p, [work[p] EXCEPT !.at = "chunks"])
  BY DEF Docs!FilesDone, Docs!At, Docs!disk, Late
<1>2. Docs!TypeOK'
  BY <1>1 DEF LibInv, Docs!TypeOK
<1>3. CASE Docs!Go(p, Docs!Idle)
  BY <1>1, <1>2, <1>3, JobDropped, OnlyOneWorks
<1>4. CASE Docs!Go(p, [work[p] EXCEPT !.at = "chunks"])
  <2>1. work[p] \in Jobs
    BY <1>1, AtWork DEF JobOK
  <2>2. PICK v \in Jobs :
          /\ v = [work[p] EXCEPT !.at = "chunks"] /\ v.at = "chunks"
          /\ v.kind = work[p].kind /\ v.manifest = work[p].manifest
          /\ v.cached = work[p].cached /\ v.fresh = work[p].fresh
          /\ v.touched = work[p].touched /\ v.gone = work[p].gone
    <3>1. LET v == [work[p] EXCEPT !.at = "chunks"]
          IN  /\ v \in Jobs /\ v.at = "chunks"
              /\ v.kind = work[p].kind /\ v.manifest = work[p].manifest
              /\ v.cached = work[p].cached /\ v.fresh = work[p].fresh
              /\ v.touched = work[p].touched /\ v.gone = work[p].gone
      BY <2>1, PlaceChanged
    <3> QED
      BY <3>1, Zenon
  <2>3. LibOK(v, pdfs, manifest, chunks, manifestTmp, chunksTmp, hurt, removed)
    BY <1>1, <2>2, JobMoves DEF Late
  <2> QED
    BY <1>1, <1>2, <1>4, <2>2, <2>3, OnlyOneWorks
<1> QED
  BY <1>1, <1>3, <1>4

LEMMA OpenChunksStep ==
  ASSUME OneProcess, LibInv, NEW p \in Procs, Docs!OpenChunks(p)
  PROVE  LibInv'
<1>1. /\ Docs!At(p, "chunks") /\ ~Docs!At(p, "idle")
      /\ Docs!Go(p, [work[p] EXCEPT !.at = "chunks-write"])
      /\ chunksTmp' = Torn
      /\ UNCHANGED <<pdfs, manifest, chunks, manifestTmp, hurt, removed>>
  BY DEF Docs!OpenChunks, Docs!At
<1>2. work[p] \in Jobs
  BY <1>1, AtWork DEF JobOK
<1>3. PICK v \in Jobs :
        /\ v = [work[p] EXCEPT !.at = "chunks-write"] /\ v.at = "chunks-write"
        /\ v.kind = work[p].kind /\ v.manifest = work[p].manifest
        /\ v.cached = work[p].cached /\ v.fresh = work[p].fresh
        /\ v.touched = work[p].touched /\ v.gone = work[p].gone
  <2>1. LET v == [work[p] EXCEPT !.at = "chunks-write"]
        IN  /\ v \in Jobs /\ v.at = "chunks-write"
            /\ v.kind = work[p].kind /\ v.manifest = work[p].manifest
            /\ v.cached = work[p].cached /\ v.fresh = work[p].fresh
            /\ v.touched = work[p].touched /\ v.gone = work[p].gone
    BY <1>2, PlaceChanged
  <2> QED
    BY <2>1, Zenon
<1>4. LibOK(v, pdfs, manifest, chunks, manifestTmp', chunksTmp', hurt, removed)
  BY <1>1, <1>3, JobMoves DEF Late, Docs!At
<1>5. Docs!TypeOK'
  BY <1>1, <1>2 DEF LibInv, Docs!TypeOK
<1> QED
  BY <1>1, <1>3, <1>4, <1>5, OnlyOneWorks

LEMMA WriteChunksStep ==
  ASSUME OneProcess, LibInv, NEW p \in Procs, Docs!WriteChunks(p)
  PROVE  LibInv'
<1>1. /\ Docs!At(p, "chunks-write") /\ ~Docs!At(p, "idle")
      /\ Docs!Go(p, [work[p] EXCEPT !.at = "chunks-replace"])
      /\ chunksTmp' = Docs!NewChunks(work[p])
      /\ UNCHANGED <<pdfs, manifest, chunks, manifestTmp, hurt, removed>>
  BY DEF Docs!WriteChunks, Docs!At
<1>2. work[p] \in Jobs
  BY <1>1, AtWork DEF JobOK
<1>3. PICK v \in Jobs :
        /\ v = [work[p] EXCEPT !.at = "chunks-replace"] /\ v.at = "chunks-replace"
        /\ v.kind = work[p].kind /\ v.manifest = work[p].manifest
        /\ v.cached = work[p].cached /\ v.fresh = work[p].fresh
        /\ v.touched = work[p].touched /\ v.gone = work[p].gone
  <2>1. LET v == [work[p] EXCEPT !.at = "chunks-replace"]
        IN  /\ v \in Jobs /\ v.at = "chunks-replace"
            /\ v.kind = work[p].kind /\ v.manifest = work[p].manifest
            /\ v.cached = work[p].cached /\ v.fresh = work[p].fresh
            /\ v.touched = work[p].touched /\ v.gone = work[p].gone
    BY <1>2, PlaceChanged
  <2> QED
    BY <2>1, Zenon
<1>4. LibOK(v, pdfs, manifest, chunks, manifestTmp', chunksTmp', hurt, removed)
  BY <1>1, <1>3, JobMoves DEF Late, Docs!At
<1>5. Docs!TypeOK'
  BY <1>1, <1>2, NewChunksAreChunks DEF LibInv, Docs!TypeOK
<1> QED
  BY <1>1, <1>3, <1>4, <1>5, OnlyOneWorks

LEMMA OpenManifestStep ==
  ASSUME OneProcess, LibInv, NEW p \in Procs, Docs!OpenManifest(p)
  PROVE  LibInv'
<1>1. /\ Docs!At(p, "manifest") /\ ~Docs!At(p, "idle")
      /\ Docs!Go(p, [work[p] EXCEPT !.at = "manifest-write"])
      /\ manifestTmp' = Torn
      /\ UNCHANGED <<pdfs, manifest, chunks, chunksTmp, hurt, removed>>
  BY DEF Docs!OpenManifest, Docs!At
<1>2. work[p] \in Jobs
  BY <1>1, AtWork DEF JobOK
<1>3. PICK v \in Jobs :
        /\ v = [work[p] EXCEPT !.at = "manifest-write"] /\ v.at = "manifest-write"
        /\ v.kind = work[p].kind /\ v.manifest = work[p].manifest
        /\ v.cached = work[p].cached /\ v.fresh = work[p].fresh
        /\ v.touched = work[p].touched /\ v.gone = work[p].gone
  <2>1. LET v == [work[p] EXCEPT !.at = "manifest-write"]
        IN  /\ v \in Jobs /\ v.at = "manifest-write"
            /\ v.kind = work[p].kind /\ v.manifest = work[p].manifest
            /\ v.cached = work[p].cached /\ v.fresh = work[p].fresh
            /\ v.touched = work[p].touched /\ v.gone = work[p].gone
    BY <1>2, PlaceChanged
  <2> QED
    BY <2>1, Zenon
<1>4. LibOK(v, pdfs, manifest, chunks, manifestTmp', chunksTmp', hurt, removed)
  BY <1>1, <1>3, JobMoves DEF Late, Docs!At
<1>5. Docs!TypeOK'
  BY <1>1, <1>2 DEF LibInv, Docs!TypeOK
<1> QED
  BY <1>1, <1>3, <1>4, <1>5, OnlyOneWorks

LEMMA WriteManifestStep ==
  ASSUME OneProcess, LibInv, NEW p \in Procs, Docs!WriteManifest(p)
  PROVE  LibInv'
<1>1. /\ Docs!At(p, "manifest-write") /\ ~Docs!At(p, "idle")
      /\ Docs!Go(p, [work[p] EXCEPT !.at = "manifest-replace"])
      /\ manifestTmp' = work[p].manifest
      /\ UNCHANGED <<pdfs, manifest, chunks, chunksTmp, hurt, removed>>
  BY DEF Docs!WriteManifest, Docs!At
<1>2. work[p] \in Jobs
  BY <1>1, AtWork DEF JobOK
<1>3. PICK v \in Jobs :
        /\ v = [work[p] EXCEPT !.at = "manifest-replace"] /\ v.at = "manifest-replace"
        /\ v.kind = work[p].kind /\ v.manifest = work[p].manifest
        /\ v.cached = work[p].cached /\ v.fresh = work[p].fresh
        /\ v.touched = work[p].touched /\ v.gone = work[p].gone
  <2>1. LET v == [work[p] EXCEPT !.at = "manifest-replace"]
        IN  /\ v \in Jobs /\ v.at = "manifest-replace"
            /\ v.kind = work[p].kind /\ v.manifest = work[p].manifest
            /\ v.cached = work[p].cached /\ v.fresh = work[p].fresh
            /\ v.touched = work[p].touched /\ v.gone = work[p].gone
    BY <1>2, PlaceChanged
  <2> QED
    BY <2>1, Zenon
<1>4. LibOK(v, pdfs, manifest, chunks, manifestTmp', chunksTmp', hurt, removed)
  BY <1>1, <1>3, JobMoves DEF Late, Docs!At
<1>5. Docs!TypeOK'
  BY <1>1, <1>2 DEF LibInv, Docs!TypeOK, Jobs
<1> QED
  BY <1>1, <1>3, <1>4, <1>5, OnlyOneWorks

LEMMA UnlinkStep ==
  ASSUME OneProcess, LibInv, NEW p \in Procs, Docs!Unlink(p)
  PROVE  LibInv'
<1>1. /\ work[p].at = "unlink" /\ ~Docs!At(p, "idle")
      /\ Docs!Go(p, [work[p] EXCEPT !.at = "load", !.gone = work[p].touched])
      /\ UNCHANGED <<manifest, chunks, manifestTmp, chunksTmp, hurt, removed>>
  BY DEF Docs!Unlink, Docs!At, Docs!disk
<1>2. PICK w \in Jobs :
        /\ w = work[p] /\ ~Late(w)
        /\ JobOK(w, pdfs, manifest, chunks, manifestTmp, chunksTmp, hurt, removed)
        /\ NotIn(manifest, chunks, removed) /\ NoSource(pdfs, removed)
        /\ Backed(manifest, chunks, hurt)
  BY <1>1, AtWork DEF JobOK, Late
<1>3. PICK n \in Names : w.touched = {n} /\ pdfs' = [pdfs EXCEPT ![n] = None]
  <2>1. PICK n \in Names : w.touched = {n}
    BY <1>1, <1>2 DEF JobOK
  <2> QED
    BY <1>2, <2>1 DEF Docs!Unlink, Docs!DropFile
<1>4. PICK v \in Jobs :
        /\ v = [work[p] EXCEPT !.at = "load", !.gone = work[p].touched]
        /\ v.at = "load" /\ v.gone = {n}
        /\ v.kind = w.kind /\ v.manifest = w.manifest
        /\ v.cached = w.cached /\ v.fresh = w.fresh /\ v.touched = w.touched
  <2>1. LET v == [w EXCEPT !.at = "load", !.gone = w.touched]
        IN  /\ v \in Jobs /\ v.at = "load" /\ v.gone = w.touched
            /\ v.kind = w.kind /\ v.manifest = w.manifest
            /\ v.cached = w.cached /\ v.fresh = w.fresh /\ v.touched = w.touched
    BY DEF Jobs
  <2> QED
    BY <1>2, <1>3, <2>1, Zenon
<1>5. pdfs' \in [Names -> Versions \cup {None}]
      /\ \A k \in Names : pdfs'[k] = IF k = n THEN None ELSE pdfs[k]
  BY <1>3 DEF LibInv, Docs!TypeOK
<1>6. Docs!TypeOK'
  BY <1>1, <1>5 DEF LibInv, Docs!TypeOK
<1>7. /\ Docs!NewChunks(v) = Docs!NewChunks(w) /\ Docs!Redone(v) = Docs!Redone(w)
      /\ Touched(v, manifest) = Touched(w, manifest)
  BY <1>4, SameJob
<1>8. NoSource(pdfs', removed) /\ NoSource(pdfs', v.gone)
  BY <1>2, <1>4, <1>5 DEF NoSource, LibInv, Docs!TypeOK
<1>9. NotIn(v.manifest, Docs!NewChunks(v), removed \cup v.gone)
  <2>1. NotIn(w.manifest, Docs!NewChunks(w), removed \cup w.gone)
        /\ NotIn(w.manifest, Docs!NewChunks(w), {n})
    BY <1>1, <1>2, <1>3 DEF JobOK
  <2> QED
    BY <1>4, <1>7, <2>1 DEF NotIn
<1>10. v.cached = chunks /\ ~Late(v)
  BY <1>1, <1>2, <1>4 DEF JobOK, Late
<1>11. /\ Backed(v.manifest, Docs!NewChunks(v), hurt \ Docs!Redone(v))
       /\ \A k \in Names \ Touched(v, manifest) : v.manifest[k] = manifest[k]
  BY <1>2, <1>4, <1>7 DEF JobOK
<1>12. JobOK(v, pdfs', manifest, chunks, manifestTmp, chunksTmp, hurt, removed)
  BY <1>4, <1>8, <1>9, <1>10, <1>11 DEF JobOK
<1>13. LibOK(v, pdfs', manifest, chunks, manifestTmp, chunksTmp, hurt, removed)
  BY <1>2, <1>8, <1>10, <1>12 DEF LibOK
<1> QED
  BY <1>1, <1>4, <1>6, <1>13, OnlyOneWorks

\* Nobody has replaced the chunks since the operation began.
LEMMA LoadChunksStep ==
  ASSUME OneProcess, LibInv, NEW p \in Procs, Docs!LoadChunks(p)
  PROVE  LibInv'
<1>1. /\ work[p].at = "load" /\ ~Docs!At(p, "idle") /\ ~Late(work[p])
      /\ Docs!Go(p, [work[p] EXCEPT !.at = "chunks", !.cached = chunks])
      /\ UNCHANGED <<pdfs, manifest, chunks, manifestTmp, chunksTmp, hurt, removed>>
  BY DEF Docs!LoadChunks, Docs!At, Docs!disk, Late
<1>2. work[p] \in Jobs /\ work[p].cached = chunks
  BY <1>1, AtWork DEF JobOK
<1>3. PICK v \in Jobs :
        /\ v = [work[p] EXCEPT !.at = "chunks", !.cached = chunks] /\ v.at = "chunks"
        /\ v.kind = work[p].kind /\ v.manifest = work[p].manifest
        /\ v.cached = work[p].cached /\ v.fresh = work[p].fresh
        /\ v.touched = work[p].touched /\ v.gone = work[p].gone
  <2>1. LET v == [work[p] EXCEPT !.at = "chunks", !.cached = chunks]
        IN  /\ v \in Jobs /\ v.at = "chunks"
            /\ v.kind = work[p].kind /\ v.manifest = work[p].manifest
            /\ v.cached = work[p].cached /\ v.fresh = work[p].fresh
            /\ v.touched = work[p].touched /\ v.gone = work[p].gone
    BY <1>2 DEF Jobs
  <2> QED
    BY <2>1, Zenon
<1>4. LibOK(v, pdfs, manifest, chunks, manifestTmp, chunksTmp, hurt, removed)
  BY <1>1, <1>3, JobMoves DEF Late
<1>5. Docs!TypeOK'
  BY <1>1 DEF LibInv, Docs!TypeOK
<1> QED
  BY <1>1, <1>3, <1>4, <1>5, OnlyOneWorks

LEMMA ReplaceChunksStep ==
  ASSUME OneProcess, LibInv, NEW p \in Procs, Docs!ReplaceChunks(p)
  PROVE  LibInv'
<1>1. PICK w \in Jobs :
        /\ w = work[p] /\ w.at = "chunks-replace"
        /\ JobOK(w, pdfs, manifest, chunks, manifestTmp, chunksTmp, hurt, removed)
        /\ NotIn(manifest, chunks, removed) /\ NoSource(pdfs, removed)
        /\ Backed(manifest, chunks, hurt)
  BY AtWork DEF Docs!ReplaceChunks, Docs!At, JobOK, Late
<1>2. chunksTmp = Docs!NewChunks(w) /\ chunksTmp \subseteq Docs!Chunks
  BY <1>1, NewChunksAreChunks DEF JobOK
<1>3. chunksTmp # None
  BY <1>2, PartsAssumption DEF Docs!LibraryAssumption
<1>4. /\ chunks' = Docs!NewChunks(w) /\ chunksTmp' = None
      /\ Docs!Go(p, [work[p] EXCEPT !.at = "manifest"])
      /\ UNCHANGED <<pdfs, manifest, manifestTmp, hurt, removed>>
  BY <1>2, <1>3 DEF Docs!ReplaceChunks
<1>5. PICK v \in Jobs :
        /\ v = [work[p] EXCEPT !.at = "manifest"] /\ v.at = "manifest"
        /\ v.kind = w.kind /\ v.manifest = w.manifest
        /\ v.cached = w.cached /\ v.fresh = w.fresh
        /\ v.touched = w.touched /\ v.gone = w.gone
  <2>1. LET v == [w EXCEPT !.at = "manifest"]
        IN  /\ v \in Jobs /\ v.at = "manifest"
            /\ v.kind = w.kind /\ v.manifest = w.manifest
            /\ v.cached = w.cached /\ v.fresh = w.fresh
            /\ v.touched = w.touched /\ v.gone = w.gone
    BY PlaceChanged
  <2> QED
    BY <1>1, <2>1, Zenon
<1>6. Docs!TypeOK'
  BY <1>2, <1>4 DEF LibInv, Docs!TypeOK
<1>7. /\ Docs!NewChunks(v) = Docs!NewChunks(w) /\ Docs!Redone(v) = Docs!Redone(w)
      /\ Touched(v, manifest) = Touched(w, manifest)
  BY <1>5, SameJob
<1>8. NotIn(manifest, chunks', removed)
  BY <1>1, <1>4 DEF JobOK, NotIn
<1>9. Backed(manifest, chunks', hurt \cup Touched(v, manifest))
  <2>1. \A n \in Names \ Touched(v, manifest) : w.manifest[n] = manifest[n]
    BY <1>1, <1>7 DEF JobOK
  <2>2. Backed(w.manifest, chunks', hurt \ Docs!Redone(w))
    BY <1>1, <1>4 DEF JobOK
  <2> QED
    BY <2>1, <2>2 DEF Backed
<1>10. LibOK(v, pdfs, manifest, chunks', manifestTmp, chunksTmp', hurt, removed)
  BY <1>1, <1>4, <1>5, <1>7, <1>8, <1>9 DEF LibOK, JobOK, Late
<1> QED
  BY <1>4, <1>5, <1>6, <1>10, OnlyOneWorks

LEMMA ReplaceManifestStep ==
  ASSUME OneProcess, LibInv, NEW p \in Procs, Docs!ReplaceManifest(p)
  PROVE  LibInv'
<1>1. PICK w \in Jobs :
        /\ w = work[p] /\ w.at = "manifest-replace"
        /\ JobOK(w, pdfs, manifest, chunks, manifestTmp, chunksTmp, hurt, removed)
        /\ NotIn(manifest, chunks, removed) /\ NoSource(pdfs, removed)
  BY AtWork DEF Docs!ReplaceManifest, Docs!At, JobOK
<1>2. manifestTmp = w.manifest /\ chunks = Docs!NewChunks(w)
  BY <1>1 DEF JobOK, Late
<1>3. /\ manifest' = w.manifest /\ manifestTmp' = None
      /\ hurt' = hurt \ Docs!Redone(w) /\ removed' = removed \cup w.gone
      /\ Docs!Go(p, Docs!Idle)
      /\ UNCHANGED <<pdfs, chunks, chunksTmp>>
  BY <1>1, <1>2 DEF Docs!ReplaceManifest
<1>4. Docs!TypeOK'
  BY <1>3 DEF LibInv, Docs!TypeOK, Jobs
<1>5. NotIn(manifest', chunks, removed') /\ Backed(manifest', chunks, hurt')
  BY <1>1, <1>2, <1>3 DEF JobOK
<1>6. NoSource(pdfs, removed')
  BY <1>1, <1>3 DEF JobOK, NoSource
<1>7. ~Late(Docs!Idle)
  BY DEF Late, Docs!Idle
<1>8. LibOK(Docs!Idle, pdfs, manifest', chunks, manifestTmp', chunksTmp, hurt',
            removed')
  BY <1>5, <1>6, <1>7 DEF LibOK
<1> QED
  BY <1>3, <1>4, <1>8, OnlyOneWorks

LEMMA KilledStep ==
  ASSUME OneProcess, LibInv, NEW p \in Procs, Docs!Kill(p)
  PROVE  LibInv'
<1>1. /\ ~Docs!At(p, "idle") /\ hurt' = hurt \cup Docs!Touches(work[p])
      /\ Docs!Go(p, Docs!Idle)
      /\ UNCHANGED <<pdfs, manifest, chunks, manifestTmp, chunksTmp, removed>>
  BY DEF Docs!Kill, Docs!disk
<1>2. /\ Backed(manifest, chunks,
                IF Late(work[p]) THEN hurt \cup Touched(work[p], manifest) ELSE hurt)
      /\ NotIn(manifest, chunks, removed) /\ NoSource(pdfs, removed)
  BY DEF LibInv, LibOK
<1>3. Docs!Touches(work[p]) = Touched(work[p], manifest)
  BY DEF Docs!Touches, Touched
<1>4. Docs!Touches(work[p]) \subseteq Names
  <2>1. work[p] \in Jobs
    BY <1>1, AtWork DEF JobOK
  <2> QED
    BY <2>1 DEF Jobs, Docs!Touches
<1>5. Docs!TypeOK'
  BY <1>1, <1>4 DEF LibInv, Docs!TypeOK
<1>6. Backed(manifest, chunks, hurt')
  BY <1>1, <1>2, <1>3 DEF Backed
<1>7. ~Late(Docs!Idle)
  BY DEF Late, Docs!Idle
<1>8. LibOK(Docs!Idle, pdfs, manifest, chunks, manifestTmp, chunksTmp, hurt', removed)
  BY <1>2, <1>6, <1>7 DEF LibOK
<1> QED
  BY <1>1, <1>5, <1>8, OnlyOneWorks

LEMMA IndexStep ==
  ASSUME OneProcess, LibInv, NEW p \in Procs, Docs!Index(p)
  PROVE  LibInv'
<1>1. PICK w \in Jobs :
        /\ w = work[p] /\ w.at = "file" /\ w.files # <<>> /\ w.gone = {}
        /\ JobOK(w, pdfs, manifest, chunks, manifestTmp, chunksTmp, hurt, removed)
        /\ NotIn(manifest, chunks, removed) /\ NoSource(pdfs, removed)
        /\ Backed(manifest, chunks, hurt)
  BY AtWork DEF Docs!Index, Docs!AtFile, Docs!At, JobOK, Late
<1>2. PICK n \in Names : n = Docs!Current(p)
  <2>1. Head(w.files) \in Names \X (Versions \cup {None})
    BY <1>1 DEF Jobs
  <2> QED
    BY <1>1, <2>1 DEF Docs!Current
<1>3. PICK v \in Versions :
        v = Docs!Found(p) /\ (w.kind # "add" => v = pdfs[n] /\ v # None)
  <2>1. Head(w.files) \in Names \X (Versions \cup {None})
    BY <1>1 DEF Jobs
  <2>2. Docs!Found(p) # None /\ pdfs[n] \in Versions \cup {None}
    BY DEF Docs!Index, LibInv, Docs!TypeOK
  <2> QED
    BY <1>1, <1>2, <2>1, <2>2 DEF Docs!Found
<1>4. PICK ok \in BOOLEAN :
        /\ pdfs' = [pdfs EXCEPT ![n] = v]
        /\ Docs!Go(p, [w EXCEPT
             !.files = Tail(@),
             !.touched = @ \cup {n},
             !.fresh = IF ok
                       THEN @ \cup {[title |-> n, version |-> v, tags |-> w.tags]}
                       ELSE @,
             !.manifest[n] = [version |-> v, ok |-> ok, tags |-> w.tags]])
        /\ removed' = IF w.kind = "add" THEN removed \ {n} ELSE removed
        /\ UNCHANGED <<manifest, chunks, manifestTmp, chunksTmp, hurt>>
  BY <1>1, <1>2, <1>3, Zenon DEF Docs!Index, Docs!disk
<1>5. PICK c \in Docs!Chunks, e \in Docs!Entries :
        /\ c = [title |-> n, version |-> v, tags |-> w.tags] /\ c.title = n
        /\ e = [version |-> v, ok |-> ok, tags |-> w.tags] /\ c = ChunkOf(n, e)
  <2>1. w.tags \in Docs!Tags
    BY DEF Jobs
  <2>2. [title |-> n, version |-> v, tags |-> w.tags] \in Docs!Chunks
    BY <2>1 DEF Docs!Chunks
  <2>3. [version |-> v, ok |-> ok, tags |-> w.tags] \in Docs!Entries
    BY <2>1 DEF Docs!Entries
  <2> QED
    BY <2>2, <2>3 DEF ChunkOf
<1>6. PICK m \in [Names -> Docs!Entries \cup {None}] :
        /\ m = [w.manifest EXCEPT ![n] = e]
        /\ \A k \in Names : m[k] = IF k = n THEN e ELSE w.manifest[k]
  <2>1. w.manifest \in [Names -> Docs!Entries \cup {None}]
    BY DEF Jobs
  <2>2. /\ [w.manifest EXCEPT ![n] = e] \in [Names -> Docs!Entries \cup {None}]
        /\ \A k \in Names : [w.manifest EXCEPT ![n] = e][k]
                              = IF k = n THEN e ELSE w.manifest[k]
    BY <2>1
  <2> QED
    BY <2>2
<1>7. PICK fr \in SUBSET Docs!Chunks :
        /\ fr = IF ok THEN w.fresh \cup {c} ELSE w.fresh
        /\ w.fresh \subseteq fr /\ fr \subseteq w.fresh \cup {c}
        /\ ok => c \in fr
  <2>1. w.fresh \subseteq Docs!Chunks
    BY DEF Jobs
  <2> QED
    BY <2>1
<1>8. PICK u \in Jobs :
        /\ Docs!Go(p, u)
        /\ u.at = "file" /\ u.kind = w.kind /\ u.manifest = m
        /\ u.cached = w.cached /\ u.fresh = fr /\ u.touched = w.touched \cup {n}
        /\ u.gone = {}
  <2>1. Tail(w.files) \in Seq(Names \X (Versions \cup {None}))
    BY <1>1 DEF Jobs
  <2>2. w.touched \cup {n} \in SUBSET Names
    BY DEF Jobs
  <2>3. LET u == [w EXCEPT !.files = Tail(w.files), !.touched = w.touched \cup {n},
                           !.fresh = fr, !.manifest = m]
        IN  /\ u \in Jobs /\ u.at = w.at /\ u.kind = w.kind /\ u.manifest = m
            /\ u.cached = w.cached /\ u.fresh = fr
            /\ u.touched = w.touched \cup {n} /\ u.gone = w.gone
    BY <2>1, <2>2 DEF Jobs
  <2>4. [w EXCEPT !.files = Tail(w.files), !.touched = w.touched \cup {n},
                  !.fresh = fr, !.manifest = m]
          = [w EXCEPT
             !.files = Tail(@),
             !.touched = @ \cup {n},
             !.fresh = IF ok THEN @ \cup {c} ELSE @,
             !.manifest[n] = e]
    BY <1>6, <1>7 DEF Jobs
  <2>5. Docs!Go(p, [w EXCEPT !.files = Tail(w.files), !.touched = w.touched \cup {n},
                             !.fresh = fr, !.manifest = m])
    BY <1>4, <1>5, <2>4
  <2> QED
    BY <1>1, <2>3, <2>5
<1>9. pdfs' \in [Names -> Versions \cup {None}]
      /\ \A k \in Names : pdfs'[k] = IF k = n THEN v ELSE pdfs[k]
  BY <1>4 DEF LibInv, Docs!TypeOK
<1>10. removed' \subseteq removed /\ n \notin removed'
  <2>1. w.kind # "add" => n \notin removed
    BY <1>1, <1>3 DEF NoSource
  <2> QED
    BY <1>4, <2>1
<1>11. Docs!TypeOK'
  BY <1>4, <1>9, <1>10 DEF LibInv, Docs!TypeOK
<1>12. /\ \A x \in Docs!NewChunks(w) : x.title # n => x \in Docs!NewChunks(u)
       /\ \A x \in Docs!NewChunks(u) : x \in Docs!NewChunks(w) \/ x.title = n
       /\ ok => c \in Docs!NewChunks(u)
  BY <1>5, <1>7, <1>8 DEF Docs!NewChunks
<1>13. \/ Docs!Redone(w) = w.touched /\ Docs!Redone(u) = w.touched \cup {n}
       \/ Docs!Redone(w) = {} /\ Docs!Redone(u) = {}
  <2>1. CASE w.kind = "retag"
    BY <1>8, <2>1 DEF Docs!Redone
  <2>2. CASE w.kind # "retag"
    <3>1. Docs!Redone(w) = w.touched /\ Docs!Redone(u) = u.touched
      BY <1>8, <2>2 DEF Docs!Redone
    <3>2. u.touched = w.touched \cup {n}
      BY <1>8
    <3> QED
      BY <3>1, <3>2
  <2> QED
    BY <2>1, <2>2
<1>14. Backed(m, Docs!NewChunks(u), hurt \ Docs!Redone(u))
  <2> SUFFICES ASSUME NEW k \in Names \ (hurt \ Docs!Redone(u)),
                      m[k] # None, m[k].ok
               PROVE  ChunkOf(k, m[k]) \in Docs!NewChunks(u)
    BY DEF Backed
  <2>1. CASE k = n
    <3>1. m[k] = e
      BY <1>6, <2>1
    <3>2. e.ok = ok
      BY <1>5
    <3> QED
      BY <1>5, <1>12, <2>1, <3>1, <3>2
  <2>2. CASE k # n
    <3>1. m[k] = w.manifest[k] /\ k \in Names \ (hurt \ Docs!Redone(w))
      BY <1>6, <1>13, <2>2
    <3>2. Backed(w.manifest, Docs!NewChunks(w), hurt \ Docs!Redone(w))
      BY <1>1 DEF JobOK
    <3>3. ChunkOf(k, m[k]) \in Docs!NewChunks(w)
      BY <3>1, <3>2 DEF Backed
    <3>4. ChunkOf(k, m[k]).title = k
      BY DEF ChunkOf
    <3> QED
      BY <1>12, <2>2, <3>3, <3>4
  <2> QED
    BY <2>1, <2>2
<1>15. NotIn(m, Docs!NewChunks(u), removed' \cup u.gone)
  <2>1. NotIn(w.manifest, Docs!NewChunks(w), removed)
    BY <1>1 DEF JobOK, NotIn
  <2>2. removed' \subseteq Names
    BY <1>11 DEF Docs!TypeOK
  <2> QED
    BY <1>6, <1>8, <1>10, <1>12, <2>1, <2>2 DEF NotIn
<1>16. \A k \in Names \ Touched(u, manifest) : m[k] = manifest[k]
  <2>1. \A k \in Names \ Touched(w, manifest) : w.manifest[k] = manifest[k]
    BY <1>1 DEF JobOK
  <2>2. CASE w.kind = "retag"
    BY <1>8, <2>2 DEF Touched
  <2>3. CASE w.kind # "retag"
    <3>1. Touched(u, manifest) = w.touched \cup {n}
          /\ Touched(w, manifest) = w.touched
      BY <1>1, <1>8, <2>3 DEF Touched
    <3> QED
      BY <1>6, <2>1, <3>1
  <2> QED
    BY <2>2, <2>3
<1>17. NoSource(pdfs', removed') /\ NoSource(pdfs', u.gone)
  BY <1>1, <1>8, <1>9, <1>10, <1>11 DEF NoSource, Docs!TypeOK
<1>18. NotIn(manifest, chunks, removed')
  BY <1>1, <1>10 DEF NotIn
<1>19. LibOK(u, pdfs', manifest, chunks, manifestTmp, chunksTmp, hurt, removed')
  BY <1>1, <1>8, <1>14, <1>15, <1>16, <1>17, <1>18 DEF LibOK, JobOK, Late
<1> QED
  BY <1>4, <1>8, <1>11, <1>19, OnlyOneWorks

LEMMA ByHandStep ==
  ASSUME LibInv, NEW n \in Names, Docs!ByHand(n)
  PROVE  LibInv'
<1>1. /\ removed' = removed \ {n}
      /\ UNCHANGED <<manifest, chunks, manifestTmp, chunksTmp, hurt>>
      /\ work' = [p \in Procs |->
                    IF Docs!At(p, "idle") THEN Docs!Idle
                    ELSE [work[p] EXCEPT !.gone = @ \ {n}]]
  BY DEF Docs!ByHand, Docs!disk
<1>2. PICK v \in Versions \cup {None} : pdfs' = [pdfs EXCEPT ![n] = v]
  BY DEF Docs!ByHand
<1>3. pdfs' \in [Names -> Versions \cup {None}]
      /\ \A k \in Names : k # n => pdfs'[k] = pdfs[k]
  BY <1>2 DEF LibInv, Docs!TypeOK
<1>4. Docs!TypeOK'
  BY <1>1, <1>3 DEF LibInv, Docs!TypeOK
<1>5. ASSUME NEW p \in Procs
      PROVE  /\ work'[p] \in Jobs \cup {Docs!Idle}
             /\ LibOK(work'[p], pdfs', manifest, chunks, manifestTmp, chunksTmp, hurt,
                      removed')
  <2>1. /\ NotIn(manifest, chunks, removed) /\ NoSource(pdfs, removed)
        /\ removed \subseteq Names
    BY AtWork DEF LibInv, Docs!TypeOK
  <2>2. NotIn(manifest, chunks, removed') /\ NoSource(pdfs', removed')
    BY <1>1, <1>3, <2>1 DEF NotIn, NoSource
  <2>3. CASE Docs!At(p, "idle")
    <3>1. work'[p] = Docs!Idle /\ work[p] = Docs!Idle
      BY <1>1, <2>3, AtWork
    <3>2. Backed(manifest, chunks, hurt) /\ ~Late(Docs!Idle)
      BY <3>1, AtWork DEF Late, Docs!Idle
    <3> QED
      BY <2>2, <3>1, <3>2 DEF LibOK
  <2>4. CASE ~Docs!At(p, "idle")
    <3>1. PICK w \in Jobs :
            /\ w = work[p]
            /\ JobOK(w, pdfs, manifest, chunks, manifestTmp, chunksTmp, hurt, removed)
            /\ Backed(manifest, chunks,
                      IF Late(w) THEN hurt \cup Touched(w, manifest) ELSE hurt)
      BY <2>4, AtWork DEF JobOK, LibInv, LibOK
    <3>2. PICK u \in Jobs :
            /\ u = [work[p] EXCEPT !.gone = @ \ {n}]
            /\ u.at = w.at /\ u.gone = w.gone \ {n}
            /\ u.kind = w.kind /\ u.manifest = w.manifest
            /\ u.cached = w.cached /\ u.fresh = w.fresh /\ u.touched = w.touched
      <4>1. LET u == [w EXCEPT !.gone = w.gone \ {n}]
            IN  /\ u \in Jobs /\ u.at = w.at /\ u.gone = w.gone \ {n}
                /\ u.kind = w.kind /\ u.manifest = w.manifest
                /\ u.cached = w.cached /\ u.fresh = w.fresh /\ u.touched = w.touched
        BY DEF Jobs
      <4> QED
        BY <3>1, <4>1, Zenon
    <3>3. work'[p] = u
      BY <1>1, <2>4, <3>2
    <3>4. /\ Docs!NewChunks(u) = Docs!NewChunks(w) /\ Docs!Redone(u) = Docs!Redone(w)
          /\ Touched(u, manifest) = Touched(w, manifest)
      BY <3>2, SameJob
    <3>5. NoSource(pdfs', u.gone)
      <4>1. NoSource(pdfs, w.gone)
        BY <3>1 DEF JobOK
      <4>2. w.gone \subseteq Names
        BY DEF Jobs
      <4> QED
        BY <1>3, <3>2, <4>1, <4>2 DEF NoSource
    <3>6. NotIn(u.manifest, Docs!NewChunks(u), removed' \cup u.gone)
      <4>1. NotIn(w.manifest, Docs!NewChunks(w), removed \cup w.gone)
        BY <3>1 DEF JobOK
      <4> QED
        BY <1>1, <3>2, <3>4, <4>1 DEF NotIn
    <3>7. u.at = "file" => u.gone = {}
      BY <3>1, <3>2 DEF JobOK
    <3>8. JobOK(u, pdfs', manifest, chunks, manifestTmp, chunksTmp, hurt, removed')
      BY <3>1, <3>2, <3>4, <3>5, <3>6, <3>7 DEF JobOK, Late
    <3>9. LibOK(u, pdfs', manifest, chunks, manifestTmp, chunksTmp, hurt, removed')
      BY <2>2, <3>1, <3>2, <3>4, <3>8 DEF LibOK, Late
    <3> QED
      BY <3>3, <3>9
  <2> QED
    BY <2>3, <2>4
<1>6. work' \in [Procs -> Jobs \cup {Docs!Idle}]
  BY <1>1, <1>5
<1>7. \A p \in Procs :
        LibOK(work'[p], pdfs', manifest', chunks', manifestTmp', chunksTmp', hurt',
              removed')
  BY <1>1, <1>5
<1> QED
  BY <1>4, <1>6, <1>7 DEF LibInv

\* Every step of the library, the only process's or one by hand.
LEMMA LibStep ==
  OneProcess /\ LibInv /\ [Docs!Next]_docVars => LibInv'
<1> SUFFICES ASSUME OneProcess, LibInv, [Docs!Next]_docVars PROVE LibInv'
  OBVIOUS
<1>1. ASSUME NEW p \in Procs,
             \/ Docs!Add(p) \/ Docs!Reindex(p) \/ Docs!RemoveDoc(p)
             \/ Docs!Retag(p) \/ Docs!Step(p) \/ Docs!Kill(p)
      PROVE  LibInv'
  BY <1>1, AddStep, ReindexStep, RemoveStep, RetagStep, SkipStep, IndexStep,
     VanishedStep, FilesDoneStep, UnlinkStep, LoadChunksStep, OpenChunksStep,
     WriteChunksStep, ReplaceChunksStep, OpenManifestStep, WriteManifestStep, ReplaceManifestStep,
     KilledStep DEF Docs!Step
<1>2. ASSUME NEW n \in Names, Docs!ByHand(n) PROVE LibInv'
  BY <1>2, ByHandStep
<1>3. CASE UNCHANGED docVars
  <2>1. UNCHANGED <<pdfs, manifest, chunks, manifestTmp, chunksTmp, work, hurt, removed>>
    BY <1>3 DEF docVars
  <2> QED
    BY <2>1 DEF LibInv, Docs!TypeOK
<1> QED
  BY <1>1, <1>2, <1>3 DEF Docs!Next

LEMMA LibInit == MemoryInit => LibInv
<1> SUFFICES ASSUME Docs!Init PROVE LibInv
  BY DEF MemoryInit
<1>1. Docs!TypeOK
  BY DEF Docs!Init, Docs!TypeOK
<1>2. work \in [Procs -> Jobs \cup {Docs!Idle}]
      /\ \A p \in Procs : work[p] = Docs!Idle
  BY DEF Docs!Init
<1>3. ~Late(Docs!Idle)
  BY DEF Late, Docs!Idle
<1>4. NotIn(manifest, chunks, removed) /\ NoSource(pdfs, removed)
      /\ Backed(manifest, chunks, hurt)
  BY DEF Docs!Init, NotIn, NoSource, Backed
<1> QED
  BY <1>1, <1>2, <1>3, <1>4 DEF LibInv, LibOK

\* One process works on the library: whatever it does, and wherever it is
\* killed, the library and the operation under way keep in step.
THEOREM LibraryKeepsStep ==
  ASSUME OneProcess
  PROVE  MemorySpec => []LibInv
<1>1. [MemoryNext]_memoryVars => [Docs!Next]_docVars
  BY DEF MemoryNext, memoryVars, docVars, TalkStep, DocStep, LearnStep, ScoreStep,
     EvalStep
<1>2. LibInv /\ [MemoryNext]_memoryVars => LibInv'
  BY OneProcess, <1>1, LibStep
<1> QED
  BY LibInit, <1>2, PTL DEF MemorySpec

\* IndexedIsFound, for one process, any names, contents, platforms and number
\* of operations.
THEOREM WhatIsIndexedIsFound ==
  ASSUME OneProcess, Procs # {}
  PROVE  MemorySpec => []IndexedIsFound
<1>1. LibInv => IndexedIsFound
  <2> SUFFICES ASSUME LibInv, NEW n \in Names \ hurt,
                      manifest[n] # None, manifest[n].ok,
                      \A p \in Procs : n \notin Docs!Touches(work[p])
               PROVE  LET c == ChunkOf(n, manifest[n])
                      IN  c \in chunks /\ \A q \in c.tags : c \in Docs!Eligible(q)
    BY DEF IndexedIsFound, Docs!IndexedIsFound, ChunkOf
  <2>1. PICK p \in Procs : TRUE
    OBVIOUS
  <2>2. n \notin Touched(work[p], manifest)
    BY DEF Docs!Touches, Touched
  <2>3. Backed(manifest, chunks, IF Late(work[p])
                                 THEN hurt \cup Touched(work[p], manifest) ELSE hurt)
    BY DEF LibInv, LibOK
  <2>4. ChunkOf(n, manifest[n]) \in chunks
    BY <2>2, <2>3 DEF Backed
  <2>5. chunks \subseteq Docs!Chunks
    BY DEF LibInv, Docs!TypeOK
  <2>6. Docs!RunRetrieves = chunks
    BY <2>5, PartsAssumption DEF Docs!RunRetrieves, Docs!LibraryAssumption
  <2>7. ASSUME NEW c \in chunks, NEW q \in c.tags
        PROVE  c \in Docs!Eligible(q)
    <3>1. q \in Platforms
      BY <2>5 DEF Docs!Chunks, Docs!Tags
    <3>2. q \in Family[q]
      BY <3>1, PartsAssumption DEF Docs!LibraryAssumption
    <3> QED
      BY <2>6, <3>2 DEF Docs!Eligible
  <2> QED
    BY <2>4, <2>7
<1> QED
  BY OneProcess, LibraryKeepsStep, <1>1, PTL

\* RemovedStaysGone, likewise.
THEOREM RemovedDocsStayGone ==
  ASSUME OneProcess, Procs # {}
  PROVE  MemorySpec => []RemovedStaysGone
<1>1. LibInv => RemovedStaysGone
  BY DEF LibInv, LibOK, NotIn, RemovedStaysGone, Docs!RemovedStaysGone
<1> QED
  BY OneProcess, LibraryKeepsStep, <1>1, PTL

-----------------------------------------------------------------------------
(* Scoring.  Rounding keeps an order, so whatever lowers a component, or   *)
(* raises the penalty, cannot raise the confidence.                        *)

\* Rounding gives a natural number and keeps the order.
LEMMA RoundDivType ==
  ASSUME NEW a \in Nat, NEW b \in Nat \ {0} PROVE Scorer!RoundDiv(a, b) \in Nat
BY DEF Scorer!RoundDiv

LEMMA RoundDivMonotonic ==
  ASSUME NEW a \in Nat, NEW c \in Nat, NEW b \in Nat \ {0}, a <= c
  PROVE  Scorer!RoundDiv(a, b) <= Scorer!RoundDiv(c, b)
BY DEF Scorer!RoundDiv

LEMMA FractionIsPermille ==
  ASSUME NEW a \in Nat, NEW b \in Nat \ {0}, a <= b
  PROVE  Scorer!Fraction(a, b) \in Scorer!Permille
BY DEF Scorer!Fraction, Scorer!RoundDiv, Scorer!Permille

\* A larger part of the same whole is no smaller a fraction.
LEMMA FractionMonotonic ==
  ASSUME NEW a \in Nat, NEW c \in Nat, NEW b \in Nat \ {0}, a <= c
  PROVE  Scorer!Fraction(a, b) <= Scorer!Fraction(c, b)
<1>1. 1000 * a \in Nat /\ 1000 * c \in Nat /\ 1000 * a <= 1000 * c
  OBVIOUS
<1> QED
  BY <1>1, RoundDivMonotonic DEF Scorer!Fraction

\* Scoring counts as the library of facts does.
LEMMA CountsAlike ==
  ASSUME NEW S
  PROVE  /\ Scorer!Cardinality(S) = Cardinality(S)
         /\ Scorer!IsFiniteSet(S) <=> IsFiniteSet(S)
BY DEF Scorer!Cardinality, Cardinality, Scorer!IsFiniteSet, IsFiniteSet

\* What is cited is finite, and of it what is supported.
LEMMA CitedIsFinite ==
  ASSUME NEW a \in Scorer!Answers
  PROVE  /\ IsFiniteSet(Scorer!Cited(a)) /\ IsFiniteSet(Scorer!Supported(a))
         /\ Cardinality(Scorer!Cited(a)) \in Nat
         /\ Cardinality(Scorer!Supported(a)) \in Nat
         /\ Cardinality(Scorer!Supported(a)) <= Cardinality(Scorer!Cited(a))
         /\ Scorer!Cited(a) # {} => Cardinality(Scorer!Cited(a)) # 0
<1>1. IsFiniteSet(Pages)
  BY PartsAssumption, CountsAlike DEF Scorer!ScoringAssumption
<1>2. IsFiniteSet({<<s, NoPage>> : s \in Scorer!Sources})
  <2> DEFINE whole == {<<s, NoPage>> : s \in Scorer!Sources}
             f == [p \in Pages |-> <<p[1], NoPage>>]
  <2>1. f \in Surjection(Pages, whole)
    BY DEF Surjection, Scorer!Sources
  <2> QED
    BY <1>1, <2>1, FS_Surjection
<1>3. IsFiniteSet(Scorer!Documents)
  BY <1>1, <1>2, FS_Union DEF Scorer!Documents
<1>4. Scorer!Cited(a) \subseteq Scorer!Documents
      /\ Scorer!Supported(a) \subseteq Scorer!Cited(a)
  BY DEF Scorer!Cited, Scorer!Supported
<1> HIDE DEF Scorer!Cited
<1> QED
  BY <1>3, <1>4, FS_Subset, FS_EmptySet, FS_CardinalityType

LEMMA SupportIsPermille ==
  ASSUME NEW a \in Scorer!Answers PROVE Scorer!Support(a) \in Scorer!Permille
<1>1. CASE Scorer!Verifiable(a)
  <2>1. Scorer!Cited(a) # {}
    BY <1>1 DEF Scorer!Verifiable
  <2> QED
    BY <1>1, <2>1, CitedIsFinite, CountsAlike, FractionIsPermille DEF Scorer!Support
<1>2. CASE ~Scorer!Verifiable(a)
  BY <1>2 DEF Scorer!Support, Scorer!Permille
<1> QED
  BY <1>1, <1>2

LEMMA FitIsPermille ==
  ASSUME NEW a \in Scorer!Answers PROVE Scorer!Fit(a) \in Scorer!Permille
<1>1. a.evidence \in Scorer!Evidence /\ a.verdict \in Scorer!Verdicts
  BY PartsAssumption DEF Scorer!Answers, Scorer!ScoringAssumption
<1>2. CASE a.evidence.kind = "registers"
  <2>1. a.evidence.known \in Nat /\ a.evidence.all \in Nat \ {0}
        /\ a.evidence.known <= a.evidence.all
    BY <1>1, <1>2 DEF Scorer!Evidence
  <2> QED
    BY <1>2, <2>1, FractionIsPermille DEF Scorer!Fit
<1>3. CASE a.evidence.kind = "sensors" /\ a.verdict # "unknown"
  <2>1. Scorer!SensorFit(a.verdict, a.evidence.anomaly) \in Scorer!Permille
    BY <1>1, <1>3 DEF Scorer!SensorFit, Scorer!Verdicts, Scorer!Permille
  <2> QED
    BY <1>3, <2>1 DEF Scorer!Fit
<1>4. CASE a.evidence.kind # "registers"
           /\ ~(a.evidence.kind = "sensors" /\ a.verdict # "unknown")
  <2>1. a.evidence.useful \in Nat /\ a.evidence.all \in Nat
        /\ a.evidence.useful <= a.evidence.all
    BY <1>1, <1>4 DEF Scorer!Evidence
  <2>2. a.evidence.all # 0 =>
          Scorer!Fraction(a.evidence.useful, a.evidence.all) \in Scorer!Permille
    BY <2>1, FractionIsPermille
  <2>3. Scorer!Fit(a) = IF a.evidence.all = 0 THEN 0
                        ELSE Scorer!Fraction(a.evidence.useful, a.evidence.all)
    BY <1>4 DEF Scorer!Fit
  <2>4. 0 \in Scorer!Permille
    BY DEF Scorer!Permille
  <2> QED
    BY <2>2, <2>3, <2>4
<1> QED
  BY <1>2, <1>3, <1>4


\* A failure point is a record of what it names.
LEMMA FailureParts ==
  ASSUME NEW f \in Scorer!Failures, f # None
  PROVE  /\ f.suspects \subseteq Suspects /\ f.addressed \subseteq f.suspects
         /\ f = [suspects |-> f.suspects, addressed |-> f.addressed,
                 probed |-> f.probed, engaged |-> f.engaged]
         /\ f.probed \in BOOLEAN /\ f.engaged \in BOOLEAN
BY DEF Scorer!Failures, Scorer!FailurePoints

LEMMA CoverageIsPermille ==
  ASSUME NEW f \in Scorer!Failures, f # None
  PROVE  Scorer!Coverage(f) \in Scorer!Permille
<1>1. IsFiniteSet(f.suspects)
  BY FailureParts, FS_Subset, PartsAssumption, CountsAlike DEF Scorer!ScoringAssumption
<1>2. /\ IsFiniteSet(f.addressed)
      /\ Cardinality(f.addressed) \in Nat /\ Cardinality(f.suspects) \in Nat
      /\ Cardinality(f.addressed) <= Cardinality(f.suspects)
      /\ f.suspects # {} => Cardinality(f.suspects) # 0
  BY <1>1, FailureParts, FS_Subset, FS_EmptySet, FS_CardinalityType
<1> QED
  <2>1. CASE f.suspects = {}
    BY <2>1 DEF Scorer!Coverage, Scorer!Permille
  <2>2. CASE f.suspects # {}
    BY <1>2, <2>2, CountsAlike, FractionIsPermille DEF Scorer!Coverage
  <2> QED
    BY <2>1, <2>2

LEMMA CertaintyIsPermille ==
  ASSUME NEW f \in Scorer!Failures, f # None
  PROVE  Scorer!Certainty(f) \in Scorer!Permille
<1>1. PICK v \in Nat : v = Scorer!Coverage(f) /\ v <= 1000
  <2>1. Scorer!Coverage(f) \in Nat /\ Scorer!Coverage(f) <= 1000
    <3>1. Scorer!Coverage(f) \in Scorer!Permille
      BY CoverageIsPermille
    <3> QED
      BY <3>1 DEF Scorer!Permille
  <2> QED
    BY <2>1
<1>2. PICK w \in Nat : w = Scorer!Discrimination(f) /\ w <= 1000
  <2>1. Scorer!Discrimination(f) = 1000 \/ Scorer!Discrimination(f) = 0
    BY DEF Scorer!Discrimination
  <2> QED
    BY <2>1
<1>3. Scorer!RoundDiv(v + w, 2) \in Nat /\ Scorer!RoundDiv(v + w, 2) <= 1000
  BY <1>1, <1>2 DEF Scorer!RoundDiv
<1> QED
  <2>1. Scorer!Certainty(f) = Scorer!RoundDiv(v + w, 2)
    BY <1>1, <1>2 DEF Scorer!Certainty
  <2> QED
    BY <1>3, <2>1 DEF Scorer!Permille

LEMMA PermilleIsBounded ==
  ASSUME NEW x PROVE x \in Scorer!Permille <=> x \in Nat /\ x <= 1000
BY SMTT(30) DEF Scorer!Permille

\* The parts of a breakdown.
LEMMA BreakdownParts ==
  ASSUME NEW b \in Scorer!Breakdowns
  PROVE  /\ b.retrieval \in Nat /\ b.retrieval <= 1000
         /\ b.evidence \in Nat /\ b.evidence <= 1000
         /\ b.agreement \in Nat /\ b.agreement <= 1000
         /\ b.certainty \in Nat /\ b.certainty <= 1000
         /\ b.penalty \in Nat
<1>1. /\ b.retrieval \in Scorer!Permille /\ b.evidence \in Scorer!Permille
      /\ b.agreement \in Scorer!Permille /\ b.certainty \in Scorer!Permille
      /\ b.penalty \in {0, 50}
  BY DEF Scorer!Breakdowns
<1> QED
  BY <1>1, PermilleIsBounded

\* What the scorer computes of an answer.
LEMMA BreakdownIsRated ==
  ASSUME NEW a \in Scorer!Answers, NEW self \in Scorer!Permille
  PROVE  Scorer!Breakdown(a, self) \in Scorer!Breakdowns
<1>1. a.agreement \in Scorer!Permille /\ a.failure \in Scorer!Failures
  BY PartsAssumption DEF Scorer!Answers, Scorer!ScoringAssumption
<1>2. Scorer!Penalty(a) \in {0, 50}
  BY DEF Scorer!Penalty
<1>3. (IF a.failure = None THEN 0 ELSE Scorer!Certainty(a.failure)) \in Scorer!Permille
  BY <1>1, CertaintyIsPermille DEF Scorer!Permille
<1>4. /\ Scorer!Support(a) \in Scorer!Permille /\ Scorer!Fit(a) \in Scorer!Permille
      /\ a.agreement \in Scorer!Permille
  BY <1>1, SupportIsPermille, FitIsPermille
<1> QED
  BY <1>2, <1>3, <1>4 DEF Scorer!Breakdowns, Scorer!Breakdown

\* The weighted mean, for each of the four sets of weights: whether there is a
\* failure point, and whether the citations can be verified (1 or 0).
Mean(r, e, g, c, failing, verified) ==
  IF failing = 1
  THEN IF verified = 1 THEN Scorer!RoundDiv(r * 40 + e * 25 + g * 10 + c * 25, 100)
       ELSE Scorer!RoundDiv(e * 25 + g * 10 + c * 25, 60)
  ELSE IF verified = 1 THEN Scorer!RoundDiv(r * 55 + e * 30 + g * 15, 100)
       ELSE Scorer!RoundDiv(e * 30 + g * 15, 45)

MeanOf(a, b) ==
  Mean(b.retrieval, b.evidence, b.agreement, b.certainty,
       IF a.failure # None THEN 1 ELSE 0, IF Scorer!Verifiable(a) THEN 1 ELSE 0)

LEMMA MeanIsMeanOf ==
  ASSUME NEW a, NEW b \in Scorer!Breakdowns
  PROVE  Scorer!Mean(b, Scorer!Weights(a)) = MeanOf(a, b)
<1> DEFINE weights(r, e, g, c) ==
             [retrieval |-> r, evidence |-> e, agreement |-> g, certainty |-> c]
<1>1. ASSUME NEW r \in Nat, NEW e \in Nat, NEW g \in Nat, NEW c \in Nat
      PROVE  Scorer!Mean(b, weights(r, e, g, c))
               = Scorer!RoundDiv(b.retrieval * r + b.evidence * e + b.agreement * g
                                   + b.certainty * c, r + e + g + c)
  BY DEF Scorer!Mean, Scorer!Weighted, Scorer!Total
<1>2. Scorer!Weights(a) =
        IF a.failure = None
        THEN IF Scorer!Verifiable(a) THEN weights(55, 30, 15, 0) ELSE weights(0, 30, 15, 0)
        ELSE IF Scorer!Verifiable(a) THEN weights(40, 25, 10, 25) ELSE weights(0, 25, 10, 25)
  BY DEF Scorer!Weights
<1>3. /\ b.retrieval \in Nat /\ b.evidence \in Nat
      /\ b.agreement \in Nat /\ b.certainty \in Nat
  BY PermilleIsBounded DEF Scorer!Breakdowns
<1> HIDE DEF weights
<1>4. CASE a.failure # None /\ Scorer!Verifiable(a)
  BY <1>1, <1>2, <1>4 DEF MeanOf, Mean
<1>5. CASE a.failure # None /\ ~Scorer!Verifiable(a)
  <2>1. Scorer!Mean(b, weights(0, 25, 10, 25))
          = Scorer!RoundDiv(b.retrieval * 0 + b.evidence * 25 + b.agreement * 10
                              + b.certainty * 25, 0 + 25 + 10 + 25)
    BY <1>1
  <2>2. Scorer!Weights(a) = weights(0, 25, 10, 25)
    BY <1>2, <1>5
  <2> QED
    BY <1>3, <1>5, <2>1, <2>2 DEF MeanOf, Mean
<1>6. CASE a.failure = None /\ Scorer!Verifiable(a)
  <2>1. Scorer!Mean(b, weights(55, 30, 15, 0))
          = Scorer!RoundDiv(b.retrieval * 55 + b.evidence * 30 + b.agreement * 15
                              + b.certainty * 0, 55 + 30 + 15 + 0)
    BY <1>1
  <2>2. Scorer!Weights(a) = weights(55, 30, 15, 0)
    BY <1>2, <1>6
  <2> QED
    BY <1>3, <1>6, <2>1, <2>2 DEF MeanOf, Mean
<1>7. CASE a.failure = None /\ ~Scorer!Verifiable(a)
  <2>1. Scorer!Mean(b, weights(0, 30, 15, 0))
          = Scorer!RoundDiv(b.retrieval * 0 + b.evidence * 30 + b.agreement * 15
                              + b.certainty * 0, 0 + 30 + 15 + 0)
    BY <1>1
  <2>2. Scorer!Weights(a) = weights(0, 30, 15, 0)
    BY <1>2, <1>7
  <2> QED
    BY <1>3, <1>7, <2>1, <2>2 DEF MeanOf, Mean
<1> QED
  BY <1>4, <1>5, <1>6, <1>7

\* A mean lies between the weakest and the strongest of what it is of.
LEMMA MeanIsNat ==
  ASSUME NEW r \in Nat, NEW e \in Nat, NEW g \in Nat, NEW c \in Nat,
         NEW x \in Nat, NEW y \in Nat
  PROVE  Mean(r, e, g, c, x, y) \in Nat
<1>1. CASE x = 1 /\ y = 1
  BY <1>1 DEF Mean, Scorer!RoundDiv
<1>2. CASE x = 1 /\ y # 1
  BY <1>2 DEF Mean, Scorer!RoundDiv
<1>3. CASE x # 1 /\ y = 1
  BY <1>3 DEF Mean, Scorer!RoundDiv
<1>4. CASE x # 1 /\ y # 1
  BY <1>4 DEF Mean, Scorer!RoundDiv
<1> QED
  BY <1>1, <1>2, <1>3, <1>4

LEMMA MeanIsBetween ==
  ASSUME NEW r \in Nat, NEW e \in Nat, NEW g \in Nat, NEW c \in Nat,
         NEW x \in Nat, NEW y \in Nat
  PROVE  /\ \/ Mean(r, e, g, c, x, y) <= e \/ Mean(r, e, g, c, x, y) <= g
            \/ y = 1 /\ Mean(r, e, g, c, x, y) <= r
            \/ x = 1 /\ Mean(r, e, g, c, x, y) <= c
         /\ \/ Mean(r, e, g, c, x, y) >= e \/ Mean(r, e, g, c, x, y) >= g
            \/ y = 1 /\ Mean(r, e, g, c, x, y) >= r
            \/ x = 1 /\ Mean(r, e, g, c, x, y) >= c
<1>1. CASE x = 1 /\ y = 1
  BY <1>1 DEF Mean, Scorer!RoundDiv
<1>2. CASE x = 1 /\ y # 1
  BY <1>2 DEF Mean, Scorer!RoundDiv
<1>3. CASE x # 1 /\ y = 1
  BY <1>3 DEF Mean, Scorer!RoundDiv
<1>4. CASE x # 1 /\ y # 1
  BY <1>4 DEF Mean, Scorer!RoundDiv
<1> QED
  BY <1>1, <1>2, <1>3, <1>4

\* Of smaller components the mean is no greater.
LEMMA MeanMonotonic ==
  ASSUME NEW r \in Nat, NEW e \in Nat, NEW g \in Nat, NEW c \in Nat,
         NEW r1 \in Nat, NEW e1 \in Nat, NEW g1 \in Nat, NEW c1 \in Nat,
         r1 <= r, e1 <= e, g1 <= g, c1 <= c,
         NEW x \in Nat, NEW y \in Nat
  PROVE  /\ Mean(r, e, g, c, x, y) \in Nat /\ Mean(r1, e1, g1, c1, x, y) \in Nat
         /\ Mean(r1, e1, g1, c1, x, y) <= Mean(r, e, g, c, x, y)
<1>1. CASE x = 1 /\ y = 1
  BY <1>1 DEF Mean, Scorer!RoundDiv
<1>2. CASE x = 1 /\ y # 1
  BY <1>2 DEF Mean, Scorer!RoundDiv
<1>3. CASE x # 1 /\ y = 1
  BY <1>3 DEF Mean, Scorer!RoundDiv
<1>4. CASE x # 1 /\ y # 1
  BY <1>4 DEF Mean, Scorer!RoundDiv
<1> QED
  BY <1>1, <1>2, <1>3, <1>4


\* The confidence of an answer, when it was scored with any self-report.
LEMMA ScoreIsMean ==
  ASSUME NEW a \in Scorer!Answers, NEW self \in Scorer!Permille
  PROVE  LET b == Scorer!Breakdown(a, self)
         IN  Scorer!Confidence(b, Scorer!Weights(a))
               = Scorer!Clamped(MeanOf(a, b) - b.penalty)
BY BreakdownIsRated, MeanIsMeanOf DEF Scorer!Confidence

\* An answer no better in any component is given no more.
LEMMA NoBetterNoMore ==
  ASSUME NEW a \in Scorer!Answers, NEW d \in Scorer!Answers,
         NEW self \in Scorer!Permille,
         Scorer!Verifiable(a) <=> Scorer!Verifiable(d),
         a.failure # None <=> d.failure # None,
         Scorer!Support(d) <= Scorer!Support(a), Scorer!Fit(d) <= Scorer!Fit(a),
         d.agreement <= a.agreement,
         a.failure # None => Scorer!Certainty(d.failure) <= Scorer!Certainty(a.failure),
         Scorer!Penalty(a) <= Scorer!Penalty(d)
  PROVE  Scorer!ScoreOf(d)
           <= Scorer!Confidence(Scorer!Breakdown(a, self), Scorer!Weights(a))
<1>1. PICK b \in Scorer!Breakdowns : b = Scorer!Breakdown(a, self)
  BY BreakdownIsRated
<1>2. PICK e \in Scorer!Breakdowns : e = Scorer!Breakdown(d, 0)
  <2>1. 0 \in Scorer!Permille
    BY DEF Scorer!Permille
  <2> QED
    BY <2>1, BreakdownIsRated
<1>b. /\ b.retrieval \in Nat /\ b.evidence \in Nat /\ b.agreement \in Nat
      /\ b.certainty \in Nat /\ b.penalty \in Nat
      /\ b.retrieval <= 1000 /\ b.evidence <= 1000 /\ b.agreement <= 1000
      /\ b.certainty <= 1000
  BY <1>1, BreakdownParts
<1>e. /\ e.retrieval \in Nat /\ e.evidence \in Nat /\ e.agreement \in Nat
      /\ e.certainty \in Nat /\ e.penalty \in Nat
  BY <1>2, BreakdownParts
<1>r. PICK r \in Nat : r = b.retrieval
  BY <1>b
<1>v. PICK v \in Nat : v = b.evidence
  BY <1>b
<1>g. PICK g \in Nat : g = b.agreement
  BY <1>b
<1>c. PICK c \in Nat : c = b.certainty
  BY <1>b
<1>p. PICK p \in Nat : p = b.penalty
  BY <1>b
<1>r1. PICK r1 \in Nat : r1 = e.retrieval
  BY <1>e
<1>v1. PICK v1 \in Nat : v1 = e.evidence
  BY <1>e
<1>g1. PICK g1 \in Nat : g1 = e.agreement
  BY <1>e
<1>c1. PICK c1 \in Nat : c1 = e.certainty
  BY <1>e
<1>p1. PICK p1 \in Nat : p1 = e.penalty
  BY <1>e
<1>3. /\ r = b.retrieval /\ v = b.evidence /\ g = b.agreement /\ c = b.certainty
      /\ p = b.penalty
      /\ r <= 1000 /\ v <= 1000 /\ g <= 1000 /\ c <= 1000
  BY <1>b, <1>r, <1>v, <1>g, <1>c, <1>p
<1>4. /\ r1 = e.retrieval /\ v1 = e.evidence /\ g1 = e.agreement /\ c1 = e.certainty
      /\ p1 = e.penalty
  BY <1>r1, <1>v1, <1>g1, <1>c1, <1>p1
<1>5. r1 <= r /\ v1 <= v /\ g1 <= g /\ c1 <= c /\ p <= p1
  <2>1. e.certainty <= b.certainty
    <3>1. d.failure # None => Scorer!Certainty(d.failure) <= Scorer!Certainty(a.failure)
      OBVIOUS
    <3>2. 0 <= 0
      OBVIOUS
    <3> QED
      BY <1>1, <1>2, <3>1, <3>2 DEF Scorer!Breakdown
  <2>2. e.retrieval <= b.retrieval /\ e.evidence <= b.evidence
        /\ e.agreement <= b.agreement /\ b.penalty <= e.penalty
    BY <1>1, <1>2 DEF Scorer!Breakdown
  <2> QED
    BY <1>3, <1>4, <2>1, <2>2
<1>6. PICK m \in Nat, m1 \in Nat : m = MeanOf(a, b) /\ m1 = MeanOf(d, e) /\ m1 <= m
  <2>1. PICK x \in Nat, y \in Nat :
          /\ x = (IF a.failure # None THEN 1 ELSE 0)
          /\ y = (IF Scorer!Verifiable(a) THEN 1 ELSE 0)
    OBVIOUS
  <2>2. MeanOf(a, b) = Mean(r, v, g, c, x, y)
    BY <1>3, <2>1 DEF MeanOf
  <2>3. MeanOf(d, e) = Mean(r1, v1, g1, c1, x, y)
    BY <1>4, <2>1 DEF MeanOf
  <2>4. /\ Mean(r, v, g, c, x, y) \in Nat /\ Mean(r1, v1, g1, c1, x, y) \in Nat
        /\ Mean(r1, v1, g1, c1, x, y) <= Mean(r, v, g, c, x, y)
    BY <1>5, MeanMonotonic
  <2> QED
    BY <2>2, <2>3, <2>4
<1>7. Scorer!Clamped(m1 - p1) <= Scorer!Clamped(m - p)
  BY <1>5, <1>6 DEF Scorer!Clamped
<1>8. Scorer!ScoreOf(d) = Scorer!Clamped(m1 - p1)
  <2>1. 0 \in Scorer!Permille
    BY DEF Scorer!Permille
  <2> QED
    BY <1>2, <1>4, <1>6, <2>1, ScoreIsMean DEF Scorer!ScoreOf
<1>9. Scorer!Confidence(Scorer!Breakdown(a, self), Scorer!Weights(a)) = Scorer!Clamped(m - p)
  BY <1>1, <1>3, <1>6, ScoreIsMean
<1> QED
  BY <1>7, <1>8, <1>9


\* What is read off an answer is the same when what it is read off is.
LEMMA ReadsAlike ==
  ASSUME NEW a \in Scorer!Answers, NEW d,
         d.references = a.references, d.snippets = a.snippets
  PROVE  /\ Scorer!Support(d) = Scorer!Support(a)
         /\ Scorer!Verifiable(a) <=> Scorer!Verifiable(d)
BY DEF Scorer!Support, Scorer!Verifiable, Scorer!Cited, Scorer!Supported

LEMMA FitsAlike ==
  ASSUME NEW a \in Scorer!Answers, NEW d, d.evidence = a.evidence, d.verdict = a.verdict
  PROVE  Scorer!Fit(d) = Scorer!Fit(a)
BY DEF Scorer!Fit

\* Fewer pages, fewer supported citations of the same ones.
LEMMA FewerPages ==
  ASSUME NEW a \in Scorer!Answers, NEW d \in Scorer!Answers,
         d.references = a.references, d.snippets \subseteq a.snippets,
         d.snippets # {}
  PROVE  /\ Scorer!Support(d) <= Scorer!Support(a)
         /\ Scorer!Verifiable(a) <=> Scorer!Verifiable(d)
<1>1. Scorer!Cited(d) = Scorer!Cited(a)
  BY DEF Scorer!Cited
<1>2. Scorer!Verifiable(a) <=> Scorer!Verifiable(d)
  BY <1>1 DEF Scorer!Verifiable
<1>3. Scorer!Supported(d) \subseteq Scorer!Supported(a)
  BY <1>1 DEF Scorer!Supported, Scorer!Supports
<1>4. Cardinality(Scorer!Supported(d)) <= Cardinality(Scorer!Supported(a))
  BY <1>3, CitedIsFinite, FS_Subset
<1>5. CASE Scorer!Verifiable(a)
  <2>1. Cardinality(Scorer!Cited(a)) \in Nat \ {0}
    BY <1>5, CitedIsFinite DEF Scorer!Verifiable
  <2>2. Cardinality(Scorer!Supported(d)) \in Nat /\ Cardinality(Scorer!Supported(a)) \in Nat
    BY CitedIsFinite
  <2>3. Scorer!Fraction(Cardinality(Scorer!Supported(d)), Cardinality(Scorer!Cited(a)))
          <= Scorer!Fraction(Cardinality(Scorer!Supported(a)), Cardinality(Scorer!Cited(a)))
    BY <1>4, <2>1, <2>2, FractionMonotonic
  <2> QED
    BY <1>1, <1>2, <1>5, <2>3, CountsAlike DEF Scorer!Support
<1>6. CASE ~Scorer!Verifiable(a)
  <2>1. Scorer!Support(d) = 0 /\ Scorer!Support(a) = 0
    BY <1>2, <1>6 DEF Scorer!Support
  <2> QED
    BY <1>2, <2>1
<1> QED
  BY <1>2, <1>5, <1>6

\* Fewer suspects addressed, or no probe that tells them apart: less certain.
LEMMA LessCertain ==
  ASSUME NEW f \in Scorer!FailurePoints, NEW h \in Scorer!FailurePoints,
         h.suspects = f.suspects, h.addressed \subseteq f.addressed,
         h.probed /\ h.engaged => f.probed /\ f.engaged
  PROVE  Scorer!Certainty(h) <= Scorer!Certainty(f)
<1>1. f.suspects \subseteq Suspects /\ f.addressed \subseteq f.suspects
  BY DEF Scorer!FailurePoints
<1>2. IsFiniteSet(f.suspects)
  BY <1>1, FS_Subset, PartsAssumption, CountsAlike DEF Scorer!ScoringAssumption
<1>3. IsFiniteSet(f.addressed) /\ IsFiniteSet(h.addressed)
  BY <1>1, <1>2, FS_Subset
<1>4. /\ Cardinality(f.addressed) \in Nat /\ Cardinality(f.suspects) \in Nat
      /\ Cardinality(h.addressed) \in Nat
      /\ Cardinality(h.addressed) <= Cardinality(f.addressed)
      /\ f.suspects # {} => Cardinality(f.suspects) # 0
  BY <1>2, <1>3, FS_Subset, FS_EmptySet, FS_CardinalityType
<1>5. Scorer!Coverage(h) <= Scorer!Coverage(f)
  <2>1. CASE f.suspects = {}
    <3>1. Scorer!Coverage(h) = 500 /\ Scorer!Coverage(f) = 500
      BY <2>1 DEF Scorer!Coverage
    <3> QED
      BY <3>1
  <2>2. CASE f.suspects # {}
    <3>1. Scorer!Fraction(Cardinality(h.addressed), Cardinality(f.suspects))
            <= Scorer!Fraction(Cardinality(f.addressed), Cardinality(f.suspects))
      BY <1>4, <2>2, FractionMonotonic
    <3> QED
      BY <2>2, <3>1, CountsAlike DEF Scorer!Coverage
  <2> QED
    BY <2>1, <2>2
<1>6. Scorer!Coverage(h) \in Nat /\ Scorer!Coverage(f) \in Nat
  BY CoverageIsPermille, PartsAssumption, PermilleIsBounded DEF
     Scorer!ScoringAssumption, Scorer!Failures
<1>7. /\ Scorer!Discrimination(h) \in Nat /\ Scorer!Discrimination(f) \in Nat
      /\ Scorer!Discrimination(h) <= Scorer!Discrimination(f)
  BY DEF Scorer!Discrimination
<1>8. Scorer!Coverage(h) + Scorer!Discrimination(h)
        <= Scorer!Coverage(f) + Scorer!Discrimination(f)
  BY <1>5, <1>6, <1>7
<1> QED
  BY <1>6, <1>7, <1>8, RoundDivMonotonic DEF Scorer!Certainty


\* An answer that is worse in one respect is given no more.
LEMMA WorseNoMore ==
  ASSUME NEW a \in Scorer!Answers, NEW d \in Scorer!Worse(a), NEW self \in Scorer!Permille
  PROVE  Scorer!ScoreOf(d)
           <= Scorer!Confidence(Scorer!Breakdown(a, self), Scorer!Weights(a))
<1>0. /\ Scorer!Support(a) \in Nat /\ Scorer!Fit(a) \in Nat /\ a.agreement \in Nat
      /\ Scorer!Penalty(a) \in Nat
      /\ a.failure # None => Scorer!Certainty(a.failure) \in Nat
  <2>1. a.agreement \in Scorer!Permille /\ a.failure \in Scorer!Failures
    BY PartsAssumption DEF Scorer!Answers, Scorer!ScoringAssumption
  <2>2. Scorer!Penalty(a) \in Nat
    BY DEF Scorer!Penalty
  <2> QED
    BY <2>1, <2>2, SupportIsPermille, FitIsPermille, CertaintyIsPermille,
       PermilleIsBounded
<1>1. CASE \E p \in a.snippets : /\ a.snippets # {p}
                                 /\ d = [a EXCEPT !.snippets = @ \ {p}]
  <2>1. PICK p \in a.snippets : /\ a.snippets # {p}
                                /\ d = [a EXCEPT !.snippets = a.snippets \ {p}]
    BY <1>1 DEF Scorer!Answers
  <2>2. /\ d \in Scorer!Answers
        /\ d.references = a.references /\ d.snippets = a.snippets \ {p}
        /\ d.evidence = a.evidence /\ d.verdict = a.verdict
        /\ d.failure = a.failure /\ d.agreement = a.agreement /\ d.acts = a.acts
    BY <2>1 DEF Scorer!Answers
  <2>3. d.snippets \subseteq a.snippets /\ d.snippets # {}
    BY <2>1, <2>2
  <2>4. Scorer!Fit(d) = Scorer!Fit(a) /\ Scorer!Penalty(d) = Scorer!Penalty(a)
    BY <2>2, FitsAlike DEF Scorer!Penalty
  <2> QED
    BY <1>0, <2>2, <2>3, <2>4, FewerPages, NoBetterNoMore
<1>2. CASE d = [a EXCEPT !.acts = FALSE]
  <2>1. /\ d \in Scorer!Answers
        /\ d.references = a.references /\ d.snippets = a.snippets
        /\ d.evidence = a.evidence /\ d.verdict = a.verdict
        /\ d.failure = a.failure /\ d.agreement = a.agreement /\ d.acts = FALSE
    BY <1>2 DEF Scorer!Answers
  <2>2. Scorer!Fit(d) = Scorer!Fit(a) /\ Scorer!Penalty(a) <= Scorer!Penalty(d)
    BY <2>1, FitsAlike DEF Scorer!Penalty
  <2> QED
    BY <1>0, <2>1, <2>2, ReadsAlike, NoBetterNoMore
<1>3. CASE \E v \in Agreements : v <= a.agreement /\ d = [a EXCEPT !.agreement = v]
  <2>1. PICK v \in Agreements : v <= a.agreement /\ d = [a EXCEPT !.agreement = v]
    BY <1>3
  <2>2. /\ d \in Scorer!Answers
        /\ d.references = a.references /\ d.snippets = a.snippets
        /\ d.evidence = a.evidence /\ d.verdict = a.verdict
        /\ d.failure = a.failure /\ d.agreement = v /\ d.acts = a.acts
    BY <2>1 DEF Scorer!Answers
  <2>3. Scorer!Fit(d) = Scorer!Fit(a) /\ Scorer!Penalty(a) = Scorer!Penalty(d)
    BY <2>2, FitsAlike DEF Scorer!Penalty
  <2>4. d.agreement <= a.agreement
    BY <2>1, <2>2
  <2>5. /\ Scorer!Support(d) = Scorer!Support(a)
        /\ Scorer!Verifiable(a) <=> Scorer!Verifiable(d)
    BY <2>2, ReadsAlike
  <2>6. /\ Scorer!Support(d) <= Scorer!Support(a) /\ Scorer!Fit(d) <= Scorer!Fit(a)
        /\ Scorer!Penalty(a) <= Scorer!Penalty(d)
        /\ a.failure # None => Scorer!Certainty(d.failure) <= Scorer!Certainty(a.failure)
    BY <1>0, <2>2, <2>3, <2>5
  <2> QED
    BY <2>2, <2>4, <2>5, <2>6, NoBetterNoMore
<1>4. ASSUME a.failure # None, NEW h \in Scorer!FailurePoints,
             d = [a EXCEPT !.failure = h],
             h.suspects = a.failure.suspects, h.addressed \subseteq a.failure.addressed,
             h.probed /\ h.engaged => a.failure.probed /\ a.failure.engaged
      PROVE  Scorer!ScoreOf(d)
               <= Scorer!Confidence(Scorer!Breakdown(a, self), Scorer!Weights(a))
  <2>1. /\ d \in Scorer!Answers
        /\ d.references = a.references /\ d.snippets = a.snippets
        /\ d.evidence = a.evidence /\ d.verdict = a.verdict
        /\ d.failure = h /\ d.agreement = a.agreement /\ d.acts = a.acts
    BY <1>4 DEF Scorer!Answers, Scorer!Failures
  <2>2. Scorer!Fit(d) = Scorer!Fit(a) /\ Scorer!Penalty(a) = Scorer!Penalty(d)
    BY <2>1, FitsAlike DEF Scorer!Penalty
  <2>3. h # None
    BY PartsAssumption DEF Scorer!ScoringAssumption
  <2>4. Scorer!Certainty(h) <= Scorer!Certainty(a.failure)
    <3>1. a.failure \in Scorer!FailurePoints
      BY <1>4 DEF Scorer!Answers, Scorer!Failures
    <3> QED
      BY <1>4, <3>1, LessCertain
  <2>5. /\ Scorer!Support(d) <= Scorer!Support(a) /\ Scorer!Fit(d) <= Scorer!Fit(a)
        /\ Scorer!Penalty(a) <= Scorer!Penalty(d) /\ d.agreement <= a.agreement
        /\ Scorer!Verifiable(a) <=> Scorer!Verifiable(d)
    BY <1>0, <2>1, <2>2, ReadsAlike
  <2> QED
    BY <1>4, <2>1, <2>3, <2>4, <2>5, NoBetterNoMore
<1>5. CASE /\ a.failure # None
           /\ \/ \E s \in Suspects : d = [a EXCEPT !.failure.addressed = @ \ {s}]
              \/ d = [a EXCEPT !.failure.engaged = FALSE]
              \/ d = [a EXCEPT !.failure.probed = FALSE]
  <2>1. PICK f \in Scorer!FailurePoints : f = a.failure
    BY <1>5 DEF Scorer!Answers, Scorer!Failures
  <2>2. CASE \E s \in Suspects : d = [a EXCEPT !.failure.addressed = @ \ {s}]
    <3>1. PICK s \in Suspects : d = [a EXCEPT !.failure.addressed = @ \ {s}]
      BY <2>2
    <3>2. PICK h \in Scorer!FailurePoints :
            /\ h = [f EXCEPT !.addressed = f.addressed \ {s}]
            /\ h.suspects = f.suspects /\ h.addressed \subseteq f.addressed
            /\ h.probed = f.probed /\ h.engaged = f.engaged
      <4>1. LET h == [f EXCEPT !.addressed = f.addressed \ {s}]
            IN  /\ h \in Scorer!FailurePoints
                /\ h.suspects = f.suspects /\ h.addressed \subseteq f.addressed
                /\ h.probed = f.probed /\ h.engaged = f.engaged
        BY DEF Scorer!FailurePoints
      <4> QED
        BY <4>1, Zenon
    <3>3. d = [a EXCEPT !.failure = h]
      BY <2>1, <3>1, <3>2 DEF Scorer!Answers, Scorer!FailurePoints
    <3> QED
      BY <1>4, <1>5, <2>1, <3>2, <3>3
  <2>3. CASE d = [a EXCEPT !.failure.engaged = FALSE]
    <3>2. PICK h \in Scorer!FailurePoints :
            /\ h = [f EXCEPT !.engaged = FALSE]
            /\ h.suspects = f.suspects /\ h.addressed \subseteq f.addressed
            /\ ~h.engaged
      <4>1. LET h == [f EXCEPT !.engaged = FALSE]
            IN  /\ h \in Scorer!FailurePoints
                /\ h.suspects = f.suspects /\ h.addressed \subseteq f.addressed
                /\ ~h.engaged
        BY DEF Scorer!FailurePoints
      <4> QED
        BY <4>1, Zenon
    <3>3. d = [a EXCEPT !.failure = h]
      BY <2>1, <2>3, <3>2 DEF Scorer!Answers, Scorer!FailurePoints
    <3> QED
      BY <1>4, <1>5, <2>1, <3>2, <3>3
  <2>4. CASE d = [a EXCEPT !.failure.probed = FALSE]
    <3>2. PICK h \in Scorer!FailurePoints :
            /\ h = [f EXCEPT !.probed = FALSE]
            /\ h.suspects = f.suspects /\ h.addressed \subseteq f.addressed
            /\ ~h.probed
      <4>1. LET h == [f EXCEPT !.probed = FALSE]
            IN  /\ h \in Scorer!FailurePoints
                /\ h.suspects = f.suspects /\ h.addressed \subseteq f.addressed
                /\ ~h.probed
        BY DEF Scorer!FailurePoints
      <4> QED
        BY <4>1, Zenon
    <3>3. d = [a EXCEPT !.failure = h]
      BY <2>1, <2>4, <3>2 DEF Scorer!Answers, Scorer!FailurePoints
    <3> QED
      BY <1>4, <1>5, <2>1, <3>2, <3>3
  <2> QED
    BY <1>5, <2>2, <2>3, <2>4
<1> QED
  BY <1>1, <1>2, <1>3, <1>5 DEF Scorer!Worse


\* The confidence lies between the weakest and the strongest of the components
\* that apply, but for the penalty.
LEMMA ScoreIsBetween ==
  ASSUME NEW a \in Scorer!Answers, NEW self \in Scorer!Permille,
         NEW b, b = Scorer!Breakdown(a, self),
         NEW v, v = Scorer!Confidence(b, Scorer!Weights(a))
  PROVE  /\ v \in Scorer!Permille
         /\ \E c \in Scorer!Applying(a) : v <= b[c]
         /\ \E c \in Scorer!Applying(a) : v + b.penalty >= b[c]
<1>1. b \in Scorer!Breakdowns
  BY BreakdownIsRated
<1>2. PICK r \in Nat, e \in Nat, g \in Nat, c \in Nat, p \in Nat :
        /\ r = b.retrieval /\ e = b.evidence /\ g = b.agreement /\ c = b.certainty
        /\ p = b.penalty
        /\ r <= 1000 /\ e <= 1000 /\ g <= 1000 /\ c <= 1000
  BY <1>1, PermilleIsBounded DEF Scorer!Breakdowns
<1>3. PICK x \in Nat, y \in Nat :
        /\ x = (IF a.failure # None THEN 1 ELSE 0)
        /\ y = (IF Scorer!Verifiable(a) THEN 1 ELSE 0)
  OBVIOUS
<1>4. PICK m \in Nat :
        /\ m = MeanOf(a, b) /\ m <= 1000
        /\ m <= e \/ m <= g \/ (y = 1 /\ m <= r) \/ (x = 1 /\ m <= c)
        /\ m >= e \/ m >= g \/ (y = 1 /\ m >= r) \/ (x = 1 /\ m >= c)
  <2>1. MeanOf(a, b) = Mean(r, e, g, c, x, y)
    BY <1>2, <1>3 DEF MeanOf
  <2>2. Mean(r, e, g, c, x, y) \in Nat
    BY MeanIsNat
  <2>3. /\ \/ Mean(r, e, g, c, x, y) <= e \/ Mean(r, e, g, c, x, y) <= g
           \/ y = 1 /\ Mean(r, e, g, c, x, y) <= r
           \/ x = 1 /\ Mean(r, e, g, c, x, y) <= c
        /\ \/ Mean(r, e, g, c, x, y) >= e \/ Mean(r, e, g, c, x, y) >= g
           \/ y = 1 /\ Mean(r, e, g, c, x, y) >= r
           \/ x = 1 /\ Mean(r, e, g, c, x, y) >= c
    BY MeanIsBetween
  <2>4. PICK m \in Nat : m = Mean(r, e, g, c, x, y)
    BY <2>2
  <2>5. m <= 1000
    BY <1>2, <2>3, <2>4
  <2> QED
    BY <2>1, <2>3, <2>4, <2>5
<1>5. v = Scorer!Clamped(m - p)
  BY <1>2, <1>4, ScoreIsMean
<1>6. v \in Nat /\ v <= 1000 /\ v <= m /\ m <= v + p
  BY <1>4, <1>5 DEF Scorer!Clamped
<1>7. /\ "evidence" \in Scorer!Applying(a) /\ "agreement" \in Scorer!Applying(a)
      /\ y = 1 => "retrieval" \in Scorer!Applying(a)
      /\ x = 1 => "certainty" \in Scorer!Applying(a)
  BY <1>3 DEF Scorer!Applying
<1>8. v <= e \/ v <= g \/ (y = 1 /\ v <= r) \/ (x = 1 /\ v <= c)
  BY <1>4, <1>6
<1>9. v + p >= e \/ v + p >= g \/ (y = 1 /\ v + p >= r) \/ (x = 1 /\ v + p >= c)
  BY <1>4, <1>6
<1> QED
  BY <1>2, <1>6, <1>7, <1>8, <1>9, PermilleIsBounded

\* With a probe that tells the suspects apart the same answer is given more.
LEMMA ProbeIsWorth ==
  ASSUME NEW r \in Nat, NEW e \in Nat, NEW g \in Nat, NEW c \in Nat, NEW y \in Nat
  PROVE  Mean(r, e, g, c + 500, 1, y) >= Mean(r, e, g, c, 1, y) + 125
<1>1. CASE y = 1
  BY <1>1 DEF Mean, Scorer!RoundDiv
<1>2. CASE y # 1
  BY <1>2 DEF Mean, Scorer!RoundDiv
<1> QED
  BY <1>1, <1>2

LEMMA JumpCosts ==
  ASSUME NEW a \in Scorer!Answers, NEW self \in Scorer!Permille, a.failure # None,
         ~(a.failure.probed /\ a.failure.engaged),
         NEW d, d = [a EXCEPT !.failure.probed = TRUE, !.failure.engaged = TRUE]
  PROVE  Scorer!ScoreOf(d)
           >= Scorer!Confidence(Scorer!Breakdown(a, self), Scorer!Weights(a)) + 75
<1>1. PICK f \in Scorer!FailurePoints : f = a.failure
  BY DEF Scorer!Answers, Scorer!Failures
<1>2. PICK h \in Scorer!FailurePoints :
        /\ h = [f EXCEPT !.probed = TRUE, !.engaged = TRUE]
        /\ h.suspects = f.suspects /\ h.addressed = f.addressed
        /\ h.probed /\ h.engaged
  <2>1. LET h == [f EXCEPT !.probed = TRUE, !.engaged = TRUE]
        IN  /\ h \in Scorer!FailurePoints
            /\ h.suspects = f.suspects /\ h.addressed = f.addressed
            /\ h.probed /\ h.engaged
    BY DEF Scorer!FailurePoints
  <2> QED
    BY <2>1, Zenon
<1>3. d = [a EXCEPT !.failure = h]
  BY <1>1, <1>2 DEF Scorer!Answers, Scorer!FailurePoints
<1>4. /\ d \in Scorer!Answers
      /\ d.references = a.references /\ d.snippets = a.snippets
      /\ d.evidence = a.evidence /\ d.verdict = a.verdict
      /\ d.failure = h /\ d.agreement = a.agreement /\ d.acts = a.acts
  BY <1>3 DEF Scorer!Answers, Scorer!Failures
<1>5. h # None
  BY PartsAssumption DEF Scorer!ScoringAssumption
<1>6. PICK b \in Scorer!Breakdowns : b = Scorer!Breakdown(a, self)
  BY BreakdownIsRated
<1>7. 0 \in Scorer!Permille
  BY DEF Scorer!Permille
<1>8. PICK u \in Scorer!Breakdowns : u = Scorer!Breakdown(d, 0)
  BY <1>4, <1>7, BreakdownIsRated
<1>9. Scorer!Certainty(h) = Scorer!Certainty(f) + 500
  <2>1. Scorer!Coverage(h) = Scorer!Coverage(f) /\ Scorer!Coverage(f) \in Nat
    BY <1>2, CoverageIsPermille, PermilleIsBounded, PartsAssumption DEF
       Scorer!Coverage, Scorer!ScoringAssumption, Scorer!Failures
  <2>2. Scorer!Discrimination(h) = 1000 /\ Scorer!Discrimination(f) = 0
    BY <1>1, <1>2 DEF Scorer!Discrimination
  <2> QED
    BY <2>1, <2>2 DEF Scorer!Certainty, Scorer!RoundDiv
<1>10. PICK r \in Nat, e \in Nat, g \in Nat, c \in Nat, p \in Nat :
         /\ r = b.retrieval /\ e = b.evidence /\ g = b.agreement /\ c = b.certainty
         /\ p = b.penalty /\ p <= 50
         /\ r <= 1000 /\ e <= 1000 /\ g <= 1000 /\ c <= 1000
  BY PermilleIsBounded DEF Scorer!Breakdowns
<1>11. /\ u.retrieval = r /\ u.evidence = e /\ u.agreement = g /\ u.certainty = c + 500
       /\ u.penalty = p
  <2>1. Scorer!Penalty(d) = Scorer!Penalty(a)
    BY <1>4 DEF Scorer!Penalty
  <2>2. Scorer!Support(d) = Scorer!Support(a) /\ Scorer!Fit(d) = Scorer!Fit(a)
    BY <1>4, ReadsAlike, FitsAlike
  <2>3. b.certainty = Scorer!Certainty(f) /\ u.certainty = Scorer!Certainty(h)
    BY <1>1, <1>4, <1>5, <1>6, <1>8 DEF Scorer!Breakdown
  <2> QED
    BY <1>4, <1>6, <1>8, <1>9, <1>10, <2>1, <2>2, <2>3 DEF Scorer!Breakdown
<1>12. PICK y \in Nat :
         /\ y = (IF Scorer!Verifiable(a) THEN 1 ELSE 0)
         /\ y = (IF Scorer!Verifiable(d) THEN 1 ELSE 0)
  BY <1>4, ReadsAlike
<1>13. PICK m \in Nat, m1 \in Nat :
         /\ m = MeanOf(a, b) /\ m1 = MeanOf(d, u)
         /\ m1 >= m + 125 /\ m1 <= 1000
  <2>1. c + 500 <= 1000
    BY <1>8, <1>11, PermilleIsBounded DEF Scorer!Breakdowns
  <2>2. MeanOf(a, b) = Mean(r, e, g, c, 1, y)
    BY <1>10, <1>12 DEF MeanOf
  <2>3. MeanOf(d, u) = Mean(r, e, g, c + 500, 1, y)
    BY <1>4, <1>5, <1>11, <1>12 DEF MeanOf
  <2>4. PICK k \in Nat : k = c + 500 /\ k <= 1000
    BY <2>1
  <2>5. Mean(r, e, g, c, 1, y) \in Nat /\ Mean(r, e, g, k, 1, y) \in Nat
    BY MeanIsNat
  <2>6. Mean(r, e, g, k, 1, y) <= 1000
    <3>1. \/ Mean(r, e, g, k, 1, y) <= e \/ Mean(r, e, g, k, 1, y) <= g
          \/ Mean(r, e, g, k, 1, y) <= r \/ Mean(r, e, g, k, 1, y) <= k
      BY MeanIsBetween
    <3> QED
      BY <1>10, <2>4, <2>5, <3>1
  <2> QED
    BY <2>2, <2>3, <2>4, <2>5, <2>6, ProbeIsWorth
<1>14. Scorer!Clamped(m1 - p) >= Scorer!Clamped(m - p) + 75
  BY <1>10, <1>13 DEF Scorer!Clamped
<1>15. Scorer!ScoreOf(d) = Scorer!Clamped(m1 - p)
  BY <1>4, <1>7, <1>8, <1>11, <1>13, ScoreIsMean DEF Scorer!ScoreOf
<1>16. Scorer!Confidence(Scorer!Breakdown(a, self), Scorer!Weights(a))
         = Scorer!Clamped(m - p)
  BY <1>6, <1>10, <1>13, ScoreIsMean
<1> QED
  BY <1>14, <1>15, <1>16


\* What holds of an answer and of its score: a breakdown is that of the answer
\* and of a self-report, and the confidence is what it comes to.
ScoreInv ==
  /\ answer \in Scorer!Answers /\ confidence \in Scorer!Permille
  /\ \/ breakdown = None /\ confidence \in SelfReports
     \/ /\ breakdown \in Scorer!Breakdowns
        /\ \E self \in SelfReports : breakdown = Scorer!Breakdown(answer, self)
        /\ confidence = Scorer!Confidence(breakdown, Scorer!Weights(answer))

LEMMA ScoreInvKept == ScoreInv /\ [Scorer!Next]_scoreVars => ScoreInv'
<1> SUFFICES ASSUME ScoreInv, [Scorer!Next]_scoreVars PROVE ScoreInv'
  OBVIOUS
<1>0. SelfReports \subseteq Scorer!Permille /\ None \notin Scorer!Breakdowns
  BY PartsAssumption DEF Scorer!ScoringAssumption
<1>1. CASE Scorer!Score
  <2>1. answer' = answer /\ answer \in Scorer!Answers /\ confidence \in SelfReports
    BY <1>0, <1>1 DEF ScoreInv, Scorer!Score
  <2>2. /\ breakdown' = Scorer!Breakdown(answer, confidence)
        /\ confidence' = Scorer!Confidence(breakdown', Scorer!Weights(answer))
    BY <1>1 DEF Scorer!Score
  <2>3. breakdown' \in Scorer!Breakdowns
    BY <1>0, <2>1, <2>2, BreakdownIsRated
  <2>4. confidence' \in Scorer!Permille
    BY <1>0, <2>1, <2>2, ScoreIsBetween
  <2> QED
    BY <2>1, <2>2, <2>3, <2>4 DEF ScoreInv
<1>2. CASE Scorer!Reanswer
  <2>1. answer' \in Scorer!Answers
    BY <1>2 DEF ScoreInv, Scorer!Reanswer, Scorer!Answers
  <2> QED
    BY <1>0, <1>2, <2>1 DEF ScoreInv, Scorer!Reanswer
<1>3. CASE UNCHANGED scoreVars
  BY <1>3 DEF ScoreInv, scoreVars
<1> QED
  BY <1>1, <1>2, <1>3 DEF Scorer!Next

LEMMA ScoresAreEarned == ScoreInv => Scorer!EvidenceDecides /\ Scorer!JumpsCost
<1> SUFFICES ASSUME ScoreInv, breakdown # None
             PROVE  /\ \A worse \in Scorer!Worse(answer) :
                         Scorer!ScoreOf(worse) <= confidence
                    /\ \E c \in Scorer!Applying(answer) : confidence <= breakdown[c]
                    /\ \E c \in Scorer!Applying(answer) :
                         confidence + breakdown.penalty >= breakdown[c]
                    /\ Scorer!JumpsCost
  BY DEF Scorer!EvidenceDecides, Scorer!JumpsCost
<1>1. PICK self \in SelfReports :
        /\ breakdown = Scorer!Breakdown(answer, self)
        /\ confidence = Scorer!Confidence(breakdown, Scorer!Weights(answer))
  BY DEF ScoreInv
<1>2. answer \in Scorer!Answers /\ self \in Scorer!Permille
  BY PartsAssumption DEF ScoreInv, Scorer!ScoringAssumption
<1>3. \A worse \in Scorer!Worse(answer) : Scorer!ScoreOf(worse) <= confidence
  BY <1>1, <1>2, WorseNoMore
<1>4. /\ \E c \in Scorer!Applying(answer) : confidence <= breakdown[c]
      /\ \E c \in Scorer!Applying(answer) :
           confidence + breakdown.penalty >= breakdown[c]
  BY <1>1, <1>2, ScoreIsBetween
<1>5. Scorer!JumpsCost
  <2>1. breakdown.self_reported \in SelfReports
    BY <1>1 DEF Scorer!Breakdown
  <2> QED
    BY <1>1, <1>2, <2>1, JumpCosts DEF Scorer!JumpsCost
<1> QED
  BY <1>3, <1>4, <1>5

\* While the scorer is in use nothing else moves.
LEMMA ScoringAlone ==
  ASSUME [MemoryNext]_memoryVars, inUse = "scoring"
  PROVE  [Scorer!Next]_scoreVars /\ inUse' = inUse
BY DEF MemoryNext, TalkStep, DocStep, LearnStep, ScoreStep, EvalStep, memoryVars

\* Whatever a run gathers and its model says, the confidence it is given is
\* that of its evidence: EvidenceDecides and JumpsCost of Scoring, for every
\* set of pages, suspects, evidence and calibrated agreements
\* (score_diagnosis, root_cause_certainty, apply_to).
THEOREM ConfidenceIsEarned == MemorySpec => []EvidenceDecides
<1> DEFINE Inv == inUse = "scoring" => ScoreInv
<1>1. MemoryInit => Inv
  <2>1. SelfReports \subseteq Scorer!Permille
    BY PartsAssumption DEF Scorer!ScoringAssumption
  <2> QED
    BY <2>1 DEF MemoryInit, Scorer!Init, ScoreInv
<1>2. Inv /\ [MemoryNext]_memoryVars => Inv'
  <2> SUFFICES ASSUME Inv, [MemoryNext]_memoryVars, inUse' = "scoring" PROVE ScoreInv'
    OBVIOUS
  <2>1. inUse = "scoring"
    BY DEF MemoryNext, TalkStep, DocStep, LearnStep, ScoreStep, EvalStep, memoryVars
  <2> QED
    BY <2>1, ScoringAlone, ScoreInvKept
<1>3. Inv => EvidenceDecides
  BY ScoresAreEarned DEF EvidenceDecides
<1> QED
  BY <1>1, <1>2, <1>3, PTL DEF MemorySpec

\* An answer that has been scored keeps its shape, a breakdown of thousandths.
THEOREM ScoringTypeCorrect == MemorySpec => [](inUse = "scoring" => Scorer!TypeOK)
<1> DEFINE Inv == inUse = "scoring" => ScoreInv
<1>1. MemoryInit => Inv
  <2>1. SelfReports \subseteq Scorer!Permille
    BY PartsAssumption DEF Scorer!ScoringAssumption
  <2> QED
    BY <2>1 DEF MemoryInit, Scorer!Init, ScoreInv
<1>2. Inv /\ [MemoryNext]_memoryVars => Inv'
  <2> SUFFICES ASSUME Inv, [MemoryNext]_memoryVars, inUse' = "scoring" PROVE ScoreInv'
    OBVIOUS
  <2>1. inUse = "scoring"
    BY DEF MemoryNext, TalkStep, DocStep, LearnStep, ScoreStep, EvalStep, memoryVars
  <2> QED
    BY <2>1, ScoringAlone, ScoreInvKept
<1>3. Inv => (inUse = "scoring" => Scorer!TypeOK)
  BY DEF ScoreInv, Scorer!TypeOK
<1> QED
  BY <1>1, <1>2, <1>3, PTL DEF MemorySpec

-----------------------------------------------------------------------------
(* Sums.  A sum over a finite set is a fold, which chooses its next element *)
(* where the set leaves the choice open; that it does not matter is shown    *)
(* of the least set for which it might.                                      *)

\* A set of natural numbers has a least one.
LEMMA LeastNatural ==
  ASSUME NEW T, T \subseteq Nat, T # {}
  PROVE  \E n \in T : \A m \in T : n <= m
<1>1. \E n \in T : \A m \in T : ~ (<<m, n>> \in OpToRel(<, Nat))
  BY NatLessThanWellFounded, WFMin
<1>2. \A m, n \in Nat : m < n => <<m, n>> \in OpToRel(<, Nat)
  BY DEF OpToRel
<1>3. PICK n \in T : \A m \in T : ~ (<<m, n>> \in OpToRel(<, Nat))
  BY <1>1
<1>4. ASSUME NEW m \in T PROVE n <= m
  <2>1. m \in Nat /\ n \in Nat /\ ~ (m < n)
    BY <1>2, <1>3
  <2> QED
    BY <2>1
<1> QED
  BY <1>4

\* A set of finite sets has one that no other of them is a part of.
LEMMA LeastSubset ==
  ASSUME NEW S, IsFiniteSet(S), NEW T, T \subseteq SUBSET S, T # {}
  PROVE  \E x \in T : \A y \in T : ~ (y \subseteq x /\ y # x)
<1>1. IsWellFoundedOn(StrictSubsetOrdering(S), SUBSET S)
  BY FS_StrictSubsetOrderingWellFounded, FS_FiniteSubsetsOfFinite
<1>2. \E x \in T : \A y \in T : ~ (<<y, x>> \in StrictSubsetOrdering(S))
  BY <1>1, WFMin
<1> QED
  BY <1>2 DEF StrictSubsetOrdering

\* One step of the fold that a sum is, taking out the element it chooses.
OneOf(s) == CHOOSE x \in s : TRUE
SumStep(w, g, s) == IF s = {} THEN 0 ELSE w[OneOf(s)] + g[s \ {OneOf(s)}]
SumFcn(w, S) == CHOOSE g : g = [s \in SUBSET S |-> SumStep(w, g, s)]

LEMMA SumIsFcn == ASSUME NEW w, NEW S PROVE Learnt!SumOver(w, S) = SumFcn(w, S)[S]
BY DEF Learnt!SumOver, SumFcn, Learnt!MapThenSumSet, Learnt!MapThenFoldSet, SumStep, OneOf

LEMMA SumFcnExists ==
  ASSUME NEW w, NEW S, IsFiniteSet(S)
  PROVE  \A s \in SUBSET S : SumFcn(w, S)[s] = SumStep(w, SumFcn(w, S), s)
<1> DEFINE Upto(n) == \E g : \A s \in SUBSET S : Cardinality(s) <= n => g[s] = SumStep(w, g, s)
           Failing == {n \in Nat : ~ Upto(n)}
<1>1. \A s \in SUBSET S : /\ IsFiniteSet(s) /\ Cardinality(s) \in Nat
                          /\ Cardinality(s) <= Cardinality(S)
                          /\ s # {} => /\ OneOf(s) \in s /\ s \ {OneOf(s)} \in SUBSET S
                                       /\ Cardinality(s \ {OneOf(s)}) = Cardinality(s) - 1
                          /\ Cardinality(s) = 0 => s = {}
  BY FS_Subset, FS_CardinalityType, FS_RemoveElement, FS_EmptySet DEF OneOf
<1>2. Upto(0)
  <2> DEFINE g == [s \in SUBSET S |-> 0]
  <2>1. ASSUME NEW s \in SUBSET S, Cardinality(s) <= 0 PROVE g[s] = SumStep(w, g, s)
    <3>1. Cardinality(s) \in Nat /\ (Cardinality(s) = 0 => s = {})
      BY <1>1
    <3>2. s = {}
      BY <2>1, <3>1
    <3> QED
      BY <3>2 DEF SumStep
  <2> QED
    BY <2>1
<1>3. ASSUME NEW n \in Nat, Upto(n) PROVE Upto(n + 1)
  <2>1. PICK g : \A s \in SUBSET S : Cardinality(s) <= n => g[s] = SumStep(w, g, s)
    BY <1>3
  <2> DEFINE h == [s \in SUBSET S |-> SumStep(w, g, s)]
  <2>2. ASSUME NEW s \in SUBSET S, Cardinality(s) <= n + 1 PROVE h[s] = SumStep(w, h, s)
    <3>1. CASE s = {}
      BY <3>1 DEF SumStep
    <3>2. CASE s # {}
      <4> DEFINE t == s \ {OneOf(s)}
      <4>1. t \in SUBSET S /\ Cardinality(t) <= n
        BY <1>1, <2>2, <3>2
      <4>2. h[t] = g[t]
        BY <2>1, <4>1
      <4> QED
        BY <3>2, <4>2 DEF SumStep
    <3> QED
      BY <3>1, <3>2
  <2> HIDE DEF h
  <2> QED
    BY <2>2
<1> HIDE DEF Upto
<1>4. Failing = {}
  <2> SUFFICES ASSUME Failing # {} PROVE FALSE
    OBVIOUS
  <2>1. PICK n \in Failing : \A m \in Failing : n <= m
    BY LeastNatural
  <2>2. n # 0 /\ n \in Nat /\ n - 1 \in Nat /\ ~ Upto(n)
    BY <1>2, <2>1
  <2>3. n - 1 \notin Failing
    BY <2>1, <2>2
  <2>4. Upto((n - 1) + 1)
    BY <1>3, <2>2, <2>3
  <2>5. (n - 1) + 1 = n
    BY <2>2
  <2> QED
    BY <2>2, <2>4, <2>5
<1>5. Upto(Cardinality(S))
  <2>1. Cardinality(S) \in Nat
    BY FS_CardinalityType
  <2> QED
    BY <1>4, <2>1
<1>6. PICK g : \A s \in SUBSET S : Cardinality(s) <= Cardinality(S) => g[s] = SumStep(w, g, s)
  BY <1>5 DEF Upto
<1> DEFINE h == [s \in SUBSET S |-> SumStep(w, g, s)]
<1>7. h = [s \in SUBSET S |-> SumStep(w, h, s)]
  <2>1. ASSUME NEW s \in SUBSET S PROVE SumStep(w, g, s) = SumStep(w, h, s)
    BY <1>1, <1>6 DEF SumStep
  <2> HIDE DEF h
  <2>2. [s \in SUBSET S |-> SumStep(w, g, s)] = [s \in SUBSET S |-> SumStep(w, h, s)]
    BY <2>1
  <2> QED
    BY <2>2 DEF h
<1> HIDE DEF h
<1>8. SumFcn(w, S) = [s \in SUBSET S |-> SumStep(w, SumFcn(w, S), s)]
  BY <1>7 DEF SumFcn
<1> QED
  BY <1>8

\* What the fold's function gives for a set: nothing for the empty one, and one
\* term more than for the set without the element it takes out.
Peeled(f, w, S, s) ==
  /\ s = {} => f[s] = 0 /\ Cardinality(s) = 0
  /\ s # {} => \E x \in s :
        /\ s \ {x} \in SUBSET S /\ s \ {x} # s
        /\ f[s] = w[x] + f[s \ {x}]
        /\ Cardinality(s \ {x}) \in Nat
        /\ Cardinality(s) = Cardinality(s \ {x}) + 1

LEMMA SumFcnPeels ==
  ASSUME NEW w, NEW S, IsFiniteSet(S), NEW s \in SUBSET S
  PROVE  Peeled(SumFcn(w, S), w, S, s)
<1> DEFINE f == SumFcn(w, S)
<1>2. f[s] = SumStep(w, f, s)
  BY SumFcnExists
<1>3. IsFiniteSet(s) /\ Cardinality(s) \in Nat
  BY FS_Subset, FS_CardinalityType
<1>4. s = {} => f[s] = 0 /\ Cardinality(s) = 0
  BY <1>2, FS_EmptySet DEF SumStep
<1>5. ASSUME s # {}
      PROVE  \E x \in s : /\ s \ {x} \in SUBSET S /\ s \ {x} # s
                          /\ f[s] = w[x] + f[s \ {x}]
                          /\ Cardinality(s \ {x}) \in Nat
                          /\ Cardinality(s) = Cardinality(s \ {x}) + 1
  <2>1. OneOf(s) \in s /\ f[s] = w[OneOf(s)] + f[s \ {OneOf(s)}]
    BY <1>2, <1>5 DEF SumStep, OneOf
  <2>2. /\ Cardinality(s \ {OneOf(s)}) \in Nat
        /\ Cardinality(s) = Cardinality(s \ {OneOf(s)}) + 1
    <3>1. /\ IsFiniteSet(s \ {OneOf(s)})
          /\ Cardinality(s \ {OneOf(s)}) = Cardinality(s) - 1
      BY <1>3, <2>1, FS_RemoveElement
    <3>2. Cardinality(s \ {OneOf(s)}) \in Nat
      BY <3>1, FS_CardinalityType
    <3> QED
      BY <1>3, <3>1, <3>2
  <2> QED
    BY <2>1, <2>2
<1> QED
  BY <1>4, <1>5 DEF Peeled

\* A product grows by the one factor when the other grows by one.
LEMMA OneMore == \A a \in Int, n \in Nat : a * (n + 1) = a * n + a /\ a * n \in Int
OBVIOUS

\* A sum of integers is one, and lies between the number of its terms times
\* the least of them and times the greatest.
LEMMA SumBounds ==
  ASSUME NEW w, NEW S, IsFiniteSet(S), NEW lo \in Int, NEW hi \in Int,
         \A x \in S : w[x] \in Int /\ lo <= w[x] /\ w[x] <= hi
  PROVE  /\ Cardinality(S) \in Nat /\ Learnt!SumOver(w, S) \in Int
         /\ lo * Cardinality(S) <= Learnt!SumOver(w, S)
         /\ Learnt!SumOver(w, S) <= hi * Cardinality(S)
<1> DEFINE f == SumFcn(w, S)
           Within(s) == /\ f[s] \in Int
                        /\ lo * Cardinality(s) <= f[s] /\ f[s] <= hi * Cardinality(s)
           Failing == {s \in SUBSET S : ~ Within(s)}
<1>1. ASSUME NEW s \in SUBSET S, \A t \in SUBSET s : t # s => Within(t) PROVE Within(s)
  <2>0. Peeled(f, w, S, s)
    BY SumFcnPeels
  <2>1. CASE s = {}
    <3>1. f[s] = 0 /\ Cardinality(s) = 0
      BY <2>0, <2>1 DEF Peeled
    <3>2. lo * 0 = 0 /\ hi * 0 = 0
      OBVIOUS
    <3> QED
      BY <3>1, <3>2
  <2>2. CASE s # {}
    <3>1. PICK x \in s : /\ s \ {x} \in SUBSET S /\ s \ {x} # s
                         /\ f[s] = w[x] + f[s \ {x}]
                         /\ Cardinality(s \ {x}) \in Nat
                         /\ Cardinality(s) = Cardinality(s \ {x}) + 1
      BY <2>0, <2>2 DEF Peeled
    <3>2. Within(s \ {x})
      BY <1>1, <3>1
    <3>3. PICK n \in Nat : n = Cardinality(s \ {x})
      BY <3>1
    <3>4. PICK v \in Int : v = w[x] /\ lo <= v /\ v <= hi
      BY <3>1
    <3>5. PICK u \in Int : u = f[s \ {x}] /\ lo * n <= u /\ u <= hi * n
      BY <3>2, <3>3
    <3>6. lo * (n + 1) = lo * n + lo /\ hi * (n + 1) = hi * n + hi
          /\ lo * n \in Int /\ hi * n \in Int
      BY <3>3, OneMore
    <3>7. PICK p \in Int, q \in Int : p = lo * n /\ q = hi * n
      BY <3>6
    <3>8. v + u \in Int /\ p + lo <= v + u /\ v + u <= q + hi
      BY <3>4, <3>5, <3>7
    <3> QED
      BY <3>1, <3>3, <3>4, <3>5, <3>6, <3>7, <3>8
  <2> QED
    BY <2>1, <2>2
<1>2. Failing = {}
  <2> SUFFICES ASSUME Failing # {} PROVE FALSE
    OBVIOUS
  <2>1. PICK s \in Failing : \A t \in Failing : ~ (t \subseteq s /\ t # s)
    <3>1. Failing \subseteq SUBSET S
      OBVIOUS
    <3> HIDE DEF Failing
    <3> QED
      BY <3>1, LeastSubset
  <2>2. \A t \in SUBSET s : t # s => Within(t)
    BY <2>1
  <2>3. s \in SUBSET S /\ ~ Within(s)
    BY <2>1
  <2> HIDE DEF Within
  <2> QED
    BY <1>1, <2>2, <2>3
<1>3. Within(S)
  BY <1>2
<1>4. Cardinality(S) \in Nat
  BY FS_CardinalityType
<1> QED
  BY <1>3, <1>4, SumIsFcn


-----------------------------------------------------------------------------
(* Learning.  A rate is a sum over a bin's cases divided by their number,   *)
(* and rounding keeps an order; so what a model is told of its own claims   *)
(* cannot go beyond what those cases say, and not as far when they are few. *)

\* Products keep an order.
LEMMA ProductOrder ==
  \A a, b, c \in Nat : /\ a <= b => a * c <= b * c
                       /\ c # 0 /\ a * c <= b * c => a <= b
OBVIOUS

\* The quotient is the largest number of times the divisor fits.
LEMMA QuotientFits ==
  ASSUME NEW a \in Nat, NEW b \in Nat \ {0}, NEW k \in Nat
  PROVE  /\ a \div b \in Nat /\ (a \div b) * b <= a
         /\ k * b <= a => k <= a \div b
OBVIOUS

\* Rounding keeps the order of fractions.
LEMMA RoundDivOrder ==
  ASSUME NEW a \in Nat, NEW b \in Nat \ {0}, NEW c \in Nat, NEW d \in Nat \ {0},
         a * d <= c * b
  PROVE  /\ Learnt!RoundDiv(a, b) \in Nat /\ Learnt!RoundDiv(c, d) \in Nat
         /\ Learnt!RoundDiv(a, b) <= Learnt!RoundDiv(c, d)
<1> DEFINE q == (2 * a + b) \div (2 * b)
<1>1. 2 * a + b \in Nat /\ 2 * c + d \in Nat /\ 2 * b \in Nat \ {0} /\ 2 * d \in Nat \ {0}
  OBVIOUS
<1>2. q \in Nat /\ q * (2 * b) <= 2 * a + b
  BY <1>1, QuotientFits
<1> HIDE DEF q
<1>3. (q * (2 * b)) * d <= (2 * a + b) * d
  BY <1>1, <1>2, ProductOrder
<1>4. (q * (2 * d)) * b <= (2 * c + d) * b
  <2>1. (q * (2 * b)) * d = (q * (2 * d)) * b
    BY <1>2
  <2>2. (2 * a + b) * d = 2 * (a * d) + b * d
    OBVIOUS
  <2>3. (2 * c + d) * b = 2 * (c * b) + b * d
    OBVIOUS
  <2>4. PICK x \in Nat, y \in Nat, z \in Nat : x = a * d /\ y = c * b /\ z = b * d
    OBVIOUS
  <2>5. 2 * x + z <= 2 * y + z
    BY <2>4
  <2>6. (2 * a + b) * d <= (2 * c + d) * b
    BY <2>2, <2>3, <2>4, <2>5
  <2>7. /\ (q * (2 * b)) * d \in Nat /\ (2 * a + b) * d \in Nat
        /\ (2 * c + d) * b \in Nat
    BY <1>2
  <2>8. PICK t \in Nat, u \in Nat, v \in Nat :
          /\ t = (q * (2 * b)) * d /\ u = (2 * a + b) * d /\ v = (2 * c + d) * b
    BY <2>7
  <2>9. t <= v
    BY <1>3, <2>6, <2>8
  <2> QED
    BY <2>1, <2>8, <2>9
<1>5. q * (2 * d) <= 2 * c + d
  BY <1>1, <1>2, <1>4, ProductOrder
<1>6. q <= (2 * c + d) \div (2 * d) /\ (2 * c + d) \div (2 * d) \in Nat
  BY <1>1, <1>2, <1>5, QuotientFits
<1> QED
  BY <1>2, <1>6 DEF q, Learnt!RoundDiv

\* What is exactly k is rounded to k.
LEMMA RoundDivExact ==
  ASSUME NEW k \in Nat, NEW b \in Nat \ {0}
  PROVE  Learnt!RoundDiv(k * b, b) = k
<1>1. /\ 2 * (k * b) + b \in Nat /\ 2 * b \in Nat \ {0} /\ k * (2 * b) = 2 * (k * b)
      /\ (k + 1) * (2 * b) = 2 * (k * b) + 2 * b
  OBVIOUS
<1> DEFINE q == (2 * (k * b) + b) \div (2 * b)
<1>2. q \in Nat /\ q * (2 * b) <= 2 * (k * b) + b /\ k <= q
  <2>1. k * (2 * b) <= 2 * (k * b) + b
    BY <1>1
  <2> QED
    BY <1>1, <2>1, QuotientFits
<1>3. q <= k
  <2> SUFFICES ASSUME k + 1 <= q PROVE FALSE
    BY <1>2
  <2>1. (k + 1) * (2 * b) <= q * (2 * b)
    BY <1>1, <1>2, ProductOrder
  <2> QED
    BY <1>1, <1>2, <2>1
<1> QED
  BY <1>2, <1>3 DEF Learnt!RoundDiv

\* So a fraction no greater than k is rounded to no more than k, and one no
\* less to no less.
LEMMA RoundDivBounds ==
  ASSUME NEW a \in Nat, NEW b \in Nat \ {0}, NEW k \in Nat
  PROVE  /\ Learnt!RoundDiv(a, b) \in Nat
         /\ a <= k * b => Learnt!RoundDiv(a, b) <= k
         /\ k * b <= a => k <= Learnt!RoundDiv(a, b)
<1>1. k * b \in Nat /\ Learnt!RoundDiv(k * b, b) = k
  BY RoundDivExact
<1>2. Learnt!RoundDiv(a, b) \in Nat
  BY RoundDivOrder
<1>3. ASSUME a <= k * b PROVE Learnt!RoundDiv(a, b) <= k
  <2>1. a * b <= (k * b) * b
    BY <1>1, <1>3, ProductOrder
  <2> QED
    BY <1>1, <2>1, RoundDivOrder
<1>4. ASSUME k * b <= a PROVE k <= Learnt!RoundDiv(a, b)
  <2>1. (k * b) * b <= a * b
    BY <1>1, <1>4, ProductOrder
  <2> QED
    BY <1>1, <2>1, RoundDivOrder
<1> QED
  BY <1>2, <1>3, <1>4


\* What the constants are.
LEMMA LearntBounds ==
  /\ IsFiniteSet(Labelled) /\ IsFiniteSet(Learnt!Subsystems)
  /\ \A s \in Learnt!Subsystems : IsFiniteSet(Table[s])
  /\ \A S : Learnt!Cardinality(S) = Cardinality(S)
  /\ Cardinality(Labelled) \in Nat
<1>1. \A S : /\ Learnt!Cardinality(S) = Cardinality(S)
             /\ Learnt!IsFiniteSet(S) <=> IsFiniteSet(S)
  BY DEF Learnt!Cardinality, Cardinality, Learnt!IsFiniteSet, IsFiniteSet
<1>2. /\ IsFiniteSet(Labelled) /\ IsFiniteSet(Learnt!Subsystems)
      /\ \A s \in Learnt!Subsystems : IsFiniteSet(Table[s])
  BY <1>1, PartsAssumption DEF Learnt!LearningAssumption
<1> QED
  BY <1>1, <1>2, FS_CardinalityType

\* The rate of a claim as a run is told it: even if the bin's is even, no
\* better and no worse than it, and within what so many cases allow.
LEMMA ShrunkBounds ==
  ASSUME NEW rate \in Nat, rate <= 1000, NEW n \in Nat, NEW m \in Nat, n <= m
  PROVE  /\ Learnt!Shrunk(rate, n) \in Nat
         /\ rate <= 500 => Learnt!Shrunk(rate, n) <= 500
         /\ rate >= 500 => Learnt!Shrunk(rate, n) >= 500
         /\ Learnt!Shrunk(rate, n) <= Learnt!Shrunk(1000, m)
         /\ Learnt!Shrunk(0, m) <= Learnt!Shrunk(rate, n)
         /\ Learnt!Shrunk(0, m) \in Nat /\ Learnt!Shrunk(1000, m) \in Nat
         /\ Learnt!Shrunk(0, m) <= 500 /\ 500 <= Learnt!Shrunk(1000, m)
<1> DEFINE a == 2 * n * rate + 5000
           b == 2 * (n + 5)
           d == 2 * (m + 5)
<1>1. PICK p \in Nat : p = n * rate /\ p <= 1000 * n
  <2>1. n * rate \in Nat /\ rate * n <= 1000 * n /\ rate * n = n * rate
    BY ProductOrder
  <2> QED
    BY <2>1
<1>2. a = 2 * p + 5000 /\ a \in Nat /\ b \in Nat \ {0} /\ d \in Nat \ {0}
  BY <1>1
<1>3. Learnt!Shrunk(rate, n) = Learnt!RoundDiv(a, b)
  BY DEF Learnt!Shrunk, Learnt!Shrinkage
<1>4. /\ Learnt!Shrunk(0, m) = Learnt!RoundDiv(5000, d)
      /\ Learnt!Shrunk(1000, m) = Learnt!RoundDiv(2000 * m + 5000, d)
  <2>1. 2 * m * 0 + 5 * 1000 = 5000 /\ 2 * m * 1000 + 5 * 1000 = 2000 * m + 5000
    OBVIOUS
  <2> QED
    BY <2>1 DEF Learnt!Shrunk, Learnt!Shrinkage
<1>5. rate <= 500 => p <= 500 * n
  BY <1>1, ProductOrder
<1>6. rate >= 500 => 500 * n <= p
  BY <1>1, ProductOrder
<1>7. rate <= 500 => Learnt!RoundDiv(a, b) <= 500
  <2>0. 500 \in Nat
    OBVIOUS
  <2>1. rate <= 500 => a <= 500 * b
    BY <1>2, <1>5
  <2> HIDE DEF a, b
  <2> QED
    BY <1>2, <2>1, <2>0, RoundDivBounds
<1>8. rate >= 500 => Learnt!RoundDiv(a, b) >= 500
  <2>0. 500 \in Nat
    OBVIOUS
  <2>1. rate >= 500 => 500 * b <= a
    BY <1>2, <1>6
  <2> HIDE DEF a, b
  <2> QED
    BY <1>2, <2>1, <2>0, RoundDivBounds
<1>9. a * d <= (2000 * m + 5000) * b
  <2>1. PICK x \in Nat : x = n * m
    OBVIOUS
  <2>2. p * m <= 1000 * x /\ p * m \in Nat
    <3>1. p * m <= (1000 * n) * m
      BY <1>1, ProductOrder
    <3>2. (1000 * n) * m = 1000 * x
      BY <2>1
    <3> QED
      BY <1>1, <3>1, <3>2
  <2>3. PICK y \in Nat : y = p * m /\ y <= 1000 * x
    BY <2>2
  <2>4. a * d = 4 * y + 20 * p + 10000 * m + 50000
    <3>1. a * d = (2 * p + 5000) * (2 * (m + 5))
      BY <1>2
    <3>2. (2 * p + 5000) * (2 * (m + 5)) = 4 * (p * m) + 20 * p + 10000 * m + 50000
      BY <1>1
    <3> QED
      BY <2>3, <3>1, <3>2
  <2>5. (2000 * m + 5000) * b = 4000 * x + 20000 * m + 10000 * n + 50000
    <3>1. (2000 * m + 5000) * (2 * (n + 5)) = 4000 * (n * m) + 20000 * m + 10000 * n + 50000
      OBVIOUS
    <3> QED
      BY <2>1, <3>1
  <2> QED
    BY <1>1, <2>3, <2>4, <2>5
<1>10. 5000 * b <= a * d
  <2>1. 5000 * b = 10000 * n + 50000
    OBVIOUS
  <2>2. a * d >= 5000 * d
    BY <1>2, ProductOrder
  <2>3. 5000 * d = 10000 * m + 50000
    OBVIOUS
  <2>4. a * d \in Nat /\ 5000 * b \in Nat /\ 5000 * d \in Nat
    BY <1>2
  <2>5. PICK u \in Nat : u = a * d
    BY <2>4
  <2> QED
    BY <2>1, <2>2, <2>3, <2>5
<1> HIDE DEF a, b, d
<1>11. Learnt!RoundDiv(a, b) <= Learnt!RoundDiv(2000 * m + 5000, d)
  <2>1. 2000 * m + 5000 \in Nat
    OBVIOUS
  <2> QED
    BY <1>2, <1>9, <2>1, RoundDivOrder
<1>12. Learnt!RoundDiv(5000, d) <= Learnt!RoundDiv(a, b)
  BY <1>2, <1>10, RoundDivOrder
<1>13. /\ Learnt!RoundDiv(5000, d) \in Nat /\ Learnt!RoundDiv(5000, d) <= 500
       /\ Learnt!RoundDiv(2000 * m + 5000, d) \in Nat
       /\ 500 <= Learnt!RoundDiv(2000 * m + 5000, d)
       /\ Learnt!RoundDiv(a, b) \in Nat
  <2>0. 500 \in Nat /\ 5000 \in Nat
    OBVIOUS
  <2>1. 5000 <= 500 * d /\ 500 * d <= 2000 * m + 5000 /\ 2000 * m + 5000 \in Nat
    BY DEF d
  <2>2. Learnt!RoundDiv(5000, d) \in Nat /\ Learnt!RoundDiv(5000, d) <= 500
    BY <1>2, <2>0, <2>1, RoundDivBounds
  <2>3. PICK c \in Nat : c = 2000 * m + 5000
    OBVIOUS
  <2>4. Learnt!RoundDiv(c, d) \in Nat /\ 500 <= Learnt!RoundDiv(c, d)
    BY <1>2, <2>0, <2>1, <2>3, RoundDivBounds
  <2>5. Learnt!RoundDiv(a, b) \in Nat
    BY <1>2, <2>0, RoundDivBounds
  <2> QED
    BY <2>2, <2>3, <2>4, <2>5
<1> QED
  BY <1>3, <1>4, <1>7, <1>8, <1>11, <1>12, <1>13


\* An outcome counts for a thousandth of something.
LEMMA ResolutionType ==
  \A o \in Learnt!Outcomes : Learnt!Resolution[o] \in Nat /\ Learnt!Resolution[o] <= 1000
BY DEF Learnt!Outcomes, Learnt!Resolution

\* The cases a file was built over, t, of model i in bin b.
CasesIn(t, i, b) == {r \in Labelled : t[r] # NoCase /\ IdentOf[r] = i /\ BinOf[r] = b}

\* A bin says no more than the cases G of history t do: it counts no others, and
\* is above or below even only when one of them is.
FairBin(bin, G, t) ==
  /\ bin \in [rate : Nat, n : Nat]
  /\ bin.rate <= 1000 /\ bin.n <= Cardinality(G)
  /\ bin.rate > 500 => \E r \in G : Learnt!Resolution[t[r]] > 500
  /\ bin.rate < 500 => \E r \in G : Learnt!Resolution[t[r]] < 500

\* The rate of a bin with cases is above even only if one of them is, and
\* below only if one of them is.
LEMMA RateIsEarned ==
  ASSUME NEW w, NEW G, IsFiniteSet(G), G # {}, \A r \in G : w[r] \in Nat /\ w[r] <= 1000
  PROVE  LET rate == Learnt!RoundDiv(Learnt!SumOver(w, G), Cardinality(G))
         IN  /\ rate \in Nat /\ rate <= 1000
             /\ rate > 500 => \E r \in G : w[r] > 500
             /\ rate < 500 => \E r \in G : w[r] < 500
<1>1. /\ Cardinality(G) \in Nat \ {0} /\ Learnt!SumOver(w, G) \in Nat
      /\ Learnt!SumOver(w, G) <= 1000 * Cardinality(G)
  <2>1. 0 \in Int /\ 1000 \in Int /\ \A r \in G : w[r] \in Int /\ 0 <= w[r] /\ w[r] <= 1000
    OBVIOUS
  <2>2. /\ Cardinality(G) \in Nat /\ Learnt!SumOver(w, G) \in Int
        /\ 0 * Cardinality(G) <= Learnt!SumOver(w, G)
        /\ Learnt!SumOver(w, G) <= 1000 * Cardinality(G)
    BY <2>1, SumBounds
  <2>3. Cardinality(G) # 0
    BY FS_EmptySet
  <2> QED
    BY <2>2, <2>3
<1>2. PICK n \in Nat \ {0}, sum \in Nat :
        /\ n = Cardinality(G) /\ sum = Learnt!SumOver(w, G) /\ sum <= 1000 * n
  BY <1>1
<1>3. ASSUME \A r \in G : w[r] <= 500 PROVE sum <= 500 * n
  <2>1. 0 \in Int /\ 500 \in Int /\ \A r \in G : w[r] \in Int /\ 0 <= w[r] /\ w[r] <= 500
    BY <1>3
  <2> QED
    BY <1>2, <2>1, SumBounds
<1>4. ASSUME \A r \in G : w[r] >= 500 PROVE 500 * n <= sum
  <2>1. 500 \in Int /\ 1000 \in Int /\ \A r \in G : w[r] \in Int /\ 500 <= w[r] /\ w[r] <= 1000
    BY <1>4
  <2> QED
    BY <1>2, <2>1, SumBounds
<1>5. /\ Learnt!RoundDiv(sum, n) \in Nat /\ Learnt!RoundDiv(sum, n) <= 1000
      /\ sum <= 500 * n => Learnt!RoundDiv(sum, n) <= 500
      /\ 500 * n <= sum => 500 <= Learnt!RoundDiv(sum, n)
  <2>1. 500 \in Nat /\ 1000 \in Nat
    OBVIOUS
  <2>2. Learnt!RoundDiv(sum, n) \in Nat /\ Learnt!RoundDiv(sum, n) <= 1000
    BY <1>2, <2>1, RoundDivBounds
  <2>3. /\ sum <= 500 * n => Learnt!RoundDiv(sum, n) <= 500
        /\ 500 * n <= sum => 500 <= Learnt!RoundDiv(sum, n)
    BY <1>2, <2>1, RoundDivBounds
  <2> QED
    BY <2>2, <2>3
<1>6. Learnt!RoundDiv(sum, n) > 500 => \E r \in G : w[r] > 500
  <2> SUFFICES ASSUME \A r \in G : ~ (w[r] > 500) PROVE Learnt!RoundDiv(sum, n) <= 500
    BY <1>5
  <2> QED
    BY <1>3, <1>5
<1>7. Learnt!RoundDiv(sum, n) < 500 => \E r \in G : w[r] < 500
  <2> SUFFICES ASSUME \A r \in G : ~ (w[r] < 500) PROVE 500 <= Learnt!RoundDiv(sum, n)
    BY <1>5
  <2> QED
    BY <1>4, <1>5
<1> QED
  BY <1>2, <1>5, <1>6, <1>7

\* The bins of a group of stored runs are fair to the runs of that bin.
LEMMA RatesAreFair ==
  ASSUME outcome \in [Labelled -> Learnt!Outcomes \cup {NoCase}],
         NEW group, group \subseteq Learnt!Stored, NEW b \in Bins
  PROVE  FairBin(Learnt!Rates(group)[b], {r \in group : BinOf[r] = b}, outcome)
<1> DEFINE G == {r \in group : BinOf[r] = b}
           w == [r \in G |-> Learnt!Resolution[outcome[r]]]
           rate == IF G = {} THEN 500
                   ELSE Learnt!RoundDiv(Learnt!SumOver(w, G), Learnt!Cardinality(G))
<1>1. IsFiniteSet(G) /\ Cardinality(G) \in Nat /\ Learnt!Cardinality(G) = Cardinality(G)
  <2>1. G \in SUBSET Labelled
    BY DEF Learnt!Stored
  <2> QED
    BY <2>1, LearntBounds, FS_Subset, FS_CardinalityType
<1>2. \A r \in G : outcome[r] \in Learnt!Outcomes /\ w[r] = Learnt!Resolution[outcome[r]]
  BY DEF Learnt!Stored
<1>3. Learnt!Rates(group)[b] = [rate |-> rate, n |-> Cardinality(G)]
  BY <1>1 DEF Learnt!Rates
<1>4. rate \in Nat /\ rate <= 1000
      /\ (rate > 500 => \E r \in G : w[r] > 500)
      /\ (rate < 500 => \E r \in G : w[r] < 500)
  <2>1. CASE G = {}
    BY <2>1
  <2>2. CASE G # {}
    <3>1. \A r \in G : w[r] \in Nat /\ w[r] <= 1000
      BY <1>2, ResolutionType
    <3>2. rate = Learnt!RoundDiv(Learnt!SumOver(w, G), Cardinality(G))
      BY <1>1, <2>2
    <3> HIDE DEF rate, w, G
    <3> QED
      BY <1>1, <2>2, <3>1, <3>2, RateIsEarned
  <2> QED
    BY <2>1, <2>2
<1> HIDE DEF rate
<1> QED
  <2>1. \A r \in G : w[r] = Learnt!Resolution[outcome[r]]
    BY <1>2
  <2> HIDE DEF w, G
  <2>2. FairBin([rate |-> rate, n |-> Cardinality(G)], G, outcome)
    BY <1>1, <1>4, <2>1 DEF FairBin
  <2> QED
    BY <1>3, <2>2 DEF G

\* What is fair to some cases is fair to more.
LEMMA FairToMore ==
  ASSUME NEW bin, NEW G, NEW H, NEW t, NEW u, FairBin(bin, G, t), G \subseteq H,
         IsFiniteSet(H), \A r \in G : t[r] = u[r]
  PROVE  FairBin(bin, H, u)
<1>1. Cardinality(G) <= Cardinality(H) /\ Cardinality(G) \in Nat /\ Cardinality(H) \in Nat
  BY FS_Subset, FS_CardinalityType
<1> QED
  BY <1>1 DEF FairBin

\* A thin bin that takes the rate of a fair one is fair.
LEMMA FairWhenThin ==
  ASSUME NEW x, NEW y, NEW H, NEW t, FairBin(x, H, t), FairBin(y, H, t)
  PROVE  FairBin([x EXCEPT !.rate = y.rate], H, t)
BY DEF FairBin


\* A model's histogram is fair to the cases it was built over, bin by bin: over
\* all subsystems, and in each.
FairBins(bins, i, t) ==
  /\ bins \in [Bins -> [rate : Nat, n : Nat]]
  /\ \A b \in Bins : FairBin(bins[b], CasesIn(t, i, b), t)

FairHistogram(h, i, t) ==
  /\ h.ident = i
  /\ FairBins(h.aggregate, i, t)
  /\ \A s \in DOMAIN h.subsystem : FairBins(h.subsystem[s], i, t)

\* What holds of what was learnt: each file tells of one model's cases, those
\* it was built over, and the multipliers are numbers.
Histories == [Labelled -> Learnt!Outcomes \cup {NoCase}]

BuiltOver(f) ==
  \/ calibration[f] = NoFile /\ taught[f] = NoFile
  \/ /\ taught[f] \in Histories
     /\ \E i \in Idents : FileOf[i] = f /\ FairHistogram(calibration[f], i, taught[f])

ReadablePriors ==
  priors \in {NoFile, Torn} \/ \A k \in DOMAIN priors, s \in Learnt!Subsystems : priors[k][s] \in Int

LearnInv ==
  /\ outcome \in Histories
  /\ \A f \in Files : BuiltOver(f)
  /\ ReadablePriors

\* The histogram a model is given is fair to its cases.
LEMMA HistogramIsFair ==
  ASSUME outcome \in Histories, NEW i \in Idents
  PROVE  FairHistogram(Learnt!Histogram(i), i, outcome)
<1> DEFINE own == Learnt!Usable(i)
           all == Learnt!Rates(own)
           of(s) == Learnt!Rates({r \in own : SubOf[r] = s})
           thin(bin, b) == IF bin.n < MinPerBin THEN [bin EXCEPT !.rate = all[b].rate] ELSE bin
           cut == [s \in {SubOf[r] : r \in own} |-> [b \in Bins |-> thin(of(s)[b], b)]]
<1>1. Learnt!Histogram(i) = [ident |-> i, aggregate |-> all, subsystem |-> cut]
  BY DEF Learnt!Histogram
<1>2. own \subseteq Learnt!Stored /\ outcome \in [Labelled -> Learnt!Outcomes \cup {NoCase}]
  BY DEF Learnt!Usable, Histories
<1>3. ASSUME NEW b \in Bins
      PROVE  /\ IsFiniteSet(CasesIn(outcome, i, b))
             /\ {r \in own : BinOf[r] = b} = CasesIn(outcome, i, b)
  <2>1. {r \in own : BinOf[r] = b} = CasesIn(outcome, i, b)
    BY DEF Learnt!Usable, Learnt!Stored, CasesIn
  <2>2. CasesIn(outcome, i, b) \in SUBSET Labelled
    BY DEF CasesIn
  <2> QED
    BY <2>1, <2>2, LearntBounds, FS_Subset
<1>4. ASSUME NEW b \in Bins PROVE FairBin(all[b], CasesIn(outcome, i, b), outcome)
  <2>1. FairBin(all[b], {r \in own : BinOf[r] = b}, outcome)
    <3> HIDE DEF own
    <3> QED
      BY <1>2, RatesAreFair
  <2> QED
    BY <1>3, <2>1
<1>5. ASSUME NEW s, NEW b \in Bins PROVE FairBin(of(s)[b], CasesIn(outcome, i, b), outcome)
  <2> DEFINE group == {r \in own : SubOf[r] = s}
             G == {r \in group : BinOf[r] = b}
  <2>1. group \subseteq Learnt!Stored /\ G \subseteq CasesIn(outcome, i, b)
    BY <1>2, <1>3
  <2>2. FairBin(of(s)[b], G, outcome)
    BY <1>2, <2>1, RatesAreFair
  <2> HIDE DEF G, of
  <2> QED
    BY <1>3, <2>1, <2>2, FairToMore
<1>6. FairBins(all, i, outcome)
  <2>1. \A b \in Bins : all[b] \in [rate : Nat, n : Nat]
    BY <1>4 DEF FairBin
  <2>2. all = [b \in Bins |-> all[b]]
    BY DEF Learnt!Rates
  <2> HIDE DEF all
  <2> QED
    BY <1>4, <2>1, <2>2 DEF FairBins
<1>7. ASSUME NEW s, NEW b \in Bins
      PROVE  FairBin(thin(of(s)[b], b), CasesIn(outcome, i, b), outcome)
  <2> HIDE DEF all, of
  <2>1. CASE of(s)[b].n < MinPerBin
    <3>1. FairBin([of(s)[b] EXCEPT !.rate = all[b].rate], CasesIn(outcome, i, b), outcome)
      BY <1>4, <1>5, FairWhenThin
    <3> QED
      BY <2>1, <3>1
  <2>2. CASE ~ (of(s)[b].n < MinPerBin)
    BY <1>5, <2>2
  <2> QED
    BY <2>1, <2>2
<1>8. ASSUME NEW s \in DOMAIN cut PROVE FairBins(cut[s], i, outcome)
  <2> HIDE DEF thin, of
  <2>1. cut[s] = [b \in Bins |-> thin(of(s)[b], b)]
    OBVIOUS
  <2>2. \A b \in Bins : thin(of(s)[b], b) \in [rate : Nat, n : Nat]
    BY <1>7 DEF FairBin
  <2> HIDE DEF cut
  <2> QED
    BY <1>7, <2>1, <2>2 DEF FairBins
<1> HIDE DEF all, cut
<1> QED
  BY <1>1, <1>6, <1>8 DEF FairHistogram

learnt == <<outcome, calibration, priors, taught>>

\* Calibrating leaves each file with one model's cases.
LEMMA CalibrateKeeps ==
  ASSUME outcome \in Histories, \A f \in Files : BuiltOver(f),
         NEW idents \in SUBSET Idents, Learnt!Calibrated(idents)
  PROVE  \A f \in Files : BuiltOver(f)'
<1> SUFFICES ASSUME NEW f \in Files PROVE BuiltOver(f)'
  OBVIOUS
<1> DEFINE writes(g) == {i \in {j \in idents : Learnt!Cardinality(Learnt!Usable(j)) >= MinPerBin} :
                            FileOf[i] = g}
           last(g) == CHOOSE i \in writes(g) : TRUE
<1>1. /\ calibration' = [g \in Files |->
             IF writes(g) = {} THEN calibration[g] ELSE Learnt!Histogram(last(g))]
      /\ taught' = [g \in Files |->
             IF writes(g) = {} THEN taught[g] ELSE outcome]
  BY DEF Learnt!Calibrated
<1>2. CASE writes(f) = {}
  BY <1>1, <1>2 DEF BuiltOver
<1>3. CASE writes(f) # {}
  <2> DEFINE i == last(f)
  <2>1. i \in Idents /\ FileOf[i] = f
    BY <1>3
  <2> HIDE DEF last
  <2>2. calibration'[f] = Learnt!Histogram(i) /\ taught'[f] = outcome
    BY <1>1, <1>3
  <2> HIDE DEF i
  <2>3. FairHistogram(Learnt!Histogram(i), i, outcome)
    BY <2>1, HistogramIsFair
  <2> QED
    BY <2>1, <2>2, <2>3 DEF BuiltOver
<1> QED
  BY <1>2, <1>3


\* The multipliers are numbers.
LEMMA MultipliersAreNumbers ==
  ASSUME outcome \in Histories
  PROVE  \A k \in DOMAIN Learnt!Multipliers, s \in Learnt!Subsystems :
             Learnt!Multipliers[k][s] \in Int
<1>1. ASSUME NEW runs \in SUBSET Learnt!Stored PROVE Learnt!Pull(runs) \in Int
  <2> DEFINE w == [r \in runs |-> Learnt!Weight[outcome[r]]]
  <2>1. IsFiniteSet(runs)
    BY LearntBounds, FS_Subset DEF Learnt!Stored
  <2>2. ASSUME NEW r \in runs PROVE w[r] \in Int /\ -3 <= w[r] /\ w[r] <= 4
    <3>1. outcome[r] \in Learnt!Outcomes
      BY DEF Histories, Learnt!Stored
    <3> QED
      BY <3>1 DEF Learnt!Outcomes, Learnt!Weight
  <2>3. -3 \in Int /\ 4 \in Int
    OBVIOUS
  <2>4. Learnt!Pull(runs) = Learnt!SumOver(w, runs)
    BY DEF Learnt!Pull
  <2> HIDE DEF w
  <2>5. Learnt!SumOver(w, runs) \in Int
    BY <2>1, <2>2, <2>3, SumBounds
  <2> QED
    BY <2>4, <2>5
<1>2. Cardinality(Learnt!Subsystems) \in Nat
      /\ Learnt!Cardinality(Learnt!Subsystems) = Cardinality(Learnt!Subsystems)
  BY LearntBounds, FS_CardinalityType
<1> SUFFICES ASSUME NEW k \in DOMAIN Learnt!Multipliers, NEW s \in Learnt!Subsystems
             PROVE  Learnt!Multipliers[k][s] \in Int
  OBVIOUS
<1> DEFINE hits == Learnt!Pull(Learnt!Hits(k))
           own == Learnt!Pull({r \in Learnt!Hits(k) : SubOf[r] = s})
           share == (1000 * Learnt!Cardinality(Learnt!Subsystems) * (own + 4)) \div (hits + 4)
<1>3. hits \in Int /\ hits > 0 /\ own \in Int
  <2>1. hits > 0
    BY DEF Learnt!Multipliers
  <2>2. Learnt!Hits(k) \in SUBSET Learnt!Stored
        /\ {r \in Learnt!Hits(k) : SubOf[r] = s} \in SUBSET Learnt!Stored
    BY DEF Learnt!Hits
  <2> QED
    BY <1>1, <2>1, <2>2
<1>4. Learnt!Multipliers[k][s] = Learnt!Clamp(share)
  BY DEF Learnt!Multipliers
<1>5. share \in Int
  <2> HIDE DEF hits, own
  <2>1. PICK a \in Int, b \in Nat \ {0} :
          a = 1000 * Learnt!Cardinality(Learnt!Subsystems) * (own + 4) /\ b = hits + 4
    <3>1. 1000 * Learnt!Cardinality(Learnt!Subsystems) * (own + 4) \in Int
      BY <1>2, <1>3
    <3>2. hits + 4 \in Nat \ {0}
      BY <1>3
    <3> QED
      BY <3>1, <3>2
  <2>2. a \div b \in Int
    OBVIOUS
  <2> QED
    BY <2>1, <2>2
<1> HIDE DEF share
<1> QED
  BY <1>4, <1>5 DEF Learnt!Clamp

LEMMA LearnInvKept == LearnInv /\ [Learnt!Next]_learnt => LearnInv'
<1> SUFFICES ASSUME LearnInv, [Learnt!Next]_learnt PROVE LearnInv'
  OBVIOUS
<1> USE DEF LearnInv
<1>0. Labels \subseteq Learnt!Outcomes
  BY PartsAssumption DEF Learnt!LearningAssumption
<1>1. ASSUME NEW r \in Labelled, Learnt!Record(r) PROVE LearnInv'
  <2>1. outcome' \in Histories
    BY <1>0, <1>1 DEF Learnt!Record, Histories
  <2>2. calibration' = calibration /\ taught' = taught /\ priors' = priors
    BY <1>1 DEF Learnt!Record
  <2> QED
    BY <2>1, <2>2 DEF BuiltOver, ReadablePriors
<1>2. ASSUME NEW r \in Labelled, Learnt!Drop(r) PROVE LearnInv'
  <2>1. outcome' \in Histories
    BY <1>2 DEF Learnt!Drop, Histories
  <2>2. calibration' = calibration /\ taught' = taught /\ priors' = priors
    BY <1>2 DEF Learnt!Drop
  <2> QED
    BY <2>1, <2>2 DEF BuiltOver, ReadablePriors
<1>3. CASE Learnt!Calibrate
  <2>1. outcome' = outcome /\ priors' = priors
    BY <1>3 DEF Learnt!Calibrate
  <2>2. PICK idents \in {{i} : i \in Idents} \cup {{IdentOf[r] : r \in Learnt!Stored}} :
          Learnt!Calibrated(idents)
    BY <1>3 DEF Learnt!Calibrate
  <2>3. idents \in SUBSET Idents
    BY <2>2, PartsAssumption DEF Learnt!LearningAssumption, Learnt!Stored
  <2>4. \A f \in Files : BuiltOver(f)'
    BY <2>2, <2>3, CalibrateKeeps
  <2> QED
    BY <2>1, <2>4 DEF ReadablePriors
<1>4. CASE Learnt!PriorsUpdate
  <2>1. outcome' = outcome /\ calibration' = calibration /\ taught' = taught
        /\ priors' \in {Learnt!Multipliers, Torn}
    BY <1>4 DEF Learnt!PriorsUpdate
  <2>2. ReadablePriors'
    BY <2>1, MultipliersAreNumbers DEF ReadablePriors
  <2> QED
    BY <2>1, <2>2 DEF BuiltOver
<1>5. CASE UNCHANGED learnt
  BY <1>5 DEF learnt, BuiltOver, ReadablePriors
<1> QED
  BY <1>1, <1>2, <1>3, <1>4, <1>5 DEF Learnt!Next


LEMMA TrustIsEarned == LearnInv => Learnt!NoUnearnedTrust
<1> SUFFICES ASSUME LearnInv,
                    NEW i \in Idents, NEW s \in Learnt!Subsystems, NEW b \in Bins
             PROVE  LET a == Learnt!Agreement(i, s, b)
                        seen == Learnt!Own(i, b)
                        outcomeOf(r) == Learnt!Resolution[taught[FileOf[i]][r]]
                    IN /\ a > 500 => \E r \in seen : outcomeOf(r) > 500
                       /\ a < 500 => \E r \in seen : outcomeOf(r) < 500
                       /\ a >= Learnt!Shrunk(0, Learnt!Cardinality(seen))
                       /\ a <= Learnt!Shrunk(1000, Learnt!Cardinality(seen))
  BY DEF Learnt!NoUnearnedTrust
<1> DEFINE f == FileOf[i]
           cal == calibration[f]
           t == taught[f]
           seen == Learnt!Own(i, b)
           m == Cardinality(seen)
           a == Learnt!Agreement(i, s, b)
<1>1. f \in Files /\ BuiltOver(f) /\ NoFile \notin Histories
  BY PartsAssumption DEF Learnt!LearningAssumption, LearnInv, Histories
<1>2. IsFiniteSet(seen) /\ m \in Nat /\ Learnt!Cardinality(seen) = m
  <2>1. seen \in SUBSET Labelled
    BY DEF Learnt!Own
  <2> QED
    BY <2>1, LearntBounds, FS_Subset, FS_CardinalityType
<1>3. /\ Learnt!Shrunk(0, m) \in Nat /\ Learnt!Shrunk(1000, m) \in Nat
      /\ Learnt!Shrunk(0, m) <= 500 /\ 500 <= Learnt!Shrunk(1000, m)
  <2>1. 500 \in Nat /\ 500 <= 1000 /\ 0 \in Nat /\ 0 <= m
    BY <1>2
  <2> HIDE DEF m
  <2> QED
    BY <1>2, <2>1, ShrunkBounds
<1>4. \/ a = 500
      \/ /\ a = Learnt!Shrunk(Learnt!Bin(cal, s, b).rate, Learnt!Bin(cal, s, b).n)
         /\ cal # NoFile
  BY DEF Learnt!Agreement, Learnt!Loaded
<1>5. CASE a = 500
  <2> HIDE DEF m, a, seen
  <2>1. ~ (a > 500) /\ ~ (a < 500)
    BY <1>5
  <2>2. Learnt!Shrunk(0, m) <= a /\ a <= Learnt!Shrunk(1000, m)
    BY <1>3, <1>5
  <2> QED
    BY <1>2, <1>3, <1>5, <2>1, <2>2 DEF a, seen
<1>6. CASE cal # NoFile /\ a = Learnt!Shrunk(Learnt!Bin(cal, s, b).rate, Learnt!Bin(cal, s, b).n)
  <2>1. t \in Histories /\ \E j \in Idents : FairHistogram(cal, j, t)
    BY <1>1, <1>6 DEF BuiltOver
  <2>a. PICK j \in Idents : FairHistogram(cal, j, t)
    BY <2>1
  <2>2. seen = CasesIn(t, j, b)
    BY <1>6, <2>a DEF Learnt!Own, Learnt!Loaded, FairHistogram, CasesIn
  <2>3. FairBin(Learnt!Bin(cal, s, b), seen, t)
    BY <2>a, <2>2 DEF FairHistogram, FairBins, Learnt!Bin
  <2>4. PICK rate \in Nat, n \in Nat :
          /\ rate = Learnt!Bin(cal, s, b).rate /\ n = Learnt!Bin(cal, s, b).n
          /\ rate <= 1000 /\ n <= m
          /\ rate > 500 => \E r \in seen : Learnt!Resolution[t[r]] > 500
          /\ rate < 500 => \E r \in seen : Learnt!Resolution[t[r]] < 500
    <3> HIDE DEF seen, t, cal
    <3> QED
      BY <2>3 DEF FairBin
  <2>5. a = Learnt!Shrunk(rate, n)
    BY <1>6, <2>4
  <2> HIDE DEF a, m, seen
  <2>6. /\ a \in Nat
        /\ rate <= 500 => a <= 500
        /\ rate >= 500 => a >= 500
        /\ a <= Learnt!Shrunk(1000, m)
        /\ Learnt!Shrunk(0, m) <= a
    <3>1. m \in Nat /\ n <= m
      BY <1>2, <2>4
    <3>2. /\ Learnt!Shrunk(rate, n) \in Nat
          /\ rate <= 500 => Learnt!Shrunk(rate, n) <= 500
          /\ rate >= 500 => Learnt!Shrunk(rate, n) >= 500
          /\ Learnt!Shrunk(rate, n) <= Learnt!Shrunk(1000, m)
          /\ Learnt!Shrunk(0, m) <= Learnt!Shrunk(rate, n)
      BY <2>4, <3>1, ShrunkBounds
    <3> QED
      BY <2>5, <3>2
  <2>7. /\ a > 500 => rate > 500
        /\ a < 500 => rate < 500
    BY <2>4, <2>6
  <2>8. /\ a > 500 => \E r \in seen : Learnt!Resolution[t[r]] > 500
        /\ a < 500 => \E r \in seen : Learnt!Resolution[t[r]] < 500
    BY <2>4, <2>7
  <2>9. a >= Learnt!Shrunk(0, m)
    BY <1>3, <2>6
  <2> QED
    BY <1>2, <2>6, <2>8, <2>9 DEF a, seen
<1> QED
  BY <1>4, <1>5, <1>6

LEMMA OnlyTilts == LearnInv => Learnt!HistoryOnlyTilts
<1> SUFFICES ASSUME LearnInv,
                    NEW symptom \in SUBSET Learnt!Keywords, NEW s \in Learnt!Subsystems
             PROVE  /\ 2 * Learnt!Score(symptom, s) >= 1000 * Learnt!Static(symptom, s)
                    /\ Learnt!Score(symptom, s) <= 2000 * Learnt!Static(symptom, s)
  BY DEF Learnt!HistoryOnlyTilts
<1> DEFINE known == symptom \cap Table[s]
           w == [k \in known |-> Learnt!Vote(k, s)]
<1>1. IsFiniteSet(known)
  <2>1. IsFiniteSet(Table[s]) /\ known \in SUBSET Table[s]
    BY LearntBounds
  <2> QED
    BY <2>1, FS_Subset
<1>2. ASSUME NEW k \in known PROVE w[k] \in Int /\ 500 <= w[k] /\ w[k] <= 2000
  <2>1. k \in DOMAIN Learnt!Learnt => Learnt!Learnt[k][s] \in Int
    <3>1. CASE priors \in {NoFile, Torn}
      <4>1. Learnt!Learnt = <<>>
        BY <3>1 DEF Learnt!Learnt
      <4>2. DOMAIN << >> = {}
        OBVIOUS
      <4> QED
        BY <4>1, <4>2
    <3>2. CASE priors \notin {NoFile, Torn}
      BY <3>2 DEF Learnt!Learnt, LearnInv, ReadablePriors
    <3> QED
      BY <3>1, <3>2
  <2>2. \A v \in Int : /\ Learnt!Clamp(v) \in Int
                       /\ 500 <= Learnt!Clamp(v) /\ Learnt!Clamp(v) <= 2000
    BY DEF Learnt!Clamp
  <2> QED
    BY <2>1, <2>2 DEF Learnt!Vote
<1>3. /\ Learnt!Score(symptom, s) = Learnt!SumOver(w, known)
      /\ Learnt!Static(symptom, s) = Cardinality(known)
  BY LearntBounds DEF Learnt!Score, Learnt!Static
<1> HIDE DEF w, known
<1>4. /\ Cardinality(known) \in Nat /\ Learnt!SumOver(w, known) \in Int
      /\ 500 * Cardinality(known) <= Learnt!SumOver(w, known)
      /\ Learnt!SumOver(w, known) <= 2000 * Cardinality(known)
  <2>1. 500 \in Int /\ 2000 \in Int
    OBVIOUS
  <2> QED
    BY <1>1, <1>2, <2>1, SumBounds
<1>5. PICK n \in Nat, sum \in Int : n = Cardinality(known) /\ sum = Learnt!SumOver(w, known)
  BY <1>4
<1> QED
  BY <1>3, <1>4, <1>5

LEMMA LearnTypes == LearnInv => Learnt!TypeOK
<1> SUFFICES ASSUME LearnInv PROVE Learnt!TypeOK
  OBVIOUS
<1>1. ASSUME NEW bins, NEW i, NEW t, FairBins(bins, i, t) PROVE bins \in Learnt!Histograms
  <2>1. ASSUME NEW b \in Bins PROVE bins[b] \in [rate : 0..1000, n : 0..Cardinality(Labelled)]
    <3>1. FairBin(bins[b], CasesIn(t, i, b), t)
      BY <1>1 DEF FairBins
    <3>2. CasesIn(t, i, b) \in SUBSET Labelled
      BY DEF CasesIn
    <3>3. Cardinality(CasesIn(t, i, b)) <= Cardinality(Labelled)
          /\ Cardinality(CasesIn(t, i, b)) \in Nat /\ Cardinality(Labelled) \in Nat
      BY <3>2, LearntBounds, FS_Subset, FS_CardinalityType
    <3>4. bins[b].rate \in 0..1000 /\ bins[b].n \in 0..Cardinality(Labelled)
      <4>1. PICK x \in Nat, y \in Nat :
              /\ x = bins[b].rate /\ y = bins[b].n
              /\ x <= 1000 /\ y <= Cardinality(CasesIn(t, i, b))
        BY <3>1 DEF FairBin
      <4>2. PICK c \in Nat, d \in Nat :
              c = Cardinality(CasesIn(t, i, b)) /\ d = Cardinality(Labelled) /\ c <= d
        BY <3>3
      <4>3. x \in 0..1000
        <5>1. \A z \in Nat : z <= 1000 => z \in 0..1000
          OBVIOUS
        <5>2. x <= 1000
          BY <4>1
        <5> QED
          BY <5>1, <5>2
      <4>4. y <= d
        BY <4>1, <4>2
      <4>5. y \in 0..d
        BY <4>4
      <4> QED
        BY <4>1, <4>2, <4>3, <4>5, ZenonT(30)
    <3> QED
      BY <3>1, <3>4 DEF FairBin
  <2> QED
    BY <1>1, <2>1, LearntBounds DEF FairBins, Learnt!Histograms
<1>2. outcome \in [Labelled -> Learnt!Outcomes \cup {NoCase}]
  BY DEF LearnInv, Histories
<1>3. ASSUME NEW f \in Files, calibration[f] # NoFile
      PROVE  /\ calibration[f].ident \in Idents
             /\ calibration[f].aggregate \in Learnt!Histograms
             /\ \A s \in DOMAIN calibration[f].subsystem :
                    calibration[f].subsystem[s] \in Learnt!Histograms
  <2>1. PICK i \in Idents : FairHistogram(calibration[f], i, taught[f])
    BY <1>3 DEF LearnInv, BuiltOver
  <2> QED
    BY <1>1, <2>1 DEF FairHistogram
<1> QED
  BY <1>2, <1>3 DEF Learnt!TypeOK

\* What was learnt is fair to begin with, and the steps of the other parts
\* leave it alone.
LEMMA LearnAlone ==
  MemorySpec => [](inUse = "learning" => LearnInv)
<1>1. MemoryInit => LearnInv
  <2> SUFFICES ASSUME MemoryInit PROVE LearnInv
    OBVIOUS
  <2>1. Learnt!Init
    BY DEF MemoryInit
  <2> QED
    BY <2>1 DEF Learnt!Init, LearnInv, Histories, BuiltOver, ReadablePriors
<1>2. LearnInv /\ [MemoryNext]_memoryVars => LearnInv'
  <2> SUFFICES ASSUME LearnInv, [MemoryNext]_memoryVars PROVE LearnInv'
    OBVIOUS
  <2>1. [Learnt!Next]_learnt
    BY DEF MemoryNext, TalkStep, DocStep, LearnStep, ScoreStep, EvalStep, memoryVars,
           learnVars, learnt
  <2> QED
    BY <2>1, LearnInvKept
<1> QED
  BY <1>1, <1>2, PTL DEF MemorySpec

\* No unearned trust: a claim is taken to be better or worse than even only on
\* cases, in that range of confidence, of the one model its calibration names,
\* and no further than they allow, whatever was labelled, corrected or dropped
\* since and whichever models share the file; and what outcomes taught keeps
\* every subsystem between half and twice its static score (NoUnearnedTrust and
\* HistoryOnlyTilts of Learning), for any finite number of runs, models, bins and
\* keywords.
THEOREM TrustIsTaught == MemorySpec => []NoUnearnedTrust
<1>1. (inUse = "learning" => LearnInv) => NoUnearnedTrust
  BY TrustIsEarned, OnlyTilts DEF NoUnearnedTrust
<1> QED
  BY <1>1, LearnAlone, PTL

\* What was learnt keeps its type: rates are thousandths, of no more cases than
\* there are runs.
THEOREM LearningTypeCorrect == MemorySpec => [](inUse = "learning" => Learnt!TypeOK)
<1>1. (inUse = "learning" => LearnInv) => (inUse = "learning" => Learnt!TypeOK)
  BY LearnTypes
<1> QED
  BY <1>1, LearnAlone, PTL

-----------------------------------------------------------------------------
(* All the parts together.                                                  *)

\* A behaviour of the whole is one of `harness eval' as well, which keeps its
\* shape (EvaluationTypeCorrect).
LEMMA EvalKeepsShape == MemorySpec => []TypeOK
<1>1. MemoryInit => Init
  BY DEF MemoryInit
<1>2. [MemoryNext]_memoryVars => [Next]_vars
  BY DEF MemoryNext, memoryVars, TalkStep, DocStep, LearnStep, ScoreStep, EvalStep
<1> QED
  BY <1>1, <1>2, EvaluationTypeCorrect, PTL DEF MemorySpec, Spec

\* Whichever part is in use, its state keeps its shape: any numbers of sessions,
\* documents, runs and evals.  One process works on the library, since of two
\* that write a file at once nothing is claimed.
THEOREM MemoryTypeCorrect ==
  ASSUME OneProcess
  PROVE  MemorySpec => []AllTypeOK
<1>1. LibInv => Docs!TypeOK
  BY DEF LibInv
<1>2. /\ Talk!TypeOK /\ Docs!TypeOK /\ TypeOK
      /\ (inUse = "learning" => Learnt!TypeOK)
      /\ (inUse = "scoring" => Scorer!TypeOK)
      => AllTypeOK
  BY DEF AllTypeOK
<1> QED
  BY OneProcess, LibraryKeepsStep, TalkTypeCorrect, LearningTypeCorrect,
     ScoringTypeCorrect, EvalKeepsShape, <1>1, <1>2, PTL

=============================================================================
