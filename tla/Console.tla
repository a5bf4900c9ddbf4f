------------------------------ MODULE Console ------------------------------
(***************************************************************************)
(* Probes over the serial console: SerialConsole and ConsoleRunner         *)
(* (engine/sol.py), MultiConsoleRunner (engine/services.py) and what the   *)
(* callers of a diagnosis ask of them (diagnosis/engine.py,                *)
(* inspect/collectors/, inspect/model.py).  A call runs one session of     *)
(* ExpectSession for every service it needs; what each probe printed is    *)
(* cut out of the session's real transcript.                               *)
(*                                                                         *)
(* A command has a wire form (the i2c tools get an absolute path), a       *)
(* program, and a verdict of the two gates it passes.                      *)
(***************************************************************************)
EXTENDS ExpectSession

CONSTANTS
  Cmds,        \* commands as they are planned and recorded
  WireOf,      \* their wire form
  Endings,     \* of a wire form: the wire forms that end in it, itself one
  Denied,      \* refused by the console probe spec (validate_serial_probe)
  Gated,       \* refused by the read-only gate (security_check)
  ProgramOf,   \* the program a command names
  Missing,     \* <<service, program>>: programs a service's node lacks
  Services,    \* the configured services, in their order
  Table,       \* the programs each service lists
  SetupOf,     \* the console of each service
  Plans,       \* the lists of commands a caller may come with
  ModelProbe,  \* the command that detects the model
  Chain,       \* the candidates of the CPLD dump chain
  MaxCalls     \* bound on the calls of one run

(* What the constants must satisfy, assumed by Channels                   *)
CommandAssumption ==
  /\ WireOf \in [Cmds -> Wires] /\ Denied \subseteq Cmds /\ Gated \subseteq Cmds
  /\ DOMAIN ProgramOf = Cmds
  /\ Endings \in [Wires -> SUBSET Wires] /\ \A w \in Wires : w \in Endings[w]
  /\ \A w \in Wires : \A c, d \in {x \in Cmds : WireOf[x] = w} : ProgramOf[c] = ProgramOf[d]
ServiceAssumption ==
  /\ Services \in Seq(DOMAIN Table) \ {<<>>} /\ DOMAIN Table = ToSet(Services)
  /\ SetupOf \in [ToSet(Services) -> Setups]
PlanAssumption ==
  /\ Plans \subseteq Seq(Cmds) /\ ModelProbe \in Cmds /\ Chain \subseteq Cmds
  /\ MaxCalls \in Nat

VARIABLES
  calls,    \* per service: ConsoleRunner.calls
  cache,    \* per service: ConsoleRunner.probe_cache
  call,     \* the call in progress, or NoCall
  batch,    \* the wire commands of the session in progress
  raised,   \* the exception that left the call: "no", "gate" or "console"
  made,     \* how many calls were made
  retyped   \* history: commands a caller for evidence typed again for nothing

runnerVars == <<calls, cache, call, batch, raised, made, retyped>>
vars == <<dialogueVars, runnerVars>>

ServiceSet == ToSet(Services)
NoCall == <<>>
NoResult == <<>>

-----------------------------------------------------------------------------
(* Places of a sequence in their order, and what stands at them.           *)

Ascending(places) ==
  [k \in 1 .. Cardinality(places) |->
     CHOOSE i \in places : Cardinality({j \in places : j <= i}) = k]

At(s, places) == [k \in DOMAIN Ascending(places) |-> s[Ascending(places)[k]]]

Those(s, Test(_)) == At(s, {i \in DOMAIN s : Test(s[i])})
Once(s) == At(s, {i \in DOMAIN s : \A j \in 1 .. i - 1 : s[j] # s[i]})

-----------------------------------------------------------------------------
(* Routing, records and what earlier calls have recorded: calls lists the  *)
(* services' one after the other, so the last record of a command is that  *)
(* of the last service which has one.                                      *)

RouteOf(cmd) ==
  LET at == SelectInSeq(Services, LAMBDA s : ProgramOf[cmd] \in Table[s])
  IN  IF at # 0 THEN Services[at]
      ELSE IF "default" \in ServiceSet THEN "default" ELSE Services[1]

Record(cmd, code, out, clean) == [cmd |-> cmd, exit |-> code, out |-> out, clean |-> clean]

Refused(cmd) == Record(cmd, 2, <<>>, TRUE)
Failed(cmd) == Record(cmd, 1, <<>>, TRUE)

AllCalls == UNION {{n} \X DOMAIN calls[Services[n]] : n \in DOMAIN Services}
RecordAt(at) == calls[Services[at[1]]][at[2]]
RecordsOf(cmd) == {at \in AllCalls : RecordAt(at).cmd = cmd}

EverRun(cmd) == RecordsOf(cmd) # {}
EverGood(cmd) == \E at \in RecordsOf(cmd) : RecordAt(at).exit = 0
LastGood(cmd) ==
  \E at \in RecordsOf(cmd) :
    /\ RecordAt(at).exit = 0
    /\ \A b \in RecordsOf(cmd) : b[1] < at[1] \/ (b[1] = at[1] /\ b[2] <= at[2])

-----------------------------------------------------------------------------
(* _split_batch_output: the lines between a command's echo and the next    *)
(* command's echo, looked for behind the echo found last.  The echo of a   *)
(* longer line that ends in the command passes for the command's own.      *)

FirstEcho(lines, wire, from) ==
  SelectInSubSeq(lines, from, Len(lines), LAMBDA t : \E w \in Endings[wire] : t = Echo(w))

SplitBatchToEnd(lines, wires) ==
  [i \in DOMAIN wires |->
     LET start == FirstEcho(lines, wires[i], 1)
     IN  IF start = 0 THEN <<>> ELSE SubSeq(lines, start + 1, Len(lines))]

EchoPlaces(lines, wires) ==
  LET place[i \in DOMAIN wires] ==
        FirstEcho(lines, wires[i],
                  IF i = 1 THEN 1
                  ELSE IF place[i - 1] = 0 THEN Len(lines) + 1
                  ELSE place[i - 1] + 1)
  IN  place

SplitBatch(lines, wires) ==
  LET place == EchoPlaces(lines, wires)
      End(i) == IF i = Len(wires) THEN Len(lines)
                ELSE IF place[i + 1] = 0 THEN Len(lines)
                ELSE place[i + 1] - 1
  IN  [i \in DOMAIN wires |->
         IF place[i] = 0 THEN <<>> ELSE SubSeq(lines, place[i] + 1, End(i))]

(* Outputs of a block; the line of a shell that lacks the program names    *)
(* it, and only a probe of that program fails by it (_not_found_error).    *)
Outputs(block) == Those(block, LAMBDA t : t[1] = "out")
NotFound(service, cmd, block) ==
  \E i \in DOMAIN block :
    \E other \in Cmds :
      /\ block[i] = Out(WireOf[other])
      /\ ProgramOf[other] = ProgramOf[cmd]
      /\ <<service, ProgramOf[other]>> \in Missing

Printed(service, cmd, block) ==
  Record(cmd, IF NotFound(service, cmd, block) THEN 127 ELSE 0, Outputs(block), late = 0)

-----------------------------------------------------------------------------
Init ==
  /\ Fresh
  /\ calls = [s \in ServiceSet |-> <<>>]
  /\ cache = [s \in ServiceSet |-> [w \in Wires |-> NoResult]]
  /\ call = NoCall /\ batch = <<>> /\ raised = "no" /\ made = 0 /\ retyped = {}

(* What a caller asks for: by the names of the callers,                    *)
(*   prebatch  the plan's commands that never succeeded (engine.py:131-136)*)
(*   collect   those whose last record is not good (bmc_console.py:116)    *)
(*   followup  those never run (engine.py:361-371, 519-525)                *)
Asked(by, plan) ==
  CASE by = "prebatch" -> Once(Those(plan, LAMBDA c : ~EverGood(c)))
    [] by = "collect" -> Those(plan, LAMBDA c : ~LastGood(c))
    [] by = "followup" -> Once(Those(plan, LAMBDA c : ~EverRun(c)))

(* MultiConsoleRunner groups the commands by service, in the order in      *)
(* which the services first appear; each group keeps its commands' places. *)
GroupsOf(cmds) == Once([i \in DOMAIN cmds |-> RouteOf(cmds[i])])
Places(cmds, service) == Ascending({i \in DOMAIN cmds : RouteOf(cmds[i]) = service})

Call(by, single, cmds) ==
  /\ call' = [by |-> by, single |-> single, cmds |-> cmds, todo |-> GroupsOf(cmds),
              results |-> [i \in DOMAIN cmds |-> NoResult]]
  /\ made' = made + 1

Idle == call = NoCall /\ raised = "no" /\ made < MaxCalls

BatchCall ==
  /\ Idle
  /\ \E by \in {"prebatch", "collect", "followup"}, plan \in Plans :
       /\ Asked(by, plan) # <<>>
       /\ Call(by, FALSE, Asked(by, plan))
  /\ UNCHANGED <<dialogueVars, calls, cache, batch, raised, retyped>>

(* execute: the model probe, which is asked again after the plan when it   *)
(* gave no model, and the next candidate of the chain.                     *)
SingleCall ==
  /\ Idle
  /\ \/ Call("model", TRUE, <<ModelProbe>>)
     \/ \E cmd \in Chain : ~LastGood(cmd) /\ Call("chain", TRUE, <<cmd>>)
  /\ UNCHANGED <<dialogueVars, calls, cache, batch, raised, retyped>>

-----------------------------------------------------------------------------
(* One service's share of a call.                                          *)

Working == call # NoCall /\ exit = "none" /\ call.todo # <<>>
Service == Head(call.todo)
Share == Places(call.cmds, Service)
ShareCmds == [i \in DOMAIN Share |-> call.cmds[Share[i]]]
Accepted == Those(ShareCmds, LAMBDA c : c \notin Denied)
WireList == [i \in DOMAIN Accepted |-> WireOf[Accepted[i]]]

(* The results of the share, put at the places of its commands. *)
Answer(results) ==
  call' = [call EXCEPT !.todo = Tail(@),
             !.results = [i \in DOMAIN @ |->
                IF Contains(Share, i)
                THEN results[SelectInSeq(Share, LAMBDA p : p = i)]
                ELSE @[i]]]

(* The accepted commands' results in their order, the refused in between.  *)
Woven(accepted) ==
  [i \in DOMAIN ShareCmds |->
     IF ShareCmds[i] \in Denied THEN Refused(ShareCmds[i])
     ELSE accepted[Cardinality({j \in 1 .. i : ShareCmds[j] \notin Denied})]]

RefusedRecords == LET Bad == Those(ShareCmds, LAMBDA c : c \in Denied)
                  IN  [i \in DOMAIN Bad |-> Refused(Bad[i])]

RecordedLatest(records) == calls' = [calls EXCEPT ![Service] = records]

Recorded(records) == calls' = [calls EXCEPT ![Service] = @ \o records]

GateAt == SelectInSeq(ShareCmds, LAMBDA c : c \in Gated)

(* security_check raises out of the call; what was refused before it in    *)
(* the batch is already recorded.                                          *)
GateRaises ==
  /\ Working /\ GateAt # 0
  /\ raised' = "gate" /\ call' = NoCall
  /\ LET Before == At(ShareCmds, {i \in 1 .. GateAt - 1 : ShareCmds[i] \in Denied})
     IN  Recorded([i \in DOMAIN Before |-> Refused(Before[i])])
  /\ UNCHANGED <<dialogueVars, cache, batch, made, retyped>>

AllRefused ==
  /\ Working /\ GateAt = 0 /\ Accepted = <<>>
  /\ Answer(Woven(<<>>))
  /\ Recorded(RefusedRecords)
  /\ UNCHANGED <<dialogueVars, cache, batch, raised, made, retyped>>

Cached == cache[Service][WireList[1]]
IsCached == call.single /\ Cached # NoResult

ServeCached ==
  /\ Working /\ GateAt = 0 /\ Accepted # <<>> /\ IsCached
  /\ Answer(<<Cached>>)
  /\ UNCHANGED <<dialogueVars, calls, cache, batch, raised, made, retyped>>

NeedsSession == Working /\ GateAt = 0 /\ Accepted # <<>> /\ ~IsCached

(* The records of a session that failed: in a batch the refused commands   *)
(* were recorded while they were validated, before the session.            *)
FailShare ==
  LET failures == [i \in DOMAIN Accepted |-> Failed(Accepted[i])] IN
  /\ Answer(Woven(failures))
  /\ Recorded(RefusedRecords \o failures)

(* open() or a secret fails with a SerialConsoleError. *)
OpenFails ==
  /\ NeedsSession
  /\ FailShare
  /\ UNCHANGED <<dialogueVars, cache, batch, raised, made, retyped>>

StartSession ==
  /\ NeedsSession
  /\ batch' = WireList
  /\ Launch(SetupOf[Service], WireList)
  /\ retyped' = retyped \cup {c \in ToSet(Accepted) : LastGood(c) /\ call.by # "model"}
  /\ UNCHANGED <<calls, cache, call, raised, made>>

(* The session's variables, once its transcript has been read. *)
Cleared ==
  /\ script' = <<>> /\ unread' = <<>> /\ transcript' = <<>> /\ typed' = <<>>
  /\ reader' = "rack" /\ running' = NoLine /\ authed' = FALSE /\ exit' = "none"
  /\ heard' = {} /\ anchored' = FALSE /\ late' = 0
  /\ batch' = <<>>

(* Any other exception: a missing key, exec_command on a transport that    *)
(* died, a read that times out.  Nothing below the pipeline catches it.    *)
ConsoleRaises ==
  /\ NeedsSession \/ exit = "running"
  /\ raised' = "console" /\ call' = NoCall
  /\ Recorded(RefusedRecords)
  /\ Cleared
  /\ UNCHANGED <<cache, made, retyped>>

(* A script that ended non-zero, or that printed a dead session's words.   *)
Dead == exit = "failed" \/ (exit = "ok" /\ Contains(transcript, Status))
Alive == exit = "ok" /\ ~Contains(transcript, Status)

SessionDied ==
  /\ Dead
  /\ FailShare
  /\ Cleared
  /\ UNCHANGED <<cache, raised, made, retyped>>

(* execute takes the whole transcript, and does not cache it. *)
ReadSingle ==
  LET record == Printed(Service, Accepted[1], transcript) IN
  /\ Alive /\ call.single
  /\ Answer(<<record>>)
  /\ Recorded(<<record>>)
  /\ Cleared
  /\ UNCHANGED <<cache, raised, made, retyped>>

ReadBatch ==
  LET blocks == SplitBatch(transcript, batch)
      records == [i \in DOMAIN Accepted |-> Printed(Service, Accepted[i], blocks[i])]
      OfWire(w) == SelectLastInSeq(Accepted, LAMBDA c : WireOf[c] = w)
  IN  /\ Alive /\ ~call.single
      /\ Answer(Woven(records))
      /\ Recorded(RefusedRecords \o records)
      /\ cache' = [cache EXCEPT ![Service] =
                     [w \in Wires |-> IF OfWire(w) # 0 THEN records[OfWire(w)] ELSE @[w]]]
      /\ Cleared
      /\ UNCHANGED <<raised, made, retyped>>

Return ==
  /\ call # NoCall /\ exit = "none" /\ call.todo = <<>>
  /\ call' = NoCall
  /\ UNCHANGED <<dialogueVars, calls, cache, batch, raised, made, retyped>>

(* Every call of the run was made, or one of them raised. *)
Over == call = NoCall /\ (made = MaxCalls \/ raised # "no") /\ UNCHANGED vars

Talking == Dialogue /\ UNCHANGED runnerVars

Runner ==
  \/ GateRaises \/ AllRefused \/ ServeCached \/ OpenFails \/ StartSession
  \/ SessionDied \/ ReadSingle \/ ReadBatch \/ Return

Next == BatchCall \/ SingleCall \/ Runner \/ ConsoleRaises \/ Talking \/ Over

Spec == Init /\ [][Next]_vars

-----------------------------------------------------------------------------
TypeOK ==
  /\ DialogueTypeOK
  /\ \A s \in ServiceSet :
       /\ \A i \in DOMAIN calls[s] : calls[s][i].cmd \in Cmds /\ calls[s][i].exit \in {0, 1, 2, 127}
       /\ \A w \in Wires : cache[s][w] = NoResult \/ cache[s][w] \in ToSet(calls[s])
  /\ call # NoCall => ToSet(call.todo) \subseteq ServiceSet
  /\ ToSet(batch) \subseteq Wires
  /\ raised \in {"no", "gate", "console"}
  /\ made \in 0 .. MaxCalls /\ retyped \subseteq Cmds

(* No output changes hands: in a session no expect of which timed out,     *)
(* each probe's record holds exactly what that probe printed, with exit    *)
(* 127 exactly when its program was missing: through the wire form, the    *)
(* cut transcript, the services and the places of refused commands.        *)
OutputIsItsOwn ==
  \A s \in ServiceSet : \A i \in DOMAIN calls[s] :
    LET r == calls[s][i] IN
    (r.clean /\ r.exit \in {0, 127}) =>
      /\ r.out = <<Out(WireOf[r.cmd])>>
      /\ r.exit = 127 <=> <<s, ProgramOf[r.cmd]>> \in Missing

(* A call that returns answers every command at its own place, though the  *)
(* commands were grouped by service and the refused ones left out; a       *)
(* refused command is answered with exit 2, and no other is (services.py:  *)
(* 95-109, sol.py:888-948).                                                *)
AnswersInOrder ==
  (call # NoCall /\ call.todo = <<>>) =>
    \A i \in DOMAIN call.cmds :
      LET r == call.results[i] IN
      /\ r # NoResult
      /\ WireOf[r.cmd] = WireOf[call.cmds[i]]
      /\ r.exit = 2 <=> call.cmds[i] \in Denied

(* A probe whose latest record is good is not typed on the console again,  *)
(* whichever of the callers that look for evidence asks for it (the plan's *)
(* one session, the runner's cache, the collectors' reuse,                 *)
(* bmc_console.py:110-114).                                                *)
NothingRetyped == retyped = {}

(* "per-command results in order" (sol.py:890): no good record holds what *)
(* another probe printed, timely or not.  The code does not keep it: when  *)
(* a probe outlives the ten seconds of its expect, the next one is typed,  *)
(* its early echo ends the slow probe's block, and the slow probe's output *)
(* becomes part of the next one's record.                                  *)
NoForeignOutput ==
  \A s \in ServiceSet : \A i \in DOMAIN calls[s] :
    calls[s][i].exit = 0 => ToSet(calls[s][i].out) \subseteq {Out(WireOf[calls[s][i].cmd])}
=============================================================================
