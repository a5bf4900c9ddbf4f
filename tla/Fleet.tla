-------------------------------- MODULE Fleet --------------------------------
(***************************************************************************)
(* harness debug-fleet (operator/cli.py): one diagnosis per server of an   *)
(* inline list, a few at a time, over one secret store, one credential     *)
(* gate (operator/credential_gate.py) and one forward to the model.        *)
(*                                                                         *)
(* The main thread plans the servers in order, opens the endpoint of the   *)
(* model, hands every run to a pool of threads and gathers the results as  *)
(* they complete.  A run sets the gate's SSH context to its own target,    *)
(* asks the store for the identity of its host -- which prompts the        *)
(* operator for one that is missing --, writes the key to a file named     *)
(* after the vault path, connects with it, unlinks it, and talks to the    *)
(* model.                                                                  *)
(***************************************************************************)
EXTENDS Naturals, FiniteSets, Sequences

CONSTANTS
    Tokens,      \* the --servers list, a sequence of tokens
    LabelOf,     \* the label a token resolves to
    HostOf,      \* the host it resolves to
    PathOf,      \* the vault path of that host's identity
    Stored,      \* the vault paths that hold a key beforehand
    Workers,     \* the threads of the pool
    None, Torn   \* no value; a file between its truncation and its content

Servers == {Tokens[i] : i \in DOMAIN Tokens}
Labels == {LabelOf[s] : s \in Servers}
Hosts == {HostOf[s] : s \in Servers}
Paths == {PathOf[s] : s \in Servers}

(* A key is named for the run whose ssh-keygen made it; None stands for the *)
(* keys registered beforehand too.                                          *)
CONSTANT OldKey
Keys == Servers \cup {OldKey}

(* What the constants must satisfy, assumed by Progress                   *)
FleetAssumption ==
    /\ Tokens \in Seq(Servers)
    /\ Workers \in Nat \ {0}
    /\ \A i, j \in DOMAIN Tokens : Tokens[i] = Tokens[j] => i = j
    /\ Stored \subseteq Paths

VARIABLES
    main,       \* where the main thread is
    next,       \* the token it plans next
    argsUrl,    \* args.llm_url
    nsUrl,      \* llm_url in the namespace of each planned run
    forward,    \* the forward to the model
    pc,         \* where each run is
    held,       \* the key material each run has in hand
    context,    \* CredentialPrompter._ssh["host"], one for all runs
    vault,      \* DirSecretStore: what is at each path
    scratch,    \* <key_dir>/id_ed25519, where ssh-keygen writes
    keyFile,    \* the key file of each vault path in the temporary directory
    installed,  \* <<key, host>>: the public keys the gate has installed
    results,    \* results[label], "absent" before it is entered
    failures,   \* the runs that failed, as gathered
    status      \* what run_debug_fleet returns

vars == <<main, next, argsUrl, nsUrl, forward, pc, held, context, vault,
          scratch, keyFile, installed, results, failures, status>>

gate == <<context, vault, scratch, installed>>
planning == <<next, argsUrl, nsUrl>>
gathering == <<results, failures, status>>

Ended == {"ok", "failed"}
Gathered == {"gathered", "gathered-failed"}
Busy(s) == pc[s] \notin Ended \cup Gathered \cup {"unplanned", "planned", "queued"}

Init ==
    /\ main = "plan"
    /\ next = 1
    /\ argsUrl = None
    /\ nsUrl = [s \in Servers |-> None]
    /\ forward = "none"
    /\ pc = [s \in Servers |-> "unplanned"]
    /\ held = [s \in Servers |-> None]
    /\ context = None
    /\ vault = [p \in Paths |-> IF p \in Stored THEN OldKey ELSE None]
    /\ scratch = None
    /\ keyFile = [p \in Paths |-> None]
    /\ installed = {}
    /\ results = [l \in Labels |-> "absent"]
    /\ failures = {}
    /\ status = None

-----------------------------------------------------------------------------
(* The main thread.                                                        *)

Goto(s, where) == pc' = [pc EXCEPT ![s] = where]

(* A token is resolved and the arguments are copied for its run, or it is  *)
(* skipped: one that does not resolve never blocks the fleet.              *)
PlanRun ==
    /\ main = "plan" /\ next <= Len(Tokens)
    /\ next' = next + 1
    /\ \/ /\ Goto(Tokens[next], "planned")
          /\ nsUrl' = [nsUrl EXCEPT ![Tokens[next]] = argsUrl]
       \/ UNCHANGED <<pc, nsUrl>>
    /\ UNCHANGED <<main, argsUrl, forward, held, gate, keyFile, gathering>>

Planned == {s \in Servers : pc[s] = "planned"}

NothingToRun ==
    /\ main = "plan" /\ next > Len(Tokens) /\ Planned = {}
    /\ main' = "done" /\ status' = 2
    /\ UNCHANGED <<planning, forward, pc, held, gate, keyFile, results, failures>>

(* The endpoint is set up once; args.llm_url now names the forward's end.   *)
(* A failure leaves run_debug_fleet before any run.                         *)
PrepareEndpoint ==
    /\ main = "plan" /\ next > Len(Tokens) /\ Planned # {}
    /\ \/ main' = "submit" /\ forward' = "open" /\ argsUrl' = "forward"
       \/ main' = "raised" /\ forward' = "closed" /\ argsUrl' = argsUrl
    /\ UNCHANGED <<next, nsUrl, pc, held, gate, keyFile, gathering>>

Submit ==
    /\ main = "submit"
    /\ main' = "gather"
    /\ pc' = [s \in Servers |-> IF s \in Planned THEN "queued" ELSE pc[s]]
    /\ UNCHANGED <<planning, forward, held, gate, keyFile, gathering>>

(* _fleet_worker returns the session of the trace in its overrides.  The    *)
(* pipeline sets the trace in a copy of them.                               *)
Overrides == {"store", "retriever", "llm_forward", "progress"}
SessionId(s) == IF "trace" \in Overrides THEN s ELSE None

(* faulty: a run that is done clears the failure of another of its label.   *)
CountedByLabel(s) ==
    IF pc[s] = "failed" THEN failures \cup {s}
    ELSE {t \in failures : LabelOf[t] # LabelOf[s]}

Counted(s) == IF pc[s] = "failed" THEN failures \cup {s} ELSE failures

(* as_completed: one finished run is entered under its label.               *)
Gather(s) ==
    /\ main = "gather" /\ pc[s] \in Ended
    /\ results' = [results EXCEPT ![LabelOf[s]] = IF pc[s] = "failed" THEN None ELSE SessionId(s)]
    /\ failures' = Counted(s)
    /\ held' = [held EXCEPT ![s] = None]
    /\ Goto(s, IF pc[s] = "failed" THEN "gathered-failed" ELSE "gathered")
    /\ UNCHANGED <<main, planning, forward, gate, keyFile, status>>

AllOver == \A s \in Servers : pc[s] \in Ended \cup Gathered \cup {"unplanned"}
AllGathered == \A s \in Servers : pc[s] \in Gathered \cup {"unplanned"}

(* The exit status counts failures, not results: two runs of one label      *)
(* share an entry.                                                          *)
ExitStatus == IF failures = {} THEN 0 ELSE 1

Return ==
    /\ main = "gather" /\ AllGathered
    /\ main' = "done" /\ status' = ExitStatus
    /\ UNCHANGED <<planning, forward, pc, held, gate, keyFile, results, failures>>

(* Ctrl-C leaves the loop over the results; the pool's with-block then      *)
(* waits for every run, those still queued included.                        *)
Interrupt ==
    /\ main = "gather" /\ ~AllGathered
    /\ main' = "interrupted"
    /\ UNCHANGED <<planning, forward, pc, held, gate, keyFile, gathering>>

LeavePool ==
    /\ main = "interrupted" /\ AllOver
    /\ main' = "raised"
    /\ UNCHANGED <<planning, forward, pc, held, gate, keyFile, gathering>>

(* The process exits and the hook closes every forward that is registered.  *)
CloseForwards ==
    /\ main \in {"done", "raised"} /\ forward = "open"
    /\ forward' = "closed"
    /\ UNCHANGED <<main, planning, pc, held, gate, keyFile, gathering>>

-----------------------------------------------------------------------------
(* A run, up to its connection.                                            *)

Running == {s \in Servers : Busy(s)}

(* The pool's queue is in the order of the list.                            *)
First(i) ==
    /\ pc[Tokens[i]] = "queued"
    /\ \A j \in 1 .. i - 1 : pc[Tokens[j]] # "queued"

(* faulty: a run that failed stops the pool.                                *)
StartUnlessFailed ==
    /\ Cardinality(Running) < Workers /\ failures = {}
    /\ \E i \in DOMAIN Tokens : First(i) /\ Goto(Tokens[i], "context")
    /\ UNCHANGED <<main, planning, forward, held, gate, keyFile, gathering>>

(* The executor takes the next server when a thread is free, whatever the   *)
(* runs before it came to.                                                  *)
Start ==
    /\ Cardinality(Running) < Workers
    /\ \E i \in DOMAIN Tokens : First(i) /\ Goto(Tokens[i], "context")
    /\ UNCHANGED <<main, planning, forward, held, gate, keyFile, gathering>>

ApplyContext(s) ==
    /\ pc[s] = "context"
    /\ context' = HostOf[s]
    /\ Goto(s, "identity")
    /\ UNCHANGED <<main, planning, forward, held, vault, scratch, installed,
                   keyFile, gathering>>

(* OnDemandSecretStore.get: what is at the path, or the operator is asked.  *)
StoredFor(s) == vault[PathOf[s]]

GetIdentity(s) ==
    /\ pc[s] = "identity"
    /\ held' = [held EXCEPT ![s] = StoredFor(s)]
    /\ Goto(s, IF StoredFor(s) = None THEN "prompt" ELSE "write")
    /\ UNCHANGED <<main, planning, forward, gate, keyFile, gathering>>

(* The operator declines, or refuses that ssh-keygen overwrites a key that  *)
(* another prompt left there: the store raises and the run fails.           *)
Decline(s) ==
    /\ pc[s] = "prompt"
    /\ Goto(s, "failed")
    /\ UNCHANGED <<main, planning, forward, held, gate, keyFile, gathering>>

Generate(s) ==
    /\ pc[s] = "prompt"
    /\ scratch' = s
    /\ Goto(s, "generated")
    /\ UNCHANGED <<main, planning, forward, held, context, vault, installed,
                   keyFile, gathering>>

(* The file may be another prompt's by now, or gone.                        *)
ReadGenerated(s) ==
    /\ pc[s] = "generated"
    /\ held' = [held EXCEPT ![s] = scratch]
    /\ Goto(s, IF scratch = None THEN "failed" ELSE "leftover")
    /\ UNCHANGED <<main, planning, forward, gate, keyFile, gathering>>

UnlinkGenerated(s) ==
    /\ pc[s] = "leftover"
    /\ scratch' = None
    /\ Goto(s, "install")
    /\ UNCHANGED <<main, planning, forward, held, context, vault, installed,
                   keyFile, gathering>>

(* The public key goes to the host of the context, if the operator agrees,  *)
(* the password is right and the host's fingerprint is confirmed.           *)
Appended(s) == <<s, held[s], context>>

OfferInstall(s) ==
    /\ pc[s] = "install"
    /\ \/ installed' = installed \cup {Appended(s)}
       \/ UNCHANGED installed
    /\ Goto(s, "put")
    /\ UNCHANGED <<main, planning, forward, held, context, vault, scratch,
                   keyFile, gathering>>

(* DirSecretStore.put writes in place: truncate, then the content.          *)
Put(s) ==
    /\ \/ pc[s] = "put" /\ vault' = [vault EXCEPT ![PathOf[s]] = Torn] /\ Goto(s, "putting")
       \/ /\ pc[s] = "putting"
          /\ vault' = [vault EXCEPT ![PathOf[s]] = held[s]]
          /\ Goto(s, "write")
    /\ UNCHANGED <<main, planning, forward, held, context, scratch, installed,
                   keyFile, gathering>>

(* load_key_material: the key on disk, under a name made of the vault path. *)
WriteKeyFile(s) ==
    /\ pc[s] = "write"
    /\ keyFile' = [keyFile EXCEPT ![PathOf[s]] = held[s]]
    /\ Goto(s, "connect")
    /\ UNCHANGED <<main, planning, forward, held, gate, gathering>>

Connect(s) ==
    /\ pc[s] = "connect"
    /\ \/ keyFile[PathOf[s]] \in Keys /\ Goto(s, "connected")
       \/ Goto(s, "refused")
    /\ UNCHANGED <<main, planning, forward, held, gate, keyFile, gathering>>

(* finally: if the file exists it is unlinked; a file that goes away between *)
(* the two raises.                                                          *)
After == [connected |-> "model", refused |-> "failed"]
Unlinking == [connected |-> "unlink", refused |-> "unlink-refused"]

KeyIsThere(s) == keyFile[PathOf[s]] # None

CheckKeyFile(s) ==
    /\ pc[s] \in {"connected", "refused"}
    /\ Goto(s, IF KeyIsThere(s) THEN Unlinking[pc[s]] ELSE After[pc[s]])
    /\ UNCHANGED <<main, planning, forward, held, gate, keyFile, gathering>>

UnlinkKeyFile(s) ==
    /\ pc[s] \in {"unlink", "unlink-refused"}
    /\ keyFile' = [keyFile EXCEPT ![PathOf[s]] = None]
    /\ Goto(s, IF pc[s] = "unlink" /\ keyFile[PathOf[s]] # None THEN "model" ELSE "failed")
    /\ UNCHANGED <<main, planning, forward, held, gate, gathering>>

(* The rest of the run, which ends in a diagnosis or raises.                *)
Finish(s) ==
    /\ pc[s] = "model"
    /\ Goto(s, "ok") \/ Goto(s, "failed")
    /\ UNCHANGED <<main, planning, forward, held, gate, keyFile, gathering>>

RunStep(s) ==
    \/ ApplyContext(s) \/ GetIdentity(s) \/ Decline(s) \/ Generate(s)
    \/ ReadGenerated(s) \/ UnlinkGenerated(s) \/ OfferInstall(s) \/ Put(s)
    \/ WriteKeyFile(s) \/ Connect(s) \/ CheckKeyFile(s) \/ UnlinkKeyFile(s) \/ Finish(s)

MainStep ==
    \/ PlanRun \/ NothingToRun \/ PrepareEndpoint \/ Submit \/ Return
    \/ LeavePool \/ CloseForwards \/ \E s \in Servers : Gather(s)

Next == MainStep \/ Interrupt \/ Start \/ \E s \in Servers : RunStep(s)

Spec == Init /\ [][Next]_vars

(* Every thread of the pool is scheduled, and a prompt is answered; Ctrl-C  *)
(* is the operator's choice.                                                *)
FairSpec ==
    /\ Spec
    /\ WF_vars(MainStep) /\ WF_vars(Start)
    /\ \A s \in Servers : WF_vars(RunStep(s))

-----------------------------------------------------------------------------
(* The shape of the state: what a run holds, and what lies at each path.    *)
TypeOK ==
    /\ next \in 1 .. Len(Tokens) + 1
    /\ forward \in {"none", "open", "closed"}
    /\ argsUrl \in {None, "forward"}
    /\ nsUrl \in [Servers -> {None, "forward"}]
    /\ held \in [Servers -> Keys \cup {None, Torn}]
    /\ context \in Hosts \cup {None}
    /\ vault \in [Paths -> Keys \cup {None, Torn}]
    /\ scratch \in Keys \cup {None}
    /\ keyFile \in [Paths -> Keys \cup {None, Torn}]
    /\ installed \subseteq Servers \X Keys \X Hosts
    /\ results \in [Labels -> Servers \cup {None, "absent"}]
    /\ failures \subseteq Servers
    /\ status \in {None, 0, 1, 2}

Failed == {s \in Servers : pc[s] \in {"failed", "gathered-failed"}}

(* run_debug_fleet returns 0 only if no run failed, also when several       *)
(* tokens resolve to one label and overwrite each other's entry of the      *)
(* summary (cli.py:1316-1339).                                              *)
StatusIsTrue ==
    main = "done" /\ status = 0 => Failed = {}

(* The shared forward stays up until the last run is over, also when the    *)
(* operator interrupts the fleet: a run that is still reasoning is not cut  *)
(* off from the model (cli.py:1307-1318, 276-285).                          *)
ForwardOutlivesRuns ==
    (\E s \in Servers : Busy(s) \/ pc[s] = "queued") => forward = "open"

(* Once nothing runs, no private key is left in the temporary directory,    *)
(* whatever failed and whichever runs shared a path (session.py:52-64).     *)
NoKeyLeftBehind ==
    (\A s \in Servers : ~Busy(s)) => \A p \in Paths : keyFile[p] = None

(* One server's failure is its own: whatever fails, every run that was      *)
(* submitted is carried through, the command ends -- interrupted or not --  *)
(* and no forward outlives it (cli.py:1318-1339, 285).                      *)
FleetEnds ==
    <>(/\ main \in {"done", "raised"} /\ forward # "open"
       /\ \A s \in Servers : ~Busy(s) /\ pc[s] # "queued")

-----------------------------------------------------------------------------
(* What the code says and does not do.                                      *)

(* cli.py:1307: the endpoint is set up exactly once; every worker shares it.*)
RunsShareTheForward ==
    \A s \in Servers : pc[s] = "model" => nsUrl[s] = "forward"

(* cli.py:1398: a worker has its own overrides, the trace among them; so    *)
(* the table at the end says FAILED, an entry without a session, of a label  *)
(* only if a run of it failed.                                              *)
TableIsTrue ==
    main = "done" => \A l \in Labels : results[l] = None => \E s \in Failed : LabelOf[s] = l

(* credential_gate.py:444: so a freshly generated SSH identity can be       *)
(* installed onto the right target.                                         *)
InstalledOnItsTarget ==
    \A i \in installed : i[3] = HostOf[i[1]]

(* vault.py:100: a unique filename to avoid colliding with other sessions:  *)
(* between the write and the connection the file is the run's own.          *)
KeyFileIsItsOwn ==
    \A s \in Servers : pc[s] = "connect" => keyFile[PathOf[s]] = held[s]
=============================================================================
