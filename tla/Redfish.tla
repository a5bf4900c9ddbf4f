-------------------------------- MODULE Redfish -------------------------------
(***************************************************************************)
(* The Redfish evidence of a node (engine/redfish.py, inspect/collectors/  *)
(* redfish.py, and their users): a service root and two collections are    *)
(* fetched from the rack manager, each directly first and, when the rack   *)
(* is out of reach, through a hop over the bastion that the client opens   *)
(* once and keeps.  A debug run closes the client where it ends; a run     *)
(* that is cut off, and the probe tool of the session, do not.             *)
(***************************************************************************)
EXTENDS Naturals, Sequences, FiniteSets

CONSTANTS
    Users,         \* of "run", "probe": who collects
    None

(* What the constants must satisfy, assumed by Channels                   *)
RedfishAssumption == Users \subseteq {"run", "probe"} /\ None \notin Nat

Fetches == <<"preflight", "event_log", "service_conditions">>

VARIABLES
    user, secret,  \* who collects; whether the vault has the password
    at,            \* "build", "fetch", "direct", "tunnel", "collected", or how it ended
    dumps,         \* what the collection leaves: [of, via]
    made,          \* hops made by the client
    open,          \* those that are open
    forward,       \* _forward: the last one made, or None
    port           \* _tunnel_port: of which hop, or None

client == <<made, open, forward, port>>
vars == <<user, secret, at, dumps, client>>

Init ==
    /\ user \in Users /\ secret \in BOOLEAN
    /\ at = "build"
    /\ dumps = <<>>
    /\ made = 0 /\ open = {} /\ forward = None /\ port = None

(* A run without the password does without Redfish; the tool only asks      *)
(* whether a vault path is configured.                                     *)
Build ==
    /\ at = "build"
    /\ at' = IF user = "run" /\ ~secret THEN "disabled" ELSE "fetch"
    /\ UNCHANGED <<user, secret, dumps, client>>

Fetch ==
    /\ at = "fetch"
    /\ at' = "direct"
    /\ UNCHANGED <<user, secret, dumps, client>>

(* A dump for the fetch; nothing else is fetched when the preflight fails.  *)
Leave(via) ==
    /\ dumps' = Append(dumps, [of |-> Fetches[Len(dumps) + 1], via |-> via])
    /\ at' = IF Len(dumps) + 1 = Len(Fetches) \/ (dumps = <<>> /\ via = "failed")
             THEN "collected" ELSE "fetch"

(* The password is read before anything is sent.                           *)
Direct ==
    /\ at = "direct"
    /\ \/ ~secret /\ Leave("failed")
       \/ secret /\ Leave("direct")
       \/ secret /\ at' = "tunnel" /\ UNCHANGED dumps
    /\ UNCHANGED <<user, secret, client>>

(* faulty: a hop for every fetch.                                          *)
PortOfThisFetch == None

(* The hop that is up already.                                             *)
KnownPort == port

(* The hop of the client is started; a start that fails leaves nothing      *)
(* open, and the next fetch makes another.                                 *)
StartHop ==
    /\ at = "tunnel" /\ KnownPort = None /\ made < Len(Fetches)
    /\ made' = made + 1
    /\ forward' = made + 1
    /\ \/ /\ open' = open \cup {made + 1}
          /\ port' = made + 1
          /\ \/ Leave("tunnel")
             \/ Leave("failed")
       \/ /\ UNCHANGED <<open, port>>
          /\ Leave("failed")
    /\ UNCHANGED <<user, secret>>

Tunneled ==
    /\ at = "tunnel" /\ KnownPort # None
    /\ \/ Leave("tunnel")
       \/ Leave("failed")
    /\ UNCHANGED <<user, secret, client>>

(* The run ends where it should (the client is closed), or an exception or  *)
(* a cancellation cuts it off; the tool just returns.                      *)
Close ==
    /\ at = "collected" /\ user = "run"
    /\ at' = "ended"
    /\ open' = open \ {forward}
    /\ forward' = None /\ port' = None
    /\ UNCHANGED <<user, secret, dumps, made>>

CutOff ==
    /\ at \in {"fetch", "collected"} /\ user = "run"
    /\ at' = "cut off"
    /\ UNCHANGED <<user, secret, dumps, client>>

Returned ==
    /\ at = "collected" /\ user = "probe"
    /\ at' = "returned"
    /\ UNCHANGED <<user, secret, dumps, client>>

Next ==
    \/ Build \/ Fetch \/ Direct \/ StartHop \/ Tunneled
    \/ Close \/ CutOff \/ Returned

Spec == Init /\ [][Next]_vars

-----------------------------------------------------------------------------
(* Type correctness: the port is that of the last hop made, and it is open. *)
TypeOK ==
    /\ Len(dumps) <= Len(Fetches)
    /\ open \subseteq 1..made
    /\ forward = None \/ forward \in 1..made
    /\ port # None => port = forward /\ port \in open

(* The hop dies with the run: whatever was refused, retried or broken on    *)
(* the way, a run that reaches its end leaves no hop of its client open     *)
(* (cli.py:1264-1265), and there is never more than one at a time.          *)
HopDiesWithTheRun ==
    /\ Cardinality(open) <= 1
    /\ at = "ended" => open = {}

(* The same of whoever collects.  It is not so: a run that is cut off and   *)
(* the probe tool leave the hop open as long as the process lives.         *)
HopDiesWithItsUser ==
    at \in {"ended", "cut off", "returned"} => open = {}
=============================================================================
