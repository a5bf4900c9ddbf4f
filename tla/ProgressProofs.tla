--------------------------- MODULE ProgressProofs ----------------------------
(***************************************************************************)
(* Proofs about the fleet as Progress composes it, for every list of       *)
(* tokens, every sharing of labels and vault paths, and any number of      *)
(* threads.                                                                *)
(*                                                                         *)
(* PoolInv is inductive.  PhaseInv says where the runs can be in each      *)
(* phase of the main thread: the pool's with-block keeps the thread in     *)
(* "gather" or "interrupted" until every run is over, so the forward,      *)
(* closed only past it, outlives them, and a run that failed is among the  *)
(* failures when the status is computed.  KeyInv says that a key file has  *)
(* an owner, a run between the write of that path and the unlink that ends *)
(* its connection; when two runs share a path, one of them may find the    *)
(* file gone, but none leaves it.                                          *)
(***************************************************************************)
EXTENDS Progress, Sequences, TLAPS

(* The places of a run, in order. *)
Submitted ==
    {"queued", "context", "identity", "prompt", "generated", "leftover",
     "install", "put", "putting", "write", "connect", "connected", "refused",
     "unlink", "unlink-refused", "model"}
Places == Submitted \cup Pool!Gathered \cup {"unplanned", "planned", "ok", "failed"}

(* Between the write of the key file and its unlink. *)
Holding == {"connect", "connected", "refused", "unlink", "unlink-refused"}

(* Places at which a key has been generated and is not in the vault yet. *)
Fresh == {"leftover", "install", "put", "putting"}

PlacesOK ==
    /\ main \in {"plan", "submit", "gather", "interrupted", "done", "raised"}
    /\ at \in [Pool!Servers -> Places]

(* A run that holds a fresh key holds a key, and has set the gate's context. *)
GateInv ==
    /\ \A s \in Pool!Servers : at[s] \in Fresh => held[s] \in Pool!Keys
    /\ \A s \in Pool!Servers :
          at[s] \in Submitted \ {"queued", "context"} => context \in Pool!Hosts

(* Where the runs are, in each phase of the main thread. *)
PhaseInv ==
    /\ main \in {"plan", "submit"} =>
          \A s \in Pool!Servers : at[s] \in {"unplanned", "planned"}
    /\ main \in {"submit", "gather", "interrupted"} => shared = "open"
    /\ main \in {"done", "raised"} => \A s \in Pool!Servers : at[s] \notin Submitted
    /\ main = "done" => \A s \in Pool!Servers : at[s] \in Pool!Gathered \cup {"unplanned"}
    /\ \A s \in Pool!Servers : at[s] = "gathered-failed" => s \in failures
    /\ main = "done" /\ status = 0 => failures = {}

(* A key file has an owner. *)
KeyInv ==
    \A p \in Pool!Paths :
        keyFile[p] # None => \E s \in Pool!Servers : PathOf[s] = p /\ at[s] \in Holding

PoolInv == Pool!TypeOK /\ PlacesOK /\ GateInv /\ PhaseInv /\ KeyInv

\* What the constants are: every run has a label, a host and a path.
LEMMA ServerHas ==
  ASSUME NEW s \in Pool!Servers
  PROVE  LabelOf[s] \in Pool!Labels /\ HostOf[s] \in Pool!Hosts
         /\ PathOf[s] \in Pool!Paths
BY DEF Pool!Labels, Pool!Hosts, Pool!Paths

\* Every token is a server of the list.
LEMMA TokenIsServer == ASSUME NEW i \in DOMAIN Tokens PROVE Tokens[i] \in Pool!Servers
BY DEF Pool!Servers

\* The tokens are numbered from 1 to the length of the list.
LEMMA TokensAreNumbered == DOMAIN Tokens = 1..Len(Tokens) /\ Len(Tokens) \in Nat
BY PartsAssumption DEF Pool!FleetAssumption

\* A run moves from place to place.
LEMMA PlacesStep == PlacesOK /\ Pool!TypeOK /\ [Pool!Next]_fleetVars =>
   PlacesOK'
<1> SUFFICES ASSUME PlacesOK, Pool!TypeOK, [Pool!Next]_fleetVars PROVE
             PlacesOK'
  OBVIOUS
<1> USE DEF Pool!vars, Pool!gate, Pool!planning, Pool!gathering, PlacesOK,
        Places, Submitted, Pool!Goto, Pool!Gathered
<1>1. CASE Pool!PlanRun
  <2>1. next \in DOMAIN Tokens
    BY <1>1, TokensAreNumbered DEF Pool!PlanRun, Pool!TypeOK
  <2>2. Tokens[next] \in Pool!Servers
    BY <2>1, TokenIsServer
  <2> QED
    BY <1>1, <2>2 DEF Pool!PlanRun
<1>2. CASE Pool!NothingToRun
  BY <1>2 DEF Pool!NothingToRun
<1>3. CASE Pool!PrepareEndpoint
  BY <1>3 DEF Pool!PrepareEndpoint
<1>4. CASE Pool!Submit
  BY <1>4 DEF Pool!Submit
<1>5. CASE Pool!Return
  BY <1>5 DEF Pool!Return
<1>6. CASE Pool!LeavePool
  BY <1>6 DEF Pool!LeavePool
<1>7. CASE Pool!CloseForwards
  BY <1>7 DEF Pool!CloseForwards
<1>8. ASSUME NEW s \in Pool!Servers, Pool!Gather(s) PROVE PlacesOK'
  BY <1>8 DEF Pool!Gather, Pool!Counted
<1>9. CASE Pool!Interrupt
  BY <1>9 DEF Pool!Interrupt
<1>10. CASE Pool!Start
  BY <1>10, TokenIsServer DEF Pool!Start
<1>11. ASSUME NEW s \in Pool!Servers, Pool!ApplyContext(s) PROVE PlacesOK'
  BY <1>11 DEF Pool!ApplyContext
<1>12. ASSUME NEW s \in Pool!Servers, Pool!GetIdentity(s) PROVE PlacesOK'
  BY <1>12 DEF Pool!GetIdentity, Pool!StoredFor
<1>13. ASSUME NEW s \in Pool!Servers, Pool!Decline(s) PROVE PlacesOK'
  BY <1>13 DEF Pool!Decline
<1>14. ASSUME NEW s \in Pool!Servers, Pool!Generate(s) PROVE PlacesOK'
  BY <1>14 DEF Pool!Generate
<1>15. ASSUME NEW s \in Pool!Servers, Pool!ReadGenerated(s) PROVE PlacesOK'
  BY <1>15 DEF Pool!ReadGenerated
<1>16. ASSUME NEW s \in Pool!Servers, Pool!UnlinkGenerated(s) PROVE PlacesOK'
  BY <1>16 DEF Pool!UnlinkGenerated
<1>17. ASSUME NEW s \in Pool!Servers, Pool!OfferInstall(s) PROVE PlacesOK'
  BY <1>17 DEF Pool!OfferInstall
<1>18. ASSUME NEW s \in Pool!Servers, Pool!Put(s) PROVE PlacesOK'
  BY <1>18 DEF Pool!Put
<1>19. ASSUME NEW s \in Pool!Servers, Pool!WriteKeyFile(s) PROVE PlacesOK'
  BY <1>19 DEF Pool!WriteKeyFile
<1>20. ASSUME NEW s \in Pool!Servers, Pool!Connect(s) PROVE PlacesOK'
  BY <1>20 DEF Pool!Connect
<1>21. ASSUME NEW s \in Pool!Servers, Pool!CheckKeyFile(s) PROVE PlacesOK'
  BY <1>21 DEF Pool!CheckKeyFile, Pool!KeyIsThere, Pool!Unlinking, Pool!After
<1>22. ASSUME NEW s \in Pool!Servers, Pool!UnlinkKeyFile(s) PROVE PlacesOK'
  BY <1>22 DEF Pool!UnlinkKeyFile
<1>23. ASSUME NEW s \in Pool!Servers, Pool!Finish(s) PROVE PlacesOK'
  BY <1>23 DEF Pool!Finish
<1>24. CASE UNCHANGED fleetVars
  BY <1>24 DEF fleetVars
<1> QED
  BY <1>1, <1>2, <1>3, <1>4, <1>5, <1>6, <1>7, <1>8, <1>9, <1>10, <1>11, <1>12,
     <1>13, <1>14, <1>15, <1>16, <1>17, <1>18, <1>19, <1>20, <1>21, <1>22,
     <1>23, <1>24 DEF Pool!Next, Pool!MainStep, Pool!RunStep

\* Each variable keeps its type.
LEMMA PoolTypeStep == Pool!TypeOK /\ PlacesOK /\ GateInv /\
   [Pool!Next]_fleetVars => Pool!TypeOK'
<1> SUFFICES ASSUME Pool!TypeOK, PlacesOK, GateInv, [Pool!Next]_fleetVars PROVE
             Pool!TypeOK'
  OBVIOUS
<1> USE ServerHas DEF Pool!vars, Pool!gate, Pool!planning, Pool!gathering,
        Pool!TypeOK, Pool!Goto
<1>1. CASE Pool!PlanRun
  BY <1>1, TokensAreNumbered DEF Pool!PlanRun
<1>2. CASE Pool!NothingToRun
  BY <1>2 DEF Pool!NothingToRun
<1>3. CASE Pool!PrepareEndpoint
  BY <1>3 DEF Pool!PrepareEndpoint
<1>4. CASE Pool!Submit
  BY <1>4 DEF Pool!Submit
<1>5. CASE Pool!Return
  BY <1>5 DEF Pool!Return, Pool!ExitStatus
<1>6. CASE Pool!LeavePool
  BY <1>6 DEF Pool!LeavePool
<1>7. CASE Pool!CloseForwards
  BY <1>7 DEF Pool!CloseForwards
<1>8. ASSUME NEW s \in Pool!Servers, Pool!Gather(s) PROVE Pool!TypeOK'
  BY <1>8 DEF Pool!Gather, Pool!Counted, Pool!SessionId, Pool!Ended
<1>9. CASE Pool!Interrupt
  BY <1>9 DEF Pool!Interrupt
<1>10. CASE Pool!Start
  BY <1>10 DEF Pool!Start
<1>11. ASSUME NEW s \in Pool!Servers, Pool!ApplyContext(s) PROVE Pool!TypeOK'
  BY <1>11 DEF Pool!ApplyContext
<1>12. ASSUME NEW s \in Pool!Servers, Pool!GetIdentity(s) PROVE Pool!TypeOK'
  BY <1>12 DEF Pool!GetIdentity, Pool!StoredFor
<1>13. ASSUME NEW s \in Pool!Servers, Pool!Decline(s) PROVE Pool!TypeOK'
  BY <1>13 DEF Pool!Decline
<1>14. ASSUME NEW s \in Pool!Servers, Pool!Generate(s) PROVE Pool!TypeOK'
  BY <1>14 DEF Pool!Generate, Pool!Keys
<1>15. ASSUME NEW s \in Pool!Servers, Pool!ReadGenerated(s) PROVE Pool!TypeOK'
  BY <1>15 DEF Pool!ReadGenerated
<1>16. ASSUME NEW s \in Pool!Servers, Pool!UnlinkGenerated(s) PROVE
           Pool!TypeOK'
  BY <1>16 DEF Pool!UnlinkGenerated
<1>17. ASSUME NEW s \in Pool!Servers, Pool!OfferInstall(s) PROVE Pool!TypeOK'
  BY <1>17 DEF Pool!OfferInstall, GateInv, Fresh, Submitted, Pool!Appended
<1>18. ASSUME NEW s \in Pool!Servers, Pool!Put(s) PROVE Pool!TypeOK'
  BY <1>18 DEF Pool!Put, GateInv, Fresh
<1>19. ASSUME NEW s \in Pool!Servers, Pool!WriteKeyFile(s) PROVE Pool!TypeOK'
  BY <1>19 DEF Pool!WriteKeyFile
<1>20. ASSUME NEW s \in Pool!Servers, Pool!Connect(s) PROVE Pool!TypeOK'
  BY <1>20 DEF Pool!Connect
<1>21. ASSUME NEW s \in Pool!Servers, Pool!CheckKeyFile(s) PROVE Pool!TypeOK'
  BY <1>21 DEF Pool!CheckKeyFile
<1>22. ASSUME NEW s \in Pool!Servers, Pool!UnlinkKeyFile(s) PROVE Pool!TypeOK'
  BY <1>22 DEF Pool!UnlinkKeyFile
<1>23. ASSUME NEW s \in Pool!Servers, Pool!Finish(s) PROVE Pool!TypeOK'
  BY <1>23 DEF Pool!Finish
<1>24. CASE UNCHANGED fleetVars
  BY <1>24 DEF fleetVars
<1> QED
  BY <1>1, <1>2, <1>3, <1>4, <1>5, <1>6, <1>7, <1>8, <1>9, <1>10, <1>11, <1>12,
     <1>13, <1>14, <1>15, <1>16, <1>17, <1>18, <1>19, <1>20, <1>21, <1>22,
     <1>23, <1>24 DEF Pool!Next, Pool!MainStep, Pool!RunStep

\* A fresh key is a key, on its way to a host.
LEMMA GateStep == Pool!TypeOK /\ PlacesOK /\ GateInv /\ [Pool!Next]_fleetVars
   => GateInv'
<1> SUFFICES ASSUME Pool!TypeOK, PlacesOK, GateInv, [Pool!Next]_fleetVars PROVE
             GateInv'
  OBVIOUS
<1> USE ServerHas DEF Pool!vars, Pool!gate, Pool!planning, Pool!gathering,
        GateInv, Fresh, Submitted, Pool!Goto, PlacesOK
<1>1. CASE Pool!PlanRun
  BY <1>1 DEF Pool!PlanRun
<1>2. CASE Pool!NothingToRun
  BY <1>2 DEF Pool!NothingToRun
<1>3. CASE Pool!PrepareEndpoint
  BY <1>3 DEF Pool!PrepareEndpoint
<1>4. CASE Pool!Submit
  BY <1>4 DEF Pool!Submit
<1>5. CASE Pool!Return
  BY <1>5 DEF Pool!Return
<1>6. CASE Pool!LeavePool
  BY <1>6 DEF Pool!LeavePool
<1>7. CASE Pool!CloseForwards
  BY <1>7 DEF Pool!CloseForwards
<1>8. ASSUME NEW s \in Pool!Servers, Pool!Gather(s) PROVE GateInv'
  BY <1>8 DEF Pool!Gather, Pool!Gathered, Pool!Counted
<1>9. CASE Pool!Interrupt
  BY <1>9 DEF Pool!Interrupt
<1>10. CASE Pool!Start
  BY <1>10 DEF Pool!Start
<1>11. ASSUME NEW s \in Pool!Servers, Pool!ApplyContext(s) PROVE GateInv'
  BY <1>11 DEF Pool!ApplyContext
<1>12. ASSUME NEW s \in Pool!Servers, Pool!GetIdentity(s) PROVE GateInv'
  BY <1>12 DEF Pool!GetIdentity, Pool!StoredFor
<1>13. ASSUME NEW s \in Pool!Servers, Pool!Decline(s) PROVE GateInv'
  BY <1>13 DEF Pool!Decline
<1>14. ASSUME NEW s \in Pool!Servers, Pool!Generate(s) PROVE GateInv'
  BY <1>14 DEF Pool!Generate
<1>15. ASSUME NEW s \in Pool!Servers, Pool!ReadGenerated(s) PROVE GateInv'
  BY <1>15 DEF Pool!ReadGenerated, Pool!TypeOK
<1>16. ASSUME NEW s \in Pool!Servers, Pool!UnlinkGenerated(s) PROVE GateInv'
  BY <1>16 DEF Pool!UnlinkGenerated
<1>17. ASSUME NEW s \in Pool!Servers, Pool!OfferInstall(s) PROVE GateInv'
  BY <1>17 DEF Pool!OfferInstall
<1>18. ASSUME NEW s \in Pool!Servers, Pool!Put(s) PROVE GateInv'
  BY <1>18 DEF Pool!Put
<1>19. ASSUME NEW s \in Pool!Servers, Pool!WriteKeyFile(s) PROVE GateInv'
  BY <1>19 DEF Pool!WriteKeyFile
<1>20. ASSUME NEW s \in Pool!Servers, Pool!Connect(s) PROVE GateInv'
  BY <1>20 DEF Pool!Connect
<1>21. ASSUME NEW s \in Pool!Servers, Pool!CheckKeyFile(s) PROVE GateInv'
  BY <1>21 DEF Pool!CheckKeyFile, Pool!KeyIsThere, Pool!Unlinking, Pool!After
<1>22. ASSUME NEW s \in Pool!Servers, Pool!UnlinkKeyFile(s) PROVE GateInv'
  BY <1>22 DEF Pool!UnlinkKeyFile
<1>23. ASSUME NEW s \in Pool!Servers, Pool!Finish(s) PROVE GateInv'
  BY <1>23 DEF Pool!Finish
<1>24. CASE UNCHANGED fleetVars
  BY <1>24 DEF fleetVars
<1> QED
  BY <1>1, <1>2, <1>3, <1>4, <1>5, <1>6, <1>7, <1>8, <1>9, <1>10, <1>11, <1>12,
     <1>13, <1>14, <1>15, <1>16, <1>17, <1>18, <1>19, <1>20, <1>21, <1>22,
     <1>23, <1>24 DEF Pool!Next, Pool!MainStep, Pool!RunStep

\* The phases follow one another.
LEMMA PhaseStep == Pool!TypeOK /\ PlacesOK /\ PhaseInv /\ [Pool!Next]_fleetVars
   => PhaseInv'
<1> SUFFICES ASSUME Pool!TypeOK, PlacesOK, PhaseInv, [Pool!Next]_fleetVars
             PROVE PhaseInv'
  OBVIOUS
<1> USE DEF Pool!vars, Pool!gate, Pool!planning, Pool!gathering, PhaseInv,
        PlacesOK, Submitted, Pool!Goto, Pool!Gathered
<1>1. CASE Pool!PlanRun
  BY <1>1 DEF Pool!PlanRun
<1>2. CASE Pool!NothingToRun
  BY <1>2 DEF Pool!NothingToRun, Pool!Planned
<1>3. CASE Pool!PrepareEndpoint
  BY <1>3 DEF Pool!PrepareEndpoint
<1>4. CASE Pool!Submit
  BY <1>4 DEF Pool!Submit, Pool!Planned
<1>5. CASE Pool!Return
  BY <1>5 DEF Pool!Return, Pool!AllGathered, Pool!ExitStatus
<1>6. CASE Pool!LeavePool
  BY <1>6 DEF Pool!LeavePool, Pool!AllOver, Pool!Ended
<1>7. CASE Pool!CloseForwards
  BY <1>7 DEF Pool!CloseForwards
<1>8. ASSUME NEW s \in Pool!Servers, Pool!Gather(s) PROVE PhaseInv'
  BY <1>8 DEF Pool!Gather, Pool!Counted, Pool!Ended
<1>9. CASE Pool!Interrupt
  BY <1>9 DEF Pool!Interrupt
<1>10. CASE Pool!Start
  BY <1>10, TokenIsServer DEF Pool!Start, Pool!First
<1>11. ASSUME NEW s \in Pool!Servers, Pool!ApplyContext(s) PROVE PhaseInv'
  BY <1>11 DEF Pool!ApplyContext
<1>12. ASSUME NEW s \in Pool!Servers, Pool!GetIdentity(s) PROVE PhaseInv'
  BY <1>12 DEF Pool!GetIdentity, Pool!StoredFor
<1>13. ASSUME NEW s \in Pool!Servers, Pool!Decline(s) PROVE PhaseInv'
  BY <1>13 DEF Pool!Decline
<1>14. ASSUME NEW s \in Pool!Servers, Pool!Generate(s) PROVE PhaseInv'
  BY <1>14 DEF Pool!Generate
<1>15. ASSUME NEW s \in Pool!Servers, Pool!ReadGenerated(s) PROVE PhaseInv'
  BY <1>15 DEF Pool!ReadGenerated
<1>16. ASSUME NEW s \in Pool!Servers, Pool!UnlinkGenerated(s) PROVE PhaseInv'
  BY <1>16 DEF Pool!UnlinkGenerated
<1>17. ASSUME NEW s \in Pool!Servers, Pool!OfferInstall(s) PROVE PhaseInv'
  BY <1>17 DEF Pool!OfferInstall
<1>18. ASSUME NEW s \in Pool!Servers, Pool!Put(s) PROVE PhaseInv'
  BY <1>18 DEF Pool!Put
<1>19. ASSUME NEW s \in Pool!Servers, Pool!WriteKeyFile(s) PROVE PhaseInv'
  BY <1>19 DEF Pool!WriteKeyFile
<1>20. ASSUME NEW s \in Pool!Servers, Pool!Connect(s) PROVE PhaseInv'
  BY <1>20 DEF Pool!Connect
<1>21. ASSUME NEW s \in Pool!Servers, Pool!CheckKeyFile(s) PROVE PhaseInv'
  BY <1>21 DEF Pool!CheckKeyFile, Pool!KeyIsThere, Pool!Unlinking, Pool!After
<1>22. ASSUME NEW s \in Pool!Servers, Pool!UnlinkKeyFile(s) PROVE PhaseInv'
  BY <1>22 DEF Pool!UnlinkKeyFile
<1>23. ASSUME NEW s \in Pool!Servers, Pool!Finish(s) PROVE PhaseInv'
  BY <1>23 DEF Pool!Finish
<1>24. CASE UNCHANGED fleetVars
  BY <1>24 DEF fleetVars
<1> QED
  BY <1>1, <1>2, <1>3, <1>4, <1>5, <1>6, <1>7, <1>8, <1>9, <1>10, <1>11, <1>12,
     <1>13, <1>14, <1>15, <1>16, <1>17, <1>18, <1>19, <1>20, <1>21, <1>22,
     <1>23, <1>24 DEF Pool!Next, Pool!MainStep, Pool!RunStep

\* A key file has an owner, also when two runs share its path.
LEMMA KeyStep == Pool!TypeOK /\ PlacesOK /\ PhaseInv /\ KeyInv /\
   [Pool!Next]_fleetVars => KeyInv'
<1> SUFFICES ASSUME Pool!TypeOK, PlacesOK, PhaseInv, KeyInv,
             [Pool!Next]_fleetVars PROVE KeyInv'
  OBVIOUS
<1> USE ServerHas DEF Pool!vars, Pool!gate, Pool!planning, Pool!gathering,
        KeyInv, PlacesOK, Holding, Pool!Goto
<1>1. CASE Pool!PlanRun
  BY <1>1 DEF Pool!PlanRun, PhaseInv
<1>2. CASE Pool!NothingToRun
  BY <1>2 DEF Pool!NothingToRun
<1>3. CASE Pool!PrepareEndpoint
  BY <1>3 DEF Pool!PrepareEndpoint
<1>4. CASE Pool!Submit
  BY <1>4 DEF Pool!Submit, Pool!Planned
<1>5. CASE Pool!Return
  BY <1>5 DEF Pool!Return
<1>6. CASE Pool!LeavePool
  BY <1>6 DEF Pool!LeavePool
<1>7. CASE Pool!CloseForwards
  BY <1>7 DEF Pool!CloseForwards
<1>8. ASSUME NEW s \in Pool!Servers, Pool!Gather(s) PROVE KeyInv'
  BY <1>8 DEF Pool!Gather, Pool!Counted, Pool!Ended
<1>9. CASE Pool!Interrupt
  BY <1>9 DEF Pool!Interrupt
<1>10. CASE Pool!Start
  BY <1>10, TokenIsServer DEF Pool!Start, Pool!First
<1>11. ASSUME NEW s \in Pool!Servers, Pool!ApplyContext(s) PROVE KeyInv'
  BY <1>11 DEF Pool!ApplyContext
<1>12. ASSUME NEW s \in Pool!Servers, Pool!GetIdentity(s) PROVE KeyInv'
  BY <1>12 DEF Pool!GetIdentity, Pool!StoredFor
<1>13. ASSUME NEW s \in Pool!Servers, Pool!Decline(s) PROVE KeyInv'
  BY <1>13 DEF Pool!Decline
<1>14. ASSUME NEW s \in Pool!Servers, Pool!Generate(s) PROVE KeyInv'
  BY <1>14 DEF Pool!Generate
<1>15. ASSUME NEW s \in Pool!Servers, Pool!ReadGenerated(s) PROVE KeyInv'
  BY <1>15 DEF Pool!ReadGenerated
<1>16. ASSUME NEW s \in Pool!Servers, Pool!UnlinkGenerated(s) PROVE KeyInv'
  BY <1>16 DEF Pool!UnlinkGenerated
<1>17. ASSUME NEW s \in Pool!Servers, Pool!OfferInstall(s) PROVE KeyInv'
  BY <1>17 DEF Pool!OfferInstall
<1>18. ASSUME NEW s \in Pool!Servers, Pool!Put(s) PROVE KeyInv'
  BY <1>18 DEF Pool!Put
<1>19. ASSUME NEW s \in Pool!Servers, Pool!WriteKeyFile(s) PROVE KeyInv'
  BY <1>19 DEF Pool!WriteKeyFile, Pool!TypeOK
<1>20. ASSUME NEW s \in Pool!Servers, Pool!Connect(s) PROVE KeyInv'
  BY <1>20 DEF Pool!Connect
<1>21. ASSUME NEW s \in Pool!Servers, Pool!CheckKeyFile(s) PROVE KeyInv'
  BY <1>21 DEF Pool!CheckKeyFile, Pool!KeyIsThere, Pool!Unlinking, Pool!After
<1>22. ASSUME NEW s \in Pool!Servers, Pool!UnlinkKeyFile(s) PROVE KeyInv'
  BY <1>22 DEF Pool!UnlinkKeyFile, Pool!TypeOK
<1>23. ASSUME NEW s \in Pool!Servers, Pool!Finish(s) PROVE KeyInv'
  BY <1>23 DEF Pool!Finish
<1>24. CASE UNCHANGED fleetVars
  BY <1>24 DEF fleetVars
<1> QED
  BY <1>1, <1>2, <1>3, <1>4, <1>5, <1>6, <1>7, <1>8, <1>9, <1>10, <1>11, <1>12,
     <1>13, <1>14, <1>15, <1>16, <1>17, <1>18, <1>19, <1>20, <1>21, <1>22,
     <1>23, <1>24 DEF Pool!Next, Pool!MainStep, Pool!RunStep

\* PoolInv holds initially.
LEMMA PoolInit == Init => PoolInv
<1> SUFFICES ASSUME Pool!Init PROVE PoolInv
  BY DEF Init
<1> USE DEF Pool!Init
<1>1. Pool!TypeOK
  BY TokensAreNumbered, PartsAssumption DEF Pool!TypeOK, Pool!Keys
<1>2. PlacesOK /\ GateInv /\ PhaseInv /\ KeyInv
  BY DEF PlacesOK, GateInv, PhaseInv, KeyInv, Places, Fresh, Submitted
<1> QED
  BY <1>1, <1>2 DEF PoolInv

\* Every step of the composition preserves PoolInv: only the fleet's touch it.
LEMMA PoolNext == PoolInv /\ [Next]_vars => PoolInv'
<1> SUFFICES ASSUME PoolInv, [Next]_vars PROVE PoolInv'
  OBVIOUS
<1>1. [Pool!Next]_fleetVars
  BY DEF Next, Alone, vars
<1> QED
  BY <1>1, PoolTypeStep, PlacesStep, GateStep, PhaseStep, KeyStep DEF PoolInv

\* PoolInv holds in every reachable state.
THEOREM PoolInvariant == Spec => []PoolInv
BY PoolInit, PoolNext, PTL DEF Spec

\* The variables of the fleet keep their types.
THEOREM FleetTypeCorrect == Spec => [](inUse = "fleet" => Pool!TypeOK)
<1>1. PoolInv => (inUse = "fleet" => Pool!TypeOK)
  BY DEF PoolInv
<1> QED
  BY <1>1, PoolInvariant, PTL

\* debug-fleet returns 0 only if no run failed; the shared forward is up until
\* the last run is over, interrupted or not; and once nothing runs no private
\* key is left in the temporary directory.
THEOREM FleetStaysSound == Spec => []FleetIsSound
<1>1. PoolInv => FleetIsSound
  <2> SUFFICES ASSUME PoolInv PROVE FleetIsSound
    OBVIOUS
  <2> USE DEF PoolInv, PlacesOK
  <2>1. Pool!StatusIsTrue
    BY DEF Pool!StatusIsTrue, Pool!Failed, Pool!Gathered, PhaseInv
  <2>2. Pool!ForwardOutlivesRuns
    <3>1. \A s \in Pool!Servers :
            Pool!Busy(s) \/ at[s] = "queued" => at[s] \in Submitted
      BY DEF Pool!Busy, Pool!Ended, Pool!Gathered, Submitted, Places
    <3>2. (\E s \in Pool!Servers : at[s] \in Submitted)
             => main \in {"gather", "interrupted"}
      BY DEF PhaseInv, Submitted
    <3> QED
      BY <3>1, <3>2 DEF Pool!ForwardOutlivesRuns, PhaseInv
  <2>3. Pool!NoKeyLeftBehind
    BY DEF Pool!NoKeyLeftBehind, KeyInv, Pool!Busy, Pool!Ended, Pool!Gathered, Holding
  <2> QED
    BY <2>1, <2>2, <2>3 DEF FleetIsSound
<1> QED
  BY <1>1, PoolInvariant, PTL

=============================================================================
