------------------------------- MODULE Records -------------------------------
(***************************************************************************)
(* What outlives a run: its audit log (AuditLog) and the cases operators   *)
(* label runs with (CaseStore).  They keep apart files, and CaseStore has  *)
(* the log as a list of events with its last line torn or not, which is    *)
(* all it may rely on while AuditLog's invariants hold.  A behaviour is    *)
(* one of the log or one of the store: the states are the two modules'     *)
(* side by side, not their product.                                        *)
(***************************************************************************)
EXTENDS AuditLog

CONSTANTS Runs, Outcomes, NoCase, MaxCommands, MaxCrashes    \* of CaseStore

VARIABLES
    part,                                                    \* who works
    case, tmp, index, dir, audit, torn, bundle, pc, cmd,     \* of CaseStore
    previous, linked, todo, commands, crashes, stored, replaced, stale

Store == INSTANCE CaseStore

ASSUME PartsAssumption == Store!StoreAssumption

storeVars == <<case, tmp, index, dir, audit, torn, bundle, pc, cmd,
               previous, linked, todo, commands, crashes, stored, replaced, stale>>
parts == <<part, vars, storeVars>>
-----------------------------------------------------------------------------
(* Beside the log the store stands still, at one of its initial states.    *)
RecordsInit ==
    /\ part \in {"log", "store"}
    /\ Init
    /\ Store!Init
    /\ part = "log" => /\ dir = [r \in Runs |-> "bare"]
                       /\ bundle = CHOOSE b \in Store!Foreign : TRUE

(* The log is given no more events than the bound allows; the store always *)
(* has a next step, or has carried out its commands.                       *)
LogStep ==
    /\ part = "log"
    /\ Next \/ UNCHANGED vars
    /\ UNCHANGED <<part, storeVars>>

StoreStep ==
    /\ part = "store"
    /\ Store!Next
    /\ UNCHANGED <<part, vars>>

RecordsNext == LogStep \/ StoreStep

RecordsSpec == RecordsInit /\ [][RecordsNext]_parts
-----------------------------------------------------------------------------
(* CaseStore: a case file is whole whenever the program dies, since it is  *)
(* written beside and renamed (case_store.py:72-80).                       *)
CasesAreWhole == Store!CasesAreWhole

(* CaseStore: the events of a run's own audit log tell the outcomes that   *)
(* were saved, in order, and a revision what it took the place of.         *)
AuditRetellsHistory == Store!AuditRetellsHistory

(* CaseStore: between two commands the index lists what is stored, but for *)
(* what a crash left out until the next save or deletion.                  *)
ListsWhatIsStored == Store!ListsWhatIsStored

(* CaseStore: a stored outcome changes only by a command that revises it,  *)
(* and goes only by one that drops it (case_store.py's WORM invariant); a  *)
(* run's own audit log only grows, unless the run is deleted or replaced   *)
(* by a revising import.                                                   *)
RecordsStay == Store!StoredOnce /\ Store!AuditIsAppendOnly
=============================================================================
