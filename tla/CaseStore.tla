----------------------------- MODULE CaseStore -----------------------------
(***************************************************************************)
(* The learning loop's store of verified outcomes (`diagnosis/             *)
(* case_store.py') and the commands that write it: `label' and `report'    *)
(* (`operator/cli.py'), `learning import' and `learning export'            *)
(* (`operator/learning_transfer.py'), and the two ways to delete a run.    *)
(*                                                                         *)
(* One operator gives one command at a time; a step is one change of a     *)
(* file that others read, and the program may die between any two.         *)
(***************************************************************************)
EXTENDS Naturals, Sequences, FiniteSetsExt

CONSTANTS
    Runs,        \* run ids
    Outcomes,    \* what an operator can label a run with
    NoCase,      \* no case file
    MaxCommands, \* how many commands are given
    MaxCrashes   \* how often the program dies

(* What the constants must satisfy, assumed by Records                    *)
StoreAssumption ==
    /\ Runs # {} /\ Outcomes # {}
    /\ NoCase \notin Outcomes /\ "partial" \notin Outcomes /\ NoCase # "partial"
    /\ MaxCommands \in Nat /\ MaxCrashes \in Nat

VARIABLES
    case,      \* <root>/<run>.json
    tmp,       \* <root>/<run>.tmp
    index,     \* index.json
    dir,       \* the run's directory: absent, without or with a case seed
    audit,     \* its audit.jsonl: the events about the case
    torn,      \* the last line of that file does not parse
    bundle,    \* the zip of the last export, or one of another device
    pc, cmd,   \* the point the command is at, and its arguments
    previous,  \* the outcome that record() read before it saved
    linked,    \* record() was given an audit log
    todo,      \* the cases, then the run directories, still to be imported
    commands, crashes,
    stored,    \* history: the outcomes saved for a run, in order
    replaced,  \* history: the case of the run was replaced by another
    stale      \* history: the program died before it rebuilt the index

fileVars == <<case, tmp, index, dir, audit, torn, bundle>>
commandVars == <<cmd, previous, linked, todo>>
boundVars == <<commands, crashes>>
historyVars == <<stored, replaced, stale>>
vars == <<fileVars, pc, commandVars, boundVars, historyVars>>

Files == Outcomes \cup {NoCase, "partial"}
Records == Outcomes \cup {NoCase}
Dirs == {"absent", "bare", "seeded"}
NoIndex == <<>>
Events == [kind : {"case_record", "case_revised"}, prev : Records, outcome : Outcomes,
           at : Nat]   \* history: its place among the outcomes saved; 0 elsewhere
Points == {"idle", "open", "previous", "check", "write", "replace", "index", "append",
           "cases", "dirs", "files", "unlink", "reindex", "rmtree"}
Commands == [kind : {"label", "report", "import", "delete", "remove"}, run : Runs,
             outcome : Outcomes, revise : BOOLEAN, drop : BOOLEAN]

Bundles == [case : [Runs -> Records], dir : [Runs -> Dirs], audit : [Runs -> Seq(Events)]]

(* The bundle of another device: some labelled runs, with their directories *)
(* or without.                                                             *)
Foreign ==
    {[case |-> c, dir |-> [r \in Runs |-> IF c[r] = NoCase THEN "absent" ELSE d],
      audit |-> [r \in Runs |-> IF c[r] = NoCase \/ d = "absent" THEN <<>>
                 ELSE <<[kind |-> "case_record", prev |-> NoCase, outcome |-> c[r], at |-> 0]>>]] :
        c \in [Runs -> Records], d \in {"absent", "seeded"}}

Init ==
    /\ case = [r \in Runs |-> NoCase] /\ tmp = case /\ index = NoIndex
    /\ dir \in [Runs -> {"bare", "seeded"}]
    /\ audit = [r \in Runs |-> <<>>] /\ torn = [r \in Runs |-> FALSE]
    /\ bundle \in Foreign
    /\ pc = "idle" /\ cmd = CHOOSE c \in Commands : TRUE
    /\ previous = NoCase /\ linked = FALSE /\ todo = {}
    /\ commands = 0 /\ crashes = 0
    /\ stored = [r \in Runs |-> <<>>] /\ replaced = [r \in Runs |-> FALSE] /\ stale = FALSE

-----------------------------------------------------------------------------
(* The store. *)

Stored == {r \in Runs : case[r] # NoCase}

(* `all': what the index names, if there is one and the file is there. *)
Listed == IF index = NoIndex THEN Stored ELSE {r \in Stored : index[r] # NoCase}

\* Fault: the index is updated, not rebuilt.
ReindexOne ==
    index' = [r \in Runs |-> IF r = cmd.run THEN case[r]
                             ELSE IF index = NoIndex THEN NoCase ELSE index[r]]

(* `_rebuild_index': from the files. *)
Reindex == index' = case

\* Fault: the previous outcome is taken from the index.
ReadPreviousIndexed ==
    /\ pc = "previous" /\ pc' = "check"
    /\ previous' = IF cmd.revise /\ index # NoIndex THEN index[cmd.run] ELSE NoCase
    /\ UNCHANGED <<fileVars, cmd, linked, todo, boundVars, historyVars>>

(* `record' and `save', up to the rename. *)
ReadPrevious ==
    /\ pc = "previous" /\ pc' = "check"
    /\ previous' = IF cmd.revise THEN case[cmd.run] ELSE NoCase
    /\ UNCHANGED <<fileVars, cmd, linked, todo, boundVars, historyVars>>

(* Where a refused record leaves the command: `import' goes on. *)
AfterRefusal == IF cmd.kind = "import" THEN "cases" ELSE "idle"

\* Fault: an existing case is not refused.
CheckNothing ==
    /\ pc = "check" /\ pc' = "write"
    /\ UNCHANGED <<fileVars, commandVars, boundVars, historyVars>>

(* A record that refers to secrets, and a case that exists, are refused. *)
CheckNew ==
    /\ pc = "check"
    /\ \/ pc' = AfterRefusal
       \/ pc' = "write" /\ (cmd.revise \/ case[cmd.run] = NoCase)
    /\ UNCHANGED <<fileVars, commandVars, boundVars, historyVars>>

\* Fault: the case file itself is written, not a temporary one.
WriteInPlace ==
    /\ pc = "write" /\ pc' = "replace"
    /\ tmp' = [tmp EXCEPT ![cmd.run] = cmd.outcome]
    /\ case' = [case EXCEPT ![cmd.run] = "partial"]
    /\ UNCHANGED <<index, dir, audit, torn, bundle, commandVars, boundVars, historyVars>>

WriteTmp ==
    /\ pc = "write" /\ pc' = "replace"
    /\ tmp' = [tmp EXCEPT ![cmd.run] = cmd.outcome]
    /\ UNCHANGED <<case, index, dir, audit, torn, bundle, commandVars, boundVars, historyVars>>

Replace ==
    /\ pc = "replace" /\ pc' = "index"
    /\ case' = [case EXCEPT ![cmd.run] = tmp[cmd.run]]
    /\ tmp' = [tmp EXCEPT ![cmd.run] = NoCase]
    /\ stored' = [stored EXCEPT ![cmd.run] = Append(@, cmd.outcome)]
    /\ replaced' = [replaced EXCEPT ![cmd.run] = @ \/ case[cmd.run] # NoCase]
    /\ UNCHANGED <<index, dir, audit, torn, bundle, commandVars, boundVars, stale>>

RebuildIndex ==
    /\ pc = "index"
    /\ Reindex
    /\ stale' = FALSE
    /\ pc' = IF linked THEN "append" ELSE IF cmd.kind = "import" THEN "cases" ELSE "idle"
    /\ UNCHANGED <<case, tmp, dir, audit, torn, bundle, commandVars, boundVars, stored, replaced>>

CaseEvent == [kind |-> IF previous = NoCase THEN "case_record" ELSE "case_revised",
              prev |-> previous, outcome |-> cmd.outcome, at |-> Len(stored[cmd.run])]

AppendAudit ==
    /\ pc = "append" /\ pc' = "idle"
    /\ audit' = [audit EXCEPT ![cmd.run] = Append(@, CaseEvent)]
    /\ UNCHANGED <<case, tmp, index, dir, torn, bundle, commandVars, boundVars, historyVars>>

-----------------------------------------------------------------------------
(* The commands. *)

Given(kind, r, outcome, revise, drop) ==
    /\ pc = "idle" /\ commands < MaxCommands /\ commands' = commands + 1
    /\ cmd' = [kind |-> kind, run |-> r, outcome |-> outcome, revise |-> revise, drop |-> drop]
    /\ UNCHANGED <<fileVars, previous, crashes, historyVars>>

(* `_label_run': a run that has a case wants --revise or the operator's     *)
(* confirmation, which comes to the same.  A case is made up for a run     *)
(* without a seed.                                                         *)
Label(r, outcome, revise) ==
    /\ dir[r] # "absent"
    /\ Given("label", r, outcome, revise, FALSE)
    /\ pc' = IF case[r] = NoCase \/ revise THEN "open" ELSE "idle"
    /\ UNCHANGED <<linked, todo>>

(* `run_report': wants the seed, and leaves the rest to the store. *)
Report(r, outcome, revise) ==
    /\ dir[r] = "seeded"
    /\ Given("report", r, outcome, revise, FALSE)
    /\ pc' = "open"
    /\ UNCHANGED <<linked, todo>>

(* The audit log of the run is opened; when its tail is torn, `label' does *)
(* without one and `report' ends with the error.                           *)
OpenAudit ==
    /\ pc = "open"
    /\ linked' = ~torn[cmd.run]
    /\ pc' = IF torn[cmd.run] /\ cmd.kind = "report" THEN "idle" ELSE "previous"
    /\ UNCHANGED <<fileVars, cmd, previous, todo, boundVars, historyVars>>

(* `export_bundle': the cases `all' lists, and every run directory. *)
Export ==
    /\ pc = "idle" /\ commands < MaxCommands /\ commands' = commands + 1
    /\ bundle' = [case |-> [r \in Runs |-> IF r \in Listed THEN case[r] ELSE NoCase],
                  dir |-> dir,
                  audit |-> [r \in Runs |-> [i \in DOMAIN audit[r] |-> [audit[r][i] EXCEPT !.at = 0]]]]
    /\ UNCHANGED <<case, tmp, index, dir, audit, torn, pc, commandVars, crashes, historyVars>>

(* `import_bundle': case by case through the store, without an audit log, *)
(* then the run directories, each with the audit log it has in the bundle. *)
Import(revise) ==
    /\ Given("import", cmd.run, cmd.outcome, revise, FALSE)
    /\ pc' = "cases"
    /\ linked' = FALSE
    /\ todo' = {r \in Runs : bundle.case[r] # NoCase}

ImportCase ==
    /\ pc = "cases"
    /\ \E r \in todo :
          /\ todo' = todo \ {r}
          /\ cmd' = [cmd EXCEPT !.run = r, !.outcome = bundle.case[r]]
          /\ pc' = IF case[r] # NoCase /\ ~cmd.revise THEN "cases" ELSE "previous"
    /\ UNCHANGED <<fileVars, previous, linked, boundVars, historyVars>>

ImportedCases ==
    /\ pc = "cases" /\ todo = {}
    /\ pc' = "dirs"
    /\ todo' = {r \in Runs : bundle.dir[r] # "absent"}
    /\ UNCHANGED <<fileVars, cmd, previous, linked, boundVars, historyVars>>

SkipDir ==
    /\ pc = "dirs"
    /\ \E r \in todo : dir[r] # "absent" /\ ~cmd.revise /\ todo' = todo \ {r}
    /\ UNCHANGED <<fileVars, pc, cmd, previous, linked, boundVars, historyVars>>

(* The files of a directory are written one by one, by name: the audit log *)
(* first, the case seed after it.                                          *)
ImportDir ==
    /\ pc = "dirs" /\ pc' = "files"
    /\ \E r \in todo :
          /\ dir[r] = "absent" \/ cmd.revise
          /\ todo' = todo \ {r} /\ cmd' = [cmd EXCEPT !.run = r]
          /\ dir' = [dir EXCEPT ![r] = IF @ = "absent" THEN "bare" ELSE @]
          /\ audit' = [audit EXCEPT ![r] = bundle.audit[r]]
          /\ torn' = [torn EXCEPT ![r] = FALSE]
    /\ UNCHANGED <<case, tmp, index, bundle, previous, linked, boundVars, historyVars>>

(* A seed that is not in the bundle stays where it was. *)
ImportFiles ==
    /\ pc = "files" /\ pc' = "dirs"
    /\ dir' = [dir EXCEPT ![cmd.run] = IF bundle.dir[cmd.run] = "seeded" THEN "seeded" ELSE @]
    /\ UNCHANGED <<case, tmp, index, audit, torn, bundle, commandVars, boundVars, historyVars>>

ImportDone ==
    /\ pc = "dirs" /\ todo = {}
    /\ pc' = "idle"
    /\ UNCHANGED <<fileVars, commandVars, boundVars, historyVars>>

(* `_delete_run' of the menu drops the case first, `_remove_run' of `harness *)
(* runs delete' the run first.                                              *)
Delete(r, drop) ==
    /\ dir[r] # "absent"
    /\ Given("delete", r, cmd.outcome, FALSE, drop)
    /\ pc' = IF drop THEN "unlink" ELSE "rmtree"
    /\ UNCHANGED <<linked, todo>>

Remove(r, drop) ==
    /\ dir[r] # "absent"
    /\ Given("remove", r, cmd.outcome, FALSE, drop)
    /\ pc' = "rmtree"
    /\ UNCHANGED <<linked, todo>>

AfterUnlink == IF cmd.kind = "delete" THEN "rmtree" ELSE "idle"

Unlink ==
    /\ pc = "unlink"
    /\ case' = [case EXCEPT ![cmd.run] = NoCase]
    /\ replaced' = [replaced EXCEPT ![cmd.run] = FALSE]
    /\ pc' = IF case[cmd.run] = NoCase THEN AfterUnlink ELSE "reindex"
    /\ UNCHANGED <<tmp, index, dir, audit, torn, bundle, commandVars, boundVars, stored, stale>>

RebuildAfterUnlink ==
    /\ pc = "reindex"
    /\ Reindex
    /\ stale' = FALSE
    /\ pc' = AfterUnlink
    /\ UNCHANGED <<case, tmp, dir, audit, torn, bundle, commandVars, boundVars, stored, replaced>>

RemoveDir ==
    /\ pc = "rmtree"
    /\ dir' = [dir EXCEPT ![cmd.run] = "absent"]
    /\ audit' = [audit EXCEPT ![cmd.run] = <<>>]
    /\ torn' = [torn EXCEPT ![cmd.run] = FALSE]
    /\ pc' = IF cmd.kind = "remove" /\ cmd.drop THEN "unlink" ELSE "idle"
    /\ UNCHANGED <<case, tmp, index, bundle, commandVars, boundVars, historyVars>>

(* The program dies, inside the write of the temporary file or of the audit *)
(* line where it is at one.                                                *)
Crash ==
    /\ pc # "idle" /\ crashes < MaxCrashes
    /\ pc' = "idle" /\ crashes' = crashes + 1
    /\ tmp' = IF pc = "write" THEN [tmp EXCEPT ![cmd.run] = "partial"] ELSE tmp
    /\ torn' = IF pc = "append" THEN [torn EXCEPT ![cmd.run] = TRUE] ELSE torn
    /\ stale' = (stale \/ pc \in {"index", "reindex"})
    /\ UNCHANGED <<case, index, dir, audit, bundle, commandVars, commands, stored, replaced>>

Finished == pc = "idle" /\ commands = MaxCommands /\ UNCHANGED vars

Next ==
    \/ ReadPrevious \/ CheckNew \/ WriteTmp \/ Replace \/ RebuildIndex \/ AppendAudit
    \/ \E r \in Runs, outcome \in Outcomes, revise \in BOOLEAN :
          Label(r, outcome, revise) \/ Report(r, outcome, revise)
    \/ OpenAudit
    \/ Export
    \/ \E revise \in BOOLEAN : Import(revise)
    \/ ImportCase \/ ImportedCases \/ SkipDir \/ ImportDir \/ ImportFiles \/ ImportDone
    \/ \E r \in Runs, drop \in BOOLEAN : Delete(r, drop) \/ Remove(r, drop)
    \/ Unlink \/ RebuildAfterUnlink \/ RemoveDir
    \/ Crash
    \/ Finished

Spec == Init /\ [][Next]_vars

-----------------------------------------------------------------------------

TypeOK ==
    /\ case \in [Runs -> Files] /\ tmp \in [Runs -> Files]
    /\ index = NoIndex \/ index \in [Runs -> Files]
    /\ dir \in [Runs -> Dirs] /\ audit \in [Runs -> Seq(Events)] /\ torn \in [Runs -> BOOLEAN]
    /\ bundle \in Bundles
    /\ pc \in Points /\ cmd \in Commands
    /\ previous \in Files /\ linked \in BOOLEAN /\ todo \subseteq Runs
    /\ commands \in 0..MaxCommands /\ crashes \in 0..MaxCrashes
    /\ stored \in [Runs -> Seq(Outcomes)] /\ replaced \in [Runs -> BOOLEAN] /\ stale \in BOOLEAN

(* "An existing file is NEVER overwritten (WORM invariant)": a stored       *)
(* outcome changes only by a command that revises it, and goes only by one *)
(* that drops it.                                                          *)
StoredOnce ==
    [][\A r \in Stored : case'[r] # case[r] =>
          r = cmd.run /\ (IF case'[r] = NoCase THEN cmd.drop ELSE cmd.revise)]_vars

(* A case file is whole whenever the program dies: label, the index and    *)
(* export read it back without a check.                                    *)
CasesAreWhole == \A r \in Runs : case[r] # "partial"

(* Every event of a run's own audit log tells an outcome that was saved,   *)
(* in the order they were saved, and a revision the one it took the place  *)
(* of, whatever died in between.                                           *)
AuditRetellsHistory ==
    \A r \in Runs : \A i \in DOMAIN audit[r] :
        LET e == audit[r][i] IN
        e.at > 0 =>
            /\ e.at <= Len(stored[r]) /\ stored[r][e.at] = e.outcome
            /\ e.kind = "case_revised" => e.at > 1 /\ e.prev = stored[r][e.at - 1]
            /\ \A j \in 1..i-1 : audit[r][j].at < e.at

(* What is written to a run's audit log stays, unless the run is deleted   *)
(* or replaced by a revising import.                                       *)
AuditIsAppendOnly ==
    [][\A r \in Runs : audit'[r] # audit[r] =>
          \/ Len(audit'[r]) = Len(audit[r]) + 1 /\ SubSeq(audit'[r], 1, Len(audit[r])) = audit[r]
          \/ pc = "rmtree"
          \/ pc = "dirs" /\ (cmd.revise \/ dir[r] = "absent")]_vars

(* `all' lists every case between two commands; what a crash left out is   *)
(* listed after the next save or deletion.                                 *)
ListsWhatIsStored == pc = "idle" /\ ~stale => Listed = Stored

(* "routes an operator-intended replacement through                       *)
(* CaseStore.record(revise=True) so the change is audited as              *)
(* case_revised": the audit log of a run whose case was replaced tells so. *)
RevisionIsAudited ==
    pc = "idle" => \A r \in Runs :
        replaced[r] /\ dir[r] # "absent" =>
            \E i \in DOMAIN audit[r] :
                audit[r][i].kind = "case_revised" /\ audit[r][i].outcome = case[r]
=============================================================================
