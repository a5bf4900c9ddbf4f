------------------------------ MODULE MCMemory -------------------------------
(***************************************************************************)
(* Two session directories, interchangeable, and a target.  Two document   *)
(* names of two contents, added alone, both at once, or twice under one    *)
(* name.  Four labelled runs with one keyword in common, two of each of two *)
(* models that have one calibration file, over two subsystems and two bins. *)
(* A third model has its own, and no run.  Three runs to replay, two of    *)
(* them, interchangeable, in the holdout.                                  *)
(***************************************************************************)
EXTENDS Memory, Sequences, TLC

CONSTANTS n1, n2, v1, v2, r1, r2, r3, r4, e1, e2, e3, m1, m2, m3, f1, f2, mce, dimm, page

MCFamily == [p \in Platforms |-> Platforms]
MCUploads ==
    {<<f>> : f \in Names \X Versions}
        \cup {<< <<n1, v1>>, <<n2, v2>> >>, << <<n1, v1>>, <<n1, v2>> >>}

MCIdentOf == [r \in Labelled |-> IF r \in {r1, r3} THEN m1 ELSE m2]
MCSubOf == [r \in Labelled |-> IF r \in {r1, r2} THEN "memory" ELSE "cpu"]
MCBinOf == [r \in Labelled |-> IF r \in {r1, r3} THEN 1 ELSE 2]
MCKeywordsOf == [r \in Labelled |-> IF r = r1 THEN {mce, dimm} ELSE {mce}]
MCTable == [memory |-> {mce, dimm}, cpu |-> {mce}]
MCFileOf == [i \in Idents |-> IF i = m3 THEN f2 ELSE f1]

MCPages == {<<page, 1>>, <<page, 2>>}
MCSections == {<<"symptom", 1>>}
MCGathered ==
    {[kind |-> "registers", known |-> 1, all |-> 3],
     [kind |-> "sensors", anomaly |-> TRUE, useful |-> 1, all |-> 2],
     [kind |-> "raw", useful |-> 0, all |-> 0]}

MCHeldOut == [f \in Fractions |-> IF f = "quarter" THEN {e1, e2} ELSE Runs]

Interchangeable == Permutations(Dirs) \cup Permutations({e1, e2})
=============================================================================
