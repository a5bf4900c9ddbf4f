----------------------------- MODULE MCProgress ------------------------------
(***************************************************************************)
(* One console run with documents and questions.  Three servers on two     *)
(* threads: a and b share a vault path (as two racks behind one rack       *)
(* manager's identity do), a and c one label (a host named once by name    *)
(* and once by alias), c has a path of its own.  One connection.           *)
(***************************************************************************)
EXTENDS Progress, TLC

CONSTANTS a, b, c, h1, h2, p1, p2

MCOptions == {[console |-> TRUE, docs |-> TRUE, hint |-> FALSE, ask |-> TRUE,
               logs |-> FALSE, forward |-> FALSE]}

MCTokens == <<a, b, c>>
MCLabelOf == a :> "rack1" @@ b :> "rack2" @@ c :> "rack1"
MCHostOf == a :> h1 @@ b :> h2 @@ c :> h1
MCPathOf == a :> p1 @@ b :> p1 @@ c :> p2
MCStored == {p2}
=============================================================================
