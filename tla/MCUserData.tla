----------------------------- MODULE MCUserData -----------------------------
(***************************************************************************)
(* Two users for TLC, each with one or two texts of their own, and a table  *)
(* that already holds a row of each; one of the rows is still plain text.   *)
(***************************************************************************)
EXTENDS UserData, TLC

MCTextsOf == [u \in Users |-> {<<u, 1>>, <<u, 2>>}]

Row(u, sealed) == [userid |-> u, text |-> <<u, 1>>, sealed |-> sealed]

MCInitialTables ==
    {11 :> Row(first, TRUE) @@ 12 :> Row(second, FALSE) :
        <<first, second>> \in {pair \in Users \X Users : pair[1] # pair[2]}}
=============================================================================
