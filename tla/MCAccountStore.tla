--------------------------- MODULE MCAccountStore ---------------------------
(***************************************************************************)
(* A Windows and a Qt client for TLC, which create and use the username a,  *)
(* also typed with a blank before it, on a table with another account.      *)
(***************************************************************************)
EXTENDS AccountStore

MCTypedNames == {"", " ", "a", " a"}
MCTrimmed ==
    [typed \in MCTypedNames |-> IF typed \in {"a", " a"} THEN "a" ELSE ""]
MCSecrets == {"", "x", "y"}
MCInitialAccounts == {[userid |-> 1, username |-> "b", password |-> "x"]}
=============================================================================
