---------------------------- MODULE MCWindowsUi ----------------------------
(***************************************************************************)
(* A user or two for TLC, each with two entries of a required field and a   *)
(* description, which is what a search looks at.                            *)
(***************************************************************************)
EXTENDS WindowsUi, TLC

Form(username, description) == [username |-> username, description |-> description]

MCFields == {"username", "description"}
MCTexts == {"", "a", "b", "'"}
MCSubmitted == {Form("a", "b"), Form("b", "a"), Form("", "a"), Form("a", "'")}
MCSavedAtFirst ==
    [u \in Users |-> [entries |-> 1 :> Form("a", "a") @@ 2 :> Form("b", "b"), last_id |-> 2]]
MCTerms == {"", " ", "a", "b"}
MCTrimmed == [typed \in MCTerms |-> IF typed = " " THEN "" ELSE typed]
MCMatches == [term \in MCTerms |-> {term}]
=============================================================================
