-------------------------- MODULE MCDisplayContent --------------------------
(***************************************************************************)
(* A small session for TLC: one searchable field, and one entry in the      *)
(* table at login.  A text with a single quote cannot be stored, one with   *)
(* two in a row is stored with one.                                         *)
(***************************************************************************)
EXTENDS DisplayContent, TLC

MCFields == {"username"}
MCTexts == {"", "a", "b'", "c''", "c'"}
MCSubmitted == {[username |-> text] : text \in {"a", "c''"}}
MCRefusedToo == {[username |-> text] : text \in {"a", "b'"}}
MCInitialLists == {[entries |-> 1 :> [username |-> "a"], last_id |-> 1]}
\* An entry that a modification may make one that is stored or one that is not.
MCModifiable == {[entries |-> 1 :> [username |-> "c''"], last_id |-> 1]}

MCTerms == {"", "a"}
MCUnstorable == {[username |-> text] : text \in {"b'", "c'"}}
MCStoredAs ==
    [password \in [MCFields -> MCTexts] |->
        IF password.username = "c''" THEN [username |-> "c'"] ELSE password]
MCMatches == [term \in MCTerms |-> {term}]
=============================================================================
