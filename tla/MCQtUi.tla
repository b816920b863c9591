------------------------------- MODULE MCQtUi -------------------------------
(***************************************************************************)
(* Two users for TLC, with an entry each.  A password is a description,     *)
(* which is what a search looks at.                                         *)
(***************************************************************************)
EXTENDS QtUi, TLC

CONSTANTS u1, u2

Form(description) == [description |-> description]

MCFields == {"description"}
MCTexts == {"", "a", "b"}
MCBlank == Form("")
MCSubmitted == {Form(text) : text \in MCTexts}
MCSavedAtFirst ==
    11 :> [userid |-> u1, password |-> Form("a")] @@ 12 :> [userid |-> u2, password |-> Form("b")]
MCTerms == {"", " ", "a"}
MCTrimmed == [typed \in MCTerms |-> IF typed = " " THEN "" ELSE typed]
MCMatches == [term \in MCTerms |-> {term}]
=============================================================================
