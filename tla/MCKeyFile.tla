----------------------------- MODULE MCKeyFile -----------------------------
(***************************************************************************)
(* Small instances for TLC: one row from before encryption and one that a   *)
(* first session may have sealed, one typed password, three keys.           *)
(***************************************************************************)
EXTENDS KeyFile

CONSTANTS k1, k2, k3

MCKeys == {k1, k2, k3}
MCPlainTexts == {"", "old", "new"}
MCEmpty == Plain("")
MCTyped == {Plain("new")}
MCIds == {1, 2}

\* A database from before encryption, without a key file or with a bad one.
MCNoFile == {Absent, Invalid}
MCPlainRows == {[id \in MCIds |-> Plain("old")]}

\* First run of two instances on a new database.
MCFirstRun == {Absent}
=============================================================================
