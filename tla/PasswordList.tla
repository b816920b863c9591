---------------------------- MODULE PasswordList ----------------------------
(***************************************************************************)
(* What the application promises its user: one list of passwords on which   *)
(* every submitted operation takes effect once, at once, in the order of    *)
(* submission.  UserAccount (maps, indexes, ciphertexts) is shown to        *)
(* implement it.                                                            *)
(***************************************************************************)
EXTENDS Passwords

VARIABLE account

Init == IsList(account)

\* An operation on an id that is not in the list changes nothing.
Next == \E op \in Operations(DOMAIN account.entries) : account' = Applied(account, op)

Spec == Init /\ [][Next]_account
=============================================================================
