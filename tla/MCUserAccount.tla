--------------------------- MODULE MCUserAccount ---------------------------
(***************************************************************************)
(* A small account for TLC: two searchable fields over three texts, a table *)
(* that holds nothing, an entry from before encryption, or entries sealed   *)
(* with this key and with another one.                                      *)
(***************************************************************************)
EXTENDS UserAccount, TLC

CONSTANTS own, other    \* the key of the key file, and a lost one

MCKeys == {own, other}
MCPlainTexts == {"", "a", "b", "secret"}
MCEmpty == Plain("")
MCIndexedFields == {"username", "url"}
MCFields == MCIndexedFields \cup {"encryped_password"}

Entry(username, url, password) ==
    ("username" :> Plain(username)) @@ ("url" :> Plain(url))
        @@ ("encryped_password" :> password)

\* With and without a url, with the same and with different field values, and
\* (as a modification) with every combination of fields left alone.
MCSubmitted ==
    {Entry(u, l, Plain(p)) : u \in {"a", "b"}, l \in {"", "a"}, p \in {"secret"}}
        \cup {Entry("", "b", Plain("")), Entry("", "", Plain("b"))}

MCInitialUserData ==
    { <<>>,
      11 :> Entry("a", "", Plain("secret")),
      11 :> Entry("a", "", Encrypted(other, Plain("secret"))),
      (11 :> Entry("a", "b", Encrypted(own, Plain("secret"))))
        @@ (12 :> Entry("a", "", Encrypted(own, Plain("b")))) }

\* The same, sealed with a key that is not in the key file any more.
MCForeignUserData ==
    { (11 :> Entry("a", "b", Encrypted(own, Plain("secret"))))
        @@ (12 :> Entry("b", "", Encrypted(other, Plain("secret")))) }

MCNeedles == {"none", "a", "ab"}
MCMatches == [needle \in MCNeedles |->
    CASE needle = "a" -> {Plain("a")}
      [] needle = "ab" -> {Plain("a"), Plain("b")}
      [] OTHER -> {}]
=============================================================================
