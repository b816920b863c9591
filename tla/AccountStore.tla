---------------------------- MODULE AccountStore ----------------------------
(***************************************************************************)
(* The ACCOUNTS table and the two front ends that read and extend it:       *)
(* gui/vsWindowsUi (AccountStore.cpp, CreateAccountDialog.cpp, the login    *)
(* page) and gui/qtCreatorUi (mainwindow.cpp, create_account.cpp).  Several *)
(* clients may share one database.  Creating an account is two statements,  *)
(* a check and an INSERT, and another client may come between them.         *)
(*                                                                         *)
(* Typed usernames may carry blanks around them, which Trimmed removes.     *)
(***************************************************************************)
EXTENDS Integers, FiniteSets

CONSTANTS
    Clients,
    WindowsClients,   \* the others run the Qt front end
    TypedNames,       \* what is typed as a username
    Trimmed,          \* typed username -> the username without blanks around it
    Secrets,          \* what is typed as a password
    Empty,            \* the empty text: a username and a password
    InitialAccounts,  \* the table, at first
    MaxSubmits,       \* bound: submissions of the Create Account dialog
    MaxLogins         \* bound: logins tried

ASSUME AccountStoreAssumption ==
    /\ WindowsClients \subseteq Clients
    /\ Empty \in TypedNames \cap Secrets
    /\ Trimmed \in [TypedNames -> TypedNames]
    /\ \A typed \in TypedNames : Trimmed[Trimmed[typed]] = Trimmed[typed]
    /\ IsFiniteSet(InitialAccounts)
    /\ \A row \in InitialAccounts : row.username # Empty /\ row.password \in Secrets \ {Empty}
    /\ {row.userid : row \in InitialAccounts} = 1 .. Cardinality(InitialAccounts)
    /\ MaxSubmits \in Nat /\ MaxLogins \in Nat

VARIABLES
    accounts,    \* the rows: [userid, username, password]
    sequence,    \* sqlite_sequence: the largest USERID ever given out
    page,        \* what each client shows
    form,        \* the username and password it is creating an account with
    told,        \* what the client last told its user, and about what
    login_form,  \* the login page: its username
    session,     \* the USERID of the session, NoSession without one
    submits, logins

vars == <<accounts, sequence, page, form, told, login_form, session, submits, logins>>

NoSession == 0
Nothing == [username |-> Empty, password |-> Empty]
Usernames == {row.username : row \in accounts}

------------------------------------------------------------------------------
Init ==
    /\ accounts = InitialAccounts
    /\ sequence = Cardinality(InitialAccounts)
    /\ page = [c \in Clients |-> "login"]
    /\ form = [c \in Clients |-> Nothing]
    /\ told = [c \in Clients |-> [what |-> "nothing", about |-> Nothing]]
    /\ login_form = [c \in Clients |-> Empty]
    /\ session = [c \in Clients |-> NoSession]
    /\ submits = 0 /\ logins = 0

Shows(c, from, to) == page[c] = from /\ page' = [page EXCEPT ![c] = to]
Tells(c, what, about) == told' = [told EXCEPT ![c] = [what |-> what, about |-> about]]

OpenCreateAccount(c) ==
    /\ Shows(c, "login", "create account")
    /\ UNCHANGED <<accounts, sequence, form, told, login_form, session, submits, logins>>

CancelCreateAccount(c) ==
    /\ Shows(c, "create account", "login")
    /\ UNCHANGED <<accounts, sequence, form, told, login_form, session, submits, logins>>

\* The submit button with something missing, or two passwords that differ.
RejectInput(c, typed, secret, confirm) ==
    /\ page[c] = "create account"
    /\ Trimmed[typed] = Empty \/ secret = Empty \/ secret # confirm
    /\ Tells(c, "rejected", Nothing)
    /\ UNCHANGED <<accounts, sequence, page, form, login_form, session, submits, logins>>

\* (fault) only what was typed is tested, not what is left of it
CheckUsernameTyped(c, typed, secret) ==
    LET wanted == [username |-> Trimmed[typed], password |-> secret]
    IN  /\ Shows(c, "create account", "insert")
        /\ submits < MaxSubmits /\ submits' = submits + 1
        /\ typed # Empty /\ secret # Empty
        /\ wanted.username \notin Usernames
        /\ form' = [form EXCEPT ![c] = wanted]
        /\ UNCHANGED <<accounts, sequence, told, login_form, session, logins>>

\* The first statement: the username is free, ...
CheckUsername(c, typed, secret) ==
    LET wanted == [username |-> Trimmed[typed], password |-> secret]
    IN  /\ Shows(c, "create account", "insert")
        /\ submits < MaxSubmits /\ submits' = submits + 1
        /\ wanted.username # Empty /\ secret # Empty
        /\ wanted.username \notin Usernames
        /\ form' = [form EXCEPT ![c] = wanted]
        /\ UNCHANGED <<accounts, sequence, told, login_form, session, logins>>

\* ... or taken, or the statement fails.
CheckUsernameFails(c, typed, secret) ==
    LET wanted == [username |-> Trimmed[typed], password |-> secret]
    IN  /\ page[c] = "create account"
        /\ submits < MaxSubmits /\ submits' = submits + 1
        /\ wanted.username # Empty /\ secret # Empty
        /\ \/ wanted.username \in Usernames /\ Tells(c, "taken", wanted)
           \/ Tells(c, "error", wanted)
        /\ UNCHANGED <<accounts, sequence, page, form, login_form, session, logins>>

\* (fault) INSERT OR REPLACE
InsertAccountReplacing(c) ==
    /\ Shows(c, "insert", "login")
    /\ sequence' = sequence + 1
    /\ accounts' = {row \in accounts : row.username # form[c].username}
          \cup {[userid |-> sequence', username |-> form[c].username, password |-> form[c].password]}
    /\ Tells(c, "created", form[c])
    /\ login_form' = [login_form EXCEPT ![c] = form[c].username]
    /\ UNCHANGED <<form, session, submits, logins>>

\* (fault) INSERT OR IGNORE, which succeeds without a new row
InsertAccountIgnoring(c) ==
    /\ Shows(c, "insert", "login")
    /\ sequence' = sequence + 1
    /\ accounts' = IF form[c].username \in Usernames THEN accounts ELSE accounts \cup
          {[userid |-> sequence', username |-> form[c].username, password |-> form[c].password]}
    /\ Tells(c, "created", form[c])
    /\ login_form' = [login_form EXCEPT ![c] = form[c].username]
    /\ UNCHANGED <<form, session, submits, logins>>

\* The second statement succeeds: the dialog closes, and the login page is ready.
InsertAccount(c) ==
    /\ Shows(c, "insert", "login")
    /\ form[c].username \notin Usernames
    /\ sequence' = sequence + 1
    /\ accounts' = accounts \cup
          {[userid |-> sequence', username |-> form[c].username, password |-> form[c].password]}
    /\ Tells(c, "created", form[c])
    /\ login_form' = [login_form EXCEPT ![c] = form[c].username]
    /\ UNCHANGED <<form, session, submits, logins>>

\* Violating UNIQUE, or failing otherwise, it leaves the table as it is.  Only the
\* Windows front end can tell the one from the other.
InsertAccountFails(c) ==
    /\ Shows(c, "insert", "create account")
    /\ \/ /\ c \in WindowsClients /\ form[c].username \in Usernames
          /\ Tells(c, "taken", form[c])
       \/ Tells(c, "error", form[c])
    /\ UNCHANGED <<accounts, sequence, form, login_form, session, submits, logins>>

------------------------------------------------------------------------------
\* The login page.

TypeUsername(c, typed) ==
    /\ page[c] = "login"
    /\ login_form' = [login_form EXCEPT ![c] = typed]
    /\ UNCHANGED <<accounts, sequence, page, form, told, session, submits, logins>>

\* Only the Windows front end trims.
LookedUp(c) == IF c \in WindowsClients THEN Trimmed[login_form[c]] ELSE login_form[c]

Matching(c, secret) ==
    {row \in accounts : row.username = LookedUp(c) /\ row.password = secret}

TryLogin(c) ==
    /\ page[c] = "login"
    /\ logins < MaxLogins /\ logins' = logins + 1
    /\ UNCHANGED <<accounts, sequence, form, login_form, submits>>

\* The Windows front end asks for what is missing before it opens the database.
LoginIncomplete(c, secret) ==
    /\ TryLogin(c)
    /\ c \in WindowsClients /\ (LookedUp(c) = Empty \/ secret = Empty)
    /\ Tells(c, "incomplete", Nothing)
    /\ UNCHANGED <<page, session>>

Complete(c, secret) == c \in WindowsClients => LookedUp(c) # Empty /\ secret # Empty

LoginSucceeds(c, secret) ==
    /\ TryLogin(c) /\ Complete(c, secret)
    /\ \E row \in Matching(c, secret) : session' = [session EXCEPT ![c] = row.userid]
    /\ Tells(c, "welcome", [username |-> LookedUp(c), password |-> secret])
    /\ page' = [page EXCEPT ![c] = "session"]

LoginFails(c, secret) ==
    /\ TryLogin(c) /\ Complete(c, secret)
    /\ Matching(c, secret) = {}
    /\ Tells(c, "invalid", [username |-> LookedUp(c), password |-> secret])
    /\ UNCHANGED <<page, session>>

\* The query fails, or the passwords cannot be opened.  A query that fails ends
\* the Qt front end.
LoginError(c, secret) ==
    /\ TryLogin(c) /\ Complete(c, secret)
    /\ Tells(c, "error", Nothing)
    /\ \/ UNCHANGED page
       \/ c \notin WindowsClients /\ page' = [page EXCEPT ![c] = "closed"]
    /\ UNCHANGED session

Logout(c) ==
    /\ Shows(c, "session", "login")
    /\ session' = [session EXCEPT ![c] = NoSession]
    /\ login_form' = [login_form EXCEPT ![c] = Empty]
    /\ UNCHANGED <<accounts, sequence, form, told, submits, logins>>

\* The client is closed or killed, in the middle of a creation as well, and the
\* application is started again.
Restart(c) ==
    /\ page' = [page EXCEPT ![c] = "login"]
    /\ form' = [form EXCEPT ![c] = Nothing]
    /\ told' = [told EXCEPT ![c] = [what |-> "nothing", about |-> Nothing]]
    /\ login_form' = [login_form EXCEPT ![c] = Empty]
    /\ session' = [session EXCEPT ![c] = NoSession]
    /\ UNCHANGED <<accounts, sequence, submits, logins>>

------------------------------------------------------------------------------
CreateAccount(c) ==
    \/ OpenCreateAccount(c) \/ CancelCreateAccount(c)
    \/ \E typed \in TypedNames, secret, confirm \in Secrets : RejectInput(c, typed, secret, confirm)
    \/ \E typed \in TypedNames, secret \in Secrets :
          CheckUsername(c, typed, secret) \/ CheckUsernameFails(c, typed, secret)
    \/ InsertAccount(c) \/ InsertAccountFails(c)

AuthenticateUser(c) ==
    \/ \E typed \in TypedNames : TypeUsername(c, typed)
    \/ \E secret \in Secrets :
          \/ LoginIncomplete(c, secret) \/ LoginSucceeds(c, secret)
          \/ LoginFails(c, secret) \/ LoginError(c, secret)

Next == \E c \in Clients : CreateAccount(c) \/ AuthenticateUser(c) \/ Logout(c) \/ Restart(c)

Spec == Init /\ [][Next]_vars

------------------------------------------------------------------------------
\* Properties.

\* Every variable keeps its shape, and nobody has an empty username or password.
TypeOK ==
    /\ \A row \in accounts :
          /\ row.userid \in 1 .. sequence
          /\ row.username # Empty /\ row.password \in Secrets \ {Empty}
    /\ \A c \in Clients :
          /\ page[c] \in {"login", "create account", "insert", "session", "closed"}
          /\ page[c] = "session" <=> session[c] # NoSession
          /\ page[c] = "insert" => form[c].username # Empty /\ form[c].password # Empty

\* AccountStore.h:29-30, "Fails with UsernameTaken if the username already exists":
\* the user who is told that the account was created owns it, and the one who is
\* told that the name is taken does find it taken, also when the name was taken
\* between the check and the INSERT (AccountStore.cpp:139-141).
ToldTheTruth ==
    \A c \in Clients :
        /\ told[c].what = "created" =>
              \E row \in accounts : row.username = told[c].about.username
                                    /\ row.password = told[c].about.password
        /\ told[c].what = "taken" => told[c].about.username \in Usernames

\* Whoever was just told that the account was created, and types its password on
\* the login page as it was left, is not turned away.
CreatedCanLogIn ==
    [][\A c \in Clients :
          told[c].what = "created" /\ login_form[c] = told[c].about.username =>
              ~(told'[c].what = "invalid" /\ told'[c].about.password = told[c].about.password)]_vars
=============================================================================
