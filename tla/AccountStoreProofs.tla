------------------------- MODULE AccountStoreProofs -------------------------
(***************************************************************************)
(* Theorems of AccountStore for every value of its constants.               *)
(***************************************************************************)
EXTENDS AccountStore, FiniteSetTheorems, TLAPS

------------------------------------------------------------------------------
\* The inductive invariant.

\* Every client has its page, form and session.
PerClient ==
    /\ DOMAIN page = Clients /\ DOMAIN form = Clients /\ DOMAIN told = Clients
    /\ DOMAIN login_form = Clients /\ DOMAIN session = Clients
    /\ sequence \in Nat

\* What is being created, or was reported as created, is a username without blanks
\* around it, so both front ends look up what they inserted.
NamesTrimmed ==
    \A c \in Clients :
        /\ page[c] = "insert" =>
              /\ form[c].username \in TypedNames
              /\ Trimmed[form[c].username] = form[c].username
              /\ form[c].password \in Secrets
        /\ told[c].what = "created" => Trimmed[told[c].about.username] = told[c].about.username

IInv == TypeOK /\ PerClient /\ NamesTrimmed /\ ToldTheTruth

\* The table a client finds was made by clients.
LEMMA InitIInv == Init => IInv
  <1> SUFFICES ASSUME Init PROVE IInv
    OBVIOUS
  <1>1. sequence \in Nat
    BY AccountStoreAssumption, FS_CardinalityType DEF Init
  <1>2. \A row \in accounts : row.userid \in 1 .. sequence
    BY AccountStoreAssumption DEF Init
  <1>3. TypeOK
    BY <1>2, AccountStoreAssumption DEF Init, TypeOK
  <1>4. PerClient /\ NamesTrimmed /\ ToldTheTruth
    BY <1>1 DEF Init, PerClient, NamesTrimmed, ToldTheTruth
  <1> QED
    BY <1>3, <1>4 DEF IInv

\* A step of client c that writes no row, and what it must leave true of c.
StepOf(c) ==
    /\ UNCHANGED <<accounts, sequence>>
    /\ DOMAIN page' = Clients /\ DOMAIN form' = Clients /\ DOMAIN told' = Clients
    /\ DOMAIN login_form' = Clients /\ DOMAIN session' = Clients
    /\ \A d \in Clients : d # c =>
          /\ page'[d] = page[d] /\ form'[d] = form[d] /\ told'[d] = told[d]
          /\ session'[d] = session[d]

PageFits(c) ==
    /\ page'[c] \in {"login", "create account", "insert", "session", "closed"}
    /\ page'[c] = "session" <=> session'[c] # NoSession
    /\ page'[c] = "insert" =>
          /\ form'[c].username \in TypedNames \ {Empty}
          /\ form'[c].password \in Secrets \ {Empty}
          /\ Trimmed[form'[c].username] = form'[c].username

AnswerFits(c) ==
    \/ told'[c] = told[c]
    \/ /\ told'[c].what # "created"
       /\ told'[c].what = "taken" => told'[c].about.username \in Usernames

\* The other clients and the rows answer for themselves.
LEMMA OtherClients ==
    ASSUME IInv, NEW c \in Clients, StepOf(c), PageFits(c), AnswerFits(c)
    PROVE  IInv'
  <1> USE DEF StepOf, PageFits, AnswerFits
  <1>1. TypeOK'
    BY DEF IInv, TypeOK
  <1>2. PerClient'
    BY DEF IInv, PerClient
  <1>3. NamesTrimmed'
    <2>1. ASSUME NEW d \in Clients, d # c
          PROVE  /\ page'[d] = "insert" =>
                       /\ form'[d].username \in TypedNames
                       /\ Trimmed[form'[d].username] = form'[d].username
                       /\ form'[d].password \in Secrets
                 /\ told'[d].what = "created" =>
                       Trimmed[told'[d].about.username] = told'[d].about.username
      <3>1. page'[d] = page[d] /\ form'[d] = form[d] /\ told'[d] = told[d]
        BY <2>1
      <3>2. /\ page[d] = "insert" =>
                  /\ form[d].username \in TypedNames
                  /\ Trimmed[form[d].username] = form[d].username
                  /\ form[d].password \in Secrets
            /\ told[d].what = "created" => Trimmed[told[d].about.username] = told[d].about.username
        BY DEF IInv, NamesTrimmed
      <3> QED
        BY <3>1, <3>2
    <2>2. told'[c].what = "created" => Trimmed[told'[c].about.username] = told'[c].about.username
      <3>1. told'[c] = told[c] \/ told'[c].what # "created"
        BY DEF AnswerFits
      <3>2. told[c].what = "created" => Trimmed[told[c].about.username] = told[c].about.username
        BY DEF IInv, NamesTrimmed
      <3> QED
        BY <3>1, <3>2
    <2> QED
      BY <2>1, <2>2 DEF NamesTrimmed
  <1>4. ToldTheTruth'
    <2>1. Usernames' = Usernames
      BY DEF Usernames
    <2>2. ASSUME NEW d \in Clients, told'[d] = told[d]
          PROVE  /\ told'[d].what = "created" =>
                       \E row \in accounts : row.username = told'[d].about.username
                                             /\ row.password = told'[d].about.password
                 /\ told'[d].what = "taken" => told'[d].about.username \in Usernames
      <3>1. /\ told[d].what = "created" =>
                  \E row \in accounts : row.username = told[d].about.username
                                        /\ row.password = told[d].about.password
            /\ told[d].what = "taken" => told[d].about.username \in Usernames
        BY DEF IInv, ToldTheTruth
      <3> QED
        BY <2>2, <3>1
    <2> QED
      BY <2>1, <2>2 DEF ToldTheTruth
  <1> QED
    BY <1>1, <1>2, <1>3, <1>4 DEF IInv

\* The INSERT adds a row that answers for itself, and no row goes.
LEMMA InsertIInv ==
    ASSUME IInv, NEW c \in Clients, InsertAccount(c)
    PROVE  IInv'
  <1> DEFINE new == [userid |-> sequence', username |-> form[c].username,
                     password |-> form[c].password]
  <1>1. /\ page[c] = "insert" /\ page' = [page EXCEPT ![c] = "login"]
        /\ sequence' = sequence + 1
        /\ accounts' = accounts \cup {new}
        /\ told' = [told EXCEPT ![c] = [what |-> "created", about |-> form[c]]]
        /\ login_form' = [login_form EXCEPT ![c] = form[c].username]
        /\ UNCHANGED <<form, session>>
    BY DEF InsertAccount, Shows, Tells
  <1>2. /\ form[c].username # Empty /\ form[c].password \in Secrets \ {Empty}
        /\ Trimmed[form[c].username] = form[c].username
    BY <1>1 DEF IInv, TypeOK, NamesTrimmed
  <1>3. sequence \in Nat
    BY DEF IInv, PerClient
  <1>4. TypeOK'
    <2>1. ASSUME NEW row \in accounts'
          PROVE  /\ row.userid \in 1 .. sequence'
                 /\ row.username # Empty /\ row.password \in Secrets \ {Empty}
      <3>1. CASE row \in accounts
        <4>1. /\ row.userid \in 1 .. sequence
              /\ row.username # Empty /\ row.password \in Secrets \ {Empty}
          BY <3>1 DEF IInv, TypeOK
        <4> QED
          BY <1>1, <1>3, <4>1
      <3>2. CASE row = new
        BY <1>1, <1>2, <1>3, <3>2
      <3> QED
        BY <1>1, <3>1, <3>2
    <2>2. session[c] = NoSession
      BY <1>1 DEF IInv, TypeOK
    <2>3. DOMAIN page = Clients
      BY DEF IInv, PerClient
    <2> QED
      BY <1>1, <2>1, <2>2, <2>3 DEF IInv, TypeOK
  <1>5. PerClient'
    BY <1>1, <1>3 DEF IInv, PerClient
  <1>6. DOMAIN told = Clients /\ DOMAIN page = Clients
    BY DEF IInv, PerClient
  <1>7. NamesTrimmed'
    BY <1>1, <1>2, <1>6 DEF IInv, NamesTrimmed
  <1>8. ToldTheTruth'
    <2>1. new \in accounts' /\ accounts \subseteq accounts' /\ Usernames \subseteq Usernames'
      BY <1>1 DEF Usernames
    <2>2. ASSUME NEW d \in Clients, d # c
          PROVE  /\ told'[d].what = "created" =>
                       \E row \in accounts' : row.username = told'[d].about.username
                                              /\ row.password = told'[d].about.password
                 /\ told'[d].what = "taken" => told'[d].about.username \in Usernames'
      BY <1>1, <1>6, <2>1, <2>2 DEF IInv, ToldTheTruth
    <2>3. /\ told'[c].what = "created" /\ told'[c].about = form[c]
          /\ new.username = form[c].username /\ new.password = form[c].password
      BY <1>1, <1>6
    <2> QED
      BY <2>1, <2>2, <2>3 DEF ToldTheTruth
  <1> QED
    BY <1>4, <1>5, <1>7, <1>8 DEF IInv

\* Creating an account, from opening the page to the answer.
LEMMA CreateIInv ==
    ASSUME IInv, NEW c \in Clients, CreateAccount(c)
    PROVE  IInv'
  <1> USE DEF Shows, Tells, StepOf, PageFits, AnswerFits
  <1>0. /\ DOMAIN page = Clients /\ DOMAIN form = Clients /\ DOMAIN told = Clients
        /\ DOMAIN login_form = Clients /\ DOMAIN session = Clients
        /\ page[c] \in {"login", "create account", "insert", "session", "closed"}
        /\ page[c] = "session" <=> session[c] # NoSession
        /\ page[c] = "insert" =>
              /\ form[c].username \in TypedNames \ {Empty}
              /\ form[c].password \in Secrets \ {Empty}
              /\ Trimmed[form[c].username] = form[c].username
    BY DEF IInv, TypeOK, PerClient, NamesTrimmed
  <1>1. CASE OpenCreateAccount(c) \/ CancelCreateAccount(c)
    BY <1>0, <1>1, OtherClients DEF OpenCreateAccount, CancelCreateAccount
  <1>2. ASSUME NEW typed \in TypedNames, NEW secret \in Secrets, NEW confirm \in Secrets,
               RejectInput(c, typed, secret, confirm)
        PROVE  IInv'
    BY <1>0, <1>2, OtherClients DEF RejectInput
  <1>3. ASSUME NEW typed \in TypedNames, NEW secret \in Secrets, CheckUsername(c, typed, secret)
        PROVE  IInv'
    <2>1. Trimmed[typed] \in TypedNames /\ Trimmed[Trimmed[typed]] = Trimmed[typed]
      BY AccountStoreAssumption
    <2> QED
      BY <1>0, <1>3, <2>1, OtherClients DEF CheckUsername
  <1>4. ASSUME NEW typed \in TypedNames, NEW secret \in Secrets, CheckUsernameFails(c, typed, secret)
        PROVE  IInv'
    <2> DEFINE wanted == [username |-> Trimmed[typed], password |-> secret]
    <2>1. \/ told' = [told EXCEPT ![c] = [what |-> "taken", about |-> wanted]]
             /\ wanted.username \in Usernames
          \/ told' = [told EXCEPT ![c] = [what |-> "error", about |-> wanted]]
      BY <1>4 DEF CheckUsernameFails
    <2>2. UNCHANGED <<accounts, sequence, page, form, login_form, session>>
      BY <1>4 DEF CheckUsernameFails
    <2> HIDE DEF wanted
    <2>3. \/ told'[c] = [what |-> "taken", about |-> wanted] /\ wanted.username \in Usernames
          \/ told'[c] = [what |-> "error", about |-> wanted]
      BY <1>0, <2>1
    <2>4. StepOf(c) /\ PageFits(c)
      BY <1>0, <2>1, <2>2
    <2>5. AnswerFits(c)
      BY <2>3
    <2> QED
      BY <2>4, <2>5, OtherClients
  <1>5. CASE InsertAccount(c)
    BY <1>5, InsertIInv
  <1>6. CASE InsertAccountFails(c)
    <2>1. \/ told' = [told EXCEPT ![c] = [what |-> "taken", about |-> form[c]]]
             /\ form[c].username \in Usernames
          \/ told' = [told EXCEPT ![c] = [what |-> "error", about |-> form[c]]]
      BY <1>6 DEF InsertAccountFails
    <2>2. /\ page[c] = "insert" /\ page' = [page EXCEPT ![c] = "create account"]
          /\ UNCHANGED <<accounts, sequence, form, login_form, session>>
      BY <1>6 DEF InsertAccountFails
    <2>3. \/ told'[c] = [what |-> "taken", about |-> form[c]] /\ form[c].username \in Usernames
          \/ told'[c] = [what |-> "error", about |-> form[c]]
      BY <1>0, <2>1
    <2>4. StepOf(c) /\ PageFits(c)
      BY <1>0, <2>1, <2>2
    <2>5. AnswerFits(c)
      BY <2>3
    <2> QED
      BY <2>4, <2>5, OtherClients
  <1> QED
    BY <1>1, <1>2, <1>3, <1>4, <1>5, <1>6 DEF CreateAccount

\* The login page.
LEMMA AuthenticateIInv ==
    ASSUME IInv, NEW c \in Clients, AuthenticateUser(c)
    PROVE  IInv'
  <1> USE DEF Tells, TryLogin, StepOf, PageFits, AnswerFits
  <1>0. /\ DOMAIN page = Clients /\ DOMAIN form = Clients /\ DOMAIN told = Clients
        /\ DOMAIN login_form = Clients /\ DOMAIN session = Clients
        /\ page[c] \in {"login", "create account", "insert", "session", "closed"}
        /\ page[c] = "session" <=> session[c] # NoSession
        /\ page[c] = "insert" =>
              /\ form[c].username \in TypedNames \ {Empty}
              /\ form[c].password \in Secrets \ {Empty}
              /\ Trimmed[form[c].username] = form[c].username
    BY DEF IInv, TypeOK, PerClient, NamesTrimmed
  <1>1. ASSUME NEW typed \in TypedNames, TypeUsername(c, typed)
        PROVE  IInv'
    BY <1>0, <1>1, OtherClients DEF TypeUsername
  <1>2. ASSUME NEW secret \in Secrets, LoginSucceeds(c, secret)
        PROVE  IInv'
    <2>1. \A row \in accounts : row.userid # NoSession
      <3>1. sequence \in Nat /\ \A row \in accounts : row.userid \in 1 .. sequence
        BY DEF IInv, TypeOK, PerClient
      <3> QED
        BY <3>1 DEF NoSession
    <2>2. PICK row \in accounts : session' = [session EXCEPT ![c] = row.userid]
      BY <1>2 DEF LoginSucceeds, Matching
    <2> QED
      BY <1>0, <1>2, <2>1, <2>2, OtherClients DEF LoginSucceeds
  <1>3. ASSUME NEW secret \in Secrets,
               LoginIncomplete(c, secret) \/ LoginFails(c, secret) \/ LoginError(c, secret)
        PROVE  IInv'
    <2>1. \E about : \E what \in {"incomplete", "invalid", "error"} :
             told' = [told EXCEPT ![c] = [what |-> what, about |-> about]]
      BY <1>3 DEF LoginIncomplete, LoginFails, LoginError
    <2>2. /\ UNCHANGED <<accounts, sequence, form, login_form, session>>
          /\ page' = page \/ page' = [page EXCEPT ![c] = "closed"]
          /\ page[c] = "login"
      BY <1>3 DEF LoginIncomplete, LoginFails, LoginError
    <2>3. StepOf(c)
      BY <1>0, <2>1, <2>2
    <2>4. PageFits(c)
      BY <1>0, <2>1, <2>2
    <2>5. AnswerFits(c)
      BY <1>0, <2>1, <2>2
    <2> QED
      BY <2>3, <2>4, <2>5, OtherClients
  <1> QED
    BY <1>1, <1>2, <1>3 DEF AuthenticateUser

\* A logout, a restart, or a stutter keeps the invariant, as the steps of the forms do.
LEMMA StepIInv == IInv /\ [Next]_vars => IInv'
  <1> SUFFICES ASSUME IInv, [Next]_vars PROVE IInv'
    OBVIOUS
  <1>1. ASSUME NEW c \in Clients, Logout(c) \/ Restart(c)
        PROVE  IInv'
    <2>1. /\ DOMAIN page = Clients /\ DOMAIN form = Clients /\ DOMAIN told = Clients
          /\ DOMAIN login_form = Clients /\ DOMAIN session = Clients
      BY DEF IInv, PerClient
    <2>2. /\ page' = [page EXCEPT ![c] = "login"]
          /\ session' = [session EXCEPT ![c] = NoSession]
          /\ login_form' = [login_form EXCEPT ![c] = Empty]
          /\ UNCHANGED <<accounts, sequence>>
          /\ \/ UNCHANGED <<form, told>>
             \/ /\ form' = [form EXCEPT ![c] = Nothing]
                /\ told' = [told EXCEPT ![c] = [what |-> "nothing", about |-> Nothing]]
      BY <1>1 DEF Logout, Restart, Shows
    <2>3. StepOf(c)
      BY <2>1, <2>2 DEF StepOf
    <2>4. PageFits(c)
      BY <2>1, <2>2 DEF PageFits, NoSession
    <2>5. AnswerFits(c)
      BY <2>1, <2>2 DEF AnswerFits
    <2> QED
      BY <2>3, <2>4, <2>5, OtherClients
  <1>2. CASE UNCHANGED vars
    BY <1>2 DEF vars, IInv, TypeOK, PerClient, NamesTrimmed, ToldTheTruth, Usernames
  <1> QED
    BY <1>1, <1>2, CreateIInv, AuthenticateIInv DEF Next

\* The invariant holds over the life of the database.
LEMMA Invariance == Spec => []IInv
  BY InitIInv, StepIInv, PTL DEF Spec

------------------------------------------------------------------------------
\* Theorems.

\* No row of ACCOUNTS has an empty username or password, and a client is in a session
\* exactly when it shows one.
THEOREM TypeCorrect == Spec => []TypeOK
  BY Invariance, PTL DEF IInv

\* However creations interleave and wherever clients are restarted: who was told that
\* the account was created owns it, and a name reported as taken is taken.
THEOREM AnswersAreTrue == Spec => []ToldTheTruth
  BY Invariance, PTL DEF IInv

\* Who was just told that the account was created can log in with it: its row stays,
\* and the name looked up is the name inserted, also where the front end trims it.
THEOREM NewAccountOpens == Spec => CreatedCanLogIn
  <1>1. ASSUME IInv, [Next]_vars, NEW c \in Clients,
               told[c].what = "created", login_form[c] = told[c].about.username,
               told'[c].what = "invalid"
        PROVE  told'[c].about.password # told[c].about.password
    <2>1. PICK secret \in Secrets : LoginFails(c, secret)
      <3> USE DEF Shows, Tells, TryLogin
      <3>1. told'[c] # told[c] /\ DOMAIN told = Clients
        BY <1>1 DEF IInv, PerClient
      <3>2. ASSUME NEW d \in Clients, CreateAccount(d)
            PROVE  FALSE
        <4>1. told' = told \/ \E what \in {"rejected", "taken", "error", "created"} : \E about :
                 told' = [told EXCEPT ![d] = [what |-> what, about |-> about]]
          BY <3>2
          DEF CreateAccount, OpenCreateAccount, CancelCreateAccount, RejectInput, CheckUsername,
              CheckUsernameFails, InsertAccount, InsertAccountFails
        <4> QED
          BY <1>1, <3>1, <4>1
      <3>3. ASSUME NEW d \in Clients, AuthenticateUser(d)
            PROVE  d = c /\ \E secret \in Secrets : LoginFails(c, secret)
        BY <1>1, <3>1, <3>3
        DEF AuthenticateUser, TypeUsername, LoginIncomplete, LoginSucceeds, LoginFails, LoginError
      <3>4. ASSUME NEW d \in Clients, Logout(d) \/ Restart(d)
            PROVE  FALSE
        BY <1>1, <3>1, <3>4 DEF Logout, Restart
      <3> QED
        BY <1>1, <3>1, <3>2, <3>3, <3>4 DEF Next, vars
    <2>2. LookedUp(c) = told[c].about.username
      BY <1>1 DEF LookedUp, IInv, NamesTrimmed
    <2>3. PICK row \in accounts : row.username = told[c].about.username
                                  /\ row.password = told[c].about.password
      BY <1>1 DEF IInv, ToldTheTruth
    <2>4. secret # told[c].about.password
      BY <2>1, <2>2, <2>3 DEF LoginFails, Matching
    <2>5. told'[c].about.password = secret
      BY <1>1, <2>1 DEF LoginFails, Tells, IInv, PerClient
    <2> QED
      BY <2>4, <2>5
  <1>2. IInv /\ [Next]_vars =>
           [\A c \in Clients :
               told[c].what = "created" /\ login_form[c] = told[c].about.username =>
                  ~(told'[c].what = "invalid" /\ told'[c].about.password = told[c].about.password)]_vars
    BY <1>1
  <1> QED
    BY <1>2, Invariance, PTL DEF Spec, CreatedCanLogIn
=============================================================================
