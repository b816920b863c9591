------------------------------ MODULE UserData ------------------------------
(***************************************************************************)
(* The USER_DATA table, which every account shares (objects/userAccount.cpp *)
(* and processes/process_data_store.cpp).  PASSWORD_ID is its primary key   *)
(* whatever the USERID, an account takes its ids after the largest one of   *)
(* the table at login, and the variables the login queries fill are static: *)
(* they belong to the process, not to the account.                          *)
(*                                                                         *)
(* Processes are started, log users in and out one after the other, and may *)
(* be killed anywhere.  An account is what UserAccount keeps of it, but for *)
(* the fields: an entry is one text, and no two users type the same texts,  *)
(* so a text tells who saved it.  Statements of the data-store thread       *)
(* succeed here and store the text as it is; DisplayContent is about those  *)
(* that do not.                                                             *)
(***************************************************************************)
EXTENDS Integers, Sequences, FiniteSetsExt, SequencesExt, Functions

CONSTANTS
    Processes,       \* instances of the application that may run
    Users,           \* their USERIDs
    TextsOf,         \* user -> what the user may save
    NoUser,
    InitialTables,   \* the table when the first process starts
    Faults,          \* what may fail: subset of {"SELECT", "RANDOM"}
    MaxLogins,       \* bound: logins
    MaxOperations    \* bound: operations submitted

ASSUME UserDataAssumption ==
    /\ NoUser \notin Users
    /\ \A u, v \in Users : u # v => TextsOf[u] \cap TextsOf[v] = {}
    /\ \A table \in InitialTables :
          /\ IsFiniteSet(DOMAIN table) /\ DOMAIN table \subseteq Nat
          /\ \A id \in DOMAIN table :
                /\ table[id].userid \in Users /\ table[id].sealed \in BOOLEAN
                /\ table[id].text \in TextsOf[table[id].userid]
    /\ Faults \subseteq {"SELECT", "RANDOM"}
    /\ MaxLogins \in Nat /\ MaxOperations \in Nat

VARIABLES
    db,                    \* PASSWORD_ID -> [userid, text, sealed]
    pc,                    \* where each process is
    user,                  \* who is logged in, or logging in
    max_password_id,       \* static
    initial_user_data,     \* static: the rows the login query returned
    current_password_id,
    entries,               \* pass_id_map
    removed_ids,
    store,                 \* where each data-store thread is
    user_data_copy, removed_copy, final_store_and_exit,
    failed,                \* whether a login query or a constructor ever failed
    logins, operations

processVars == <<user, max_password_id, initial_user_data, failed>>
accountVars == <<current_password_id, entries, removed_ids>>
storeVars == <<store, user_data_copy, removed_copy, final_store_and_exit>>
vars == <<db, pc, processVars, accountVars, storeVars, logins, operations>>

Put(map, key, value) ==
    [k \in DOMAIN map \cup {key} |-> IF k = key THEN value ELSE map[k]]
Without(map, key) == Restrict(map, DOMAIN map \ {key})

RowsOf(u) == {id \in DOMAIN db : db[id].userid = u}

------------------------------------------------------------------------------
Init ==
    /\ db \in InitialTables
    /\ pc = [p \in Processes |-> "off"]
    /\ user = [p \in Processes |-> NoUser]
    /\ max_password_id = [p \in Processes |-> 10]
    /\ initial_user_data = [p \in Processes |-> <<>>]
    /\ current_password_id = [p \in Processes |-> 0]
    /\ entries = [p \in Processes |-> <<>>]
    /\ removed_ids = [p \in Processes |-> <<>>]
    /\ store = [p \in Processes |-> "off"]
    /\ user_data_copy = [p \in Processes |-> <<>>]
    /\ removed_copy = [p \in Processes |-> <<>>]
    /\ final_store_and_exit = [p \in Processes |-> FALSE]
    /\ failed = FALSE /\ logins = 0 /\ operations = 0

Step(p, from, to) == pc[p] = from /\ pc' = [pc EXCEPT ![p] = to]

StartProcess(p) ==
    /\ Step(p, "off", "login page")
    /\ UNCHANGED <<db, processVars, accountVars, storeVars, logins, operations>>

\* A login the ACCOUNTS table accepts: the constructor of UserAccount begins.
Login(p, u) ==
    /\ Step(p, "login page", "select ids")
    /\ logins < MaxLogins
    /\ logins' = logins + 1
    /\ user' = [user EXCEPT ![p] = u]
    /\ UNCHANGED <<db, max_password_id, initial_user_data, failed, accountVars, storeVars, operations>>

\* (fault) the largest id of the user's own rows
SelectOwnIds(p) ==
    /\ Step(p, "select ids", "select rows")
    /\ max_password_id' = [max_password_id EXCEPT ![p] = Max({@} \cup RowsOf(user[p]))]
    /\ current_password_id' = [current_password_id EXCEPT ![p] = Max({10, max_password_id'[p]})]
    /\ UNCHANGED <<db, user, failed, initial_user_data, entries, removed_ids, storeVars, logins, operations>>

\* get_password_id, over the rows of every user.  A failure is only logged.
SelectIds(p) ==
    /\ Step(p, "select ids", "select rows")
    /\ \/ /\ max_password_id' = [max_password_id EXCEPT ![p] = Max({@} \cup DOMAIN db)]
          /\ UNCHANGED failed
       \/ "SELECT" \in Faults /\ failed' = TRUE /\ UNCHANGED max_password_id
    /\ current_password_id' = [current_password_id EXCEPT ![p] = Max({10, max_password_id'[p]})]
    /\ UNCHANGED <<db, user, initial_user_data, entries, removed_ids, storeVars, logins, operations>>

\* get_user_data appends to whatever initial_user_data holds.  The rows come in the
\* order SQLite finds them in.
SelectRows(p) ==
    /\ Step(p, "select rows", "construct")
    /\ \/ UNCHANGED failed
          /\ initial_user_data' = [initial_user_data EXCEPT ![p] =
             @ \o [i \in 1 .. Cardinality(RowsOf(user[p])) |->
                     LET id == SetToSeq(RowsOf(user[p]))[i]
                     IN  [p_id |-> id, text |-> db[id].text, sealed |-> db[id].sealed]]]
       \/ "SELECT" \in Faults /\ failed' = TRUE /\ UNCHANGED initial_user_data
    /\ UNCHANGED <<db, user, max_password_id, accountVars, storeVars, logins, operations>>

\* The rest of the constructor adds the rows; the first of an id is kept.
Construct(p) ==
    LET rows == initial_user_data[p]
        ids == {rows[i].p_id : i \in DOMAIN rows}
        first(id) == rows[Min({i \in DOMAIN rows : rows[i].p_id = id})]
    IN  /\ Step(p, "construct", "running")
        /\ entries' = [entries EXCEPT ![p] = [id \in ids |-> first(id).text]]
        /\ current_password_id' = [current_password_id EXCEPT ![p] = Max({@} \cup ids)]
        /\ store' = [store EXCEPT ![p] = "sleep"]
        /\ UNCHANGED <<db, processVars, removed_ids, user_data_copy, removed_copy,
                       final_store_and_exit, logins, operations>>

\* std::random_device throws while a plain-text row is encrypted.  The login page
\* reports it; no destructor runs for an account that was not constructed.
ConstructFails(p) ==
    /\ Step(p, "construct", "login page")
    /\ "RANDOM" \in Faults /\ failed' = TRUE
    /\ \E i \in DOMAIN initial_user_data[p] : ~initial_user_data[p][i].sealed
    /\ user' = [user EXCEPT ![p] = NoUser]
    /\ current_password_id' = [current_password_id EXCEPT ![p] = 0]
    /\ UNCHANGED <<db, max_password_id, initial_user_data, entries, removed_ids, storeVars,
                   logins, operations>>

------------------------------------------------------------------------------
\* The operations of the session, as the operation thread applies them.

Operate(p) ==
    /\ pc[p] = "running"
    /\ operations < MaxOperations
    /\ operations' = operations + 1
    /\ UNCHANGED <<db, pc, processVars, storeVars, logins>>

\* (fault) the entry keeps the -1 of the GUI
AddPasswordWithoutId(p, text) ==
    /\ Operate(p)
    /\ entries' = [entries EXCEPT ![p] = Put(@, -1, text)]
    /\ UNCHANGED <<current_password_id, removed_ids>>

\* (fault) the id after the largest one of the account
AddPasswordReusingId(p, text) ==
    /\ Operate(p)
    /\ entries' = [entries EXCEPT ![p] = Put(@, Max({10} \cup DOMAIN entries[p]) + 1, text)]
    /\ UNCHANGED <<current_password_id, removed_ids>>

AddPassword(p, text) ==
    /\ Operate(p)
    /\ current_password_id' = [current_password_id EXCEPT ![p] = @ + 1]
    /\ entries' = [entries EXCEPT ![p] = Put(@, current_password_id'[p], text)]
    /\ UNCHANGED removed_ids

ModifyPassword(p, id, text) ==
    /\ Operate(p)
    /\ entries' = [entries EXCEPT ![p][id] = text]
    /\ UNCHANGED <<current_password_id, removed_ids>>

RemovePassword(p, id) ==
    /\ Operate(p)
    /\ entries' = [entries EXCEPT ![p] = Without(@, id)]
    /\ removed_ids' = [removed_ids EXCEPT ![p] = Append(@, id)]
    /\ UNCHANGED current_password_id

\* The operation thread has ended; the data-store thread is told to.
Logout(p) ==
    /\ Step(p, "running", "logout")
    /\ UNCHANGED <<db, processVars, accountVars, storeVars, logins, operations>>

------------------------------------------------------------------------------
\* The data-store thread.

StoreStep(p, from, to) ==
    /\ store[p] = from /\ store' = [store EXCEPT ![p] = to]
    /\ UNCHANGED <<logins, operations>>

CopyEntries(p) ==
    /\ StoreStep(p, "sleep", "insert")
    /\ final_store_and_exit' = [final_store_and_exit EXCEPT ![p] = (pc[p] = "logout")]
    /\ user_data_copy' = [user_data_copy EXCEPT ![p] = entries[p]]
    /\ UNCHANGED <<db, pc, processVars, accountVars, removed_copy>>

\* INSERT OR REPLACE: the row of that PASSWORD_ID goes, whoever it belongs to.
InsertRow(p, id) ==
    /\ StoreStep(p, "insert", "insert")
    /\ id \in DOMAIN user_data_copy[p]
    /\ db' = Put(db, id, [userid |-> user[p], text |-> user_data_copy[p][id], sealed |-> TRUE])
    /\ user_data_copy' = [user_data_copy EXCEPT ![p] = Without(@, id)]
    /\ UNCHANGED <<pc, processVars, accountVars, removed_copy, final_store_and_exit>>

CollectRemoved(p) ==
    /\ StoreStep(p, "insert", "delete")
    /\ DOMAIN user_data_copy[p] = {}
    /\ removed_copy' = [removed_copy EXCEPT ![p] = removed_ids[p]]
    /\ removed_ids' = [removed_ids EXCEPT ![p] = <<>>]
    /\ UNCHANGED <<db, pc, processVars, current_password_id, entries, user_data_copy,
                   final_store_and_exit>>

\* DELETE ... WHERE USERID = user AND PASSWORD_ID = id
DeleteRow(p) ==
    /\ StoreStep(p, "delete", "delete")
    /\ removed_copy[p] # <<>>
    /\ db' = [id \in DOMAIN db \ ({Head(removed_copy[p])} \cap RowsOf(user[p])) |-> db[id]]
    /\ removed_copy' = [removed_copy EXCEPT ![p] = Tail(@)]
    /\ UNCHANGED <<pc, processVars, accountVars, user_data_copy, final_store_and_exit>>

FinishCycle(p) ==
    /\ StoreStep(p, "delete", "sleep")
    /\ removed_copy[p] = <<>> /\ ~final_store_and_exit[p]
    /\ UNCHANGED <<db, pc, processVars, accountVars, user_data_copy, removed_copy,
                   final_store_and_exit>>

\* What goes with an account.
Forgotten(p) ==
    /\ user' = [user EXCEPT ![p] = NoUser]
    /\ current_password_id' = [current_password_id EXCEPT ![p] = 0]
    /\ entries' = [entries EXCEPT ![p] = <<>>]
    /\ removed_ids' = [removed_ids EXCEPT ![p] = <<>>]
    /\ user_data_copy' = [user_data_copy EXCEPT ![p] = <<>>]
    /\ removed_copy' = [removed_copy EXCEPT ![p] = <<>>]
    /\ final_store_and_exit' = [final_store_and_exit EXCEPT ![p] = FALSE]

\* (fault) the destructor leaves initial_user_data as it is
DestroyKeepingRows(p) ==
    /\ StoreStep(p, "delete", "off")
    /\ removed_copy[p] = <<>> /\ final_store_and_exit[p]
    /\ Step(p, "logout", "login page")
    /\ Forgotten(p)
    /\ UNCHANGED <<db, max_password_id, initial_user_data, failed>>

\* The last cycle is over: the destructors, ~UserAccount included.
Destroy(p) ==
    /\ StoreStep(p, "delete", "off")
    /\ removed_copy[p] = <<>> /\ final_store_and_exit[p]
    /\ Step(p, "logout", "login page")
    /\ Forgotten(p)
    /\ initial_user_data' = [initial_user_data EXCEPT ![p] = <<>>]
    /\ UNCHANGED <<db, max_password_id, failed>>

\* The process is killed, or closed from the login page: its memory is gone.
Kill(p) ==
    /\ pc[p] # "off" /\ pc' = [pc EXCEPT ![p] = "off"]
    /\ store' = [store EXCEPT ![p] = "off"]
    /\ Forgotten(p)
    /\ initial_user_data' = [initial_user_data EXCEPT ![p] = <<>>]
    /\ max_password_id' = [max_password_id EXCEPT ![p] = 10]
    /\ UNCHANGED <<db, failed, logins, operations>>

------------------------------------------------------------------------------
Session(p) ==
    \/ \E text \in TextsOf[user[p]] :
          AddPassword(p, text) \/ \E id \in DOMAIN entries[p] : ModifyPassword(p, id, text)
    \/ \E id \in DOMAIN entries[p] : RemovePassword(p, id)
    \/ Logout(p)

PeriodicDataStore(p) ==
    \/ CopyEntries(p)
    \/ \E id \in DOMAIN user_data_copy[p] : InsertRow(p, id)
    \/ CollectRemoved(p) \/ DeleteRow(p) \/ FinishCycle(p) \/ Destroy(p)

Next ==
    \E p \in Processes :
        \/ StartProcess(p) \/ Kill(p)
        \/ \E u \in Users : Login(p, u)
        \/ SelectIds(p) \/ SelectRows(p) \/ Construct(p) \/ ConstructFails(p)
        \/ pc[p] = "running" /\ Session(p)
        \/ PeriodicDataStore(p)

Spec == Init /\ [][Next]_vars

------------------------------------------------------------------------------
\* Properties.

\* Every variable keeps its shape, and what a process has of a user goes with the
\* session.
TypeOK ==
    /\ \A id \in DOMAIN db : id \in Nat /\ db[id].userid \in Users /\ db[id].sealed \in BOOLEAN
    /\ \A p \in Processes :
          /\ user[p] = NoUser <=> pc[p] \in {"off", "login page"}
          /\ store[p] = "off" <=> pc[p] \notin {"running", "logout"}
          /\ DOMAIN entries[p] \cup DOMAIN user_data_copy[p] \subseteq Nat
          /\ removed_ids[p] \in Seq(Nat) /\ removed_copy[p] \in Seq(Nat)

Running(p) == pc[p] \in {"running", "logout"}

\* README.md:3, "It stores each user's saved logins": a row is changed or deleted
\* only from a session of its user, and never given to another, unless a login
\* query failed.  The new ids of the other users must keep clear of it
\* (userAccount.cpp:77, 183).
RowsKept ==
    [][~failed => \A id \in DOMAIN db :
          \/ id \in DOMAIN db' /\ db'[id] = db[id]
          \/ /\ \E p \in Processes : Running(p) /\ user[p] = db[id].userid
             /\ id \in DOMAIN db' => db'[id].userid = db[id].userid]_vars

\* A login whose queries work brings back exactly what the table holds for the user,
\* however the last session ended: nothing of an earlier login of the process is
\* mixed in.
LoginLoadsSaved ==
    [][\A p \in Processes :
          ~failed /\ pc[p] = "construct" /\ pc'[p] = "running" =>
              entries'[p] = [id \in RowsOf(user[p]) |-> db[id].text]]_vars

\* A process does not bring back a row it deletes, whatever failed before: an id that
\* waits for its DELETE is neither an entry, old or new, nor in a copy still to be
\* written (userAccount.cpp:183, process_data_store.cpp:41-92).
DeletedStaysDeleted ==
    \A p \in Processes :
        Range(removed_ids[p]) \cap DOMAIN entries[p] = {}
        /\ Range(removed_copy[p]) \cap (DOMAIN entries[p] \cup DOMAIN user_data_copy[p]) = {}
=============================================================================
