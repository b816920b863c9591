--------------------------- MODULE DisplayContent ---------------------------
(***************************************************************************)
(* app/objects/displayContent.cpp and app/processes: the session of a       *)
(* logged-in user.  The GUI thread calls operation_event, search_event and  *)
(* reset_display_list; the operation, search and data-store threads do the  *)
(* work; the destructor stops them one after the other.                     *)
(*                                                                         *)
(* A step is a critical section, or the part of one between two sections    *)
(* nested in it.  operation_mutex and search_term_mutex are explicit, for   *)
(* they are held across steps.  Every other mutex is only held within one   *)
(* step, so its steps are atomic.  A condition variable is the pc "wait":   *)
(* waiting releases the mutex, notify_all (or a spurious wake-up) sends the *)
(* thread back to lock it and test its condition again.                     *)
(*                                                                         *)
(* The account is the list UserAccount is shown to implement, and the ids   *)
(* it queues for DELETE.                                                    *)
(*                                                                         *)
(* The store thread splices fields into SQL as they are.  A field may make  *)
(* its statement malformed (Unstorable) or store another text (StoredAs).   *)
(* It may also end the statement and begin one of its own, which could do   *)
(* anything to the database; entries with such a field are not modelled.    *)
(***************************************************************************)
EXTENDS Passwords, SequencesExt

CONSTANTS
    SearchedFields,   \* username, url and description
    InitialLists,     \* the lists the login may load
    Terms,            \* what the user may type in the search bar
    Matches,          \* term -> the field values that contain it
    Faults,           \* what SQLite may refuse: subset of {"OPEN", "INSERT", "DELETE"}
    Unstorable,       \* the passwords whose INSERT is cut off or malformed
    StoredAs,         \* password -> the row its INSERT stores; '' in a field is read as '
    MaxOperations,    \* bound: operations submitted in the session
    MaxSearches       \* bound: searches submitted in the session

ASSUME DisplayContentAssumption ==
    /\ \A list \in InitialLists : IsList(list)
    /\ Faults \subseteq {"OPEN", "INSERT", "DELETE"}
    /\ Unstorable \subseteq Password
    /\ StoredAs \in [Password -> Password]
    /\ MaxOperations \in Nat /\ MaxSearches \in Nat

VARIABLES
    pc,                      \* where each thread is
    account,                 \* usr_acc: the entries and the last id
    removed_ids,             \* usr_acc: removed, not collected yet
    display_passwords,       \* what the grid shows
    operation_mutex,
    operation_queue,
    operation_event_state,
    operation_loop_exit,
    current_operation,       \* local of operation_process
    search_term_mutex,
    search_term,
    search_event_state,
    search_loop_exit,
    search_result,
    found,                   \* local of search_bar_process, and the term it answers
    data_store_exit,
    final_store_and_exit,    \* locals of periodic_data_store
    user_data_copy,
    removed_copy,
    db_open,
    db,                      \* the user's rows of USER_DATA
    argument,                \* the argument of the GUI's call in progress
    operations,              \* how many operations, searches were submitted
    searches,
    refused,                 \* the rows SQLite refused to write in this cycle
    undeleted,               \* the removed ids whose DELETE it ever refused
    answered                 \* the term search_result answers

operationVars == <<operation_queue, operation_event_state, operation_loop_exit, current_operation>>
searchVars == <<search_term, search_event_state, search_loop_exit, search_result, found, answered>>
storeVars == <<data_store_exit, final_store_and_exit, user_data_copy, removed_copy, db_open, db,
               refused, undeleted>>
accountVars == <<account, removed_ids>>
guiVars == <<display_passwords, argument, operations, searches>>
mutexes == <<operation_mutex, search_term_mutex>>
vars == <<pc, accountVars, guiVars, mutexes, operationVars, searchVars, storeVars>>

Threads == {"gui", "operation", "search", "store"}

Step(thread, from, to) == pc[thread] = from /\ pc' = [pc EXCEPT ![thread] = to]

\* (fault) the call that changes the condition does not notify
NotifiedNever(thread) == pc[thread]

\* notify_all: the thread goes on to lock the mutex again.
Notified(thread) == IF pc[thread] = "wait" THEN "lock" ELSE pc[thread]

StepNotifying(from, to, thread) ==
    /\ pc["gui"] = from
    /\ pc' = [pc EXCEPT !["gui"] = to, ![thread] = Notified(thread)]

------------------------------------------------------------------------------
\* The constructor: the account and its first copy, then the three threads.
Init ==
    /\ pc = [gui |-> "idle", operation |-> "lock", search |-> "lock", store |-> "sleep"]
    /\ account \in InitialLists
    /\ removed_ids = <<>>
    /\ display_passwords = account.entries
    /\ operation_mutex = "free" /\ search_term_mutex = "free"
    /\ operation_queue = <<>>
    /\ operation_event_state = FALSE /\ operation_loop_exit = FALSE
    /\ current_operation = None
    /\ search_term = Empty
    /\ search_event_state = FALSE /\ search_loop_exit = FALSE
    /\ search_result = <<>> /\ answered = Empty
    /\ found = [term |-> Empty, rows |-> <<>>]
    /\ data_store_exit = FALSE /\ final_store_and_exit = FALSE
    /\ user_data_copy = <<>> /\ removed_copy = <<>>
    /\ db_open = FALSE /\ db = account.entries
    /\ refused = {} /\ undeleted = {}
    /\ argument = None /\ operations = 0 /\ searches = 0

------------------------------------------------------------------------------
\* The GUI thread.

\* The GUI names the entries its grid shows, which may be gone by now.
CallOperationEvent ==
    /\ Step("gui", "idle", "operation_event")
    /\ operations < MaxOperations
    /\ argument' \in Operations(DOMAIN display_passwords)
    /\ operations' = operations + 1
    /\ UNCHANGED <<display_passwords, searches, accountVars, mutexes, operationVars,
                   searchVars, storeVars>>

\* operation_event: lock, push, set the flag, unlock ...
PushOperation ==
    /\ Step("gui", "operation_event", "operation_notify")
    /\ operation_mutex = "free"
    /\ operation_queue' = Append(operation_queue, argument)
    /\ operation_event_state' = TRUE
    /\ UNCHANGED <<operation_loop_exit, current_operation, accountVars, guiVars, mutexes,
                   searchVars, storeVars>>

\* ... and notify.
NotifyOperation ==
    /\ StepNotifying("operation_notify", "idle", "operation")
    /\ UNCHANGED <<accountVars, guiVars, mutexes, operationVars, searchVars, storeVars>>

CallSearchEvent ==
    /\ Step("gui", "idle", "search_event")
    /\ searches < MaxSearches
    /\ argument' \in Terms
    /\ searches' = searches + 1
    /\ UNCHANGED <<display_passwords, operations, accountVars, mutexes, operationVars,
                   searchVars, storeVars>>

\* search_event: a newer term replaces one not answered yet.
SetSearchTerm ==
    /\ Step("gui", "search_event", "search_notify")
    /\ search_term_mutex = "free"
    /\ search_term' = argument
    /\ search_event_state' = TRUE
    /\ UNCHANGED <<search_loop_exit, search_result, found, answered, accountVars, guiVars,
                   mutexes, operationVars, storeVars>>

NotifySearch ==
    /\ StepNotifying("search_notify", "idle", "search")
    /\ UNCHANGED <<accountVars, guiVars, mutexes, operationVars, searchVars, storeVars>>

\* reset_display_list: entries the account has are copied, the others dropped.
ResetDisplayList ==
    /\ Step("gui", "idle", "idle")
    /\ display_passwords' = account.entries
    /\ UNCHANGED <<argument, operations, searches, accountVars, mutexes, operationVars,
                   searchVars, storeVars>>

------------------------------------------------------------------------------
\* The destructor: stop_processes, then the account is deleted.

Logout ==
    /\ Step("gui", "idle", "stop_search")
    /\ UNCHANGED <<accountVars, guiVars, mutexes, operationVars, searchVars, storeVars>>

StopSearch ==
    /\ Step("gui", "stop_search", "stop_search_notify")
    /\ search_term_mutex = "free"
    /\ search_loop_exit' = TRUE
    /\ search_event_state' = TRUE
    /\ UNCHANGED <<search_term, search_result, found, answered, accountVars, guiVars, mutexes,
                   operationVars, storeVars>>

NotifyStopSearch ==
    /\ StepNotifying("stop_search_notify", "join_search", "search")
    /\ UNCHANGED <<accountVars, guiVars, mutexes, operationVars, searchVars, storeVars>>

JoinSearch ==
    /\ Step("gui", "join_search", "stop_operation")
    /\ pc["search"] = "done"
    /\ UNCHANGED <<accountVars, guiVars, mutexes, operationVars, searchVars, storeVars>>

\* (fault) only the exit flag is set
StopOperationFlagOnly ==
    /\ Step("gui", "stop_operation", "stop_operation_notify")
    /\ operation_mutex = "free"
    /\ operation_loop_exit' = TRUE
    /\ UNCHANGED <<operation_event_state, operation_queue, current_operation, accountVars,
                   guiVars, mutexes, searchVars, storeVars>>

\* (fault) the type of the pushed operation is not set
StopOperationUntyped ==
    /\ Step("gui", "stop_operation", "stop_operation_notify")
    /\ operation_mutex = "free"
    /\ operation_loop_exit' = TRUE
    /\ operation_event_state' = TRUE
    /\ operation_queue' = Append(operation_queue, [operation_type |-> Empty])
    /\ UNCHANGED <<current_operation, accountVars, guiVars, mutexes, searchVars, storeVars>>

\* The NONE operation is what the thread pops when it has nothing else to do.
StopOperation ==
    /\ Step("gui", "stop_operation", "stop_operation_notify")
    /\ operation_mutex = "free"
    /\ operation_loop_exit' = TRUE
    /\ operation_event_state' = TRUE
    /\ operation_queue' = Append(operation_queue, None)
    /\ UNCHANGED <<current_operation, accountVars, guiVars, mutexes, searchVars, storeVars>>

NotifyStopOperation ==
    /\ StepNotifying("stop_operation_notify", "join_operation", "operation")
    /\ UNCHANGED <<accountVars, guiVars, mutexes, operationVars, searchVars, storeVars>>

JoinOperation ==
    /\ Step("gui", "join_operation", "stop_store")
    /\ pc["operation"] = "done"
    /\ UNCHANGED <<accountVars, guiVars, mutexes, operationVars, searchVars, storeVars>>

StopStore ==
    /\ Step("gui", "stop_store", "join_store")
    /\ data_store_exit' = TRUE
    /\ UNCHANGED <<final_store_and_exit, user_data_copy, removed_copy, db_open, db,
                   refused, undeleted, accountVars, guiVars, mutexes, operationVars, searchVars>>

JoinStore ==
    /\ Step("gui", "join_store", "destroyed")
    /\ pc["store"] = "done"
    /\ UNCHANGED <<accountVars, guiVars, mutexes, operationVars, searchVars, storeVars>>

------------------------------------------------------------------------------
\* The operation thread: operation_process.

\* A spurious wake-up of either condition variable.
WakeUp(thread) ==
    /\ Step(thread, "wait", "lock")
    /\ UNCHANGED <<accountVars, guiVars, mutexes, operationVars, searchVars, storeVars>>

OperationIdle == ~operation_event_state /\ operation_queue = <<>>

WaitForOperation ==
    /\ Step("operation", "lock", "wait")
    /\ operation_mutex = "free"
    /\ OperationIdle
    /\ UNCHANGED <<accountVars, guiVars, mutexes, operationVars, searchVars, storeVars>>

LockOperation ==
    /\ Step("operation", "lock", "pop")
    /\ operation_mutex = "free"
    /\ ~OperationIdle
    /\ operation_mutex' = "held"
    /\ UNCHANGED <<search_term_mutex, accountVars, guiVars, operationVars, searchVars, storeVars>>

\* (fault) the operation stays in the queue
ReadOperation ==
    /\ Step("operation", "pop", "apply")
    /\ operation_queue # <<>>
    /\ current_operation' = Head(operation_queue)
    /\ operation_queue' = IF Len(operation_queue) = 1 THEN <<>> ELSE operation_queue
    /\ UNCHANGED <<operation_event_state, operation_loop_exit, accountVars, guiVars, mutexes,
                   searchVars, storeVars>>

\* front() and pop(); front() of an empty queue is undefined.
PopOperation ==
    /\ Step("operation", "pop", "apply")
    /\ operation_queue # <<>>
    /\ current_operation' = Head(operation_queue)
    /\ operation_queue' = Tail(operation_queue)
    /\ UNCHANGED <<operation_event_state, operation_loop_exit, accountVars, guiVars, mutexes,
                   searchVars, storeVars>>

\* (fault) only a row that was saved needs a DELETE
RemovedIfSaved(op) ==
    IF op.operation_type = "REMOVE" /\ op.p_id \in DOMAIN account.entries \cap DOMAIN db
    THEN Append(removed_ids, op.p_id)
    ELSE removed_ids

\* remove_password queues the id of an entry it removes.
Removed(op) ==
    IF op.operation_type = "REMOVE" /\ op.p_id \in DOMAIN account.entries
    THEN Append(removed_ids, op.p_id)
    ELSE removed_ids

\* The call into the account, under user_account_mutex.
ApplyOperation ==
    /\ Step("operation", "apply", "finish")
    /\ account' = Applied(account, current_operation)
    /\ removed_ids' = Removed(current_operation)
    /\ UNCHANGED <<guiVars, mutexes, operationVars, searchVars, storeVars>>

\* (fault) the flag is never reset
FinishOperationKeepingFlag ==
    /\ pc["operation"] = "finish"
    /\ pc' = [pc EXCEPT !["operation"] =
                 IF operation_loop_exit /\ operation_queue = <<>> THEN "done" ELSE "lock"]
    /\ operation_mutex' = "free"
    /\ UNCHANGED <<search_term_mutex, operation_queue, operation_loop_exit, current_operation,
                   operation_event_state, accountVars, guiVars, searchVars, storeVars>>

\* The end of an iteration.  Leaving the loop also unlocks (operation_event_lock).
FinishOperation ==
    LET exit == operation_loop_exit /\ operation_queue = <<>>
    IN  /\ pc["operation"] = "finish"
        /\ pc' = [pc EXCEPT !["operation"] = IF exit THEN "done" ELSE "lock"]
        /\ operation_event_state' = (operation_event_state /\ (exit \/ operation_queue # <<>>))
        /\ operation_mutex' = "free"
        /\ UNCHANGED <<search_term_mutex, operation_queue, operation_loop_exit,
                       current_operation, accountVars, guiVars, searchVars, storeVars>>

------------------------------------------------------------------------------
\* The search thread: search_bar_process.

WaitForSearch ==
    /\ Step("search", "lock", "wait")
    /\ search_term_mutex = "free"
    /\ ~search_event_state
    /\ UNCHANGED <<accountVars, guiVars, mutexes, operationVars, searchVars, storeVars>>

ExitSearch ==
    /\ Step("search", "lock", "done")
    /\ search_term_mutex = "free"
    /\ search_event_state /\ search_loop_exit
    /\ UNCHANGED <<accountVars, guiVars, mutexes, operationVars, searchVars, storeVars>>

\* (fault) the mutex is not kept while the search runs
LookAtSearchTerm ==
    /\ Step("search", "lock", "search")
    /\ search_term_mutex = "free"
    /\ search_event_state /\ ~search_loop_exit
    /\ UNCHANGED <<mutexes, accountVars, guiVars, operationVars, searchVars, storeVars>>

LockSearchTerm ==
    /\ Step("search", "lock", "search")
    /\ search_term_mutex = "free"
    /\ search_event_state /\ ~search_loop_exit
    /\ search_term_mutex' = "held"
    /\ UNCHANGED <<operation_mutex, accountVars, guiVars, operationVars, searchVars, storeVars>>

\* UserAccount::search, over the list.
SearchResult(list, term) ==
    LET hits == {id \in DOMAIN list.entries :
                    /\ term # Empty
                    /\ \E f \in SearchedFields : list.entries[id][f] \in Matches[term]}
    IN  Restrict(list.entries, hits)

\* The call into the account, under user_account_mutex.
SearchAccount ==
    /\ Step("search", "search", "publish")
    /\ found' = [term |-> search_term, rows |-> SearchResult(account, search_term)]
    /\ UNCHANGED <<search_term, search_event_state, search_loop_exit, search_result, answered,
                   accountVars, guiVars, mutexes, operationVars, storeVars>>

\* (fault) what the last search found is not dropped
PublishSearchMerging ==
    /\ Step("search", "publish", "lock")
    /\ search_result' = [id \in DOMAIN search_result \cup DOMAIN found.rows |->
                            IF id \in DOMAIN found.rows THEN found.rows[id]
                                                        ELSE search_result[id]]
    /\ answered' = found.term
    /\ search_event_state' = FALSE
    /\ search_term_mutex' = "free"
    /\ UNCHANGED <<operation_mutex, search_term, search_loop_exit, found, accountVars, guiVars,
                   operationVars, storeVars>>

\* search_result becomes what was found: matches copied, the others erased.
PublishSearch ==
    /\ Step("search", "publish", "lock")
    /\ search_result' = found.rows
    /\ answered' = found.term
    /\ search_event_state' = FALSE
    /\ search_term_mutex' = "free"
    /\ UNCHANGED <<operation_mutex, search_term, search_loop_exit, found, accountVars, guiVars,
                   operationVars, storeVars>>

------------------------------------------------------------------------------
\* The data-store thread: periodic_data_store.

\* After the 2 seconds of sleep the exit flag is read once, for the whole cycle.
StartCycle ==
    /\ Step("store", "sleep", "copy")
    /\ final_store_and_exit' = data_store_exit
    /\ UNCHANGED <<data_store_exit, user_data_copy, removed_copy, db_open, db, refused, undeleted,
                   accountVars, guiVars, mutexes, operationVars, searchVars>>

\* get_encrypted_data_copy under user_account_mutex, then sqlite3_open.  Its result
\* is ignored and its handle is never closed, so in the end it fails for good.
CopyAccount ==
    /\ Step("store", "copy", "insert")
    /\ user_data_copy' = account.entries
    /\ db_open' \in {TRUE} \cup (IF "OPEN" \in Faults THEN {FALSE} ELSE {})
    /\ refused' = {}
    /\ UNCHANGED <<data_store_exit, final_store_and_exit, removed_copy, db, undeleted,
                   accountVars, guiVars, mutexes, operationVars, searchVars>>

\* A statement sqlite3_exec may not run, which is only logged: the handle did not
\* open, or SQLite refuses it.
RefusedBySQLite(statement) == ~db_open \/ statement \in Faults

\* (fault) INSERT OR IGNORE: a row that is there is left as it is
InsertNewRow(id) ==
    /\ pc["store"] = "insert"
    /\ id \in DOMAIN user_data_copy
    /\ user_data_copy' = Without(user_data_copy, {id})
    /\ \/ /\ db_open /\ user_data_copy[id] \notin Unstorable
          /\ db' = IF id \in DOMAIN db THEN db ELSE Put(db, id, StoredAs[user_data_copy[id]])
          /\ refused' = refused
       \/ /\ RefusedBySQLite("INSERT") \/ user_data_copy[id] \in Unstorable
          /\ refused' = refused \cup {id}
          /\ db' = db
    /\ UNCHANGED <<pc, data_store_exit, final_store_and_exit, removed_copy, db_open, undeleted,
                   accountVars, guiVars, mutexes, operationVars, searchVars>>

\* INSERT OR REPLACE, for the entries of the copy in any order.  A statement longer
\* than its buffer, or with a single quote in a field, is refused in every cycle; one
\* with doubled quotes is run and stores something else.
InsertRow(id) ==
    /\ pc["store"] = "insert"
    /\ id \in DOMAIN user_data_copy
    /\ user_data_copy' = Without(user_data_copy, {id})
    /\ \/ /\ db_open /\ user_data_copy[id] \notin Unstorable
          /\ db' = Put(db, id, StoredAs[user_data_copy[id]])
          /\ refused' = refused
       \/ /\ RefusedBySQLite("INSERT") \/ user_data_copy[id] \in Unstorable
          /\ refused' = refused \cup {id}
          /\ db' = db
    /\ UNCHANGED <<pc, data_store_exit, final_store_and_exit, removed_copy, db_open, undeleted,
                   accountVars, guiVars, mutexes, operationVars, searchVars>>

\* get_removed_ids under user_account_mutex: read and cleared.
CollectRemoved ==
    /\ Step("store", "insert", "delete")
    /\ DOMAIN user_data_copy = {}
    /\ removed_copy' = removed_ids
    /\ removed_ids' = <<>>
    /\ UNCHANGED <<data_store_exit, final_store_and_exit, user_data_copy, db_open, db,
                   refused, undeleted, account, guiVars, mutexes, operationVars, searchVars>>

\* DELETE, in order.  A refused one is logged and dropped.
DeleteRow ==
    /\ pc["store"] = "delete"
    /\ removed_copy # <<>>
    /\ removed_copy' = Tail(removed_copy)
    /\ \/ /\ db_open
          /\ db' = Without(db, {Head(removed_copy)})
          /\ UNCHANGED <<refused, undeleted>>
       \/ /\ RefusedBySQLite("DELETE")
          /\ refused' = refused \cup {Head(removed_copy)}
          /\ undeleted' = undeleted \cup {Head(removed_copy)}
          /\ db' = db
    /\ UNCHANGED <<pc, data_store_exit, final_store_and_exit, user_data_copy, db_open,
                   accountVars, guiVars, mutexes, operationVars, searchVars>>

\* A statement on a handle that did not open leaves the error message unset, and
\* the thread prints and frees it: undefined, the process may go on or end.
AbortOnUnsetMessage ==
    /\ ~db_open
    /\ \/ pc["store"] = "insert" /\ DOMAIN user_data_copy # {}
       \/ pc["store"] = "delete" /\ removed_copy # <<>>
    /\ pc' = [pc EXCEPT !["store"] = "aborted"]
    /\ UNCHANGED <<accountVars, guiVars, mutexes, operationVars, searchVars, storeVars>>

\* (fault) the exit flag is read again at the end of the cycle
FinishCycleRereading ==
    /\ pc["store"] = "delete"
    /\ removed_copy = <<>>
    /\ pc' = [pc EXCEPT !["store"] = IF data_store_exit THEN "done" ELSE "sleep"]
    /\ UNCHANGED <<accountVars, guiVars, mutexes, operationVars, searchVars, storeVars>>

FinishCycle ==
    /\ pc["store"] = "delete"
    /\ removed_copy = <<>>
    /\ pc' = [pc EXCEPT !["store"] = IF final_store_and_exit THEN "done" ELSE "sleep"]
    /\ UNCHANGED <<accountVars, guiVars, mutexes, operationVars, searchVars, storeVars>>

------------------------------------------------------------------------------
Gui ==
    \/ CallOperationEvent \/ PushOperation \/ NotifyOperation
    \/ CallSearchEvent \/ SetSearchTerm \/ NotifySearch
    \/ ResetDisplayList
    \/ Logout

Stop ==
    \/ StopSearch \/ NotifyStopSearch \/ JoinSearch
    \/ StopOperation \/ NotifyStopOperation \/ JoinOperation
    \/ StopStore \/ JoinStore

OperationProcess ==
    \/ WaitForOperation \/ LockOperation \/ PopOperation \/ ApplyOperation \/ FinishOperation

SearchBarProcess ==
    \/ WaitForSearch \/ ExitSearch \/ LockSearchTerm \/ SearchAccount \/ PublishSearch

PeriodicDataStore ==
    \/ StartCycle \/ CopyAccount
    \/ \E id \in DOMAIN user_data_copy : InsertRow(id)
    \/ CollectRemoved \/ DeleteRow \/ FinishCycle \/ AbortOnUnsetMessage

\* Once the process has ended in the middle of a cycle, nothing moves any more.
Alive == pc["store"] # "aborted"

Over == (pc["gui"] = "destroyed" \/ ~Alive) /\ UNCHANGED vars

Next ==
    \/ /\ Alive
       /\ \/ Gui \/ Stop
          \/ OperationProcess \/ SearchBarProcess \/ PeriodicDataStore
          \/ WakeUp("operation") \/ WakeUp("search")
    \/ Over

Spec == Init /\ [][Next]_vars

\* Every thread that can go on does: the operating system schedules them, the
\* sleep of the data-store thread ends, and a mutex that becomes free stays free
\* for its waiter often enough (its holder releases it and the queue it drains
\* only grows through the waiter).  The GUI finishes the calls it started, but
\* nobody has to start one or to log out, and no wake-up has to be spurious.
GuiCall ==
    PushOperation \/ NotifyOperation \/ SetSearchTerm \/ NotifySearch \/ Stop

Fairness ==
    /\ WF_vars(Alive /\ GuiCall)
    /\ WF_vars(Alive /\ OperationProcess)
    /\ WF_vars(Alive /\ SearchBarProcess)
    /\ WF_vars(Alive /\ PeriodicDataStore)

FairSpec == Spec /\ Fairness

------------------------------------------------------------------------------
\* Properties.

\* Every variable keeps its shape; in particular what reaches the operation
\* thread is an operation, or the NONE of the shutdown.
TypeOK ==
    /\ DOMAIN pc = Threads
    /\ IsList(account)
    /\ removed_ids \in Seq(Nat) /\ removed_copy \in Seq(Nat)
    /\ operation_mutex \in {"free", "held"} /\ search_term_mutex \in {"free", "held"}
    /\ \A i \in DOMAIN operation_queue : operation_queue[i] \in Operations(Nat) \cup {None}
    /\ current_operation \in Operations(Nat) \cup {None}
    /\ {operation_event_state, operation_loop_exit, search_event_state, search_loop_exit,
        data_store_exit, final_store_and_exit, db_open} \subseteq BOOLEAN
    /\ \A rows \in {display_passwords, search_result, found.rows, user_data_copy, db} :
          DOMAIN rows \subseteq Nat /\ \A id \in DOMAIN rows : rows[id] \in Password
    /\ refused \cup undeleted \subseteq Nat

\* operation_process never takes the front of an empty queue: the flag that let
\* it through its wait is only set together with a push, and reset with the last
\* pop (operation_event, stop_processes, process_operation_event.cpp:12-18).
NoPopFromEmptyQueue ==
    /\ pc["operation"] = "pop" => operation_queue # <<>>
    /\ operation_mutex = "free" /\ pc["operation"] \in {"lock", "wait"} =>
          (operation_event_state <=> operation_queue # <<>>)

\* No lost wake-up: a thread sleeps on its condition variable while there is work
\* for it only as long as the notify of the call that brought it is still to come.
NoLostWakeUp ==
    /\ pc["operation"] = "wait" /\ ~OperationIdle =>
          pc["gui"] \in {"operation_notify", "stop_operation_notify"}
    /\ pc["search"] = "wait" /\ search_event_state =>
          pc["gui"] \in {"search_notify", "stop_search_notify"}

\* The account once everything popped or queued is applied.
PendingOperations ==
    (IF pc["operation"] = "apply" THEN <<current_operation>> ELSE <<>>) \o operation_queue

SubmittedList == After(account, PendingOperations)

\* Every operation takes effect exactly once and in the order of submission: what
\* the account is and what is queued for it stand for one list, which changes by
\* the submitted operation when it is pushed and never otherwise.
EffectOnceInOrder ==
    [][SubmittedList' = IF pc["gui"] = "operation_event" /\ pc'["gui"] = "operation_notify"
                        THEN Applied(SubmittedList, argument)
                        ELSE SubmittedList]_vars

\* When no search is being requested or answered, search_result answers the last
\* term, so a term set while a search runs is not lost when the flag is reset; and
\* at any time it holds matches of the term it answers, and nothing left over from
\* the term before (process_search_bar.cpp:34-63 against search_event).
SearchSettled ==
    /\ ~search_event_state /\ search_term_mutex = "free" => answered = search_term
    /\ \A id \in DOMAIN search_result :
          answered # Empty /\ \E f \in SearchedFields : search_result[id][f] \in Matches[answered]

\* A row of the database, or one on its way there, belongs to an entry, or its
\* DELETE is still to come, or was refused: an entry removed while the store
\* thread has a copy of it does not stay in the database for any other reason
\* (process_data_store.cpp copies before it collects).
RowsAccountedFor ==
    DOMAIN db \cup DOMAIN user_data_copy \subseteq
        DOMAIN account.entries \cup Range(removed_ids) \cup Range(removed_copy) \cup undeleted

\* After a logout the database holds exactly the entries, each as SQLite reads its
\* fields, whatever was refused in earlier cycles, but for the rows it refused to write
\* in the final one and the removed ones it ever refused to delete: no refused
\* statement, handle that did not open, row that cannot be stored or row stored as
\* another text keeps another row from being saved.
FinalSave ==
    pc["gui"] = "destroyed" =>
        \A id \in (DOMAIN account.entries \cup DOMAIN db) \ (refused \cup undeleted) :
            /\ id \in DOMAIN account.entries \cap DOMAIN db
            /\ db[id] = StoredAs[account.entries[id]]

\* vsWindowsUi.cpp:519-520: "The data-store thread does one final save before it
\* exits, so recent changes are still written to the database."  A removal too is
\* written, unless SQLite refuses it in that final cycle.
RemovalsSaved ==
    pc["gui"] = "destroyed" => DOMAIN db \subseteq DOMAIN account.entries \cup refused

\* What the GUI thread leaves to the others gets done: submitted operations reach the
\* account (operation_event), and a search runs to its end and is answered, with the
\* newest term, unless the user logs out first (search_event).
RequestsServed ==
    /\ PendingOperations # <<>> ~> PendingOperations = <<>>
    /\ search_event_state ~> (\/ ~search_event_state /\ answered = search_term
                              \/ search_loop_exit)

\* A logout ends: no thread waits for another for ever.
LogoutEnds == pc["gui"] = "stop_search" ~> pc["gui"] = "destroyed"

\* Without refused statements the database catches up with the account, whether
\* or not the user logs out, but for entries that cannot be stored.
EverythingStored ==
    []<>(/\ DOMAIN db \subseteq DOMAIN account.entries
         /\ \A id \in DOMAIN account.entries :
               \/ account.entries[id] \in Unstorable
               \/ id \in DOMAIN db /\ db[id] = StoredAs[account.entries[id]])
=============================================================================
