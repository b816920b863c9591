------------------------ MODULE DisplayContentProofs ------------------------
(***************************************************************************)
(* Theorems of DisplayContent for every value of its constants.             *)
(***************************************************************************)
EXTENDS DisplayContent, PasswordsProofs

------------------------------------------------------------------------------
\* The inductive invariant.

\* Where the GUI thread is in its calls, and in the destructor.
Calls == {"idle", "operation_event", "operation_notify", "search_event", "search_notify"}
SearchStopping == {"stop_search_notify", "join_search"}
OperationStopping == {"stop_operation_notify", "join_operation"}
StoreStopping == {"join_store", "destroyed"}
GuiPlaces ==
    Calls \cup SearchStopping \cup OperationStopping \cup StoreStopping
        \cup {"stop_search", "stop_operation", "stop_store"}

\* Each thread is somewhere in its program, and the GUI holds what it passes on.
Places ==
    /\ pc["gui"] \in GuiPlaces
    /\ pc["operation"] \in {"lock", "wait", "pop", "apply", "finish", "done"}
    /\ pc["search"] \in {"lock", "wait", "search", "publish", "done"}
    /\ pc["store"] \in {"sleep", "copy", "insert", "delete", "done", "aborted"}
    /\ operation_queue \in Seq(Operations(Nat) \cup {None})
    /\ pc["gui"] = "operation_event" => argument \in Operations(Nat)

\* A mutex held across steps is held by the thread that needs it.
MutexesHeld ==
    /\ operation_mutex = "held" <=> pc["operation"] \in {"pop", "apply", "finish"}
    /\ search_term_mutex = "held" <=> pc["search"] \in {"search", "publish"}

\* The destructor stops the threads one after the other.
StoppedInOrder ==
    /\ search_loop_exit <=>
          pc["gui"] \in SearchStopping \cup {"stop_operation"} \cup OperationStopping
                           \cup {"stop_store"} \cup StoreStopping
    /\ operation_loop_exit <=> pc["gui"] \in OperationStopping \cup {"stop_store"} \cup StoreStopping
    /\ data_store_exit <=> pc["gui"] \in StoreStopping
    /\ pc["gui"] \in {"stop_store"} \cup StoreStopping => pc["operation"] = "done"
    /\ pc["gui"] = "destroyed" => pc["store"] = "done"
    /\ final_store_and_exit => data_store_exit
    /\ pc["store"] = "done" => final_store_and_exit

\* What the operation thread finds when it locks is told by the flag, and the flag
\* stays set while it works.
FlagTellsQueue ==
    /\ pc["operation"] \in {"lock", "wait", "pop"} =>
          (operation_event_state <=> operation_queue # <<>>)
    /\ pc["operation"] \in {"pop", "apply", "finish"} => operation_event_state

\* What the search found are matches of the term it looked for, which is still the
\* newest one: no other can be set while the mutex is held.
SearchIsOfTerm ==
    /\ pc["search"] = "publish" => found.term = search_term
    /\ \A id \in DOMAIN found.rows :
          found.term # Empty /\ \E f \in SearchedFields : found.rows[id][f] \in Matches[found.term]

\* The copies of the store thread are empty but in the part of the cycle they are for.
CopiesUsedUp ==
    /\ pc["store"] \notin {"insert", "aborted"} => DOMAIN user_data_copy = {}
    /\ pc["store"] \notin {"delete", "aborted"} => removed_copy = <<>>

\* An id queued for its DELETE belongs to no entry, and never will: ids only grow.
RemovedForGood ==
    \A id \in Range(removed_ids) \cup Range(removed_copy) :
        id \notin DOMAIN account.entries /\ id <= account.last_id

\* Saved as SQLite reads its fields, or refused.
Saved(id) == id \in refused \/ (id \in DOMAIN db /\ db[id] = StoredAs[account.entries[id]])

\* In the final cycle nobody changes the account any more: every entry is in the copy
\* or saved, then every entry is saved and every removed id collected.
FinalCycle ==
    final_store_and_exit =>
        /\ pc["store"] = "insert" =>
              /\ \A id \in DOMAIN account.entries : id \in DOMAIN user_data_copy \/ Saved(id)
              /\ \A id \in DOMAIN user_data_copy :
                    id \in DOMAIN account.entries /\ user_data_copy[id] = account.entries[id]
        /\ pc["store"] \in {"delete", "done"} =>
              /\ \A id \in DOMAIN account.entries : Saved(id)
              /\ removed_ids = <<>>

IInv ==
    /\ TypeOK
    /\ Places
    /\ MutexesHeld
    /\ StoppedInOrder
    /\ FlagTellsQueue
    /\ NoLostWakeUp
    /\ SearchSettled /\ SearchIsOfTerm
    /\ CopiesUsedUp
    /\ RowsAccountedFor
    /\ RemovedForGood
    /\ FinalCycle
    /\ IsList(SubmittedList)

\* What a step leaves alone is listed in these tuples.
USE DEF accountVars, guiVars, mutexes, operationVars, searchVars, storeVars,
        Step, StepNotifying, Notified, Threads

------------------------------------------------------------------------------
\* Shapes.

\* Rows of passwords by id, as the account, the grid, the copy and the table hold them.
AreRows(rows) == DOMAIN rows \subseteq Nat /\ \A id \in DOMAIN rows : rows[id] \in Password

\* What an INSERT stores is a password.
LEMMA StoredIsPassword == \A row \in Password : StoredAs[row] \in Password
  BY DisplayContentAssumption

\* The entries of a list are rows.
LEMMA ListHoldsRows ==
    ASSUME NEW list, IsList(list)
    PROVE  AreRows(list.entries)
  BY DEF IsList, AreRows

\* An operation on some ids is an operation on ids.
LEMMA OperationsGrow ==
    ASSUME NEW ids, ids \subseteq Nat
    PROVE  Operations(ids) \subseteq Operations(Nat)
  BY DEF Operations

\* The constructor loads a list.
LEMMA InitTypes == Init => TypeOK /\ Places
  <1> SUFFICES ASSUME Init PROVE TypeOK /\ Places
    OBVIOUS
  <1>1. IsList(account) /\ AreRows(account.entries)
    BY DisplayContentAssumption, ListHoldsRows DEF Init
  <1>2. /\ removed_ids \in Seq(Nat) /\ removed_copy \in Seq(Nat)
        /\ operation_queue \in Seq(Operations(Nat) \cup {None})
        /\ DOMAIN operation_queue = {}
    BY DEF Init
  <1>3. DOMAIN pc = {"gui", "operation", "search", "store"}
    BY DEF Init
  <1>4. AreRows(<<>>)
    BY DEF AreRows
  <1>5. \A rows \in {display_passwords, search_result, found.rows, user_data_copy, db} : AreRows(rows)
    BY <1>1, <1>4 DEF Init
  <1>6. TypeOK
    BY <1>1, <1>2, <1>3, <1>5 DEF TypeOK, Init, AreRows
  <1>7. Places
    BY <1>2 DEF Places, Init, GuiPlaces, Calls
  <1> QED
    BY <1>6, <1>7

\* Every step keeps the shapes, one thread after the other.
LEMMA TypesStep ==
    ASSUME TypeOK, Places, [Next]_vars
    PROVE  TypeOK' /\ Places'
  <1> USE DEF GuiPlaces, Calls, SearchStopping, OperationStopping, StoreStopping
  <1> DEFINE Op == Operations(Nat) \cup {None}
  <1>1. CASE Gui
    <2>1. /\ DOMAIN pc' = Threads
          /\ pc'["gui"] \in GuiPlaces
          /\ pc'["operation"] \in {"lock", "wait", "pop", "apply", "finish", "done"}
          /\ pc'["search"] \in {"lock", "wait", "search", "publish", "done"}
          /\ pc'["store"] = pc["store"]
      BY <1>1 DEF TypeOK, Places, Gui, CallOperationEvent, PushOperation, NotifyOperation,
                  CallSearchEvent, SetSearchTerm, NotifySearch, ResetDisplayList, Logout
    <2>2. pc'["gui"] = "operation_event" => argument' \in Operations(Nat)
      <3>1. DOMAIN display_passwords \subseteq Nat
        BY DEF TypeOK
      <3>2. CallOperationEvent => argument' \in Operations(Nat)
        BY <3>1, OperationsGrow DEF CallOperationEvent
      <3> QED
        BY <1>1, <3>2
        DEF TypeOK, Gui, PushOperation, NotifyOperation, CallSearchEvent, SetSearchTerm,
            NotifySearch, ResetDisplayList, Logout
    <2>3. operation_queue' \in Seq(Op)
      BY <1>1 DEF Places, Gui, CallOperationEvent, PushOperation, NotifyOperation,
                  CallSearchEvent, SetSearchTerm, NotifySearch, ResetDisplayList, Logout
    <2>4. AreRows(display_passwords')
      <3>1. AreRows(account.entries)
        BY ListHoldsRows DEF TypeOK
      <3>2. AreRows(display_passwords)
        BY DEF TypeOK, AreRows
      <3> QED
        BY <1>1, <3>1, <3>2
        DEF Gui, CallOperationEvent, PushOperation, NotifyOperation, CallSearchEvent, SetSearchTerm,
            NotifySearch, ResetDisplayList, Logout
    <2>5. /\ UNCHANGED <<account, removed_ids, removed_copy, mutexes, current_operation,
                         operation_loop_exit, search_loop_exit, data_store_exit, final_store_and_exit,
                         db_open, search_result, found, user_data_copy, db, refused, undeleted>>
          /\ {operation_event_state', search_event_state'} \subseteq BOOLEAN
      BY <1>1 DEF TypeOK, Gui, CallOperationEvent, PushOperation, NotifyOperation, CallSearchEvent,
                  SetSearchTerm, NotifySearch, ResetDisplayList, Logout
    <2>6. \A i \in DOMAIN operation_queue' : operation_queue'[i] \in Op
      BY <2>3
    <2> QED
      BY <2>1, <2>2, <2>3, <2>4, <2>5, <2>6 DEF TypeOK, Places, AreRows
  <1>2. CASE Stop
    <2> USE DEF Stop, StopSearch, NotifyStopSearch, JoinSearch, StopOperation, NotifyStopOperation,
                JoinOperation, StopStore, JoinStore
    <2>1. /\ DOMAIN pc' = Threads
          /\ pc'["gui"] \in GuiPlaces /\ pc'["gui"] # "operation_event"
          /\ pc'["operation"] \in {"lock", "wait", "pop", "apply", "finish", "done"}
          /\ pc'["search"] \in {"lock", "wait", "search", "publish", "done"}
          /\ pc'["store"] = pc["store"]
      <3>1. CASE StopSearch \/ JoinSearch \/ StopOperation
        BY <3>1 DEF TypeOK, Places
      <3>2. CASE JoinOperation \/ StopStore \/ JoinStore
        BY <3>2 DEF TypeOK, Places
      <3>3. CASE NotifyStopSearch \/ NotifyStopOperation
        BY <3>3 DEF TypeOK, Places
      <3> QED
        BY <1>2, <3>1, <3>2, <3>3
    <2>2. operation_queue' \in Seq(Op)
      BY <1>2 DEF Places
    <2>3. \A i \in DOMAIN operation_queue' : operation_queue'[i] \in Op
      BY <2>2
    <2>4. /\ UNCHANGED <<accountVars, guiVars, mutexes, removed_copy, current_operation,
                         final_store_and_exit, db_open, search_result, found, user_data_copy, db,
                         refused, undeleted>>
          /\ {operation_event_state', operation_loop_exit', search_event_state', search_loop_exit',
              data_store_exit'} \subseteq BOOLEAN
      BY <1>2 DEF TypeOK
    <2> QED
      BY <2>1, <2>2, <2>3, <2>4 DEF TypeOK, Places
  <1>3. CASE OperationProcess \/ WakeUp("operation")
    <2> USE DEF OperationProcess, WaitForOperation, LockOperation, PopOperation, ApplyOperation,
                FinishOperation, WakeUp
    <2>1. /\ DOMAIN pc' = Threads
          /\ pc'["operation"] \in {"lock", "wait", "pop", "apply", "finish", "done"}
          /\ \A thread \in {"gui", "search", "store"} : pc'[thread] = pc[thread]
      BY <1>3 DEF TypeOK, Places
    <2>2. operation_queue' \in Seq(Op) /\ current_operation' \in Op
      <3>1. operation_queue \in Seq(Op) /\ current_operation \in Op
        BY DEF TypeOK, Places
      <3>2. CASE PopOperation
        <4>1. operation_queue # <<>>
          BY <3>2
        <4>2. Head(operation_queue) \in Op /\ Tail(operation_queue) \in Seq(Op)
          BY <3>1, <4>1, RangeOfPop
        <4> QED
          BY <3>2, <4>2
      <3>3. CASE ~PopOperation
        BY <1>3, <3>1, <3>3
      <3> QED
        BY <3>2, <3>3
    <2>3. \A i \in DOMAIN operation_queue' : operation_queue'[i] \in Op
      BY <2>2
    <2>4. IsList(account')
      BY <1>3, AppliedIsList DEF TypeOK
    <2>5. removed_ids' \in Seq(Nat)
      <3>1. current_operation.operation_type = "REMOVE" => current_operation.p_id \in Nat
        BY DEF TypeOK, Operations, None
      <3>2. CASE ApplyOperation
        BY <3>1, <3>2, AppendProperties DEF TypeOK, Removed
      <3>3. CASE ~ApplyOperation
        BY <1>3, <3>3 DEF TypeOK
      <3> QED
        BY <3>2, <3>3
    <2>6. /\ UNCHANGED <<guiVars, searchVars, storeVars, search_term_mutex, operation_loop_exit>>
          /\ operation_event_state' \in BOOLEAN /\ operation_mutex' \in {"free", "held"}
      BY <1>3 DEF TypeOK
    <2> QED
      BY <2>1, <2>2, <2>3, <2>4, <2>5, <2>6 DEF TypeOK, Places
  <1>4. CASE SearchBarProcess \/ WakeUp("search")
    <2> USE DEF SearchBarProcess, WaitForSearch, ExitSearch, LockSearchTerm, SearchAccount,
                PublishSearch, WakeUp
    <2>1. /\ DOMAIN pc' = Threads
          /\ pc'["search"] \in {"lock", "wait", "search", "publish", "done"}
          /\ \A thread \in {"gui", "operation", "store"} : pc'[thread] = pc[thread]
      BY <1>4 DEF TypeOK, Places
    <2>2. AreRows(search_result) /\ AreRows(found.rows)
      BY DEF TypeOK, AreRows
    <2>3. SearchAccount => AreRows(found'.rows)
      <3>1. AreRows(account.entries)
        BY ListHoldsRows DEF TypeOK
      <3>2. AreRows(SearchResult(account, search_term))
        BY <3>1 DEF SearchResult, Restrict, AreRows
      <3> QED
        BY <3>2
    <2>4. AreRows(search_result') /\ AreRows(found'.rows)
      <3>1. CASE SearchAccount
        BY <2>2, <2>3, <3>1
      <3>2. CASE ~SearchAccount
        BY <1>4, <2>2, <3>2
      <3> QED
        BY <3>1, <3>2
    <2>5. /\ UNCHANGED <<accountVars, guiVars, operationVars, storeVars, operation_mutex,
                         search_loop_exit>>
          /\ search_event_state' \in BOOLEAN /\ search_term_mutex' \in {"free", "held"}
      BY <1>4 DEF TypeOK
    <2> QED
      BY <2>1, <2>4, <2>5 DEF TypeOK, Places, AreRows
  <1>5. CASE PeriodicDataStore
    <2>1. /\ DOMAIN pc' = Threads
          /\ pc'["store"] \in {"sleep", "copy", "insert", "delete", "done", "aborted"}
          /\ \A thread \in {"gui", "operation", "search"} : pc'[thread] = pc[thread]
          /\ UNCHANGED <<account, guiVars, mutexes, operationVars, searchVars, data_store_exit>>
          /\ final_store_and_exit' \in BOOLEAN /\ db_open' \in BOOLEAN
      BY <1>5 DEF TypeOK, Places, PeriodicDataStore, StartCycle, CopyAccount, InsertRow,
                  CollectRemoved, DeleteRow, FinishCycle, AbortOnUnsetMessage
    <2>2. removed_ids' \in Seq(Nat) /\ removed_copy' \in Seq(Nat)
      <3>1. CASE DeleteRow
        BY <3>1, RangeOfPop DEF DeleteRow, TypeOK
      <3>2. CASE CollectRemoved
        BY <3>2 DEF CollectRemoved, TypeOK
      <3>3. CASE ~DeleteRow /\ ~CollectRemoved
        <4>1. UNCHANGED <<removed_ids, removed_copy>>
          BY <1>5, <3>3
          DEF PeriodicDataStore, StartCycle, CopyAccount, InsertRow, FinishCycle, AbortOnUnsetMessage
        <4> QED
          BY <4>1 DEF TypeOK
      <3> QED
        BY <3>1, <3>2, <3>3
    <2>3. AreRows(user_data_copy) /\ AreRows(db)
      BY DEF TypeOK, AreRows
    <2>4. /\ AreRows(user_data_copy') /\ AreRows(db')
          /\ refused' \cup undeleted' \subseteq Nat
      <3>1. CASE CopyAccount
        BY <2>3, <3>1, ListHoldsRows DEF CopyAccount, TypeOK
      <3>2. ASSUME NEW id \in DOMAIN user_data_copy, InsertRow(id)
            PROVE  /\ AreRows(user_data_copy') /\ AreRows(db')
                   /\ refused' \cup undeleted' \subseteq Nat
        BY <2>3, <3>2, StoredIsPassword DEF InsertRow, Put, Without, Restrict, AreRows, TypeOK
      <3>3. CASE DeleteRow
        BY <2>3, <3>3, RangeOfPop DEF DeleteRow, Without, Restrict, AreRows, TypeOK
      <3>4. CASE StartCycle \/ CollectRemoved \/ FinishCycle \/ AbortOnUnsetMessage
        BY <2>3, <3>4 DEF StartCycle, CollectRemoved, FinishCycle, AbortOnUnsetMessage, TypeOK
      <3> QED
        BY <1>5, <3>1, <3>2, <3>3, <3>4 DEF PeriodicDataStore
    <2> QED
      BY <2>1, <2>2, <2>4 DEF TypeOK, Places, AreRows
  <1>6. CASE UNCHANGED vars
    BY <1>6 DEF vars, TypeOK, Places
  <1> QED
    BY <1>1, <1>2, <1>3, <1>4, <1>5, <1>6 DEF Next, Over

------------------------------------------------------------------------------
\* One part of the invariant after the other.

\* A mutex is taken and released by its thread only.
LEMMA MutexesStep ==
    ASSUME TypeOK, Places, MutexesHeld, [Next]_vars
    PROVE  MutexesHeld'
  <1> USE DEF TypeOK, Places, MutexesHeld
  <1>1. CASE Gui
    BY <1>1 DEF Gui, CallOperationEvent, PushOperation, NotifyOperation, CallSearchEvent,
           SetSearchTerm, NotifySearch, ResetDisplayList, Logout
  <1>2. CASE Stop
    BY <1>2 DEF Stop, StopSearch, NotifyStopSearch, JoinSearch, StopOperation,
           NotifyStopOperation, JoinOperation, StopStore, JoinStore
  <1>3. CASE OperationProcess \/ WakeUp("operation")
    BY <1>3 DEF OperationProcess, WaitForOperation, LockOperation, PopOperation,
           ApplyOperation, FinishOperation, WakeUp
  <1>4. CASE SearchBarProcess \/ WakeUp("search")
    BY <1>4 DEF SearchBarProcess, WaitForSearch, ExitSearch, LockSearchTerm, SearchAccount,
           PublishSearch, WakeUp
  <1>5. CASE PeriodicDataStore
    <2>1. CASE StartCycle
      BY <2>1 DEF StartCycle
    <2>2. CASE CopyAccount
      BY <2>2 DEF CopyAccount
    <2>3. ASSUME NEW id \in DOMAIN user_data_copy, InsertRow(id) PROVE MutexesHeld'
      BY <2>3 DEF InsertRow
    <2>4. CASE CollectRemoved
      BY <2>4 DEF CollectRemoved
    <2>5. CASE DeleteRow
      BY <2>5 DEF DeleteRow
    <2>6. CASE FinishCycle
      BY <2>6 DEF FinishCycle
    <2>7. CASE AbortOnUnsetMessage
      BY <2>7 DEF AbortOnUnsetMessage
    <2> QED
      BY <1>5, <2>1, <2>2, <2>3, <2>4, <2>5, <2>6, <2>7 DEF PeriodicDataStore
  <1>6. CASE UNCHANGED vars
    BY <1>6 DEF vars
  <1> QED
    BY <1>1, <1>2, <1>3, <1>4, <1>5, <1>6 DEF Next, Over

\* The destructor sets an exit flag, joins its thread, and goes on to the next.
LEMMA OrderStep ==
    ASSUME TypeOK, Places, StoppedInOrder, [Next]_vars
    PROVE  StoppedInOrder'
  <1> USE DEF TypeOK, Places, StoppedInOrder, GuiPlaces, Calls, SearchStopping,
          OperationStopping, StoreStopping
  <1>1. CASE Gui
    BY <1>1 DEF Gui, CallOperationEvent, PushOperation, NotifyOperation, CallSearchEvent,
           SetSearchTerm, NotifySearch, ResetDisplayList, Logout
  <1>2. CASE Stop
    BY <1>2 DEF Stop, StopSearch, NotifyStopSearch, JoinSearch, StopOperation,
           NotifyStopOperation, JoinOperation, StopStore, JoinStore
  <1>3. CASE OperationProcess \/ WakeUp("operation")
    BY <1>3 DEF OperationProcess, WaitForOperation, LockOperation, PopOperation,
           ApplyOperation, FinishOperation, WakeUp
  <1>4. CASE SearchBarProcess \/ WakeUp("search")
    BY <1>4 DEF SearchBarProcess, WaitForSearch, ExitSearch, LockSearchTerm, SearchAccount,
           PublishSearch, WakeUp
  <1>5. CASE PeriodicDataStore
    <2>1. CASE StartCycle
      BY <2>1 DEF StartCycle
    <2>2. CASE CopyAccount
      BY <2>2 DEF CopyAccount
    <2>3. ASSUME NEW id \in DOMAIN user_data_copy, InsertRow(id) PROVE StoppedInOrder'
      BY <2>3 DEF InsertRow
    <2>4. CASE CollectRemoved
      BY <2>4 DEF CollectRemoved
    <2>5. CASE DeleteRow
      BY <2>5 DEF DeleteRow
    <2>6. CASE FinishCycle
      BY <2>6 DEF FinishCycle
    <2>7. CASE AbortOnUnsetMessage
      BY <2>7 DEF AbortOnUnsetMessage
    <2> QED
      BY <1>5, <2>1, <2>2, <2>3, <2>4, <2>5, <2>6, <2>7 DEF PeriodicDataStore
  <1>6. CASE UNCHANGED vars
    BY <1>6 DEF vars
  <1> QED
    BY <1>1, <1>2, <1>3, <1>4, <1>5, <1>6 DEF Next, Over

\* A push sets the flag, and an iteration that empties the queue resets it.
LEMMA FlagStep ==
    ASSUME TypeOK, Places, MutexesHeld, FlagTellsQueue, [Next]_vars
    PROVE  FlagTellsQueue'
  <1> USE DEF TypeOK, Places, MutexesHeld, FlagTellsQueue, OperationIdle
  <1>1. CASE Gui
    BY <1>1 DEF Gui, CallOperationEvent, PushOperation, NotifyOperation, CallSearchEvent,
           SetSearchTerm, NotifySearch, ResetDisplayList, Logout
  <1>2. CASE Stop
    BY <1>2 DEF Stop, StopSearch, NotifyStopSearch, JoinSearch, StopOperation,
           NotifyStopOperation, JoinOperation, StopStore, JoinStore
  <1>3. CASE OperationProcess \/ WakeUp("operation")
    <2>1. CASE WaitForOperation
      BY <2>1 DEF WaitForOperation
    <2>2. CASE LockOperation
      BY <2>2 DEF LockOperation
    <2>3. CASE PopOperation
      BY <2>3 DEF PopOperation
    <2>4. CASE ApplyOperation
      BY <2>4 DEF ApplyOperation
    <2>5. CASE FinishOperation
      BY <2>5 DEF FinishOperation
    <2>6. CASE WakeUp("operation")
      BY <2>6 DEF WakeUp
    <2> QED
      BY <1>3, <2>1, <2>2, <2>3, <2>4, <2>5, <2>6 DEF OperationProcess
  <1>4. CASE SearchBarProcess \/ WakeUp("search")
    BY <1>4 DEF SearchBarProcess, WaitForSearch, ExitSearch, LockSearchTerm, SearchAccount,
           PublishSearch, WakeUp
  <1>5. CASE PeriodicDataStore
    <2>1. CASE StartCycle
      BY <2>1 DEF StartCycle
    <2>2. CASE CopyAccount
      BY <2>2 DEF CopyAccount
    <2>3. ASSUME NEW id \in DOMAIN user_data_copy, InsertRow(id) PROVE FlagTellsQueue'
      BY <2>3 DEF InsertRow
    <2>4. CASE CollectRemoved
      BY <2>4 DEF CollectRemoved
    <2>5. CASE DeleteRow
      BY <2>5 DEF DeleteRow
    <2>6. CASE FinishCycle
      BY <2>6 DEF FinishCycle
    <2>7. CASE AbortOnUnsetMessage
      BY <2>7 DEF AbortOnUnsetMessage
    <2> QED
      BY <1>5, <2>1, <2>2, <2>3, <2>4, <2>5, <2>6, <2>7 DEF PeriodicDataStore
  <1>6. CASE UNCHANGED vars
    BY <1>6 DEF vars
  <1> QED
    BY <1>1, <1>2, <1>3, <1>4, <1>5, <1>6 DEF Next, Over

\* A part of the cycle ends when its copy is used up.
LEMMA CopiesStep ==
    ASSUME TypeOK, Places, CopiesUsedUp, [Next]_vars
    PROVE  CopiesUsedUp'
  <1> USE DEF TypeOK, Places, CopiesUsedUp
  <1>1. CASE Gui
    BY <1>1 DEF Gui, CallOperationEvent, PushOperation, NotifyOperation, CallSearchEvent,
           SetSearchTerm, NotifySearch, ResetDisplayList, Logout
  <1>2. CASE Stop
    BY <1>2 DEF Stop, StopSearch, NotifyStopSearch, JoinSearch, StopOperation,
           NotifyStopOperation, JoinOperation, StopStore, JoinStore
  <1>3. CASE OperationProcess \/ WakeUp("operation")
    BY <1>3 DEF OperationProcess, WaitForOperation, LockOperation, PopOperation,
           ApplyOperation, FinishOperation, WakeUp
  <1>4. CASE SearchBarProcess \/ WakeUp("search")
    BY <1>4 DEF SearchBarProcess, WaitForSearch, ExitSearch, LockSearchTerm, SearchAccount,
           PublishSearch, WakeUp
  <1>5. CASE PeriodicDataStore
    BY <1>5 DEF PeriodicDataStore, StartCycle, CopyAccount, InsertRow, CollectRemoved,
           DeleteRow, FinishCycle, AbortOnUnsetMessage
  <1>6. CASE UNCHANGED vars
    BY <1>6 DEF vars
  <1> QED
    BY <1>1, <1>2, <1>3, <1>4, <1>5, <1>6 DEF Next, Over

\* A thread goes to sleep only without work, and who brings work notifies next.
LEMMA WakeUpStep ==
    ASSUME TypeOK, Places, MutexesHeld, NoLostWakeUp, [Next]_vars
    PROVE  NoLostWakeUp'
  <1> USE DEF TypeOK, Places, MutexesHeld, NoLostWakeUp, OperationIdle
  <1>1. CASE Gui
    BY <1>1 DEF Gui, CallOperationEvent, PushOperation, NotifyOperation, CallSearchEvent,
           SetSearchTerm, NotifySearch, ResetDisplayList, Logout
  <1>2. CASE Stop
    BY <1>2 DEF Stop, StopSearch, NotifyStopSearch, JoinSearch, StopOperation,
           NotifyStopOperation, JoinOperation, StopStore, JoinStore
  <1>3. CASE OperationProcess \/ WakeUp("operation")
    BY <1>3 DEF OperationProcess, WaitForOperation, LockOperation, PopOperation,
           ApplyOperation, FinishOperation, WakeUp
  <1>4. CASE SearchBarProcess \/ WakeUp("search")
    BY <1>4 DEF SearchBarProcess, WaitForSearch, ExitSearch, LockSearchTerm, SearchAccount,
           PublishSearch, WakeUp
  <1>5. CASE PeriodicDataStore
    <2>1. CASE StartCycle
      BY <2>1 DEF StartCycle
    <2>2. CASE CopyAccount
      BY <2>2 DEF CopyAccount
    <2>3. ASSUME NEW id \in DOMAIN user_data_copy, InsertRow(id) PROVE NoLostWakeUp'
      BY <2>3 DEF InsertRow
    <2>4. CASE CollectRemoved
      BY <2>4 DEF CollectRemoved
    <2>5. CASE DeleteRow
      BY <2>5 DEF DeleteRow
    <2>6. CASE FinishCycle
      BY <2>6 DEF FinishCycle
    <2>7. CASE AbortOnUnsetMessage
      BY <2>7 DEF AbortOnUnsetMessage
    <2> QED
      BY <1>5, <2>1, <2>2, <2>3, <2>4, <2>5, <2>6, <2>7 DEF PeriodicDataStore
  <1>6. CASE UNCHANGED vars
    BY <1>6 DEF vars
  <1> QED
    BY <1>1, <1>2, <1>3, <1>4, <1>5, <1>6 DEF Next, Over

\* The term cannot change between the search for it and its answer, and a term set
\* later sets the flag again.
LEMMA SearchStep ==
    ASSUME TypeOK, Places, MutexesHeld, SearchSettled, SearchIsOfTerm, [Next]_vars
    PROVE  (SearchSettled /\ SearchIsOfTerm)'
  <1> USE DEF TypeOK, Places, MutexesHeld, SearchSettled, SearchIsOfTerm
  <1>1. CASE Gui
    BY <1>1 DEF Gui, CallOperationEvent, PushOperation, NotifyOperation, CallSearchEvent,
           SetSearchTerm, NotifySearch, ResetDisplayList, Logout
  <1>2. CASE Stop
    BY <1>2 DEF Stop, StopSearch, NotifyStopSearch, JoinSearch, StopOperation,
           NotifyStopOperation, JoinOperation, StopStore, JoinStore
  <1>3. CASE OperationProcess \/ WakeUp("operation")
    BY <1>3 DEF OperationProcess, WaitForOperation, LockOperation, PopOperation,
           ApplyOperation, FinishOperation, WakeUp
  <1>4. CASE SearchBarProcess \/ WakeUp("search")
    <2>1. CASE WaitForSearch
      BY <2>1 DEF WaitForSearch
    <2>2. CASE ExitSearch
      BY <2>2 DEF ExitSearch
    <2>3. CASE LockSearchTerm
      BY <2>3 DEF LockSearchTerm
    <2>4. CASE SearchAccount
      <3>1. \A id \in DOMAIN found'.rows :
               /\ found'.term # Empty
               /\ \E f \in SearchedFields : found'.rows[id][f] \in Matches[found'.term]
        BY <2>4 DEF SearchAccount, SearchResult, Restrict
      <3>2. found'.term = search_term /\ search_term' = search_term
        BY <2>4 DEF SearchAccount
      <3>3. UNCHANGED <<search_event_state, search_term_mutex, answered, search_result>>
        BY <2>4 DEF SearchAccount
      <3> QED
        BY <3>1, <3>2, <3>3
    <2>5. CASE PublishSearch
      BY <2>5 DEF PublishSearch
    <2>6. CASE WakeUp("search")
      BY <2>6 DEF WakeUp
    <2> QED
      BY <1>4, <2>1, <2>2, <2>3, <2>4, <2>5, <2>6 DEF SearchBarProcess
  <1>5. CASE PeriodicDataStore
    BY <1>5 DEF PeriodicDataStore, StartCycle, CopyAccount, InsertRow, CollectRemoved,
           DeleteRow, FinishCycle, AbortOnUnsetMessage
  <1>6. CASE UNCHANGED vars
    BY <1>6 DEF vars
  <1> QED
    BY <1>1, <1>2, <1>3, <1>4, <1>5, <1>6 DEF Next, Over

\* A removal queues the id before anybody else looks, a copied row has an entry, and a
\* DELETE that is dropped without effect is remembered as refused.
LEMMA RowsStep ==
    ASSUME TypeOK, Places, CopiesUsedUp, RowsAccountedFor, [Next]_vars
    PROVE  RowsAccountedFor'
  <1> USE DEF TypeOK, Places, CopiesUsedUp, RowsAccountedFor
  <1>1. CASE Gui
    BY <1>1 DEF Gui, CallOperationEvent, PushOperation, NotifyOperation, CallSearchEvent,
           SetSearchTerm, NotifySearch, ResetDisplayList, Logout
  <1>2. CASE Stop
    BY <1>2 DEF Stop, StopSearch, NotifyStopSearch, JoinSearch, StopOperation,
           NotifyStopOperation, JoinOperation, StopStore, JoinStore
  <1>3. CASE OperationProcess \/ WakeUp("operation")
    <2>1. CASE WaitForOperation
      BY <2>1 DEF WaitForOperation
    <2>2. CASE LockOperation
      BY <2>2 DEF LockOperation
    <2>3. CASE PopOperation
      BY <2>3 DEF PopOperation
    <2>4. CASE ApplyOperation
      <3> DEFINE op == current_operation
      <3>1. \A id \in DOMAIN account.entries :
               \/ id \in DOMAIN account'.entries
               \/ op.operation_type = "REMOVE" /\ id = op.p_id
        BY <2>4, AppliedIds DEF ApplyOperation
      <3>2. op.operation_type = "REMOVE" => op.p_id \in Nat
        BY DEF Operations, None
      <3>3. /\ Range(removed_ids) \subseteq Range(removed_ids')
            /\ op.operation_type = "REMOVE" /\ op.p_id \in DOMAIN account.entries =>
                  op.p_id \in Range(removed_ids')
        BY <2>4, <3>2, RangeOfPush DEF ApplyOperation, Removed
      <3>4. UNCHANGED <<db, user_data_copy, removed_copy, undeleted>>
        BY <2>4 DEF ApplyOperation
      <3> QED
        BY <3>1, <3>3, <3>4
    <2>5. CASE FinishOperation
      BY <2>5 DEF FinishOperation
    <2>6. CASE WakeUp("operation")
      BY <2>6 DEF WakeUp
    <2> QED
      BY <1>3, <2>1, <2>2, <2>3, <2>4, <2>5, <2>6 DEF OperationProcess
  <1>4. CASE SearchBarProcess \/ WakeUp("search")
    BY <1>4 DEF SearchBarProcess, WaitForSearch, ExitSearch, LockSearchTerm, SearchAccount,
           PublishSearch, WakeUp
  <1>5. CASE PeriodicDataStore
    <2>1. CASE StartCycle
      BY <2>1 DEF StartCycle
    <2>2. CASE CopyAccount
      BY <2>2 DEF CopyAccount
    <2>3. ASSUME NEW id \in DOMAIN user_data_copy, InsertRow(id) PROVE RowsAccountedFor'
      <3>1. /\ DOMAIN user_data_copy' \subseteq DOMAIN user_data_copy
            /\ DOMAIN db' \subseteq DOMAIN db \cup {id}
        BY <2>3 DEF InsertRow, Put, Without, Restrict
      <3>2. UNCHANGED <<account, removed_ids, removed_copy, undeleted>>
        BY <2>3 DEF InsertRow
      <3> QED
        BY <3>1, <3>2
    <2>4. CASE CollectRemoved
      BY <2>4 DEF CollectRemoved
    <2>5. CASE DeleteRow
      <3>1. Range(removed_copy) = {Head(removed_copy)} \cup Range(removed_copy')
        BY <2>5, RangeOfPop DEF DeleteRow
      <3>2. \/ DOMAIN db' = DOMAIN db \ {Head(removed_copy)} /\ undeleted' = undeleted
            \/ db' = db /\ undeleted' = undeleted \cup {Head(removed_copy)}
        BY <2>5 DEF DeleteRow, Without, Restrict
      <3>3. DOMAIN user_data_copy' = {} /\ UNCHANGED <<account, removed_ids>>
        BY <2>5 DEF DeleteRow
      <3> QED
        BY <3>1, <3>2, <3>3
    <2>6. CASE FinishCycle
      BY <2>6 DEF FinishCycle
    <2>7. CASE AbortOnUnsetMessage
      BY <2>7 DEF AbortOnUnsetMessage
    <2> QED
      BY <1>5, <2>1, <2>2, <2>3, <2>4, <2>5, <2>6, <2>7 DEF PeriodicDataStore
  <1>6. CASE UNCHANGED vars
    BY <1>6 DEF vars
  <1> QED
    BY <1>1, <1>2, <1>3, <1>4, <1>5, <1>6 DEF Next, Over

\* A removal is of an entry, whose id is used up.
LEMMA RemovedStep ==
    ASSUME TypeOK, Places, CopiesUsedUp, RemovedForGood, [Next]_vars
    PROVE  RemovedForGood'
  <1> USE DEF TypeOK, Places, CopiesUsedUp, RemovedForGood
  <1>1. CASE Gui
    BY <1>1 DEF Gui, CallOperationEvent, PushOperation, NotifyOperation, CallSearchEvent,
           SetSearchTerm, NotifySearch, ResetDisplayList, Logout
  <1>2. CASE Stop
    BY <1>2 DEF Stop, StopSearch, NotifyStopSearch, JoinSearch, StopOperation,
           NotifyStopOperation, JoinOperation, StopStore, JoinStore
  <1>3. CASE OperationProcess \/ WakeUp("operation")
    <2>1. CASE WaitForOperation
      BY <2>1 DEF WaitForOperation
    <2>2. CASE LockOperation
      BY <2>2 DEF LockOperation
    <2>3. CASE PopOperation
      BY <2>3 DEF PopOperation
    <2>4. CASE ApplyOperation
      <3> DEFINE op == current_operation
      <3>1. /\ account.last_id \in Nat /\ account'.last_id \in Nat
            /\ DOMAIN account.entries \subseteq 0 .. account.last_id
        BY <2>4, AppliedIsList DEF ApplyOperation, IsList
      <3>2. /\ account.last_id <= account'.last_id
            /\ \A id \in DOMAIN account'.entries :
                  id \in DOMAIN account.entries \/ id > account.last_id
            /\ op.operation_type = "REMOVE" => op.p_id \notin DOMAIN account'.entries
        BY <2>4, AppliedIds DEF ApplyOperation
      <3>3. \A id \in Range(removed_ids) \cup Range(removed_copy) : id \in Nat
        BY RangeOfSeq
      <3>4. op.operation_type = "REMOVE" => op.p_id \in Nat
        BY DEF Operations, None
      <3>5. \/ Range(removed_ids') = Range(removed_ids)
            \/ /\ op.operation_type = "REMOVE" /\ op.p_id \in DOMAIN account.entries
               /\ Range(removed_ids') = Range(removed_ids) \cup {op.p_id}
        <4>1. \/ removed_ids' = removed_ids
              \/ /\ op.operation_type = "REMOVE" /\ op.p_id \in DOMAIN account.entries
                 /\ removed_ids' = Append(removed_ids, op.p_id)
          BY <2>4 DEF ApplyOperation, Removed
        <4>2. removed_ids \in Seq(Nat)
          OBVIOUS
        <4> HIDE DEF op
        <4>3. ASSUME op.operation_type = "REMOVE"
              PROVE  Range(Append(removed_ids, op.p_id)) = Range(removed_ids) \cup {op.p_id}
          BY <3>4, <4>2, <4>3, RangeOfPush
        <4> QED
          BY <4>1, <4>3
      <3>6. removed_copy' = removed_copy
        BY <2>4 DEF ApplyOperation
      <3>7. ASSUME NEW id \in Range(removed_ids) \cup Range(removed_copy)
            PROVE  id \notin DOMAIN account'.entries /\ id <= account'.last_id
        <4>1. id \in Nat /\ id <= account.last_id /\ id \notin DOMAIN account.entries
          BY <3>3, <3>7
        <4> QED
          BY <3>1, <3>2, <4>1
      <3>8. ASSUME NEW id \in DOMAIN account.entries, op.operation_type = "REMOVE", id = op.p_id
            PROVE  id \notin DOMAIN account'.entries /\ id <= account'.last_id
        BY <3>1, <3>2, <3>8
      <3> QED
        BY <3>5, <3>6, <3>7, <3>8
    <2>5. CASE FinishOperation
      BY <2>5 DEF FinishOperation
    <2>6. CASE WakeUp("operation")
      BY <2>6 DEF WakeUp
    <2> QED
      BY <1>3, <2>1, <2>2, <2>3, <2>4, <2>5, <2>6 DEF OperationProcess
  <1>4. CASE SearchBarProcess \/ WakeUp("search")
    BY <1>4 DEF SearchBarProcess, WaitForSearch, ExitSearch, LockSearchTerm, SearchAccount,
           PublishSearch, WakeUp
  <1>5. CASE PeriodicDataStore
    <2>1. CASE StartCycle
      BY <2>1 DEF StartCycle
    <2>2. CASE CopyAccount
      BY <2>2 DEF CopyAccount
    <2>3. ASSUME NEW id \in DOMAIN user_data_copy, InsertRow(id) PROVE RemovedForGood'
      BY <2>3 DEF InsertRow
    <2>4. CASE CollectRemoved
      BY <2>4 DEF CollectRemoved
    <2>5. CASE DeleteRow
      <3>1. Range(removed_copy) = {Head(removed_copy)} \cup Range(removed_copy')
        BY <2>5, RangeOfPop DEF DeleteRow
      <3>2. UNCHANGED <<account, removed_ids>>
        BY <2>5 DEF DeleteRow
      <3> QED
        BY <3>1, <3>2
    <2>6. CASE FinishCycle
      BY <2>6 DEF FinishCycle
    <2>7. CASE AbortOnUnsetMessage
      BY <2>7 DEF AbortOnUnsetMessage
    <2> QED
      BY <1>5, <2>1, <2>2, <2>3, <2>4, <2>5, <2>6, <2>7 DEF PeriodicDataStore
  <1>6. CASE UNCHANGED vars
    BY <1>6 DEF vars
  <1> QED
    BY <1>1, <1>2, <1>3, <1>4, <1>5, <1>6 DEF Next, Over

\* The final cycle copies the account, writes the copy and collects the removed ids,
\* and by then there is no operation thread to interfere.
LEMMA FinalStep ==
    ASSUME TypeOK, Places, StoppedInOrder, RemovedForGood, FinalCycle, [Next]_vars
    PROVE  FinalCycle'
  <1> USE DEF TypeOK, Places, StoppedInOrder, RemovedForGood, FinalCycle, Saved
  <1>1. CASE Gui
    <2>1. CASE CallOperationEvent
      BY <2>1 DEF CallOperationEvent
    <2>2. CASE PushOperation
      BY <2>2 DEF PushOperation
    <2>3. CASE NotifyOperation
      BY <2>3 DEF NotifyOperation
    <2>4. CASE CallSearchEvent
      BY <2>4 DEF CallSearchEvent
    <2>5. CASE SetSearchTerm
      BY <2>5 DEF SetSearchTerm
    <2>6. CASE NotifySearch
      BY <2>6 DEF NotifySearch
    <2>7. CASE ResetDisplayList
      BY <2>7 DEF ResetDisplayList
    <2>8. CASE Logout
      BY <2>8 DEF Logout
    <2> QED
      BY <1>1, <2>1, <2>2, <2>3, <2>4, <2>5, <2>6, <2>7, <2>8 DEF Gui
  <1>2. CASE Stop
    <2>1. CASE StopSearch
      BY <2>1 DEF StopSearch
    <2>2. CASE NotifyStopSearch
      BY <2>2 DEF NotifyStopSearch
    <2>3. CASE JoinSearch
      BY <2>3 DEF JoinSearch
    <2>4. CASE StopOperation
      BY <2>4 DEF StopOperation
    <2>5. CASE NotifyStopOperation
      BY <2>5 DEF NotifyStopOperation
    <2>6. CASE JoinOperation
      BY <2>6 DEF JoinOperation
    <2>7. CASE StopStore
      BY <2>7 DEF StopStore
    <2>8. CASE JoinStore
      BY <2>8 DEF JoinStore
    <2> QED
      BY <1>2, <2>1, <2>2, <2>3, <2>4, <2>5, <2>6, <2>7, <2>8 DEF Stop
  <1>3. CASE OperationProcess \/ WakeUp("operation")
    <2>1. CASE WaitForOperation
      BY <2>1 DEF WaitForOperation
    <2>2. CASE LockOperation
      BY <2>2 DEF LockOperation
    <2>3. CASE PopOperation
      BY <2>3 DEF PopOperation
    <2>4. CASE ApplyOperation
      BY <2>4 DEF ApplyOperation
    <2>5. CASE FinishOperation
      BY <2>5 DEF FinishOperation
    <2>6. CASE WakeUp("operation")
      BY <2>6 DEF WakeUp
    <2> QED
      BY <1>3, <2>1, <2>2, <2>3, <2>4, <2>5, <2>6 DEF OperationProcess
  <1>4. CASE SearchBarProcess \/ WakeUp("search")
    <2>1. CASE WaitForSearch
      BY <2>1 DEF WaitForSearch
    <2>2. CASE ExitSearch
      BY <2>2 DEF ExitSearch
    <2>3. CASE LockSearchTerm
      BY <2>3 DEF LockSearchTerm
    <2>4. CASE SearchAccount
      BY <2>4 DEF SearchAccount
    <2>5. CASE PublishSearch
      BY <2>5 DEF PublishSearch
    <2>6. CASE WakeUp("search")
      BY <2>6 DEF WakeUp
    <2> QED
      BY <1>4, <2>1, <2>2, <2>3, <2>4, <2>5, <2>6 DEF SearchBarProcess
  <1>5. CASE PeriodicDataStore
    <2>1. CASE StartCycle
      BY <2>1 DEF StartCycle
    <2>2. CASE CopyAccount
      BY <2>2 DEF CopyAccount
    <2>3. ASSUME NEW id \in DOMAIN user_data_copy, InsertRow(id) PROVE FinalCycle'
      <3>1. /\ UNCHANGED <<pc, account, removed_ids, final_store_and_exit>>
            /\ pc["store"] = "insert"
        BY <2>3 DEF InsertRow
      <3>2. /\ DOMAIN user_data_copy' = DOMAIN user_data_copy \ {id}
            /\ \A i \in DOMAIN user_data_copy' : user_data_copy'[i] = user_data_copy[i]
        BY <2>3 DEF InsertRow, Without, Restrict
      <3>3. refused \subseteq refused'
        BY <2>3 DEF InsertRow
      <3>4. \A i \in DOMAIN db : i # id => i \in DOMAIN db' /\ db'[i] = db[i]
        BY <2>3 DEF InsertRow, Put
      <3>5. id \in refused' \/ (id \in DOMAIN db' /\ db'[id] = StoredAs[user_data_copy[id]])
        BY <2>3 DEF InsertRow, Put
      <3> QED
        BY <3>1, <3>2, <3>3, <3>4, <3>5
    <2>4. CASE CollectRemoved
      BY <2>4 DEF CollectRemoved
    <2>5. CASE DeleteRow
      <3>1. Range(removed_copy) = {Head(removed_copy)} \cup Range(removed_copy')
        BY <2>5, RangeOfPop DEF DeleteRow
      <3>2. /\ UNCHANGED <<pc, account, removed_ids, final_store_and_exit>>
            /\ pc["store"] = "delete"
            /\ refused \subseteq refused'
            /\ Head(removed_copy) \notin DOMAIN account.entries
        BY <2>5, <3>1 DEF DeleteRow
      <3>3. \A i \in DOMAIN db : i # Head(removed_copy) => i \in DOMAIN db' /\ db'[i] = db[i]
        BY <2>5 DEF DeleteRow, Without, Restrict
      <3> QED
        BY <3>1, <3>2, <3>3
    <2>6. CASE FinishCycle
      BY <2>6 DEF FinishCycle
    <2>7. CASE AbortOnUnsetMessage
      BY <2>7 DEF AbortOnUnsetMessage
    <2> QED
      BY <1>5, <2>1, <2>2, <2>3, <2>4, <2>5, <2>6, <2>7 DEF PeriodicDataStore
  <1>6. CASE UNCHANGED vars
    BY <1>6 DEF vars
  <1> QED
    BY <1>1, <1>2, <1>3, <1>4, <1>5, <1>6 DEF Next, Over

------------------------------------------------------------------------------
\* The list the session promises.

\* Steps that neither push, pop nor apply leave what is pending alone.
LEMMA PendingStutters ==
    ASSUME TypeOK, Places, [Next]_vars,
           ~PushOperation, ~StopOperation, ~PopOperation, ~ApplyOperation
    PROVE  /\ UNCHANGED <<account, PendingOperations>>
           /\ ~(pc["gui"] = "operation_event" /\ pc'["gui"] = "operation_notify")
  <1>1. /\ UNCHANGED <<account, operation_queue, current_operation>>
        /\ pc'["operation"] = "apply" <=> pc["operation"] = "apply"
        /\ ~(pc["gui"] = "operation_event" /\ pc'["gui"] = "operation_notify")
    <2> USE DEF TypeOK, Places
    <2>1. CASE Gui
      BY <2>1 DEF Gui, CallOperationEvent, NotifyOperation, CallSearchEvent, SetSearchTerm,
                  NotifySearch, ResetDisplayList, Logout
    <2>2. CASE Stop
      BY <2>2 DEF Stop, StopSearch, NotifyStopSearch, JoinSearch, NotifyStopOperation,
                  JoinOperation, StopStore, JoinStore
    <2>3. CASE OperationProcess \/ WakeUp("operation")
      BY <2>3 DEF OperationProcess, WaitForOperation, LockOperation, FinishOperation, WakeUp
    <2>4. CASE SearchBarProcess \/ WakeUp("search")
      BY <2>4 DEF SearchBarProcess, WaitForSearch, ExitSearch, LockSearchTerm, SearchAccount,
                  PublishSearch, WakeUp
    <2>5. CASE PeriodicDataStore
      BY <2>5 DEF PeriodicDataStore, StartCycle, CopyAccount, InsertRow, CollectRemoved, DeleteRow,
                  FinishCycle, AbortOnUnsetMessage
    <2>6. CASE UNCHANGED vars
      BY <2>6 DEF vars
    <2> QED
      BY <2>1, <2>2, <2>3, <2>4, <2>5, <2>6 DEF Next, Over
  <1> QED
    BY <1>1 DEF PendingOperations

\* Pushing an operation is all that changes the list, and it takes effect then:
\* popping moves it, applying moves it into the account, the NONE is no operation.
LEMMA EffectStep ==
    ASSUME TypeOK, Places, [Next]_vars
    PROVE  SubmittedList' = IF pc["gui"] = "operation_event" /\ pc'["gui"] = "operation_notify"
                            THEN Applied(SubmittedList, argument)
                            ELSE SubmittedList
  <1> DEFINE Op == Operations(Nat) \cup {None}
             taken == IF pc["operation"] = "apply" THEN <<current_operation>> ELSE <<>>
  <1>1. /\ operation_queue \in Seq(Op) /\ current_operation \in Op
        /\ taken \in Seq(Op) /\ PendingOperations \in Seq(Op)
        /\ PendingOperations = taken \o operation_queue
    <2>1. operation_queue \in Seq(Op) /\ current_operation \in Op
      BY DEF TypeOK, Places
    <2>2. PendingOperations = taken \o operation_queue
      BY DEF PendingOperations
    <2> HIDE DEF Op
    <2>3. taken \in Seq(Op)
      BY <2>1
    <2> HIDE DEF taken
    <2> QED
      BY <2>1, <2>2, <2>3
  <1>2. ASSUME NEW op \in Op,
               UNCHANGED <<account, current_operation>>, pc'["operation"] = pc["operation"],
               operation_queue' = Append(operation_queue, op)
        PROVE  SubmittedList' = Applied(SubmittedList, op)
    <2>1. PendingOperations' = taken \o Append(operation_queue, op)
      BY <1>2 DEF PendingOperations
    <2>2. PendingOperations' = Append(PendingOperations, op)
      <3> HIDE DEF Op, taken
      <3>1. taken \o Append(operation_queue, op) = Append(taken \o operation_queue, op)
        BY <1>1
      <3> QED
        BY <1>1, <2>1, <3>1
    <2>3. After(account, Append(PendingOperations, op)) = Applied(After(account, PendingOperations), op)
      <3>1. PendingOperations \in Seq(Op)
        BY <1>1
      <3> HIDE DEF Op
      <3> QED
        BY <1>2, <3>1, AfterPush
    <2> QED
      BY <1>2, <2>2, <2>3 DEF SubmittedList
  <1>3. CASE PushOperation
    <2>1. /\ argument \in Op
          /\ UNCHANGED <<account, current_operation>> /\ pc'["operation"] = pc["operation"]
          /\ operation_queue' = Append(operation_queue, argument)
          /\ pc["gui"] = "operation_event" /\ pc'["gui"] = "operation_notify"
      BY <1>3 DEF PushOperation, TypeOK, Places
    <2> QED
      BY <1>2, <2>1
  <1>4. CASE StopOperation
    <2>1. /\ UNCHANGED <<account, current_operation>> /\ pc'["operation"] = pc["operation"]
          /\ operation_queue' = Append(operation_queue, None)
          /\ pc["gui"] # "operation_event"
      BY <1>4 DEF StopOperation, TypeOK
    <2> QED
      BY <1>2, <2>1, AppliedNone
  <1>5. CASE PopOperation
    <2>1. /\ operation_queue # <<>> /\ pc["operation"] = "pop" /\ pc'["operation"] = "apply"
          /\ current_operation' = Head(operation_queue)
          /\ operation_queue' = Tail(operation_queue)
          /\ account' = account /\ pc'["gui"] = pc["gui"]
      BY <1>5 DEF PopOperation, TypeOK
    <2>2. PendingOperations = operation_queue
      BY <1>1, <2>1
    <2>3. PendingOperations' = <<Head(operation_queue)>> \o Tail(operation_queue)
      BY <2>1 DEF PendingOperations
    <2>4. PendingOperations' = PendingOperations
      BY <1>1, <2>1, <2>2, <2>3, RangeOfPop
    <2> QED
      BY <2>1, <2>4 DEF SubmittedList
  <1>6. CASE ApplyOperation
    <2>1. /\ pc["operation"] = "apply" /\ pc'["operation"] = "finish"
          /\ UNCHANGED <<operation_queue, current_operation>>
          /\ account' = Applied(account, current_operation) /\ pc'["gui"] = pc["gui"]
      BY <1>6 DEF ApplyOperation, TypeOK
    <2>2. PendingOperations = <<current_operation>> \o operation_queue
      BY <2>1 DEF PendingOperations
    <2>3. PendingOperations' = operation_queue
      BY <1>1, <2>1 DEF PendingOperations
    <2>4. After(account, <<current_operation>> \o operation_queue) = After(account', operation_queue)
      BY <1>1, <2>1, AfterPop
    <2>5. SubmittedList' = SubmittedList
      BY <2>2, <2>3, <2>4 DEF SubmittedList
    <2> QED
      BY <2>1, <2>5
  <1>7. CASE ~PushOperation /\ ~StopOperation /\ ~PopOperation /\ ~ApplyOperation
    BY <1>7, PendingStutters DEF SubmittedList
  <1> QED
    BY <1>3, <1>4, <1>5, <1>6, <1>7

\* The promised list stays one.
LEMMA SubmittedStep ==
    ASSUME TypeOK, Places, IsList(SubmittedList), [Next]_vars
    PROVE  IsList(SubmittedList')
  <1>1. CASE pc["gui"] = "operation_event" /\ pc'["gui"] = "operation_notify"
    <2>1. SubmittedList' = Applied(SubmittedList, argument) /\ argument \in Operations(Nat)
      BY <1>1, EffectStep DEF Places
    <2> QED
      BY <2>1, AppliedIsList
  <1>2. CASE ~(pc["gui"] = "operation_event" /\ pc'["gui"] = "operation_notify")
    <2>1. SubmittedList' = SubmittedList
      BY <1>2, EffectStep
    <2> QED
      BY <2>1
  <1> QED
    BY <1>1, <1>2

------------------------------------------------------------------------------
\* The invariant.

\* The session starts from a list and empty queues.
LEMMA InitIInv == Init => IInv
  <1> SUFFICES ASSUME Init PROVE IInv
    OBVIOUS
  <1>1. TypeOK /\ Places
    BY InitTypes
  <1>2. MutexesHeld /\ StoppedInOrder /\ FlagTellsQueue /\ NoLostWakeUp /\ CopiesUsedUp
    BY DEF Init, MutexesHeld, StoppedInOrder, SearchStopping, OperationStopping, StoreStopping,
           FlagTellsQueue, NoLostWakeUp, OperationIdle, CopiesUsedUp
  <1>3. SearchSettled /\ SearchIsOfTerm
    BY DEF Init, SearchSettled, SearchIsOfTerm
  <1>4. RowsAccountedFor /\ FinalCycle
    BY DEF Init, RowsAccountedFor, FinalCycle
  <1>5. RemovedForGood
    BY DEF Init, RemovedForGood, Range
  <1>6. IsList(SubmittedList)
    <2>1. PendingOperations = <<>>
      BY DEF Init, PendingOperations
    <2>2. SubmittedList = account
      BY <2>1, AfterNothing DEF SubmittedList
    <2> QED
      BY <1>1, <2>2 DEF TypeOK
  <1> QED
    BY <1>1, <1>2, <1>3, <1>4, <1>5, <1>6 DEF IInv

\* Every step of every thread keeps the invariant.
LEMMA StepIInv == IInv /\ [Next]_vars => IInv'
  <1> SUFFICES ASSUME IInv, [Next]_vars PROVE IInv'
    OBVIOUS
  <1> USE DEF IInv
  <1>1. TypeOK' /\ Places'
    BY TypesStep
  <1>2. MutexesHeld' /\ StoppedInOrder' /\ FlagTellsQueue' /\ NoLostWakeUp' /\ CopiesUsedUp'
    BY MutexesStep, OrderStep, FlagStep, WakeUpStep, CopiesStep
  <1>3. (SearchSettled /\ SearchIsOfTerm)'
    BY SearchStep
  <1>4. RowsAccountedFor' /\ RemovedForGood' /\ FinalCycle'
    BY RowsStep, RemovedStep, FinalStep
  <1>5. IsList(SubmittedList)'
    BY SubmittedStep
  <1> QED
    BY <1>1, <1>2, <1>3, <1>4, <1>5

\* The invariant holds throughout a session.
LEMMA Invariance == Spec => []IInv
  BY InitIInv, StepIInv, PTL DEF Spec

------------------------------------------------------------------------------
\* Theorems.

\* Every variable keeps its shape: what the operation thread takes from the queue is
\* an operation, or the NONE of the shutdown.
THEOREM TypeCorrect == Spec => []TypeOK
  BY Invariance, PTL DEF IInv

\* front() is never called on an empty queue: the flag is set with every push and
\* only reset with the last pop, so what lets the thread through its wait is a queue
\* that is not empty.
THEOREM QueueNeverEmptyAtPop == Spec => []NoPopFromEmptyQueue
  <1>1. IInv => NoPopFromEmptyQueue
    BY DEF IInv, FlagTellsQueue, NoPopFromEmptyQueue
  <1> QED
    BY <1>1, Invariance, PTL

\* A thread that sleeps while there is work for it is about to be notified.
THEOREM WakeUpsKept == Spec => []NoLostWakeUp
  BY Invariance, PTL DEF IInv

\* Between two searches the result answers the last term, and it never holds a row
\* that does not match the term it answers.
THEOREM SearchAnswersLastTerm == Spec => []SearchSettled
  BY Invariance, PTL DEF IInv

\* No row outlives its entry but for a DELETE that is still to come or was refused.
THEOREM RowsHaveOwners == Spec => []RowsAccountedFor
  BY Invariance, PTL DEF IInv

\* After a logout the database is the account as SQLite reads its fields, but for what
\* it refused: when the last cycle copies the account nobody changes it any more, no row it writes is of
\* a removed entry, and it deletes no row of an entry.
THEOREM LogoutSavesEverything == Spec => []FinalSave
  <1>1. IInv => FinalSave
    <2> SUFFICES ASSUME IInv, pc["gui"] = "destroyed",
                        NEW id \in (DOMAIN account.entries \cup DOMAIN db) \ (refused \cup undeleted)
                 PROVE  /\ id \in DOMAIN account.entries \cap DOMAIN db
                        /\ db[id] = StoredAs[account.entries[id]]
      BY DEF FinalSave
    <2>1. pc["store"] = "done" /\ final_store_and_exit
      BY DEF IInv, StoppedInOrder
    <2>2. removed_ids = <<>> /\ removed_copy = <<>> /\ Range(<<>>) = {}
      BY <2>1 DEF IInv, FinalCycle, CopiesUsedUp, Range
    <2>3. id \in DOMAIN account.entries
      BY <2>2 DEF IInv, RowsAccountedFor
    <2>4. Saved(id)
      BY <2>1, <2>3 DEF IInv, FinalCycle
    <2> QED
      BY <2>3, <2>4 DEF Saved
  <1> QED
    BY <1>1, Invariance, PTL

\* Every operation takes effect once and in the order of submission, whatever the
\* operation thread has popped, applied or still to do, a shutdown included.
THEOREM OnceAndInOrder == Spec => EffectOnceInOrder
  <1>1. IInv /\ [Next]_vars =>
           [SubmittedList' = IF pc["gui"] = "operation_event" /\ pc'["gui"] = "operation_notify"
                             THEN Applied(SubmittedList, argument)
                             ELSE SubmittedList]_vars
    BY EffectStep DEF IInv
  <1> QED
    BY <1>1, Invariance, PTL DEF Spec, EffectOnceInOrder
=============================================================================
