-------------------------- MODULE WindowsUiProofs --------------------------
(***************************************************************************)
(* Theorems of WindowsUi for every value of its constants: TypeOK, that a   *)
(* logout leaves nothing behind, and that a refresh keeps the selection.    *)
(***************************************************************************)
EXTENDS WindowsUi, PasswordsProofs

USE DEF sessionVars, searchVars, coreVars, gridVars, Input, OnMainPage

------------------------------------------------------------------------------
\* The inductive invariant, by the parts of the window.

SessionOK ==
    /\ page \in {"login", "main", "closed"} /\ user \in Users \cup {NoUser}
    /\ page = "main" <=> user \in Users
    /\ DOMAIN saved = Users /\ \A u \in Users : IsList(saved[u])
    /\ IsList(account) /\ operation_queue \in Seq(Operations(Nat))

\* Rows the grid can show.
AreRows(rows) == \A id \in DOMAIN rows : id \in Nat /\ rows[id] \in Password

SearchOK ==
    /\ timers \subseteq {"refresh", "soon", "debounce"}
    /\ search_box \in Terms /\ g_searchText \in Terms
    /\ AreRows(search_result)

\* The tiles are those of the rows, so the selected one has a row.
GridOK ==
    /\ AreRows(passwords_)
    /\ tiles = Labels(passwords_)
    /\ selected \in DOMAIN tiles \cup {NoTile}

ViewDialogs ==
    [kind : {"view"}, session : Users, p_id : Nat, current : Password, editing : BOOLEAN,
     changesQueued : BOOLEAN]

DialogOK ==
    /\ dialog \in {NoDialog} \cup [kind : {"add"}, session : Users] \cup ViewDialogs
    /\ dialog # NoDialog => dialog.session = user /\ page = "main"

IInv == SessionOK /\ SearchOK /\ GridOK /\ DialogOK /\ NothingLeftBehind

\* What the variables are emptied to has the right shape.
LEMMA EmptyRows ==
    /\ AreRows(<<>>) /\ Labels(<<>>) = <<>> /\ DOMAIN <<>> = {}
    /\ IsList(NoList) /\ <<>> \in Seq(Operations(Nat))
  <1>1. DOMAIN <<>> = {} /\ <<>> \in Seq(Operations(Nat))
    OBVIOUS
  <1>2. AreRows(<<>>)
    BY <1>1 DEF AreRows
  <1>3. Labels(<<>>) = <<>>
    BY <1>1 DEF Labels
  <1>4. IsList(NoList)
    <2>1. NoList.entries = <<>> /\ NoList.last_id = 0 /\ NoList = [entries |-> <<>>, last_id |-> 0]
      BY DEF NoList
    <2>2. <<>> \in [{} -> Password]
      OBVIOUS
    <2> QED
      BY <1>1, <2>1, <2>2 DEF IsList
  <1> QED
    BY <1>1, <1>2, <1>3, <1>4

\* When the window is opened the invariant holds.
LEMMA InitIInv == Init => IInv
  <1> SUFFICES ASSUME Init PROVE IInv
    OBVIOUS
  <1>1. SessionOK
    BY EmptyRows, WindowsUiAssumption DEF Init, SessionOK
  <1>2. SearchOK
    BY EmptyRows, WindowsUiAssumption DEF Init, SearchOK
  <1>3. GridOK
    BY EmptyRows DEF Init, GridOK
  <1>4. DialogOK /\ NothingLeftBehind
    BY DEF Init, DialogOK, NothingLeftBehind
  <1> QED
    BY <1>1, <1>2, <1>3, <1>4 DEF IInv

------------------------------------------------------------------------------
\* The grid.

\* Refresh shows the rows, keeps the tiles in step with them, and leaves the tile
\* selected as long as it has a row.
LEMMA ShowRowsKeepsGrid ==
    ASSUME GridOK, NEW rows, AreRows(rows), ShowRows(rows)
    PROVE  /\ GridOK' /\ passwords_' = rows
           /\ selected \in DOMAIN rows => selected' = selected
  <1>1. \A list : DOMAIN Labels(list) = DOMAIN list
    BY DEF Labels
  <1>2. passwords_' = rows
    BY DEF ShowRows
  <1>3. CASE TilesDiffer(rows)
    <2>1. /\ tiles' = Labels(rows)
          /\ selected' = IF selected \in DOMAIN rows THEN selected ELSE NoTile
      BY <1>3 DEF ShowRows
    <2>2. selected' \in DOMAIN tiles' \cup {NoTile}
      BY <1>1, <2>1
    <2> QED
      BY <1>2, <2>1, <2>2 DEF GridOK, AreRows, Labels
  <1>4. CASE ~TilesDiffer(rows)
    <2>1. tiles' = tiles /\ selected' = selected
      BY <1>4 DEF ShowRows
    <2>2. tiles' = Labels(rows)
      BY <1>4, <2>1 DEF TilesDiffer, GridOK
    <2> QED
      BY <1>2, <2>1, <2>2 DEF GridOK, AreRows, Labels
  <1> QED
    BY <1>3, <1>4

\* The entries of a list can be shown.
LEMMA ListRows ==
    ASSUME NEW list, IsList(list)
    PROVE  AreRows(list.entries)
  <1>1. /\ DOMAIN list.entries \subseteq 0 .. list.last_id /\ list.last_id \in Nat
        /\ list.entries \in [DOMAIN list.entries -> Password]
    BY DEF IsList
  <1> QED
    BY <1>1 DEF AreRows

\* A refresh keeps rows, tiles and selection in step.
LEMMA RefreshKeepsGrid ==
    ASSUME SessionOK, SearchOK, GridOK, RefreshPasswordGrid
    PROVE  GridOK' /\ search_result' = search_result
  <1>1. AreRows(account.entries) /\ AreRows(search_result)
    BY ListRows DEF SessionOK, SearchOK
  <1>2. CASE g_searchText' # Empty
    <2>1. ShowRows(search_result) /\ search_result' = search_result
      BY <1>2 DEF RefreshPasswordGrid, SearchEvent
    <2> QED
      BY <1>1, <2>1, ShowRowsKeepsGrid
  <1>3. CASE g_searchText' = Empty
    <2>1. ShowRows(account.entries) /\ search_result' = search_result
      BY <1>3 DEF RefreshPasswordGrid
    <2> QED
      BY <1>1, <2>1, ShowRowsKeepsGrid
  <1> QED
    BY <1>2, <1>3

\* A step on another page than the login page, that leaves the session alone.
LEMMA SameSession ==
    ASSUME IInv, page # "login", UNCHANGED <<sessionVars, account, operation_queue>>
    PROVE  SessionOK' /\ NothingLeftBehind'
  BY DEF IInv, SessionOK, NothingLeftBehind

------------------------------------------------------------------------------
\* The search box and the timers.

\* So does a new term, typed, entered or cleared.
LEMMA ApplyKeeps ==
    ASSUME IInv, NEW box \in Terms, search_box' \in Terms, ApplySearchText(box)
    PROVE  SearchOK' /\ GridOK'
  <1>1. /\ g_searchText' = Trimmed[box] /\ Trimmed[box] \in Terms
        /\ timers' \subseteq timers \cup {"soon"}
    BY WindowsUiAssumption DEF ApplySearchText
  <1>2. GridOK' /\ search_result' = search_result
    <2>1. CASE UNCHANGED <<gridVars, searchVars>>
      BY <2>1 DEF IInv, GridOK, AreRows, Labels
    <2>2. CASE SearchEvent(Trimmed[box]) /\ UNCHANGED gridVars
      BY <2>2 DEF SearchEvent, IInv, GridOK, AreRows, Labels
    <2>3. CASE RefreshPasswordGrid
      BY <2>3, RefreshKeepsGrid DEF IInv
    <2> QED
      BY <2>1, <2>2, <2>3 DEF ApplySearchText
  <1>3. SearchOK'
    BY <1>1, <1>2 DEF IInv, SearchOK, AreRows
  <1> QED
    BY <1>2, <1>3

\* The search box and the timers keep the invariant, with a dialog open too.
LEMMA SearchIInv ==
    ASSUME IInv, SearchBox \/ Timers
    PROVE  IInv'
  <1>1. search_box \in Terms /\ Empty \in Terms
    BY WindowsUiAssumption DEF IInv, SearchOK
  <1>2. page # "login"
    BY DEF SearchBox, TypeInSearchBox, EnterInSearchBox, ClearSearch, Timers, DebounceTimer,
           RefreshTimer, IInv, NothingLeftBehind
  <1>3. ASSUME NEW text \in Terms, TypeInSearchBox(text)
        PROVE  IInv'
    <2>1. SearchOK'
      BY <1>3 DEF TypeInSearchBox, IInv, SearchOK, AreRows
    <2>2. GridOK' /\ DialogOK'
      BY <1>3 DEF TypeInSearchBox, IInv, GridOK, AreRows, Labels, DialogOK
    <2>3. SessionOK' /\ NothingLeftBehind'
      BY <1>2, <1>3, SameSession DEF TypeInSearchBox
    <2> QED
      BY <2>1, <2>2, <2>3 DEF IInv
  <1>4. ASSUME NEW box \in Terms, ApplySearchText(box), search_box' \in Terms,
               UNCHANGED <<sessionVars, account, operation_queue, dialog>>
        PROVE  IInv'
    <2>1. SearchOK' /\ GridOK'
      BY <1>4, ApplyKeeps
    <2>2. DialogOK'
      BY <1>4 DEF IInv, DialogOK
    <2> QED
      BY <1>2, <1>4, <2>1, <2>2, SameSession DEF IInv
  <1>5. CASE EnterInSearchBox \/ ClearSearch \/ DebounceTimer
    BY <1>1, <1>4, <1>5 DEF EnterInSearchBox, ClearSearch, DebounceTimer
  <1>6. ASSUME NEW timer, RefreshTimer(timer)
        PROVE  IInv'
    <2>1. GridOK' /\ search_result' = search_result
      BY <1>6, RefreshKeepsGrid DEF RefreshTimer, IInv
    <2>2. SearchOK'
      BY <1>6, <2>1 DEF RefreshTimer, IInv, SearchOK, AreRows
    <2>3. DialogOK'
      BY <1>6 DEF RefreshTimer, IInv, DialogOK
    <2>4. SessionOK' /\ NothingLeftBehind'
      BY <1>2, <1>6, SameSession DEF RefreshTimer
    <2> QED
      BY <2>1, <2>2, <2>3, <2>4 DEF IInv
  <1> QED
    BY <1>3, <1>5, <1>6 DEF SearchBox, Timers

------------------------------------------------------------------------------
\* The dialogs.

\* A dialog that queues an operation, or none, and leaves the rest of the window alone.
LEMMA DialogStep ==
    ASSUME IInv, page = "main", user \in Users,
           \/ operation_queue' = operation_queue
           \/ \E op \in Operations(Nat) : operation_queue' = Append(operation_queue, op),
           timers' \in {timers, timers \cup {"soon"}},
           UNCHANGED <<sessionVars, account, searchVars, passwords_, tiles, search_box,
                       g_searchText>>,
           selected' \in DOMAIN tiles \cup {NoTile},
           dialog' \in {NoDialog} \cup [kind : {"add"}, session : {user}]
                          \cup {view \in ViewDialogs : view.session = user}
    PROVE  IInv'
  <1>1. operation_queue' \in Seq(Operations(Nat))
    <2>1. operation_queue \in Seq(Operations(Nat))
      BY DEF IInv, SessionOK
    <2>2. \A op \in Operations(Nat) : Append(operation_queue, op) \in Seq(Operations(Nat))
      BY <2>1
    <2> QED
      BY <2>1, <2>2
  <1>2. SessionOK'
    BY <1>1 DEF IInv, SessionOK
  <1>3. SearchOK'
    BY DEF IInv, SearchOK, AreRows
  <1>4. GridOK'
    BY DEF IInv, GridOK, AreRows, Labels
  <1>5. DialogOK' /\ NothingLeftBehind'
    BY DEF DialogOK, NothingLeftBehind
  <1> QED
    BY <1>2, <1>3, <1>4, <1>5 DEF IInv

\* The dialogs keep the invariant: one works on the session it was opened in.
LEMMA DialogsIInv ==
    ASSUME IInv, Dialogs
    PROVE  IInv'
  <1> USE DEF NoDialog, NoTile
  <1>1. page = "main" /\ user \in Users
    <2>1. page = "main" \/ dialog.kind \in {"add", "view"}
      BY DEF Dialogs, OpenAddPassword, CancelAddPassword, SubmitPassword, SaveChanges, SelectTile,
             OpenPasswordFromGrid, ToggleEdit, DeletePassword, CloseViewPassword, OnMainPage
    <2>2. dialog.kind \in {"add", "view"} => page = "main"
      BY DEF IInv, DialogOK
    <2> QED
      BY <2>1, <2>2 DEF IInv, SessionOK
  <1>2. /\ selected \in DOMAIN tiles \cup {NoTile}
        /\ DOMAIN tiles = DOMAIN passwords_ /\ AreRows(passwords_)
    BY DEF IInv, GridOK, Labels
  <1>3. ASSUME dialog.kind = "view" PROVE dialog \in ViewDialogs /\ dialog.session = user
    BY <1>3 DEF IInv, DialogOK
  <1>4. Submitted \subseteq Password
    BY PasswordsAssumption DEF Password
  <1>5. CASE OpenAddPassword
    <2>1. dialog' \in [kind : {"add"}, session : {user}]
      BY <1>5 DEF OpenAddPassword
    <2> QED
      BY <1>1, <1>2, <1>5, <2>1, DialogStep DEF OpenAddPassword
  <1>6. CASE CancelAddPassword
    BY <1>1, <1>2, <1>6, DialogStep DEF CancelAddPassword, Close
  <1>7. ASSUME NEW form \in Submitted, SubmitPassword(form)
        PROVE  IInv'
    <2> DEFINE op == [operation_type |-> "ADD", curr_password |-> form]
    <2>1. op \in Operations(Nat) /\ operation_queue' = Append(operation_queue, op)
      BY <1>7 DEF SubmitPassword, Operations
    <2> HIDE DEF op
    <2>2. dialog' = NoDialog /\ timers' \in {timers, timers \cup {"soon"}}
      BY <1>7 DEF SubmitPassword, Close
    <2> QED
      BY <1>1, <1>2, <1>7, <2>1, <2>2, DialogStep DEF SubmitPassword
  <1>8. ASSUME NEW form \in Submitted, SaveChanges(form)
        PROVE  IInv'
    <2> DEFINE op == [operation_type |-> "MODIFY", p_id |-> dialog.p_id, curr_password |-> form]
    <2>1. dialog \in ViewDialogs /\ dialog.session = user
      BY <1>3, <1>8 DEF SaveChanges
    <2>2. op \in Operations(Nat) /\ operation_queue' = Append(operation_queue, op)
      BY <1>8, <2>1 DEF SaveChanges, Operations, ViewDialogs
    <2> HIDE DEF op
    <2>3. dialog' \in ViewDialogs /\ dialog'.session = user
      BY <1>4, <1>8, <2>1 DEF SaveChanges, ViewDialogs
    <2> QED
      BY <1>1, <1>2, <1>8, <2>2, <2>3, DialogStep DEF SaveChanges
  <1>9. ASSUME NEW id \in DOMAIN tiles, SelectTile(id)
        PROVE  IInv'
    <2>1. dialog' = NoDialog
      BY <1>9 DEF SelectTile
    <2> QED
      BY <1>1, <1>9, <2>1, DialogStep DEF SelectTile
  <1>10. ASSUME NEW id \in DOMAIN tiles, OpenPasswordFromGrid(id)
         PROVE  IInv'
    <2>1. id \in Nat /\ passwords_[id] \in Password
      BY <1>2 DEF AreRows
    <2>2. dialog' \in ViewDialogs /\ dialog'.session = user
      BY <1>1, <1>10, <2>1 DEF OpenPasswordFromGrid, ViewDialogs
    <2> QED
      BY <1>1, <1>10, <2>2, DialogStep DEF OpenPasswordFromGrid
  <1>11. CASE ToggleEdit
    <2>1. dialog \in ViewDialogs /\ dialog.session = user
      BY <1>3, <1>11 DEF ToggleEdit
    <2>2. dialog' \in ViewDialogs /\ dialog'.session = user
      BY <1>11, <2>1 DEF ToggleEdit, ViewDialogs
    <2> QED
      BY <1>1, <1>2, <1>11, <2>2, DialogStep DEF ToggleEdit
  <1>12. CASE DeletePassword
    <2> DEFINE op == [operation_type |-> "REMOVE", p_id |-> dialog.p_id]
    <2>1. op \in Operations(Nat) /\ operation_queue' = Append(operation_queue, op)
      BY <1>3, <1>12 DEF DeletePassword, Operations, ViewDialogs
    <2> HIDE DEF op
    <2>2. dialog' = NoDialog /\ timers' \in {timers, timers \cup {"soon"}}
      BY <1>12 DEF DeletePassword, Close
    <2> QED
      BY <1>1, <1>2, <1>12, <2>1, <2>2, DialogStep DEF DeletePassword
  <1>13. CASE CloseViewPassword
    BY <1>1, <1>2, <1>13, DialogStep DEF CloseViewPassword, Close
  <1> QED
    BY <1>5, <1>6, <1>7, <1>8, <1>9, <1>10, <1>11, <1>12, <1>13 DEF Dialogs

------------------------------------------------------------------------------
\* Sessions, and the threads of the core.

\* A login keeps the invariant.
LEMMA StartIInv ==
    ASSUME IInv, NEW u \in Users, StartSession(u)
    PROVE  IInv'
  <1>1. page = "login" /\ page' = "main" /\ user' = u /\ dialog' = dialog
    BY DEF StartSession
  <1>2. IsList(saved[u]) /\ dialog = NoDialog /\ user \notin Users
    BY <1>1 DEF IInv, SessionOK, DialogOK
  <1>3. SessionOK'
    BY <1>1, <1>2, EmptyRows DEF StartSession, IInv, SessionOK
  <1>4. GridOK'
    BY <1>2, ListRows, ShowRowsKeepsGrid DEF StartSession, IInv
  <1>5. SearchOK'
    BY EmptyRows, WindowsUiAssumption DEF StartSession, IInv, SearchOK
  <1>6. DialogOK' /\ NothingLeftBehind'
    BY <1>1, <1>2 DEF DialogOK, NothingLeftBehind
  <1> QED
    BY <1>3, <1>4, <1>5, <1>6 DEF IInv

\* The end of a session saves a list, and stops every timer.
LEMMA EndKeeps ==
    ASSUME IInv, EndOfSession, page' \in {"login", "closed"}
    PROVE  SessionOK' /\ timers' = {} /\ search_result' = <<>>
  <1>1. \A u \in Users : IsList(saved'[u])
    <2>1. CASE user = NoUser
      BY <2>1 DEF EndOfSession, IInv, SessionOK
    <2>2. CASE user # NoUser
      <3>1. IsList(After(account, operation_queue))
        BY AfterIsList DEF IInv, SessionOK
      <3>2. saved' = [saved EXCEPT ![user] = After(account, operation_queue)]
        BY <2>2 DEF EndOfSession
      <3> QED
        BY <3>1, <3>2 DEF IInv, SessionOK
    <2> QED
      BY <2>1, <2>2
  <1>2. DOMAIN saved' = Users
    BY DEF EndOfSession, IInv, SessionOK
  <1> QED
    BY <1>1, <1>2, EmptyRows, WindowsUiAssumption DEF EndOfSession, SessionOK

\* A logout and the end of the application keep the invariant.
LEMMA EndIInv ==
    ASSUME IInv, Logout \/ DestroyMainWindow
    PROVE  IInv'
  <1>0. dialog = NoDialog /\ dialog' = dialog /\ EndOfSession /\ page' \in {"login", "closed"}
    BY DEF Logout, DestroyMainWindow
  <1>1. SessionOK' /\ timers' = {} /\ search_result' = <<>>
    BY <1>0, EndKeeps
  <1>2. DialogOK'
    BY <1>0 DEF DialogOK
  <1>3. CASE Logout
    <2>1. GridOK' /\ passwords_' = <<>>
      BY <1>3, EmptyRows, ShowRowsKeepsGrid DEF Logout, IInv
    <2>2. tiles' = <<>> /\ selected' = NoTile
      <3>1. Labels(passwords_)' = <<>>
        BY <2>1, EmptyRows DEF Labels
      <3>2. tiles' = <<>>
        BY <2>1, <3>1 DEF GridOK
      <3>3. DOMAIN tiles' = {}
        BY <3>2, EmptyRows, Zenon
      <3> QED
        BY <2>1, <3>2, <3>3 DEF GridOK
    <2>3. SearchOK'
      BY <1>1, <1>3, EmptyRows, WindowsUiAssumption DEF Logout, SearchOK
    <2>4. NothingLeftBehind'
      BY <1>1, <1>3, <2>1, <2>2 DEF Logout, NothingLeftBehind
    <2> QED
      BY <1>1, <1>2, <2>1, <2>3, <2>4 DEF IInv
  <1>4. CASE DestroyMainWindow
    <2>1. GridOK'
      BY <1>4 DEF DestroyMainWindow, IInv, GridOK, AreRows, Labels
    <2>2. SearchOK'
      BY <1>1, <1>4, EmptyRows DEF DestroyMainWindow, IInv, SearchOK
    <2>3. NothingLeftBehind'
      BY <1>4 DEF DestroyMainWindow, NothingLeftBehind
    <2> QED
      BY <1>1, <1>2, <2>1, <2>2, <2>3 DEF IInv
  <1> QED
    BY <1>3, <1>4

\* An operation or a search of the core keeps the invariant.
LEMMA CoreIInv ==
    ASSUME IInv, OperationProcess \/ SearchBarProcess
    PROVE  IInv'
  <1>1. CASE OperationProcess
    <2>1. /\ operation_queue # <<>> /\ operation_queue \in Seq(Operations(Nat))
          /\ operation_queue' = Tail(operation_queue)
          /\ account' = Applied(account, Head(operation_queue))
      BY <1>1 DEF OperationProcess, IInv, SessionOK
    <2>2. Head(operation_queue) \in Operations(Nat) /\ Tail(operation_queue) \in Seq(Operations(Nat))
      BY <2>1, RangeOfPop
    <2>3. IsList(account')
      BY <2>1, <2>2, AppliedIsList DEF IInv, SessionOK
    <2>4. SessionOK'
      BY <1>1, <2>1, <2>2, <2>3 DEF OperationProcess, IInv, SessionOK
    <2> QED
      BY <1>1, <2>4 DEF OperationProcess, IInv, SearchOK, GridOK, AreRows, Labels, DialogOK,
                        NothingLeftBehind
  <1>2. CASE SearchBarProcess
    <2>1. AreRows(account.entries)
      BY ListRows DEF IInv, SessionOK
    <2>2. AreRows(search_result')
      BY <1>2, <2>1 DEF SearchBarProcess, Found, Restrict, AreRows
    <2>3. SearchOK'
      BY <1>2, <2>2 DEF SearchBarProcess, IInv, SearchOK, AreRows
    <2> QED
      BY <1>2, <2>3 DEF SearchBarProcess, IInv, SessionOK, GridOK, AreRows, Labels, DialogOK,
                        NothingLeftBehind
  <1> QED
    BY <1>1, <1>2

\* Every step keeps the invariant.
LEMMA StepIInv == IInv /\ [Next]_vars => IInv'
  <1> SUFFICES ASSUME IInv, [Next]_vars PROVE IInv'
    OBVIOUS
  <1>1. CASE UNCHANGED vars
    BY <1>1 DEF vars, IInv, SessionOK, SearchOK, GridOK, AreRows, Labels, DialogOK,
                NothingLeftBehind
  <1>2. CASE Next
    BY <1>1, <1>2, SearchIInv, DialogsIInv, StartIInv, EndIInv, CoreIInv DEF Next, Idle
  <1> QED
    BY <1>1, <1>2

\* The invariant holds throughout; what matters in it is that the tiles are those of the
\* rows, and that a dialog has the session it was opened in.
THEOREM Invariance == Spec => []IInv
  <1>1. Init => IInv
    BY InitIInv
  <1>2. IInv /\ [Next]_vars => IInv'
    BY StepIInv
  <1> QED
    BY <1>1, <1>2, PTL DEF Spec

\* TypeOK.
THEOREM TypeCorrect == Spec => []TypeOK
  <1>1. IInv => TypeOK
    <2> SUFFICES ASSUME IInv PROVE TypeOK
      OBVIOUS
    <2>1. \A i \in DOMAIN operation_queue : operation_queue[i] \in Operations(Nat)
      BY DEF IInv, SessionOK
    <2> QED
      BY <2>1 DEF IInv, SessionOK, SearchOK, GridOK, AreRows, DialogOK, TypeOK
  <1> QED
    BY <1>1, Invariance, PTL

\* NothingLeftBehind: on the login page nothing of the last session is left.
THEOREM LogoutCleansUp == Spec => []NothingLeftBehind
  <1>1. IInv => NothingLeftBehind
    BY DEF IInv
  <1> QED
    BY <1>1, Invariance, PTL

\* SelectionKept: a refresh does not move the selection from a password that is still
\* listed.
THEOREM RefreshKeepsSelection == Spec => SelectionKept
  <1>1. IInv /\ [Next]_vars =>
          [passwords_' # passwords_ /\ selected \in DOMAIN passwords_' => selected' = selected]_vars
    <2> SUFFICES ASSUME IInv, Next, passwords_' # passwords_, selected \in DOMAIN passwords_'
                 PROVE  selected' = selected
      OBVIOUS
    <2>1. GridOK /\ SessionOK /\ SearchOK
      BY DEF IInv
    <2>2. AreRows(<<>>) /\ AreRows(account.entries) /\ AreRows(search_result)
          /\ \A u \in Users : AreRows(saved[u].entries)
      BY <2>1, EmptyRows, ListRows DEF SessionOK, SearchOK
    <2>3. ASSUME NEW rows, AreRows(rows), ShowRows(rows) PROVE selected' = selected
      BY <2>1, <2>3, ShowRowsKeepsGrid
    <2>4. CASE RefreshPasswordGrid
      BY <2>2, <2>3, <2>4 DEF RefreshPasswordGrid
    <2>5. CASE \E u \in Users : StartSession(u)
      BY <2>2, <2>3, <2>5 DEF StartSession
    <2>6. CASE Logout
      BY <2>2, <2>3, <2>6 DEF Logout
    <2>7. RefreshPasswordGrid \/ (\E u \in Users : StartSession(u)) \/ Logout
      BY DEF Next, SearchBox, TypeInSearchBox, EnterInSearchBox, ClearSearch, Timers,
             DebounceTimer, RefreshTimer, ApplySearchText, Dialogs, OpenAddPassword,
             CancelAddPassword, SubmitPassword, SaveChanges, SelectTile, OpenPasswordFromGrid,
             ToggleEdit, DeletePassword, CloseViewPassword, DestroyMainWindow,
             OperationProcess, SearchBarProcess, Idle, vars
    <2> QED
      BY <2>4, <2>5, <2>6, <2>7
  <1> QED
    BY <1>1, Invariance, PTL DEF Spec, SelectionKept
=============================================================================
