----------------------------- MODULE WindowsUi -----------------------------
(***************************************************************************)
(* The main window of gui/vsWindowsUi over the core: sessions, timers, the  *)
(* search box, the grid, and the two password dialogs.                      *)
(*                                                                         *)
(* One thread runs every handler from beginning to end, so a handler is a   *)
(* step.  A dialog is modal: its own message loop still dispatches the      *)
(* timers of the main window, which is otherwise disabled.  The operation   *)
(* and search threads of the core are one step per operation and search, as *)
(* DisplayContent is shown to make them take effect; between sessions the   *)
(* table holds what the final save wrote, and the dialogs accept no quote.  *)
(***************************************************************************)
EXTENDS Passwords, SequencesExt

CONSTANTS
    Users,
    NoUser,
    SavedAtFirst,     \* user -> the list of the user in the table, at first
    Description,      \* the field that labels a tile
    RequiredFields,   \* username and encryped_password
    Quoted,           \* the texts with a single quote in them
    SearchedFields,
    Terms,            \* what may be typed in the search box
    Trimmed,          \* what is typed there -> the term
    Matches,          \* term -> the field values that contain it
    MaxInputs         \* bound: what the user does

ASSUME WindowsUiAssumption ==
    /\ NoUser \notin Users
    /\ DOMAIN SavedAtFirst = Users /\ \A u \in Users : IsList(SavedAtFirst[u])
    /\ Description \in Fields /\ RequiredFields \subseteq Fields
    /\ Empty \in Terms /\ Trimmed \in [Terms -> Terms] /\ Trimmed[Empty] = Empty
    /\ MaxInputs \in Nat

VARIABLES
    page,             \* "login", "main", or "closed"
    user,             \* g_signedInUser: there is a g_userContent unless NoUser
    saved,            \* user -> the list in the table
    account,          \* of g_userContent: the list, and the operations waiting
    operation_queue,
    search_term, search_event_state, search_result,
    timers,           \* the timers that are set
    search_box,       \* the text in the search box
    g_searchText,
    passwords_,       \* of g_passwordGrid: id -> password
    tiles,            \* its tiles: id -> label
    selected,         \* the id of the selected tile, or NoTile
    dialog,           \* the dialog that is open
    inputs

sessionVars == <<page, user, saved>>
searchVars == <<search_term, search_event_state, search_result>>
coreVars == <<account, operation_queue, searchVars>>
gridVars == <<passwords_, tiles, selected>>
vars == <<sessionVars, coreVars, gridVars, timers, search_box, g_searchText, dialog, inputs>>

NoTile == -1
NoDialog == [kind |-> "none"]
NoList == [entries |-> <<>>, last_id |-> 0]

Input == inputs < MaxInputs /\ inputs' = inputs + 1

\* The main window takes input: no dialog is open.
OnMainPage == page = "main" /\ dialog = NoDialog /\ Input

------------------------------------------------------------------------------
\* PasswordGrid

Labels(rows) == [id \in DOMAIN rows |-> rows[id][Description]]

TilesDiffer(rows) == Labels(rows) # Labels(passwords_)

\* (fault) the selection is not given up with its tile
ShowRowsKeepingSelection(rows) ==
    /\ passwords_' = rows
    /\ tiles' = IF TilesDiffer(rows) THEN Labels(rows) ELSE tiles
    /\ UNCHANGED selected

\* (fault) the tiles are rebuilt without looking for the selected one
ShowRowsUnselected(rows) ==
    /\ passwords_' = rows
    /\ IF TilesDiffer(rows) THEN tiles' = Labels(rows) /\ selected' = NoTile
                            ELSE UNCHANGED <<tiles, selected>>

\* Refresh: the new rows, and new tiles when they would differ.
ShowRows(rows) ==
    /\ passwords_' = rows
    /\ IF TilesDiffer(rows)
       THEN /\ tiles' = Labels(rows)
            /\ selected' = IF selected \in DOMAIN rows THEN selected ELSE NoTile
       ELSE UNCHANGED <<tiles, selected>>

------------------------------------------------------------------------------
\* The grid, the search box and the timers.

SearchEvent(term) ==
    /\ search_term' = term /\ search_event_state' = TRUE
    /\ UNCHANGED search_result

\* (fault) the search is not run again
RefreshPasswordGridOnce ==
    /\ IF g_searchText' # Empty
       THEN ShowRows(search_result)
       ELSE ShowRows(account.entries)
    /\ UNCHANGED searchVars

\* While searching, the search is asked for again and what the last one found is
\* shown.  The caller has set g_searchText.
RefreshPasswordGrid ==
    IF g_searchText' # Empty
    THEN SearchEvent(g_searchText') /\ ShowRows(search_result)
    ELSE ShowRows(account.entries) /\ UNCHANGED searchVars

\* ApplySearchText, when the search box holds this text.
ApplySearchText(box) ==
    LET term == Trimmed[box]
        asks == term # g_searchText /\ term # Empty
    IN  /\ g_searchText' = term
        /\ timers' = (timers \ {"debounce"}) \cup (IF asks THEN {"soon"} ELSE {})
        /\ \/ term = g_searchText /\ UNCHANGED <<gridVars, searchVars>>
           \/ asks /\ SearchEvent(term) /\ UNCHANGED gridVars
           \/ term # g_searchText /\ term = Empty /\ RefreshPasswordGrid

\* EN_CHANGE of the search box
TypeInSearchBox(text) ==
    /\ OnMainPage
    /\ search_box' = text
    /\ timers' = timers \cup {"debounce"}
    /\ UNCHANGED <<sessionVars, coreVars, gridVars, g_searchText, dialog>>

EnterInSearchBox ==
    /\ OnMainPage
    /\ ApplySearchText(search_box)
    /\ UNCHANGED <<sessionVars, account, operation_queue, search_box, dialog>>

\* The Clear button, or Esc in the search box: what was typed is not waited for.
ClearSearch ==
    /\ OnMainPage
    /\ search_box' = Empty
    /\ ApplySearchText(Empty)
    /\ UNCHANGED <<sessionVars, account, operation_queue, dialog>>

DebounceTimer ==
    /\ "debounce" \in timers
    /\ ApplySearchText(search_box)
    /\ UNCHANGED <<sessionVars, account, operation_queue, search_box, dialog, inputs>>

RefreshTimer(timer) ==
    /\ timer \in timers \cap {"refresh", "soon"}
    /\ timers' = IF timer = "soon" THEN timers \ {"soon"} ELSE timers
    /\ UNCHANGED g_searchText
    /\ RefreshPasswordGrid
    /\ UNCHANGED <<sessionVars, account, operation_queue, search_box, dialog, inputs>>

------------------------------------------------------------------------------
\* The dialogs.  A change that was queued is shown soon after they close.

Close(queued) ==
    /\ dialog' = NoDialog
    /\ timers' = IF queued THEN timers \cup {"soon"} ELSE timers

\* ReadPasswordForm: what is typed in the form is taken, or its field rejected.
Accepted(form) ==
    /\ \A f \in RequiredFields : form[f] # Empty
    /\ \A f \in Fields : form[f] \notin Quoted

OpenAddPassword ==
    /\ OnMainPage
    /\ dialog' = [kind |-> "add", session |-> user]
    /\ UNCHANGED <<sessionVars, coreVars, gridVars, timers, search_box, g_searchText>>

SubmitPassword(form) ==
    /\ dialog.kind = "add" /\ Input
    /\ Accepted(form)
    /\ operation_queue' = Append(operation_queue, [operation_type |-> "ADD", curr_password |-> form])
    /\ Close(TRUE)
    /\ UNCHANGED <<sessionVars, account, searchVars, gridVars, search_box, g_searchText>>

CancelAddPassword ==
    /\ dialog.kind = "add" /\ Input
    /\ Close(FALSE)
    /\ UNCHANGED <<sessionVars, coreVars, gridVars, search_box, g_searchText>>

SelectTile(id) ==
    /\ OnMainPage
    /\ selected' = id
    /\ UNCHANGED <<sessionVars, coreVars, passwords_, tiles, timers, search_box,
                   g_searchText, dialog>>

\* A click on a tile, or Enter on the selected one: the dialog gets a snapshot.
OpenPasswordFromGrid(id) ==
    /\ OnMainPage
    /\ id \in DOMAIN passwords_
    /\ selected' = id
    /\ dialog' = [kind |-> "view", session |-> user, p_id |-> id, current |-> passwords_[id],
                  editing |-> FALSE, changesQueued |-> FALSE]
    /\ UNCHANGED <<sessionVars, coreVars, passwords_, tiles, timers, search_box,
                   g_searchText>>

\* Edit and Cancel Edit
ToggleEdit ==
    /\ dialog.kind = "view" /\ Input
    /\ dialog' = [dialog EXCEPT !.editing = ~@]
    /\ UNCHANGED <<sessionVars, coreVars, gridVars, timers, search_box, g_searchText>>

SaveChanges(form) ==
    /\ dialog.kind = "view" /\ dialog.editing /\ Input
    /\ Accepted(form)
    /\ operation_queue' = Append(operation_queue,
          [operation_type |-> "MODIFY", p_id |-> dialog.p_id, curr_password |-> form])
    /\ dialog' = [dialog EXCEPT !.current = form, !.editing = FALSE, !.changesQueued = TRUE]
    /\ UNCHANGED <<sessionVars, account, searchVars, gridVars, timers, search_box, g_searchText>>

DeletePassword ==
    /\ dialog.kind = "view" /\ ~dialog.editing /\ Input
    /\ operation_queue' = Append(operation_queue,
          [operation_type |-> "REMOVE", p_id |-> dialog.p_id])
    /\ Close(TRUE)
    /\ UNCHANGED <<sessionVars, account, searchVars, gridVars, search_box, g_searchText>>

CloseViewPassword ==
    /\ dialog.kind = "view" /\ Input
    /\ Close(dialog.changesQueued)
    /\ UNCHANGED <<sessionVars, coreVars, gridVars, search_box, g_searchText>>

------------------------------------------------------------------------------
\* Sessions.

Init ==
    /\ page = "login" /\ user = NoUser /\ saved = SavedAtFirst
    /\ account = NoList /\ operation_queue = <<>>
    /\ search_term = Empty /\ search_event_state = FALSE /\ search_result = <<>>
    /\ timers = {} /\ search_box = Empty /\ g_searchText = Empty
    /\ passwords_ = <<>> /\ tiles = <<>> /\ selected = NoTile
    /\ dialog = NoDialog /\ inputs = 0

\* A login that is accepted, and a session that could be opened.
StartSession(u) ==
    /\ page = "login" /\ Input
    /\ page' = "main" /\ user' = u
    /\ account' = saved[u] /\ operation_queue' = <<>>
    /\ search_term' = Empty /\ search_event_state' = FALSE /\ search_result' = <<>>
    /\ search_box' = Empty /\ g_searchText' = Empty
    /\ ShowRows(saved[u].entries)
    /\ timers' = (timers \ {"debounce"}) \cup {"refresh"}
    /\ UNCHANGED <<saved, dialog>>

\* The end of a DisplayContent: its queue is drained and its list is saved.
EndOfSession ==
    /\ saved' = IF user = NoUser THEN saved
                ELSE [saved EXCEPT ![user] = After(account, operation_queue)]
    /\ user' = NoUser
    /\ account' = NoList /\ operation_queue' = <<>>
    /\ search_term' = Empty /\ search_event_state' = FALSE /\ search_result' = <<>>
    /\ timers' = {}

\* (fault) the grid keeps its rows, and the search its term
LogoutKeepingPage ==
    /\ OnMainPage
    /\ page' = "login"
    /\ EndOfSession
    /\ search_box' = Empty
    /\ UNCHANGED <<g_searchText, passwords_, tiles, selected, dialog>>

Logout ==
    /\ OnMainPage
    /\ page' = "login"
    /\ EndOfSession
    /\ ShowRows(<<>>)
    /\ search_box' = Empty /\ g_searchText' = Empty
    /\ UNCHANGED dialog

\* WM_DESTROY, and what follows the message loop
DestroyMainWindow ==
    /\ page # "closed" /\ dialog = NoDialog /\ Input
    /\ page' = "closed"
    /\ EndOfSession
    /\ UNCHANGED <<gridVars, search_box, g_searchText, dialog>>

------------------------------------------------------------------------------
\* The threads of the core.

OperationProcess ==
    /\ operation_queue # <<>>
    /\ account' = Applied(account, Head(operation_queue))
    /\ operation_queue' = Tail(operation_queue)
    /\ UNCHANGED <<sessionVars, searchVars, gridVars, timers, search_box, g_searchText, dialog,
                   inputs>>

\* The entries with a field that contains the term.
Found(list, term) ==
    Restrict(list.entries, {id \in DOMAIN list.entries :
        \E f \in SearchedFields : term # Empty /\ list.entries[id][f] \in Matches[term]})

SearchBarProcess ==
    /\ search_event_state
    /\ search_result' = Found(account, search_term)
    /\ search_event_state' = FALSE
    /\ UNCHANGED <<sessionVars, account, operation_queue, search_term, gridVars, timers,
                   search_box, g_searchText, dialog, inputs>>

------------------------------------------------------------------------------
SearchBox ==
    \/ \E text \in Terms \ {search_box} : TypeInSearchBox(text)
    \/ EnterInSearchBox \/ ClearSearch

Dialogs ==
    \/ OpenAddPassword \/ CancelAddPassword
    \/ \E form \in Submitted : SubmitPassword(form) \/ SaveChanges(form)
    \/ \E id \in DOMAIN tiles : SelectTile(id) \/ OpenPasswordFromGrid(id)
    \/ ToggleEdit \/ DeletePassword \/ CloseViewPassword

\* Nobody is logged in: the program waits, or is over.
Idle == page # "main" /\ UNCHANGED vars

Timers == DebounceTimer \/ RefreshTimer("refresh") \/ RefreshTimer("soon")

Next ==
    \/ SearchBox \/ Dialogs \/ Timers
    \/ \E u \in Users : StartSession(u)
    \/ Logout \/ DestroyMainWindow
    \/ OperationProcess \/ SearchBarProcess
    \/ Idle

Spec == Init /\ [][Next]_vars

\* Every timer that is set goes off, whether or not a dialog is open, and the
\* threads of the core go on.  The user has to do nothing.
Fairness ==
    /\ WF_vars(DebounceTimer)
    /\ WF_vars(RefreshTimer("refresh")) /\ WF_vars(RefreshTimer("soon"))
    /\ WF_vars(OperationProcess) /\ WF_vars(SearchBarProcess)

FairSpec == Spec /\ Fairness

------------------------------------------------------------------------------
\* Properties.

\* Every variable keeps its shape, and a dialog works on the session it was opened
\* in, which is still there.
TypeOK ==
    /\ page = "main" <=> user \in Users
    /\ IsList(account) /\ \A u \in Users : IsList(saved[u])
    /\ \A i \in DOMAIN operation_queue : operation_queue[i] \in Operations(Nat)
    /\ timers \subseteq {"refresh", "soon", "debounce"}
    /\ search_box \in Terms /\ g_searchText \in Terms
    /\ \A id \in DOMAIN passwords_ : id \in Nat /\ passwords_[id] \in Password
    /\ selected \in DOMAIN tiles \cup {NoTile}
    /\ dialog # NoDialog => dialog.session = user /\ page = "main"

\* vsWindowsUi.cpp:8-9, "A user session ... only exists while the password manager
\* page is shown": on the login page nothing of the last session is left for the
\* next, no row, no selection, no search, and no timer that would act on it.
NothingLeftBehind ==
    page = "login" =>
        /\ passwords_ = <<>> /\ tiles = <<>> /\ selected = NoTile
        /\ search_box = Empty /\ g_searchText = Empty
        /\ timers = {}

\* PasswordGrid.h:7-8, "so the periodic refresh doesn't flicker or lose the
\* selection": while the selected password is still listed, no refresh moves the
\* selection.
SelectionKept ==
    [][passwords_' # passwords_ /\ selected \in DOMAIN passwords_' => selected' = selected]_vars

Shown ==
    /\ operation_queue = <<>>
    /\ Trimmed[search_box] = g_searchText
    /\ passwords_ = IF g_searchText = Empty THEN account.entries ELSE Found(account, g_searchText)
    /\ tiles = Labels(passwords_)

\* vsWindowsUi.cpp:174-175, "Re-running each tick keeps results current after adds,
\* edits and deletes": when the user stops, the grid comes to show the account,
\* filtered by what is in the search box, and goes on showing it.
GridCatchesUp == <>[](page = "main" => Shown)
=============================================================================
