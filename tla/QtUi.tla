-------------------------------- MODULE QtUi --------------------------------
(***************************************************************************)
(* The main window of gui/qtCreatorUi over the core: sessions, the timers,  *)
(* the search box, the table, and the two password forms.                   *)
(*                                                                         *)
(* Unlike the dialogs of the Windows UI the forms are not modal: the user   *)
(* may leave them open and go on in the main window, even log out and in as *)
(* another user, and a form closed with Esc keeps what was typed in it.     *)
(* What a form does is decided by the callback the last login or logout     *)
(* gave it.  The slots of the GUI thread are steps; the operation and       *)
(* search threads are one step per operation and search, and a session      *)
(* writes its rows when it ends.  Texts are those SQLite stores as typed.   *)
(***************************************************************************)
EXTENDS Passwords, FiniteSetsExt, SequencesExt

CONSTANTS
    Users,
    NoUser,
    SavedAtFirst,     \* the table at first: PASSWORD_ID -> [userid, password]
    Blank,            \* an empty form
    SearchedFields,
    Terms,            \* what may be typed in the search box
    Trimmed,          \* what is typed there -> the term
    Matches,          \* term -> the field values that contain it
    MaxInputs         \* bound: what the user does

ASSUME QtUiAssumption ==
    /\ NoUser \notin Users
    /\ Submitted = Password /\ Blank = [f \in Fields |-> Empty]
    /\ IsFiniteSet(DOMAIN SavedAtFirst) /\ DOMAIN SavedAtFirst \subseteq Nat
    /\ SavedAtFirst \in [DOMAIN SavedAtFirst -> [userid : Users, password : Password]]
    /\ Empty \in Terms /\ Trimmed \in [Terms -> Terms] /\ Trimmed[Empty] = Empty
    /\ MaxInputs \in Nat

VARIABLES
    page,                \* "login", "main", or "closed"
    user,                \* who is logged in
    user_data,           \* the table USER_DATA: PASSWORD_ID -> [userid, password]
    max_password_id,     \* static, so it outlives a session
    user_content,        \* the DisplayContent, or NoContent for nullptr
    search_input,        \* the text in the search box
    search_term,         \* of the main window; search_active is search_term # Empty
    table_display_items, \* the rows shown: id -> password
    timers,              \* the timers that are set
    password_form,       \* to add a password
    view_password_form,  \* to look at one, change and delete it
    inputs

sessionVars == <<page, user, user_data, max_password_id>>
tableVars == <<search_input, search_term, table_display_items>>
formVars == <<password_form, view_password_form>>
vars == <<sessionVars, user_content, tableVars, timers, formVars, inputs>>

NoContent == [account |-> <<>>]

Input == inputs < MaxInputs /\ inputs' = inputs + 1
OnMainPage == page = "main" /\ Input

------------------------------------------------------------------------------
\* What the main window calls of the core.

SearchEvent(term) ==
    user_content' = [user_content EXCEPT !.search_term = term, !.search_event_state = TRUE]

\* The callback of the forms: operation_event, and a timer of its own that shows the
\* change.  Logged out it does nothing.
QueueOperation(op) ==
    IF user = NoUser THEN UNCHANGED <<user_content, timers>>
    ELSE /\ user_content' = [user_content EXCEPT !.operation_queue = Append(@, op)]
         /\ timers' = timers \cup {"single shot"}

\* (fault) only the ids are compared
TableRowsDifferById(items) == DOMAIN items # DOMAIN table_display_items

TableRowsDiffer(items) == items # table_display_items

PopulateTable(items) ==
    table_display_items' = IF TableRowsDiffer(items) THEN items ELSE table_display_items

\* While searching, the search is asked for again and what the last one found is
\* shown.  The caller has set search_term.
RefreshDisplay ==
    IF user_content = NoContent THEN UNCHANGED <<user_content, table_display_items>>
    ELSE IF search_term' # Empty
         THEN SearchEvent(search_term') /\ PopulateTable(user_content.search_result)
         ELSE PopulateTable(user_content.account.entries) /\ UNCHANGED user_content

------------------------------------------------------------------------------
\* The search box and the timers.

TypeInSearchInput(text) ==
    /\ OnMainPage
    /\ search_input' = text
    /\ timers' = timers \cup {"debounce"}
    /\ UNCHANGED <<sessionVars, user_content, search_term, table_display_items, formVars>>

\* The debounce timer went off.
ApplySearchText ==
    LET term == Trimmed[search_input]
        asks == term # search_term /\ term # Empty
    IN  /\ "debounce" \in timers
        /\ search_term' = term
        /\ timers' = (timers \ {"debounce"}) \cup (IF asks THEN {"search result"} ELSE {})
        /\ \/ term = search_term /\ UNCHANGED <<user_content, table_display_items>>
           \/ asks /\ SearchEvent(term) /\ UNCHANGED table_display_items
           \/ term # search_term /\ term = Empty /\ RefreshDisplay
        /\ UNCHANGED <<sessionVars, search_input, formVars, inputs>>

\* The refresh timer goes on, the others go off once.
RefreshTimer(timer) ==
    /\ timer \in timers \ {"debounce"}
    /\ timers' = IF timer = "refresh" THEN timers ELSE timers \ {timer}
    /\ UNCHANGED search_term
    /\ RefreshDisplay
    /\ UNCHANGED <<sessionVars, search_input, formVars, inputs>>

------------------------------------------------------------------------------
\* The form to add a password.  The buttons of a form that is shown work on either
\* page.

AddClicked ==
    /\ OnMainPage
    /\ password_form' = [password_form EXCEPT !.shown = TRUE]
    /\ UNCHANGED <<sessionVars, user_content, tableVars, timers, view_password_form>>

TypeInAddForm(form) ==
    /\ password_form.shown /\ Input
    /\ password_form' = [password_form EXCEPT !.typed = form]
    /\ UNCHANGED <<sessionVars, user_content, tableVars, timers, view_password_form>>

\* Nothing that is typed is rejected, not even a blank form.
AcceptAddForm ==
    /\ password_form.shown /\ Input
    /\ QueueOperation([operation_type |-> "ADD", curr_password |-> password_form.typed])
    /\ password_form' = [shown |-> FALSE, typed |-> Blank]
    /\ UNCHANGED <<sessionVars, tableVars, view_password_form>>

\* Cancel clears the form, Esc does not.
CloseAddForm ==
    /\ password_form.shown /\ Input
    /\ \E typed \in {Blank, password_form.typed} :
          password_form' = [shown |-> FALSE, typed |-> typed]
    /\ UNCHANGED <<sessionVars, user_content, tableVars, timers, view_password_form>>

------------------------------------------------------------------------------
\* The form to look at a password: it works on a copy of the row.

NoPassword == [shown |-> FALSE, p_id |-> -1, typed |-> Blank, modify_password |-> FALSE]

ChangeView(form) ==
    /\ view_password_form' = form
    /\ UNCHANGED <<sessionVars, tableVars, password_form>>

CellDoubleClicked(id) ==
    /\ OnMainPage
    /\ ChangeView([shown |-> TRUE, p_id |-> id, typed |-> table_display_items[id],
                   modify_password |-> FALSE])
    /\ UNCHANGED <<user_content, timers>>

ModifyClicked ==
    /\ view_password_form.shown /\ Input
    /\ ChangeView([view_password_form EXCEPT !.modify_password = ~@])
    /\ UNCHANGED <<user_content, timers>>

TypeInViewForm(form) ==
    /\ view_password_form.shown /\ view_password_form.modify_password /\ Input
    /\ ChangeView([view_password_form EXCEPT !.typed = form])
    /\ UNCHANGED <<user_content, timers>>

\* The form stays as it is, ready to save once more.
SaveClicked ==
    /\ view_password_form.shown /\ view_password_form.modify_password /\ Input
    /\ QueueOperation([operation_type |-> "MODIFY", p_id |-> view_password_form.p_id,
                       curr_password |-> view_password_form.typed])
    /\ ChangeView(view_password_form)

\* So it does here, with the entry that is on its way out.
DeleteClicked ==
    /\ view_password_form.shown /\ ~view_password_form.modify_password /\ Input
    /\ QueueOperation([operation_type |-> "REMOVE", p_id |-> view_password_form.p_id])
    /\ ChangeView(view_password_form)

\* Ok and Cancel, and Esc, which keeps the password in the hidden form.
CloseViewForm ==
    /\ view_password_form.shown /\ Input
    /\ \/ ChangeView([NoPassword EXCEPT !.modify_password = view_password_form.modify_password])
       \/ ChangeView([view_password_form EXCEPT !.shown = FALSE])
    /\ UNCHANGED <<user_content, timers>>

------------------------------------------------------------------------------
\* Sessions.

Init ==
    /\ page = "login" /\ user = NoUser
    /\ user_data = SavedAtFirst /\ max_password_id = 10
    /\ user_content = NoContent
    /\ search_input = Empty /\ search_term = Empty /\ table_display_items = <<>>
    /\ timers = {}
    /\ password_form = [shown |-> FALSE, typed |-> Blank]
    /\ view_password_form = NoPassword
    /\ inputs = 0

RowsOf(u) == {id \in DOMAIN user_data : user_data[id].userid = u}

\* (fault) the last id is that of the user's own rows
LastIdOfUser(u) == Max({max_password_id} \cup RowsOf(u))

\* What the login queries find the largest id to be.
LastId(u) == Max({max_password_id} \cup DOMAIN user_data)

\* launch_app loads the account; the table is filled from it.
Login(u) ==
    LET entries == [id \in RowsOf(u) |-> user_data[id].password]
    IN  /\ page = "login" /\ Input
        /\ page' = "main" /\ user' = u
        /\ max_password_id' = LastId(u)
        /\ user_content' = [account |-> [entries |-> entries, last_id |-> LastId(u)],
                            operation_queue |-> <<>>, search_term |-> Empty,
                            search_event_state |-> FALSE, search_result |-> <<>>]
        /\ search_input' = Empty /\ search_term' = Empty /\ table_display_items' = entries
        /\ timers' = timers \cup {"refresh"}
        /\ UNCHANGED <<user_data, formVars>>

\* launch_app throws: the login page stays.
LoginFails ==
    /\ page = "login" /\ Input
    /\ search_term' = Empty /\ table_display_items' = <<>>
    /\ UNCHANGED <<sessionVars, user_content, search_input, timers, formVars>>

\* (fault) the pointer to the deleted DisplayContent is kept
DeleteUserContentKeepingPointer ==
    /\ user' = NoUser
    /\ UNCHANGED <<user_data, max_password_id, user_content>>

\* The destructor of DisplayContent: the queue is drained, and each entry written with
\* INSERT OR REPLACE after the rows of removed entries were deleted.
DeleteUserContent ==
    LET list == After(user_content.account, user_content.operation_queue)
        others == DOMAIN user_data \ RowsOf(user)
    IN  /\ user_data' = IF user_content = NoContent THEN user_data
                        ELSE [id \in others \cup DOMAIN list.entries |->
                                 IF id \in DOMAIN list.entries
                                 THEN [userid |-> user, password |-> list.entries[id]]
                                 ELSE user_data[id]]
        /\ user' = NoUser /\ user_content' = NoContent
        /\ UNCHANGED max_password_id

\* (fault) the debounce timer is not stopped
LogoutKeepingTimer ==
    /\ OnMainPage
    /\ page' = "login"
    /\ timers' = timers \ {"refresh", "search result"}
    /\ search_input' = Empty /\ search_term' = Empty /\ table_display_items' = <<>>
    /\ DeleteUserContent
    /\ UNCHANGED formVars

\* The three timers of the window are stopped, not the one of the callback; the
\* forms get a callback that does nothing and stay open.
Logout ==
    /\ OnMainPage
    /\ page' = "login"
    /\ timers' = timers \cap {"single shot"}
    /\ search_input' = Empty /\ search_term' = Empty /\ table_display_items' = <<>>
    /\ DeleteUserContent
    /\ UNCHANGED formVars

\* The application is closed: the destructor of MainWindow.
Destroy ==
    /\ page # "closed" /\ Input
    /\ page' = "closed"
    /\ timers' = {}
    /\ DeleteUserContent
    /\ password_form' = [shown |-> FALSE, typed |-> Blank] /\ view_password_form' = NoPassword
    /\ UNCHANGED tableVars

------------------------------------------------------------------------------
\* The threads of the core.

OperationProcess ==
    /\ user_content # NoContent /\ user_content.operation_queue # <<>>
    /\ user_content' = [user_content EXCEPT
          !.account = Applied(@, Head(user_content.operation_queue)),
          !.operation_queue = Tail(@)]
    /\ UNCHANGED <<sessionVars, tableVars, timers, formVars, inputs>>

\* The entries with a field that contains the term.
Found(entries, term) ==
    Restrict(entries, {id \in DOMAIN entries :
        \E f \in SearchedFields : entries[id][f] \in Matches[term]})

SearchBarProcess ==
    /\ user_content # NoContent /\ user_content.search_event_state
    /\ user_content' = [user_content EXCEPT
          !.search_result = Found(user_content.account.entries, user_content.search_term),
          !.search_event_state = FALSE]
    /\ UNCHANGED <<sessionVars, tableVars, timers, formVars, inputs>>

------------------------------------------------------------------------------
AddForm ==
    \/ AddClicked \/ AcceptAddForm \/ CloseAddForm
    \/ \E form \in Submitted \ {password_form.typed} : TypeInAddForm(form)

ViewForm ==
    \/ \E id \in DOMAIN table_display_items : CellDoubleClicked(id)
    \/ \E form \in Submitted \ {view_password_form.typed} : TypeInViewForm(form)
    \/ ModifyClicked \/ SaveClicked \/ DeleteClicked \/ CloseViewForm

Timers ==
    \/ ApplySearchText
    \/ \E timer \in {"refresh", "search result", "single shot"} : RefreshTimer(timer)

\* Nobody is logged in: the program waits, or is over.
Idle == page # "main" /\ UNCHANGED vars

Next ==
    \/ \E text \in Terms \ {search_input} : TypeInSearchInput(text)
    \/ AddForm \/ ViewForm \/ Timers
    \/ \E u \in Users : Login(u)
    \/ LoginFails \/ Logout \/ Destroy
    \/ OperationProcess \/ SearchBarProcess
    \/ Idle

Spec == Init /\ [][Next]_vars

\* Timers that are set go off, and the threads of the core go on.  The user has to do
\* nothing.
Fairness ==
    /\ WF_vars(ApplySearchText)
    /\ WF_vars(RefreshTimer("refresh")) /\ WF_vars(RefreshTimer("search result"))
    /\ WF_vars(RefreshTimer("single shot"))
    /\ WF_vars(OperationProcess) /\ WF_vars(SearchBarProcess)

FairSpec == Spec /\ Fairness

------------------------------------------------------------------------------
\* Properties.

\* Every variable keeps its shape; there is a session exactly on the main page, and a
\* form that is shown to change a password has one.
TypeOK ==
    /\ page = "main" <=> user \in Users
    /\ user = NoUser <=> user_content = NoContent
    /\ \A id \in DOMAIN user_data :
          id \in Nat /\ user_data[id] \in [userid : Users, password : Password]
    /\ user # NoUser =>
          /\ IsList(user_content.account)
          /\ \A i \in DOMAIN user_content.operation_queue :
                user_content.operation_queue[i] \in Operations(Nat)
    /\ timers \subseteq {"refresh", "debounce", "search result", "single shot"}
    /\ search_input \in Terms /\ search_term \in Terms
    /\ \A id \in DOMAIN table_display_items : table_display_items[id] \in Password
    /\ password_form \in [shown : BOOLEAN, typed : Submitted]
    /\ view_password_form.shown => view_password_form.p_id \in Nat

\* mainwindow.cpp:455-483: on the login page the main window holds no row, no search
\* and no timer that could start one for whoever logs in next, whatever the forms that
\* are still open are used for.
NothingLeftBehind ==
    page = "login" =>
        /\ table_display_items = <<>>
        /\ search_input = Empty /\ search_term = Empty
        /\ timers \subseteq {"single shot"}

\* README.md:3, "It stores each user's saved logins": a row is only changed in a
\* session of its user.  A form left open over a logout holds the id of an entry of
\* somebody else, and saving or deleting in it reaches the next session
\* (view_password.cpp:95, 118); the row of that entry is not touched by it.
RowsOfOthersKept ==
    [][\A id \in DOMAIN user_data :
          user_data[id].userid # user =>
              id \in DOMAIN user_data' /\ user_data'[id] = user_data[id]]_vars

Shown ==
    /\ user_content.operation_queue = <<>>
    /\ Trimmed[search_input] = search_term
    /\ table_display_items = IF search_term = Empty THEN user_content.account.entries
                             ELSE Found(user_content.account.entries, search_term)

\* mainwindow.cpp:345, "Re-running on every refresh keeps results current after adds,
\* edits and deletes": when the user stops, the table comes to show the account,
\* filtered by what is in the search box, and goes on showing it.
TableCatchesUp == <>[](page = "main" => Shown)
=============================================================================
