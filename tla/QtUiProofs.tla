----------------------------- MODULE QtUiProofs -----------------------------
(***************************************************************************)
(* Theorems of QtUi for every value of its constants: TypeOK, that a logout *)
(* leaves nothing behind in the main window, and that a session changes no  *)
(* row of another user, whatever forms were left open over a logout.        *)
(***************************************************************************)
EXTENDS QtUi, PasswordsProofs, FiniteSetTheorems

USE DEF sessionVars, tableVars, formVars, Input, OnMainPage

------------------------------------------------------------------------------
\* The inductive invariant, by the parts of the window.

SessionOK ==
    /\ page \in {"login", "main", "closed"} /\ user \in Users \cup {NoUser}
    /\ page = "main" <=> user \in Users
    /\ user = NoUser <=> user_content = NoContent

Rows == [userid : Users, password : Password]

SavedOK ==
    /\ IsFiniteSet(DOMAIN user_data) /\ DOMAIN user_data \subseteq Nat
    /\ user_data \in [DOMAIN user_data -> Rows]
    /\ max_password_id \in Nat

\* Passwords the table can show.
AreShown(items) == \A id \in DOMAIN items : id \in Nat /\ items[id] \in Password

IsContent(content) ==
    /\ content = [account |-> content.account, operation_queue |-> content.operation_queue,
                  search_term |-> content.search_term,
                  search_event_state |-> content.search_event_state,
                  search_result |-> content.search_result]
    /\ IsList(content.account)
    /\ content.operation_queue \in Seq(Operations(Nat))
    /\ AreShown(content.search_result)

ContentOK == user # NoUser => IsContent(user_content)

TableOK ==
    /\ timers \subseteq {"refresh", "debounce", "search result", "single shot"}
    /\ search_input \in Terms /\ search_term \in Terms
    /\ AreShown(table_display_items)

FormsOK ==
    /\ password_form \in [shown : BOOLEAN, typed : Submitted]
    /\ view_password_form \in
          [shown : BOOLEAN, p_id : Nat \cup {-1}, typed : Submitted, modify_password : BOOLEAN]
    /\ view_password_form.shown => view_password_form.p_id \in Nat

\* A row of another user has an id that was given out before the session, and is not
\* an entry of its account: no operation can make it one.
IsApart(row, list) == row <= list.last_id /\ row \notin DOMAIN list.entries

OthersApart ==
    user # NoUser =>
        \A id \in DOMAIN user_data :
            user_data[id].userid # user => IsApart(id, user_content.account)

IInv ==
    /\ SessionOK /\ SavedOK /\ ContentOK /\ TableOK /\ FormsOK /\ OthersApart
    /\ NothingLeftBehind

------------------------------------------------------------------------------
\* Ids.

\* Max of FiniteSetsExt, on finite sets of ids.
LEMMA MaxOfIds ==
    ASSUME NEW S, IsFiniteSet(S), S \subseteq Nat, S # {}
    PROVE  Max(S) \in S /\ \A x \in S : x <= Max(S)
  <1> DEFINE HasMax(R) == \E x \in R : \A y \in R : x >= y
             T == {n \in Nat : \E R : /\ IsFiniteSet(R) /\ R \subseteq Nat /\ R # {}
                                      /\ Cardinality(R) = n /\ ~HasMax(R)}
  <1>1. T = {}
    <2> SUFFICES ASSUME T # {} PROVE FALSE
      OBVIOUS
    <2>1. PICK n \in T : \A m \in T : n <= m
      <3>1. T \subseteq Nat
        OBVIOUS
      <3> HIDE DEF T
      <3> QED
        BY <3>1, LeastNumber
    <2>2. PICK R : /\ IsFiniteSet(R) /\ R \subseteq Nat /\ R # {}
                   /\ Cardinality(R) = n /\ ~HasMax(R)
      BY <2>1
    <2>3. PICK x : x \in R
      BY <2>2
    <2> DEFINE Q == R \ {x}
    <2>4. IsFiniteSet(Q) /\ Cardinality(Q) = n - 1 /\ Q \subseteq Nat
      BY <2>2, <2>3, FS_RemoveElement
    <2>5. n \in Nat /\ n - 1 \in Nat
      BY <2>1, <2>4, FS_CardinalityType
    <2>6. Q # {}
      <3>1. ASSUME Q = {} PROVE FALSE
        <4>1. x >= x
          BY <2>2, <2>3
        <4> QED
          BY <2>2, <2>3, <3>1, <4>1
      <3> QED
        BY <3>1
    <2>7. n - 1 \notin T
      <3>1. ~ (n <= n - 1)
        BY <2>5
      <3> HIDE DEF T
      <3> QED
        BY <2>1, <3>1
    <2>8. HasMax(Q)
      BY <2>4, <2>5, <2>6, <2>7
    <2>9. PICK m \in Q : \A y \in Q : m >= y
      BY <2>8
    <2>10. CASE m >= x
      BY <2>2, <2>9, <2>10
    <2>11. CASE ~ (m >= x)
      <3>1. \A y \in R : x >= y
        <4> TAKE y \in R
        <4>1. m \in Nat /\ x \in Nat /\ y \in Nat
          BY <2>2, <2>3, <2>9
        <4>2. CASE y = x
          BY <4>1, <4>2
        <4>3. CASE y # x
          BY <2>9, <2>11, <4>1, <4>3
        <4> QED
          BY <4>2, <4>3
      <3> QED
        BY <2>2, <2>3, <3>1
    <2> QED
      BY <2>10, <2>11
  <1>2. Cardinality(S) \in Nat
    BY FS_CardinalityType
  <1>3. HasMax(S)
    BY <1>1, <1>2
  <1>4. Max(S) \in S /\ \A y \in S : Max(S) >= y
    BY <1>3 DEF Max
  <1> QED
    BY <1>4

\* Max counts as high as the ids so far, and may be given out.
LEMMA LastIdBounds ==
    ASSUME SavedOK, NEW u
    PROVE  LastId(u) \in Nat /\ \A id \in DOMAIN user_data : id <= LastId(u)
  <1> DEFINE ids == {max_password_id} \cup DOMAIN user_data
  <1>1. ids \subseteq Nat /\ ids # {}
    BY DEF SavedOK
  <1>2. IsFiniteSet(ids)
    <2>1. IsFiniteSet(DOMAIN user_data \cup {max_password_id})
      BY FS_AddElement DEF SavedOK
    <2>2. ids = DOMAIN user_data \cup {max_password_id}
      OBVIOUS
    <2> QED
      BY <2>1, <2>2
  <1>3. LastId(u) = Max(ids)
    BY DEF LastId
  <1>4. \A id \in DOMAIN user_data : id \in ids
    OBVIOUS
  <1> HIDE DEF ids
  <1> QED
    BY <1>1, <1>2, <1>3, <1>4, MaxOfIds

\* An id that is out of the reach of a list stays so.
LEMMA ApartStays ==
    ASSUME NEW list, NEW after, list.last_id \in Nat, after.last_id \in Nat,
           list.last_id <= after.last_id,
           \A id \in DOMAIN after.entries : id \in DOMAIN list.entries \/ id > list.last_id,
           NEW row \in Nat, IsApart(row, list)
    PROVE  IsApart(row, after)
  BY DEF IsApart

------------------------------------------------------------------------------
\* The DisplayContent of a session.

\* A DisplayContent is not the null pointer.
LEMMA ContentIsThere ==
    ASSUME NEW content, IsContent(content)
    PROVE  content # NoContent
  <1>1. DOMAIN content = {"account", "operation_queue", "search_term", "search_event_state",
                          "search_result"}
    BY DEF IsContent
  <1>2. DOMAIN NoContent = {"account"}
    BY DEF NoContent
  <1> QED
    BY <1>1, <1>2

\* A record of well-formed parts is a DisplayContent.
LEMMA ContentIsMade ==
    ASSUME NEW list, IsList(list), NEW queue \in Seq(Operations(Nat)), NEW term, NEW asked,
           NEW found, AreShown(found)
    PROVE  IsContent([account |-> list, operation_queue |-> queue, search_term |-> term,
                      search_event_state |-> asked, search_result |-> found])
  BY DEF IsContent

\* What the window does to the content while the session goes on.
Continues ==
    /\ user = NoUser => user_content' = user_content
    /\ user # NoUser => IsContent(user_content') /\ user_content'.account = user_content.account

\* search_event leaves the list of the session alone.
LEMMA SearchContinues ==
    ASSUME IInv, user # NoUser, NEW term, SearchEvent(term)
    PROVE  Continues
  <1> DEFINE c == user_content
  <1>1. IsContent(c)
    BY DEF IInv, ContentOK
  <1>2. user_content' = [account |-> c.account, operation_queue |-> c.operation_queue,
                         search_term |-> term, search_event_state |-> TRUE,
                         search_result |-> c.search_result]
    BY <1>1 DEF SearchEvent, IsContent
  <1>3. IsContent(user_content')
    BY <1>1, <1>2, ContentIsMade DEF IsContent
  <1> QED
    BY <1>2, <1>3 DEF Continues

\* The callback of a form leaves the list alone and sets its own timer, and does neither
\* when nobody is logged in.
LEMMA QueueContinues ==
    ASSUME IInv, NEW op \in Operations(Nat), QueueOperation(op)
    PROVE  /\ Continues
           /\ timers' \subseteq timers \cup {"single shot"}
           /\ page # "main" => timers' = timers
  <1>1. CASE user = NoUser
    BY <1>1 DEF QueueOperation, Continues
  <1>2. CASE user # NoUser
    <2> DEFINE c == user_content
    <2>1. IsContent(c) /\ page = "main"
      BY <1>2 DEF IInv, ContentOK, SessionOK
    <2>2. user_content' = [account |-> c.account, search_term |-> c.search_term,
                           operation_queue |-> Append(c.operation_queue, op),
                           search_event_state |-> c.search_event_state,
                           search_result |-> c.search_result]
      BY <1>2, <2>1 DEF QueueOperation, IsContent
    <2>3. Append(c.operation_queue, op) \in Seq(Operations(Nat))
      BY <2>1 DEF IsContent
    <2>4. IsContent(user_content')
      BY <2>1, <2>2, <2>3, ContentIsMade DEF IsContent
    <2> QED
      BY <1>2, <2>1, <2>2, <2>4 DEF QueueOperation, Continues
  <1> QED
    BY <1>1, <1>2

\* A refresh shows passwords and leaves the list alone, and changes nothing when nobody is
\* logged in.
LEMMA RefreshContinues ==
    ASSUME IInv, RefreshDisplay
    PROVE  /\ Continues
           /\ AreShown(table_display_items')
           /\ page # "main" => table_display_items' = table_display_items
  <1>1. CASE user = NoUser
    BY <1>1 DEF RefreshDisplay, Continues, IInv, SessionOK, TableOK
  <1>2. CASE user # NoUser
    <2>1. IsContent(user_content) /\ user_content # NoContent /\ page = "main"
      BY <1>2 DEF IInv, ContentOK, SessionOK
    <2>2. AreShown(user_content.search_result) /\ AreShown(user_content.account.entries)
      BY <2>1 DEF IsContent, IsList, AreShown
    <2>3. AreShown(table_display_items)
      BY DEF IInv, TableOK
    <2>4. ASSUME NEW items, AreShown(items), PopulateTable(items)
          PROVE  AreShown(table_display_items')
      BY <2>3, <2>4 DEF PopulateTable
    <2>5. CASE search_term' # Empty
      <3>1. SearchEvent(search_term') /\ PopulateTable(user_content.search_result)
        BY <2>1, <2>5 DEF RefreshDisplay
      <3>2. Continues
        BY <1>2, <3>1, SearchContinues
      <3> QED
        BY <2>1, <2>2, <2>4, <3>1, <3>2
    <2>6. CASE search_term' = Empty
      <3>1. PopulateTable(user_content.account.entries) /\ user_content' = user_content
        BY <2>1, <2>6 DEF RefreshDisplay
      <3>2. Continues
        BY <1>2, <2>1, <3>1 DEF Continues
      <3> QED
        BY <2>1, <2>2, <2>4, <3>1, <3>2
    <2> QED
      BY <2>5, <2>6
  <1> QED
    BY <1>1, <1>2

------------------------------------------------------------------------------
\* Steps within a session, or on another page.

\* A step that begins or ends no session keeps the invariant, if it puts no row of another
\* user within the reach of the account and sets no timer on the login page.
LEMMA SessionGoesOn ==
    ASSUME IInv, UNCHANGED sessionVars, TableOK', FormsOK',
           user = NoUser => user_content' = user_content,
           user # NoUser =>
               /\ IsContent(user_content')
               /\ \A row \in Nat : IsApart(row, user_content.account)
                                      => IsApart(row, user_content'.account),
           page = "login" => UNCHANGED tableVars /\ timers' \subseteq timers
    PROVE  IInv'
  <1>1. SessionOK'
    BY ContentIsThere DEF IInv, SessionOK
  <1>2. SavedOK'
    BY DEF IInv, SavedOK, Rows
  <1>3. ContentOK'
    BY DEF ContentOK
  <1>4. OthersApart'
    BY DEF IInv, OthersApart, SavedOK
  <1>5. NothingLeftBehind'
    BY DEF IInv, NothingLeftBehind
  <1> QED
    BY <1>1, <1>2, <1>3, <1>4, <1>5 DEF IInv

\* In particular one that leaves the list of the session alone.
LEMMA ContentGoesOn ==
    ASSUME IInv, UNCHANGED sessionVars, TableOK', FormsOK', Continues,
           page = "login" => UNCHANGED tableVars /\ timers' \subseteq timers
    PROVE  IInv'
  BY SessionGoesOn DEF Continues

\* A step that does not touch the DisplayContent leaves the list alone.
LEMMA Unchanged ==
    ASSUME IInv, UNCHANGED user_content
    PROVE  Continues
  BY DEF IInv, ContentOK, Continues

\* Typing in the search box, and a timer that goes off, keep the invariant.
LEMMA TimersIInv ==
    ASSUME IInv, (\E text \in Terms : TypeInSearchInput(text)) \/ Timers
    PROVE  IInv'
  <1>1. search_input \in Terms /\ search_term \in Terms
    BY DEF IInv, TableOK
  <1>2. page # "login" \/ timers \subseteq {"single shot"}
    BY DEF IInv, NothingLeftBehind
  <1>3. ASSUME UNCHANGED formVars PROVE FormsOK'
    BY <1>3 DEF IInv, FormsOK
  <1>4. ASSUME NEW text \in Terms, TypeInSearchInput(text)
        PROVE  IInv'
    <2>1. Continues
      BY <1>4, Unchanged DEF TypeInSearchInput
    <2>2. TableOK'
      BY <1>4 DEF TypeInSearchInput, IInv, TableOK, AreShown
    <2> QED
      BY <1>3, <1>4, <2>1, <2>2, ContentGoesOn DEF TypeInSearchInput
  <1>5. CASE ApplySearchText
    <2> DEFINE term == Trimmed[search_input]
    <2>1. /\ "debounce" \in timers /\ search_term' = term /\ term \in Terms
          /\ timers' \subseteq timers \cup {"search result"}
          /\ UNCHANGED <<sessionVars, search_input, formVars>>
      BY <1>1, <1>5, QtUiAssumption DEF ApplySearchText
    <2>2. page = "main" \/ page = "closed"
      BY <1>2, <2>1 DEF IInv, SessionOK
    <2>3. Continues /\ AreShown(table_display_items')
      <3>1. AreShown(table_display_items)
        BY DEF IInv, TableOK
      <3>2. CASE UNCHANGED <<user_content, table_display_items>>
        BY <3>1, <3>2, Unchanged
      <3>3. CASE RefreshDisplay
        BY <3>3, RefreshContinues
      <3>4. CASE SearchEvent(term) /\ UNCHANGED table_display_items
        <4>1. CASE user # NoUser
          BY <3>1, <3>4, <4>1, SearchContinues
        <4>2. CASE user = NoUser
          <5>1. user_content = NoContent
            BY <4>2 DEF IInv, SessionOK
          <5>2. user_content' = NoContent
            BY <3>4, <5>1 DEF SearchEvent, NoContent
          <5> QED
            BY <3>1, <3>4, <5>1, <5>2, Unchanged
        <4> QED
          BY <4>1, <4>2
      <3> QED
        BY <1>5, <3>2, <3>3, <3>4 DEF ApplySearchText
    <2>4. TableOK'
      BY <2>1, <2>3, <1>1 DEF IInv, TableOK
    <2> QED
      BY <1>3, <2>1, <2>2, <2>3, <2>4, ContentGoesOn
  <1>6. ASSUME NEW timer, RefreshTimer(timer)
        PROVE  IInv'
    <2>1. Continues /\ AreShown(table_display_items')
          /\ (page # "main" => table_display_items' = table_display_items)
      BY <1>6, RefreshContinues DEF RefreshTimer
    <2>2. timers' \subseteq timers
      BY <1>6 DEF RefreshTimer
    <2>3. TableOK'
      BY <1>6, <2>1, <2>2 DEF RefreshTimer, IInv, TableOK
    <2> QED
      BY <1>3, <1>6, <2>1, <2>2, <2>3, ContentGoesOn DEF RefreshTimer
  <1> QED
    BY <1>4, <1>5, <1>6 DEF Timers

------------------------------------------------------------------------------
\* The forms.

\* A step of a form may only queue an operation and set the timer of its callback.
LEMMA FormStep ==
    ASSUME IInv, UNCHANGED <<sessionVars, tableVars>>, FormsOK', Continues,
           timers' \subseteq timers \cup {"single shot"}, page # "main" => timers' = timers
    PROVE  IInv'
  <1>1. TableOK'
    BY DEF IInv, TableOK, AreShown
  <1> QED
    BY <1>1, ContentGoesOn

\* The form to add a password keeps the invariant, on any page.
LEMMA AddFormIInv ==
    ASSUME IInv, AddForm
    PROVE  IInv'
  <1>0. /\ password_form \in [shown : BOOLEAN, typed : Submitted] /\ Blank \in Submitted
        /\ \A typed \in Submitted : [shown |-> FALSE, typed |-> typed]
                                        \in [shown : BOOLEAN, typed : Submitted]
    BY QtUiAssumption, PasswordsAssumption DEF IInv, FormsOK, Password
  <1>1. ASSUME password_form' \in [shown : BOOLEAN, typed : Submitted],
               UNCHANGED view_password_form
        PROVE  FormsOK'
    BY <1>1 DEF IInv, FormsOK
  <1>2. CASE AddClicked
    BY <1>0, <1>1, <1>2, Unchanged, FormStep DEF AddClicked
  <1>3. ASSUME NEW form \in Submitted, TypeInAddForm(form)
        PROVE  IInv'
    BY <1>0, <1>1, <1>3, Unchanged, FormStep DEF TypeInAddForm
  <1>4. CASE AcceptAddForm
    <2>1. [operation_type |-> "ADD", curr_password |-> password_form.typed] \in Operations(Nat)
      BY <1>0 DEF Operations
    <2>2. /\ Continues /\ timers' \subseteq timers \cup {"single shot"}
          /\ page # "main" => timers' = timers
      BY <1>4, <2>1, QueueContinues DEF AcceptAddForm
    <2> QED
      BY <1>0, <1>1, <1>4, <2>2, FormStep DEF AcceptAddForm
  <1>5. CASE CloseAddForm
    BY <1>0, <1>1, <1>5, Unchanged, FormStep DEF CloseAddForm
  <1> QED
    BY <1>2, <1>3, <1>4, <1>5, <1>0 DEF AddForm

Viewed ==
    [shown : BOOLEAN, p_id : Nat \cup {-1}, typed : Submitted, modify_password : BOOLEAN]

\* So does the form to look at one, which may hold the id of an earlier session.
LEMMA ViewFormIInv ==
    ASSUME IInv, ViewForm
    PROVE  IInv'
  <1>0. /\ view_password_form \in Viewed /\ NoPassword \in Viewed
        /\ view_password_form.shown => view_password_form.p_id \in Nat
        /\ NoPassword.shown = FALSE
    BY QtUiAssumption, PasswordsAssumption DEF IInv, FormsOK, Password, Viewed, NoPassword
  <1>1. ASSUME NEW form, ChangeView(form), form \in Viewed, form.shown => form.p_id \in Nat
        PROVE  FormsOK'
    BY <1>1 DEF ChangeView, IInv, FormsOK, Viewed
  <1>2. ASSUME NEW form, ChangeView(form), form \in Viewed, form.shown => form.p_id \in Nat,
               UNCHANGED <<user_content, timers>>
        PROVE  IInv'
    BY <1>1, <1>2, Unchanged, FormStep DEF ChangeView
  <1>3. ASSUME NEW op \in Operations(Nat), QueueOperation(op), ChangeView(view_password_form)
        PROVE  IInv'
    BY <1>0, <1>1, <1>3, QueueContinues, FormStep DEF ChangeView
  <1>4. ASSUME NEW id \in DOMAIN table_display_items, CellDoubleClicked(id)
        PROVE  IInv'
    <2> DEFINE form == [shown |-> TRUE, p_id |-> id, typed |-> table_display_items[id],
                        modify_password |-> FALSE]
    <2>1. id \in Nat /\ table_display_items[id] \in Submitted
      BY QtUiAssumption DEF IInv, TableOK, AreShown
    <2>2. form \in Viewed /\ form.p_id \in Nat
      BY <2>1 DEF Viewed
    <2>3. ChangeView(form) /\ UNCHANGED <<user_content, timers>>
      BY <1>4 DEF CellDoubleClicked
    <2> HIDE DEF form
    <2> QED
      BY <1>2, <2>2, <2>3
  <1>5. CASE ModifyClicked
    <2> DEFINE form == [view_password_form EXCEPT !.modify_password = ~@]
    <2>1. form \in Viewed /\ form.shown = view_password_form.shown
          /\ form.p_id = view_password_form.p_id
      BY <1>0 DEF Viewed
    <2>2. ChangeView(form) /\ UNCHANGED <<user_content, timers>>
      BY <1>5 DEF ModifyClicked
    <2> HIDE DEF form
    <2> QED
      BY <1>0, <1>2, <2>1, <2>2
  <1>6. ASSUME NEW typed \in Submitted, TypeInViewForm(typed)
        PROVE  IInv'
    <2> DEFINE form == [view_password_form EXCEPT !.typed = typed]
    <2>1. form \in Viewed /\ form.shown = view_password_form.shown
          /\ form.p_id = view_password_form.p_id
      BY <1>0 DEF Viewed
    <2>2. ChangeView(form) /\ UNCHANGED <<user_content, timers>>
      BY <1>6 DEF TypeInViewForm
    <2> HIDE DEF form
    <2> QED
      BY <1>0, <1>2, <2>1, <2>2
  <1>7. CASE SaveClicked
    <2>1. view_password_form.p_id \in Nat /\ view_password_form.typed \in Submitted
      BY <1>0, <1>7 DEF SaveClicked, Viewed
    <2>2. [operation_type |-> "MODIFY", p_id |-> view_password_form.p_id,
           curr_password |-> view_password_form.typed] \in Operations(Nat)
      BY <2>1 DEF Operations
    <2> QED
      BY <1>3, <1>7, <2>2 DEF SaveClicked
  <1>8. CASE DeleteClicked
    <2>1. view_password_form.p_id \in Nat
      BY <1>0, <1>8 DEF DeleteClicked
    <2>2. [operation_type |-> "REMOVE", p_id |-> view_password_form.p_id] \in Operations(Nat)
      BY <2>1 DEF Operations
    <2> QED
      BY <1>3, <1>8, <2>2 DEF DeleteClicked
  <1>9. CASE CloseViewForm
    <2>1. [NoPassword EXCEPT !.modify_password = view_password_form.modify_password] \in Viewed
          /\ [NoPassword EXCEPT
                 !.modify_password = view_password_form.modify_password].shown = FALSE
      BY <1>0 DEF Viewed
    <2>2. [view_password_form EXCEPT !.shown = FALSE] \in Viewed
          /\ [view_password_form EXCEPT !.shown = FALSE].shown = FALSE
      BY <1>0 DEF Viewed
    <2> QED
      BY <1>2, <1>9, <2>1, <2>2 DEF CloseViewForm
  <1> QED
    BY <1>4, <1>5, <1>6, <1>7, <1>8, <1>9 DEF ViewForm

------------------------------------------------------------------------------
\* Sessions.

\* An empty table shows nothing, and an empty queue holds no operation.
LEMMA NoRows ==
    AreShown(<<>>) /\ <<>> \in Seq(Operations(Nat))
  <1>1. DOMAIN <<>> = {} /\ <<>> \in Seq(Operations(Nat))
    OBVIOUS
  <1>2. AreShown(<<>>)
    BY <1>1 DEF AreShown
  <1> QED
    BY <1>1, <1>2

\* When the window is opened the invariant holds.
LEMMA InitIInv == Init => IInv
  <1> SUFFICES ASSUME Init PROVE IInv
    OBVIOUS
  <1>1. SessionOK /\ ContentOK
    BY QtUiAssumption DEF Init, SessionOK, ContentOK
  <1>2. SavedOK
    BY QtUiAssumption DEF Init, SavedOK, Rows
  <1>3. TableOK
    BY NoRows, QtUiAssumption DEF Init, TableOK
  <1>4. FormsOK
    BY QtUiAssumption, PasswordsAssumption DEF Init, FormsOK, NoPassword, Password
  <1>5. OthersApart /\ NothingLeftBehind
    BY DEF Init, OthersApart, NothingLeftBehind
  <1> QED
    BY <1>1, <1>2, <1>3, <1>4, <1>5 DEF IInv

\* A login gives the account the rows of its user and a last id that is above the rows of
\* all users.
LEMMA LoginIInv ==
    ASSUME IInv, NEW u \in Users, Login(u)
    PROVE  IInv'
  <1> DEFINE entries == [id \in RowsOf(u) |-> user_data[id].password]
             list == [entries |-> entries, last_id |-> LastId(u)]
  <1>1. /\ page = "login" /\ page' = "main" /\ user' = u /\ user_data' = user_data
        /\ max_password_id' = LastId(u) /\ table_display_items' = entries
        /\ search_input' = Empty /\ search_term' = Empty
        /\ timers' = timers \cup {"refresh"} /\ UNCHANGED formVars
        /\ user_content' = [account |-> list, operation_queue |-> <<>>, search_term |-> Empty,
                            search_event_state |-> FALSE, search_result |-> <<>>]
    BY DEF Login
  <1>2. LastId(u) \in Nat /\ \A id \in DOMAIN user_data : id <= LastId(u)
    BY LastIdBounds DEF IInv
  <1>3. \A id \in DOMAIN user_data : id \in Nat /\ user_data[id].password \in Password
    BY DEF IInv, SavedOK, Rows
  <1>4. /\ DOMAIN entries = RowsOf(u) /\ RowsOf(u) \subseteq DOMAIN user_data
        /\ entries \in [RowsOf(u) -> Password]
    BY <1>3 DEF RowsOf
  <1>5. IsList(list)
    <2>1. RowsOf(u) \subseteq 0 .. LastId(u)
      BY <1>2, <1>3, <1>4
    <2> HIDE DEF entries
    <2> QED
      BY <1>2, <1>4, <2>1 DEF IsList
  <1>6. AreShown(entries)
    <2> HIDE DEF entries
    <2> QED
      BY <1>3, <1>4 DEF AreShown
  <1>7. \A id \in DOMAIN user_data : user_data[id].userid # u => IsApart(id, list)
    BY <1>2, <1>4 DEF IsApart, RowsOf
  <1> HIDE DEF entries, list
  <1>8. IsContent(user_content')
    BY <1>1, <1>5, NoRows, ContentIsMade
  <1>9. SessionOK'
    BY <1>1, <1>8, QtUiAssumption, ContentIsThere DEF SessionOK
  <1>10. SavedOK'
    BY <1>1, <1>2 DEF IInv, SavedOK, Rows
  <1>11. ContentOK' /\ TableOK'
    BY <1>1, <1>6, <1>8, QtUiAssumption DEF ContentOK, IInv, TableOK
  <1>12. FormsOK' /\ NothingLeftBehind'
    BY <1>1 DEF IInv, FormsOK, NothingLeftBehind
  <1>13. OthersApart'
    BY <1>1, <1>7 DEF OthersApart
  <1> QED
    BY <1>9, <1>10, <1>11, <1>12, <1>13 DEF IInv

\* What the end of a session writes: the entries the queue leaves, and the rows of the
\* other users as they are.
LEMMA RowsWritten ==
    ASSUME IInv, DeleteUserContent, user # NoUser
    PROVE  LET list == After(user_content.account, user_content.operation_queue)
               others == DOMAIN user_data \ RowsOf(user)
           IN  /\ IsList(list)
               /\ DOMAIN user_data' = others \cup DOMAIN list.entries
               /\ \A id \in DOMAIN list.entries :
                     user_data'[id] = [userid |-> user, password |-> list.entries[id]]
               /\ \A id \in others :
                     id \notin DOMAIN list.entries /\ user_data'[id] = user_data[id]
  <1> DEFINE list == After(user_content.account, user_content.operation_queue)
             others == DOMAIN user_data \ RowsOf(user)
  <1>1. IsContent(user_content) /\ user_content # NoContent
    BY ContentIsThere DEF IInv, ContentOK
  <1>2. /\ IsList(list) /\ user_content.account.last_id <= list.last_id
        /\ \A id \in DOMAIN list.entries :
              id \in DOMAIN user_content.account.entries \/ id > user_content.account.last_id
        /\ user_content.account.last_id \in Nat /\ list.last_id \in Nat
    <2>1. IsList(user_content.account) /\ user_content.operation_queue \in Seq(Operations(Nat))
      BY <1>1 DEF IsContent
    <2>2. IsList(list) /\ user_content.account.last_id <= list.last_id
          /\ \A id \in DOMAIN list.entries :
                id \in DOMAIN user_content.account.entries \/ id > user_content.account.last_id
      BY <2>1, AfterIsList
    <2> HIDE DEF list
    <2> QED
      BY <2>1, <2>2 DEF IsList
  <1>3. \A id \in others : IsApart(id, user_content.account) /\ id \in Nat
    BY DEF IInv, OthersApart, RowsOf, SavedOK
  <1>4. user_data' = [id \in others \cup DOMAIN list.entries |->
                         IF id \in DOMAIN list.entries
                         THEN [userid |-> user, password |-> list.entries[id]]
                         ELSE user_data[id]]
    BY <1>1 DEF DeleteUserContent
  <1> HIDE DEF list, others
  <1>5. \A id \in others : id \notin DOMAIN list.entries
    BY <1>2, <1>3, ApartStays DEF IsApart
  <1>6. /\ DOMAIN user_data' = others \cup DOMAIN list.entries
        /\ \A id \in DOMAIN list.entries :
              user_data'[id] = [userid |-> user, password |-> list.entries[id]]
        /\ \A id \in others : user_data'[id] = user_data[id]
    BY <1>4, <1>5
  <1> QED
    BY <1>2, <1>5, <1>6 DEF list, others

\* The table is well formed after a session has written its rows.
LEMMA DeleteKeepsSaved ==
    ASSUME IInv, DeleteUserContent
    PROVE  SavedOK'
  <1>1. max_password_id' \in Nat
    BY DEF DeleteUserContent, IInv, SavedOK
  <1>2. CASE user = NoUser
    <2>1. user_data' = user_data
      BY <1>2 DEF DeleteUserContent, IInv, SessionOK
    <2> QED
      BY <1>1, <2>1 DEF IInv, SavedOK, Rows
  <1>3. CASE user # NoUser
    <2> DEFINE list == After(user_content.account, user_content.operation_queue)
               others == DOMAIN user_data \ RowsOf(user)
    <2>1. /\ IsList(list)
          /\ DOMAIN user_data' = others \cup DOMAIN list.entries
          /\ \A id \in DOMAIN list.entries :
                user_data'[id] = [userid |-> user, password |-> list.entries[id]]
          /\ \A id \in others : user_data'[id] = user_data[id]
      BY <1>3, RowsWritten
    <2>2. others \subseteq DOMAIN user_data
      OBVIOUS
    <2> HIDE DEF list, others
    <2>3. /\ DOMAIN list.entries \subseteq 0 .. list.last_id /\ list.last_id \in Nat
          /\ \A id \in DOMAIN list.entries : list.entries[id] \in Password
      BY <2>1 DEF IsList
    <2>4. IsFiniteSet(DOMAIN user_data')
      <3>1. IsFiniteSet(0 .. list.last_id)
        BY <2>3, FS_Interval
      <3>2. IsFiniteSet(DOMAIN list.entries)
        BY <2>3, <3>1, FS_Subset
      <3>3. IsFiniteSet(others)
        BY <2>2, FS_Subset DEF IInv, SavedOK
      <3>4. IsFiniteSet(others \cup DOMAIN list.entries)
        BY <3>2, <3>3, FS_Union
      <3> QED
        BY <2>1, <3>4
    <2>5. DOMAIN user_data' \subseteq Nat
      BY <2>1, <2>2, <2>3 DEF IInv, SavedOK
    <2>6. \A id \in DOMAIN user_data' : user_data'[id] \in Rows
      <3>1. user \in Users
        BY <1>3 DEF IInv, SessionOK
      <3>2. \A id \in DOMAIN list.entries : user_data'[id] \in Rows
        <4> TAKE id \in DOMAIN list.entries
        <4>1. list.entries[id] \in Password
          BY <2>3
        <4>2. [userid |-> user, password |-> list.entries[id]] \in Rows
          BY <3>1, <4>1 DEF Rows
        <4> QED
          BY <2>1, <4>2
      <3>3. \A id \in others : user_data'[id] \in Rows
        BY <2>1, <2>2 DEF IInv, SavedOK
      <3> QED
        BY <2>1, <3>2, <3>3
    <2>7. user_data' = [id \in DOMAIN user_data' |-> user_data'[id]]
      BY <1>3 DEF DeleteUserContent, IInv, SessionOK
    <2> QED
      BY <1>1, <2>4, <2>5, <2>6, <2>7 DEF SavedOK, Rows
  <1> QED
    BY <1>2, <1>3

\* A logout and the end of the application keep the invariant.
LEMMA EndIInv ==
    ASSUME IInv, Logout \/ Destroy
    PROVE  IInv'
  <1>1. DeleteUserContent /\ page' \in {"login", "closed"}
    BY DEF Logout, Destroy
  <1>2. SavedOK'
    BY <1>1, DeleteKeepsSaved
  <1>3. user' = NoUser /\ user_content' = NoContent
    BY <1>1 DEF DeleteUserContent
  <1>4. SessionOK' /\ ContentOK' /\ OthersApart'
    BY <1>1, <1>3, QtUiAssumption DEF SessionOK, ContentOK, OthersApart
  <1>5. CASE Logout
    <2>1. TableOK'
      BY <1>5, NoRows, QtUiAssumption DEF Logout, IInv, TableOK
    <2>2. FormsOK' /\ NothingLeftBehind'
      BY <1>5 DEF Logout, IInv, FormsOK, NothingLeftBehind
    <2> QED
      BY <1>2, <1>4, <2>1, <2>2 DEF IInv
  <1>6. CASE Destroy
    <2>1. TableOK'
      BY <1>6 DEF Destroy, IInv, TableOK, AreShown
    <2>2. FormsOK'
      BY <1>6, QtUiAssumption, PasswordsAssumption DEF Destroy, FormsOK, NoPassword, Password
    <2>3. NothingLeftBehind'
      BY <1>6 DEF Destroy, NothingLeftBehind
    <2> QED
      BY <1>2, <1>4, <2>1, <2>2, <2>3 DEF IInv
  <1> QED
    BY <1>5, <1>6

\* A login that fails leaves everything as it was.
LEMMA LoginFailsIInv ==
    ASSUME IInv, LoginFails
    PROVE  IInv'
  <1>1. table_display_items = <<>> /\ search_term = Empty /\ page = "login"
    BY DEF LoginFails, IInv, NothingLeftBehind
  <1>2. UNCHANGED <<sessionVars, user_content, tableVars, timers, formVars>>
    BY <1>1 DEF LoginFails
  <1>3. TableOK' /\ FormsOK'
    BY <1>2 DEF IInv, TableOK, AreShown, FormsOK
  <1>4. Continues
    BY <1>2, Unchanged
  <1> QED
    BY <1>2, <1>3, <1>4, ContentGoesOn

------------------------------------------------------------------------------
\* The threads of the core.

\* An operation or a search of the core keeps the invariant: the ids an operation makes
\* entries of lie above the rows of the other users.
LEMMA CoreIInv ==
    ASSUME IInv, OperationProcess \/ SearchBarProcess
    PROVE  IInv'
  <1> DEFINE c == user_content
  <1>1. /\ UNCHANGED <<sessionVars, tableVars, timers, formVars>>
        /\ user_content # NoContent
    BY DEF OperationProcess, SearchBarProcess
  <1>2. IsContent(c) /\ user # NoUser /\ page = "main"
    BY <1>1 DEF IInv, SessionOK, ContentOK
  <1>3. TableOK' /\ FormsOK'
    BY <1>1 DEF IInv, TableOK, AreShown, FormsOK
  <1>4. IsList(c.account) /\ c.operation_queue \in Seq(Operations(Nat))
        /\ AreShown(c.search_result)
    BY <1>2 DEF IsContent
  <1>5. CASE OperationProcess
    <2> DEFINE op == Head(c.operation_queue)
               after == Applied(c.account, op)
    <2>1. op \in Operations(Nat) /\ Tail(c.operation_queue) \in Seq(Operations(Nat))
      BY <1>4, <1>5, RangeOfPop DEF OperationProcess
    <2>2. user_content' = [account |-> after, operation_queue |-> Tail(c.operation_queue),
                           search_term |-> c.search_term,
                           search_event_state |-> c.search_event_state,
                           search_result |-> c.search_result]
      BY <1>2, <1>5 DEF OperationProcess, IsContent
    <2>3. IsList(after)
      BY <1>4, <2>1, AppliedIsList
    <2>4. /\ c.account.last_id <= after.last_id
          /\ \A id \in DOMAIN after.entries :
                id \in DOMAIN c.account.entries \/ id > c.account.last_id
      BY <1>4, <2>1, AppliedIds
    <2> HIDE DEF after, op
    <2>5. IsContent(user_content')
      BY <1>4, <2>1, <2>2, <2>3, ContentIsMade
    <2>6. c.account.last_id \in Nat /\ after.last_id \in Nat
      BY <1>4, <2>3 DEF IsList
    <2>7. \A row \in Nat : IsApart(row, c.account) => IsApart(row, after)
      BY <2>4, <2>6, ApartStays
    <2>8. user_content'.account = after
      BY <2>2
    <2> QED
      BY <1>1, <1>2, <1>3, <2>5, <2>7, <2>8, SessionGoesOn
  <1>6. CASE SearchBarProcess
    <2> DEFINE found == Found(c.account.entries, c.search_term)
    <2>1. user_content' = [account |-> c.account, operation_queue |-> c.operation_queue,
                           search_term |-> c.search_term, search_event_state |-> FALSE,
                           search_result |-> found]
      BY <1>2, <1>6 DEF SearchBarProcess, IsContent
    <2>2. AreShown(c.account.entries)
      BY <1>4 DEF IsList, AreShown
    <2>3. AreShown(found)
      BY <2>2 DEF Found, Restrict, AreShown
    <2> HIDE DEF found
    <2>4. Continues
      BY <1>2, <1>4, <2>1, <2>3, ContentIsMade DEF Continues
    <2> QED
      BY <1>1, <1>2, <1>3, <2>4, ContentGoesOn
  <1> QED
    BY <1>5, <1>6

------------------------------------------------------------------------------
\* Every step keeps the invariant.
LEMMA StepIInv == IInv /\ [Next]_vars => IInv'
  <1> SUFFICES ASSUME IInv, [Next]_vars PROVE IInv'
    OBVIOUS
  <1>1. CASE UNCHANGED vars
    <2>1. UNCHANGED <<sessionVars, user_content, tableVars, timers, formVars>>
      BY <1>1 DEF vars
    <2>2. TableOK' /\ FormsOK'
      BY <2>1 DEF IInv, TableOK, AreShown, FormsOK
    <2>3. Continues
      BY <2>1, Unchanged
    <2> QED
      BY <2>1, <2>2, <2>3, ContentGoesOn
  <1>2. CASE Next
    BY <1>1, <1>2, TimersIInv, AddFormIInv, ViewFormIInv, LoginIInv, LoginFailsIInv, EndIInv,
       CoreIInv DEF Next, Idle
  <1> QED
    BY <1>1, <1>2

\* The invariant holds throughout; what matters in it is that a row of another user is
\* out of the reach of every operation of the session.
THEOREM Invariance == Spec => []IInv
  <1>1. Init => IInv
    BY InitIInv
  <1>2. IInv /\ [Next]_vars => IInv'
    BY StepIInv
  <1> QED
    BY <1>1, <1>2, PTL DEF Spec

\* TypeOK.
THEOREM TypeCorrect == Spec => []TypeOK
  <1>1. IInv => TypeOK
    <2> SUFFICES ASSUME IInv PROVE TypeOK
      OBVIOUS
    <2>1. page = "main" <=> user \in Users
      BY DEF IInv, SessionOK
    <2>2. user = NoUser <=> user_content = NoContent
      BY DEF IInv, SessionOK
    <2>3. \A id \in DOMAIN user_data :
             id \in Nat /\ user_data[id] \in [userid : Users, password : Password]
      BY DEF IInv, SavedOK, Rows
    <2>4. user # NoUser =>
             /\ IsList(user_content.account)
             /\ \A i \in DOMAIN user_content.operation_queue :
                   user_content.operation_queue[i] \in Operations(Nat)
      BY DEF IInv, ContentOK, IsContent
    <2>5. /\ timers \subseteq {"refresh", "debounce", "search result", "single shot"}
          /\ search_input \in Terms /\ search_term \in Terms
          /\ \A id \in DOMAIN table_display_items : table_display_items[id] \in Password
      BY DEF IInv, TableOK, AreShown
    <2>6. /\ password_form \in [shown : BOOLEAN, typed : Submitted]
          /\ view_password_form.shown => view_password_form.p_id \in Nat
      BY DEF IInv, FormsOK
    <2> QED
      BY <2>1, <2>2, <2>3, <2>4, <2>5, <2>6 DEF TypeOK
  <1> QED
    BY <1>1, Invariance, PTL

\* NothingLeftBehind: on the login page the main window holds nothing of the last
\* session, and no timer but the one of a form.
THEOREM LogoutCleansUp == Spec => []NothingLeftBehind
  <1>1. IInv => NothingLeftBehind
    BY DEF IInv
  <1> QED
    BY <1>1, Invariance, PTL

\* RowsOfOthersKept: no step changes a row of a user who is not logged in, although a
\* form left open over a logout still names one.
THEOREM OthersKeepTheirRows == Spec => RowsOfOthersKept
  <1> DEFINE Kept == \A id \in DOMAIN user_data :
                        user_data[id].userid # user =>
                            id \in DOMAIN user_data' /\ user_data'[id] = user_data[id]
  <1>1. IInv /\ [Next]_vars => [Kept]_vars
    <2> SUFFICES ASSUME IInv, Next PROVE Kept
      OBVIOUS
    <2>1. CASE user_data' = user_data
      BY <2>1
    <2>2. CASE DeleteUserContent /\ user = NoUser
      BY <2>1, <2>2 DEF DeleteUserContent, IInv, SessionOK
    <2>3. CASE DeleteUserContent /\ user # NoUser
      <3>1. \A id \in DOMAIN user_data \ RowsOf(user) :
               id \in DOMAIN user_data' /\ user_data'[id] = user_data[id]
        BY <2>3, RowsWritten
      <3> QED
        BY <3>1 DEF RowsOf
    <2>4. user_data' = user_data \/ DeleteUserContent
      BY DEF Next, TypeInSearchInput, AddForm, AddClicked, AcceptAddForm, CloseAddForm,
             TypeInAddForm, ViewForm, CellDoubleClicked, TypeInViewForm, ModifyClicked,
             SaveClicked, DeleteClicked, CloseViewForm, ChangeView, Timers, ApplySearchText,
             RefreshTimer, Login, LoginFails, Logout, Destroy, OperationProcess,
             SearchBarProcess, Idle, vars
    <2> QED
      BY <2>1, <2>2, <2>3, <2>4
  <1> QED
    BY <1>1, Invariance, PTL DEF Spec, RowsOfOthersKept
=============================================================================
