--------------------------- MODULE UserDataProofs ---------------------------
(***************************************************************************)
(* Theorems of UserData for every value of its constants.  TypeOK, that a   *)
(* deleted row stays deleted and that texts stay with their user hold       *)
(* whatever the number of processes; that rows are kept and that a login    *)
(* loads what was saved, when one process runs at a time.                   *)
(***************************************************************************)
EXTENDS UserData, FiniteSetTheorems, WellFoundedInduction, SequenceTheorems, TLAPS

USE DEF Step, StoreStep

------------------------------------------------------------------------------
\* Largest and smallest ids.

\* A proof by induction looks at the least number where it fails.
LEMMA LeastNumber ==
    ASSUME NEW T, T \subseteq Nat, T # {}
    PROVE  \E x \in T : \A y \in T : x <= y
  <1> DEFINE Less == {pair \in Nat \X Nat : pair[1] < pair[2]}
  <1>1. IsWellFoundedOn(Less, Nat)
    BY NatLessThanWellFounded DEF OpToRel
  <1>2. PICK x \in T : \A y \in T : ~ (<<y, x>> \in Less)
    <2> HIDE DEF Less
    <2> QED
      BY <1>1, WFMin
  <1>3. ASSUME NEW y \in T PROVE x <= y
    <2>1. <<y, x>> \in Nat \X Nat /\ <<y, x>>[1] = y /\ <<y, x>>[2] = x
      OBVIOUS
    <2> QED
      BY <1>2, <2>1
  <1> QED
    BY <1>2, <1>3

\* Max of FiniteSetsExt, on finite sets of ids.
LEMMA MaxOfIds ==
    ASSUME NEW S, IsFiniteSet(S), S \subseteq Nat, S # {}
    PROVE  Max(S) \in S /\ \A x \in S : x <= Max(S)
  <1> DEFINE HasMax(R) == \E x \in R : \A y \in R : x >= y
             T == {n \in Nat : \E R : /\ IsFiniteSet(R) /\ R \subseteq Nat /\ R # {}
                                      /\ Cardinality(R) = n /\ ~HasMax(R)}
  <1>1. T = {}
    <2> SUFFICES ASSUME T # {} PROVE FALSE
      OBVIOUS
    <2>1. PICK n \in T : \A m \in T : n <= m
      <3>1. T \subseteq Nat
        OBVIOUS
      <3> HIDE DEF T
      <3> QED
        BY <3>1, LeastNumber
    <2>2. PICK R : /\ IsFiniteSet(R) /\ R \subseteq Nat /\ R # {}
                   /\ Cardinality(R) = n /\ ~HasMax(R)
      BY <2>1
    <2>3. PICK x : x \in R
      BY <2>2
    <2> DEFINE Q == R \ {x}
    <2>4. IsFiniteSet(Q) /\ Cardinality(Q) = n - 1 /\ Q \subseteq Nat
      BY <2>2, <2>3, FS_RemoveElement
    <2>5. n \in Nat /\ n - 1 \in Nat
      BY <2>1, <2>4, FS_CardinalityType
    <2>6. Q # {}
      <3>1. ASSUME Q = {} PROVE FALSE
        <4>1. x >= x
          BY <2>2, <2>3
        <4> QED
          BY <2>2, <2>3, <3>1, <4>1
      <3> QED
        BY <3>1
    <2>7. n - 1 \notin T
      <3>1. ~ (n <= n - 1)
        BY <2>5
      <3> HIDE DEF T
      <3> QED
        BY <2>1, <3>1
    <2>8. HasMax(Q)
      BY <2>4, <2>5, <2>6, <2>7
    <2>9. PICK m \in Q : \A y \in Q : m >= y
      BY <2>8
    <2>10. CASE m >= x
      BY <2>2, <2>9, <2>10
    <2>11. CASE ~ (m >= x)
      <3>1. \A y \in R : x >= y
        <4> TAKE y \in R
        <4>1. m \in Nat /\ x \in Nat /\ y \in Nat
          BY <2>2, <2>3, <2>9
        <4>2. CASE y = x
          BY <4>1, <4>2
        <4>3. CASE y # x
          BY <2>9, <2>11, <4>1, <4>3
        <4> QED
          BY <4>2, <4>3
      <3> QED
        BY <2>2, <2>3, <3>1
    <2> QED
      BY <2>10, <2>11
  <1>2. Cardinality(S) \in Nat
    BY FS_CardinalityType
  <1>3. HasMax(S)
    BY <1>1, <1>2
  <1>4. Max(S) \in S /\ \A y \in S : Max(S) >= y
    BY <1>3 DEF Max
  <1> QED
    BY <1>4

\* Min of FiniteSetsExt, on places of a sequence.
LEMMA MinOfPlaces ==
    ASSUME NEW S, S \subseteq Nat, S # {}
    PROVE  Min(S) \in S
  <1>1. \E x \in S : \A y \in S : x =< y
    BY LeastNumber
  <1> QED
    BY <1>1 DEF Min

\* SetToSeq of SequencesExt lists every element of a finite set.
LEMMA ListedOnce ==
    ASSUME NEW S, IsFiniteSet(S)
    PROVE  /\ Cardinality(S) \in Nat
           /\ SetToSeq(S) \in [1 .. Cardinality(S) -> S]
           /\ \A x \in S : \E i \in 1 .. Cardinality(S) : SetToSeq(S)[i] = x
  <1> DEFINE n == Cardinality(S)
  <1>1. n \in Nat /\ ExistsBijection(1 .. n, S)
    BY FS_CardinalityType
  <1>2. PICK b : b \in Bijection(1 .. n, S)
    BY <1>1 DEF ExistsBijection
  <1>3. b \in [1 .. n -> S] /\ IsInjective(b)
    BY <1>2 DEF Bijection, Injection, IsInjective
  <1>4. SetToSeq(S) \in [1 .. n -> S] /\ IsInjective(SetToSeq(S))
    BY <1>3 DEF SetToSeq
  <1>5. SetToSeq(S) \in Injection(1 .. n, S)
    BY <1>4 DEF Injection, IsInjective
  <1>6. Cardinality(1 .. n) = n
    BY <1>1, FS_Interval
  <1>7. SetToSeq(S) \in Surjection(1 .. n, S)
    BY <1>5, <1>6, FS_Injection
  <1> QED
    BY <1>1, <1>4, <1>7 DEF Surjection

------------------------------------------------------------------------------
\* The inductive invariant.

AllTexts == UNION {TextsOf[u] : u \in Users}
Row == [p_id : Nat, text : AllTexts, sealed : BOOLEAN]

Table ==
    /\ IsFiniteSet(DOMAIN db) /\ DOMAIN db \subseteq Nat
    /\ \A id \in DOMAIN db :
          db[id].userid \in Users /\ db[id].sealed \in BOOLEAN /\ db[id].text \in AllTexts

\* Every variable of a process is a function on the processes.
PerProcess ==
    /\ DOMAIN pc = Processes /\ DOMAIN user = Processes
    /\ DOMAIN max_password_id = Processes /\ DOMAIN initial_user_data = Processes
    /\ DOMAIN current_password_id = Processes
    /\ DOMAIN entries = Processes /\ DOMAIN removed_ids = Processes
    /\ DOMAIN store = Processes /\ DOMAIN user_data_copy = Processes
    /\ DOMAIN removed_copy = Processes /\ DOMAIN final_store_and_exit = Processes

\* An account is there, and stored, exactly between login and logout.
Place(p) ==
    /\ pc[p] \in {"off", "login page", "select ids", "select rows", "construct", "running",
                  "logout"}
    /\ user[p] \in Users \cup {NoUser}
    /\ user[p] = NoUser <=> pc[p] \in {"off", "login page"}
    /\ store[p] \in {"off", "sleep", "insert", "delete"}
    /\ store[p] = "off" <=> pc[p] \notin {"running", "logout"}
    /\ store[p] = "off" => /\ DOMAIN entries[p] = {} /\ DOMAIN user_data_copy[p] = {}
                           /\ removed_ids[p] = <<>> /\ removed_copy[p] = <<>>

\* The queries' results.
Statics(p) ==
    /\ max_password_id[p] \in Nat /\ current_password_id[p] \in Nat
    /\ initial_user_data[p] \in Seq(Row)

\* No id of the account is larger than the last one, so the next one is new.
NoIdAhead(p) ==
    /\ DOMAIN entries[p] \cup DOMAIN user_data_copy[p] \subseteq 0 .. current_password_id[p]
    /\ removed_ids[p] \in Seq(Nat) /\ removed_copy[p] \in Seq(Nat)
    /\ Range(removed_ids[p]) \cup Range(removed_copy[p]) \subseteq 0 .. current_password_id[p]

TextsKnown(p) ==
    /\ \A id \in DOMAIN entries[p] : entries[p][id] \in AllTexts
    /\ \A id \in DOMAIN user_data_copy[p] : user_data_copy[p][id] \in AllTexts

Deleted(p) ==
    /\ Range(removed_ids[p]) \cap DOMAIN entries[p] = {}
    /\ Range(removed_copy[p]) \cap (DOMAIN entries[p] \cup DOMAIN user_data_copy[p]) = {}

Process(p) == Place(p) /\ Statics(p) /\ NoIdAhead(p) /\ TextsKnown(p) /\ Deleted(p)

IInv == Table /\ PerProcess /\ \A p \in Processes : Process(p)

\* With no process running the invariant holds.
LEMMA InitIInv == Init => IInv
  <1> SUFFICES ASSUME Init PROVE IInv
    OBVIOUS
  <1>1. Table
    BY UserDataAssumption DEF Init, Table, AllTexts
  <1>2. PerProcess
    BY DEF Init, PerProcess
  <1>3. ASSUME NEW p \in Processes PROVE Process(p)
    <2>1. Range(<<>>) = {}
      BY DEF Range
    <2> QED
      BY <2>1 DEF Init, Process, Place, Statics, NoIdAhead, TextsKnown, Deleted
  <1> QED
    BY <1>1, <1>2, <1>3 DEF IInv

\* Only process p takes a step.
OnlyMoves(p) ==
    /\ PerProcess'
    /\ \A q \in Processes : q # p =>
          /\ pc'[q] = pc[q] /\ user'[q] = user[q]
          /\ max_password_id'[q] = max_password_id[q]
          /\ initial_user_data'[q] = initial_user_data[q]
          /\ current_password_id'[q] = current_password_id[q]
          /\ entries'[q] = entries[q] /\ removed_ids'[q] = removed_ids[q]
          /\ store'[q] = store[q] /\ user_data_copy'[q] = user_data_copy[q]
          /\ removed_copy'[q] = removed_copy[q]

\* A step of one process on its own variables keeps what holds of the others.
LEMMA OtherProcesses ==
    ASSUME IInv, NEW p \in Processes, OnlyMoves(p), Table', Process(p)'
    PROVE  IInv'
  <1>1. ASSUME NEW q \in Processes, q # p PROVE Process(q)'
    <2>1. Process(q)
      BY DEF IInv
    <2>2. Place(q)' /\ Statics(q)'
      BY <1>1, <2>1 DEF OnlyMoves, Process, Place, Statics
    <2>3. NoIdAhead(q)' /\ Deleted(q)'
      BY <1>1, <2>1 DEF OnlyMoves, Process, NoIdAhead, Deleted
    <2>4. TextsKnown(q)'
      BY <1>1, <2>1 DEF OnlyMoves, Process, TextsKnown
    <2> QED
      BY <2>2, <2>3, <2>4 DEF Process
  <1> QED
    BY <1>1 DEF IInv, OnlyMoves

\* Every action moves the variables of its own process only.
LEMMA OneMoves ==
    ASSUME IInv, NEW p \in Processes,
           \/ StartProcess(p) \/ Kill(p) \/ \E u \in Users : Login(p, u)
           \/ SelectIds(p) \/ SelectRows(p) \/ Construct(p) \/ ConstructFails(p)
           \/ pc[p] = "running" /\ Session(p)
           \/ PeriodicDataStore(p)
    PROVE  OnlyMoves(p)
  <1> USE DEF IInv, PerProcess, OnlyMoves, processVars, accountVars, storeVars
  <1>1. CASE StartProcess(p) \/ \E u \in Users : Login(p, u)
    BY <1>1 DEF StartProcess, Login
  <1>2. CASE SelectIds(p) \/ SelectRows(p)
    BY <1>2 DEF SelectIds, SelectRows
  <1>3. CASE Construct(p)
    BY <1>3 DEF Construct
  <1>4. CASE ConstructFails(p)
    BY <1>4 DEF ConstructFails
  <1>5. CASE Kill(p) \/ Destroy(p)
    <2>1. CASE Kill(p)
      BY <2>1 DEF Kill, Forgotten
    <2>2. CASE Destroy(p)
      BY <2>2 DEF Destroy, Forgotten
    <2> QED
      BY <1>5, <2>1, <2>2
  <1>6. CASE Session(p)
    <2>1. CASE \E text \in TextsOf[user[p]] : AddPassword(p, text)
      BY <2>1 DEF Operate, AddPassword
    <2>2. CASE \E id \in DOMAIN entries[p], text \in TextsOf[user[p]] : ModifyPassword(p, id, text)
      BY <2>2 DEF Operate, ModifyPassword
    <2>3. CASE \E id \in DOMAIN entries[p] : RemovePassword(p, id)
      BY <2>3 DEF Operate, RemovePassword
    <2>4. CASE Logout(p)
      BY <2>4 DEF Logout
    <2> QED
      BY <1>6, <2>1, <2>2, <2>3, <2>4 DEF Session
  <1>7. CASE CopyEntries(p) \/ CollectRemoved(p) \/ DeleteRow(p) \/ FinishCycle(p)
    BY <1>7 DEF CopyEntries, CollectRemoved, DeleteRow, FinishCycle
  <1>8. CASE \E id \in DOMAIN user_data_copy[p] : InsertRow(p, id)
    BY <1>8 DEF InsertRow
  <1> QED
    BY <1>1, <1>2, <1>3, <1>4, <1>5, <1>6, <1>7, <1>8 DEF PeriodicDataStore

------------------------------------------------------------------------------
\* Steps of the process outside the session.

\* Starting, killing and ending a process, a login and a constructor that throws keep the
\* invariant.
LEMMA OutsideIInv ==
    ASSUME IInv, NEW p \in Processes,
           StartProcess(p) \/ Kill(p) \/ ConstructFails(p) \/ Destroy(p)
              \/ \E u \in Users : Login(p, u)
    PROVE  IInv'
  <1> USE DEF IInv, PerProcess, processVars, accountVars, storeVars
  <1>0. OnlyMoves(p)
    BY OneMoves DEF PeriodicDataStore
  <1>1. Process(p)
    OBVIOUS
  <1>2. Table'
    BY DEF Table, StartProcess, Kill, ConstructFails, Destroy, Login
  <1>3. Range(<<>>) = {}
    BY DEF Range
  <1>4. CASE StartProcess(p)
    <2>1. Process(p)'
      BY <1>1, <1>4 DEF StartProcess, Process, Place, Statics, NoIdAhead, TextsKnown, Deleted
    <2> QED
      BY <1>0, <1>2, <2>1, OtherProcesses
  <1>5. ASSUME NEW u \in Users, Login(p, u)
        PROVE  IInv'
    <2>1. Process(p)'
      BY <1>1, <1>5, UserDataAssumption
         DEF Login, Process, Place, Statics, NoIdAhead, TextsKnown, Deleted
    <2> QED
      BY <1>0, <1>2, <2>1, OtherProcesses
  <1>6. CASE ConstructFails(p)
    <2>1. Process(p)'
      BY <1>1, <1>3, <1>6
         DEF ConstructFails, Process, Place, Statics, NoIdAhead, TextsKnown, Deleted
    <2> QED
      BY <1>0, <1>2, <2>1, OtherProcesses
  <1>7. CASE Kill(p) \/ Destroy(p)
    <2>0. /\ Forgotten(p)
          /\ \/ /\ pc' = [pc EXCEPT ![p] = "off"]
                /\ max_password_id' = [max_password_id EXCEPT ![p] = 10]
             \/ /\ pc' = [pc EXCEPT ![p] = "login page"]
                /\ max_password_id' = max_password_id
          /\ store' = [store EXCEPT ![p] = "off"]
          /\ initial_user_data' = [initial_user_data EXCEPT ![p] = <<>>]
      BY <1>7 DEF Kill, Destroy
    <2>1. /\ pc'[p] \in {"off", "login page"} /\ user'[p] = NoUser /\ store'[p] = "off"
          /\ entries'[p] = <<>> /\ removed_ids'[p] = <<>> /\ user_data_copy'[p] = <<>>
          /\ removed_copy'[p] = <<>> /\ initial_user_data'[p] = <<>>
      BY <2>0 DEF Forgotten
    <2>8. current_password_id'[p] = 0 /\ max_password_id'[p] \in {10, max_password_id[p]}
      BY <2>0 DEF Forgotten
    <2> HIDE DEF IInv
    <2>2. /\ DOMAIN entries'[p] = {} /\ DOMAIN user_data_copy'[p] = {}
          /\ removed_ids'[p] \in Seq(Nat) /\ removed_copy'[p] \in Seq(Nat)
          /\ initial_user_data'[p] \in Seq(Row)
      <3>1. DOMAIN <<>> = {} /\ <<>> \in Seq(Nat) /\ <<>> \in Seq(Row)
        OBVIOUS
      <3> QED
        BY <2>1, <3>1, Zenon
    <2>3. Range(removed_ids'[p]) = {} /\ Range(removed_copy'[p]) = {}
      BY <1>3, <2>1
    <2>4. Place(p)'
      BY <2>1, <2>2 DEF Place
    <2>5. Statics(p)'
      BY <1>1, <2>2, <2>8 DEF Process, Statics
    <2>6. NoIdAhead(p)'
      BY <2>2, <2>3, <2>8 DEF NoIdAhead
    <2>7. TextsKnown(p)' /\ Deleted(p)'
      BY <2>2, <2>3 DEF TextsKnown, Deleted
    <2> QED
      BY <1>0, <1>2, <2>4, <2>5, <2>6, <2>7, OtherProcesses DEF Process
  <1> QED
    BY <1>4, <1>5, <1>6, <1>7

------------------------------------------------------------------------------
\* The constructor of UserAccount.

\* The rows the second query returns.
Selected(u) ==
    [i \in 1 .. Cardinality(RowsOf(u)) |->
        LET id == SetToSeq(RowsOf(u))[i]
        IN  [p_id |-> id, text |-> db[id].text, sealed |-> db[id].sealed]]

\* The query by USERID lists exactly the rows of the user, each once.
LEMMA SelectedRows ==
    ASSUME Table, NEW u
    PROVE  /\ Selected(u) \in Seq(Row)
           /\ \A i \in DOMAIN Selected(u) :
                 /\ Selected(u)[i].p_id \in RowsOf(u)
                 /\ Selected(u)[i].text = db[Selected(u)[i].p_id].text
           /\ \A id \in RowsOf(u) : \E i \in DOMAIN Selected(u) : Selected(u)[i].p_id = id
  <1> DEFINE n == Cardinality(RowsOf(u))
             order == SetToSeq(RowsOf(u))
  <1>1. IsFiniteSet(RowsOf(u)) /\ RowsOf(u) \subseteq DOMAIN db
    BY FS_Subset DEF Table, RowsOf
  <1>2. /\ n \in Nat /\ order \in [1 .. n -> RowsOf(u)]
        /\ \A id \in RowsOf(u) : \E i \in 1 .. n : order[i] = id
    BY <1>1, ListedOnce
  <1> HIDE DEF n, order
  <1>3. Selected(u) = [i \in 1 .. n |->
             [p_id |-> order[i], text |-> db[order[i]].text, sealed |-> db[order[i]].sealed]]
    BY DEF Selected, n, order
  <1>4. Selected(u) \in [1 .. n -> Row]
    BY <1>1, <1>2, <1>3 DEF Table, Row
  <1>5. Selected(u) \in Seq(Row)
    BY <1>2, <1>4
  <1>6. DOMAIN Selected(u) = 1 .. n
    BY <1>3
  <1>7. \A i \in 1 .. n : Selected(u)[i].p_id = order[i] /\ Selected(u)[i].text = db[order[i]].text
    BY <1>3
  <1>8. \A i \in 1 .. n : order[i] \in RowsOf(u)
    BY <1>2
  <1> HIDE DEF Selected
  <1> QED
    BY <1>2, <1>5, <1>6, <1>7, <1>8

\* The two login queries keep the invariant, when they fail too.
LEMMA SelectIInv ==
    ASSUME IInv, NEW p \in Processes, SelectIds(p) \/ SelectRows(p)
    PROVE  IInv'
  <1> USE DEF IInv, PerProcess, processVars, accountVars, storeVars
  <1>0. OnlyMoves(p)
    BY OneMoves
  <1>1. Process(p)
    OBVIOUS
  <1>2. Table'
    BY DEF Table, SelectIds, SelectRows
  <1>3. CASE SelectIds(p)
    <2> DEFINE ids == {max_password_id[p]} \cup DOMAIN db
               larger == {10, max_password_id'[p]}
    <2>1. IsFiniteSet(ids) /\ ids \subseteq Nat /\ ids # {}
      <3>1. ids = DOMAIN db \cup {max_password_id[p]}
        OBVIOUS
      <3>2. IsFiniteSet(DOMAIN db) /\ DOMAIN db \subseteq Nat /\ max_password_id[p] \in Nat
        BY <1>1 DEF Table, Process, Statics
      <3>3. IsFiniteSet(DOMAIN db \cup {max_password_id[p]})
        BY <3>2, FS_AddElement
      <3> QED
        BY <3>1, <3>2, <3>3
    <2>2. Max(ids) \in Nat
      BY <2>1, MaxOfIds
    <2> HIDE DEF ids
    <2>3. max_password_id'[p] \in {Max(ids), max_password_id[p]}
      BY <1>3 DEF SelectIds, ids
    <2>4. max_password_id'[p] \in Nat
      BY <1>1, <2>2, <2>3 DEF Process, Statics
    <2>5. IsFiniteSet(larger) /\ larger \subseteq Nat /\ larger # {}
      <3>1. IsFiniteSet({10}) /\ larger = {10} \cup {max_password_id'[p]}
        BY FS_Singleton
      <3>2. IsFiniteSet({10} \cup {max_password_id'[p]})
        BY <3>1, FS_AddElement
      <3> QED
        BY <2>4, <3>1, <3>2
    <2>6. Max(larger) \in Nat
      BY <2>5, MaxOfIds
    <2>7. current_password_id'[p] = Max(larger)
      BY <1>3 DEF SelectIds
    <2> HIDE DEF larger
    <2>8. /\ pc[p] = "select ids" /\ pc'[p] = "select rows"
          /\ UNCHANGED <<user, initial_user_data, entries, removed_ids, storeVars>>
      BY <1>3 DEF SelectIds
    <2>9. Range(<<>>) = {}
      BY DEF Range
    <2>10. Place(p)' /\ Statics(p)'
      BY <1>1, <2>4, <2>6, <2>7, <2>8 DEF Process, Place, Statics
    <2>11. NoIdAhead(p)' /\ TextsKnown(p)' /\ Deleted(p)'
      BY <1>1, <2>8, <2>9 DEF Process, Place, NoIdAhead, TextsKnown, Deleted
    <2> QED
      BY <1>0, <1>2, <2>10, <2>11, OtherProcesses DEF Process
  <1>4. CASE SelectRows(p)
    <2>1. /\ pc[p] = "select rows" /\ pc'[p] = "construct"
          /\ initial_user_data'[p] \in {initial_user_data[p],
                                        initial_user_data[p] \o Selected(user[p])}
          /\ UNCHANGED <<user, max_password_id, accountVars, storeVars>>
      BY <1>4 DEF SelectRows, Selected
    <2>2. initial_user_data[p] \in Seq(Row) /\ Selected(user[p]) \in Seq(Row)
      BY <1>1, SelectedRows DEF Process, Statics
    <2>3. initial_user_data'[p] \in Seq(Row)
      <3>1. initial_user_data[p] \o Selected(user[p]) \in Seq(Row)
        <4> HIDE DEF IInv
        <4> QED
          BY <2>2
      <3> QED
        BY <2>1, <2>2, <3>1
    <2>4. Process(p)'
      BY <1>1, <2>1, <2>3 DEF Process, Place, Statics, NoIdAhead, TextsKnown, Deleted
    <2> QED
      BY <1>0, <1>2, <2>4, OtherProcesses
  <1> QED
    BY <1>3, <1>4

\* The ids and the first row of each id of what the queries returned.
LoadedIds(p) == {initial_user_data[p][i].p_id : i \in DOMAIN initial_user_data[p]}
First(p, id) ==
    initial_user_data[p][Min({i \in DOMAIN initial_user_data[p] :
                                 initial_user_data[p][i].p_id = id})]

\* The ids in the static list of loaded rows are finitely many.
LEMMA LoadedRows ==
    ASSUME NEW p, initial_user_data[p] \in Seq(Row)
    PROVE  /\ IsFiniteSet(LoadedIds(p)) /\ LoadedIds(p) \subseteq Nat
           /\ \A id \in LoadedIds(p) :
                 /\ First(p, id).p_id = id /\ First(p, id).text \in AllTexts
                 /\ \E i \in DOMAIN initial_user_data[p] : First(p, id) = initial_user_data[p][i]
  <1> DEFINE rows == initial_user_data[p]
             places(id) == {i \in DOMAIN rows : rows[i].p_id = id}
             f == [i \in 1 .. Len(rows) |-> rows[i].p_id]
  <1>1. /\ Len(rows) \in Nat /\ DOMAIN rows = 1 .. Len(rows)
        /\ \A i \in DOMAIN rows : rows[i] \in Row
    OBVIOUS
  <1>2. \A i \in DOMAIN rows : rows[i].p_id \in Nat /\ rows[i].text \in AllTexts
    BY <1>1 DEF Row
  <1>3. IsFiniteSet(LoadedIds(p))
    <2>1. f \in Surjection(1 .. Len(rows), LoadedIds(p))
      BY <1>1 DEF Surjection, LoadedIds
    <2>2. IsFiniteSet(1 .. Len(rows))
      BY <1>1, FS_Interval
    <2> HIDE DEF f
    <2> QED
      BY <2>1, <2>2, FS_Surjection
  <1>4. ASSUME NEW id \in LoadedIds(p)
        PROVE  First(p, id).p_id = id /\ \E i \in DOMAIN rows : First(p, id) = rows[i]
    <2>1. places(id) \subseteq Nat /\ places(id) # {}
      BY <1>1 DEF LoadedIds
    <2>2. Min(places(id)) \in places(id)
      <3> HIDE DEF places
      <3> QED
        BY <2>1, MinOfPlaces
    <2> QED
      BY <2>2 DEF First
  <1> QED
    BY <1>2, <1>3, <1>4 DEF LoadedIds

\* The constructor keeps the invariant, with rows a failed one left behind too.
LEMMA ConstructIInv ==
    ASSUME IInv, NEW p \in Processes, Construct(p)
    PROVE  IInv'
  <1> USE DEF processVars
  <1> DEFINE ids == {current_password_id[p]} \cup LoadedIds(p)
  <1>0. OnlyMoves(p) /\ Process(p) /\ PerProcess
    BY OneMoves DEF IInv
  <1>1. initial_user_data[p] \in Seq(Row) /\ current_password_id[p] \in Nat
    BY <1>0 DEF Process, Statics
  <1>2. /\ IsFiniteSet(LoadedIds(p)) /\ LoadedIds(p) \subseteq Nat
        /\ \A id \in LoadedIds(p) : First(p, id).text \in AllTexts
    BY <1>1, LoadedRows
  <1>3. IsFiniteSet(ids) /\ ids \subseteq Nat /\ ids # {}
    <2>1. ids = LoadedIds(p) \cup {current_password_id[p]}
      OBVIOUS
    <2> HIDE DEF ids
    <2> QED
      BY <1>1, <1>2, <2>1, FS_AddElement
  <1>4. Max(ids) \in Nat /\ \A id \in ids : id <= Max(ids)
    <2> HIDE DEF ids
    <2> QED
      BY <1>3, MaxOfIds
  <1>5. LoadedIds(p) \subseteq 0 .. Max(ids)
    <2> SUFFICES ASSUME NEW id \in LoadedIds(p)
                 PROVE  id \in 0 .. Max(ids)
      OBVIOUS
    <2>1. id \in Nat /\ id <= Max(ids)
      BY <1>2, <1>4
    <2> HIDE DEF ids
    <2> QED
      BY <1>4, <2>1
  <1>6. /\ pc[p] = "construct" /\ pc'[p] = "running" /\ store'[p] = "sleep"
        /\ entries'[p] = [id \in LoadedIds(p) |-> First(p, id).text]
        /\ current_password_id'[p] = Max(ids)
        /\ UNCHANGED <<db, user, max_password_id, initial_user_data, removed_ids, user_data_copy,
                       removed_copy>>
    BY <1>0 DEF Construct, LoadedIds, First, PerProcess
  <1> HIDE DEF ids
  <1>7. /\ pc[p] = "construct" /\ DOMAIN user_data_copy[p] = {}
        /\ removed_ids[p] = <<>> /\ removed_copy[p] = <<>>
    BY <1>0, <1>6 DEF Process, Place
  <1>8. Range(removed_ids[p]) = {} /\ Range(removed_copy[p]) = {}
    BY <1>7 DEF Range
  <1>9. Place(p)'
    BY <1>0, <1>6 DEF Process, Place
  <1>10. Statics(p)'
    BY <1>1, <1>4, <1>6, <1>0 DEF Process, Statics
  <1>11. NoIdAhead(p)'
    BY <1>0, <1>5, <1>6, <1>7, <1>8 DEF Process, NoIdAhead
  <1>12. TextsKnown(p)' /\ Deleted(p)'
    BY <1>2, <1>6, <1>7, <1>8 DEF TextsKnown, Deleted
  <1>13. Table'
    BY <1>6 DEF IInv, Table
  <1> QED
    BY <1>0, <1>9, <1>10, <1>11, <1>12, <1>13, OtherProcesses DEF Process

------------------------------------------------------------------------------
\* The session and the data-store thread.

\* The operations and the logout of a session keep the invariant.
LEMMA SessionIInv ==
    ASSUME IInv, NEW p \in Processes, pc[p] = "running", Session(p)
    PROVE  IInv'
  <1> USE DEF Operate, processVars, accountVars, storeVars
  <1>0. OnlyMoves(p) /\ Process(p) /\ PerProcess
    BY OneMoves DEF IInv
  <1>1. Table'
    BY DEF IInv, Table, Session, AddPassword, ModifyPassword, RemovePassword, Logout
  <1>2. user[p] \in Users /\ \A text \in TextsOf[user[p]] : text \in AllTexts
    BY <1>0 DEF Process, Place, AllTexts
  <1>3. CASE Logout(p)
    <2>1. Process(p)'
      BY <1>0, <1>3
         DEF Logout, PerProcess, Process, Place, Statics, NoIdAhead, TextsKnown, Deleted
    <2> QED
      BY <1>0, <1>1, <2>1, OtherProcesses
  <1>4. ASSUME NEW text \in TextsOf[user[p]], AddPassword(p, text)
        PROVE  IInv'
    <2> DEFINE new == current_password_id[p] + 1
    <2>1. /\ current_password_id'[p] = new /\ entries'[p] = Put(entries[p], new, text)
          /\ UNCHANGED <<pc, user, max_password_id, initial_user_data, removed_ids, store,
                         user_data_copy, removed_copy>>
      BY <1>0, <1>4 DEF AddPassword, PerProcess
    <2>2. /\ current_password_id[p] \in Nat /\ new \in Nat /\ new \notin 0 .. current_password_id[p]
          /\ 0 .. current_password_id[p] \subseteq 0 .. new /\ new \in 0 .. new
      BY <1>0 DEF Process, Statics
    <2> HIDE DEF new
    <2>3. Place(p)' /\ Statics(p)'
      BY <1>0, <2>1, <2>2 DEF Process, Place, Statics
    <2>4. /\ DOMAIN entries'[p] = DOMAIN entries[p] \cup {new} /\ entries'[p][new] = text
          /\ \A id \in DOMAIN entries[p] : id # new => entries'[p][id] = entries[p][id]
      BY <2>1 DEF Put
    <2>5. NoIdAhead(p)'
      BY <1>0, <2>1, <2>2, <2>4 DEF Process, NoIdAhead
    <2>6. TextsKnown(p)'
      BY <1>0, <1>2, <2>1, <2>4 DEF Process, TextsKnown
    <2>7. Deleted(p)'
      BY <1>0, <2>1, <2>2, <2>4 DEF Process, NoIdAhead, Deleted
    <2> QED
      BY <1>0, <1>1, <2>3, <2>5, <2>6, <2>7, OtherProcesses DEF Process
  <1>5. ASSUME NEW text \in TextsOf[user[p]], NEW id \in DOMAIN entries[p],
               ModifyPassword(p, id, text)
        PROVE  IInv'
    <2>1. /\ entries'[p] = [entries[p] EXCEPT ![id] = text]
          /\ UNCHANGED <<pc, user, max_password_id, initial_user_data, current_password_id,
                         removed_ids, store, user_data_copy, removed_copy>>
      BY <1>0, <1>5 DEF ModifyPassword, PerProcess
    <2>2. DOMAIN entries'[p] = DOMAIN entries[p]
      BY <2>1
    <2>3. Place(p)' /\ Statics(p)' /\ NoIdAhead(p)' /\ Deleted(p)'
      BY <1>0, <2>1, <2>2 DEF Process, Place, Statics, NoIdAhead, Deleted
    <2>4. TextsKnown(p)'
      BY <1>0, <1>2, <2>1 DEF Process, TextsKnown
    <2> QED
      BY <1>0, <1>1, <2>3, <2>4, OtherProcesses DEF Process
  <1>6. ASSUME NEW id \in DOMAIN entries[p], RemovePassword(p, id)
        PROVE  IInv'
    <2>1. /\ entries'[p] = Without(entries[p], id)
          /\ removed_ids'[p] = Append(removed_ids[p], id)
          /\ UNCHANGED <<pc, user, max_password_id, initial_user_data, current_password_id,
                         store, user_data_copy, removed_copy>>
      BY <1>0, <1>6 DEF RemovePassword, PerProcess
    <2>2. /\ DOMAIN entries'[p] = DOMAIN entries[p] \ {id}
          /\ \A other \in DOMAIN entries[p] : other # id => entries'[p][other] = entries[p][other]
      BY <2>1 DEF Without, Restrict
    <2>3. id \in Nat /\ removed_ids[p] \in Seq(Nat)
      BY <1>0 DEF Process, NoIdAhead
    <2>4. /\ removed_ids'[p] \in Seq(Nat)
          /\ Range(removed_ids'[p]) \subseteq Range(removed_ids[p]) \cup {id}
      BY <2>1, <2>3 DEF Range
    <2>5. Place(p)' /\ Statics(p)'
      BY <1>0, <1>6, <2>1 DEF Process, Place, Statics
    <2>6. NoIdAhead(p)'
      BY <1>0, <2>1, <2>2, <2>3, <2>4 DEF Process, NoIdAhead
    <2>7. TextsKnown(p)' /\ Deleted(p)'
      BY <1>0, <2>1, <2>2, <2>4 DEF Process, TextsKnown, Deleted
    <2> QED
      BY <1>0, <1>1, <2>5, <2>6, <2>7, OtherProcesses DEF Process
  <1> QED
    BY <1>3, <1>4, <1>5, <1>6 DEF Session

\* Each step of the store cycle keeps the invariant.
LEMMA StoreIInv ==
    ASSUME IInv, NEW p \in Processes, PeriodicDataStore(p)
    PROVE  IInv'
  <1> USE DEF processVars, accountVars, storeVars
  <1>0. OnlyMoves(p) /\ Process(p) /\ PerProcess /\ Table
    BY OneMoves DEF IInv
  <1>1. CASE CopyEntries(p)
    <2>1. /\ user_data_copy'[p] = entries[p] /\ store[p] = "sleep" /\ store'[p] = "insert"
          /\ UNCHANGED <<db, pc, user, max_password_id, initial_user_data, current_password_id,
                         entries, removed_ids, removed_copy>>
      BY <1>0, <1>1 DEF CopyEntries, PerProcess
    <2>2. Process(p)'
      BY <1>0, <2>1 DEF Process, Place, Statics, NoIdAhead, TextsKnown, Deleted
    <2> QED
      BY <1>0, <2>1, <2>2, OtherProcesses DEF Table
  <1>2. ASSUME NEW id \in DOMAIN user_data_copy[p], InsertRow(p, id)
        PROVE  IInv'
    <2> DEFINE row == [userid |-> user[p], text |-> user_data_copy[p][id], sealed |-> TRUE]
    <2>1. /\ user_data_copy'[p] = Without(user_data_copy[p], id)
          /\ db' = Put(db, id, row) /\ store[p] = "insert" /\ store'[p] = "insert"
          /\ UNCHANGED <<pc, user, max_password_id, initial_user_data, current_password_id,
                         entries, removed_ids, removed_copy>>
      BY <1>0, <1>2 DEF InsertRow, PerProcess
    <2>2. /\ DOMAIN user_data_copy'[p] = DOMAIN user_data_copy[p] \ {id}
          /\ \A other \in DOMAIN user_data_copy'[p] :
                user_data_copy'[p][other] = user_data_copy[p][other]
      BY <2>1 DEF Without, Restrict
    <2>3. Process(p)'
      BY <1>0, <2>1, <2>2 DEF Process, Place, Statics, NoIdAhead, TextsKnown, Deleted
    <2>4. /\ DOMAIN db' = DOMAIN db \cup {id} /\ db'[id] = row
          /\ \A other \in DOMAIN db : other # id => db'[other] = db[other]
      BY <2>1 DEF Put
    <2>5. /\ row.userid \in Users /\ row.sealed \in BOOLEAN /\ row.text \in AllTexts
          /\ id \in Nat
      <3>1. user[p] \in Users
        BY <1>0, <2>1 DEF Process, Place
      <3>2. user_data_copy[p][id] \in AllTexts
        BY <1>0 DEF Process, TextsKnown
      <3>3. id \in 0 .. current_password_id[p] /\ current_password_id[p] \in Nat
        BY <1>0 DEF Process, NoIdAhead, Statics
      <3> QED
        BY <3>1, <3>2, <3>3
    <2>6. IsFiniteSet(DOMAIN db \cup {id})
      BY <1>0, FS_AddElement DEF Table
    <2> HIDE DEF row
    <2>7. Table'
      BY <1>0, <2>4, <2>5, <2>6 DEF Table
    <2> QED
      BY <1>0, <2>3, <2>7, OtherProcesses
  <1>3. CASE CollectRemoved(p)
    <2>1. /\ DOMAIN user_data_copy[p] = {} /\ store[p] = "insert" /\ store'[p] = "delete"
          /\ removed_copy'[p] = removed_ids[p] /\ removed_ids'[p] = <<>>
          /\ UNCHANGED <<db, pc, user, max_password_id, initial_user_data, current_password_id,
                         entries, user_data_copy>>
      BY <1>0, <1>3 DEF CollectRemoved, PerProcess
    <2>2. removed_ids'[p] \in Seq(Nat) /\ Range(removed_ids'[p]) = {}
      BY <2>1 DEF Range
    <2>3. Place(p)' /\ Statics(p)'
      BY <1>0, <2>1 DEF Process, Place, Statics
    <2>4. NoIdAhead(p)' /\ TextsKnown(p)' /\ Deleted(p)'
      BY <1>0, <2>1, <2>2 DEF Process, NoIdAhead, TextsKnown, Deleted
    <2> QED
      BY <1>0, <2>1, <2>3, <2>4, OtherProcesses DEF Process, Table
  <1>4. CASE DeleteRow(p)
    <2>1. /\ removed_copy[p] # <<>> /\ removed_copy'[p] = Tail(removed_copy[p])
          /\ store[p] = "delete" /\ store'[p] = "delete"
          /\ db' = [id \in DOMAIN db \ ({Head(removed_copy[p])} \cap RowsOf(user[p])) |-> db[id]]
          /\ UNCHANGED <<pc, user, max_password_id, initial_user_data, current_password_id,
                         entries, removed_ids, user_data_copy>>
      BY <1>0, <1>4 DEF DeleteRow, PerProcess
    <2>2. removed_copy[p] \in Seq(Nat)
      BY <1>0 DEF Process, NoIdAhead
    <2>3. /\ removed_copy'[p] \in Seq(Nat)
          /\ Range(removed_copy'[p]) \subseteq Range(removed_copy[p])
      BY <2>1, <2>2 DEF Range
    <2>4. Place(p)' /\ Statics(p)'
      BY <1>0, <2>1 DEF Process, Place, Statics
    <2>5. NoIdAhead(p)' /\ TextsKnown(p)' /\ Deleted(p)'
      BY <1>0, <2>1, <2>3 DEF Process, NoIdAhead, TextsKnown, Deleted
    <2>6. DOMAIN db' \subseteq DOMAIN db /\ \A id \in DOMAIN db' : db'[id] = db[id]
      BY <2>1
    <2>7. IsFiniteSet(DOMAIN db')
      BY <1>0, <2>6, FS_Subset DEF Table
    <2>8. Table'
      BY <1>0, <2>6, <2>7 DEF Table
    <2> QED
      BY <1>0, <2>4, <2>5, <2>8, OtherProcesses DEF Process
  <1>5. CASE FinishCycle(p)
    <2>1. /\ store[p] = "delete" /\ store'[p] = "sleep"
          /\ UNCHANGED <<db, pc, user, max_password_id, initial_user_data, current_password_id,
                         entries, removed_ids, user_data_copy, removed_copy>>
      BY <1>0, <1>5 DEF FinishCycle, PerProcess
    <2>2. Process(p)'
      BY <1>0, <2>1 DEF Process, Place, Statics, NoIdAhead, TextsKnown, Deleted
    <2> QED
      BY <1>0, <2>1, <2>2, OtherProcesses DEF Table
  <1>6. CASE Destroy(p)
    BY <1>6, OutsideIInv
  <1> QED
    BY <1>1, <1>2, <1>3, <1>4, <1>5, <1>6 DEF PeriodicDataStore

\* Every step keeps the invariant.
LEMMA StepIInv == IInv /\ [Next]_vars => IInv'
  <1> SUFFICES ASSUME IInv, [Next]_vars PROVE IInv'
    OBVIOUS
  <1>1. CASE UNCHANGED vars
    <2>1. UNCHANGED <<db, pc, user, max_password_id, initial_user_data, current_password_id, entries,
                      removed_ids, store, user_data_copy, removed_copy, final_store_and_exit>>
      BY <1>1 DEF vars, processVars, accountVars, storeVars
    <2>2. Table' /\ PerProcess'
      BY <2>1 DEF IInv, Table, PerProcess
    <2>3. ASSUME NEW p \in Processes PROVE Process(p)'
      <3>1. Process(p)
        BY DEF IInv
      <3>2. Place(p)' /\ Statics(p)' /\ TextsKnown(p)'
        BY <2>1, <3>1 DEF Process, Place, Statics, TextsKnown
      <3>3. NoIdAhead(p)' /\ Deleted(p)'
        BY <2>1, <3>1 DEF Process, NoIdAhead, Deleted
      <3> QED
        BY <3>2, <3>3 DEF Process
    <2> QED
      BY <2>2, <2>3 DEF IInv
  <1>2. ASSUME Next PROVE IInv'
    BY <1>2, OutsideIInv, SelectIInv, ConstructIInv, SessionIInv, StoreIInv DEF Next
  <1> QED
    BY <1>1, <1>2

\* The invariant holds throughout, whatever the number of processes: shapes, the static
\* variables against the account, and that no id is ahead of the counter that gives
\* them out.
THEOREM Invariance == Spec => []IInv
  <1>1. Init => IInv
    BY InitIInv
  <1>2. IInv /\ [Next]_vars => IInv'
    BY StepIInv
  <1> QED
    BY <1>1, <1>2, PTL DEF Spec

\* TypeOK.
THEOREM TypeCorrect == Spec => []TypeOK
  <1>1. IInv => TypeOK
    <2> SUFFICES ASSUME IInv PROVE TypeOK
      OBVIOUS
    <2>1. \A id \in DOMAIN db : id \in Nat /\ db[id].userid \in Users /\ db[id].sealed \in BOOLEAN
      BY DEF IInv, Table
    <2>2. ASSUME NEW p \in Processes
          PROVE  /\ user[p] = NoUser <=> pc[p] \in {"off", "login page"}
                 /\ store[p] = "off" <=> pc[p] \notin {"running", "logout"}
                 /\ DOMAIN entries[p] \cup DOMAIN user_data_copy[p] \subseteq Nat
                 /\ removed_ids[p] \in Seq(Nat) /\ removed_copy[p] \in Seq(Nat)
      <3>1. Place(p) /\ NoIdAhead(p) /\ current_password_id[p] \in Nat
        BY DEF IInv, Process, Statics
      <3>2. DOMAIN entries[p] \cup DOMAIN user_data_copy[p] \subseteq Nat
        BY <3>1 DEF NoIdAhead
      <3>3. removed_ids[p] \in Seq(Nat) /\ removed_copy[p] \in Seq(Nat)
        BY <3>1 DEF NoIdAhead
      <3> QED
        BY <3>1, <3>2, <3>3 DEF Place
    <2> QED
      BY <2>1, <2>2 DEF TypeOK
  <1> QED
    BY <1>1, Invariance, PTL

\* DeletedStaysDeleted: whatever failed and however many processes there are, an id that
\* waits for its DELETE in a process is neither an entry of that process nor in its copy.
\* It says nothing of another process, which may still have the entry and write it again.
THEOREM DeletedRowsStayDeleted == Spec => []DeletedStaysDeleted
  <1>1. IInv => DeletedStaysDeleted
    BY DEF IInv, Process, Deleted, DeletedStaysDeleted
  <1> QED
    BY <1>1, Invariance, PTL

------------------------------------------------------------------------------
\* Whose the texts are, as long as no login query or constructor failed.

RowsOwned == \A id \in DOMAIN db : db[id].text \in TextsOf[db[id].userid]

\* No row of an earlier login is left when the next one reads its own.
Own(p) ==
    /\ pc[p] \in {"off", "login page", "select ids", "select rows"} => initial_user_data[p] = <<>>
    /\ \A i \in DOMAIN initial_user_data[p] : initial_user_data[p][i].text \in TextsOf[user[p]]
    /\ \A id \in DOMAIN entries[p] : entries[p][id] \in TextsOf[user[p]]
    /\ \A id \in DOMAIN user_data_copy[p] : user_data_copy[p][id] \in TextsOf[user[p]]

OwnTexts == ~failed => RowsOwned /\ \A p \in Processes : Own(p)

\* At first every row holds a text of its user.
LEMMA InitOwn == Init => OwnTexts
  <1> SUFFICES ASSUME Init PROVE RowsOwned /\ \A p \in Processes : Own(p)
    BY DEF OwnTexts
  <1>1. RowsOwned
    BY UserDataAssumption DEF Init, RowsOwned
  <1>2. \A p \in Processes : Own(p)
    BY DEF Init, Own
  <1> QED
    BY <1>1, <1>2

\* Steps that neither add texts nor change the table.
LEMMA QuietOwn ==
    ASSUME IInv, RowsOwned, NEW p \in Processes, Own(p),
           StartProcess(p) \/ SelectIds(p) \/ Kill(p) \/ Destroy(p) \/ Logout(p)
              \/ CopyEntries(p) \/ CollectRemoved(p) \/ FinishCycle(p)
              \/ \E u \in Users : Login(p, u)
    PROVE  RowsOwned' /\ Own(p)'
  <1> USE DEF processVars, accountVars, storeVars
  <1>0. PerProcess /\ Place(p)
    BY DEF IInv, Process
  <1>1. CASE StartProcess(p) \/ SelectIds(p) \/ Logout(p) \/ CopyEntries(p) \/ CollectRemoved(p)
               \/ FinishCycle(p)
    BY <1>0, <1>1 DEF StartProcess, SelectIds, Logout, CopyEntries, CollectRemoved, FinishCycle,
                      PerProcess, Place, RowsOwned, Own
  <1>2. CASE Kill(p) \/ Destroy(p)
    <2>1. /\ UNCHANGED db /\ initial_user_data'[p] = <<>>
          /\ entries'[p] = <<>> /\ user_data_copy'[p] = <<>>
      BY <1>0, <1>2 DEF Kill, Destroy, Forgotten, PerProcess
    <2>2. DOMAIN <<>> = {}
      OBVIOUS
    <2>3. DOMAIN initial_user_data'[p] = {} /\ DOMAIN entries'[p] = {}
          /\ DOMAIN user_data_copy'[p] = {}
      BY <2>1, <2>2, Zenon
    <2> QED
      BY <2>1, <2>3 DEF RowsOwned, Own
  <1>3. ASSUME NEW u \in Users, Login(p, u)
        PROVE  RowsOwned' /\ Own(p)'
    <2>1. initial_user_data'[p] = <<>> /\ initial_user_data[p] = <<>> /\ pc'[p] = "select ids"
      BY <1>0, <1>3 DEF Login, PerProcess, Own
    <2>2. /\ DOMAIN initial_user_data'[p] = {} /\ DOMAIN entries'[p] = {}
          /\ DOMAIN user_data_copy'[p] = {}
      <3>1. DOMAIN <<>> = {}
        OBVIOUS
      <3>2. DOMAIN initial_user_data'[p] = {}
        BY <2>1, <3>1, Zenon
      <3>3. pc[p] = "login page" /\ UNCHANGED <<entries, user_data_copy>>
        BY <1>3 DEF Login
      <3>4. DOMAIN entries[p] = {} /\ DOMAIN user_data_copy[p] = {}
        BY <1>0, <3>3 DEF Place
      <3> QED
        BY <3>2, <3>3, <3>4
    <2> QED
      BY <1>3, <2>1, <2>2 DEF Login, RowsOwned, Own
  <1> QED
    BY <1>1, <1>2, <1>3

\* Steps that read rows, change entries, or write.
LEMMA BusyOwn ==
    ASSUME IInv, RowsOwned, NEW p \in Processes, Own(p), ~failed',
           \/ SelectRows(p) \/ Construct(p)
           \/ \E text \in TextsOf[user[p]] :
                 AddPassword(p, text) \/ \E id \in DOMAIN entries[p] : ModifyPassword(p, id, text)
           \/ \E id \in DOMAIN entries[p] : RemovePassword(p, id)
           \/ \E id \in DOMAIN user_data_copy[p] : InsertRow(p, id)
           \/ DeleteRow(p)
    PROVE  RowsOwned' /\ Own(p)'
  <1> USE DEF processVars, accountVars, storeVars, Operate
  <1>0. PerProcess /\ Place(p) /\ Table /\ initial_user_data[p] \in Seq(Row)
    BY DEF IInv, Process, Statics
  <1>1. CASE SelectRows(p)
    <2>1. /\ pc[p] = "select rows" /\ pc'[p] = "construct"
          /\ initial_user_data'[p] = initial_user_data[p] \o Selected(user[p])
          /\ UNCHANGED <<db, user, entries, user_data_copy>>
      BY <1>0, <1>1 DEF SelectRows, Selected, PerProcess
    <2>2. initial_user_data[p] = <<>> /\ Selected(user[p]) \in Seq(Row)
      BY <1>0, <2>1, SelectedRows DEF Own
    <2>3. initial_user_data'[p] = Selected(user[p])
      <3>1. \A rows \in Seq(Row) : <<>> \o rows = rows
        OBVIOUS
      <3> QED
        BY <2>1, <2>2, <3>1, Zenon
    <2>4. \A i \in DOMAIN Selected(user[p]) : Selected(user[p])[i].text \in TextsOf[user[p]]
      BY <1>0, SelectedRows DEF RowsOwned, RowsOf
    <2> QED
      BY <2>1, <2>3, <2>4 DEF RowsOwned, Own
  <1>2. CASE Construct(p)
    <2>1. /\ pc'[p] = "running"
          /\ entries'[p] = [id \in LoadedIds(p) |-> First(p, id).text]
          /\ UNCHANGED <<db, user, initial_user_data, user_data_copy>>
      BY <1>0, <1>2 DEF Construct, LoadedIds, First, PerProcess
    <2>2. \A id \in LoadedIds(p) : First(p, id).text \in TextsOf[user[p]]
      BY <1>0, LoadedRows DEF Own
    <2> QED
      BY <2>1, <2>2 DEF RowsOwned, Own
  <1>3. ASSUME NEW text \in TextsOf[user[p]],
               AddPassword(p, text) \/ \E id \in DOMAIN entries[p] : ModifyPassword(p, id, text)
        PROVE  RowsOwned' /\ Own(p)'
    <2>1. /\ \A id \in DOMAIN entries'[p] :
                entries'[p][id] = text
                   \/ (id \in DOMAIN entries[p] /\ entries'[p][id] = entries[p][id])
          /\ UNCHANGED <<db, pc, user, initial_user_data, user_data_copy>>
      BY <1>0, <1>3 DEF AddPassword, ModifyPassword, PerProcess, Put
    <2> QED
      BY <2>1 DEF RowsOwned, Own
  <1>4. ASSUME NEW id \in DOMAIN entries[p], RemovePassword(p, id)
        PROVE  RowsOwned' /\ Own(p)'
    BY <1>0, <1>4 DEF RemovePassword, PerProcess, Without, Restrict, RowsOwned, Own
  <1>5. ASSUME NEW id \in DOMAIN user_data_copy[p], InsertRow(p, id)
        PROVE  RowsOwned' /\ Own(p)'
    <2>1. /\ user_data_copy'[p] = Without(user_data_copy[p], id)
          /\ UNCHANGED <<pc, user, initial_user_data, entries>>
      BY <1>0, <1>5 DEF InsertRow, PerProcess
    <2>2. Own(p)'
      BY <2>1 DEF Own, Without, Restrict
    <2>3. /\ DOMAIN db' = DOMAIN db \cup {id}
          /\ db'[id].userid = user[p] /\ db'[id].text = user_data_copy[p][id]
          /\ \A other \in DOMAIN db : other # id => db'[other] = db[other]
      BY <1>5 DEF InsertRow, Put
    <2>4. RowsOwned'
      BY <2>3 DEF RowsOwned, Own
    <2> QED
      BY <2>2, <2>4
  <1>6. CASE DeleteRow(p)
    BY <1>0, <1>6 DEF DeleteRow, PerProcess, RowsOwned, Own
  <1> QED
    BY <1>1, <1>2, <1>3, <1>4, <1>5, <1>6

\* failed is never reset.
LEMMA FailureStays ==
    ASSUME NEW p \in Processes, ~failed',
           \/ StartProcess(p) \/ Kill(p) \/ \E u \in Users : Login(p, u)
           \/ SelectIds(p) \/ SelectRows(p) \/ Construct(p) \/ ConstructFails(p)
           \/ pc[p] = "running" /\ Session(p)
           \/ PeriodicDataStore(p)
    PROVE  ~failed /\ ~ConstructFails(p)
  <1> USE DEF processVars
  <1>1. ASSUME StartProcess(p) \/ Kill(p) \/ (\E u \in Users : Login(p, u)) \/ Construct(p)
        PROVE  failed' = failed
    BY <1>1 DEF StartProcess, Kill, Login, Construct
  <1>2. ASSUME SelectIds(p) \/ SelectRows(p)
        PROVE  failed' = failed \/ failed' = TRUE
    BY <1>2 DEF SelectIds, SelectRows
  <1>3. ASSUME ConstructFails(p) PROVE failed' = TRUE
    BY <1>3 DEF ConstructFails
  <1>4. ASSUME Session(p) PROVE failed' = failed
    BY <1>4 DEF Session, Operate, AddPassword, ModifyPassword, RemovePassword, Logout
  <1>5. ASSUME PeriodicDataStore(p) PROVE failed' = failed
    BY <1>5 DEF PeriodicDataStore, CopyEntries, InsertRow, CollectRemoved, DeleteRow,
                FinishCycle, Destroy
  <1>6. ~ConstructFails(p)
    BY <1>3, Zenon
  <1>7. failed' = failed
    <2>1. failed' # TRUE
      OBVIOUS
    <2> QED
      BY <1>1, <1>2, <1>4, <1>5, <1>6, <2>1, Zenon
  <1>8. ~failed
    BY <1>7, Zenon
  <1> QED
    BY <1>6, <1>8

\* No step makes a text of one user an entry of another, unless something failed.
LEMMA StepOwn == IInv /\ OwnTexts /\ [Next]_vars => OwnTexts'
  <1> SUFFICES ASSUME IInv, OwnTexts, [Next]_vars, ~failed'
               PROVE  RowsOwned' /\ \A p \in Processes : Own(p)'
    BY DEF OwnTexts
  <1>1. CASE UNCHANGED vars
    BY <1>1 DEF vars, processVars, accountVars, storeVars, OwnTexts, RowsOwned, Own
  <1>2. ASSUME NEW p \in Processes,
               \/ StartProcess(p) \/ Kill(p) \/ \E u \in Users : Login(p, u)
               \/ SelectIds(p) \/ SelectRows(p) \/ Construct(p) \/ ConstructFails(p)
               \/ pc[p] = "running" /\ Session(p)
               \/ PeriodicDataStore(p)
        PROVE  RowsOwned' /\ \A q \in Processes : Own(q)'
    <2>1. ~failed /\ ~ConstructFails(p)
      BY <1>2, FailureStays
    <2>2. RowsOwned /\ \A q \in Processes : Own(q)
      BY <2>1 DEF OwnTexts
    <2>3. RowsOwned' /\ Own(p)'
      <3>1. Own(p)
        BY <2>2
      <3> HIDE DEF RowsOwned, Own
      <3> QED
        BY <1>2, <2>1, <2>2, <3>1, QuietOwn, BusyOwn DEF Session, PeriodicDataStore
    <2>4. ASSUME NEW q \in Processes, q # p PROVE Own(q)'
      <3>1. OnlyMoves(p)
        BY <1>2, OneMoves
      <3>2. Own(q)
        BY <2>2
      <3> QED
        BY <2>4, <3>1, <3>2 DEF OnlyMoves, Own
    <2> QED
      BY <2>3, <2>4
  <1> QED
    BY <1>1, <1>2 DEF Next

\* Unless a query or a constructor failed, every row holds a text of the user it
\* belongs to, however many processes write: what a login loads, and what the next
\* cycles write back, never mixes users.
THEOREM TextsStayWithUser == Spec => [](~failed => RowsOwned)
  <1>1. Init => IInv /\ OwnTexts
    BY InitIInv, InitOwn
  <1>2. IInv /\ OwnTexts /\ [Next]_vars => (IInv /\ OwnTexts)'
    BY StepIInv, StepOwn
  <1>3. IInv /\ OwnTexts => (~failed => RowsOwned)
    BY DEF OwnTexts
  <1> QED
    BY <1>1, <1>2, <1>3, PTL DEF Spec

------------------------------------------------------------------------------
\* One process at a time.  MCTwoProcesses shows what two of them do to the rows.

Alone == \A p, q \in Processes : p = q

\* The last id is not behind the table, what was read is what the table holds, and an
\* entry with a row has the row of its user.
Loaded(p) ==
    /\ pc[p] \in {"select rows", "construct", "running", "logout"} =>
          \A id \in DOMAIN db : id <= current_password_id[p]
    /\ pc[p] = "construct" =>
          /\ LoadedIds(p) = RowsOf(user[p])
          /\ \A i \in DOMAIN initial_user_data[p] :
                initial_user_data[p][i].text = db[initial_user_data[p][i].p_id].text
    /\ \A id \in (DOMAIN entries[p] \cup DOMAIN user_data_copy[p]) \cap DOMAIN db :
          db[id].userid = user[p]

LoadedInv == ~failed => \A p \in Processes : Loaded(p)

\* At first nothing is loaded.
LEMMA InitLoaded == Init => LoadedInv
  BY DEF Init, LoadedInv, Loaded

\* Steps that leave no account behind, or start without one.
LEMMA OutsideLoaded ==
    ASSUME IInv, NEW p \in Processes,
           StartProcess(p) \/ Kill(p) \/ Destroy(p) \/ \E u \in Users : Login(p, u)
    PROVE  Loaded(p)'
  <1> USE DEF processVars, accountVars, storeVars
  <1>0. PerProcess /\ Place(p)
    BY DEF IInv, Process
  <1>1. pc'[p] \in {"off", "login page", "select ids"}
    BY <1>0 DEF StartProcess, Kill, Destroy, Login, PerProcess
  <1>2. DOMAIN entries'[p] = {} /\ DOMAIN user_data_copy'[p] = {}
    <2>1. CASE StartProcess(p) \/ \E u \in Users : Login(p, u)
      BY <1>0, <2>1 DEF StartProcess, Login, Place
    <2>2. CASE Kill(p) \/ Destroy(p)
      <3>1. entries'[p] = <<>> /\ user_data_copy'[p] = <<>>
        BY <1>0, <2>2 DEF Kill, Destroy, Forgotten, PerProcess
      <3>2. DOMAIN <<>> = {}
        OBVIOUS
      <3> QED
        BY <3>1, <3>2, Zenon
    <2> QED
      BY <2>1, <2>2
  <1> QED
    BY <1>1, <1>2 DEF Loaded

\* The account of a login that works has the rows of its user.
LEMMA ConstructorLoaded ==
    ASSUME IInv, NEW p \in Processes, Own(p), Loaded(p), ~failed',
           SelectIds(p) \/ SelectRows(p) \/ Construct(p)
    PROVE  Loaded(p)'
  <1> USE DEF processVars, accountVars, storeVars
  <1>0. PerProcess /\ Place(p) /\ Statics(p) /\ Table
    BY DEF IInv, Process
  <1>1. CASE SelectIds(p)
    <2> DEFINE ids == DOMAIN db \cup {max_password_id[p]}
               larger == {10} \cup {Max(ids)}
    <2>1. /\ max_password_id'[p] = Max({max_password_id[p]} \cup DOMAIN db)
          /\ current_password_id'[p] = Max({10, max_password_id'[p]})
          /\ pc[p] = "select ids" /\ pc'[p] = "select rows"
          /\ UNCHANGED <<db, user, entries, user_data_copy>>
      <3>1. failed' # TRUE
        OBVIOUS
      <3>2. max_password_id' =
              [max_password_id EXCEPT ![p] = Max({max_password_id[p]} \cup DOMAIN db)]
        BY <1>1, <3>1 DEF SelectIds
      <3> QED
        BY <1>0, <1>1, <3>2 DEF SelectIds, PerProcess
    <2>2. /\ {max_password_id[p]} \cup DOMAIN db = ids
          /\ {10, Max(ids)} = larger
      OBVIOUS
    <2>3. current_password_id'[p] = Max(larger)
      BY <2>1, <2>2, Zenon
    <2>4. IsFiniteSet(ids) /\ ids \subseteq Nat /\ ids # {}
      <3>1. IsFiniteSet(DOMAIN db) /\ DOMAIN db \subseteq Nat /\ max_password_id[p] \in Nat
        BY <1>0 DEF Table, Statics
      <3>2. IsFiniteSet(DOMAIN db \cup {max_password_id[p]})
        BY <3>1, FS_AddElement
      <3> QED
        BY <3>1, <3>2
    <2>5. DOMAIN db \subseteq ids
      OBVIOUS
    <2> HIDE DEF ids
    <2>6. Max(ids) \in Nat /\ \A id \in ids : id <= Max(ids)
      BY <2>4, MaxOfIds
    <2>7. IsFiniteSet(larger) /\ larger \subseteq Nat /\ larger # {}
      <3>1. IsFiniteSet({10})
        BY FS_Singleton
      <3>2. IsFiniteSet({10} \cup {Max(ids)})
        BY <3>1, FS_AddElement
      <3> QED
        BY <2>6, <3>2
    <2>8. Max(ids) \in larger
      OBVIOUS
    <2> HIDE DEF larger
    <2>9. Max(larger) \in Nat /\ Max(ids) <= Max(larger)
      BY <2>7, <2>8, MaxOfIds
    <2>10. \A id \in DOMAIN db : id <= current_password_id'[p]
      <3> TAKE id \in DOMAIN db
      <3>1. id \in Nat /\ id <= Max(ids)
        BY <1>0, <2>5, <2>6 DEF Table
      <3> QED
        BY <2>3, <2>6, <2>9, <3>1
    <2>11. DOMAIN entries'[p] = {} /\ DOMAIN user_data_copy'[p] = {}
      BY <1>0, <2>1 DEF Place
    <2> QED
      BY <2>1, <2>10, <2>11 DEF Loaded
  <1>2. CASE SelectRows(p)
    <2>1. /\ pc[p] = "select rows" /\ pc'[p] = "construct"
          /\ initial_user_data'[p] = initial_user_data[p] \o Selected(user[p])
          /\ UNCHANGED <<db, user, current_password_id, entries, user_data_copy>>
      BY <1>0, <1>2 DEF SelectRows, Selected, PerProcess
    <2>2. initial_user_data[p] = <<>> /\ Selected(user[p]) \in Seq(Row)
      BY <1>0, <2>1, SelectedRows DEF Own
    <2>3. initial_user_data'[p] = Selected(user[p])
      <3>1. \A rows \in Seq(Row) : <<>> \o rows = rows
        OBVIOUS
      <3> QED
        BY <2>1, <2>2, <3>1, Zenon
    <2>4. /\ \A i \in DOMAIN Selected(user[p]) :
                /\ Selected(user[p])[i].p_id \in RowsOf(user[p])
                /\ Selected(user[p])[i].text = db[Selected(user[p])[i].p_id].text
          /\ \A id \in RowsOf(user[p]) :
                \E i \in DOMAIN Selected(user[p]) : Selected(user[p])[i].p_id = id
      BY <1>0, SelectedRows
    <2>5. (RowsOf(user[p]))' = RowsOf(user[p])
      BY <2>1 DEF RowsOf
    <2> HIDE DEF Selected
    <2>6. LoadedIds(p)' = RowsOf(user[p])
      BY <2>3, <2>4 DEF LoadedIds
    <2>7. \A i \in DOMAIN initial_user_data'[p] :
             initial_user_data'[p][i].text = db'[initial_user_data'[p][i].p_id].text
      BY <2>1, <2>3, <2>4
    <2> QED
      BY <2>1, <2>5, <2>6, <2>7 DEF Loaded
  <1>3. CASE Construct(p)
    <2> DEFINE ids == {current_password_id[p]} \cup LoadedIds(p)
    <2>1. /\ pc[p] = "construct" /\ pc'[p] = "running"
          /\ DOMAIN entries'[p] = LoadedIds(p)
          /\ current_password_id'[p] = Max(ids)
          /\ UNCHANGED <<db, user, user_data_copy>>
      BY <1>0, <1>3 DEF Construct, LoadedIds, First, PerProcess
    <2>2. IsFiniteSet(ids) /\ ids \subseteq Nat /\ ids # {}
      <3>1. IsFiniteSet(LoadedIds(p)) /\ LoadedIds(p) \subseteq Nat /\ current_password_id[p] \in Nat
        BY <1>0, LoadedRows DEF Statics
      <3>2. IsFiniteSet(LoadedIds(p) \cup {current_password_id[p]})
        BY <3>1, FS_AddElement
      <3>3. ids = LoadedIds(p) \cup {current_password_id[p]}
        OBVIOUS
      <3> QED
        BY <3>1, <3>2, <3>3
    <2>3. current_password_id[p] \in ids
      OBVIOUS
    <2> HIDE DEF ids
    <2>4. Max(ids) \in Nat /\ current_password_id[p] <= Max(ids)
      BY <2>2, <2>3, MaxOfIds
    <2>5. \A id \in DOMAIN db : id <= Max(ids)
      <3> TAKE id \in DOMAIN db
      <3>1. id \in Nat /\ id <= current_password_id[p] /\ current_password_id[p] \in Nat
        BY <1>0, <2>1 DEF Table, Statics, Loaded
      <3> QED
        BY <2>4, <3>1
    <2>6. \A id \in DOMAIN entries'[p] : db[id].userid = user[p]
      BY <2>1 DEF Loaded, RowsOf
    <2>7. DOMAIN user_data_copy[p] = {}
      BY <1>0, <2>1 DEF Place
    <2> QED
      BY <2>1, <2>5, <2>6, <2>7 DEF Loaded
  <1> QED
    BY <1>1, <1>2, <1>3

\* Operations keep the account apart from the rows of other users.
LEMMA SessionLoaded ==
    ASSUME IInv, NEW p \in Processes, Loaded(p), pc[p] = "running", Session(p)
    PROVE  Loaded(p)'
  <1> USE DEF Operate, processVars, accountVars, storeVars
  <1>0. PerProcess /\ Statics(p) /\ Table
    BY DEF IInv, Process
  <1>1. UNCHANGED <<db, user, user_data_copy>> /\ pc'[p] \in {"running", "logout"}
    BY <1>0 DEF Session, AddPassword, ModifyPassword, RemovePassword, Logout, PerProcess
  <1>2. ASSUME NEW text \in TextsOf[user[p]], AddPassword(p, text)
        PROVE  Loaded(p)'
    <2>1. /\ current_password_id'[p] = current_password_id[p] + 1
          /\ DOMAIN entries'[p] = DOMAIN entries[p] \cup {current_password_id[p] + 1}
      BY <1>0, <1>2 DEF AddPassword, PerProcess, Put
    <2>2. /\ current_password_id[p] \in Nat /\ DOMAIN db \subseteq Nat
          /\ \A id \in DOMAIN db : id <= current_password_id[p]
      BY <1>0 DEF Statics, Table, Loaded
    <2>3. /\ \A id \in DOMAIN db : id <= current_password_id[p] + 1
          /\ current_password_id[p] + 1 \notin DOMAIN db
      BY <2>2
    <2> QED
      BY <1>1, <2>1, <2>3 DEF Loaded
  <1>3. ASSUME \/ Logout(p)
               \/ \E id \in DOMAIN entries[p] :
                     RemovePassword(p, id) \/ \E text \in TextsOf[user[p]] : ModifyPassword(p, id, text)
        PROVE  Loaded(p)'
    <2>1. current_password_id' = current_password_id /\ DOMAIN entries'[p] \subseteq DOMAIN entries[p]
      <3>1. CASE Logout(p)
        BY <3>1 DEF Logout
      <3>2. ASSUME NEW id \in DOMAIN entries[p], RemovePassword(p, id)
            PROVE  current_password_id' = current_password_id
                     /\ DOMAIN entries'[p] \subseteq DOMAIN entries[p]
        BY <1>0, <3>2 DEF RemovePassword, PerProcess, Without, Restrict
      <3>3. ASSUME NEW id \in DOMAIN entries[p], NEW text \in TextsOf[user[p]],
                   ModifyPassword(p, id, text)
            PROVE  current_password_id' = current_password_id
                     /\ DOMAIN entries'[p] \subseteq DOMAIN entries[p]
        BY <1>0, <3>3 DEF ModifyPassword, PerProcess
      <3> QED
        BY <1>3, <3>1, <3>2, <3>3
    <2> QED
      BY <1>1, <2>1 DEF Loaded
  <1> QED
    BY <1>2, <1>3 DEF Session

\* The store cycle writes rows of the session's user, and no others.
LEMMA StoreLoaded ==
    ASSUME IInv, NEW p \in Processes, Loaded(p), PeriodicDataStore(p)
    PROVE  Loaded(p)'
  <1> USE DEF processVars, accountVars, storeVars
  <1>0. PerProcess /\ Place(p) /\ Statics(p) /\ NoIdAhead(p) /\ Table
    BY DEF IInv, Process
  <1>1. CASE Destroy(p)
    BY <1>1, OutsideLoaded
  <1>2. CASE CopyEntries(p) \/ CollectRemoved(p) \/ FinishCycle(p) \/ DeleteRow(p)
    <2>1. /\ pc[p] \in {"running", "logout"}
          /\ UNCHANGED <<pc, user, current_password_id, entries>>
          /\ DOMAIN db' \subseteq DOMAIN db /\ \A id \in DOMAIN db' : db'[id] = db[id]
          /\ DOMAIN user_data_copy'[p] \subseteq DOMAIN entries[p] \cup DOMAIN user_data_copy[p]
      BY <1>0, <1>2 DEF CopyEntries, CollectRemoved, FinishCycle, DeleteRow, PerProcess, Place
    <2> QED
      BY <2>1 DEF Loaded
  <1>3. ASSUME NEW id \in DOMAIN user_data_copy[p], InsertRow(p, id)
        PROVE  Loaded(p)'
    <2>1. /\ pc[p] \in {"running", "logout"}
          /\ UNCHANGED <<pc, user, current_password_id, entries>>
          /\ DOMAIN user_data_copy'[p] \subseteq DOMAIN user_data_copy[p]
          /\ DOMAIN db' = DOMAIN db \cup {id} /\ db'[id].userid = user[p]
          /\ \A other \in DOMAIN db : other # id => db'[other] = db[other]
      BY <1>0, <1>3 DEF InsertRow, PerProcess, Place, Put, Without, Restrict
    <2>2. id <= current_password_id[p]
      BY <1>0 DEF NoIdAhead, Statics
    <2> QED
      BY <2>1, <2>2 DEF Loaded
  <1> QED
    BY <1>1, <1>2, <1>3 DEF PeriodicDataStore

\* With one process, every step keeps what is known of its account and the table.
LEMMA StepLoaded ==
    ASSUME Alone, IInv, OwnTexts, LoadedInv, [Next]_vars
    PROVE  LoadedInv'
  <1> SUFFICES ASSUME ~failed', NEW p \in Processes PROVE Loaded(p)'
    BY DEF LoadedInv
  <1>1. CASE UNCHANGED vars
    <2>1. failed' = failed
      BY <1>1 DEF vars, processVars
    <2>2. ~failed
      BY <2>1, Zenon
    <2>3. Loaded(p)
      BY <2>2 DEF LoadedInv
    <2> QED
      BY <1>1, <2>3 DEF vars, processVars, accountVars, storeVars, Loaded, LoadedIds, RowsOf
  <1>2. ASSUME \/ StartProcess(p) \/ Kill(p) \/ \E u \in Users : Login(p, u)
               \/ SelectIds(p) \/ SelectRows(p) \/ Construct(p) \/ ConstructFails(p)
               \/ pc[p] = "running" /\ Session(p)
               \/ PeriodicDataStore(p)
        PROVE  Loaded(p)'
    <2>1. ~failed /\ ~ConstructFails(p)
      BY <1>2, FailureStays
    <2>2. Own(p) /\ Loaded(p)
      BY <2>1 DEF OwnTexts, LoadedInv
    <2> QED
      BY <1>2, <2>1, <2>2, OutsideLoaded, ConstructorLoaded, SessionLoaded, StoreLoaded
  <1>3. \A q \in Processes : q = p
    BY DEF Alone
  <1> QED
    BY <1>1, <1>2, <1>3 DEF Next

\* With one process the stronger invariant holds throughout.
LEMMA AloneInvariance == ASSUME Alone PROVE Spec => [](IInv /\ OwnTexts /\ LoadedInv)
  <1>1. Init => IInv /\ OwnTexts /\ LoadedInv
    BY InitIInv, InitOwn, InitLoaded
  <1>2. IInv /\ OwnTexts /\ LoadedInv /\ [Next]_vars => (IInv /\ OwnTexts /\ LoadedInv)'
    BY StepIInv, StepOwn, StepLoaded
  <1> QED
    BY <1>1, <1>2, PTL DEF Spec

\* RowsKept: a row changes only in a session of its user, and stays with its user.
THEOREM RowsAreKept == ASSUME Alone PROVE Spec => RowsKept
  <1>1. IInv /\ OwnTexts /\ LoadedInv /\ [Next]_vars =>
          [~failed => \A id \in DOMAIN db :
              \/ id \in DOMAIN db' /\ db'[id] = db[id]
              \/ /\ \E p \in Processes : Running(p) /\ user[p] = db[id].userid
                 /\ id \in DOMAIN db' => db'[id].userid = db[id].userid]_vars
    <2> SUFFICES ASSUME IInv, LoadedInv, ~failed, Next, NEW id \in DOMAIN db,
                        ~(id \in DOMAIN db' /\ db'[id] = db[id])
                 PROVE  /\ \E p \in Processes : Running(p) /\ user[p] = db[id].userid
                        /\ id \in DOMAIN db' => db'[id].userid = db[id].userid
      OBVIOUS
    <2> USE DEF processVars, accountVars, storeVars, Operate
    <2>1. PICK p \in Processes :
             DeleteRow(p) \/ \E other \in DOMAIN user_data_copy[p] : InsertRow(p, other)
      <3>1. ASSUME NEW p \in Processes,
                   \/ StartProcess(p) \/ Kill(p) \/ \E u \in Users : Login(p, u)
                   \/ SelectIds(p) \/ SelectRows(p) \/ Construct(p) \/ ConstructFails(p)
            PROVE  FALSE
        BY <3>1 DEF StartProcess, Kill, Login, SelectIds, SelectRows, Construct, ConstructFails
      <3>2. ASSUME NEW p \in Processes, Session(p)
            PROVE  FALSE
        BY <3>2 DEF Session, AddPassword, ModifyPassword, RemovePassword, Logout
      <3>3. ASSUME NEW p \in Processes,
                   CopyEntries(p) \/ CollectRemoved(p) \/ FinishCycle(p) \/ Destroy(p)
            PROVE  FALSE
        BY <3>3 DEF CopyEntries, CollectRemoved, FinishCycle, Destroy
      <3> QED
        BY <3>1, <3>2, <3>3 DEF Next, PeriodicDataStore
    <2>2. Place(p) /\ Loaded(p)
      BY DEF IInv, Process, LoadedInv
    <2>3. Running(p)
      BY <2>1, <2>2 DEF DeleteRow, InsertRow, Place, Running
    <2>4. CASE DeleteRow(p)
      BY <2>3, <2>4 DEF DeleteRow, RowsOf
    <2>5. ASSUME NEW other \in DOMAIN user_data_copy[p], InsertRow(p, other)
          PROVE  user[p] = db[id].userid /\ db'[id].userid = user[p]
      <3>1. other = id
        BY <2>5 DEF InsertRow, Put
      <3>2. db[id].userid = user[p]
        BY <2>2, <2>5, <3>1 DEF Loaded
      <3>3. db'[id].userid = user[p]
        BY <2>5, <3>1 DEF InsertRow, Put
      <3> QED
        BY <3>2, <3>3
    <2> QED
      BY <2>1, <2>3, <2>4, <2>5
  <1> QED
    BY <1>1, AloneInvariance, PTL DEF Spec, RowsKept

\* LoginLoadsSaved: a login that works loads exactly the rows of its user, however the
\* last session ended.
THEOREM LoginsLoadWhatWasSaved == ASSUME Alone PROVE Spec => LoginLoadsSaved
  <1>1. IInv /\ OwnTexts /\ LoadedInv /\ [Next]_vars =>
          [\A p \in Processes :
              ~failed /\ pc[p] = "construct" /\ pc'[p] = "running" =>
                  entries'[p] = [id \in RowsOf(user[p]) |-> db[id].text]]_vars
    <2> SUFFICES ASSUME IInv, LoadedInv, Next, NEW p \in Processes,
                        ~failed, pc[p] = "construct", pc'[p] = "running"
                 PROVE  entries'[p] = [id \in RowsOf(user[p]) |-> db[id].text]
      OBVIOUS
    <2>0. PerProcess /\ Place(p) /\ Statics(p) /\ Loaded(p)
      BY DEF IInv, Process, LoadedInv
    <2> USE DEF processVars, accountVars, storeVars, Operate
    <2>1. PICK q \in Processes :
            \/ StartProcess(q) \/ Kill(q) \/ \E u \in Users : Login(q, u)
            \/ SelectIds(q) \/ SelectRows(q) \/ Construct(q) \/ ConstructFails(q)
            \/ pc[q] = "running" /\ Session(q)
            \/ PeriodicDataStore(q)
      BY DEF Next
    <2>2. q = p
      BY DEF Alone
    <2>3. Construct(p)
      BY <2>0, <2>1, <2>2
         DEF PerProcess, Place, StartProcess, Kill, Login, SelectIds, SelectRows,
             ConstructFails, PeriodicDataStore, CopyEntries, InsertRow, CollectRemoved,
             DeleteRow, FinishCycle, Destroy
    <2>4. entries'[p] = [id \in LoadedIds(p) |-> First(p, id).text]
      BY <2>0, <2>3 DEF Construct, LoadedIds, First, PerProcess
    <2>5. \A id \in LoadedIds(p) : First(p, id).text = db[id].text
      BY <2>0, LoadedRows DEF Statics, Loaded
    <2>6. LoadedIds(p) = RowsOf(user[p])
      BY <2>0 DEF Loaded
    <2> QED
      BY <2>4, <2>5, <2>6
  <1> QED
    BY <1>1, AloneInvariance, PTL DEF Spec, LoginLoadsSaved
=============================================================================
