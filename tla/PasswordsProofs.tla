-------------------------- MODULE PasswordsProofs --------------------------
(***************************************************************************)
(* Lemmas about the lists of Passwords, for the proofs of the modules that  *)
(* are built from them: what an operation and a queue of operations do to a *)
(* list.                                                                    *)
(***************************************************************************)
EXTENDS Passwords, WellFoundedInduction, SequenceTheorems, TLAPS

------------------------------------------------------------------------------
\* Counting.

\* Every set of naturals that is not empty has a least element: a proof about
\* recursion looks at the least number where it fails.
LEMMA LeastNumber ==
    ASSUME NEW T, T \subseteq Nat, T # {}
    PROVE  \E x \in T : \A y \in T : x <= y
  <1> DEFINE R == {ss \in Nat \X Nat : ss[1] < ss[2]}
  <1>1. IsWellFoundedOn(R, Nat)
    BY NatLessThanWellFounded DEF OpToRel
  <1>2. \E x \in T : \A y \in T : ~ (<<y, x>> \in R)
    <2> HIDE DEF R
    <2> QED
      BY <1>1, WFMin
  <1>3. PICK x \in T : \A y \in T : ~ (<<y, x>> \in R)
    BY <1>2
  <1>4. ASSUME NEW y \in T PROVE x <= y
    <2>1. <<y, x>> \in Nat \X Nat /\ <<y, x>>[1] = y /\ <<y, x>>[2] = x
      OBVIOUS
    <2>2. ~ (y < x)
      BY <1>3, <2>1
    <2> QED
      BY <2>2
  <1> QED
    BY <1>3, <1>4

------------------------------------------------------------------------------
\* What is in a queue.

\* A push adds what is pushed.
LEMMA RangeOfPush ==
    ASSUME NEW S, NEW queue \in Seq(S), NEW elt \in S
    PROVE  Range(Append(queue, elt)) = Range(queue) \cup {elt}
  <1>1. /\ Append(queue, elt) \in Seq(S)
        /\ DOMAIN queue = 1 .. Len(queue) /\ Len(queue) \in Nat
        /\ DOMAIN Append(queue, elt) = 1 .. Len(queue) + 1
        /\ \A i \in 1 .. Len(queue) : Append(queue, elt)[i] = queue[i]
        /\ Append(queue, elt)[Len(queue) + 1] = elt
    OBVIOUS
  <1>2. \A i \in 1 .. Len(queue) + 1 : i \in 1 .. Len(queue) \/ i = Len(queue) + 1
    BY <1>1
  <1> QED
    BY <1>1, <1>2 DEF Range

\* A pop takes the head.
LEMMA RangeOfPop ==
    ASSUME NEW S, NEW queue \in Seq(S), queue # <<>>
    PROVE  /\ Head(queue) \in S /\ Tail(queue) \in Seq(S)
           /\ Range(queue) = {Head(queue)} \cup Range(Tail(queue))
           /\ queue = <<Head(queue)>> \o Tail(queue)
  <1>1. /\ Head(queue) \in S /\ Tail(queue) \in Seq(S)
        /\ queue = <<Head(queue)>> \o Tail(queue)
    OBVIOUS
  <1>2. /\ DOMAIN queue = 1 .. Len(queue) /\ Len(queue) \in Nat \ {0}
        /\ Head(queue) = queue[1]
        /\ DOMAIN Tail(queue) = 1 .. Len(queue) - 1
        /\ \A i \in 1 .. Len(queue) - 1 : Tail(queue)[i] = queue[i + 1]
    OBVIOUS
  <1>3. \A i \in 2 .. Len(queue) : i - 1 \in 1 .. Len(queue) - 1 /\ queue[i] = Tail(queue)[i - 1]
    BY <1>2
  <1>4. \A i \in 1 .. Len(queue) : i = 1 \/ i \in 2 .. Len(queue)
    BY <1>2
  <1>5. \A i \in 1 .. Len(queue) - 1 : i + 1 \in 1 .. Len(queue)
    BY <1>2
  <1>6. Range(queue) \subseteq {Head(queue)} \cup Range(Tail(queue))
    <2>1. ASSUME NEW i \in DOMAIN queue
          PROVE  queue[i] = Head(queue) \/ \E j \in DOMAIN Tail(queue) : queue[i] = Tail(queue)[j]
      BY <1>2, <1>3, <1>4
    <2> QED
      BY <2>1 DEF Range
  <1>7. {Head(queue)} \cup Range(Tail(queue)) \subseteq Range(queue)
    BY <1>2, <1>5 DEF Range
  <1> QED
    BY <1>1, <1>6, <1>7

------------------------------------------------------------------------------
\* A queue of operations.

\* The states a list goes through while the operations of a queue are applied.
IsRunOf(state, list, ops) ==
    state = [n \in 0 .. Len(ops) |->
                IF n = 0 THEN list ELSE Applied(state[n - 1], ops[n])]

\* There is such a run, by induction over the length of the queue.
LEMMA RunExists ==
    ASSUME NEW list, NEW S, NEW ops \in Seq(S)
    PROVE  \E state : IsRunOf(state, list, ops)
  <1> DEFINE Reaches(state, k) ==
               state = [n \in 0 .. k |-> IF n = 0 THEN list ELSE Applied(state[n - 1], ops[n])]
             T == {k \in 0 .. Len(ops) : ~ \E state : Reaches(state, k)}
  <1>0. Len(ops) \in Nat
    OBVIOUS
  <1>1. ASSUME T # {} PROVE FALSE
    <2>1. PICK k \in T : \A j \in T : k <= j
      <3>1. T \subseteq Nat
        BY <1>0
      <3> HIDE DEF T
      <3> QED
        BY <1>1, <3>1, LeastNumber
    <2>2. CASE k = 0
      <3> DEFINE first == [n \in 0 .. 0 |-> list]
      <3>1. Reaches(first, 0)
        OBVIOUS
      <3> QED
        BY <2>1, <2>2, <3>1
    <2>3. CASE k # 0
      <3>1. k - 1 \in 0 .. Len(ops) /\ k \in Nat
        BY <2>1, <2>3, <1>0
      <3>2. k - 1 \notin T
        <4> HIDE DEF T
        <4> QED
          BY <2>1, <3>1
      <3>3. PICK before : Reaches(before, k - 1)
        BY <3>1, <3>2
      <3> DEFINE after == [n \in 0 .. k |-> IF n = k THEN Applied(before[k - 1], ops[k])
                                                      ELSE before[n]]
      <3>4. \A n \in 0 .. k : n # k => after[n] = before[n] /\ n \in 0 .. k - 1
        BY <3>1
      <3>5. \A n \in 0 .. k : after[n] = IF n = 0 THEN list ELSE Applied(after[n - 1], ops[n])
        <4> TAKE n \in 0 .. k
        <4>1. CASE n = k
          BY <3>1, <3>4, <4>1, <2>3
        <4>2. CASE n # k
          <5>1. before[n] = IF n = 0 THEN list ELSE Applied(before[n - 1], ops[n])
            BY <3>3, <3>4, <4>2
          <5>2. n # 0 => n - 1 \in 0 .. k /\ n - 1 # k
            BY <3>1, <4>2
          <5> QED
            BY <3>4, <4>2, <5>1, <5>2
        <4> QED
          BY <4>1, <4>2
      <3>6. Reaches(after, k)
        <4> HIDE DEF after
        <4>1. after = [n \in 0 .. k |-> after[n]]
          BY DEF after
        <4> QED
          BY <3>5, <4>1
      <3> QED
        BY <2>1, <3>6
    <2> QED
      BY <2>2, <2>3
  <1> QED
    BY <1>0, <1>1 DEF IsRunOf

\* Recursion gives what it says: After is the end of such a run.
LEMMA AfterIsRun ==
    ASSUME NEW list, NEW S, NEW ops \in Seq(S)
    PROVE  \E state : IsRunOf(state, list, ops) /\ After(list, ops) = state[Len(ops)]
  <1> DEFINE chosen == CHOOSE state : IsRunOf(state, list, ops)
  <1>1. IsRunOf(chosen, list, ops)
    BY RunExists
  <1>2. After(list, ops) = chosen[Len(ops)]
    BY DEF After, IsRunOf
  <1> QED
    BY <1>1, <1>2

\* Runs of one list agree as far as their queues do.
LEMMA RunsAgree ==
    ASSUME NEW list, NEW S, NEW ops \in Seq(S), NEW more \in Seq(S),
           NEW state, IsRunOf(state, list, ops),
           NEW longer, IsRunOf(longer, list, more),
           Len(ops) <= Len(more), \A n \in 1 .. Len(ops) : ops[n] = more[n]
    PROVE  state[Len(ops)] = longer[Len(ops)]
  <1> DEFINE T == {n \in 0 .. Len(ops) : state[n] # longer[n]}
  <1>0. Len(ops) \in Nat /\ Len(more) \in Nat
    OBVIOUS
  <1>1. ASSUME T # {} PROVE FALSE
    <2>1. PICK k \in T : \A j \in T : k <= j
      <3>1. T \subseteq Nat
        BY <1>0
      <3> HIDE DEF T
      <3> QED
        BY <1>1, <3>1, LeastNumber
    <2>2. k \in 0 .. Len(ops) /\ k \in 0 .. Len(more) /\ state[k] # longer[k]
      BY <1>0
    <2>3. k # 0
      BY <2>2 DEF IsRunOf
    <2>4. k - 1 \in 0 .. Len(ops) /\ k - 1 \notin T
      <3>1. k - 1 \in 0 .. Len(ops) /\ ~ (k <= k - 1)
        BY <1>0, <2>2, <2>3
      <3> HIDE DEF T
      <3> QED
        BY <2>1, <3>1
    <2>5. state[k - 1] = longer[k - 1] /\ ops[k] = more[k]
      BY <2>2, <2>3, <2>4
    <2>6. /\ state[k] = Applied(state[k - 1], ops[k])
          /\ longer[k] = Applied(longer[k - 1], more[k])
      BY <2>2, <2>3 DEF IsRunOf
    <2> QED
      BY <2>2, <2>5, <2>6
  <1> QED
    BY <1>0, <1>1

\* Nothing is done to a list by an empty queue.
LEMMA AfterNothing ==
    ASSUME NEW list
    PROVE  After(list, <<>>) = list
  <1>1. <<>> \in Seq({}) /\ Len(<<>>) = 0
    OBVIOUS
  <1>2. PICK state : IsRunOf(state, list, <<>>) /\ After(list, <<>>) = state[0]
    BY <1>1, AfterIsRun
  <1> QED
    BY <1>1, <1>2 DEF IsRunOf

\* An operation pushed on the queue takes effect after those before it ...
LEMMA AfterPush ==
    ASSUME NEW list, NEW S, NEW ops \in Seq(S), NEW op \in S
    PROVE  After(list, Append(ops, op)) = Applied(After(list, ops), op)
  <1> DEFINE more == Append(ops, op)
             n == Len(ops)
  <1>1. /\ more \in Seq(S) /\ n \in Nat /\ Len(more) = n + 1
        /\ \A i \in 1 .. n : more[i] = ops[i]
        /\ more[n + 1] = op
    OBVIOUS
  <1>2. PICK state : IsRunOf(state, list, ops) /\ After(list, ops) = state[n]
    BY AfterIsRun
  <1>3. PICK longer : IsRunOf(longer, list, more) /\ After(list, more) = longer[n + 1]
    BY <1>1, AfterIsRun
  <1> HIDE DEF more, n
  <1>4. longer[n + 1] = Applied(longer[n], op)
    BY <1>1, <1>3 DEF IsRunOf
  <1>5. state[n] = longer[n]
    <2>1. Len(ops) <= Len(more) /\ \A i \in 1 .. Len(ops) : ops[i] = more[i]
      BY <1>1 DEF n
    <2>2. more \in Seq(S) /\ IsRunOf(state, list, ops) /\ IsRunOf(longer, list, more)
      BY <1>1, <1>2, <1>3
    <2>3. state[Len(ops)] = longer[Len(ops)]
      BY <2>1, <2>2, RunsAgree
    <2> QED
      BY <2>3 DEF n
  <1> QED
    BY <1>2, <1>3, <1>4, <1>5 DEF more

\* ... and one taken from the queue can as well be applied first.
LEMMA AfterPop ==
    ASSUME NEW list, NEW S, NEW ops \in Seq(S), NEW op \in S
    PROVE  After(list, <<op>> \o ops) = After(Applied(list, op), ops)
  <1> DEFINE more == <<op>> \o ops
             n == Len(ops)
  <1>1. /\ more \in Seq(S) /\ n \in Nat /\ Len(more) = n + 1
        /\ more[1] = op
        /\ \A i \in 1 .. n : more[i + 1] = ops[i]
    OBVIOUS
  <1>2. PICK longer : IsRunOf(longer, list, more) /\ After(list, more) = longer[n + 1]
    <2> HIDE DEF more, n
    <2>1. \E run : IsRunOf(run, list, more) /\ After(list, more) = run[Len(more)]
      BY <1>1, AfterIsRun
    <2> QED
      BY <1>1, <2>1
  <1>3. PICK state : IsRunOf(state, Applied(list, op), ops)
                     /\ After(Applied(list, op), ops) = state[n]
    BY AfterIsRun
  <1> DEFINE shifted == [i \in 0 .. n |-> longer[i + 1]]
  <1> HIDE DEF more
  <1>4. IsRunOf(shifted, Applied(list, op), ops)
    <2>1. longer[1] = Applied(list, op)
      BY <1>1, <1>2 DEF IsRunOf
    <2>2. ASSUME NEW i \in 0 .. n, i # 0
          PROVE  longer[i + 1] = Applied(longer[i], ops[i])
      BY <1>1, <1>2, <2>2 DEF IsRunOf
    <2>3. \A i \in 0 .. n : i # 0 => shifted[i - 1] = longer[i]
      BY <1>1
    <2> QED
      BY <2>1, <2>2, <2>3 DEF IsRunOf
  <1> HIDE DEF shifted
  <1>5. state[n] = shifted[n]
    BY <1>1, <1>3, <1>4, RunsAgree
  <1>6. shifted[n] = longer[n + 1]
    BY <1>1 DEF shifted
  <1> QED
    BY <1>1, <1>2, <1>3, <1>5, <1>6 DEF more

------------------------------------------------------------------------------
\* One operation.

\* Every operation leaves a list: ids stay below the last one, fields are kept or
\* replaced by those of the request.
LEMMA AppliedIsList ==
    ASSUME NEW list, IsList(list), NEW op \in Operations(Nat) \cup {None}
    PROVE  IsList(Applied(list, op))
  <1> DEFINE entries == list.entries
             last == list.last_id
  <1>1. /\ list = [entries |-> entries, last_id |-> last]
        /\ last \in Nat
        /\ DOMAIN entries \subseteq 0 .. last
        /\ entries \in [DOMAIN entries -> Password]
    BY DEF IsList
  <1> HIDE DEF entries, last
  <1>2. CASE op.operation_type = "ADD"
    <2>1. op.curr_password \in Password
      BY <1>2, PasswordsAssumption DEF Operations, None, Password
    <2> DEFINE new == op.curr_password
               more == Put(entries, last + 1, new)
    <2>2. Applied(list, op) = [entries |-> more, last_id |-> last + 1]
      BY <1>1, <1>2 DEF Applied, AddTo
    <2>3. /\ DOMAIN more = DOMAIN entries \cup {last + 1}
          /\ more \in [DOMAIN more -> Password]
      BY <1>1, <2>1 DEF Put
    <2> HIDE DEF more
    <2> QED
      BY <1>1, <2>2, <2>3 DEF IsList
  <1>3. CASE op.operation_type = "REMOVE"
    <2> DEFINE less == Without(entries, {op.p_id})
    <2>1. Applied(list, op) = [entries |-> less, last_id |-> last]
      BY <1>1, <1>3 DEF Applied, RemoveFrom
    <2>2. /\ DOMAIN less \subseteq DOMAIN entries
          /\ less \in [DOMAIN less -> Password]
      BY <1>1 DEF Without, Restrict
    <2> HIDE DEF less
    <2> QED
      BY <1>1, <2>1, <2>2 DEF IsList
  <1>4. CASE op.operation_type = "MODIFY"
    <2>1. op.curr_password \in Password
      BY <1>4, PasswordsAssumption DEF Operations, None, Password
    <2> DEFINE id == op.p_id
               changed == [entries EXCEPT ![id] = Updated(@, op.curr_password)]
    <2>2. Applied(list, op) = ModifyIn(list, id, op.curr_password)
      BY <1>4 DEF Applied
    <2>3. CASE id \in DOMAIN entries
      <3>1. ModifyIn(list, id, op.curr_password) = [entries |-> changed, last_id |-> last]
        BY <1>1, <2>3 DEF ModifyIn
      <3>2. Updated(entries[id], op.curr_password) \in Password
        BY <1>1, <2>1, <2>3 DEF Updated, Password
      <3>3. DOMAIN changed = DOMAIN entries /\ changed \in [DOMAIN changed -> Password]
        BY <1>1, <3>2
      <3> HIDE DEF changed
      <3> QED
        BY <1>1, <2>2, <3>1, <3>3 DEF IsList
    <2>4. CASE id \notin DOMAIN entries
      BY <1>1, <2>2, <2>4 DEF ModifyIn, IsList
    <2> QED
      BY <2>3, <2>4
  <1>5. CASE op.operation_type = "NONE"
    BY <1>5 DEF Applied
  <1> QED
    BY <1>2, <1>3, <1>4, <1>5 DEF Operations, None

\* Ids only grow, no id is given out twice, and an entry goes only when it is removed.
LEMMA AppliedIds ==
    ASSUME NEW list, IsList(list), NEW op \in Operations(Nat) \cup {None}
    PROVE  LET after == Applied(list, op)
           IN  /\ list.last_id <= after.last_id
               /\ \A id \in DOMAIN after.entries :
                     id \in DOMAIN list.entries \/ id > list.last_id
               /\ \A id \in DOMAIN list.entries :
                     id \in DOMAIN after.entries \/ (op.operation_type = "REMOVE" /\ id = op.p_id)
               /\ op.operation_type = "REMOVE" => op.p_id \notin DOMAIN after.entries
  <1>1. list.last_id \in Nat
    BY DEF IsList
  <1>2. CASE op.operation_type = "ADD"
    BY <1>1, <1>2 DEF Applied, AddTo, Put
  <1>3. CASE op.operation_type = "REMOVE"
    <2>1. Applied(list, op).entries = Without(list.entries, {op.p_id})
          /\ Applied(list, op).last_id = list.last_id
      BY <1>3 DEF Applied, RemoveFrom, IsList
    <2> QED
      BY <1>1, <1>3, <2>1 DEF Without, Restrict
  <1>4. CASE op.operation_type = "MODIFY"
    <2>1. DOMAIN Applied(list, op).entries = DOMAIN list.entries
          /\ Applied(list, op).last_id = list.last_id
      BY <1>4 DEF Applied, ModifyIn, IsList
    <2> QED
      BY <1>1, <1>4, <2>1
  <1>5. CASE op.operation_type = "NONE"
    BY <1>1, <1>5 DEF Applied
  <1> QED
    BY <1>2, <1>3, <1>4, <1>5 DEF Operations, None

\* The NONE of the shutdown changes no list.
LEMMA AppliedNone ==
    ASSUME NEW list
    PROVE  Applied(list, None) = list
  BY DEF Applied, None

\* What holds of every list an operation leaves holds of the list a queue leaves.
LEMMA AfterIsList ==
    ASSUME NEW list, IsList(list), NEW ops \in Seq(Operations(Nat))
    PROVE  /\ IsList(After(list, ops))
           /\ list.last_id <= After(list, ops).last_id
           /\ \A id \in DOMAIN After(list, ops).entries :
                 id \in DOMAIN list.entries \/ id > list.last_id
  <1> DEFINE Good(after) ==
               /\ IsList(after)
               /\ list.last_id <= after.last_id
               /\ \A id \in DOMAIN after.entries : id \in DOMAIN list.entries \/ id > list.last_id
  <1>1. PICK state : IsRunOf(state, list, ops) /\ After(list, ops) = state[Len(ops)]
    BY AfterIsRun
  <1>2. /\ Len(ops) \in Nat /\ state[0] = list
        /\ \A n \in 1 .. Len(ops) : state[n] = Applied(state[n - 1], ops[n])
        /\ \A n \in 1 .. Len(ops) : ops[n] \in Operations(Nat)
    <2>1. Len(ops) \in Nat /\ \A n \in 1 .. Len(ops) : ops[n] \in Operations(Nat)
      OBVIOUS
    <2>2. state[0] = list
      BY <1>1, <2>1 DEF IsRunOf
    <2>3. ASSUME NEW n \in 1 .. Len(ops) PROVE state[n] = Applied(state[n - 1], ops[n])
      <3>1. n \in 0 .. Len(ops) /\ n # 0
        BY <2>1
      <3> QED
        BY <1>1, <3>1 DEF IsRunOf
    <2> QED
      BY <2>1, <2>2, <2>3
  <1>3. list.last_id \in Nat
    BY DEF IsList
  <1>4. Good(list)
    BY <1>3
  <1>5. ASSUME NEW after, Good(after), NEW op \in Operations(Nat)
        PROVE  Good(Applied(after, op))
    <2>1. IsList(Applied(after, op))
      BY <1>5, AppliedIsList
    <2>2. /\ after.last_id <= Applied(after, op).last_id
          /\ \A id \in DOMAIN Applied(after, op).entries :
                id \in DOMAIN after.entries \/ id > after.last_id
      BY <1>5, AppliedIds
    <2>3. /\ after.last_id \in Nat /\ Applied(after, op).last_id \in Nat
          /\ DOMAIN Applied(after, op).entries \subseteq 0 .. Applied(after, op).last_id
      BY <1>5, <2>1 DEF IsList
    <2> QED
      BY <1>3, <1>5, <2>1, <2>2, <2>3
  <1> HIDE DEF Good
  <1> DEFINE T == {n \in 0 .. Len(ops) : ~Good(state[n])}
  <1>6. T = {}
    <2> SUFFICES ASSUME T # {} PROVE FALSE
      OBVIOUS
    <2>1. PICK n \in T : \A m \in T : n <= m
      <3>1. T \subseteq Nat
        BY <1>2
      <3> HIDE DEF T
      <3> QED
        BY <3>1, LeastNumber
    <2>2. n # 0
      BY <1>2, <1>4, <2>1
    <2>3. n \in 1 .. Len(ops) /\ n - 1 \in 0 .. Len(ops) /\ n \in Nat
      BY <1>2, <2>1, <2>2
    <2>4. n - 1 \notin T
      <3>1. ~ (n <= n - 1)
        BY <2>3
      <3> HIDE DEF T
      <3> QED
        BY <2>1, <3>1
    <2>5. Good(state[n - 1])
      BY <2>3, <2>4
    <2>6. Good(state[n])
      BY <1>2, <1>5, <2>3, <2>5
    <2> QED
      BY <2>1, <2>6
  <1>7. Good(After(list, ops))
    BY <1>1, <1>2, <1>6
  <1> QED
    BY <1>7 DEF Good
=============================================================================
