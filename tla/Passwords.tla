----------------------------- MODULE Passwords -----------------------------
(***************************************************************************)
(* The data every part of the application shares: a saved password          *)
(* (structs/password.hpp), the operations the GUI submits on the list       *)
(* (structs/operations.hpp), and what one operation does to a list.         *)
(*                                                                         *)
(* A password is a function from its fields to texts.  Dates are left out:  *)
(* nothing in src/app branches on date_modified, and date_created only      *)
(* decides whether the dates are set.  A list is a record of its entries    *)
(* (a function from ids to passwords) and the last id it gave out.          *)
(***************************************************************************)
EXTENDS Integers, Sequences, Functions

CONSTANTS
    Fields,     \* username, url, description, encryped_password
    Texts,      \* the values a field may hold
    Empty,      \* DEFAULT_STRING_VAL: in a MODIFY, "leave this field alone"
    Submitted   \* the passwords a caller fills in to add or to modify with

ASSUME PasswordsAssumption ==
    /\ Empty \in Texts
    /\ Submitted \subseteq [Fields -> Texts]

Password == [Fields -> Texts]

IsList(list) ==
    /\ list = [entries |-> list.entries, last_id |-> list.last_id]
    /\ DOMAIN list.entries \subseteq 0 .. list.last_id
    /\ list.entries \in [DOMAIN list.entries -> Password]
    /\ list.last_id \in Nat

\* The operations that reach the account, and the NONE that only wakes the
\* operation thread up at shutdown.
Operations(ids) ==
    [operation_type : {"ADD"}, curr_password : Submitted]
        \cup [operation_type : {"MODIFY"}, p_id : ids, curr_password : Submitted]
        \cup [operation_type : {"REMOVE"}, p_id : ids]
None == [operation_type |-> "NONE"]

\* map.emplace(key, value), where key is not in the map yet, or map[key] = value
Put(map, key, value) ==
    [k \in DOMAIN map \cup {key} |-> IF k = key THEN value ELSE map[k]]

\* map.erase(keys)
Without(map, keys) == Restrict(map, DOMAIN map \ keys)

\* The fields of an entry after a modification: empty values are ignored.
Updated(entry, update) ==
    [f \in Fields |-> IF update[f] = Empty THEN entry[f] ELSE update[f]]

AddTo(list, new) ==
    [entries |-> Put(list.entries, list.last_id + 1, new),
     last_id |-> list.last_id + 1]

RemoveFrom(list, id) == [list EXCEPT !.entries = Without(@, {id})]

ModifyIn(list, id, update) ==
    IF id \in DOMAIN list.entries
    THEN [list EXCEPT !.entries[id] = Updated(@, update)]
    ELSE list

\* The dispatch of DisplayContent::operation_process, over a plain list.
Applied(list, op) ==
    CASE op.operation_type = "ADD"    -> AddTo(list, op.curr_password)
      [] op.operation_type = "REMOVE" -> RemoveFrom(list, op.p_id)
      [] op.operation_type = "MODIFY" -> ModifyIn(list, op.p_id, op.curr_password)
      [] OTHER                        -> list

\* A list after some operations, one after the other.
After(list, ops) ==
    LET state[n \in 0 .. Len(ops)] ==
            IF n = 0 THEN list ELSE Applied(state[n - 1], ops[n])
    IN  state[Len(ops)]
=============================================================================
