---------------------------- MODULE UserAccount ----------------------------
(***************************************************************************)
(* app/objects/userAccount.cpp: the account of a logged-in user.  Password  *)
(* objects are shared (shared_ptr) by pass_id_map and by three lookup maps, *)
(* one per searchable field; each public method runs under                  *)
(* unordered_map_mutex and is one action here.  A bucket of a lookup map is *)
(* a set: the order of its vector is never observed.                        *)
(***************************************************************************)
EXTENDS Encryption

CONSTANTS
    Fields,           \* username, url, description and encryped_password
    Empty,            \* DEFAULT_STRING_VAL
    Submitted,        \* the passwords callers fill in
    IndexedFields,    \* username, url and description: those with a lookup map
    PasswordField,    \* encryped_password
    cipher,           \* the key of the key file, read once by the constructor
    InitialUserData,  \* the tables (id -> password) the login query may return
    MaxPasswordIds,   \* what get_password_id may leave in current_password_id
    Needles,          \* lower-cased search terms
    NoNeedle,         \* the empty one
    Matches,          \* needle -> the field values that contain it
    MaxId             \* bound: the last id given out

INSTANCE Passwords WITH Texts <- Values

ASSUME UserAccountAssumption ==
    /\ Empty \in Values /\ Empty.layers = <<>>
    /\ Submitted \subseteq Password
    /\ \A new \in Submitted : ~TryDecrypt(cipher, new[PasswordField])
    /\ PasswordField \notin IndexedFields
    /\ Fields = IndexedFields \cup {PasswordField}
    /\ cipher \in Keys
    /\ MaxPasswordIds \subseteq Nat
    /\ MaxId \in Nat
    /\ \A rows \in InitialUserData :
          /\ DOMAIN rows \subseteq Nat
          /\ \A id \in DOMAIN rows : rows[id] \in Password
          /\ \A n \in MaxPasswordIds : \E last \in DOMAIN rows \cup {n} :    \* a finite table
                \A id \in DOMAIN rows \cup {n} : id <= last
    /\ \A needle \in Needles : Matches[needle] \subseteq Values

VARIABLES
    initial_user_data,    \* the rows the constructor has not added yet
    object,               \* the password objects in memory, by p_id
    pass_id_map,          \* the ids of the entries
    index,                \* index[f]: the lookup map of field f
    removed_ids,          \* removed since the last get_removed_ids
    current_password_id   \* the last id given out

vars == <<initial_user_data, object, pass_id_map, index, removed_ids, current_password_id>>

Maximum(a, b) == IF a > b THEN a ELSE b

------------------------------------------------------------------------------
\* The lookup maps.

Bucket(buckets, key) == IF key \in DOMAIN buckets THEN buckets[key] ELSE {}

\* (fault) a second entry with the same value replaces the first one
PushBackReplacing(buckets, key, id) == Put(buckets, key, {id})

PushBack(buckets, key, id) == Put(buckets, key, Bucket(buckets, key) \cup {id})

\* (fault) remove_password forgets the lookup maps
EraseNothing(buckets, key, id) == buckets

\* remove_password leaves an emptied bucket in the map.
Erase(buckets, key, id) ==
    IF key \in DOMAIN buckets
    THEN [buckets EXCEPT ![key] = @ \ {id}]
    ELSE buckets

\* (fault) the entry stays in the bucket of its old value
MovedWithoutErase(buckets, old_key, new_key, id) ==
    IF old_key = new_key THEN buckets ELSE PushBack(buckets, new_key, id)

\* move_index_entry drops the bucket it empties.
Moved(buckets, old_key, new_key, id) ==
    LET left == Bucket(buckets, old_key) \ {id}
        rest == IF left = {} THEN Without(buckets, {old_key})
                             ELSE Put(buckets, old_key, left)
    IN  IF old_key = new_key THEN buckets ELSE PushBack(rest, new_key, id)

\* A password object lives as long as some map refers to it.
Referenced(id, ids, lookup) ==
    \/ id \in ids
    \/ \E f \in IndexedFields : \E key \in DOMAIN lookup[f] : id \in lookup[f][key]

------------------------------------------------------------------------------
\* (fault) what the table holds is encrypted once more
StoredAlwaysEncrypted(new) == [new EXCEPT ![PasswordField] = Encrypted(cipher, @)]

\* add_password once the id is known: the password field is sealed, and the
\* object goes into every map.
Stored(new) ==
    [new EXCEPT ![PasswordField] = EncryptForStorage(cipher, @)]

Insert(id, new) ==
    /\ object' = Put(object, id, Stored(new))
    /\ index' = [f \in IndexedFields |-> PushBack(index[f], new[f], id)]
    /\ pass_id_map' = pass_id_map \cup {id}

\* The constructor: current_password_id = max(10, max_password_id), then the
\* rows of the user are added one at a time.
Init ==
    /\ initial_user_data \in InitialUserData
    /\ object = <<>>
    /\ pass_id_map = {}
    /\ index = [f \in IndexedFields |-> <<>>]
    /\ removed_ids = <<>>
    /\ current_password_id \in MaxPasswordIds

LoadRow ==
    \E id \in DOMAIN initial_user_data :
        /\ Insert(id, initial_user_data[id])
        /\ current_password_id' = Maximum(current_password_id, id)
        /\ initial_user_data' = Without(initial_user_data, {id})
        /\ UNCHANGED removed_ids

Loaded == DOMAIN initial_user_data = {}

\* (fault) the entry keeps the p_id of the request
AddPasswordWithoutId(new) ==
    /\ Loaded
    /\ current_password_id < MaxId
    /\ Insert(-1, new)
    /\ current_password_id' = current_password_id + 1
    /\ UNCHANGED <<removed_ids, initial_user_data>>

\* (fault) the id after the largest one in the list, not the last one given out
AddPasswordReusingId(new) ==
    /\ Loaded
    /\ current_password_id < MaxId
    /\ \E id \in 0 .. MaxId :
          /\ \A live \in pass_id_map : live < id
          /\ id = 11 \/ id - 1 \in pass_id_map
          /\ Insert(id, new)
    /\ current_password_id' = current_password_id + 1
    /\ UNCHANGED <<removed_ids, initial_user_data>>

\* add_password with p_id = -1, as the GUI calls it.
AddPassword(new) ==
    /\ Loaded
    /\ current_password_id < MaxId
    /\ Insert(current_password_id + 1, new)
    /\ current_password_id' = current_password_id + 1
    /\ UNCHANGED <<removed_ids, initial_user_data>>

\* remove_password and modify_password do nothing for an unknown id.
RemovePassword(id) ==
    /\ Loaded
    /\ id \in pass_id_map
    /\ removed_ids' = Append(removed_ids, id)
    /\ pass_id_map' = pass_id_map \ {id}
    /\ index' = [f \in IndexedFields |-> Erase(index[f], object[id][f], id)]
    /\ object' = Restrict(object,
            {i \in DOMAIN object : Referenced(i, pass_id_map', index')})
    /\ UNCHANGED <<current_password_id, initial_user_data>>

\* Empty fields keep their value; an indexed field that changes moves.
ModifyPassword(id, update) ==
    /\ Loaded
    /\ id \in pass_id_map
    /\ object' = [object EXCEPT ![id] = Updated(@,
            IF update[PasswordField] = Empty THEN update ELSE Stored(update))]
    /\ index' = [f \in IndexedFields |->
            IF update[f] = Empty THEN index[f]
            ELSE Moved(index[f], object[id][f], update[f], id)]
    /\ UNCHANGED <<pass_id_map, removed_ids, current_password_id, initial_user_data>>

GetRemovedIds ==
    /\ Loaded
    /\ removed_ids' = <<>>
    /\ UNCHANGED <<initial_user_data, object, pass_id_map, index, current_password_id>>

Next ==
    \/ LoadRow
    \/ \E new \in Submitted : AddPassword(new)
    \/ \E id \in pass_id_map :
          \/ RemovePassword(id)
          \/ \E update \in Submitted : ModifyPassword(id, update)
    \/ GetRemovedIds

Spec == Init /\ [][Next]_vars

------------------------------------------------------------------------------
\* What the GUI is handed.

DecryptedCopy(stored) ==
    [stored EXCEPT ![PasswordField] = Shown(cipher, @, Empty)]

\* get_data_copy
DataCopy == [id \in pass_id_map |-> DecryptedCopy(object[id])]

\* search: the objects in the buckets whose key contains the needle, by p_id
Search(needle) ==
    LET hits == {id \in DOMAIN object :
                    /\ needle # NoNeedle
                    /\ \E f \in IndexedFields :
                         \E key \in DOMAIN index[f] :
                            key \in Matches[needle] /\ id \in index[f][key]}
    IN  [id \in hits |-> DecryptedCopy(object[id])]

------------------------------------------------------------------------------
\* Properties.

\* Every variable keeps its shape: entries are passwords, ids are numbers, and
\* each searchable field has a lookup map from values to sets of ids.
TypeOK ==
    /\ DOMAIN initial_user_data \subseteq Nat
    /\ \A id \in DOMAIN initial_user_data : initial_user_data[id] \in Password
    /\ DOMAIN object \subseteq Nat
    /\ \A id \in DOMAIN object : object[id] \in Password
    /\ pass_id_map \subseteq DOMAIN object
    /\ DOMAIN index = IndexedFields
    /\ \A f \in IndexedFields :
          /\ DOMAIN index[f] \subseteq Values
          /\ \A key \in DOMAIN index[f] : index[f][key] \subseteq Nat
    /\ removed_ids \in Seq(Nat)
    /\ current_password_id \in Nat

\* The lookup maps stay in step with the entries through any sequence of adds,
\* removals and modifications: the bucket of a value holds exactly the entries
\* whose field has that value, and every entry is in the bucket of its value
\* (add_password, remove_password, move_index_entry).
IndexExact ==
    \A f \in IndexedFields :
        /\ \A key \in DOMAIN index[f] :
              index[f][key] = {id \in pass_id_map : object[id][f] = key}
        /\ \A id \in pass_id_map : object[id][f] \in DOMAIN index[f]

\* A removed password is destroyed: no lookup map keeps its object (and its
\* ciphertext) alive after pass_id_map let it go.
NoObjectOutlivesItsEntry == DOMAIN object = pass_id_map

\* search returns exactly the entries with a field that contains the term, with
\* their current values: no removed entry, no entry found under a value it no
\* longer has, none missed (userAccount.cpp, search and collect_partial_matches).
SearchExact ==
    \A needle \in Needles :
        LET found == {id \in pass_id_map :
                        /\ needle # NoNeedle
                        /\ \E f \in IndexedFields : object[id][f] \in Matches[needle]}
        IN  Search(needle) = [id \in found |-> DataCopy[id]]

\* Passwords are kept encrypted in memory, whatever the table held at login and
\* whatever was submitted since, so what the data-store thread copies out is
\* always readable with the account's key (encrypt_for_storage).
SealedAtRest == \A id \in DOMAIN object : TryDecrypt(cipher, object[id][PasswordField])

\* An id waiting for its DELETE never names an entry again: ids are not reused,
\* not even after get_removed_ids, or the data-store thread would delete the
\* row of a live entry (current_password_id, remove_password, get_removed_ids).
RemovedStaysRemoved ==
    /\ \A i \in DOMAIN removed_ids : removed_ids[i] \notin pass_id_map
    /\ \A i, j \in DOMAIN removed_ids : removed_ids[i] = removed_ids[j] => i = j

\* The list the account stands for: a row not added yet counts as the entry its
\* user saved, opened if it is sealed with the account's key.
Opened(row) ==
    [row EXCEPT ![PasswordField] = IF TryDecrypt(cipher, @) THEN Decrypted(@) ELSE @]

Ids == DOMAIN initial_user_data \cup {current_password_id}

LastId == CHOOSE last \in Ids : \A id \in Ids : id <= last

AbstractAccount ==
    [entries |-> [id \in pass_id_map \cup DOMAIN initial_user_data |->
                     IF id \in pass_id_map THEN DecryptedCopy(object[id])
                                           ELSE Opened(initial_user_data[id])],
     last_id |-> LastId]

Promised == INSTANCE PasswordList
            WITH Texts <- Values, account <- AbstractAccount

\* The account implements the list it promises: loading changes nothing the user
\* can see, and an operation changes the decrypted copies exactly as it would
\* change a plain list, for entries stored by older versions (plain text) and
\* entries sealed earlier alike.
ImplementsPasswordList == Promised!Spec

\* userAccount.cpp:365-366, the fallback of decrypted_copy: "Wrong key file or a
\* corrupted value. Show an empty password rather than ciphertext".
NoCiphertextShown ==
    \A id \in pass_id_map : DataCopy[id][PasswordField].layers = <<>>
=============================================================================
