------------------------- MODULE UserAccountProofs -------------------------
(***************************************************************************)
(* Theorems of UserAccount for every value of its constants.                *)
(***************************************************************************)
EXTENDS UserAccount, SequenceTheorems, TLAPS

------------------------------------------------------------------------------
\* Values and passwords.

\* encrypt_for_storage returns a value, and one its own key opens.
LEMMA SealedValue ==
    ASSUME NEW key \in Keys, NEW value \in Values
    PROVE  /\ EncryptForStorage(key, value) \in Values
           /\ TryDecrypt(key, EncryptForStorage(key, value))
  BY DEF EncryptForStorage, TryDecrypt, Encrypted, Values

\* A stored password is a password, sealed, with the fields of the request.
LEMMA StoredPassword ==
    ASSUME NEW new \in Password
    PROVE  /\ Stored(new) \in Password
           /\ TryDecrypt(cipher, Stored(new)[PasswordField])
           /\ \A f \in IndexedFields : Stored(new)[f] = new[f]
  <1>1. /\ PasswordField \in Fields
        /\ PasswordField \notin IndexedFields
        /\ IndexedFields \subseteq Fields
        /\ cipher \in Keys
    BY UserAccountAssumption
  <1>2. new[PasswordField] \in Values
    BY <1>1 DEF Password
  <1>3. Stored(new) = [new EXCEPT ![PasswordField] = EncryptForStorage(cipher, new[PasswordField])]
    BY DEF Stored
  <1>4. EncryptForStorage(cipher, new[PasswordField]) \in Values
    BY <1>1, <1>2, SealedValue
  <1>5. TryDecrypt(cipher, EncryptForStorage(cipher, new[PasswordField]))
    BY <1>1, <1>2, SealedValue
  <1> QED
    BY <1>1, <1>3, <1>4, <1>5 DEF Password

------------------------------------------------------------------------------
\* The inductive invariant.

\* Ids only grow, so an id is never given out twice: what is live or waiting for
\* its DELETE is at most the last id, and a row not added yet is neither.
IdsGrow ==
    /\ \A id \in pass_id_map : id <= current_password_id
    /\ \A i \in DOMAIN removed_ids : removed_ids[i] <= current_password_id
    /\ pass_id_map \cap DOMAIN initial_user_data = {}
    /\ ~Loaded => removed_ids = <<>>

IInv ==
    /\ TypeOK
    /\ IndexExact
    /\ NoObjectOutlivesItsEntry
    /\ SealedAtRest
    /\ RemovedStaysRemoved
    /\ IdsGrow

\* The constructor starts from empty maps.
LEMMA InitIInv == Init => IInv
  <1> SUFFICES ASSUME Init PROVE IInv
    OBVIOUS
  <1> USE DEF Init
  <1>1. /\ object = <<>> /\ DOMAIN object = {}
        /\ removed_ids = <<>> /\ DOMAIN removed_ids = {} /\ removed_ids \in Seq(Nat)
        /\ \A f \in IndexedFields : DOMAIN index[f] = {}
        /\ DOMAIN index = IndexedFields
        /\ pass_id_map = {}
    OBVIOUS
  <1>2. current_password_id \in Nat
    BY UserAccountAssumption
  <1>3. /\ DOMAIN initial_user_data \subseteq Nat
        /\ \A id \in DOMAIN initial_user_data : initial_user_data[id] \in Password
    BY UserAccountAssumption
  <1>4. TypeOK
    BY <1>1, <1>2, <1>3 DEF TypeOK
  <1>5. IndexExact /\ NoObjectOutlivesItsEntry /\ SealedAtRest
    BY <1>1 DEF IndexExact, NoObjectOutlivesItsEntry, SealedAtRest
  <1>6. RemovedStaysRemoved /\ IdsGrow
    BY <1>1 DEF RemovedStaysRemoved, IdsGrow
  <1> QED
    BY <1>4, <1>5, <1>6 DEF IInv

\* Adding an object under a new id keeps every map exact, whoever adds it: the
\* constructor for a row of the table or add_password for the GUI.
LEMMA InsertIInv ==
    ASSUME TypeOK, IndexExact, NoObjectOutlivesItsEntry, SealedAtRest,
           NEW id \in Nat, id \notin pass_id_map,
           NEW new \in Password,
           Insert(id, new)
    PROVE  /\ DOMAIN object' = DOMAIN object \cup {id}
           /\ DOMAIN object' \subseteq Nat
           /\ \A i \in DOMAIN object' : object'[i] \in Password
           /\ pass_id_map' = pass_id_map \cup {id}
           /\ DOMAIN index' = IndexedFields
           /\ \A f \in IndexedFields :
                 /\ DOMAIN index'[f] \subseteq Values
                 /\ \A key \in DOMAIN index'[f] : index'[f][key] \subseteq Nat
           /\ IndexExact'
           /\ NoObjectOutlivesItsEntry'
           /\ SealedAtRest'
  <1>1. /\ Stored(new) \in Password
        /\ TryDecrypt(cipher, Stored(new)[PasswordField])
        /\ \A f \in IndexedFields : Stored(new)[f] = new[f]
    BY StoredPassword
  <1>2. /\ DOMAIN object = pass_id_map
        /\ DOMAIN object' = DOMAIN object \cup {id}
        /\ object'[id] = Stored(new)
        /\ \A i \in DOMAIN object : object'[i] = object[i]
        /\ pass_id_map' = pass_id_map \cup {id}
    BY DEF Insert, Put, NoObjectOutlivesItsEntry
  <1>3. \A i \in DOMAIN object' : object'[i] \in Password /\ i \in Nat
    BY <1>1, <1>2 DEF TypeOK
  <1>4. SealedAtRest'
    BY <1>1, <1>2 DEF SealedAtRest
  <1>5. NoObjectOutlivesItsEntry'
    BY <1>2 DEF NoObjectOutlivesItsEntry
  <1>6. ASSUME NEW f \in IndexedFields
        PROVE  /\ new[f] \in Values
               /\ DOMAIN index'[f] = DOMAIN index[f] \cup {new[f]}
               /\ index'[f][new[f]] = Bucket(index[f], new[f]) \cup {id}
               /\ \A key \in DOMAIN index[f] : key # new[f] => index'[f][key] = index[f][key]
    BY UserAccountAssumption DEF Insert, PushBack, Put, Password
  <1>7. ASSUME NEW f \in IndexedFields
        PROVE  Bucket(index[f], new[f]) = {i \in pass_id_map : object[i][f] = new[f]}
    BY DEF Bucket, IndexExact
  <1>8. IndexExact'
    <2> SUFFICES ASSUME NEW f \in IndexedFields
                 PROVE  /\ \A key \in DOMAIN index'[f] :
                             index'[f][key] = {i \in pass_id_map' : object'[i][f] = key}
                        /\ \A i \in pass_id_map' : object'[i][f] \in DOMAIN index'[f]
      BY DEF IndexExact
    <2>1. object'[id][f] = new[f]
      BY <1>1, <1>2
    <2>2. ASSUME NEW key \in DOMAIN index'[f]
          PROVE  index'[f][key] = {i \in pass_id_map' : object'[i][f] = key}
      <3>1. CASE key = new[f]
        BY <1>2, <1>6, <1>7, <2>1, <3>1
      <3>2. CASE key # new[f]
        <4>1. key \in DOMAIN index[f] /\ index'[f][key] = index[f][key]
          BY <1>6, <3>2
        <4>2. index[f][key] = {i \in pass_id_map : object[i][f] = key}
          BY <4>1 DEF IndexExact
        <4> QED
          BY <1>2, <2>1, <3>2, <4>1, <4>2
      <3> QED
        BY <3>1, <3>2
    <2>3. ASSUME NEW i \in pass_id_map' PROVE object'[i][f] \in DOMAIN index'[f]
      <3>1. CASE i = id
        BY <1>6, <2>1, <3>1
      <3>2. CASE i \in pass_id_map
        BY <1>2, <1>6, <3>2 DEF IndexExact
      <3> QED
        BY <1>2, <3>1, <3>2
    <2> QED
      BY <2>2, <2>3
  <1>9. ASSUME NEW f \in IndexedFields
        PROVE  /\ DOMAIN index'[f] \subseteq Values
               /\ \A key \in DOMAIN index'[f] : index'[f][key] \subseteq Nat
    <2>1. DOMAIN index'[f] \subseteq Values
      BY <1>6 DEF TypeOK
    <2>2. \A key \in DOMAIN index'[f] : index'[f][key] \subseteq pass_id_map'
      BY <1>8 DEF IndexExact
    <2> QED
      BY <1>2, <1>3, <2>1, <2>2
  <1>10. DOMAIN index' = IndexedFields
    BY DEF Insert
  <1> QED
    BY <1>2, <1>3, <1>4, <1>5, <1>8, <1>9, <1>10

\* A removal takes the id out of every bucket, and with the last reference goes
\* the object.
LEMMA RemoveIInv ==
    ASSUME IInv, NEW id \in pass_id_map, RemovePassword(id)
    PROVE  IInv'
  <1>1. /\ pass_id_map' = pass_id_map \ {id}
        /\ UNCHANGED <<current_password_id, initial_user_data>>
        /\ removed_ids' = Append(removed_ids, id)
        /\ Loaded
    BY DEF RemovePassword
  <1>2. DOMAIN object = pass_id_map /\ DOMAIN object \subseteq Nat
    BY DEF IInv, NoObjectOutlivesItsEntry, TypeOK
  <1>3. ASSUME NEW f \in IndexedFields
        PROVE  /\ DOMAIN index'[f] = DOMAIN index[f]
               /\ \A key \in DOMAIN index[f] : index'[f][key] = index[f][key] \ {id}
    <2>1. index'[f] = Erase(index[f], object[id][f], id)
      BY DEF RemovePassword
    <2>2. /\ object[id][f] \in DOMAIN index[f]
          /\ \A key \in DOMAIN index[f] : key # object[id][f] => id \notin index[f][key]
      BY DEF IInv, IndexExact
    <2> QED
      BY <2>1, <2>2 DEF Erase
  <1>4. ASSUME NEW i \in DOMAIN object
        PROVE  Referenced(i, pass_id_map', index') <=> i # id
    BY <1>1, <1>2, <1>3 DEF Referenced
  <1>5. /\ DOMAIN object' = pass_id_map'
        /\ \A i \in pass_id_map' : object'[i] = object[i]
    BY <1>1, <1>2, <1>4 DEF RemovePassword, Restrict
  <1>6. TypeOK'
    <2>1. removed_ids' \in Seq(Nat)
      BY <1>1, <1>2 DEF IInv, TypeOK
    <2>2. DOMAIN index' = IndexedFields
      BY DEF RemovePassword
    <2>3. \A f \in IndexedFields :
             /\ DOMAIN index'[f] \subseteq Values
             /\ \A key \in DOMAIN index'[f] : index'[f][key] \subseteq Nat
      BY <1>3 DEF IInv, TypeOK
    <2> QED
      BY <1>1, <1>2, <1>5, <2>1, <2>2, <2>3 DEF IInv, TypeOK
  <1>7. IndexExact'
    BY <1>1, <1>3, <1>5 DEF IInv, IndexExact
  <1>8. NoObjectOutlivesItsEntry' /\ SealedAtRest'
    BY <1>1, <1>2, <1>5 DEF IInv, NoObjectOutlivesItsEntry, SealedAtRest
  <1>9. /\ removed_ids \in Seq(Nat)
        /\ id \in Nat
        /\ Len(removed_ids') = Len(removed_ids) + 1
        /\ removed_ids'[Len(removed_ids) + 1] = id
        /\ \A i \in 1 .. Len(removed_ids) : removed_ids'[i] = removed_ids[i]
        /\ DOMAIN removed_ids' = 1 .. Len(removed_ids) + 1
        /\ DOMAIN removed_ids = 1 .. Len(removed_ids)
    BY <1>1, <1>2 DEF IInv, TypeOK
  <1>10. RemovedStaysRemoved'
    BY <1>1, <1>9 DEF IInv, RemovedStaysRemoved
  <1>11. IdsGrow'
    BY <1>1, <1>9 DEF IInv, IdsGrow, Loaded
  <1> QED
    BY <1>6, <1>7, <1>8, <1>10, <1>11 DEF IInv

\* move_index_entry takes the id from the bucket of the old value to that of the
\* new one and leaves every other bucket as it was.
LEMMA MovedBuckets ==
    ASSUME NEW buckets, NEW old_key \in DOMAIN buckets, NEW new_key, NEW id,
           id \in buckets[old_key], old_key # new_key,
           NEW moved, moved = Moved(buckets, old_key, new_key, id)
    PROVE  /\ DOMAIN moved \subseteq DOMAIN buckets \cup {new_key}
           /\ \A key \in DOMAIN buckets :
                 key \notin DOMAIN moved => buckets[key] \ {id} = {} /\ key = old_key
           /\ new_key \in DOMAIN moved
           /\ moved[new_key] = Bucket(buckets, new_key) \cup {id}
           /\ \A key \in DOMAIN moved : key # new_key =>
                 moved[key] = IF key = old_key THEN buckets[key] \ {id} ELSE buckets[key]
  <1> DEFINE left == Bucket(buckets, old_key) \ {id}
             rest == IF left = {} THEN Without(buckets, {old_key})
                                  ELSE Put(buckets, old_key, left)
  <1>1. moved = PushBack(rest, new_key, id)
    BY DEF Moved
  <1>2. left = buckets[old_key] \ {id}
    BY DEF Bucket
  <1>3. /\ DOMAIN rest \subseteq DOMAIN buckets
        /\ \A key \in DOMAIN buckets : key \notin DOMAIN rest => left = {} /\ key = old_key
        /\ \A key \in DOMAIN rest : rest[key] = IF key = old_key THEN left ELSE buckets[key]
    BY <1>2 DEF Without, Restrict, Put
  <1>4. Bucket(rest, new_key) = Bucket(buckets, new_key)
    BY <1>3 DEF Bucket
  <1> HIDE DEF left, rest
  <1>5. /\ DOMAIN PushBack(rest, new_key, id) = DOMAIN rest \cup {new_key}
        /\ PushBack(rest, new_key, id)[new_key] = Bucket(buckets, new_key) \cup {id}
        /\ \A key \in DOMAIN rest : key # new_key => PushBack(rest, new_key, id)[key] = rest[key]
    BY <1>4 DEF PushBack, Put
  <1> QED
    BY <1>1, <1>2, <1>3, <1>5

\* A modification keeps the object sealed and moves it to the bucket of each new
\* value.
LEMMA ModifyIInv ==
    ASSUME IInv, NEW id \in pass_id_map, NEW update \in Submitted, ModifyPassword(id, update)
    PROVE  IInv'
  <1> DEFINE sealed == IF update[PasswordField] = Empty THEN update ELSE Stored(update)
  <1>1. /\ pass_id_map' = pass_id_map
        /\ removed_ids' = removed_ids
        /\ UNCHANGED <<current_password_id, initial_user_data>>
        /\ DOMAIN object' = DOMAIN object
        /\ object'[id] = Updated(object[id], sealed)
        /\ \A i \in DOMAIN object : i # id => object'[i] = object[i]
        /\ DOMAIN index' = IndexedFields
    BY DEF ModifyPassword, IInv, TypeOK
  <1>2. /\ DOMAIN object = pass_id_map
        /\ object[id] \in Password
        /\ update \in Password
        /\ sealed \in Password
        /\ TryDecrypt(cipher, object[id][PasswordField])
        /\ PasswordField \in Fields /\ IndexedFields \subseteq Fields
        /\ PasswordField \notin IndexedFields
    BY StoredPassword, UserAccountAssumption
    DEF IInv, NoObjectOutlivesItsEntry, TypeOK, SealedAtRest
  <1>3. object'[id] \in Password
    BY <1>1, <1>2 DEF Updated, Password
  <1>4. TryDecrypt(cipher, object'[id][PasswordField])
    <2>1. object'[id][PasswordField] = IF sealed[PasswordField] = Empty
                                       THEN object[id][PasswordField]
                                       ELSE sealed[PasswordField]
      BY <1>1, <1>2 DEF Updated
    <2>2. update[PasswordField] = Empty \/ TryDecrypt(cipher, sealed[PasswordField])
      BY <1>2, StoredPassword
    <2> QED
      BY <1>2, <2>1, <2>2
  <1>5. ASSUME NEW f \in IndexedFields
        PROVE  object'[id][f] = IF update[f] = Empty THEN object[id][f] ELSE update[f]
    BY <1>1, <1>2, StoredPassword DEF Updated
  <1>6. ASSUME NEW f \in IndexedFields
        PROVE  /\ DOMAIN index'[f] \subseteq Values
               /\ \A key \in DOMAIN index'[f] :
                     index'[f][key] = {i \in pass_id_map : object'[i][f] = key}
               /\ \A i \in pass_id_map : object'[i][f] \in DOMAIN index'[f]
    <2>1. /\ DOMAIN index[f] \subseteq Values
          /\ \A key \in DOMAIN index[f] : index[f][key] = {i \in pass_id_map : object[i][f] = key}
          /\ \A i \in pass_id_map : object[i][f] \in DOMAIN index[f]
      BY DEF IInv, TypeOK, IndexExact
    <2>2. CASE update[f] = Empty
      <3>1. index'[f] = index[f]
        BY <2>2 DEF ModifyPassword
      <3>2. \A i \in pass_id_map : object'[i][f] = object[i][f]
        BY <1>1, <1>2, <1>5, <2>2
      <3> QED
        BY <2>1, <3>1, <3>2
    <2>3. CASE update[f] # Empty /\ object[id][f] = update[f]
      <3>1. index'[f] = index[f]
        BY <2>3 DEF ModifyPassword, Moved
      <3>2. \A i \in pass_id_map : object'[i][f] = object[i][f]
        BY <1>1, <1>2, <1>5, <2>3
      <3> QED
        BY <2>1, <3>1, <3>2
    <2>4. CASE update[f] # Empty /\ object[id][f] # update[f]
      <3> DEFINE old == object[id][f]
                 new == update[f]
      <3>1. index'[f] = Moved(index[f], old, new, id)
        BY <2>4 DEF ModifyPassword
      <3>2. old \in DOMAIN index[f] /\ id \in index[f][old] /\ old # new
        BY <2>1, <2>4
      <3>3. new \in Values
        BY <1>2 DEF Password
      <3>4. Bucket(index[f], new) = {i \in pass_id_map : object[i][f] = new}
        BY <2>1 DEF Bucket
      <3>5. object'[id][f] = new /\ \A i \in pass_id_map \ {id} : object'[i][f] = object[i][f]
        BY <1>1, <1>2, <1>5, <2>4
      <3>6. /\ DOMAIN index'[f] \subseteq DOMAIN index[f] \cup {new}
            /\ \A key \in DOMAIN index[f] :
                  key \notin DOMAIN index'[f] => index[f][key] \ {id} = {} /\ key = old
            /\ new \in DOMAIN index'[f]
            /\ index'[f][new] = Bucket(index[f], new) \cup {id}
            /\ \A key \in DOMAIN index'[f] : key # new =>
                  index'[f][key] = IF key = old THEN index[f][key] \ {id} ELSE index[f][key]
        <4> HIDE DEF old, new
        <4> DEFINE buckets == index[f]
                   moved == index'[f]
        <4>1. moved = Moved(buckets, old, new, id) /\ old \in DOMAIN buckets
              /\ id \in buckets[old] /\ old # new
          BY <3>1, <3>2
        <4> HIDE DEF buckets, moved
        <4>2. /\ DOMAIN moved \subseteq DOMAIN buckets \cup {new}
              /\ \A key \in DOMAIN buckets :
                    key \notin DOMAIN moved => buckets[key] \ {id} = {} /\ key = old
              /\ new \in DOMAIN moved /\ moved[new] = Bucket(buckets, new) \cup {id}
              /\ \A key \in DOMAIN moved : key # new =>
                    moved[key] = IF key = old THEN buckets[key] \ {id} ELSE buckets[key]
          BY <4>1, MovedBuckets
        <4> QED
          BY <4>2 DEF buckets, moved
      <3> HIDE DEF old, new
      <3>7. ASSUME NEW key \in DOMAIN index'[f]
            PROVE  index'[f][key] = {i \in pass_id_map : object'[i][f] = key}
        <4>1. CASE key = new
          BY <3>4, <3>5, <3>6, <4>1
        <4>2. CASE key # new
          <5>1. key \in DOMAIN index[f]
            BY <3>6, <4>2
          <5>2. index[f][key] = {i \in pass_id_map : object[i][f] = key}
            BY <2>1, <5>1
          <5>3. CASE key = old
            BY <3>5, <3>6, <4>2, <5>2, <5>3
          <5>4. CASE key # old
            <6>1. object[id][f] # key /\ object'[id][f] # key
              BY <3>5, <4>2, <5>4 DEF old
            <6>2. index'[f][key] = {i \in pass_id_map : object[i][f] = key}
              BY <3>6, <4>2, <5>2, <5>4
            <6>3. \A i \in pass_id_map : object'[i][f] = key <=> object[i][f] = key
              BY <3>5, <6>1
            <6> QED
              BY <6>2, <6>3
          <5> QED
            BY <5>3, <5>4
        <4> QED
          BY <4>1, <4>2
      <3>8. ASSUME NEW i \in pass_id_map PROVE object'[i][f] \in DOMAIN index'[f]
        <4>1. CASE i = id
          BY <3>5, <3>6, <4>1
        <4>2. CASE i # id
          BY <2>1, <3>5, <3>6, <4>2
        <4> QED
          BY <4>1, <4>2
      <3> QED
        BY <2>1, <3>3, <3>6, <3>7, <3>8
    <2> QED
      BY <2>2, <2>3, <2>4
  <1>7. TypeOK'
    <2>1. \A i \in DOMAIN object' : object'[i] \in Password
      BY <1>1, <1>3 DEF IInv, TypeOK
    <2>2. \A f \in IndexedFields : \A key \in DOMAIN index'[f] : index'[f][key] \subseteq Nat
      BY <1>6 DEF IInv, TypeOK
    <2> QED
      BY <1>1, <1>6, <2>1, <2>2 DEF IInv, TypeOK
  <1>8. IndexExact'
    BY <1>1, <1>6 DEF IndexExact
  <1>9. NoObjectOutlivesItsEntry' /\ SealedAtRest'
    BY <1>1, <1>4 DEF IInv, NoObjectOutlivesItsEntry, SealedAtRest
  <1>10. RemovedStaysRemoved' /\ IdsGrow'
    BY <1>1 DEF IInv, RemovedStaysRemoved, IdsGrow, Loaded
  <1> QED
    BY <1>7, <1>8, <1>9, <1>10 DEF IInv

\* Every step keeps the invariant: one lemma per operation.
LEMMA NextIInv == IInv /\ [Next]_vars => IInv'
  <1> SUFFICES ASSUME IInv, [Next]_vars PROVE IInv'
    OBVIOUS
  <1>1. CASE LoadRow
    <2>1. PICK id \in DOMAIN initial_user_data :
             /\ Insert(id, initial_user_data[id])
             /\ current_password_id' = Maximum(current_password_id, id)
             /\ initial_user_data' = Without(initial_user_data, {id})
             /\ removed_ids' = removed_ids
      BY <1>1 DEF LoadRow
    <2>2. /\ id \in Nat
          /\ initial_user_data[id] \in Password
          /\ id \notin pass_id_map
          /\ pass_id_map \subseteq Nat
          /\ current_password_id \in Nat
          /\ removed_ids = <<>>
      BY DEF IInv, TypeOK, IdsGrow, Loaded
    <2>3. /\ current_password_id' \in Nat
          /\ current_password_id <= current_password_id'
          /\ id <= current_password_id'
      BY <2>1, <2>2 DEF Maximum
    <2>4. /\ DOMAIN initial_user_data' = DOMAIN initial_user_data \ {id}
          /\ \A i \in DOMAIN initial_user_data' : initial_user_data'[i] = initial_user_data[i]
      BY <2>1 DEF Without, Restrict
    <2>5. /\ DOMAIN object' \subseteq Nat
          /\ \A i \in DOMAIN object' : object'[i] \in Password
          /\ DOMAIN object' = DOMAIN object \cup {id}
          /\ pass_id_map' = pass_id_map \cup {id}
          /\ DOMAIN index' = IndexedFields
          /\ \A f \in IndexedFields :
                /\ DOMAIN index'[f] \subseteq Values
                /\ \A key \in DOMAIN index'[f] : index'[f][key] \subseteq Nat
          /\ IndexExact' /\ NoObjectOutlivesItsEntry' /\ SealedAtRest'
      BY <2>1, <2>2, InsertIInv DEF IInv
    <2>6. TypeOK'
      BY <2>1, <2>3, <2>4, <2>5 DEF IInv, TypeOK
    <2>7. RemovedStaysRemoved'
      BY <2>1, <2>2 DEF RemovedStaysRemoved
    <2>8. IdsGrow'
      <3>1. \A i \in pass_id_map' : i <= current_password_id'
        BY <2>2, <2>3, <2>5 DEF IInv, IdsGrow
      <3>2. removed_ids' = <<>> /\ DOMAIN removed_ids' = {}
        BY <2>1, <2>2
      <3>3. pass_id_map' \cap DOMAIN initial_user_data' = {}
        BY <2>4, <2>5 DEF IInv, IdsGrow
      <3> QED
        BY <3>1, <3>2, <3>3 DEF IdsGrow
    <2> QED
      BY <2>5, <2>6, <2>7, <2>8 DEF IInv
  <1>2. ASSUME NEW new \in Submitted, AddPassword(new) PROVE IInv'
    <2> DEFINE id == current_password_id + 1
    <2>1. /\ Loaded
          /\ Insert(id, new)
          /\ current_password_id' = id
          /\ removed_ids' = removed_ids
          /\ initial_user_data' = initial_user_data
      BY <1>2 DEF AddPassword
    <2>2. /\ id \in Nat
          /\ current_password_id \in Nat /\ current_password_id < id
          /\ new \in Password
          /\ id \notin pass_id_map
          /\ pass_id_map \subseteq Nat
      BY UserAccountAssumption DEF IInv, TypeOK, IdsGrow
    <2>3. \A i \in DOMAIN removed_ids : removed_ids[i] \in Nat /\ removed_ids[i] # id
      BY <2>2 DEF IInv, TypeOK, IdsGrow
    <2> HIDE DEF id
    <2>4. /\ DOMAIN object' \subseteq Nat
          /\ \A i \in DOMAIN object' : object'[i] \in Password
          /\ DOMAIN object' = DOMAIN object \cup {id}
          /\ pass_id_map' = pass_id_map \cup {id}
          /\ DOMAIN index' = IndexedFields
          /\ \A f \in IndexedFields :
                /\ DOMAIN index'[f] \subseteq Values
                /\ \A key \in DOMAIN index'[f] : index'[f][key] \subseteq Nat
          /\ IndexExact' /\ NoObjectOutlivesItsEntry' /\ SealedAtRest'
      BY <2>1, <2>2, InsertIInv DEF IInv
    <2>5. TypeOK'
      BY <2>1, <2>2, <2>4 DEF IInv, TypeOK
    <2>6. RemovedStaysRemoved'
      BY <2>1, <2>3, <2>4 DEF IInv, RemovedStaysRemoved
    <2>7. IdsGrow'
      BY <2>1, <2>2, <2>3, <2>4 DEF IInv, IdsGrow, Loaded
    <2> QED
      BY <2>4, <2>5, <2>6, <2>7 DEF IInv
  <1>3. ASSUME NEW id \in pass_id_map, RemovePassword(id) PROVE IInv'
    BY <1>3, RemoveIInv
  <1>4. ASSUME NEW id \in pass_id_map, NEW update \in Submitted, ModifyPassword(id, update)
        PROVE  IInv'
    BY <1>4, ModifyIInv
  <1>5. CASE GetRemovedIds
    <2>1. /\ removed_ids' = <<>>
          /\ UNCHANGED <<initial_user_data, object, pass_id_map, index, current_password_id>>
      BY <1>5 DEF GetRemovedIds
    <2> QED
      BY <2>1 DEF IInv, TypeOK, IndexExact, NoObjectOutlivesItsEntry, SealedAtRest,
                  RemovedStaysRemoved, IdsGrow, Loaded
  <1>6. CASE UNCHANGED vars
    BY <1>6 DEF vars, IInv, TypeOK, IndexExact, NoObjectOutlivesItsEntry, SealedAtRest,
                RemovedStaysRemoved, IdsGrow, Loaded
  <1> QED
    BY <1>1, <1>2, <1>3, <1>4, <1>5, <1>6 DEF Next

------------------------------------------------------------------------------
\* The theorems.

\* The strengthened invariant holds in every behaviour of the account.
THEOREM Invariance == Spec => []IInv
  BY InitIInv, NextIInv, PTL DEF Spec

\* Every variable keeps its shape.
THEOREM TypeCorrect == Spec => []TypeOK
  <1>1. IInv => TypeOK
    BY DEF IInv
  <1> QED
    BY <1>1, Invariance, PTL

\* Whatever is added, removed and modified, each lookup map holds exactly the
\* entries of the account, each under its current value.
THEOREM LookupMapsExact == Spec => []IndexExact
  <1>1. IInv => IndexExact
    BY DEF IInv
  <1> QED
    BY <1>1, Invariance, PTL

\* The object of a password, with its ciphertext, is freed with its entry: no lookup map
\* that remove_password missed keeps it.
THEOREM RemovedObjectsFreed == Spec => []NoObjectOutlivesItsEntry
  <1>1. IInv => NoObjectOutlivesItsEntry
    BY DEF IInv
  <1> QED
    BY <1>1, Invariance, PTL

\* A search finds the entries that match, all of them, and nothing else.
THEOREM SearchCorrect == Spec => []SearchExact
  <1>1. IInv => SearchExact
    <2> SUFFICES ASSUME IInv, NEW needle \in Needles
                 PROVE  LET found == {id \in pass_id_map :
                                        /\ needle # NoNeedle
                                        /\ \E f \in IndexedFields :
                                              object[id][f] \in Matches[needle]}
                        IN  Search(needle) = [id \in found |-> DataCopy[id]]
      BY DEF SearchExact
    <2> DEFINE found == {id \in pass_id_map :
                           /\ needle # NoNeedle
                           /\ \E f \in IndexedFields : object[id][f] \in Matches[needle]}
               hits == {id \in DOMAIN object :
                          /\ needle # NoNeedle
                          /\ \E f \in IndexedFields :
                               \E key \in DOMAIN index[f] :
                                  key \in Matches[needle] /\ id \in index[f][key]}
    <2>1. DOMAIN object = pass_id_map
      BY DEF IInv, NoObjectOutlivesItsEntry
    <2>2. ASSUME NEW id \in pass_id_map, NEW f \in IndexedFields
          PROVE  (\E key \in DOMAIN index[f] : key \in Matches[needle] /\ id \in index[f][key])
                    <=> object[id][f] \in Matches[needle]
      BY DEF IInv, IndexExact
    <2>3. hits = found
      BY <2>1, <2>2
    <2>4. \A id \in found : DataCopy[id] = DecryptedCopy(object[id])
      BY DEF DataCopy
    <2> QED
      BY <2>3, <2>4 DEF Search
  <1> QED
    BY <1>1, Invariance, PTL

\* Every password in memory is sealed with the account's own key, so the
\* data-store thread never copies out plain text.
THEOREM PasswordsSealed == Spec => []SealedAtRest
  <1>1. IInv => SealedAtRest
    BY DEF IInv
  <1> QED
    BY <1>1, Invariance, PTL

\* An id queued for its DELETE never names an entry again.
THEOREM RemovedIdsDead == Spec => []RemovedStaysRemoved
  <1>1. IInv => RemovedStaysRemoved
    BY DEF IInv
  <1> QED
    BY <1>1, Invariance, PTL

------------------------------------------------------------------------------
\* The account implements the list it promises.

\* Opening what encrypt makes gives the value back.
LEMMA DecryptedEncrypted ==
    ASSUME NEW key \in Keys, NEW value \in Values
    PROVE  Decrypted(Encrypted(key, value)) = value
  <1> DEFINE layers == value.layers
             n == Len(layers)
  <1>1. layers \in Seq(Keys) /\ n \in Nat /\ value = [layers |-> layers, text |-> value.text]
    BY DEF Values
  <1>2. /\ Append(layers, key) \in Seq(Keys)
        /\ Len(Append(layers, key)) = n + 1
        /\ \A i \in 1 .. n : Append(layers, key)[i] = layers[i]
    BY <1>1
  <1>3. SubSeq(Append(layers, key), 1, n) = layers
    <2>1. \A i \in 1 .. n : Append(layers, key)[i] \in Keys
      BY <1>1, <1>2
    <2>2. /\ SubSeq(Append(layers, key), 1, n) \in Seq(Keys)
          /\ Len(SubSeq(Append(layers, key), 1, n)) = n
          /\ \A i \in 1 .. n : SubSeq(Append(layers, key), 1, n)[i] = Append(layers, key)[i]
      BY <1>1, <2>1, SubSeqProperties
    <2> QED
      BY <1>1, <1>2, <2>2, SeqEqual
  <1>4. Encrypted(key, value) = [layers |-> Append(layers, key), text |-> value.text]
    BY DEF Encrypted
  <1>5. (n + 1) - 1 = n
    BY <1>1
  <1>6. Decrypted(Encrypted(key, value)) = [layers |-> SubSeq(Append(layers, key), 1, n), text |-> value.text]
    BY <1>2, <1>4, <1>5 DEF Decrypted
  <1> QED
    BY <1>1, <1>3, <1>6

\* A stored password is handed out as it was submitted, opened once if it came
\* sealed.
LEMMA StoredHandedOut ==
    ASSUME NEW new \in Password
    PROVE  DecryptedCopy(Stored(new)) = Opened(new)
  <1> DEFINE value == new[PasswordField]
             kept == EncryptForStorage(cipher, value)
  <1>1. /\ PasswordField \in Fields
        /\ cipher \in Keys
        /\ value \in Values
    BY UserAccountAssumption DEF Password
  <1>2. TryDecrypt(cipher, kept)
    BY <1>1, SealedValue
  <1>3. Shown(cipher, kept, Empty) = Decrypted(kept)
    BY <1>2 DEF Shown
  <1>4. Decrypted(kept) = IF TryDecrypt(cipher, value) THEN Decrypted(value) ELSE value
    BY <1>1, DecryptedEncrypted DEF EncryptForStorage
  <1>5. Stored(new) = [new EXCEPT ![PasswordField] = kept]
    BY DEF Stored
  <1>6. DecryptedCopy(Stored(new)) =
           [new EXCEPT ![PasswordField] = Shown(cipher, kept, Empty)]
    BY <1>1, <1>5 DEF DecryptedCopy, Password
  <1>7. Opened(new) =
           [new EXCEPT ![PasswordField] =
               IF TryDecrypt(cipher, value) THEN Decrypted(value) ELSE value]
    BY DEF Opened
  <1> QED
    BY <1>3, <1>4, <1>6, <1>7

\* Opening a password gives a password.
LEMMA OpenedPassword ==
    ASSUME NEW new \in Password
    PROVE  Opened(new) \in Password
  <1> DEFINE value == new[PasswordField]
  <1>1. PasswordField \in Fields /\ value \in Values
    BY UserAccountAssumption DEF Password
  <1>2. ASSUME TryDecrypt(cipher, value) PROVE Decrypted(value) \in Values
    <2>1. /\ value.layers \in Seq(Keys)
          /\ Len(value.layers) - 1 \in Int
          /\ \A i \in 1 .. Len(value.layers) - 1 : value.layers[i] \in Keys
      BY <1>1 DEF Values
    <2>2. SubSeq(value.layers, 1, Len(value.layers) - 1) \in Seq(Keys)
      BY <2>1, SubSeqProperties
    <2> QED
      BY <1>1, <2>2 DEF Values, Decrypted
  <1>3. (IF TryDecrypt(cipher, value) THEN Decrypted(value) ELSE value) \in Values
    BY <1>1, <1>2
  <1>4. Opened(new) = [new EXCEPT ![PasswordField] =
                          IF TryDecrypt(cipher, value) THEN Decrypted(value) ELSE value]
    BY DEF Opened
  <1> HIDE DEF value
  <1> QED
    BY <1>3, <1>4 DEF Password

\* There is a last id, so LastId is it.
HasLast == \E last \in Ids : \A id \in Ids : id <= last

\* LastId is the largest id in sight, if there is one.
LEMMA LastIdIsLast ==
    ASSUME HasLast
    PROVE  LastId \in Ids /\ \A id \in Ids : id <= LastId
  BY DEF HasLast, LastId

\* An id that no other exceeds is LastId.
LEMMA LastIdUnique ==
    ASSUME Ids \subseteq Nat, NEW last \in Ids, \A id \in Ids : id <= last
    PROVE  HasLast /\ LastId = last
  <1>1. HasLast
    BY DEF HasLast
  <1>2. LastId \in Ids /\ last <= LastId /\ LastId <= last
    BY <1>1, LastIdIsLast
  <1> QED
    BY <1>1, <1>2

\* Once the rows are loaded the promised list is the decrypted copy of the
\* entries and the last id given out.
LEMMA LoadedAccount ==
    ASSUME IInv, Loaded
    PROVE  /\ AbstractAccount = [entries |-> DataCopy, last_id |-> current_password_id]
           /\ HasLast
  <1>1. Ids = {current_password_id} /\ current_password_id \in Nat
    BY DEF Ids, Loaded, IInv, TypeOK
  <1>2. LastId = current_password_id /\ HasLast
    BY <1>1, LastIdUnique
  <1>3. [id \in pass_id_map \cup DOMAIN initial_user_data |->
            IF id \in pass_id_map THEN DecryptedCopy(object[id])
                                  ELSE Opened(initial_user_data[id])] = DataCopy
    BY DEF Loaded, DataCopy
  <1> QED
    BY <1>2, <1>3 DEF AbstractAccount

\* The table read at login is the list the user left.
LEMMA InitRefines == Init => HasLast /\ Promised!Init
  <1> SUFFICES ASSUME Init PROVE HasLast /\ Promised!Init
    OBVIOUS
  <1>1. /\ pass_id_map = {}
        /\ initial_user_data \in InitialUserData
        /\ current_password_id \in MaxPasswordIds
        /\ current_password_id \in Nat
    BY UserAccountAssumption DEF Init
  <1>2. /\ DOMAIN initial_user_data \subseteq Nat
        /\ \A id \in DOMAIN initial_user_data : initial_user_data[id] \in Password
        /\ \E last \in DOMAIN initial_user_data \cup {current_password_id} :
              \A id \in DOMAIN initial_user_data \cup {current_password_id} : id <= last
    BY <1>1, UserAccountAssumption
  <1>3. HasLast
    BY <1>2 DEF HasLast, Ids
  <1>4. LastId \in Nat /\ \A id \in DOMAIN initial_user_data : id <= LastId
    BY <1>1, <1>2, <1>3, LastIdIsLast DEF Ids
  <1> DEFINE entries == [id \in pass_id_map \cup DOMAIN initial_user_data |->
                            IF id \in pass_id_map THEN DecryptedCopy(object[id])
                                                  ELSE Opened(initial_user_data[id])]
  <1>5. /\ DOMAIN entries = DOMAIN initial_user_data
        /\ entries \in [DOMAIN entries -> Password]
    BY <1>1, <1>2, OpenedPassword
  <1>6. AbstractAccount = [entries |-> entries, last_id |-> LastId]
    BY DEF AbstractAccount
  <1> HIDE DEF entries
  <1>7. DOMAIN entries \subseteq 0 .. LastId
    BY <1>2, <1>4, <1>5
  <1> QED
    BY <1>3, <1>4, <1>5, <1>6, <1>7
    DEF Promised!Init, Promised!IsList, Promised!Password, Password

\* Adding a row is invisible: it was part of the list already.
LEMMA LoadRowStutters ==
    ASSUME IInv, HasLast, LoadRow
    PROVE  HasLast' /\ AbstractAccount' = AbstractAccount
  <1>1. PICK id \in DOMAIN initial_user_data :
           /\ Insert(id, initial_user_data[id])
           /\ current_password_id' = Maximum(current_password_id, id)
           /\ initial_user_data' = Without(initial_user_data, {id})
    BY DEF LoadRow
  <1> DEFINE row == initial_user_data[id]
  <1>2. /\ DOMAIN initial_user_data \subseteq Nat
        /\ row \in Password
        /\ current_password_id \in Nat
        /\ pass_id_map \cap DOMAIN initial_user_data = {}
        /\ DOMAIN object = pass_id_map
    BY DEF IInv, TypeOK, IdsGrow, NoObjectOutlivesItsEntry
  <1>3. /\ DOMAIN initial_user_data' = DOMAIN initial_user_data \ {id}
        /\ \A i \in DOMAIN initial_user_data' : initial_user_data'[i] = initial_user_data[i]
    BY <1>1 DEF Without, Restrict
  <1>4. /\ pass_id_map' = pass_id_map \cup {id}
        /\ object'[id] = Stored(row)
        /\ \A i \in pass_id_map : object'[i] = object[i]
    BY <1>1, <1>2 DEF Insert, Put
  <1>5. HasLast' /\ LastId' = LastId
    <2>1. LastId \in Ids /\ \A i \in Ids : i <= LastId
      BY LastIdIsLast
    <2>2. /\ Ids = DOMAIN initial_user_data \cup {current_password_id}
          /\ Ids' = (DOMAIN initial_user_data \ {id}) \cup {Maximum(current_password_id, id)}
      BY <1>1, <1>3 DEF Ids
    <2>3. /\ Ids' \subseteq Nat
          /\ LastId \in Ids'
          /\ \A i \in Ids' : i <= LastId
      BY <1>2, <2>1, <2>2 DEF Maximum
    <2>4. \A last \in Ids' : (\A i \in Ids' : i <= last) => HasLast' /\ LastId' \in Ids' /\ \A i \in Ids' : i <= LastId'
      BY DEF HasLast, LastId
    <2>5. HasLast' /\ LastId' \in Ids' /\ LastId <= LastId' /\ LastId' <= LastId
      BY <2>3, <2>4
    <2> QED
      BY <2>3, <2>5
  <1> DEFINE entries == [i \in pass_id_map \cup DOMAIN initial_user_data |->
                            IF i \in pass_id_map THEN DecryptedCopy(object[i])
                                                 ELSE Opened(initial_user_data[i])]
  <1>6. DecryptedCopy(object'[id]) = Opened(row)
    BY <1>2, <1>4, StoredHandedOut
  <1>7. pass_id_map' \cup DOMAIN initial_user_data' = pass_id_map \cup DOMAIN initial_user_data
    BY <1>3, <1>4
  <1>8. ASSUME NEW i \in pass_id_map \cup DOMAIN initial_user_data
        PROVE  (IF i \in pass_id_map' THEN DecryptedCopy(object'[i])
                                      ELSE Opened(initial_user_data'[i]))
                 = IF i \in pass_id_map THEN DecryptedCopy(object[i])
                                        ELSE Opened(initial_user_data[i])
    BY <1>2, <1>3, <1>4, <1>6
  <1>9. entries' = entries
    BY <1>7, <1>8 DEF DecryptedCopy, Opened
  <1> QED
    BY <1>5, <1>9 DEF AbstractAccount

\* add_password is ADD on the promised list.
LEMMA AddRefines ==
    ASSUME IInv, IInv', NEW new \in Submitted, AddPassword(new)
    PROVE  HasLast' /\ Promised!Next
  <1> DEFINE id == current_password_id + 1
  <1>1. /\ Loaded /\ Loaded'
        /\ Insert(id, new)
        /\ current_password_id' = id
    BY DEF AddPassword, Loaded
  <1>2. /\ AbstractAccount = [entries |-> DataCopy, last_id |-> current_password_id]
        /\ AbstractAccount' = [entries |-> DataCopy', last_id |-> id]
        /\ HasLast'
    <2>1. (IInv /\ Loaded => AbstractAccount = [entries |-> DataCopy, last_id |-> current_password_id]
                             /\ HasLast)'
      BY LoadedAccount, PTL
    <2> QED
      BY <1>1, <2>1, LoadedAccount
  <1>3. /\ pass_id_map' = pass_id_map \cup {id}
        /\ DOMAIN object = pass_id_map
        /\ object'[id] = Stored(new)
        /\ \A i \in pass_id_map : i # id => object'[i] = object[i]
        /\ id \notin pass_id_map
    BY <1>1 DEF Insert, Put, IInv, NoObjectOutlivesItsEntry, TypeOK, IdsGrow
  <1>4. DecryptedCopy(Stored(new)) = new
    <2>1. new \in Password /\ ~TryDecrypt(cipher, new[PasswordField]) /\ PasswordField \in Fields
      BY UserAccountAssumption
    <2>2. Opened(new) = new
      BY <2>1 DEF Opened, Password
    <2> QED
      BY <2>1, <2>2, StoredHandedOut
  <1>5. DataCopy' = [i \in pass_id_map \cup {id} |-> IF i = id THEN new ELSE DataCopy[i]]
    BY <1>3, <1>4 DEF DataCopy, DecryptedCopy
  <1>6. DOMAIN DataCopy = pass_id_map
    BY DEF DataCopy
  <1> DEFINE op == [operation_type |-> "ADD", curr_password |-> new]
  <1>7. AbstractAccount' = Promised!Applied(AbstractAccount, op)
    BY <1>2, <1>5, <1>6 DEF Promised!Applied, Promised!AddTo, Promised!Put
  <1>8. op \in Promised!Operations(DOMAIN AbstractAccount.entries)
    BY DEF Promised!Operations
  <1> QED
    BY <1>2, <1>7, <1>8 DEF Promised!Next

\* remove_password is REMOVE on the promised list.
LEMMA RemoveRefines ==
    ASSUME IInv, IInv', NEW id \in pass_id_map, RemovePassword(id)
    PROVE  HasLast' /\ Promised!Next
  <1>1. /\ Loaded /\ Loaded'
        /\ pass_id_map' = pass_id_map \ {id}
        /\ current_password_id' = current_password_id
    BY DEF RemovePassword, Loaded
  <1>2. /\ AbstractAccount = [entries |-> DataCopy, last_id |-> current_password_id]
        /\ AbstractAccount' = [entries |-> DataCopy', last_id |-> current_password_id]
        /\ HasLast'
    <2>1. (IInv /\ Loaded => AbstractAccount = [entries |-> DataCopy, last_id |-> current_password_id]
                             /\ HasLast)'
      BY LoadedAccount, PTL
    <2> QED
      BY <1>1, <2>1, LoadedAccount
  <1>3. \A i \in pass_id_map' : object'[i] = object[i]
    <2>1. DOMAIN object' = pass_id_map'
      BY DEF IInv, NoObjectOutlivesItsEntry
    <2> QED
      BY <2>1 DEF RemovePassword, Restrict
  <1>4. DataCopy' = Promised!Without(DataCopy, {id})
    BY <1>1, <1>3 DEF DataCopy, Promised!Without, Promised!Restrict
  <1> DEFINE op == [operation_type |-> "REMOVE", p_id |-> id]
  <1>5. AbstractAccount' = Promised!Applied(AbstractAccount, op)
    BY <1>2, <1>4 DEF Promised!Applied, Promised!RemoveFrom
  <1>6. op \in Promised!Operations(DOMAIN AbstractAccount.entries)
    BY <1>2 DEF Promised!Operations, DataCopy
  <1> QED
    BY <1>2, <1>5, <1>6 DEF Promised!Next

\* modify_password is MODIFY on the promised list.
LEMMA ModifyRefines ==
    ASSUME IInv, IInv', NEW id \in pass_id_map, NEW update \in Submitted,
           ModifyPassword(id, update)
    PROVE  HasLast' /\ Promised!Next
  <1> DEFINE sealed == IF update[PasswordField] = Empty THEN update ELSE Stored(update)
  <1>1. /\ Loaded /\ Loaded'
        /\ pass_id_map' = pass_id_map
        /\ current_password_id' = current_password_id
    BY DEF ModifyPassword, Loaded
  <1>2. /\ AbstractAccount = [entries |-> DataCopy, last_id |-> current_password_id]
        /\ AbstractAccount' = [entries |-> DataCopy', last_id |-> current_password_id]
        /\ HasLast'
    <2>1. (IInv /\ Loaded => AbstractAccount = [entries |-> DataCopy, last_id |-> current_password_id]
                             /\ HasLast)'
      BY LoadedAccount, PTL
    <2> QED
      BY <1>1, <2>1, LoadedAccount
  <1>3. /\ DOMAIN object = pass_id_map
        /\ object'[id] = Updated(object[id], sealed)
        /\ \A i \in pass_id_map : i # id => object'[i] = object[i]
    BY DEF ModifyPassword, IInv, NoObjectOutlivesItsEntry
  <1>4. /\ object[id] \in Password
        /\ update \in Password
        /\ PasswordField \in Fields
        /\ ~TryDecrypt(cipher, update[PasswordField])
        /\ \A f \in Fields : f # PasswordField => sealed[f] = update[f]
        /\ Empty.layers = <<>>
    BY <1>3, UserAccountAssumption, StoredPassword DEF IInv, TypeOK
  <1>5. DecryptedCopy(Updated(object[id], sealed)) = Updated(DecryptedCopy(object[id]), update)
    <2> DEFINE before == object[id][PasswordField]
    <2>1. DecryptedCopy(Updated(object[id], sealed)) =
             [f \in Fields |-> IF f = PasswordField
                               THEN Shown(cipher, Updated(object[id], sealed)[f], Empty)
                               ELSE Updated(object[id], sealed)[f]]
      BY DEF DecryptedCopy, Updated
    <2>2. Updated(DecryptedCopy(object[id]), update) =
             [f \in Fields |-> IF update[f] = Empty
                               THEN IF f = PasswordField
                                    THEN Shown(cipher, before, Empty)
                                    ELSE object[id][f]
                               ELSE update[f]]
      BY <1>4 DEF DecryptedCopy, Updated, Password
    <2>3. ASSUME NEW f \in Fields, f # PasswordField
          PROVE  Updated(object[id], sealed)[f] = IF update[f] = Empty THEN object[id][f] ELSE update[f]
      BY <1>4, <2>3 DEF Updated
    <2>4. CASE update[PasswordField] = Empty
      <3>1. Updated(object[id], sealed)[PasswordField] = before
        BY <1>4, <2>4 DEF Updated
      <3> QED
        BY <1>4, <2>1, <2>2, <2>3, <2>4, <3>1
    <2>5. CASE update[PasswordField] # Empty
      <3>1. TryDecrypt(cipher, sealed[PasswordField])
        BY <1>4, <2>5, StoredPassword
      <3>2. sealed[PasswordField] # Empty
        <4>1. ~TryDecrypt(cipher, Empty)
          BY <1>4 DEF TryDecrypt
        <4> QED
          BY <3>1, <4>1
      <3>3. Updated(object[id], sealed)[PasswordField] = Stored(update)[PasswordField]
        BY <1>4, <2>5, <3>2 DEF Updated
      <3>4. DecryptedCopy(Stored(update)) = update
        <4>1. Opened(update) = update
          BY <1>4 DEF Opened, Password
        <4> QED
          BY <1>4, <4>1, StoredHandedOut
      <3>5. Shown(cipher, Stored(update)[PasswordField], Empty) = update[PasswordField]
        <4>1. DecryptedCopy(Stored(update))[PasswordField]
                 = Shown(cipher, Stored(update)[PasswordField], Empty)
          BY <1>4, StoredPassword DEF DecryptedCopy, Password
        <4> QED
          BY <3>4, <4>1
      <3> QED
        BY <1>4, <2>1, <2>2, <2>3, <2>5, <3>3, <3>5
    <2> QED
      BY <2>4, <2>5
  <1>6. DataCopy' = [DataCopy EXCEPT ![id] = Updated(DataCopy[id], update)]
    BY <1>1, <1>3, <1>5 DEF DataCopy, DecryptedCopy
  <1> DEFINE op == [operation_type |-> "MODIFY", p_id |-> id, curr_password |-> update]
  <1>7. AbstractAccount' = Promised!Applied(AbstractAccount, op)
    <2>1. id \in DOMAIN DataCopy
      BY DEF DataCopy
    <2>2. Promised!Applied(AbstractAccount, op)
             = [AbstractAccount EXCEPT !.entries[id] = Updated(DataCopy[id], update)]
      BY <1>2, <2>1 DEF Promised!Applied, Promised!ModifyIn, Promised!Updated, Updated
    <2> QED
      BY <1>2, <1>6, <2>1, <2>2
  <1>8. op \in Promised!Operations(DOMAIN AbstractAccount.entries)
    BY <1>2 DEF Promised!Operations, DataCopy
  <1> QED
    BY <1>2, <1>7, <1>8 DEF Promised!Next

\* Every step of the account is a step of the list, or one it does not see.
LEMMA StepRefines ==
    ASSUME IInv, IInv', HasLast, [Next]_vars
    PROVE  HasLast' /\ [Promised!Next]_AbstractAccount
  <1>1. CASE LoadRow
    BY <1>1, LoadRowStutters
  <1>2. ASSUME NEW new \in Submitted, AddPassword(new)
        PROVE  HasLast' /\ [Promised!Next]_AbstractAccount
    BY <1>2, AddRefines
  <1>3. ASSUME NEW id \in pass_id_map, RemovePassword(id)
        PROVE  HasLast' /\ [Promised!Next]_AbstractAccount
    BY <1>3, RemoveRefines
  <1>4. ASSUME NEW id \in pass_id_map, NEW update \in Submitted, ModifyPassword(id, update)
        PROVE  HasLast' /\ [Promised!Next]_AbstractAccount
    BY <1>4, ModifyRefines
  <1>5. CASE GetRemovedIds
    BY <1>5 DEF GetRemovedIds, HasLast, Ids, LastId, AbstractAccount, DecryptedCopy, Opened
  <1>6. CASE UNCHANGED vars
    BY <1>6 DEF vars, HasLast, Ids, LastId, AbstractAccount, DecryptedCopy, Opened
  <1> QED
    BY <1>1, <1>2, <1>3, <1>4, <1>5, <1>6 DEF Next

\* The account of maps, lookup indexes and ciphertexts implements the plain list:
\* loading the table is invisible, every operation changes what the user sees as
\* it would change the list, and reads of the store change nothing.
THEOREM AccountImplementsList == Spec => ImplementsPasswordList
  <1>1. Init => HasLast /\ Promised!Init
    BY InitRefines
  <1>2. IInv /\ IInv' /\ HasLast /\ [Next]_vars => HasLast' /\ [Promised!Next]_AbstractAccount
    BY StepRefines
  <1>3. Spec => []IInv
    BY Invariance
  <1> QED
    BY <1>1, <1>2, <1>3, PTL DEF Spec, ImplementsPasswordList, Promised!Spec
=============================================================================
