------------------------------ MODULE KeyFile ------------------------------
(***************************************************************************)
(* The key file of a database over the life of the application              *)
(* (Encryption::from_key_file, the constructor of UserAccount and the       *)
(* data-store cycle, as far as the ciphertexts go).  Instances of the       *)
(* application are started, killed and started again, possibly two at a     *)
(* time on one database; its user may lose the key file, and put a copy of  *)
(* it back.  The rows are those of one account.                             *)
(***************************************************************************)
EXTENDS Encryption, Functions

CONSTANTS
    Instances,        \* of the application
    Ids,              \* of the rows
    Empty,            \* the empty password
    Typed,            \* the passwords a user types
    Absent, Invalid,  \* no key file; one that does not hold a key
    NoKey,
    InitialFiles,     \* the key file when the first instance starts
    InitialRows,      \* the rows, then
    MaxSessions,      \* bound: starts of an instance
    MaxLosses         \* bound: times the user loses the key file

ASSUME KeyFileAssumption ==
    /\ Absent \notin Keys /\ Invalid \notin Keys /\ NoKey \notin Keys /\ Absent # Invalid
    /\ Empty \in Values /\ Typed \subseteq Values
    /\ \A typed \in Typed : typed.layers = <<>>
    /\ InitialFiles \subseteq Keys \cup {Absent, Invalid}
    /\ InitialRows \subseteq [Ids -> Values]
    /\ \A rows \in InitialRows, file \in InitialFiles : \A id \in Ids :
          \/ rows[id].layers = <<>>
          \/ Range(rows[id].layers) \subseteq {file} /\ TryDecrypt(file, rows[id])
    /\ MaxSessions \in Nat /\ MaxLosses \in Nat

VARIABLES
    key_file,   \* <db_path>.key
    pc,         \* where each instance is
    key,        \* the key each instance holds
    account,    \* its entries: id -> stored password
    db,         \* the rows: id -> stored password
    held,       \* the keys the file has held so far
    sessions, losses

vars == <<key_file, pc, key, account, db, held, sessions, losses>>

------------------------------------------------------------------------------
\* Encryption::from_key_file

Init ==
    /\ key_file \in InitialFiles
    /\ db \in InitialRows
    /\ pc = [i \in Instances |-> "off"]
    /\ key = [i \in Instances |-> NoKey]
    /\ account = [i \in Instances |-> <<>>]
    /\ held = {key_file} \cap Keys /\ sessions = 0 /\ losses = 0

Step(i, from, to) == pc[i] = from /\ pc' = [pc EXCEPT ![i] = to]

Start(i) ==
    /\ Step(i, "off", "exists")
    /\ sessions < MaxSessions
    /\ sessions' = sessions + 1
    /\ UNCHANGED <<key_file, key, account, db, held, losses>>

\* (fault) a file that does not hold a key counts as missing
FileExistsIfValid == key_file \in Keys

FileExists == key_file # Absent

\* fs::exists decides, before the file is opened.
CheckExists(i) ==
    /\ pc[i] = "exists"
    /\ pc' = [pc EXCEPT ![i] = IF FileExists THEN "read" ELSE "create"]
    /\ UNCHANGED <<key_file, key, account, db, held, sessions, losses>>

\* (fault) the digits are not checked
ReadKeyUnchecked(i) ==
    /\ Step(i, "read", "load")
    /\ key' = [key EXCEPT ![i] = key_file]
    /\ UNCHANGED <<key_file, account, db, held, sessions, losses>>

\* Anything but 64 hex digits is refused: from_key_file throws.
ReadKey(i) ==
    /\ pc[i] = "read"
    /\ IF key_file \in Keys
       THEN pc' = [pc EXCEPT ![i] = "load"] /\ key' = [key EXCEPT ![i] = key_file]
       ELSE pc' = [pc EXCEPT ![i] = "refused"] /\ key' = key
    /\ UNCHANGED <<key_file, account, db, held, sessions, losses>>

\* (fault) the key is used before the file holds it
CreateFileUsingKey(i) ==
    /\ Step(i, "create", "load")
    /\ \E new \in Keys \ (held \cup Range(key)) : key' = [key EXCEPT ![i] = new]
    /\ key_file' = Invalid
    /\ UNCHANGED <<account, db, held, sessions, losses>>

\* A new random key; opening the file with trunc creates or empties it.
CreateFile(i) ==
    /\ Step(i, "create", "write")
    /\ \E new \in Keys \ (held \cup Range(key)) : key' = [key EXCEPT ![i] = new]
    /\ key_file' = Invalid
    /\ UNCHANGED <<account, db, held, sessions, losses>>

WriteKey(i) ==
    /\ Step(i, "write", "load")
    /\ key_file' = key[i] /\ held' = held \cup {key[i]}
    /\ UNCHANGED <<key, account, db, sessions, losses>>

\* The write fails: from_key_file throws, the file stays as it is.
WriteFails(i) ==
    /\ Step(i, "write", "refused")
    /\ UNCHANGED <<key_file, key, account, db, held, sessions, losses>>

------------------------------------------------------------------------------
\* The session.

\* The constructor of UserAccount adds the rows it read.
Load(i) ==
    /\ Step(i, "load", "running")
    /\ account' = [account EXCEPT ![i] =
                      [id \in Ids |-> EncryptForStorage(key[i], db[id])]]
    /\ UNCHANGED <<key_file, key, db, held, sessions, losses>>

\* modify_password with what the user typed.
SavePassword(i, id, typed) ==
    /\ pc[i] = "running"
    /\ typed # Empty
    /\ account' = [account EXCEPT ![i][id] = EncryptForStorage(key[i], typed)]
    /\ UNCHANGED <<key_file, pc, key, db, held, sessions, losses>>

\* One INSERT OR REPLACE of the data-store thread.
StoreRow(i, id) ==
    /\ pc[i] = "running"
    /\ db' = [db EXCEPT ![id] = account[i][id]]
    /\ UNCHANGED <<key_file, pc, key, account, held, sessions, losses>>

\* The instance ends, from wherever it is: closed, killed, or having thrown.
End(i) ==
    /\ pc[i] # "off"
    /\ pc' = [pc EXCEPT ![i] = "off"]
    /\ key' = [key EXCEPT ![i] = NoKey]
    /\ account' = [account EXCEPT ![i] = <<>>]
    /\ UNCHANGED <<key_file, db, held, sessions, losses>>

------------------------------------------------------------------------------
\* What the user may do with the file, between sessions.

AllOff == \A i \in Instances : pc[i] = "off"

LoseKeyFile ==
    /\ AllOff /\ losses < MaxLosses
    /\ key_file # Absent
    /\ key_file' = Absent
    /\ losses' = losses + 1
    /\ UNCHANGED <<pc, key, account, db, held, sessions>>

\* A backup of a file that once was in place.
RestoreKeyFile ==
    /\ AllOff /\ losses > 0
    /\ key_file' \in held
    /\ UNCHANGED <<pc, key, account, db, held, sessions, losses>>

ApplicationStep(i) ==
    \/ Start(i) \/ CheckExists(i) \/ ReadKey(i)
    \/ CreateFile(i) \/ WriteKey(i) \/ WriteFails(i)
    \/ Load(i)
    \/ \E id \in Ids : StoreRow(i, id) \/ \E typed \in Typed : SavePassword(i, id, typed)
    \/ End(i)

Next ==
    \/ \E i \in Instances : ApplicationStep(i)
    \/ LoseKeyFile \/ RestoreKeyFile

Spec == Init /\ [][Next]_vars

------------------------------------------------------------------------------
\* Properties.

\* Every variable keeps its shape; an instance that runs holds a key.
TypeOK ==
    /\ key_file \in Keys \cup {Absent, Invalid}
    /\ \A i \in Instances :
          /\ pc[i] \in {"off", "exists", "read", "create", "write", "load", "running", "refused"}
          /\ key[i] \in Keys \cup {NoKey}
          /\ pc[i] \in {"write", "load", "running"} => key[i] \in Keys
          /\ pc[i] = "running" => \A id \in Ids : account[i][id] \in Values
    /\ \A id \in Ids : db[id] \in Values
    /\ held \subseteq Keys

\* README.md:62, "never overwritten after that", and encryption.hpp:59, "An existing
\* key file is never overwritten": an instance opens the file to write a new key only
\* while there is none, the answer of fs::exists being still true by then, and nothing
\* else changes it, save its user between sessions.  So a file that holds no key, such
\* as one whose creation was interrupted, waits for its user to repair it however often
\* the application is started (encryption.cpp:488-536).
KeyFileKept ==
    [][/\ \A i \in Instances : pc[i] = "create" /\ pc'[i] = "write" => key_file = Absent
       /\ key_file' # key_file =>
             AllOff \/ key_file = Absent \/ \E i \in Instances : pc[i] = "write"]_vars

\* What encryption.hpp:59 and README.md:62 say of a file that holds a key, whatever the
\* number of instances: only the user, between sessions, changes it.
KeyNotReplaced == [][~AllOff /\ key_file \in Keys => key_file' = key_file]_vars

\* Across crashes at any point of the creation of the file and of the store, and across
\* sessions that were started with another key and seal once more what they cannot open
\* (process_data_store.cpp:48): the text of a row is one its user saved, under no key but
\* keys the file once held, and as long as the file is not lost it opens with the key
\* that is there now.
RowsReadable ==
    \A id \in Ids :
        /\ db[id].text \in {row[id].text : row \in InitialRows} \cup {typed.text : typed \in Typed}
        /\ Range(db[id].layers) \subseteq held
        /\ losses = 0 => db[id].layers = <<>> \/ (key_file \in Keys /\ TryDecrypt(key_file, db[id]))
=============================================================================
