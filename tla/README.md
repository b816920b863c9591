# Verification of password_manager

This directory specifies password_manager in TLA+: a C++ core that keeps one user's passwords in
memory, encrypted, and writes them to SQLite from a background thread, and the two front ends
(Win32 and Qt) on top of it. TLC checks every module on small instances. TLAPS proves every safety
property of the passing runs but one, and the refinement, for all values of the constants (some of them for one
instance of the application at a time, and the format and the arithmetic of stored values for the
sizes the code has). `PROJECT.json` lists for every definition the
source lines it stands for, for every property a plausible bug that breaks it, and every hazard
with the properties that would catch it.

Run a check with `tlc -config <run>.cfg <module>.tla` and the proofs with
`tlapm <module>Proofs.tla`. A run is named after its cfg.

## 1. Inventory

| part | state | operations | interacts with |
|---|---|---|---|
| `UserAccount` (app/objects/userAccount) | `pass_id_map`, three lookup maps sharing its objects, `removed_ids`, `current_password_id`, `cipher`; static `initial_user_data`, `max_password_id` | load, add, remove, modify, `get_data_copy`, `search`, `get_removed_ids` | called by all three threads and the GUI under `unordered_map_mutex`; reads USER_DATA at login |
| `Encryption` (app/encryption) | the key; the key file `<database>.key` | `from_key_file`, `encrypt`, `try_decrypt`, `decrypt` | constructed by the account; the file is shared by all instances of the application |
| `DisplayContent` (app/objects/displayContent) | operation queue, search term and result, flags, mutexes, condition variables | `operation_event`, `search_event`, `reset_display_list`, destructor | called by the GUI thread; owns three threads |
| threads (app/processes) | locals of each loop | apply operations; search; store every two seconds and once more at exit | account, queue, database |
| tables | USER_DATA (PASSWORD_ID primary key over all users), ACCOUNTS (USERNAME unique) | INSERT OR REPLACE, DELETE, SELECT MAX, SELECT by USERID; INSERT, SELECT by USERNAME | shared by users, logins and processes |
| Windows UI | session, three timers, search box, grid, modal dialogs | login, logout, typing, dialogs, refresh | `DisplayContent`, ACCOUNTS |
| Qt UI | session, four timers, search box, table, two forms and their callback | login, logout, typing, forms, refresh | `DisplayContent`, ACCOUNTS |

What is hard, and what makes each part correct:

- **Account.** Four maps keyed by values that modifications change. After any sequence of calls they
  must agree, a removed object must be gone, an id must never come back, a password must be sealed
  exactly once whatever the table held.
- **Threads.** Condition variables and flags, a shutdown that joins threads one by one, a store
  thread that works on a copy of the account while it changes. Every operation must take effect
  once and in order, no wake-up may be lost, a logout must end, and the last save must be complete.
- **Key file.** Created in several file-system calls, with crashes and other instances in between.
  No row may ever be sealed with a key that is not kept, and a kept key may never be replaced.
- **Tables.** One id space for all users, read once at login; static variables that outlive a
  session; queries that may fail. A user must get back exactly what that user saved.
- **Stored values.** Base64 groups, padding, limbs and carries that only some lengths and some
  messages reach. A value must open as what it was made from, and as nothing else.
- **Accounts.** A check and an INSERT as two statements; what a user is told must be true.
- **Windows UI.** Timers against key presses and dialogs; results shown by a timer rather than when
  they are there. Nothing of a session may be left for the next, and the grid must catch up.
- **Qt UI.** Its forms are not modal and survive a logout, and a login gives them its callback: what
  was opened in one session is saved in another. The rows of a user may only change in sessions of
  that user.

## 2. The modules

- `Passwords` (operations/password structs): passwords as field-to-value records, and what one
  operation (`Applied`) and a queue of them (`After`) do to a list. Dates are left out: no branch depends on them.
- `PasswordList`: the abstract specification, one list on which every submitted operation takes
  effect at once. `UserAccount` implements it.
- `Encryption`: a value is a plain text under layers of keys. `EncryptForStorage` and `Shown` are
  `encrypt_for_storage` and the fallback of `decrypted_copy`. Layers matter: a value sealed with a
  lost key is sealed once more.
- `UserAccount`: one action per public method; a method holds `unordered_map_mutex` from beginning
  to end. `LoadRow` is one turn of the loop in the constructor. Lookup buckets are sets, since
  search collects its results by id. Operations on unknown ids do nothing in the code and are no actions here.
- `DisplayContent`: the GUI thread and the three workers. Each step is one critical section, or
  the part of one between two sections nested in it. The two mutexes held across steps are
  variables; the others protect a single step. Spurious wake-ups are steps. `Faults` are what the
  database may refuse in any cycle (to open, an INSERT, a DELETE), `Unstorable` the entries whose
  INSERT is refused in every cycle, for it was cut off by its 1500-byte buffer or has a single quote in a
  field. `StoredAs` is the row an INSERT that is run stores: fields are spliced into it as they are,
  so two quotes in a row are stored as one.
  After a failed `sqlite3_open` the thread prints and frees a message that was never set: the cycle
  goes on without effect, or the process ends there (`AbortOnUnsetMessage`). The account in it is
  the plain list that `UserAccount` is proved to implement.
- `KeyFile`: `from_key_file` system call by system call, together with the rows, over sessions and
  kills of one or more instances. Between sessions the user may lose the file or restore a copy.
- `Ciphertext`: `encrypt` and `try_decrypt` down to the base64 digits and the input of the tag; the
  key stream and the tag are parameters. `Poly1305`: the loop that makes the tag, in limbs and in
  words that wrap around. Both are functions without state. `StoredValues` turns each row of
  `KeyFile` into its bytes: what `Encryption` says of layers of keys is what `Ciphertext` does to them.
- `UserData`: the USER_DATA table under several users, logins and processes: the two login queries,
  the static variables they fill, the constructor, the store cycle row by row, kills anywhere.
- `AccountStore`: creation of accounts and login in both front ends, for several clients.
- `WindowsUi`: handlers of the main window as steps. A modal dialog still dispatches the timers. The
  core under it is one step per operation and per search, which `DisplayContent` justifies.
- `QtUi`: the slots of the other main window and of its two forms. A form is a record of what it
  shows, whether it is shown, and the id it works on; a callback that does nothing is `user = NoUser`.
  Sessions share the table of rows, which a session writes when it ends.
- `MC...`: the small instances. `...Proofs`: the theorems and proofs of a module. `PasswordsProofs` has
  no theorem of its own but the lemmas about lists and queues that `DisplayContentProofs`,
  `WindowsUiProofs` and `QtUiProofs` share.

`UserAccount` implements `PasswordList`. `DisplayContent` has such a list as its account and applies to
it what was submitted, once and in order (`EffectOnceInOrder`); `WindowsUi` and
`QtUi` compose sessions of it with the window and, in Qt, with the table of all users. `KeyFile` and `UserAccount` share `Encryption`.

A definition marked `(fault)` is what the code would be with one plausible bug. It is used nowhere
in the specifications; putting it in place of the definition after it breaks a property.

## 3. The runs

| run | question | bounds |
|---|---|---|
| `MCUserAccount` | do maps, search, sealing and ids hold, and is the account the list it promises? | tables with 0, 1 or 2 rows: plain, sealed, sealed with another key; up to 3 new ids; 6 requests, which share and change every indexed value and leave fields alone |
| `MCStore` | is the database what the account is, with refused and misread statements, cycles that cannot open it, and a logout at any point? | one row at login, 2 operations |
| `MCLiveness` | do the condition variables hold, are operations and searches served, does a logout end, does the database catch up? | 1 operation, 2 searches, an entry that cannot be stored, nothing else refused |
| `MCKeyFile` | is every row readable after kills anywhere, and are the calculations behind a stored value right? | 3 sessions, 1 loss of the file, file absent or damaged at first; 3 limbs of 5 bits, messages of up to 2 blocks; bytes of 4 bits, texts of up to 4 bytes |
| `MCUserData` | do users keep their rows over logins in one process? | 2 users, 3 logins, 2 operations, failing queries and constructors |
| `MCAccountStore` | do creations race safely, and may the created user log in? | a Windows and a Qt client, 3 submissions, 1 login |
| `MCWindowsUi` | do page, box, timers, rows, tiles and selection agree, and does the grid catch up? | 7 inputs of the user |
| `MCQtUi` | is nothing left in the window after a logout, do users keep their rows whatever forms are open, and does the table catch up? | 2 users with a row each, 8 inputs |

The bounds are small but reach the cases the properties are about. Two operations are an operation
queued while another is applied and the store thread holds an older copy. Two searches are a new
term during an old search. Three sessions are a creation that was interrupted, one that reads what
was left, and one after that. Three logins are a user, another, and the first again. Seven inputs
are a login, typing, a dialog that changes the entry found, and a logout or another search. Eight
inputs are a login, a form opened and changed, a logout, a login of somebody else, the form saved
there, and a logout that writes it.

TLC counts in 32 bits, so `Poly1305` cannot be run with 5 limbs of 26 bits. With 3 limbs of 5 bits a
word has the same 6 bits of room above a limb (12 above a product), p is again 5 less than a power
of the base, and there is a middle limb beside the two ends. One block is checked from every
accumulator whose limbs are at a corner (0, 1, the largest, one beyond, and p's own limbs), and what
it leaves is again such that the next block may start from it, so the loop is covered for messages of
any length made of the blocks tried; whole messages are checked as well. The proofs are about 5 limbs and bytes of 8 bits. Texts of 0 to 4 bytes reach every base64 padding and a second block of the
key stream. What is checked over such bounded inputs says
nothing of a state and is evaluated once, in the initial states of `MCKeyFile` (`Unused`); that the
rows' bytes open as `Encryption` says is evaluated in every state.

Deadlock is checked except where the system stops: the account has no calls left once ids and the
list are used up, and a key file is final after the last session. In the other modules the final
state (session destroyed, window closed) stutters explicitly.

What each property says is in the comment above it. Those that deserve a reader's argument:

- `RowsAccountedFor` (`MCStore`): the store thread copies the account before it collects removed ids;
  a row in the database or on its way there belongs to an entry or is about to be deleted.
- `FinalSave`: when a session is destroyed the database holds the entries, each as SQLite reads its
  fields (`StoredAs`), except for rows whose
  INSERT was refused in that very cycle and ids whose DELETE was refused in any. Refused INSERTs and
  cycles without a database, earlier on, must have been made up for. `RemovalsSaved` drops the second
  exception and fails, and of the entries as they are instead of `StoredAs` it would be false too (section 5).
- `EffectOnceInOrder` (`MCStore`): account and queue together are the list the user sees.
- `RequestsServed`: a search runs to its end, also one for the term that was answered before.
- `SearchSettled`: a term set during a search survives the reset of the flag, and nothing found for
  the term before stays in the result.
- `EverythingStored`: an entry that is refused, or stored as another text, in every cycle does not keep
  others from being stored.
- `KeyFileKept`: one instance's check still holds when it opens the file with `trunc`, so a damaged
  file is never replaced either.
- `RowsReadable`: whatever the sessions, the text of a row is one its user saved, under keys the file
  once held; a session with another key adds a layer but loses nothing.
- `StoredValueOpens`: the bytes of every row that may come about open with the key of its outermost
  layer, as what `KeyFile` takes for granted. `NothingElseOpens`: they open with no other, and a value
  that was cut off, or has one byte changed, does not open, with one exception: when all that changed is bits
  of the last digit before the padding that no byte is made of (`ReadAlike`), it does open, as the same text,
  which is against what encryption.hpp says (section 5). `MacDataUnambiguous`: zeros at the
  end of a text are not its padding.
- `RowsKept`, `LoginLoadsSaved`: stated while no login query and no constructor has failed (the
  history variable `failed`). After a failure they do not hold; section 5 lists what happens.
- `CreatedCanLogIn`: the dialog's result, the login page as it is left, and the table fit together.
- `GridCatchesUp`: searches are shown one refresh late, and refreshes are timers; when the user
  stops, everything still settles. `TableCatchesUp` says the same of the Qt table.
- `RowsOfOthersKept`: the form of an earlier session holds the id of somebody else's entry. That
  `modify_password` and `remove_password` ignore ids they do not know, and that new ids lie above
  those of all users, is what keeps that entry's row.

### Fairness

`MCLiveness` assumes weak fairness of each worker thread and of the GUI thread within a call it has
begun: the operating system schedules them, and every mutex is released after a bounded section. It
assumes nothing of the user (no call and no logout needs to come) and nothing of spurious wake-ups.
Mutexes cause no need for strong fairness in these bounds; the properties hold without it.
`MCWindowsUi` and `MCQtUi` assume that set timers go off and that the core threads go on; a `SetTimer` timer is
delivered whenever the message loop is otherwise idle, also that of a modal dialog, and so is a
`QTimer`. In `MCLiveness` each fairness condition carries `Alive`: a process that ended in the middle
of a cycle owes nothing. Safety runs
assume no fairness.

## 4. What is proved

Every theorem holds for all values of the constants that meet the assumptions of section 4.1: any
number of fields, texts, users, clients, rows and operations. In each module an inductive invariant
is kept by every action, with one lemma per action or small group of actions, and implies the
properties. The same properties are checked by TLC in the runs of section 3.

| module | theorem | property |
|---|---|---|
| `UserAccount` | `TypeCorrect`, `LookupMapsExact`, `RemovedObjectsFreed`, `SearchCorrect`, `PasswordsSealed`, `RemovedIdsDead` | `TypeOK`, `IndexExact`, `NoObjectOutlivesItsEntry`, `SearchExact`, `SealedAtRest`, `RemovedStaysRemoved` |
| | `AccountImplementsList` | `ImplementsPasswordList` |
| `DisplayContent` | `TypeCorrect`, `QueueNeverEmptyAtPop`, `WakeUpsKept`, `SearchAnswersLastTerm`, `RowsHaveOwners`, `LogoutSavesEverything`, `OnceAndInOrder` | `TypeOK`, `NoPopFromEmptyQueue`, `NoLostWakeUp`, `SearchSettled`, `RowsAccountedFor`, `FinalSave`, `EffectOnceInOrder` |
| `KeyFile` | `ShapeKept`, `TypeCorrect` | `TypeOK` |
| one instance | `RowsStayReadable`, `FileIsKept` | `RowsReadable`, `KeyFileKept` |
| `Poly1305` | `Poly1305IsExact`, `TagArithmeticExact` | `Poly1305Correct` |
| `Ciphertext` | `Base64RoundTrip`, `CipherTwice`, `EncryptedOpens`, `MacDataIsInjective`, `MacDataStaysUnambiguous` | `MacDataUnambiguous` |
| both in `KeyFile` | `StoredValuesOpen` | `StoredValueOpens` |
| `UserData` | `TypeCorrect`, `DeletedRowsStayDeleted`, `TextsStayWithUser` | `TypeOK`, `DeletedStaysDeleted` |
| one process | `RowsAreKept`, `LoginsLoadWhatWasSaved` | `RowsKept`, `LoginLoadsSaved` |
| `AccountStore` | `TypeCorrect`, `AnswersAreTrue`, `NewAccountOpens` | `TypeOK`, `ToldTheTruth`, `CreatedCanLogIn` |
| `WindowsUi` | `TypeCorrect`, `LogoutCleansUp`, `RefreshKeepsSelection` | `TypeOK`, `NothingLeftBehind`, `SelectionKept` |
| `QtUi` | `TypeCorrect`, `LogoutCleansUp`, `OthersKeepTheirRows` | `TypeOK`, `NothingLeftBehind`, `RowsOfOthersKept` |

### 4.1 Assumptions

The proofs use only the named `ASSUME`s of the modules; TLC evaluates each on the instances of the
runs. What they say of the program:

- `KeyFile`: what is typed is a plain text, and a row that was there at first is plain or sealed with
  the key in the file. `UserAccount` says the same of one password.
- `UserData`: the table at first is finite and its rows belong to users; no two users share a text,
  which is how the model tells whose a text is.
- `AccountStore`: ids of the accounts there at first are 1, 2, 3, ... (AUTOINCREMENT, and the program
  deletes no account), trimming twice is trimming once, and no stored name or password is empty.
- `WindowsUi`: trimming nothing gives nothing, and every user has a list.
- `QtUi`: the same of trimming; the table is finite; whatever can be stored can be typed, since the Qt
  forms reject nothing.

- `Poly1305` and `Ciphertext`: sizes are positive, B and the number of bits of a byte are divisible by 4;
  the base64 alphabet has no character twice and neither `=` nor a quote in it, and the prefix has no quote.

Some results need a hypothesis of their own. `Alone`: there is one instance (`StoredValuesProofs`), one
process (`UserDataProofs`), over any number of sessions and kills. It cannot be dropped: `MCFirstRun`
and `MCTwoProcesses` are counterexamples with two. What survives any number of them is proved without it:
texts and layers come from somewhere (`ShapeKept`), a deleted entry does not come back by the process
that deletes it, though another process that still has it may write it again (`DeletedRowsStayDeleted`), a row never holds another user's text (`TextsStayWithUser`).

The theorems about stored values name the sizes the code has:

- `FiveLimbs`: there are 5 limbs, of at least 11 bits. The code has 26; from 11 on
  the 6 bits a word has above a limb are room enough.
- `EightBits`: a byte has 8 bits. All other sizes (nonce, tag, block, padding, prefix) are arbitrary.
- `Primitives`: the key stream gives a block of bytes for each key, counter and nonce, and the tag is a
  string of `TAG_SIZE` bytes. Nothing else is assumed of either; that they are hard to guess is no part of it.
- `Fits64`: the length of a string is a `std::size_t`. Without it `append64_le` would cut lengths off.

### 4.2 The inductive invariants

- **`UserAccount`.** The type invariant, the safety invariants, and `IdsGrow`. That a new id is neither
  live nor waiting for its DELETE follows only because every id ever seen is at most
  `current_password_id`, and that a row being loaded is new because rows not yet added are disjoint
  from the entries. `LookupMapsExact` and `RemovedObjectsFreed` need each other: an object is destroyed when the lookup
  maps let it go.
- **`DisplayContent`.** Who holds which mutex follows from where the threads are (`MutexesHeld`), the exit
  flags and joins from where the GUI thread is (`StoppedInOrder`). `FlagTellsQueue`: whenever
  the operation thread looks, its flag is set exactly if something is queued, so it finds work behind its wait. `NoLostWakeUp` is inductive
  with it. `CopiesUsedUp`, `RemovedForGood` and `Saved` follow an id through the account, the copy of the
  store thread, the list of removed ids and the database. `FinalCycle`: when the store thread copies
  the account for the last time, the other threads have ended, so the copy is the account until the end.
- **`KeyFile`.** `FileOfSession`: a running session has the key in the file, if that was not taken away.
  `EntriesSealed`, `RowsOpen`: entries open with that key, and rows do or are plain, unless the file was
  lost. A kill between the creation of the file and the write of the key leaves an invalid file, under
  which no session starts and so no row is written.
- **Stored values.** They have no state; their proofs are about the functions, from the inside out.
  *Tag*: a block takes limbs below B, limb 1 somewhat larger (`Larger`), to such limbs again, and no
  product or sum reaches the end of its word on the way; so the word operations are those on numbers,
  carrying keeps the number (`Value`) and wrapping around keeps it modulo p. That the accumulator after n
  blocks is the polynomial of n blocks follows by induction on n. *Base64*: a number of three bytes is
  made of its digits and a group of digits of its bytes, whatever the padding; then the groups of a text, whose last may be short.
  *Deciphering*: exclusive or, bit by bit, is its own inverse. *Tag input*: the lengths are its last 16
  bytes, so equal inputs have equal lengths, then equal parts. *Rows*: the layers of a value are a fold
  of `encrypt`, whose last turn is what one decryption takes off.
- **`UserData`.** `NoIdAhead`: entries, copies and removed ids are at most `current_password_id`;
  `Deleted`: a removed id is in no copy that is still to be written. `Loaded` (one process): the last id is
  not behind the table, and an entry with a row has the row of its user. Both statics matter: the
  rows loaded must be gone before the next login reads its own (`Own`).
- **`AccountStore`.** `NamesTrimmed`: a name is inserted trimmed, so the name a login looks up is the one that was
  inserted. `ToldTheTruth` is inductive with it: the answer to a creation is that of the INSERT, whatever the
  check before it found, and it stays true because rows are only added.
- **`WindowsUi`.** `GridOK`: the tiles are exactly those of the rows and the selection is one of them.
  `DialogOK`: an open dialog has the session it was opened in, as no logout gets past a modal dialog.
- **`QtUi`.** `OthersApart`: a row of another user has an id that is at most the account's last id and not
  one of its entries. No operation, whatever id an old form names, can make it an entry: operations on
  unknown ids do nothing and new ids are larger. So the write at the end of the session leaves that row alone.

The refinement of `PasswordList` by `UserAccount` maps the account to the decrypted copies of its entries
and the rows not added yet; `LastId` is the largest id in sight, which exists in every reachable state
(`HasLast`). Loading is invisible (`LoadRowStutters`); the other actions are operations on the list.
`EffectOnceInOrder` is proved in the same way, of the list after everything submitted so far: the operation
in the thread's hands, then the queue. Pushing changes that list by the operation (`AfterPush`); taking and
applying leave it as it is (`AfterPop`).

### 4.3 Not proved

- Liveness: `RequestsServed`, `LogoutEnds`, `EverythingStored`, `GridCatchesUp`, `TableCatchesUp`. The
  prover cannot reason about fairness; TLC checks them.
- `NothingElseOpens`. That a wrong key or a changed byte is noticed is a property of the tag and the key
  stream: for some functions in their place it is false, and for the real ones it holds with
  overwhelming probability only. TLC checks that the parts are put together such that it holds if the
  tag notices.
- `NoCiphertextShown`, `RemovalsSaved`, and `KeyNotReplaced`, `KeyFileKept` and `RowsKept` without `Alone`: they are false (section 5).

## 5. Where the code differs from what it says

Four runs end in a counterexample:

1. `MCWrongKey`: a row sealed with a key that is not in the key file is encrypted once more when it is
   loaded (userAccount.cpp:180), so `decrypted_copy` opens the outer layer and shows the inner
   ciphertext, which its comment (userAccount.cpp:365) excludes.
2. `MCRefusedDelete`: `get_removed_ids` empties the list before the DELETEs run, and a refused one is only
   logged. The entry is back after the next login, although the Windows UI relies on the final save
   (vsWindowsUi.cpp:519).
3. `MCFirstRun`: two instances on a new database both find no key file; after the first wrote its key, the
   second opens the file with `trunc` and empties it (encryption.hpp:59 says an existing file is never
   overwritten).
4. `MCTwoProcesses`: two processes read the same last id at login, give out the same PASSWORD_ID, and
   INSERT OR REPLACE replaces another user's row.

A passing run shows a fifth: in `MCKeyFile`, `NothingElseOpens` has an exception. encryption.hpp:22 says the
tag "detects any change to the stored value", and src/README.md:61 that a modified one fails to decrypt; but
`base64_decode` (encryption.cpp:397) drops bits of the last digit before the padding, and a value with only
these changed opens. The property says that these values open and no others, as the same text.

Met on the way, without a run of their own:

- Two single quotes in a row, which the Qt forms accept, are one to SQLite (process_data_store.cpp:44): every
  cycle, the final one too, stores another text than the entry has, and nothing is reported. The next login
  shows that text. `MCStore` has such a field, and `FinalSave` compares with what is stored for it.
- Each store cycle opens a database handle and none is closed (process_data_store.cpp:39). When they
  run out nothing is stored any more: every cycle is then one that could not open the database, and
  what `FinalSave` excepts is every entry changed since.
- A field whose single quotes do not pair up, or fields that make the statement longer than its buffer,
  keep an entry out of the database for good (process_data_store.cpp:44); nobody is told. The Windows dialogs reject
  quotes (PasswordForm.cpp:110), the Qt forms do not.
- A session opened with the wrong key writes its doubly sealed values back (process_data_store.cpp:48,
  userAccount.cpp:365), so restoring the key file no longer gives the password back at once.
- A constructor that throws leaves its rows in the static `initial_user_data` (userAccount.cpp:80-89);
  the next user who logs in in that process gets them as well.
- A failed SELECT at login is only logged (userAccount.cpp:118): the account starts empty, or with a last
  id that is too small.
- An emptied URL or description is taken for an unchanged one (userAccount.cpp:330), while the view
  dialog shows it empty (ViewPasswordDialog.cpp:69).
- What was typed in a Qt form that is still open at a logout, or was hidden with Esc, becomes an
  entry of the next user when it is accepted there (mainwindow.cpp:466, add_password.cpp:44). A view
  form of an earlier session holds an id; if it was the largest and its entry was deleted, the next
  user's first new entry gets it, and saving in the form changes that entry.
- For one refresh after a new search, the grid and the number in the status line are those of
  the search before (vsWindowsUi.cpp:157-188).

## 6. What is abstracted or left out

- Encryption is ideal in `Encryption`: a wrong key never opens a value. `Ciphertext` is proved for any key
  stream and tag and run with simple ones, so it shows how the parts are put together, not that a
  tag cannot be forged. Nor do the proofs put `Poly1305` in the place of that tag: loading and storing its limbs
  byte by byte is between them (`load32_le` and shifts, which the vectors of RFC 8439 test).
- `chacha20_block`: 32-bit additions, exclusive ors and rotations without a branch. A small instance
  of it would be another permutation, and the only thing to say of the real one is what it computes,
  which the unit tests check against the vectors of RFC 8439. The same goes for the random bytes of
  keys and nonces.
- SQL text: a statement is executed or refused, once or always, and stores the fields as SQLite reads
  them. Fields are spliced into it unescaped (src/README.md:88), so one may also end the INSERT and begin
  a statement of its own. What that does to the database is not modelled: `FinalSave`, `RowsAccountedFor` and
  their theorems are about entries without such a field. `UserData` and `QtUi` take texts that are stored as typed.
- Dates, wording, layout, painting, focus, the status line, and the wiping of secrets in memory.
- The database file's location.
- In `WindowsUi` and `QtUi` a worker thread does an operation or a search in one step; in `QtUi` a session
  writes its rows when it ends. `DisplayContent` and `UserData` are about the steps in between.
- `UserData` has one text per entry, so two sessions of the *same* user writing different fields of one
  entry are not told apart.
- In `MCUserAccount` the password `Submitted` is never already encrypted with the account's key
  (`UserAccountAssumption`): a user would have to type a valid `ENC1:` value.

### Not modelled

- `src/sqlite` is a vendored copy of SQLite and its shell (275 000 lines, 98 in 100 of the lines in the
  repository). It is third-party code; what the application uses of it is the tables of `UserData` and
  `AccountStore` and the refusals of `DisplayContent`. Of the repository's own C++ the definitions
  stand for about two lines in five.
- What is left of the front ends creates windows and controls and lays them out: resources, fonts,
  generated forms, message boxes, the search for the database file at start. It changes no state a
  property could be about.
- The unit tests were read for what they expect, not modelled.

## 7. Plan

Done, in this order: the account and its proofs, the session, the key file, the tables, accounts, the
Windows UI, the Qt UI, stored values; then the proofs of the session, accounts, the key file, the
table of all users, both windows, the arithmetic of the tag and the format of stored values. Left,
most important first:

1. What two processes may do to the table, as far as it is bounded: each row is one that some session wrote.
2. The same user in two processes, with fields: a stale snapshot written back (vsWindowsUi.cpp:306).
3. The bytes of limbs, keys and tags, so that `Poly1305` can stand for the tag in `Ciphertext`.
