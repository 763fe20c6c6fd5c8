---------------------------- MODULE ThreadStorage -----------------------------
(***************************************************************************)
(* The app's database of threads and messages: apps/mobile/lib/database.ts *)
(* and storage.ts, over expo-sqlite.                                       *)
(*                                                                         *)
(* Each exported function is a call that awaits getDatabase() and then its *)
(* statements.  Calls overlap: a step below is what SQLite does with one   *)
(* statement, and all share one connection, so one transaction.  SQLite    *)
(* and withTransactionAsync are modelled as the code uses them:            *)
(*   - foreign keys are off on a new connection, and PRAGMA foreign_keys   *)
(*     does nothing inside a transaction;                                  *)
(*   - INSERT OR REPLACE deletes the row it replaces, with what refers to  *)
(*     it while foreign keys are on (ON DELETE CASCADE);                   *)
(*   - withTransactionAsync is BEGIN, the task, COMMIT, and ROLLBACK when  *)
(*     one of these is rejected, be it for a transaction of another call.  *)
(***************************************************************************)
EXTENDS Sequences

CONSTANTS
    Call,      \* calls under way at once; one is used again when it has ended
    ThreadId,
    MessageId,
    Lists,     \* the lists of threads that saveThreads() is called with
    SavedRows, \* the rows that threads are saved with
    NoRow,     \* there is no such row
    NoSnapshot \* no transaction is open

Row == {"shown", "archived"}
Snapshot == [threads : [ThreadId -> Row \cup {NoRow}],
             stored : [MessageId -> ThreadId \cup {NoRow}],
             call : Call]

ASSUME StorageAssumption ==
    /\ NoRow \notin ThreadId \cup Row /\ NoSnapshot \notin Snapshot
    /\ Lists \subseteq Seq(ThreadId) /\ SavedRows \subseteq Row

VARIABLES
    db,          \* the module's variable is set
    foreignKeys, \* they are on, for the connection of this launch
    tables,      \* they exist, on disk
    threads,     \* rows of threads: "shown" or "archived"
    stored,      \* rows of messages: the thread each belongs to
    snapshot,    \* the rows when the open transaction began, and its call
    phase,       \* per call: see Phase
    op,          \* per call: what it was called for
    todo,        \* per call: threads that saveThreads() has still to insert
    early,       \* history: a call was given the database before its schema
    overlapped,  \* history: the last call of saveThreads() began during another
    kept         \* history: messages that were saved and nothing may have lost

rowVars == <<threads, stored, snapshot>>
dbVars == <<db, foreignKeys, tables>>
callVars == <<phase, op, todo>>
historyVars == <<early, overlapped, kept>>
storageVars == <<rowVars, dbVars, callVars, historyVars>>

\* "open" and "schema": in getDatabase().  "run": at its first statement.
\* "rows": in its transaction.  "rollback": that failed.
Phase == {"idle", "open", "schema", "run", "rows", "rollback"}

\* A call: the function and what it was given that matters here.
Op ==
    [kind : {"saveThread"}, thread : ThreadId, row : SavedRows]
    \cup [kind : {"archiveThread", "deleteThread", "clearMessages"}, thread : ThreadId]
    \cup [kind : {"saveMessage"}, thread : ThreadId, id : MessageId]
    \cup [kind : {"saveThreads"}, threads : Lists, row : SavedRows]
    \cup [kind : {"load"}]
NoOp == [kind |-> "load"]

StorageInit ==
    /\ db = FALSE /\ foreignKeys = FALSE
    /\ tables \in BOOLEAN \* the first launch, or a later one
    /\ threads = [t \in ThreadId |-> NoRow] /\ stored = [m \in MessageId |-> NoRow]
    /\ snapshot = NoSnapshot
    /\ phase = [c \in Call |-> "idle"] /\ op = [c \in Call |-> NoOp]
    /\ todo = [c \in Call |-> <<>>]
    /\ early = FALSE /\ overlapped = FALSE /\ kept = {}

Busy == {c \in Call : phase[c] # "idle"}
Savers == {c \in Call : op[c].kind = "saveThreads"}

\* The message <<m, t>> may be lost to operation o.
MayLose(o, m, t) ==
    CASE o.kind = "saveThreads" -> TRUE
      [] o.kind \in {"saveThread", "deleteThread", "clearMessages"} -> o.thread = t
      [] o.kind = "saveMessage" -> o.id = m
      [] OTHER -> FALSE

-----------------------------------------------------------------------------
(* getDatabase().                                                          *)

Begin(c, o) ==
    /\ phase[c] = "idle"
    /\ phase' = [phase EXCEPT ![c] = IF db THEN "run" ELSE "open"]
    /\ op' = [op EXCEPT ![c] = o]
    /\ todo' = [todo EXCEPT ![c] = IF o.kind = "saveThreads" THEN o.threads ELSE <<>>]
    /\ early' = (early \/ (db /\ ~foreignKeys))
    /\ overlapped' = (Savers # {} /\ (overlapped \/ o.kind = "saveThreads"))
    /\ kept' = {k \in kept : ~MayLose(o, k[1], k[2])}
    /\ UNCHANGED <<rowVars, dbVars>>

\* openDatabaseAsync() has ended: db is set, the schema is not there yet.
DatabaseOpened(c) ==
    /\ phase[c] = "open"
    /\ db' = TRUE
    /\ phase' = [phase EXCEPT ![c] = "schema"]
    /\ UNCHANGED <<foreignKeys, tables, op, todo, rowVars, historyVars>>

\* Mutant: the script only creates the tables.
SchemaWithoutPragma(c) ==
    /\ phase[c] = "schema"
    /\ tables \/ snapshot = NoSnapshot
    /\ tables' = TRUE
    /\ phase' = [phase EXCEPT ![c] = "run"]
    /\ UNCHANGED <<db, foreignKeys, op, todo, rowVars, historyVars>>

\* The script has ended.  Inside a transaction of another call it cannot set
\* the journal mode of a new file (see Fails), and leaves foreign keys alone.
SchemaCreated(c) ==
    /\ phase[c] = "schema"
    /\ tables \/ snapshot = NoSnapshot
    /\ foreignKeys' = (foreignKeys \/ snapshot = NoSnapshot)
    /\ tables' = TRUE
    /\ phase' = [phase EXCEPT ![c] = "run"]
    /\ UNCHANGED <<db, op, todo, rowVars, historyVars>>

-----------------------------------------------------------------------------
(* Statements.                                                             *)

\* DELETE of a thread's row, alone or before it is replaced.
WithoutMessagesOf(t) ==
    [m \in MessageId |-> IF stored[m] = t /\ foreignKeys THEN NoRow ELSE stored[m]]

InsertThread(t, row) ==
    /\ tables
    /\ threads' = [threads EXCEPT ![t] = row]
    /\ stored' = IF threads[t] = NoRow THEN stored ELSE WithoutMessagesOf(t)

End(c) ==
    /\ phase' = [phase EXCEPT ![c] = "idle"]
    /\ op' = [op EXCEPT ![c] = NoOp]
    /\ todo' = [todo EXCEPT ![c] = <<>>]
    /\ UNCHANGED dbVars

SaveThread(c) ==
    /\ phase[c] = "run" /\ op[c].kind = "saveThread"
    /\ InsertThread(op[c].thread, op[c].row)
    /\ End(c) /\ UNCHANGED <<snapshot, historyVars>>

\* Mutant: the row is written anew.
ArchiveThreadReplacing(c) ==
    /\ phase[c] = "run" /\ op[c].kind = "archiveThread"
    /\ InsertThread(op[c].thread, "archived")
    /\ End(c) /\ UNCHANGED <<snapshot, historyVars>>

ArchiveThread(c) ==
    /\ phase[c] = "run" /\ op[c].kind = "archiveThread"
    /\ tables
    /\ threads' = [t \in ThreadId |-> IF t = op[c].thread /\ threads[t] # NoRow
                                    THEN "archived" ELSE threads[t]]
    /\ End(c) /\ UNCHANGED <<stored, snapshot, historyVars>>

DeleteThread(c) ==
    /\ phase[c] = "run" /\ op[c].kind = "deleteThread"
    /\ tables
    /\ threads' = [threads EXCEPT ![op[c].thread] = NoRow]
    /\ stored' = IF threads[op[c].thread] = NoRow THEN stored
                 ELSE WithoutMessagesOf(op[c].thread)
    /\ End(c) /\ UNCHANGED <<snapshot, historyVars>>

\* The row needs its thread, if foreign keys are on.
SaveMessage(c) ==
    LET m == op[c].id  t == op[c].thread
    IN  /\ phase[c] = "run" /\ op[c].kind = "saveMessage"
        /\ tables /\ (foreignKeys => threads[t] # NoRow)
        /\ stored' = [stored EXCEPT ![m] = t]
        /\ kept' = IF \E d \in Busy \ {c} : MayLose(op[d], m, t)
                   THEN kept ELSE kept \cup {<<m, t>>}
        /\ End(c) /\ UNCHANGED <<threads, snapshot, early, overlapped>>

ClearMessages(c) ==
    /\ phase[c] = "run" /\ op[c].kind = "clearMessages"
    /\ tables
    /\ stored' = [m \in MessageId |-> IF stored[m] = op[c].thread THEN NoRow ELSE stored[m]]
    /\ End(c) /\ UNCHANGED <<threads, snapshot, historyVars>>

\* loadThreads() and loadMessages() change nothing.
Load(c) ==
    /\ phase[c] = "run" /\ op[c].kind = "load" /\ tables
    /\ End(c) /\ UNCHANGED <<rowVars, historyVars>>

\* saveThreads(): BEGIN, which is refused inside a transaction.
BeginTransaction(c) ==
    /\ phase[c] = "run" /\ op[c].kind = "saveThreads"
    /\ IF snapshot = NoSnapshot
       THEN /\ snapshot' = [threads |-> threads, stored |-> stored, call |-> c]
            /\ phase' = [phase EXCEPT ![c] = "rows"]
       ELSE phase' = [phase EXCEPT ![c] = "rollback"] /\ UNCHANGED snapshot
    /\ UNCHANGED <<threads, stored, op, todo, dbVars, historyVars>>

InsertNext(c) ==
    /\ phase[c] = "rows" /\ todo[c] # <<>>
    /\ InsertThread(Head(todo[c]), op[c].row)
    /\ todo' = [todo EXCEPT ![c] = Tail(todo[c])]
    /\ UNCHANGED <<snapshot, phase, op, dbVars, historyVars>>

\* Mutant: the inserts are not awaited, so COMMIT may come before them.
CommitUnawaited(c) ==
    /\ phase[c] = "rows" /\ snapshot # NoSnapshot
    /\ snapshot' = NoSnapshot
    /\ IF todo[c] = <<>> THEN End(c) ELSE UNCHANGED <<callVars, dbVars>>
    /\ UNCHANGED <<threads, stored, historyVars>>

\* COMMIT of whatever transaction is open.
Commit(c) ==
    /\ phase[c] = "rows" /\ todo[c] = <<>>
    /\ snapshot # NoSnapshot
    /\ snapshot' = NoSnapshot
    /\ End(c) /\ UNCHANGED <<threads, stored, historyVars>>

\* ROLLBACK of whatever transaction is open, if any.
Rollback(c) ==
    /\ phase[c] = "rollback"
    /\ IF snapshot = NoSnapshot
       THEN UNCHANGED rowVars
       ELSE /\ threads' = snapshot.threads /\ stored' = snapshot.stored
            /\ snapshot' = NoSnapshot
    /\ End(c) /\ UNCHANGED historyVars

\* A statement is rejected: there is no table, no thread for the message, no
\* transaction to commit, or the disk fails.
Fails(c) ==
    /\ phase[c] \in {"open", "schema", "run", "rows"}
    /\ IF phase[c] = "rows" \/ (phase[c] = "run" /\ op[c].kind = "saveThreads")
       THEN phase' = [phase EXCEPT ![c] = "rollback"] /\ UNCHANGED <<op, todo, dbVars>>
       ELSE End(c)
    /\ UNCHANGED <<rowVars, historyVars>>

\* The app is killed, and launched again: an open transaction is undone.
RelaunchStorage ==
    /\ db /\ db' = FALSE /\ foreignKeys' = FALSE
    /\ IF snapshot = NoSnapshot
       THEN UNCHANGED rowVars
       ELSE /\ threads' = snapshot.threads /\ stored' = snapshot.stored
            /\ snapshot' = NoSnapshot
    /\ phase' = [c \in Call |-> "idle"] /\ op' = [c \in Call |-> NoOp]
    /\ todo' = [c \in Call |-> <<>>]
    /\ UNCHANGED <<tables, historyVars>>

Statement(c) ==
    \/ SaveThread(c) \/ ArchiveThread(c) \/ DeleteThread(c) \/ SaveMessage(c)
    \/ ClearMessages(c) \/ Load(c)

Step(c) ==
    \/ DatabaseOpened(c) \/ SchemaCreated(c) \/ Statement(c)
    \/ BeginTransaction(c) \/ InsertNext(c) \/ Commit(c) \/ Rollback(c) \/ Fails(c)

StorageNext ==
    \/ RelaunchStorage
    \/ \E c \in Call : Step(c) \/ \E o \in Op : Begin(c, o)

StorageSpec == StorageInit /\ [][StorageNext]_storageVars

-----------------------------------------------------------------------------
(* Correctness.                                                            *)

StorageTypeOK ==
    /\ db \in BOOLEAN /\ foreignKeys \in BOOLEAN /\ tables \in BOOLEAN
    /\ threads \in [ThreadId -> Row \cup {NoRow}]
    /\ stored \in [MessageId -> ThreadId \cup {NoRow}]
    /\ snapshot \in Snapshot \cup {NoSnapshot}
    /\ phase \in [Call -> Phase] /\ op \in [Call -> Op] /\ todo \in [Call -> Seq(ThreadId)]
    /\ early \in BOOLEAN /\ overlapped \in BOOLEAN
    /\ kept \subseteq MessageId \X ThreadId

\* No message is left without its thread, whatever calls overlap and whenever
\* the app is killed, provided no call was handed the database between the
\* moment db is set and the end of the schema script, which turns foreign keys
\* on, nor after that script failed (database.ts:8-11).
MessagesHaveThreads ==
    ~early => \A m \in MessageId : stored[m] # NoRow => threads[stored[m]] # NoRow

\* The rows of saveThreads() are inserted in the transaction it began, so they
\* are saved or undone together, unless another call of saveThreads() began
\* meanwhile: then its BEGIN fails and its ROLLBACK undoes the first call's
\* rows, what follows is saved row by row (storage.ts:14-25).
TransactionsAreOwn ==
    ~overlapped =>
        \A c \in Call : phase[c] = "rows" => snapshot # NoSnapshot /\ snapshot.call = c

\* A message whose saveMessage() has ended stays, through kills and failures,
\* until a call is made that deletes or saves its thread, clears it, saves
\* threads in a transaction, or saves a message under its id: saving a thread
\* that exists deletes its messages (storage.ts:5-12, 53-63; database.ts:31).
SavedMessagesStay ==
    \A k \in kept : stored[k[1]] = k[2]

\* An open transaction has a call that is still to end it.
TransactionsEnd ==
    snapshot # NoSnapshot => \E c \in Call : phase[c] \in {"rows", "rollback"}
===============================================================================
