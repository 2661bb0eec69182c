------------------------------- MODULE DbManager -------------------------------
(* The zome database manager: it makes the database file with its tables and  *)
(* begins a transaction, in which it deletes old messages and expired files   *)
(* once an hour.  Other programs write to the file; SQLite lets nobody else   *)
(* write from the transaction's first deletion to its end.                    *)
EXTENDS Naturals, Sequences, FiniteSets

CONSTANTS Message, File, Block,
          PartOf,       \* the file of each block (part_id)
          Never,        \* an expiry that is NULL
          MessageExpiry, \* hours
          MaxHours      \* bound on the time

(* The statements of Birth: tables with their columns, and indexes on one.    *)
Table(name, columns) == [kind |-> "table", on |-> name, columns |-> columns]
Index(on, column) == [kind |-> "index", on |-> on, columns |-> {column}]

Birth == <<
    Table("Groups", {"id", "group_name", "created_at"}),
    Table("Users", {"id", "username", "password_hash", "created_at", "last_login"}),
    Index("Users", "username"),
    Table("UserGroups", {"user_id", "group_id"}),
    Index("UserGroups", "id"),
    Table("Messages", {"id", "sender_id", "receiver_id", "payload", "timestamp"}),
    Index("Messages", "receiver_id"),
    Table("Files", {"id", "owner_id", "group_id", "ACL", "filename", "directory_id", "length",
                    "hash", "created_at", "expiry"}),
    Table("Directories", {"id", "owner_id", "group_id", "ACL", "parent_directory_id",
                          "directory_name"}),
    Table("Blocks", {"id", "part_id", "block_order", "block_data"}),
    Index("Blocks", "owner_id"),
    Index("Blocks", "block_id") >>

\* The tables that the statements before the n-th make.
TablesBefore(n) == {Birth[m].on : m \in {k \in 1..(n - 1) : Birth[k].kind = "table"}}
AllTables == TablesBefore(Len(Birth) + 1)

VARIABLES
    at,          \* where the manager is
    exists,      \* the database file exists
    tables,      \* the tables in it
    existed,     \* what CreateDbIfNotExists returned
    deleteFiles, \* the -deleteExpiredFiles flag
    rows,        \* the rows in the file: timestamps, expiries, blocks
    view,        \* the same as the transaction sees it
    locked,      \* the transaction has written, and locks the file
    hour, due    \* the time; the manager has slept an hour since it collected

fileVars == <<exists, tables, rows>>
vars == <<at, fileVars, existed, deleteFiles, view, locked, hour, due>>
-------------------------------------------------------------------------------
Hour == 0..MaxHours

\* messages and files are partial functions to timestamp and expiry.
Rows == [messages : UNION {[S -> Hour] : S \in SUBSET Message},
         files : UNION {[S -> Hour \cup {Never}] : S \in SUBSET File},
         blocks : SUBSET Block]
NoRows == [messages |-> <<>>, files |-> <<>>, blocks |-> {}]

Only(f, S) == [x \in DOMAIN f \cap S |-> f[x]]
With(f, x, value) == [y \in DOMAIN f \cup {x} |-> IF y = x THEN value ELSE f[y]]

\* The file may be somebody else's, with all tables; or not be there.
Init ==
    /\ at = "down"
    /\ exists \in BOOLEAN
    /\ tables = IF exists THEN AllTables ELSE {}
    /\ existed = FALSE
    /\ deleteFiles \in BOOLEAN
    /\ rows = NoRows /\ view = NoRows
    /\ locked = FALSE
    /\ hour = 0 /\ due = FALSE
-------------------------------------------------------------------------------
CreateDbIfNotExists ==
    /\ at = "down"
    /\ exists' = TRUE
    /\ existed' = exists
    /\ at' = IF exists THEN "open" ELSE "creating"
    /\ UNCHANGED <<tables, rows, deleteFiles, view, locked, hour, due>>

(* InitTables runs the statements one by one, each a transaction of its own:  *)
(* those before the first that fails, an index on a column that the table does*)
(* not have, have happened.                                                   *)
Fails(n) ==
    /\ Birth[n].kind = "index"
    /\ ~ \E m \in 1..(n - 1) : /\ Birth[m].kind = "table"
                              /\ Birth[m].on = Birth[n].on
                              /\ Birth[n].columns \subseteq Birth[m].columns

InitTables ==
    LET failing == {n \in DOMAIN Birth : Fails(n)} IN
    /\ at = "creating"
    /\ IF failing = {}
       THEN tables' = AllTables /\ at' = "open"
       ELSE /\ tables' = TablesBefore(CHOOSE n \in failing : \A m \in failing : n <= m)
            /\ at' = "panicked"
    /\ UNCHANGED <<exists, rows, existed, deleteFiles, view, locked, hour, due>>

Begin ==
    /\ at = "open"
    /\ at' = "collecting"
    /\ UNCHANGED <<fileVars, existed, deleteFiles, view, locked, hour, due>>

-------------------------------------------------------------------------------
(* DeleteOldMessagesAndFiles.  The transaction starts to read the file with   *)
(* its first deletion.                                                        *)
Old(messages) == {m \in DOMAIN messages : messages[m] + MessageExpiry < hour}
Expired(files) == {f \in DOMAIN files : files[f] # Never /\ files[f] < hour}

AfterMessages ==
    LET seen == IF locked THEN view ELSE rows
    IN [seen EXCEPT !.messages = Only(@, Message \ Old(@))]

\* Blocks are looked up in what is left of Files.
AfterFiles(seen) ==
    LET files == Only(seen.files, File \ Expired(seen.files))
        expired == Expired(files)
    IN [seen EXCEPT !.files = files, !.blocks = {b \in @ : PartOf[b] \notin expired}]

DeleteOldMessagesAndFiles ==
    /\ at = "collecting"
    /\ IF "Messages" \notin tables \/ (deleteFiles /\ ~ {"Files", "Blocks"} \subseteq tables)
       THEN at' = "panicked" /\ view' = NoRows /\ locked' = FALSE
       ELSE /\ view' = IF deleteFiles THEN AfterFiles(AfterMessages) ELSE AfterMessages
            /\ locked' = TRUE
            /\ at' = "sleeping"
    /\ due' = FALSE
    /\ UNCHANGED <<fileVars, existed, deleteFiles, hour>>

Sleep ==
    /\ at = "sleeping"
    /\ due
    /\ at' = "collecting"
    /\ UNCHANGED <<fileVars, existed, deleteFiles, view, locked, hour, due>>

(* The process is ended, or started again: nothing of a transaction that is   *)
(* not committed is left, and nobody commits this one.                        *)
Stop ==
    /\ at # "down"
    /\ at' = "down"
    /\ view' = NoRows
    /\ locked' = FALSE
    /\ due' = FALSE
    /\ UNCHANGED <<fileVars, existed, deleteFiles, hour>>
-------------------------------------------------------------------------------
(* Other programs, and the clock.                                             *)
CanWrite == exists /\ {"Messages", "Files", "Blocks"} \subseteq tables /\ ~ locked

AddMessage(m) ==
    /\ CanWrite
    /\ m \notin DOMAIN rows.messages
    /\ rows' = [rows EXCEPT !.messages = With(@, m, hour)]
    /\ UNCHANGED <<at, exists, tables, existed, deleteFiles, view, locked, hour, due>>

AddFile(f, expiry) ==
    /\ CanWrite
    /\ f \notin DOMAIN rows.files
    /\ rows' = [rows EXCEPT !.files = With(@, f, expiry),
                            !.blocks = @ \cup {b \in Block : PartOf[b] = f}]
    /\ UNCHANGED <<at, exists, tables, existed, deleteFiles, view, locked, hour, due>>

\* The last hour stands for all later ones.
HourPasses ==
    /\ hour' = IF hour < MaxHours THEN hour + 1 ELSE hour
    /\ due' = (at = "sleeping")
    /\ UNCHANGED <<at, fileVars, existed, deleteFiles, view, locked>>

Manage ==
    CreateDbIfNotExists \/ InitTables \/ Begin \/ DeleteOldMessagesAndFiles \/ Sleep

Next ==
    \/ Manage \/ Stop
    \/ \E m \in Message : AddMessage(m)
    \/ \E f \in File : \E expiry \in Hour \cup {Never} : AddFile(f, expiry)
    \/ HourPasses

Spec == Init /\ [][Next]_vars

(* The manager runs once it is started, and time passes.  Nobody has to end   *)
(* it, or to write.                                                           *)
FairSpec == Spec /\ WF_vars(Manage) /\ WF_vars(HourPasses)
-------------------------------------------------------------------------------
(* "GarbageCollector periodically deletes old messages": while the manager    *)
(* runs, a message does not stay in the file for ever.                        *)
OldMessagesGo ==
    \A m \in Message :
        m \in Old(rows.messages) /\ at = "sleeping"
            ~> m \notin DOMAIN rows.messages \/ at \in {"down", "panicked"}

(* "Delete expired files and their blocks": after a collection the transaction*)
(* sees no block whose file is gone.                                          *)
BlocksGoWithFiles ==
    at = "sleeping" => \A b \in view.blocks : PartOf[b] \in DOMAIN view.files

(* "Database initialized": a manager that has come so far has its tables.     *)
SchemaIsComplete == at \in {"open", "collecting", "sleeping"} => tables = AllTables

(* A program that has a message to store gets to store it some day.           *)
WritersGetThrough ==
    \A m \in Message : []<>(CanWrite \/ m \in DOMAIN rows.messages \/ at = "panicked")
===============================================================================
