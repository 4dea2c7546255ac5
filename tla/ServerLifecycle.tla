--------------------------- MODULE ServerLifecycle ---------------------------
(***************************************************************************)
(* AkonadiServer of src/server/src/akonadi.cpp: the daemon's main thread   *)
(* from the constructor (database bootstrap, listen, DataStore, service    *)
(* threads, search manager) through quit() and doQuit(), together with the *)
(* connection threads incomingConnection() starts and the child database   *)
(* process the server starts and stops.                                    *)
(*                                                                         *)
(* The main thread is one pc, `main`.  A blocking call of the main thread  *)
(* (quitThread's wait(), waitForFinished) is a phase the main thread stays *)
(* in until the awaited thread or process has moved; the other threads     *)
(* take steps meanwhile.  A connection thread is abstracted to the command *)
(* it is executing: none, an ordinary one, one that calls the search       *)
(* manager (modify.cpp:169) or one waiting for item retrieval              *)
(* (modify.cpp:70-76).  Paths, settings and log output are left out; a     *)
(* failure that ends in akFatal() is the phase "Fatal".                    *)
(***************************************************************************)
EXTENDS Naturals, Sequences, FiniteSets

CONSTANTS
    Conns,          \* the connection threads (socket descriptors) accepted
    Drivers,        \* DbConfig::driverName() values
    MaxOpenTries,   \* the 120 iterations of the initial db.open() loop
    ResourceNames,  \* resource instances akonadi_control registers
    CollectionSlots,\* collections connections may create
    OnDeleteActions \* ON DELETE actions the template may give the resource key

ASSUME MaxOpenTries \in Nat \ {0}

\* Drivers for which startDatabaseProcess() starts a server process.

\* The three service threads the constructor starts and quit() joins.
Services == {"cleaner", "checker", "retrieval"}

ConnStates == {"None", "Idle", "Busy", "Search", "Retrieve", "Create", "Gone"}

\* Phases of the main thread before the event loop runs.
BootPhases == {"Boot", "OpenLoop", "CreateDb", "InitStore"}

\* Phases of quit() and after it.
QuitPhases == {"StopServices", "DeleteSearch", "QuitConns", "JoinConn",
               "CloseStore", "StopDb", "StopDbTerm", "QuitDone", "Exited"}

VARIABLES
    cfg,            \* DbConfig and server settings, fixed for the run
    pgData,         \* PG_VERSION exists in the PostgreSQL data directory
    main,           \* pc of the main thread
    tries,          \* iterations of the db.open() loop done
    dbServer,       \* the database server: Down, Starting, Up, Exited
    dbProcess,      \* mDatabaseProcess != 0
    dbExists,       \* the akonadi database exists on the server
    storeOpen,      \* the main thread's DataStore is open
    threads,        \* service thread -> None, Running, Stopped
    searchMgr,      \* mSearchManager: None, Alive, Deleted
    conn,           \* connection thread -> state
    quitReq,        \* thread->quit() was called on the connection
    connList,       \* mConnections, in order of acceptance
    qi,             \* index of the quitThread( mConnections[ i ] ) loop
    alreadyShutdown,\* mAlreadyShutdown
    searchUse,      \* ghost: the search manager state at the latest use
    resources,      \* ResourceManager: the Resource table
    colRes,         \* ResourceManager: each collection's resource
    removing,       \* ResourceManager: removeResourceInstance() in progress
    onDelete        \* ResourceManager: the foreign key's enforced ON DELETE

\* The ResourceManager singleton, living in the main thread.
RM == INSTANCE ResourceManager WITH OnDeleteActions <- OnDeleteActions \cup {"None"}
RMVars == <<resources, colRes, removing, onDelete>>

vars == <<cfg, pgData, main, tries, dbServer, dbProcess, dbExists, storeOpen,
          threads, searchMgr, conn, quitReq, connList, qi, alreadyShutdown,
          searchUse, RMVars>>

\* The configurations the server can be started with.  An external server
\* is up or down when the daemon starts; an internal one is not running.
Configs ==
    [internal : BOOLEAN, driver : Drivers, cleanShutdown : BOOLEAN,
     cleaner : BOOLEAN, externalUp : BOOLEAN]

DbInit == INSTANCE DbInitializer

\* The resource foreign key as the schema DbInitializer builds for the driver
\* enforces it: the declared action where the CREATE TABLE carries the key,
\* none where it does not; MySQL's CREATE TABLE names no storage engine, so
\* the server default decides, and MyISAM ignores foreign keys.
EnforcedOnDelete(driver) ==
    LET key(a) == [allowNull |-> FALSE, isAutoIncrement |-> FALSE,
                   isPrimaryKey |-> FALSE, isUnique |-> FALSE,
                   onDelete |-> a, defaultValue |-> "NoDefault"]
        kept(a) == DbInit!Ref(a) \in DbInit!Declared(DbInit!DialectOf(driver), key(a), 1)
    IN  {IF kept(a) THEN a ELSE "None" : a \in OnDeleteActions}
        \cup (IF driver = "QMYSQL" THEN {"None"} ELSE {})

Init ==
    /\ cfg \in {c \in Configs : c.internal => ~c.externalUp}
    /\ pgData \in BOOLEAN
    /\ main = "Boot"
    /\ tries = 0
    /\ dbServer = IF cfg.externalUp THEN "Up" ELSE "Down"
    /\ dbProcess = FALSE
    /\ dbExists \in BOOLEAN
    /\ storeOpen = FALSE
    /\ threads = [s \in Services |-> "None"]
    /\ searchMgr = "None"
    /\ conn = [c \in Conns |-> "None"]
    /\ quitReq = [c \in Conns |-> FALSE]
    /\ connList = <<>>
    /\ qi = 1
    /\ alreadyShutdown = FALSE
    /\ searchUse = "None"
    /\ RM!Init
    /\ onDelete \in EnforcedOnDelete(cfg.driver)

DbVars   == <<tries, dbServer, dbProcess, dbExists, storeOpen>>
RunVars  == <<threads, searchMgr, conn, quitReq, connList, qi,
              alreadyShutdown, searchUse, RMVars>>

----------------------------------------------------------------------------
(* The constructor.                                                        *)

(***************************************************************************)
(* Launching the server process, common to both start functions:           *)
(* QProcess::start then waitForStarted(), whose failure is akFatal.  The    *)
(* process then comes up or, on a data directory it cannot use, exits.     *)
(***************************************************************************)
LaunchServer(dataReady) ==
    \/ /\ main' = "Fatal"
       /\ UNCHANGED <<tries, dbServer, dbProcess>>
    \/ /\ main' = "OpenLoop"
       /\ dbProcess' = TRUE
       /\ tries' = 0
       /\ dbServer' = IF dataReady THEN "Starting" ELSE "Exited"

\* startMysqlDatabaseProcess(): the configuration and directory checks (each
\* failure akFatal, which ends like a failed start), then the launch.
StartMysqlDatabaseProcess ==
    /\ LaunchServer(TRUE)
    /\ UNCHANGED pgData

(***************************************************************************)
(* startPostgresqlDatabaseProcess(): a data directory without PG_VERSION   *)
(* is first initialised by QProcess::execute( initdb ), whose exit status  *)
(* is ignored, and its postgresql.conf rewritten; postgres is then started *)
(* on whatever initdb left, and exits at once when initdb failed.          *)
(***************************************************************************)
StartPostgresqlDatabaseProcess ==
    /\ \/ pgData /\ UNCHANGED pgData
       \/ ~pgData /\ pgData' \in BOOLEAN
    /\ LaunchServer(pgData')

\* startDatabaseProcess() for an internal server: an empty server path is
\* akFatal, whatever the driver; otherwise the start function of the
\* configured driver, or nothing for a driver without a server process.
StartDatabaseProcess ==
    /\ main = "Boot" /\ cfg.internal
    /\ \/ main' = "Fatal" /\ UNCHANGED <<pgData, tries, dbServer, dbProcess>>
       \/ CASE cfg.driver = "QMYSQL" -> StartMysqlDatabaseProcess
             [] cfg.driver = "QPSQL"  -> StartPostgresqlDatabaseProcess
             [] OTHER -> main' = "InitStore"
                         /\ UNCHANGED <<pgData, tries, dbServer, dbProcess>>
    /\ UNCHANGED <<cfg, dbExists, storeOpen, RunVars>>

\* createDatabase() for an external server: open the akonadi database; if
\* that fails, open the server without a database and CREATE DATABASE
\* (akFatal when it fails); if the server cannot be opened, carry on.
CreateDatabase ==
    /\ main = "Boot" /\ ~cfg.internal
    /\ \/ /\ dbServer = "Up" /\ dbExists
          /\ main' = "InitStore" /\ UNCHANGED dbExists
       \/ /\ dbServer = "Up" /\ ~dbExists
          /\ \/ main' = "InitStore" /\ dbExists' = TRUE
             \/ main' = "Fatal" /\ UNCHANGED dbExists
       \/ /\ dbServer # "Up"
          /\ main' = "InitStore" /\ UNCHANGED dbExists
    /\ UNCHANGED <<cfg, pgData, tries, dbServer, dbProcess, storeOpen, RunVars>>

\* One iteration of `for ( int i = 0; i < 120; ++i )`: db.open() succeeds,
\* or waitForFinished( 500 ) sees the process gone (akFatal), or it times
\* out and the loop goes on.
OpenAttempt ==
    /\ main = "OpenLoop" /\ tries < MaxOpenTries
    /\ \/ dbServer = "Up" /\ main' = "CreateDb" /\ UNCHANGED tries
       \/ dbServer = "Exited" /\ main' = "Fatal" /\ UNCHANGED tries
       \/ dbServer = "Starting" /\ tries' = tries + 1 /\ UNCHANGED main
    /\ UNCHANGED <<cfg, pgData, dbServer, dbProcess, dbExists, storeOpen, RunVars>>

\* The loop ran out with opened == false: database creation is skipped.
OpenLoopExhausted ==
    /\ main = "OpenLoop" /\ tries = MaxOpenTries
    /\ main' = "InitStore"
    /\ UNCHANGED <<cfg, pgData, tries, dbServer, dbProcess, dbExists, storeOpen, RunVars>>

\* `USE akonadi` (MySQL) or the pg_database lookup (PostgreSQL); CREATE
\* DATABASE when it fails or finds nothing, akFatal when that fails.  The
\* USE or the lookup can fail on a database that exists (a query error);
\* CREATE DATABASE then fails too, and the server aborts.
CreateDbIfMissing ==
    /\ main = "CreateDb"
    /\ \/ dbExists /\ main' = "InitStore" /\ UNCHANGED dbExists
       \/ dbExists /\ main' = "Fatal" /\ UNCHANGED dbExists
       \/ ~dbExists /\ main' = "InitStore" /\ dbExists' = TRUE
       \/ ~dbExists /\ main' = "Fatal" /\ UNCHANGED dbExists
    /\ UNCHANGED <<cfg, pgData, tries, dbServer, dbProcess, storeOpen, RunVars>>

\* The rest of the constructor: listen() (akFatal on failure), the
\* DataStore, whose database must be open (akFatal "Unable to open
\* database") and init() must succeed, then the cache cleaner if
\* Cache/EnableCleaner, the interval checker, the retrieval thread and the
\* search manager.  The event loop starts when the constructor returns.
InitStore ==
    /\ main = "InitStore"
    /\ \/ /\ main' = "Fatal"
          /\ UNCHANGED <<storeOpen, threads, searchMgr>>
       \/ /\ dbServer = "Up" /\ dbExists
          /\ main' = "Running"
          /\ storeOpen' = TRUE
          /\ threads' = [s \in Services |->
                           IF s = "cleaner" /\ ~cfg.cleaner THEN "None"
                           ELSE "Running"]
          /\ searchMgr' = "Alive"
    /\ UNCHANGED <<cfg, pgData, tries, dbServer, dbProcess, dbExists, conn, quitReq,
                   connList, qi, alreadyShutdown, searchUse, RMVars>>

\* The child database server finishes starting up, or dies while starting.
DbComesUp ==
    /\ dbServer = "Starting" /\ dbServer' = "Up"
    /\ UNCHANGED <<cfg, pgData, main, tries, dbProcess, dbExists, storeOpen, RunVars>>

DbDies ==
    /\ dbServer = "Starting" /\ dbServer' = "Exited"
    /\ UNCHANGED <<cfg, pgData, main, tries, dbProcess, dbExists, storeOpen, RunVars>>

----------------------------------------------------------------------------
(* The event loop of the main thread: connections and quit().              *)

IncomingConnectionMutant(c) ==
    /\ main \in {"Running", "QuitDone"}
    /\ conn[c] = "None" /\ RM!Idle
    /\ conn' = [conn EXCEPT ![c] = "Idle"]
    /\ connList' = Append(connList, c)
    /\ UNCHANGED <<cfg, pgData, main, DbVars, threads, searchMgr, quitReq, qi,
                   alreadyShutdown, searchUse, RMVars>>

\* incomingConnection(): ignored once mAlreadyShutdown is set; otherwise a
\* new AkonadiConnection thread is appended to mConnections and started.
IncomingConnection(c) ==
    /\ main \in {"Running", "QuitDone"}
    /\ ~alreadyShutdown
    /\ conn[c] = "None" /\ RM!Idle
    /\ conn' = [conn EXCEPT ![c] = "Idle"]
    /\ connList' = Append(connList, c)
    /\ UNCHANGED <<cfg, pgData, main, DbVars, threads, searchMgr, quitReq, qi,
                   alreadyShutdown, searchUse, RMVars>>

\* quit(), called over D-Bus or from serviceOwnerChanged() when the control
\* process vanished: returns at once when mAlreadyShutdown is set.
Quit ==
    /\ main = "Running" /\ ~alreadyShutdown /\ RM!Idle
    /\ alreadyShutdown' = TRUE
    /\ main' = "StopServices"
    /\ UNCHANGED <<cfg, pgData, tries, dbServer, dbProcess, dbExists, storeOpen,
                   threads, searchMgr, conn, quitReq, connList, qi, searchUse, RMVars>>

\* serviceOwnerChanged(): only the control service losing its owner quits.
ServiceOwnerChanged(name, newOwner) ==
    /\ name = "control" /\ newOwner = ""
    /\ Quit

\* quitThread() on the cache cleaner, interval checker and retrieval thread.
StopServices ==
    /\ main = "StopServices"
    /\ threads' = [s \in Services |->
                     IF threads[s] = "None" THEN "None" ELSE "Stopped"]
    /\ main' = "DeleteSearch"
    /\ UNCHANGED <<cfg, pgData, tries, dbServer, dbProcess, dbExists, storeOpen,
                   searchMgr, conn, quitReq, connList, qi, alreadyShutdown,
                   searchUse, RMVars>>

\* delete mSearchManager; mSearchManager = 0;
DeleteSearchManager ==
    /\ main = "DeleteSearch"
    /\ searchMgr' = "Deleted"
    /\ main' = "QuitConns"
    /\ UNCHANGED <<cfg, pgData, tries, dbServer, dbProcess, dbExists, storeOpen,
                   threads, conn, quitReq, connList, qi, alreadyShutdown,
                   searchUse, RMVars>>

QuitConnSignalMutant ==
    /\ main = "QuitConns" /\ qi <= Len(connList)
    /\ main' = "JoinConn"
    /\ UNCHANGED <<cfg, pgData, DbVars, threads, searchMgr, conn, quitReq,
                   connList, qi, alreadyShutdown, searchUse, RMVars>>

\* quitThread( mConnections[ i ] ): thread->quit(), then the wait().
QuitConnSignal ==
    /\ main = "QuitConns" /\ qi <= Len(connList)
    /\ quitReq' = [quitReq EXCEPT ![connList[qi]] = TRUE]
    /\ main' = "JoinConn"
    /\ UNCHANGED <<cfg, pgData, DbVars, threads, searchMgr, conn, connList, qi,
                   alreadyShutdown, searchUse, RMVars>>

JoinConnMutant ==
    /\ main = "JoinConn"
    /\ qi' = qi + 1
    /\ main' = "QuitConns"
    /\ UNCHANGED <<cfg, pgData, DbVars, threads, searchMgr, conn, quitReq,
                   connList, alreadyShutdown, searchUse, RMVars>>

\* thread->wait() returns once the connection thread has finished.
JoinConn ==
    /\ main = "JoinConn"
    /\ conn[connList[qi]] = "Gone"
    /\ qi' = qi + 1
    /\ main' = "QuitConns"
    /\ UNCHANGED <<cfg, pgData, DbVars, threads, searchMgr, conn, quitReq,
                   connList, alreadyShutdown, searchUse, RMVars>>

\* The loop is over: mConnections.clear().
QuitConnsDone ==
    /\ main = "QuitConns" /\ qi > Len(connList)
    /\ connList' = <<>> /\ qi' = 1
    /\ main' = "CloseStore"
    /\ UNCHANGED <<cfg, pgData, DbVars, threads, searchMgr, conn, quitReq,
                   alreadyShutdown, searchUse, RMVars>>

\* PreprocessorManager::done() and DataStore::self()->close().
CloseStore ==
    /\ main = "CloseStore"
    /\ storeOpen' = FALSE
    /\ main' = "StopDb"
    /\ UNCHANGED <<cfg, pgData, tries, dbServer, dbProcess, dbExists, RunVars>>

\* stopDatabaseProcess(): nothing without a process; else the clean
\* shutdown command, if configured, and waitForFinished( 3000 ).
StopDatabaseProcess ==
    /\ main = "StopDb"
    /\ \/ ~dbProcess /\ main' = "QuitDone" /\ UNCHANGED dbServer
       \/ /\ dbProcess /\ cfg.cleanShutdown
          /\ main' = "QuitDone" /\ dbServer' = "Exited"
       \/ dbProcess /\ main' = "StopDbTerm" /\ UNCHANGED dbServer
    /\ UNCHANGED <<cfg, pgData, tries, dbProcess, dbExists, storeOpen, RunVars>>

\* terminate() and waitForFinished( 3000 ); kill() when that timed out,
\* which SIGKILL cannot outlast: either way the server process is gone; quit() then removes the socket
\* and the connection file and schedules doQuit().
StopDbTerminate ==
    /\ main = "StopDbTerm"
    /\ dbServer' = "Exited"
    /\ main' = "QuitDone"
    /\ UNCHANGED <<cfg, pgData, tries, dbProcess, dbExists, storeOpen, RunVars>>

\* doQuit(), from the zero-timeout single shot: QCoreApplication::exit().
DoQuit ==
    /\ main = "QuitDone"
    /\ main' = "Exited"
    /\ UNCHANGED <<cfg, pgData, tries, dbServer, dbProcess, dbExists, storeOpen, RunVars>>

----------------------------------------------------------------------------
(***************************************************************************)
(* A connection thread (AkonadiConnection, whose code is not part of this  *)
(* tree): it runs one command at a time from its event loop, and its event *)
(* loop ends after the current command once thread->quit() was called or  *)
(* the client went away.                                                   *)
(***************************************************************************)
Commands == {"Busy", "Search", "Retrieve", "Create"}

ConnVars == <<cfg, pgData, main, DbVars, threads, searchMgr, connList, qi,
              alreadyShutdown>>

BeginCommand(c, k) ==
    /\ conn[c] = "Idle" /\ ~quitReq[c]
    /\ conn' = [conn EXCEPT ![c] = k]
    /\ UNCHANGED <<ConnVars, quitReq, searchUse, RMVars>>

CommandDone(c) ==
    /\ conn[c] = "Busy"
    /\ conn' = [conn EXCEPT ![c] = "Idle"]
    /\ UNCHANGED <<ConnVars, quitReq, searchUse, RMVars>>

\* CREATE (handler not in this tree): the new collection of a registered
\* resource is committed, or the command fails.
CreateDone(c) ==
    /\ conn[c] = "Create"
    /\ conn' = [conn EXCEPT ![c] = "Idle"]
    /\ \/ \E sl \in CollectionSlots, n \in ResourceNames : RM!CreateCollection(sl, n)
       \/ UNCHANGED RMVars
    /\ UNCHANGED <<ConnVars, quitReq, searchUse>>

\* SearchManager::instance()->updateSearch( ... ) of a MODIFY that changes
\* a persistent search; `searchUse` records the object it reached.
UseSearch(c) ==
    /\ conn[c] = "Search"
    /\ conn' = [conn EXCEPT ![c] = "Idle"]
    /\ searchUse' = searchMgr
    /\ UNCHANGED <<ConnVars, quitReq, RMVars>>

\* ItemRetriever::exec(): the retrieval thread serves the request, or the
\* request times out and the command fails (spec: retrieval has a timeout).
RetrievalServed(c) ==
    /\ conn[c] = "Retrieve" /\ threads["retrieval"] = "Running"
    /\ conn' = [conn EXCEPT ![c] = "Idle"]
    /\ UNCHANGED <<ConnVars, quitReq, searchUse, RMVars>>

RetrievalTimeout(c) ==
    /\ conn[c] = "Retrieve"
    /\ conn' = [conn EXCEPT ![c] = "Idle"]
    /\ UNCHANGED <<ConnVars, quitReq, searchUse, RMVars>>

ClientDisconnect(c) ==
    /\ conn[c] = "Idle"
    /\ conn' = [conn EXCEPT ![c] = "Gone"]
    /\ UNCHANGED <<ConnVars, quitReq, searchUse, RMVars>>

ConnQuit(c) ==
    /\ conn[c] = "Idle" /\ quitReq[c]
    /\ conn' = [conn EXCEPT ![c] = "Gone"]
    /\ UNCHANGED <<ConnVars, quitReq, searchUse, RMVars>>

----------------------------------------------------------------------------
(***************************************************************************)
(* ResourceManager's D-Bus slots run in the main thread's event loop once  *)
(* the server is up; while removeResourceInstance() runs, the main thread  *)
(* handles no other event.                                                 *)
(***************************************************************************)
LifecycleVars == <<cfg, pgData, main, DbVars, threads, searchMgr, conn, quitReq,
                   connList, qi, alreadyShutdown, searchUse>>

AddResourceInstance(n) ==
    /\ main = "Running" /\ RM!Idle
    /\ RM!AddResourceInstance(n)
    /\ UNCHANGED LifecycleVars

RemoveResourceInstance(n) ==
    /\ main = "Running" /\ RM!Idle
    /\ RM!RemoveResourceInstance(n)
    /\ UNCHANGED LifecycleVars

\* The rest of a removeResourceInstance() call: the cleanup loop, remove().
RemovalStep ==
    /\ \/ \E sl \in CollectionSlots : RM!CleanupCollection(sl)
       \/ RM!RemoveResourceRow
    /\ UNCHANGED LifecycleVars

MainStep ==
    \/ StartDatabaseProcess \/ CreateDatabase \/ OpenAttempt
    \/ OpenLoopExhausted \/ CreateDbIfMissing \/ InitStore
    \/ StopServices \/ DeleteSearchManager \/ QuitConnSignal \/ JoinConn
    \/ QuitConnsDone \/ CloseStore \/ StopDatabaseProcess \/ StopDbTerminate
    \/ DoQuit \/ RemovalStep

ConnStep(c) ==
    \/ \E k \in Commands : BeginCommand(c, k)
    \/ CommandDone(c) \/ CreateDone(c) \/ UseSearch(c) \/ RetrievalServed(c)
    \/ RetrievalTimeout(c) \/ ClientDisconnect(c) \/ ConnQuit(c)

Next ==
    \/ MainStep
    \/ DbComesUp \/ DbDies
    \/ \E c \in Conns : IncomingConnection(c)
    \/ Quit
    \/ \E n \in ResourceNames :
          AddResourceInstance(n) \/ RemoveResourceInstance(n)
    \/ \E n \in {"control", "other"}, o \in {"", "owner"} :
          ServiceOwnerChanged(n, o)
    \/ \E c \in Conns : ConnStep(c)

(***************************************************************************)
(* Fairness: the main thread runs each step it can take (it is never       *)
(* starved); a connection thread finishes the command it is in and leaves *)
(* its event loop once asked to; a retrieval is answered or times out.     *)
(* Starting a command, a client leaving, quit being requested and the      *)
(* database server coming up are not assumed to happen.                    *)
(***************************************************************************)
Fairness ==
    /\ WF_vars(MainStep)
    /\ \A c \in Conns :
          /\ WF_vars(CommandDone(c))
          /\ WF_vars(CreateDone(c))
          /\ WF_vars(UseSearch(c))
          /\ WF_vars(RetrievalServed(c) \/ RetrievalTimeout(c))
          /\ WF_vars(ConnQuit(c))

Spec == Init /\ [][Next]_vars /\ Fairness

----------------------------------------------------------------------------
TypeOK ==
    /\ main \in BootPhases \cup QuitPhases \cup {"Running", "Fatal"}
    /\ pgData \in BOOLEAN
    /\ RM!TypeOK
    /\ tries \in 0..MaxOpenTries
    /\ dbServer \in {"Down", "Starting", "Up", "Exited"}
    /\ threads \in [Services -> {"None", "Running", "Stopped"}]
    /\ searchMgr \in {"None", "Alive", "Deleted"}
    /\ conn \in [Conns -> ConnStates]
    /\ quitReq \in [Conns -> BOOLEAN]
    /\ connList \in Seq(Conns)

Working == {"Busy", "Search", "Retrieve", "Create"}

(***************************************************************************)
(* When quit() closes the DataStore and stops the database, no connection  *)
(* thread is left: "Terminate the preprocessor manager before the database *)
(* but after all connections are gone", and the Q_ASSERT that no database  *)
(* connection remains (akonadi.cpp:191-195).                               *)
(***************************************************************************)
ConnectionsGoneBeforeClose ==
    main \in {"StopDb", "StopDbTerm", "QuitDone", "Exited"}
      => \A c \in Conns : conn[c] \in {"None", "Gone"}

(***************************************************************************)
(* A quit() that has started ends in QCoreApplication::exit(): every wait  *)
(* of quitThread() returns, because each connection finishes its command   *)
(* and leaves its event loop when asked.                                   *)
(***************************************************************************)
QuitCompletes == alreadyShutdown ~> main = "Exited"

(***************************************************************************)
(* No connection thread calls the search manager after quit() deleted it   *)
(* (spec: services are torn down at shutdown, after their users).          *)
(***************************************************************************)
SearchNotUsedAfterDelete == searchUse # "Deleted"

(***************************************************************************)
(* No collection is left referring to a resource that is gone: removing a *)
(* resource takes its collections with it (resourcemanager.cpp:63-69),     *)
(* also when connections keep creating collections meanwhile.              *)
(***************************************************************************)
NoOrphanCollections == RM!NoOrphanCollections

(***************************************************************************)
(* Once the DataStore is open, the schema DataStore::init() had           *)
(* DbInitializer create keeps the column constraints of the template,     *)
(* whichever driver it was built for: the four dialect builders agree on  *)
(* NOT NULL, keys, UNIQUE, auto-increment, references and defaults,        *)
(* except that SQLite declares no foreign key and Virtuoso no              *)
(* CURRENT_TIMESTAMP default.                                              *)
(***************************************************************************)
SchemaKeepsColumns == storeOpen => DbInit!SchemaKeepsColumns

====
