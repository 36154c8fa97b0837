----------------------------- MODULE Lifecycle -----------------------------
(***************************************************************************)
(* The life of the service's processes: app.Run, migrations.Up, server.Run *)
(* and main.  Instances of two revisions overlap while one is deployed,    *)
(* and each migrates the shared database before it serves; one may be      *)
(* signalled, or killed, at any point.                                     *)
(*                                                                         *)
(* The configuration is valid.  golang-migrate, Postgres and net/http are  *)
(* external, and modelled as far as the code relies on them: an advisory   *)
(* lock that the database hands out in the order in which it was asked for *)
(* and drops with the connection, a version with a dirty flag set before   *)
(* each migration and cleared after it, and migrations of one implicit     *)
(* transaction each.                                                       *)
(***************************************************************************)
EXTENDS Naturals

CONSTANTS
    Instances,  \* processes, each started again and again
    NoInstance,
    Requests,   \* the requests that one instance may have in flight
    Newest,     \* the newest migration there is
    Latest      \* the newest migration embedded in each instance's revision

ASSUME Revisions ==
    /\ Newest \in Nat
    /\ Latest \in [Instances -> 0 .. Newest]
    /\ NoInstance \notin Instances

Migrations == 1 .. Newest

VARIABLES
    up,       \* whether the database can be reached
    version,  \* schema_migrations: the version ...
    dirty,    \* ... and whether its migration is under way
    applied,  \* how many times each migration's SQL was committed
    lock,     \* the holder of the migration lock
    pc,       \* where each instance is, or how its process ended
    signal,   \* instances that were sent SIGTERM
    status,   \* what Run is about to return
    req       \* the requests in flight

vars == <<up, version, dirty, applied, lock, pc, signal, status, req>>

schema == <<version, dirty, applied>>
process == <<signal, status, req>>

Migrating == {"locked", "migrate", "marked", "ran"}
Waiting == {"table", "lock", "gave_up"}
Starting == {"ping", "ready"} \cup Waiting \cup Migrating
Running == {"serving", "draining", "closing"}
Ended == {"off", "exited", "failed", "killed"}

TypeOK ==
    /\ up \in BOOLEAN
    /\ version \in 0 .. Newest
    /\ dirty \in BOOLEAN
    /\ applied \in [Migrations -> Nat]
    /\ lock \in Instances \cup {NoInstance}
    /\ pc \in [Instances -> Starting \cup Running \cup Ended]
    /\ signal \in SUBSET Instances
    /\ status \in [Instances -> {"ok", "error"}]
    /\ req \in [Instances -> [Requests -> {"none", "busy", "querying"}]]

NoRequests == [q \in Requests |-> "none"]

\* A database that some revision before these left migrated.
Init ==
    /\ up \in BOOLEAN
    /\ version \in 0 .. Newest
    /\ dirty = FALSE
    /\ applied = [m \in Migrations |-> IF m <= version THEN 1 ELSE 0]
    /\ lock = NoInstance
    /\ pc = [i \in Instances |-> "off"]
    /\ signal = {}
    /\ status = [i \in Instances |-> "ok"]
    /\ req = [i \in Instances |-> NoRequests]

Unlocked(i) == IF lock = i THEN NoInstance ELSE lock

-----------------------------------------------------------------------------
(* The environment: the platform, the database's network, the clients.     *)

\* The platform starts a process; the pool opens without a connection.
Boot(i) ==
    /\ pc[i] \in Ended
    /\ pc' = [pc EXCEPT ![i] = "ping"]
    /\ signal' = signal \ {i}
    /\ status' = [status EXCEPT ![i] = "ok"]
    /\ UNCHANGED <<up, schema, lock, req>>

Sigterm(i) ==
    /\ pc[i] \notin Ended
    /\ i \notin signal
    /\ signal' = signal \cup {i}
    /\ UNCHANGED <<up, schema, lock, pc, status, req>>

Kill(i) ==
    /\ pc[i] \notin Ended
    /\ pc' = [pc EXCEPT ![i] = "killed"]
    /\ lock' = Unlocked(i)
    /\ req' = [req EXCEPT ![i] = NoRequests]
    /\ UNCHANGED <<up, schema, signal, status>>

\* Connections break: whoever waits for the lock or holds it gets an error, and
\* statements end with one.
Outage ==
    /\ up
    /\ up' = FALSE
    /\ pc' = [i \in Instances |-> IF pc[i] \in Migrating \cup Waiting THEN "failed" ELSE pc[i]]
    /\ lock' = NoInstance
    /\ req' = [i \in Instances |->
                  [q \in Requests |-> IF req[i][q] = "querying" THEN "busy" ELSE req[i][q]]]
    /\ UNCHANGED <<schema, signal, status>>

OutageEnds ==
    /\ ~up
    /\ up' = TRUE
    /\ UNCHANGED <<schema, lock, pc, process>>

-----------------------------------------------------------------------------
(* Startup: app.Run up to the server, with migrations.Up.                  *)

\* PingContext runs under the context that a signal ends.
Ping(i) ==
    /\ pc[i] = "ping"
    /\ pc' = [pc EXCEPT ![i] = IF up /\ i \notin signal THEN "table" ELSE "failed"]
    /\ UNCHANGED <<up, schema, lock, process>>

\* From here on no signal is looked at.  WithInstance creates the version table, if there
\* is none, under the lock, for which it waits without a timeout.
EnsureTable(i) ==
    /\ pc[i] = "table"
    /\ lock = NoInstance
    /\ pc' = [pc EXCEPT ![i] = "lock"]
    /\ UNCHANGED <<up, schema, lock, process>>

\* Runner.Up takes the lock ...
Lock(i) ==
    /\ pc[i] = "lock"
    /\ lock = NoInstance
    /\ lock' = i
    /\ pc' = [pc EXCEPT ![i] = "locked"]
    /\ UNCHANGED <<up, schema, process>>

\* ... or stops waiting for it, with an error.
LockTimeout(i) ==
    /\ pc[i] = "lock"
    /\ lock # NoInstance
    /\ pc' = [pc EXCEPT ![i] = "gave_up"]
    /\ UNCHANGED <<up, schema, lock, process>>

\* The statement that asks for the lock is still there, and the deferred Close of the
\* runner waits for it: it takes the lock, which goes with the connection.
GiveUp(i) ==
    /\ pc[i] = "gave_up"
    /\ lock = NoInstance
    /\ pc' = [pc EXCEPT ![i] = "failed"]
    /\ UNCHANGED <<up, schema, lock, process>>

\* Wrong, for mutation: a dirty version is taken back and run again.
ReadVersionAgain(i) ==
    /\ pc[i] = "locked"
    /\ IF version > Latest[i]
         THEN pc' = [pc EXCEPT ![i] = "failed"] /\ lock' = NoInstance
         ELSE pc' = [pc EXCEPT ![i] = "migrate"] /\ UNCHANGED lock
    /\ version' = IF dirty THEN version - 1 ELSE version
    /\ dirty' = FALSE
    /\ UNCHANGED <<up, applied, process>>

\* A dirty version, and one that this revision has no migration for, are errors.
ReadVersion(i) ==
    /\ pc[i] = "locked"
    /\ IF dirty \/ version > Latest[i]
         THEN pc' = [pc EXCEPT ![i] = "failed"] /\ lock' = NoInstance
         ELSE pc' = [pc EXCEPT ![i] = "migrate"] /\ UNCHANGED lock
    /\ UNCHANGED <<up, schema, process>>

\* The next migration's version is written, dirty.
Mark(i) ==
    /\ pc[i] = "migrate"
    /\ version < Latest[i]
    /\ version' = version + 1
    /\ dirty' = TRUE
    /\ pc' = [pc EXCEPT ![i] = "marked"]
    /\ UNCHANGED <<up, applied, lock, process>>

RunSQL(i) ==
    /\ pc[i] = "marked"
    /\ applied' = [applied EXCEPT ![version] = applied[version] + 1]
    /\ pc' = [pc EXCEPT ![i] = "ran"]
    /\ UNCHANGED <<up, version, dirty, lock, process>>

\* Wrong, for mutation: the error of a migration is only logged.
SQLFailsLogged(i) ==
    /\ pc[i] = "marked"
    /\ pc' = [pc EXCEPT ![i] = "ready"]
    /\ lock' = NoInstance
    /\ UNCHANGED <<up, schema, process>>

SQLFails(i) ==
    /\ pc[i] = "marked"
    /\ pc' = [pc EXCEPT ![i] = "failed"]
    /\ lock' = NoInstance
    /\ UNCHANGED <<up, schema, process>>

Clean(i) ==
    /\ pc[i] = "ran"
    /\ dirty' = FALSE
    /\ pc' = [pc EXCEPT ![i] = "migrate"]
    /\ UNCHANGED <<up, version, applied, lock, process>>

\* Nothing is left to apply (ErrNoChange, when nothing was to begin with).
Migrated(i) ==
    /\ pc[i] = "migrate"
    /\ version = Latest[i]
    /\ lock' = NoInstance
    /\ pc' = [pc EXCEPT ![i] = "ready"]
    /\ UNCHANGED <<up, schema, process>>

-----------------------------------------------------------------------------
(* The server: server.Run, then the deferred closing of the pool.          *)

Listen(i) ==
    /\ pc[i] = "ready"
    /\ pc' = [pc EXCEPT ![i] = "serving"]
    /\ UNCHANGED <<up, schema, lock, process>>

Admit(i) ==
    /\ pc[i] = "serving"
    /\ \E q \in Requests :
        /\ req[i][q] = "none"
        /\ req' = [req EXCEPT ![i][q] = "busy"]
    /\ UNCHANGED <<up, schema, lock, pc, signal, status>>

\* A handler takes a connection, unless the pool is closed or has none to give;
\* then it goes on with an error.
Query(i, q) ==
    /\ req[i][q] = "busy"
    /\ pc[i] \in {"serving", "draining"}
    /\ up
    /\ req' = [req EXCEPT ![i][q] = "querying"]
    /\ UNCHANGED <<up, schema, lock, pc, signal, status>>

QueryEnds(i, q) ==
    /\ req[i][q] = "querying"
    /\ req' = [req EXCEPT ![i][q] = "busy"]
    /\ UNCHANGED <<up, schema, lock, pc, signal, status>>

Answer(i, q) ==
    /\ req[i][q] = "busy"
    /\ req' = [req EXCEPT ![i][q] = "none"]
    /\ UNCHANGED <<up, schema, lock, pc, signal, status>>

\* ListenAndServe returns an error: Run returns it without a shutdown.
ListenFails(i) ==
    /\ pc[i] = "serving"
    /\ pc' = [pc EXCEPT ![i] = "closing"]
    /\ status' = [status EXCEPT ![i] = "error"]
    /\ UNCHANGED <<up, schema, lock, signal, req>>

\* The signal's context is done: Shutdown closes the listener.
Shutdown(i) ==
    /\ pc[i] = "serving"
    /\ i \in signal
    /\ pc' = [pc EXCEPT ![i] = "draining"]
    /\ UNCHANGED <<up, schema, lock, process>>

\* Shutdown returns when every request is answered ...
Drained(i) ==
    /\ pc[i] = "draining"
    /\ req[i] = NoRequests
    /\ pc' = [pc EXCEPT ![i] = "closing"]
    /\ UNCHANGED <<up, schema, lock, process>>

\* Wrong, for mutation: an overrun shutdown is no error.
ShutdownTimeoutIgnored(i) ==
    /\ pc[i] = "draining"
    /\ req[i] # NoRequests
    /\ pc' = [pc EXCEPT ![i] = "closing"]
    /\ UNCHANGED <<up, schema, lock, process>>

\* Wrong, for mutation: the shutdown has no timeout.
ShutdownPatient(i) ==
    /\ FALSE
    /\ UNCHANGED vars

\* ... or with an error after cfg.ShutdownTimeout.
ShutdownTimeout(i) ==
    /\ pc[i] = "draining"
    /\ req[i] # NoRequests
    /\ pc' = [pc EXCEPT ![i] = "closing"]
    /\ status' = [status EXCEPT ![i] = "error"]
    /\ UNCHANGED <<up, schema, lock, signal, req>>

\* The pool's Close waits for the connections in use; then main returns, or
\* exits with an error, and the requests still in flight die with the process.
Exit(i) ==
    /\ pc[i] = "closing"
    /\ \A q \in Requests : req[i][q] # "querying"
    /\ pc' = [pc EXCEPT ![i] = IF status[i] = "ok" THEN "exited" ELSE "failed"]
    /\ req' = [req EXCEPT ![i] = NoRequests]
    /\ UNCHANGED <<up, schema, lock, signal, status>>

Startup(i) ==
    \/ Ping(i) \/ EnsureTable(i) \/ Lock(i) \/ LockTimeout(i) \/ GiveUp(i)
    \/ ReadVersion(i) \/ Mark(i) \/ RunSQL(i) \/ SQLFails(i) \/ Clean(i) \/ Migrated(i)
    \/ Listen(i)

Stop(i) == Shutdown(i) \/ Drained(i) \/ ShutdownTimeout(i) \/ Exit(i)

Next ==
    \/ Outage \/ OutageEnds
    \/ \E i \in Instances :
        \/ Boot(i) \/ Sigterm(i) \/ Kill(i) \/ Startup(i) \/ Stop(i)
        \/ Admit(i) \/ ListenFails(i)
        \/ \E q \in Requests : Query(i, q) \/ QueryEnds(i, q) \/ Answer(i, q)

Spec == Init /\ [][Next]_vars

\* Processes run, shutdowns time out, and statements end; one that waits for the lock
\* gets its turn if the lock is free again and again.  A handler need not end: an
\* upload may outlast every timeout.
FairSpec == Spec /\ \A i \in Instances :
    /\ WF_vars(Startup(i))
    /\ SF_vars(EnsureTable(i) \/ GiveUp(i))
    /\ WF_vars(Stop(i))
    /\ \A q \in Requests : WF_vars(QueryEnds(i, q))

-----------------------------------------------------------------------------
(* What must hold.                                                         *)

\* An instance accepts requests only on a schema with every migration that its
\* revision was built for, although others migrate, die halfway and leave the
\* schema dirty.
ServingNeedsSchema ==
    \A i \in Instances : pc[i] \in Running =>
        \A m \in 1 .. Latest[i] : applied[m] > 0

\* No migration's SQL is run to its end twice, however many instances start at
\* once and whenever they die.
MigrationsRunOnce == \A m \in Migrations : applied[m] <= 1

\* In a process that exits with status 0 the handler of every accepted request has
\* returned, though what it wrote may have come after the server's write timeout.
CleanExitsAnswerAll ==
    [][\A i \in Instances :
          pc[i] = "closing" /\ pc'[i] = "exited" => req[i] = NoRequests]_vars

\* A signalled process ends, whatever its requests do.
SignalsEndProcesses == \A i \in Instances : i \in signal ~> pc[i] \in Ended

\* README.md:55: "The service itself does not fail startup on a transient
\* database outage".
StartupSurvivesOutage ==
    [][\A i \in Instances :
          ~up /\ i \notin signal /\ pc[i] \in Starting => pc'[i] # "failed"]_vars
=============================================================================
