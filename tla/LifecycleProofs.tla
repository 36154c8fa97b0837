-------------------------- MODULE LifecycleProofs --------------------------
(***************************************************************************)
(* Startup and shutdown for any number of instances, revisions, migrations *)
(* and requests.                                                           *)
(***************************************************************************)
EXTENDS Lifecycle, TLAPS

\* The lock is held by the one instance that migrates.
LockIsHeld == \A i \in Instances : pc[i] \in Migrating <=> lock = i

\* What was applied is what the version and its flag say; only the migration of
\* a dirty version may be in doubt.
SchemaIsTold == \A m \in Migrations :
    /\ m < version \/ (m = version /\ ~dirty) => applied[m] = 1
    /\ m > version => applied[m] = 0
    /\ applied[m] <= 1

\* The holder of the lock knows the schema's state.
HolderKnows == \A i \in Instances :
    /\ pc[i] = "migrate" => ~dirty /\ version <= Latest[i]
    /\ pc[i] = "marked" => dirty /\ version \in Migrations /\ version <= Latest[i] /\ applied[version] = 0
    /\ pc[i] = "ran" => dirty /\ version \in Migrations /\ version <= Latest[i] /\ applied[version] = 1

\* An instance past its migrations has them, and others can only add to them.
HasMigrated == \A i \in Instances :
    pc[i] \in Running \cup {"ready"} => Latest[i] < version \/ (Latest[i] = version /\ ~dirty)

Places == Starting \cup Running \cup Ended

MInv == TypeOK /\ LockIsHeld /\ SchemaIsTold /\ HolderKnows /\ HasMigrated

LEMMA Initially == Init => MInv
<1> SUFFICES ASSUME Init PROVE MInv
    OBVIOUS
<1>1. TypeOK
    BY Revisions DEF Init, TypeOK, Starting, Waiting, Running, Ended, Migrating, Migrations,
        NoRequests
<1>2. LockIsHeld
    BY Revisions DEF Init, LockIsHeld, Migrating
<1>3. SchemaIsTold
    BY Revisions DEF Init, SchemaIsTold, Migrations
<1>4. HolderKnows /\ HasMigrated
    BY DEF Init, HolderKnows, HasMigrated, Running
<1> QED
    BY <1>1, <1>2, <1>3, <1>4 DEF MInv

\* Steps that change neither the schema nor the lock, and take one instance
\* from one place outside the lock's section to another.
LEMMA OutsideTheLock ==
    ASSUME MInv, NEW i \in Instances, UNCHANGED <<schema, lock>>, TypeOK',
           \A j \in Instances \ {i} : pc'[j] = pc[j],
           pc[i] \notin Migrating, pc'[i] \notin Migrating,
           pc'[i] \in Running \cup {"ready"} => pc[i] \in Running \cup {"ready"}
    PROVE  MInv'
  BY DEF MInv, LockIsHeld, SchemaIsTold, HolderKnows, HasMigrated, schema, Migrating

LEMMA SameSchema ==
    ASSUME MInv, UNCHANGED <<schema, lock, pc>>, TypeOK'
    PROVE  MInv'
  BY DEF MInv, LockIsHeld, SchemaIsTold, HolderKnows, HasMigrated, schema

\* Steps that leave the section, giving the lock back.
LEMMA LeavingTheLock ==
    ASSUME MInv, NEW i \in Instances, UNCHANGED schema, TypeOK',
           \A j \in Instances \ {i} : pc'[j] = pc[j],
           pc'[i] \notin Migrating, lock' = Unlocked(i),
           pc'[i] \in Running \cup {"ready"} =>
               Latest[i] < version \/ (Latest[i] = version /\ ~dirty)
    PROVE  MInv'
<1>1. LockIsHeld'
    BY Revisions DEF MInv, LockIsHeld, Unlocked, TypeOK, Migrating
<1>2. SchemaIsTold' /\ HolderKnows' /\ HasMigrated'
    BY DEF MInv, SchemaIsTold, HolderKnows, HasMigrated, schema, Migrating
<1> QED
    BY <1>1, <1>2 DEF MInv

LEMMA TypeIsKept == TypeOK /\ [Next]_vars => TypeOK'
<1> SUFFICES ASSUME TypeOK, [Next]_vars PROVE TypeOK'
    OBVIOUS
<1> USE Revisions DEF TypeOK, Starting, Waiting, Running, Ended, Migrating, Migrations, schema, process
<1>0. NoRequests \in [Requests -> {"none", "busy", "querying"}]
    BY DEF NoRequests
<1>1. CASE Outage
    BY <1>1 DEF Outage
<1>2. CASE OutageEnds
    BY <1>2 DEF OutageEnds
<1>3. ASSUME NEW i \in Instances, Boot(i) \/ Sigterm(i) \/ Kill(i) PROVE TypeOK'
    <2>1. CASE Boot(i)
        BY <2>1 DEF Boot
    <2>2. CASE Sigterm(i)
        BY <2>2 DEF Sigterm
    <2>3. CASE Kill(i)
        BY <1>0, <2>3 DEF Kill, Unlocked
    <2> QED
        BY <1>3, <2>1, <2>2, <2>3
<1>4. ASSUME NEW i \in Instances, Startup(i) PROVE TypeOK'
    <2>0. CASE Ping(i) \/ EnsureTable(i) \/ LockTimeout(i) \/ GiveUp(i)
        BY <2>0 DEF Ping, EnsureTable, LockTimeout, GiveUp
    <2>1. CASE Lock(i) \/ ReadVersion(i)
        BY <2>1 DEF Lock, ReadVersion
    <2>2. CASE Mark(i)
        BY <2>2 DEF Mark
    <2>3. CASE RunSQL(i)
        <3>1. applied' \in [Migrations -> Nat]
            <4>1. CASE version \in Migrations
                BY <2>3, <4>1 DEF RunSQL
            <4>2. CASE version \notin Migrations
                BY <2>3, <4>2 DEF RunSQL
            <4> QED
                BY <4>1, <4>2
        <3> QED
            BY <2>3, <3>1 DEF RunSQL
    <2>4. CASE SQLFails(i) \/ Clean(i) \/ Migrated(i) \/ Listen(i)
        BY <2>4 DEF SQLFails, Clean, Migrated, Listen
    <2> QED
        BY <1>4, <2>0, <2>1, <2>2, <2>3, <2>4 DEF Startup
<1>5. ASSUME NEW i \in Instances, Stop(i) \/ ListenFails(i) PROVE TypeOK'
    <2>1. CASE Shutdown(i) \/ Drained(i)
        BY <2>1 DEF Shutdown, Drained
    <2>2. CASE ShutdownTimeout(i) \/ ListenFails(i)
        BY <2>2 DEF ShutdownTimeout, ListenFails
    <2>3. CASE Exit(i)
        <3>1. req' \in [Instances -> [Requests -> {"none", "busy", "querying"}]]
            BY <1>0, <2>3 DEF Exit
        <3>2. pc' \in [Instances -> Starting \cup Running \cup Ended]
            BY <2>3 DEF Exit
        <3> QED
            BY <2>3, <3>1, <3>2 DEF Exit
    <2> QED
        BY <1>5, <2>1, <2>2, <2>3 DEF Stop
<1>6. ASSUME NEW i \in Instances, Admit(i) PROVE TypeOK'
    BY <1>6 DEF Admit
<1>7. ASSUME NEW i \in Instances, NEW q \in Requests,
             Query(i, q) \/ QueryEnds(i, q) \/ Answer(i, q)
      PROVE  TypeOK'
    <2>1. req' \in [Instances -> [Requests -> {"none", "busy", "querying"}]]
        <3>1. PICK v \in {"none", "busy", "querying"} : req' = [req EXCEPT ![i][q] = v]
            BY <1>7 DEF Query, QueryEnds, Answer
        <3> QED
            BY <3>1
    <2> QED
        BY <1>7, <2>1 DEF Query, QueryEnds, Answer
<1>8. CASE UNCHANGED vars
    BY <1>8 DEF vars
<1> QED
    BY <1>1, <1>2, <1>3, <1>4, <1>5, <1>6, <1>7, <1>8 DEF Next

LEMMA StartupKeeps == ASSUME MInv, NEW i \in Instances, Startup(i), TypeOK' PROVE MInv'
<1>0. i # NoInstance
    BY Revisions
<1>1. CASE Ping(i)
    BY <1>1, OutsideTheLock DEF Ping, MInv, TypeOK, Migrating, Running
<1>2. CASE Lock(i)
    <2>1. LockIsHeld'
        BY <1>2, <1>0, Revisions DEF Lock, MInv, TypeOK, LockIsHeld, Migrating
    <2>2. SchemaIsTold' /\ HolderKnows' /\ HasMigrated'
        BY <1>2 DEF Lock, MInv, TypeOK, SchemaIsTold, HolderKnows, HasMigrated, schema,
            Migrating, Running
    <2> QED
        BY <2>1, <2>2 DEF MInv
<1>3. CASE EnsureTable(i) \/ LockTimeout(i) \/ GiveUp(i)
    BY <1>3, OutsideTheLock DEF EnsureTable, LockTimeout, GiveUp, MInv, TypeOK, Migrating, Running
<1>4. CASE ReadVersion(i)
    <2>1. lock = i
        BY <1>4 DEF ReadVersion, MInv, LockIsHeld, Migrating
    <2>2. CASE dirty \/ version > Latest[i]
        BY <1>4, <2>1, <2>2, LeavingTheLock
        DEF ReadVersion, Unlocked, MInv, TypeOK, Migrating, Running
    <2>3. CASE ~(dirty \/ version > Latest[i])
        BY <1>4, <2>1, <2>3, Revisions
        DEF ReadVersion, MInv, TypeOK, LockIsHeld, SchemaIsTold, HolderKnows, HasMigrated,
            schema, Migrating, Running
    <2> QED
        BY <2>2, <2>3
<1>5. CASE Mark(i)
    <2>1. /\ lock = i /\ ~dirty /\ version < Latest[i] /\ version' = version + 1 /\ dirty'
          /\ applied' = applied /\ lock' = lock /\ pc' = [pc EXCEPT ![i] = "marked"]
          /\ version \in Nat /\ version' \in Migrations /\ pc \in [Instances -> Places]
        BY <1>5, Revisions
        DEF Mark, MInv, TypeOK, LockIsHeld, HolderKnows, Migrating, Migrations, Places
    <2>2. LockIsHeld'
        BY <1>5, <2>1 DEF Mark, MInv, LockIsHeld, Migrating
    <2>3. SchemaIsTold'
        BY <2>1 DEF MInv, SchemaIsTold, Migrations
    <2>4. HolderKnows'
        <3>1. \A j \in Instances \ {i} : pc'[j] \notin Migrating
            BY <2>1, <2>2 DEF LockIsHeld
        <3>2. Latest[i] \in Nat
            BY Revisions
        <3>3. version' <= Latest[i] /\ version' > version
            BY <2>1, <3>2
        <3>4. applied'[version'] = 0
            BY <2>1, <3>3 DEF MInv, SchemaIsTold
        <3> QED
            BY <2>1, <3>1, <3>3, <3>4 DEF HolderKnows, Migrating
    <2>5. HasMigrated'
        <3>1. \A j \in Instances : Latest[j] \in Nat
            BY Revisions
        <3>2. \A j \in Instances :
                  pc'[j] \in Running \cup {"ready"} => pc[j] \in Running \cup {"ready"}
            BY <2>1 DEF Running
        <3>3. \A j \in Instances :
                  pc'[j] \in Running \cup {"ready"} => Latest[j] <= version
            BY <3>1, <3>2, <2>1 DEF MInv, HasMigrated
        <3>4. \A j \in Instances :
                  pc'[j] \in Running \cup {"ready"} => Latest[j] < version'
            BY <2>1, <3>1, <3>3
        <3> QED
            BY <3>4 DEF HasMigrated
    <2> QED
        BY <2>2, <2>3, <2>4, <2>5 DEF MInv
<1>6. CASE RunSQL(i)
    <2>1. /\ lock = i /\ dirty /\ version \in Migrations /\ version <= Latest[i]
          /\ applied[version] = 0
          /\ pc' = [pc EXCEPT ![i] = "ran"]
          /\ version' = version /\ dirty' = dirty /\ lock' = lock
          /\ pc \in [Instances -> Places]
        BY <1>6
        DEF RunSQL, MInv, TypeOK, LockIsHeld, HolderKnows, Migrating, Places
    <2>2. applied' = [applied EXCEPT ![version] = 1]
        BY <1>6, <2>1 DEF RunSQL
    <2>3. applied \in [Migrations -> Nat]
        BY DEF MInv, TypeOK
    <2>4. LockIsHeld'
        BY <1>6, <2>1 DEF RunSQL, MInv, LockIsHeld, Migrating
    <2>5. SchemaIsTold'
        BY <2>1, <2>2, <2>3 DEF MInv, SchemaIsTold, Migrations
    <2>6. HolderKnows'
        BY <2>1, <2>2, <2>3, <2>4 DEF MInv, HolderKnows, LockIsHeld, Migrating
    <2>7. HasMigrated'
        BY <2>1 DEF MInv, HasMigrated, Running
    <2> QED
        BY <2>4, <2>5, <2>6, <2>7 DEF MInv
<1>7. CASE SQLFails(i)
    <2>1. lock = i
        BY <1>7 DEF SQLFails, MInv, LockIsHeld, Migrating
    <2> QED
        BY <1>7, <2>1, LeavingTheLock DEF SQLFails, Unlocked, MInv, TypeOK, Migrating, Running
<1>8. CASE Clean(i)
    <2>1. /\ lock = i /\ dirty /\ version \in Migrations /\ version <= Latest[i]
          /\ applied[version] = 1
          /\ pc' = [pc EXCEPT ![i] = "migrate"] /\ dirty' = FALSE
          /\ version' = version /\ applied' = applied /\ lock' = lock
          /\ pc \in [Instances -> Places]
        BY <1>8
        DEF Clean, MInv, TypeOK, LockIsHeld, HolderKnows, Migrating, Places
    <2>2. LockIsHeld'
        BY <1>8, <2>1 DEF Clean, MInv, LockIsHeld, Migrating
    <2>3. SchemaIsTold'
        BY <2>1 DEF MInv, SchemaIsTold, Migrations
    <2>4. HolderKnows'
        BY <2>1, <2>2 DEF MInv, HolderKnows, LockIsHeld, Migrating
    <2>5. HasMigrated'
        BY <2>1 DEF MInv, HasMigrated, Running
    <2> QED
        BY <2>2, <2>3, <2>4, <2>5 DEF MInv
<1>9. CASE Migrated(i)
    <2>1. lock = i /\ ~dirty
        BY <1>9 DEF Migrated, MInv, LockIsHeld, HolderKnows, Migrating
    <2> QED
        BY <1>9, <2>1, LeavingTheLock DEF Migrated, Unlocked, MInv, TypeOK, Migrating
<1>10. CASE Listen(i)
    BY <1>10, OutsideTheLock DEF Listen, MInv, TypeOK, Migrating, Running
<1> QED
    BY <1>1, <1>2, <1>3, <1>4, <1>5, <1>6, <1>7, <1>8, <1>9, <1>10 DEF Startup

LEMMA MigrationsInductive == MInv /\ [Next]_vars => MInv'
<1> SUFFICES ASSUME MInv, [Next]_vars PROVE MInv'
    OBVIOUS
<1>0. TypeOK'
    BY TypeIsKept DEF MInv
<1>1. CASE Outage
    BY <1>0, <1>1, Revisions
    DEF Outage, MInv, TypeOK, LockIsHeld, SchemaIsTold, HolderKnows, HasMigrated, schema,
        Migrating, Waiting, Running
<1>2. CASE OutageEnds
    BY <1>0, <1>2, SameSchema DEF OutageEnds
<1>3. ASSUME NEW i \in Instances, Boot(i) \/ Sigterm(i) PROVE MInv'
    BY <1>0, <1>3, OutsideTheLock, SameSchema, SMTT(30)
    DEF Boot, Sigterm, MInv, TypeOK, Migrating, Running, Ended
<1>4. ASSUME NEW i \in Instances, Kill(i) PROVE MInv'
    BY <1>0, <1>4, LeavingTheLock DEF Kill, MInv, TypeOK, Migrating, Running
<1>5. ASSUME NEW i \in Instances, Startup(i) PROVE MInv'
    BY <1>0, <1>5, StartupKeeps
<1>6. ASSUME NEW i \in Instances, Stop(i) \/ ListenFails(i) PROVE MInv'
    BY <1>0, <1>6, OutsideTheLock
    DEF Stop, ListenFails, Shutdown, Drained, ShutdownTimeout, Exit, MInv, TypeOK, Migrating, Running
<1>7. ASSUME NEW i \in Instances, NEW q \in Requests,
             Query(i, q) \/ QueryEnds(i, q) \/ Answer(i, q)
      PROVE  MInv'
    BY <1>0, <1>7, SameSchema DEF Query, QueryEnds, Answer
<1>8. ASSUME NEW i \in Instances, Admit(i) PROVE MInv'
    BY <1>0, <1>8, SameSchema DEF Admit
<1>9. CASE UNCHANGED vars
    BY <1>0, <1>9, SameSchema DEF vars, schema
<1> QED
    BY <1>1, <1>2, <1>3, <1>4, <1>5, <1>6, <1>7, <1>8, <1>9 DEF Next

LEMMA MigrationsInvariance == Spec => []MInv
BY Initially, MigrationsInductive, PTL DEF Spec

\* The variables keep their types.
THEOREM TypeCorrectness == Spec => []TypeOK
BY MigrationsInvariance, PTL DEF MInv

\* An instance that serves has every migration its revision was built for,
\* whatever instances migrate beside it and wherever they die.
THEOREM ServedSchemaIsComplete == Spec => []ServingNeedsSchema
<1>1. MInv => ServingNeedsSchema
    <2> SUFFICES ASSUME MInv, NEW i \in Instances, pc[i] \in Running,
                        NEW m \in 1 .. Latest[i]
                 PROVE  applied[m] > 0
        BY DEF ServingNeedsSchema
    <2>1. Latest[i] \in 0 .. Newest /\ version \in 0 .. Newest /\ Newest \in Nat
        BY Revisions DEF MInv, TypeOK
    <2>2. Latest[i] < version \/ (Latest[i] = version /\ ~dirty)
        BY DEF MInv, HasMigrated
    <2>3. m \in Migrations /\ (m < version \/ (m = version /\ ~dirty))
        BY <2>1, <2>2 DEF Migrations
    <2> QED
        BY <2>3 DEF MInv, SchemaIsTold
<1> QED
    BY <1>1, MigrationsInvariance, PTL

\* No migration is applied twice, by any number of instances that start and die.
THEOREM NoMigrationRunsTwice == Spec => []MigrationsRunOnce
<1>1. MInv => MigrationsRunOnce
    BY DEF MInv, SchemaIsTold, MigrationsRunOnce
<1> QED
    BY <1>1, MigrationsInvariance, PTL

-----------------------------------------------------------------------------
\* A process on its way to exit with status 0 has no request left.
ExitsEmpty == \A i \in Instances :
    pc[i] = "closing" /\ status[i] = "ok" => req[i] = NoRequests

LEMMA ExitsInductive == TypeOK /\ ExitsEmpty /\ [Next]_vars => ExitsEmpty'
<1> SUFFICES ASSUME TypeOK, ExitsEmpty, [Next]_vars, NEW j \in Instances,
                    pc'[j] = "closing", status'[j] = "ok"
             PROVE  req'[j] = NoRequests
    BY DEF ExitsEmpty
<1> USE DEF TypeOK, ExitsEmpty
<1>1. CASE Outage
    <2>1. req[j] = NoRequests
        BY <1>1 DEF Outage, process
    <2> QED
        BY <1>1, <2>1 DEF Outage, NoRequests
<1>2. CASE OutageEnds \/ UNCHANGED vars
    BY <1>2 DEF OutageEnds, process, vars
<1>3. ASSUME NEW i \in Instances, Boot(i) \/ Sigterm(i) \/ Kill(i) PROVE req'[j] = NoRequests
    BY <1>3 DEF Boot, Sigterm, Kill
<1>4. ASSUME NEW i \in Instances, Startup(i) PROVE req'[j] = NoRequests
    BY <1>4 DEF Startup, Ping, EnsureTable, Lock, LockTimeout, GiveUp, ReadVersion, Mark, RunSQL,
        SQLFails, Clean, Migrated, Listen, process
<1>5. ASSUME NEW i \in Instances, Stop(i) \/ ListenFails(i) PROVE req'[j] = NoRequests
    BY <1>5 DEF Stop, ListenFails, Shutdown, Drained, ShutdownTimeout, Exit, process
<1>6. ASSUME NEW i \in Instances, Admit(i) PROVE req'[j] = NoRequests
    BY <1>6 DEF Admit
<1>7. ASSUME NEW i \in Instances, NEW q \in Requests,
             Query(i, q) \/ QueryEnds(i, q) \/ Answer(i, q)
      PROVE  req'[j] = NoRequests
    <2>1. req[i][q] # "none"
        BY <1>7 DEF Query, QueryEnds, Answer
    <2>2. req[i] # NoRequests
        BY <2>1 DEF NoRequests
    <2> QED
        BY <1>7, <2>2 DEF Query, QueryEnds, Answer
<1> QED
    BY <1>1, <1>2, <1>3, <1>4, <1>5, <1>6, <1>7 DEF Next

\* In a process that exits with status 0 the handler of every accepted request has returned.
THEOREM CleanExitLosesNothing == Spec => CleanExitsAnswerAll
<1> DEFINE AnswersAll == \A i \in Instances :
        pc[i] = "closing" /\ pc'[i] = "exited" => req[i] = NoRequests
<1>1. Init => ExitsEmpty
    BY DEF Init, ExitsEmpty
<1>2. TypeOK /\ ExitsEmpty /\ [Next]_vars => [AnswersAll]_vars
    <2> SUFFICES ASSUME TypeOK, ExitsEmpty, Next, NEW i \in Instances,
                        pc[i] = "closing", pc'[i] = "exited"
                 PROVE  req[i] = NoRequests
        BY DEF vars
    <2>1. Exit(i)
        BY DEF TypeOK, Next, Outage, OutageEnds, Boot, Sigterm, Kill, Startup, Ping, EnsureTable,
            Lock, LockTimeout, GiveUp, ReadVersion, Mark, RunSQL, SQLFails, Clean, Migrated,
            Listen, Stop, Shutdown, Drained, ShutdownTimeout, Exit, ListenFails, Admit, Query,
            QueryEnds, Answer
    <2> QED
        BY <2>1 DEF Exit, ExitsEmpty, TypeOK
<1> QED
    BY <1>1, <1>2, ExitsInductive, TypeCorrectness, PTL DEF Spec, CleanExitsAnswerAll

-----------------------------------------------------------------------------
(* What a process that died in a migration leaves behind, and what a newer *)
(* revision leaves to an older one.                                        *)

\* Nothing but the holder of the lock, past its check of the version, changes
\* the schema, and only then.
LEMMA SchemaSteps ==
    ASSUME MInv, [Next]_vars
    PROVE  \/ UNCHANGED schema
           \/ \E i \in Instances :
                  /\ pc[i] \in {"migrate", "marked", "ran"}
                  /\ version' \in Nat /\ version' >= version
<1> SUFFICES ASSUME ~UNCHANGED schema
             PROVE  \E i \in Instances :
                       /\ pc[i] \in {"migrate", "marked", "ran"}
                       /\ version' \in Nat /\ version' >= version
    OBVIOUS
<1>1. version \in Nat
    BY Revisions DEF MInv, TypeOK
<1>2. PICK i \in Instances : Startup(i)
    BY DEF Next, Outage, OutageEnds, Boot, Sigterm, Kill, Stop, Shutdown, Drained,
        ShutdownTimeout, Exit, Admit, ListenFails, Query, QueryEnds, Answer, vars, schema
<1>3. Mark(i) \/ RunSQL(i) \/ Clean(i)
    BY <1>2 DEF Startup, Ping, EnsureTable, Lock, LockTimeout, GiveUp, ReadVersion, SQLFails,
        Migrated, Listen
<1> QED
    BY <1>1, <1>3 DEF Mark, RunSQL, Clean

\* An instance gets ready only out of the migrations, at its own version, and
\* with the schema clean.
LEMMA ReadySteps ==
    ASSUME MInv, [Next]_vars, NEW i \in Instances, pc[i] # "ready", pc'[i] = "ready"
    PROVE  pc[i] = "migrate" /\ version = Latest[i] /\ ~dirty
<1>1. Migrated(i)
    BY DEF MInv, TypeOK, Next, Outage, OutageEnds, Boot, Sigterm, Kill, Startup, Ping, EnsureTable,
        Lock, LockTimeout, GiveUp, ReadVersion, Mark, RunSQL, SQLFails, Clean, Migrated,
        Listen, Stop, Shutdown, Drained, ShutdownTimeout, Exit, ListenFails, Admit, Query,
        QueryEnds, Answer, vars
<1> QED
    BY <1>1 DEF Migrated, MInv, HolderKnows

\* A migration was begun, and whoever began it is gone.
Abandoned == dirty /\ \A i \in Instances : pc[i] \notin {"marked", "ran"}

\* Once a process has ended in the middle of a migration (runner.go has no
\* recovery of a dirty version), no instance of any revision changes the schema
\* or gets ready to serve again.
THEOREM DirtyIsForGood ==
    Spec => [][Abandoned =>
                  /\ Abandoned' /\ UNCHANGED schema
                  /\ \A i \in Instances : pc'[i] = "ready" => pc[i] = "ready"]_vars
<1> DEFINE Stuck == Abandoned =>
        /\ Abandoned' /\ UNCHANGED schema
        /\ \A i \in Instances : pc'[i] = "ready" => pc[i] = "ready"
<1>1. ASSUME MInv, [Next]_vars, Abandoned
      PROVE  /\ Abandoned' /\ UNCHANGED schema
             /\ \A i \in Instances : pc'[i] = "ready" => pc[i] = "ready"
    <2>1. \A i \in Instances : pc[i] \notin {"migrate", "marked", "ran"}
        BY <1>1 DEF Abandoned, MInv, HolderKnows
    <2>2. UNCHANGED schema
        BY <1>1, <2>1, SchemaSteps
    <2>3. \A i \in Instances : pc'[i] = "ready" => pc[i] = "ready"
        BY <1>1, <2>1, ReadySteps
    <2>4. ASSUME NEW i \in Instances, pc'[i] \in {"marked", "ran"} PROVE FALSE
        BY <1>1, <2>1, <2>4
        DEF MInv, TypeOK, Next, Outage, OutageEnds, Boot, Sigterm, Kill, Startup, Ping, EnsureTable,
            Lock, LockTimeout, GiveUp, ReadVersion, Mark, RunSQL, SQLFails, Clean, Migrated,
            Listen, Stop, Shutdown, Drained, ShutdownTimeout, Exit, ListenFails, Admit, Query,
            QueryEnds, Answer, vars
    <2> QED
        BY <1>1, <2>2, <2>3, <2>4 DEF Abandoned, schema
<1>2. MInv /\ [Next]_vars => [Stuck]_vars
    BY <1>1
<1> QED
    BY <1>2, MigrationsInvariance, PTL DEF Spec

\* Once the schema is newer than what an instance's revision embeds, the schema
\* stays so, and no later start of that revision gets ready: a rollback to it
\* fails in Up (runner.go).
THEOREM OlderRevisionsStayOut ==
    Spec => [][\A i \in Instances : version > Latest[i] =>
                  version' > Latest[i] /\ (pc'[i] = "ready" => pc[i] = "ready")]_vars
<1> DEFINE Out == \A i \in Instances : version > Latest[i] =>
        version' > Latest[i] /\ (pc'[i] = "ready" => pc[i] = "ready")
<1>1. ASSUME MInv, [Next]_vars, NEW i \in Instances, version > Latest[i]
      PROVE  version' > Latest[i] /\ (pc'[i] = "ready" => pc[i] = "ready")
    <2>1. version \in Nat /\ Latest[i] \in Nat
        BY <1>1, Revisions DEF MInv, TypeOK
    <2>2. version' \in Nat /\ version' >= version
        BY <1>1, <2>1, SchemaSteps DEF schema
    <2>3. pc'[i] = "ready" => pc[i] = "ready"
        BY <1>1, <2>1, ReadySteps
    <2> QED
        BY <1>1, <2>1, <2>2, <2>3
<1>2. MInv /\ [Next]_vars => [Out]_vars
    BY <1>1
<1> QED
    BY <1>2, MigrationsInvariance, PTL DEF Spec
=============================================================================
