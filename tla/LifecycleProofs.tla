-------------------------- MODULE LifecycleProofs --------------------------
(***************************************************************************)
(* The schema an instance serves, and what leaves it dirty, for every      *)
(* number of instances, attempts, restarts and changes of keys.            *)
(***************************************************************************)
EXTENDS Lifecycle, TLAPS

\* Attempts are left as long as the instance has not begun to serve.
AttemptsLeft == \A i \in Instances : pc[i] \in Starting => attempt[i] < Attempts

\* The tables are there when the version says so, and when an instance is about
\* to say so or is past the migration.
TablesThere ==
  /\ schema.version = "clean" => schema.tables
  /\ \A i \in Instances : pc[i] \in {"clean", "jwks"} \cup Running => schema.tables

\* Who migrates holds the lock, if there is one.
LockHeld == \A i \in Instances : (holder = i) <=> (locks /\ pc[i] \in Migrating)

\* How far the schema is.  Whoever holds the lock finds it as it has left it.
Unmigrated ==
  schema.version = "none" =>
    ~schema.tables /\ \A i \in Instances : pc[i] \notin {"apply", "clean"}

OneMigrates ==
  locks => \A i \in Instances : /\ pc[i] = "mark" => schema.version = "none"
                                /\ pc[i] = "apply" => ~schema.tables

SoundMigration == LockHeld /\ Unmigrated /\ OneMigrates /\ DirtyOnlyByFault

IInv == TypeOK /\ AttemptsLeft /\ TablesThere /\ SoundMigration

USE DEF Begun, Migrating, Starting, Running, At, GoTo, Release

-----------------------------------------------------------------------------
\* Before anything is started.
LEMMA InvInit == Init => IInv
<1> SUFFICES ASSUME Init PROVE IInv
  OBVIOUS
<1>1. TypeOK
  <2>1. schema \in [version : {"none", "dirty", "clean"}, tables : BOOLEAN]
    <3>1. \E v \in {"none", "clean"}, t \in BOOLEAN : schema = [version |-> v, tables |-> t]
      BY DEF Init
    <3> QED
      BY <3>1
  <2>2. broken \in BOOLEAN
    BY DEF Init
  <2> QED
    BY <2>1, <2>2, AttemptsAssumption, BoundsAssumption, NullAssumption DEF Init, TypeOK
<1>2. AttemptsLeft /\ TablesThere
  BY DEF Init, AttemptsLeft, TablesThere
<1>3. SoundMigration
  BY NullAssumption DEF Init, SoundMigration, LockHeld, Unmigrated, OneMigrates, DirtyOnlyByFault
<1> QED
  BY <1>1, <1>2, <1>3 DEF IInv

\* A step of main before the migration.
LEMMA EarlyStep ==
  ASSUME IInv, NEW i \in Instances, Start(i) \/ OpenDB(i) \/ TakeLock(i)
  PROVE  IInv'
<1>1. TypeOK'
  <2>1. CASE Start(i)
    BY <2>1, AttemptsAssumption, BoundsAssumption, NullAssumption DEF Start, IInv, TypeOK, shared, outside
  <2>2. CASE OpenDB(i)
    BY <2>2, NullAssumption DEF OpenDB, IInv, TypeOK, shared, outside
  <2>3. CASE TakeLock(i)
    BY <2>3, NullAssumption DEF TakeLock, IInv, TypeOK, outside
  <2> QED
    BY <2>1, <2>2, <2>3
<1>2. AttemptsLeft'
  BY AttemptsAssumption DEF Start, OpenDB, TakeLock, IInv, TypeOK, AttemptsLeft
<1>3. TablesThere'
  BY DEF Start, OpenDB, TakeLock, shared, IInv, TypeOK, TablesThere
<1>4. SoundMigration'
  <2>1. /\ UNCHANGED <<schema, locks, broken>>
        /\ \E p \in {"ping", "lock", "version", "exited"} :
             /\ pc' = [pc EXCEPT ![i] = p]
             /\ p # "version" => holder' = holder
             /\ p = "version" => /\ ~locks \/ holder = Null
                                 /\ holder' = IF locks THEN i ELSE Null
        /\ pc[i] \in {"exited", "ping", "lock"}
    BY DEF Start, OpenDB, TakeLock, shared
  <2>2. LockHeld'
    BY <2>1, NullAssumption DEF IInv, TypeOK, SoundMigration, LockHeld
  <2>3. (Unmigrated /\ OneMigrates /\ DirtyOnlyByFault)'
    BY <2>1 DEF IInv, TypeOK, SoundMigration, Unmigrated, OneMigrates, DirtyOnlyByFault
  <2> QED
    BY <2>2, <2>3 DEF SoundMigration
<1> QED
  BY <1>1, <1>2, <1>3, <1>4 DEF IInv

\* With the lock, nobody else is in the migration of who migrates.
LEMMA Alone ==
  ASSUME IInv, NEW i \in Instances, locks, pc[i] \in Migrating
  PROVE  \A j \in Instances \ {i} : pc[j] \notin Migrating
  BY DEF IInv, SoundMigration, LockHeld

\* Who leaves the migration leaves the lock.
LEMMA LockLeft ==
  ASSUME IInv, NEW i \in Instances, UNCHANGED locks,
         NEW p \in Running \cup Migrating \cup {"jwks", "exited"},
         pc' = [pc EXCEPT ![i] = p],
         \/ p \in Migrating /\ pc[i] \in Migrating /\ UNCHANGED holder
         \/ p \notin Migrating /\ pc[i] \notin Migrating /\ UNCHANGED holder
         \/ p \notin Migrating /\ Release(i)
  PROVE  LockHeld'
  BY NullAssumption DEF IInv, TypeOK, SoundMigration, LockHeld

\* The migration: the version is marked clean only by who has seen the tables
\* made, and the tables never go.
LEMMA MigrationStep ==
  ASSUME IInv, NEW i \in Instances, RunMigrations(i) \/ Migrate(i) \/ FailMigration(i)
  PROVE  IInv'
<1>1. /\ UNCHANGED <<attempt, keys, open, starts, locks, outside>>
      /\ pc[i] \in Migrating /\ broken' \in BOOLEAN /\ (broken => broken')
      /\ \E p \in Migrating \cup {"jwks", "exited"} :
           /\ pc' = [pc EXCEPT ![i] = p]
           /\ p \in Migrating => holder' = holder
           /\ p \notin Migrating => Release(i)
  BY DEF RunMigrations, Migrate, FailMigration, BreaksMigration, IInv, TypeOK
<1>2. /\ schema' \in [version : {"none", "dirty", "clean"}, tables : BOOLEAN]
      /\ schema.tables => schema'.tables
      /\ schema'.version = "clean" => schema'.tables
      /\ pc'[i] \in {"clean", "jwks"} => schema'.tables
  BY DEF RunMigrations, Migrate, FailMigration, IInv, TypeOK, TablesThere
<1>3. TypeOK'
  BY <1>1, <1>2, NullAssumption DEF IInv, TypeOK, outside
<1>4. AttemptsLeft'
  BY <1>1 DEF IInv, TypeOK, AttemptsLeft
<1>5. TablesThere'
  BY <1>1, <1>2 DEF IInv, TypeOK, TablesThere
<1>6. LockHeld'
  BY <1>1, LockLeft
<1>7. Unmigrated'
  BY DEF RunMigrations, Migrate, FailMigration, IInv, TypeOK, SoundMigration, Unmigrated
<1>8. OneMigrates' /\ DirtyOnlyByFault'
  <2> SUFFICES ASSUME locks PROVE OneMigrates' /\ DirtyOnlyByFault'
    BY <1>1 DEF OneMigrates, DirtyOnlyByFault
  <2>1. \A j \in Instances \ {i} : pc'[j] = pc[j] /\ pc'[j] \notin Migrating
    BY <1>1, Alone DEF IInv, TypeOK
  <2>2. CASE RunMigrations(i)
    BY <2>1, <2>2 DEF RunMigrations, IInv, TypeOK, SoundMigration, Unmigrated, OneMigrates,
      DirtyOnlyByFault
  <2>3. CASE Migrate(i)
    BY <2>1, <2>3 DEF Migrate, IInv, TypeOK, SoundMigration, Unmigrated, OneMigrates,
      DirtyOnlyByFault
  <2>4. CASE FailMigration(i)
    <3>1. OneMigrates'
      BY <2>1, <2>4 DEF FailMigration, IInv, TypeOK, OneMigrates
    <3>2. pc[i] \in Begun => broken'
      BY <2>4 DEF FailMigration, BreaksMigration
    <3>3. pc[i] = "version" => schema' = schema /\ broken' = broken
      BY <2>4 DEF FailMigration, BreaksMigration, IInv, TypeOK
    <3>4. pc[i] = "version" => DirtyOnlyByFault'
      BY <2>1, <3>3 DEF IInv, SoundMigration, DirtyOnlyByFault
    <3> QED
      BY <1>1, <3>1, <3>2, <3>4 DEF DirtyOnlyByFault
  <2> QED
    BY <2>2, <2>3, <2>4
<1> QED
  BY <1>3, <1>4, <1>5, <1>6, <1>7, <1>8 DEF IInv, SoundMigration

\* An attempt to load the key set.
LEMMA ConnectJWKSStep ==
  ASSUME IInv, NEW i \in Instances, ConnectJWKS(i)
  PROVE  IInv'
<1>1. /\ pc[i] = "jwks" /\ UNCHANGED <<open, starts, shared, outside>>
      /\ attempt' = [attempt EXCEPT ![i] = @ + 1]
      /\ \/ pc' = [pc EXCEPT ![i] = "serving"]
         \/ pc' = pc /\ attempt[i] + 1 # Attempts
      /\ keys' = keys \/ keys' = [keys EXCEPT ![i] = signing]
  BY DEF ConnectJWKS
<1>2. attempt[i] \in Nat /\ attempt[i] < Attempts
  BY <1>1, AttemptsAssumption DEF IInv, TypeOK, AttemptsLeft
<1>3. TypeOK'
  BY <1>1, <1>2, AttemptsAssumption, NullAssumption DEF IInv, TypeOK, shared, outside
<1>4. AttemptsLeft'
  BY <1>1, <1>2, AttemptsAssumption DEF IInv, TypeOK, AttemptsLeft
<1>5. TablesThere'
  BY <1>1 DEF IInv, TypeOK, TablesThere, shared
<1>6. SoundMigration'
  BY <1>1 DEF IInv, TypeOK, SoundMigration, LockHeld, Unmigrated, OneMigrates,
    DirtyOnlyByFault, shared
<1> QED
  BY <1>3, <1>4, <1>5, <1>6 DEF IInv

\* What an instance does while it serves, and its end.
LEMMA ServingStep ==
  ASSUME IInv, NEW i \in Instances,
         RefreshKeys(i) \/ Arrive(i) \/ Finish(i) \/ Signal(i) \/ Kill(i)
           \/ Shutdown(i) \/ Exit(i)
  PROVE  IInv'
<1>1. /\ UNCHANGED <<attempt, starts, schema, locks, outside>>
      /\ keys' = keys \/ keys' = [keys EXCEPT ![i] = signing]
      /\ open' = open \/ \E b \in BOOLEAN : open' = [open EXCEPT ![i] = b]
      /\ broken' \in BOOLEAN
  BY DEF RefreshKeys, Arrive, Finish, Signal, Kill, Shutdown, Exit, Die, shared, IInv, TypeOK,
    BreaksMigration
<1>2. \/ UNCHANGED <<pc, holder, broken>>
      \/ pc' = [pc EXCEPT ![i] = "exited"] /\ Release(i) /\ BreaksMigration(i)
      \/ /\ pc[i] \in Running /\ UNCHANGED <<holder, broken>>
         /\ \E p \in {"draining", "closing"} : pc' = [pc EXCEPT ![i] = p]
  BY DEF RefreshKeys, Arrive, Finish, Signal, Kill, Shutdown, Exit, Die, shared
<1>3. TypeOK'
  BY <1>1, <1>2, NullAssumption DEF IInv, TypeOK, outside
<1>4. AttemptsLeft'
  BY <1>1, <1>2 DEF IInv, TypeOK, AttemptsLeft
<1>5. TablesThere'
  BY <1>1, <1>2 DEF IInv, TypeOK, TablesThere
<1>6. LockHeld'
  <2>1. CASE UNCHANGED <<pc, holder, broken>>
    BY <1>1, <2>1 DEF IInv, SoundMigration, LockHeld
  <2> QED
    BY <1>1, <1>2, <2>1, LockLeft
<1>7. Unmigrated' /\ OneMigrates'
  BY <1>1, <1>2 DEF IInv, TypeOK, SoundMigration, Unmigrated, OneMigrates
<1>8. DirtyOnlyByFault'
  <2>1. broken => broken'
    BY <1>2 DEF BreaksMigration
  <2>2. \A j \in Instances : pc[j] \in {"apply", "clean"} => pc'[j] = pc[j] \/ broken'
    BY <1>2 DEF BreaksMigration, IInv, TypeOK
  <2> QED
    BY <1>1, <2>1, <2>2 DEF IInv, SoundMigration, DirtyOnlyByFault
<1> QED
  BY <1>3, <1>4, <1>5, <1>6, <1>7, <1>8 DEF IInv, SoundMigration

\* What the instances depend on comes and goes.
LEMMA OutsideStep ==
  ASSUME IInv, Rotate \/ \E d \in Dependencies : Toggle(d)
  PROVE  IInv'
<1>1. /\ UNCHANGED <<process, shared>>
      /\ up' \subseteq Dependencies /\ signing' \in 0..MaxRotations
  BY BoundsAssumption DEF Rotate, Toggle, IInv, TypeOK
<1> QED
  BY <1>1 DEF IInv, TypeOK, AttemptsLeft, TablesThere, SoundMigration, LockHeld, Unmigrated,
    OneMigrates, DirtyOnlyByFault, process, shared

\* Every step of an instance, or of what surrounds it, keeps the invariant.
LEMMA InvStep == IInv /\ [Next]_vars => IInv'
<1> SUFFICES ASSUME IInv, [Next]_vars PROVE IInv'
  OBVIOUS
<1>1. CASE UNCHANGED vars
  BY <1>1 DEF vars, process, shared, outside, IInv, TypeOK, AttemptsLeft, TablesThere,
    SoundMigration, LockHeld, Unmigrated, OneMigrates, DirtyOnlyByFault
<1>2. ASSUME NEW i \in Instances, Start(i) \/ OpenDB(i) \/ TakeLock(i) PROVE IInv'
  BY <1>2, EarlyStep
<1>3. ASSUME NEW i \in Instances, RunMigrations(i) \/ Migrate(i) \/ FailMigration(i)
      PROVE  IInv'
  BY <1>3, MigrationStep
<1>4. ASSUME NEW i \in Instances, ConnectJWKS(i) PROVE IInv'
  BY <1>4, ConnectJWKSStep
<1>5. ASSUME NEW i \in Instances,
             RefreshKeys(i) \/ Arrive(i) \/ Finish(i) \/ Signal(i) \/ Kill(i)
               \/ Shutdown(i) \/ Exit(i)
      PROVE  IInv'
  BY <1>5, ServingStep
<1>6. CASE Rotate \/ \E d \in Dependencies : Toggle(d)
  BY <1>6, OutsideStep
<1> QED
  BY <1>1, <1>2, <1>3, <1>4, <1>5, <1>6 DEF Next, Step

\* The invariant holds in every state.
THEOREM Invariance == Spec => []IInv
<1>1. Init => IInv
  BY InvInit
<1>2. IInv /\ [Next]_vars => IInv'
  BY InvStep
<1> QED
  BY <1>1, <1>2, PTL DEF Spec

-----------------------------------------------------------------------------
\* Type correctness; with it, an instance asks for the key set at most Attempts
\* times in a life.
THEOREM LifecycleTyped == Spec => []TypeOK
  BY Invariance, PTL DEF IInv

\* No instance gets past openDB without the tables, whoever else migrates, fails
\* or dies at the same time, with the migrator's lock or without.
THEOREM SchemaServed == Spec => []ServesMigratedSchema
<1>1. IInv => ServesMigratedSchema
  BY DEF IInv, TablesThere, ServesMigratedSchema
<1> QED
  BY <1>1, Invariance, PTL

\* With the migrator's lock a dirty version is the mark of a migration that goes
\* on, or of a fault in one that had begun, however many instances race.
THEOREM DirtyByFault == Spec => []DirtyOnlyByFault
<1>1. IInv => DirtyOnlyByFault
  BY DEF IInv, SoundMigration
<1> QED
  BY <1>1, Invariance, PTL

=============================================================================
