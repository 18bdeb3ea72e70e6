----------------------------- MODULE Lifecycle -----------------------------
(***************************************************************************)
(* The life of the instances of the service: openDB with its migration,    *)
(* connectJWKS with its attempts, serving, the signal, and the end.  They  *)
(* share the schema; the database and the provider come and go.  Any       *)
(* instance may be killed at any point and started again.  Redis is not    *)
(* here: connectRedis goes on without it.                                  *)
(*                                                                         *)
(* The migrator is golang-migrate.  docs/DESIGN.md says it takes no lock;  *)
(* its PostgreSQL driver takes an advisory one.  Both are covered.         *)
(***************************************************************************)
EXTENDS Naturals

CONSTANTS
  Instances,
  Attempts,            \* to load the key set: 5
  MaxStarts,           \* a bound: how often an instance is started
  MaxRotations,        \* a bound: how often the provider changes its keys
  Null

ASSUME AttemptsAssumption == Attempts \in Nat \ {0}
ASSUME BoundsAssumption == MaxStarts \in Nat /\ MaxRotations \in Nat
ASSUME NullAssumption == Null \notin Nat /\ Null \notin Instances

VARIABLES
  pc,          \* where in main an instance is
  attempt,     \* how many times it has asked for the key set
  keys,        \* the key set it holds, by the provider's latest key, or Null
  open,        \* whether it has a request in flight
  starts,      \* how often it was started
  schema,      \* version table and tables
  locks,       \* whether the migrator takes its advisory lock
  holder,      \* who holds it
  broken,      \* history: whether a migration that had begun failed or died
  up,          \* what can be reached
  signing      \* the key the provider signs with now

process == <<pc, attempt, keys, open, starts>>
shared == <<schema, locks, holder, broken>>
outside == <<up, signing>>
vars == <<process, shared, outside>>

Dependencies == {"database", "provider"}
Begun == {"mark", "apply", "clean"}
Migrating == {"version"} \cup Begun
Starting == {"ping", "lock"} \cup Migrating \cup {"jwks"}
Running == {"serving", "draining", "closing"}

TypeOK ==
  /\ pc \in [Instances -> Starting \cup Running \cup {"exited"}]
  /\ attempt \in [Instances -> 0..Attempts]
  /\ keys \in [Instances -> 0..MaxRotations \cup {Null}]
  /\ open \in [Instances -> BOOLEAN]
  /\ starts \in [Instances -> 0..MaxStarts]
  /\ schema \in [version : {"none", "dirty", "clean"}, tables : BOOLEAN]
  /\ locks \in BOOLEAN /\ holder \in Instances \cup {Null} /\ broken \in BOOLEAN
  /\ up \subseteq Dependencies /\ signing \in 0..MaxRotations

Init ==
  /\ pc = [i \in Instances |-> "exited"]
  /\ attempt = [i \in Instances |-> 0]
  /\ keys = [i \in Instances |-> Null]
  /\ open = [i \in Instances |-> FALSE]
  /\ starts = [i \in Instances |-> 0]
  /\ schema \in {[version |-> "none", tables |-> FALSE],
                 [version |-> "clean", tables |-> TRUE]}
  /\ locks \in BOOLEAN /\ holder = Null /\ broken = FALSE
  /\ up = Dependencies /\ signing = 0

-----------------------------------------------------------------------------
(* Startup. *)

At(i, p) == pc[i] = p
GoTo(i, p) == pc' = [pc EXCEPT ![i] = p]

\* The lock goes with the session that holds it.
Release(i) == holder' = IF holder = i THEN Null ELSE holder

Start(i) ==
  /\ At(i, "exited") /\ starts[i] < MaxStarts
  /\ GoTo(i, "ping")
  /\ starts' = [starts EXCEPT ![i] = @ + 1]
  /\ attempt' = [attempt EXCEPT ![i] = 0]
  /\ keys' = [keys EXCEPT ![i] = Null]
  /\ UNCHANGED <<open, shared, outside>>

\* The ping of openDB; an instance that cannot reach its database exits.
OpenDB(i) ==
  /\ At(i, "ping")
  /\ GoTo(i, IF "database" \in up THEN "lock" ELSE "exited")
  /\ UNCHANGED <<attempt, keys, open, starts, shared, outside>>

\* A mutation: the lock is tried, and nobody waits for it.
TakeLock_NoWait(i) ==
  /\ At(i, "lock")
  /\ GoTo(i, "version")
  /\ holder' = IF locks /\ holder = Null THEN i ELSE holder
  /\ UNCHANGED <<attempt, keys, open, starts, schema, locks, broken, outside>>

\* The migrator waits for the lock, for 15 seconds at most.
TakeLock(i) ==
  /\ At(i, "lock")
  /\ \/ /\ ~locks \/ holder = Null
        /\ GoTo(i, "version")
        /\ holder' = IF locks THEN i ELSE Null
     \/ locks /\ holder # Null /\ GoTo(i, "exited") /\ UNCHANGED holder
  /\ UNCHANGED <<attempt, keys, open, starts, schema, locks, broken, outside>>

\* A mutation: what the migrator reports of a dirty version is not fatal.
RunMigrations_IgnoresDirty(i) ==
  /\ At(i, "version")
  /\ \/ schema.version = "none" /\ GoTo(i, "mark") /\ UNCHANGED holder
     \/ schema.version \in {"clean", "dirty"} /\ GoTo(i, "jwks") /\ Release(i)
  /\ UNCHANGED <<attempt, keys, open, starts, schema, locks, broken, outside>>

\* Nothing to do is no error; a migration that was begun and not finished is.
RunMigrations(i) ==
  /\ At(i, "version")
  /\ \/ schema.version = "none"  /\ GoTo(i, "mark") /\ UNCHANGED holder
     \/ schema.version = "clean" /\ GoTo(i, "jwks") /\ Release(i)
     \/ schema.version = "dirty" /\ GoTo(i, "exited") /\ Release(i)
  /\ UNCHANGED <<attempt, keys, open, starts, schema, locks, broken, outside>>

\* The migrator marks the version dirty, applies the file, and marks it clean.
Migrate(i) ==
  /\ \/ /\ At(i, "mark") /\ GoTo(i, "apply")
        /\ schema' = [schema EXCEPT !.version = "dirty"]
        /\ UNCHANGED holder
     \/ /\ At(i, "apply") /\ ~schema.tables /\ GoTo(i, "clean")
        /\ schema' = [schema EXCEPT !.tables = TRUE]
        /\ UNCHANGED holder
     \/ /\ At(i, "apply") /\ schema.tables   \* without a lock: CREATE TABLE fails
        /\ GoTo(i, "exited") /\ Release(i)
        /\ UNCHANGED schema
     \/ /\ At(i, "clean") /\ GoTo(i, "jwks") /\ Release(i)
        /\ schema' = [schema EXCEPT !.version = "clean"]
  /\ UNCHANGED <<attempt, keys, open, starts, locks, broken, outside>>

\* A migration that had begun leaves what it has done.
BreaksMigration(i) == broken' = (broken \/ pc[i] \in Begun)

\* A statement of the migration fails, or takes effect and its answer is lost.
FailMigration(i) ==
  /\ pc[i] \in Migrating
  /\ GoTo(i, "exited") /\ Release(i) /\ BreaksMigration(i)
  /\ \/ UNCHANGED schema
     \/ At(i, "mark")  /\ schema' = [schema EXCEPT !.version = "dirty"]
     \/ At(i, "apply") /\ schema' = [schema EXCEPT !.tables = TRUE]
     \/ At(i, "clean") /\ schema' = [schema EXCEPT !.version = "clean"]
  /\ UNCHANGED <<attempt, keys, open, starts, locks, outside>>

\* A mutation: the provider is waited for as long as it takes.
ConnectJWKS_Forever(i) ==
  /\ At(i, "jwks")
  /\ \/ /\ "provider" \in up
        /\ keys' = [keys EXCEPT ![i] = signing] /\ GoTo(i, "serving")
     \/ "provider" \notin up /\ UNCHANGED <<keys, pc>>
  /\ UNCHANGED <<attempt, open, starts, shared, outside>>

\* A mutation: one attempt more.
ConnectJWKS_OneMore(i) ==
  /\ At(i, "jwks")
  /\ attempt' = [attempt EXCEPT ![i] = @ + 1]
  /\ \/ /\ "provider" \in up
        /\ keys' = [keys EXCEPT ![i] = signing] /\ GoTo(i, "serving")
     \/ /\ "provider" \notin up
        /\ UNCHANGED keys
        /\ IF attempt[i] = Attempts THEN GoTo(i, "serving") ELSE UNCHANGED pc
  /\ UNCHANGED <<open, starts, shared, outside>>

\* One attempt to load the key set.  After the last the instance serves without.
ConnectJWKS(i) ==
  /\ At(i, "jwks")
  /\ attempt' = [attempt EXCEPT ![i] = @ + 1]
  /\ \/ /\ "provider" \in up
        /\ keys' = [keys EXCEPT ![i] = signing] /\ GoTo(i, "serving")
     \/ /\ "provider" \notin up
        /\ UNCHANGED keys
        /\ IF attempt[i] + 1 = Attempts THEN GoTo(i, "serving") ELSE UNCHANGED pc
  /\ UNCHANGED <<open, starts, shared, outside>>

-----------------------------------------------------------------------------
(* Serving. *)

\* A mutation: the key set is loaded once.
RefreshKeys_Never(i) == FALSE /\ UNCHANGED vars

\* Every five minutes; a failure keeps the keys there are.  A key set that was not
\* loaded at startup is never asked for again.
RefreshKeys(i) ==
  /\ pc[i] \in {"serving", "draining"} /\ keys[i] # Null
  /\ "provider" \in up
  /\ keys' = [keys EXCEPT ![i] = signing]
  /\ UNCHANGED <<pc, attempt, open, starts, shared, outside>>

Arrive(i) ==
  /\ pc[i] \in Running /\ ~open[i]
  /\ open' = [open EXCEPT ![i] = TRUE]
  /\ UNCHANGED <<pc, attempt, keys, starts, shared, outside>>

Finish(i) ==
  /\ open[i]
  /\ open' = [open EXCEPT ![i] = FALSE]
  /\ UNCHANGED <<pc, attempt, keys, starts, shared, outside>>

-----------------------------------------------------------------------------
(* The end. *)

\* What os.Exit, a signal before signal.Notify, or a crash leaves of an instance.
Die(i) ==
  /\ GoTo(i, "exited") /\ Release(i) /\ BreaksMigration(i)
  /\ open' = [open EXCEPT ![i] = FALSE]
  /\ UNCHANGED <<attempt, keys, starts, schema, locks, outside>>

Kill(i) == ~At(i, "exited") /\ Die(i)

\* A signal, or a listener that fails, wakes runServer; before that it kills.
Signal(i) ==
  \/ pc[i] \in Starting /\ Die(i)
  \/ /\ At(i, "serving") /\ GoTo(i, "draining")
     /\ UNCHANGED <<attempt, keys, open, starts, shared, outside>>

\* The requests e.Shutdown waits for: those of echo's own http.Server.  runServer
\* serves with a server of its own, which echo starts and does not keep.
OwnServerRequests(i) == {}

\* A mutation: it waits for the last request, however long that takes.
Shutdown_NoDeadline(i) ==
  /\ At(i, "draining") /\ ~open[i]
  /\ GoTo(i, "closing")
  /\ UNCHANGED <<attempt, keys, open, starts, shared, outside>>

\* e.Shutdown returns, and the cleanup closes the pool and Redis.
Shutdown(i) ==
  /\ At(i, "draining")
  /\ OwnServerRequests(i) = {}
  /\ GoTo(i, "closing")
  /\ UNCHANGED <<attempt, keys, open, starts, shared, outside>>

Exit(i) == At(i, "closing") /\ Die(i)

-----------------------------------------------------------------------------
Toggle(d) ==
  /\ up' = IF d \in up THEN up \ {d} ELSE up \cup {d}
  /\ UNCHANGED <<signing, process, shared>>

\* The provider signs with a new key from now on, and publishes it.
Rotate ==
  /\ signing < MaxRotations
  /\ signing' = signing + 1
  /\ UNCHANGED <<up, process, shared>>

Step(i) ==
  \/ OpenDB(i) \/ TakeLock(i) \/ RunMigrations(i) \/ Migrate(i) \/ ConnectJWKS(i)
  \/ Shutdown(i) \/ Exit(i)

Next ==
  \/ \E i \in Instances :
       \/ Start(i) \/ Step(i) \/ FailMigration(i) \/ RefreshKeys(i)
       \/ Arrive(i) \/ Finish(i) \/ Signal(i) \/ Kill(i)
  \/ \E d \in Dependencies : Toggle(d)
  \/ Rotate

Spec == Init /\ [][Next]_vars

\* main goes on by itself, and so does the ticker of the key set.
FairSpec == Spec /\ \A i \in Instances : WF_vars(Step(i)) /\ WF_vars(RefreshKeys(i))

-----------------------------------------------------------------------------
\* However many instances start at once, die in the middle of the migration and
\* are started again, with the migrator's lock or without it: no instance gets
\* past openDB without the tables (runMigrations: every error but "no change" is
\* fatal).
ServesMigratedSchema ==
  \A i \in Instances : pc[i] \in {"jwks"} \cup Running => schema.tables

\* With the migrator's lock, instances that start together never leave the schema
\* dirty, which would keep every later one from starting (runMigrations: a dirty
\* version is an error): it is dirty while its migration goes on, or after one that
\* had begun failed or died.  Two that both saw no version would break it.
DirtyOnlyByFault ==
  locks /\ schema.version = "dirty" =>
    broken \/ \E i \in Instances : pc[i] \in {"apply", "clean"}

\* Starting ends, in serving or in an exit, whatever can be reached and whoever
\* holds the lock; and so does stopping, whatever requests do (connectJWKS: "once
\* the attempts are spent"; runServer: "within a deadline").
Settles ==
  \A i \in Instances :
    pc[i] \in Starting \cup {"draining", "closing"} ~> pc[i] \in {"serving", "exited"}

\* An instance that has a key set comes to accept the key the provider signs with
\* once the provider stays up, without being restarted (RefreshInterval).
KeysCatchUp ==
  \A i \in Instances :
    <>[](At(i, "serving") /\ keys[i] # Null /\ "provider" \in up) => <>[](keys[i] = signing)

\* runServer: "drains in-flight requests within a deadline and runs the cleanup".
\* Shutdown here has returned before the deadline.
DrainsInFlight ==
  [][\A i \in Instances : At(i, "draining") /\ At(i, "closing")' => ~open[i]]_vars

=============================================================================
