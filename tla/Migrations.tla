----------------------------- MODULE Migrations -----------------------------
(***************************************************************************)
(* storage/postgres Migrate: processes that start at the same time on one  *)
(* database, of releases that embed more or fewer migrations.  Each runs   *)
(* all that are missing, with their registration, in one transaction that  *)
(* holds an advisory lock from its first statement to its end.             *)
(*                                                                         *)
(* A call that gives up (its timeout, or its death) leaves its transaction *)
(* behind, which ends later: rolled back, or committed if COMMIT was sent. *)
(***************************************************************************)
EXTENDS Naturals, Sequences, SequencesExt

CONSTANTS
    Process,    \* processes that start
    Version,    \* migrations, named by their files
    Files,      \* the files each process embeds, sorted by name
    NoProcess,  \* nobody holds the lock
    MaxFaults   \* bound: calls that fail or are given up

ASSUME MigrationsAssumption ==
    /\ NoProcess \notin Process
    /\ \A p \in Process : Files[p] \in Seq(Version) /\ IsInjective(Files[p])
    /\ MaxFaults \in Nat

VARIABLES
    schema,     \* the migrations whose statements are committed, as they ran
    registry,   \* the committed rows of eventatlas_schema_migrations
    created,    \* whether that table exists
    lock,       \* the transaction that holds the advisory lock
    tx,         \* the transaction of each process
    call,       \* what the process knows of its call of Migrate
    faults

database == <<schema, registry, created>>
migrateVars == <<database, lock, tx, call, faults>>

\* The statement a transaction is about to run, the file the loop is at, and what
\* it has written.
NoTx == [at |-> "none", next |-> 1, created |-> FALSE, ran |-> <<>>, recorded |-> {}]

Open(p) == tx[p].at # "none"
File(p) == Files[p][tx[p].next]
Applied(p) == File(p) \in registry \cup tx[p].recorded

Locked == {"create", "check", "run", "record", "commit"}

MigrateTypeOK ==
    /\ schema \in Seq(Version) /\ IsInjective(schema)
    /\ registry \subseteq Version /\ created \in BOOLEAN
    /\ lock \in Process \cup {NoProcess}
    /\ lock # NoProcess => tx[lock].at \in Locked
    /\ \A p \in Process :
          /\ tx[p].at \in {"none", "lock"} \cup Locked
          /\ tx[p].next \in 1..Len(Files[p]) + 1
          /\ tx[p].created \in BOOLEAN /\ tx[p].recorded \subseteq Version
          /\ tx[p].ran \in Seq(Version)
    /\ call \in [Process -> {"idle", "called", "committed", "ready", "failed"}]
    /\ faults \in 0..MaxFaults

MigrateInit ==
    /\ schema = <<>> /\ registry = {} /\ created = FALSE
    /\ lock = NoProcess
    /\ tx = [p \in Process |-> NoTx]
    /\ call = [p \in Process |-> "idle"]
    /\ faults = 0

-----------------------------------------------------------------------------

\* A process starts, or is started again when its last transaction has ended.
Begin(p) ==
    /\ call[p] \in {"idle", "failed"} /\ ~Open(p)
    /\ call' = [call EXCEPT ![p] = "called"]
    /\ tx' = [tx EXCEPT ![p].at = "lock"]
    /\ UNCHANGED <<database, lock, faults>>

\* The client runs a statement and gets its result.
Runs(p, at, result) ==
    /\ tx[p].at = at /\ call[p] = "called"
    /\ tx' = [tx EXCEPT ![p] = result]
    /\ UNCHANGED <<database, call, faults>>

\* Mutant: no lock is taken.
LockNothing(p) ==
    Runs(p, "lock", [tx[p] EXCEPT !.at = "create"]) /\ UNCHANGED lock

\* pg_advisory_xact_lock waits until nobody holds the lock.
Lock(p) ==
    /\ lock = NoProcess /\ lock' = p
    /\ Runs(p, "lock", [tx[p] EXCEPT !.at = "create"])

\* CREATE TABLE IF NOT EXISTS.
CreateRegistry(p) ==
    /\ Runs(p, "create", [tx[p] EXCEPT !.at = "check", !.created = ~created])
    /\ UNCHANGED lock

\* What is registered is skipped.
Check(p) ==
    /\ tx[p].next <= Len(Files[p])
    /\ \/ Applied(p) /\ Runs(p, "check", [tx[p] EXCEPT !.next = @ + 1])
       \/ ~Applied(p) /\ Runs(p, "check", [tx[p] EXCEPT !.at = "run"])
    /\ UNCHANGED lock

\* Its statements create tables: they would wait for a transaction that has created
\* the same ones and fail when these exist, but never meet either.
RunMigration(p) ==
    /\ Runs(p, "run", [tx[p] EXCEPT !.at = "record", !.ran = Append(@, File(p))])
    /\ ~Contains(schema, File(p))
    /\ \A q \in Process \ {p} : ~Contains(tx[q].ran, File(p))
    /\ UNCHANGED lock

\* Mutant: the registration is committed by itself.
RecordByPool(p) ==
    /\ tx[p].at = "record" /\ call[p] = "called"
    /\ registry' = registry \cup {File(p)}
    /\ tx' = [tx EXCEPT ![p].at = "check", ![p].next = @ + 1]
    /\ UNCHANGED <<schema, created, lock, call, faults>>

Record(p) ==
    /\ Runs(p, "record", [tx[p] EXCEPT !.at = "check", !.next = @ + 1,
                                       !.recorded = @ \cup {File(p)}])
    /\ UNCHANGED lock

\* All files are done: COMMIT is sent.
SendCommit(p) ==
    /\ tx[p].next > Len(Files[p])
    /\ Runs(p, "check", [tx[p] EXCEPT !.at = "commit"])
    /\ UNCHANGED lock

\* The server commits, whether or not the client still waits for it.
Commit(p) ==
    /\ tx[p].at = "commit"
    /\ schema' = schema \o tx[p].ran
    /\ registry' = registry \cup tx[p].recorded
    /\ created' = (created \/ tx[p].created)
    /\ lock' = NoProcess
    /\ tx' = [tx EXCEPT ![p] = NoTx]
    /\ call' = [call EXCEPT ![p] = IF @ = "called" THEN "committed" ELSE @]
    /\ UNCHANGED faults

Succeed(p) ==
    /\ call[p] = "committed"
    /\ call' = [call EXCEPT ![p] = "ready"]
    /\ UNCHANGED <<database, lock, tx, faults>>

\* A statement fails, or the client gives up or dies before it is answered.
Fail(p) ==
    /\ call[p] \in {"called", "committed"} /\ faults < MaxFaults
    /\ faults' = faults + 1
    /\ call' = [call EXCEPT ![p] = "failed"]
    /\ UNCHANGED <<database, lock, tx>>

\* Mutant: the lock of a failed call is kept.
RollbackKeepsLock(p) ==
    /\ call[p] = "failed" /\ Open(p) /\ lock # p
    /\ tx' = [tx EXCEPT ![p] = NoTx]
    /\ UNCHANGED <<database, lock, call, faults>>

\* The deferred rollback, or the server's when the connection is gone.
Rollback(p) ==
    /\ call[p] = "failed" /\ Open(p)
    /\ tx' = [tx EXCEPT ![p] = NoTx]
    /\ lock' = IF lock = p THEN NoProcess ELSE lock
    /\ UNCHANGED <<database, call, faults>>

Migrate(p) ==
    \/ Lock(p) \/ CreateRegistry(p) \/ Check(p) \/ RunMigration(p) \/ Record(p)
    \/ SendCommit(p) \/ Commit(p) \/ Succeed(p) \/ Rollback(p)

MigrateNext == \E p \in Process : Begin(p) \/ Migrate(p) \/ Fail(p)

MigrateSpec == MigrateInit /\ [][MigrateNext]_migrateVars

\* A statement that does not wait returns, COMMIT is answered and open transactions
\* end; who waits for the lock gets it, as PostgreSQL queues the waiters.
FairMigrateSpec == /\ MigrateSpec
            /\ \A p \in Process : WF_migrateVars(Migrate(p)) /\ SF_migrateVars(Lock(p))

-----------------------------------------------------------------------------

\* Nothing runs without being registered, nor is registered without having run,
\* wherever a start is interrupted: all of a call is one transaction
\* (migrations.go:37-81).
SchemaIsRegistered == {schema[i] : i \in DOMAIN schema} = registry

\* A process that starts at the same time as others is not failed by them: none of
\* its migrations has been run since it looked (migrations.go:42-44).
NoStarterFailsAnother ==
    \A p \in Process : tx[p].at = "run" =>
        /\ ~Contains(schema, File(p))
        /\ \A q \in Process \ {p} : ~Contains(tx[q].ran, File(p))

\* Each start ends, also behind one that was interrupted while it held the lock.
EveryStartEnds == \A p \in Process : call[p] = "called" ~> call[p] # "called"

=============================================================================
