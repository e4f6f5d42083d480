-------------------------------- MODULE Migrate -------------------------------
(***************************************************************************)
(* Package migrate, statement by statement: programs that run              *)
(* Migrator.Migrate concurrently against one database.  Everything a call  *)
(* does is in one transaction, which starts by waiting for the advisory    *)
(* lock and loses all its effects, and the lock, when it fails; pgdb.Tx    *)
(* may then run it again.                                                  *)
(*                                                                         *)
(* The isolation level is the database's default or what the caller put in *)
(* the context (pgdb.WithTxOptions).  Under REPEATABLE READ the snapshot   *)
(* is taken by the transaction's first statement, the one that waits for   *)
(* the lock.                                                               *)
(***************************************************************************)
EXTENDS MigrateSpec

CONSTANTS
  RepeatableRead,  \* the programs whose transactions are REPEATABLE READ
  RetryDeadlock,   \* those with TxOptions.RetryDeadlock
  maxAttempts,     \* of pgdb.Tx
  Registered,      \* the groups that a program has registered to begin with
  NoOne            \* not a migrator: the lock is free

ASSUME MigrateAssumption ==
  /\ RepeatableRead \subseteq Migrator
  /\ RetryDeadlock \subseteq Migrator
  /\ maxAttempts \in Nat \ {0}
  /\ \A m \in Migrator : Registered[m] \subseteq DOMAIN Stmts[m]
  /\ NoOne \notin Migrator

VARIABLES
  groups,    \* groupMigs and groupDeps of each Migrator: its registered groups
  lock,      \* who holds pg_advisory_xact_lock(AdvisoryLockID)
  run        \* what each program is doing

vars == <<schema, version, groups, lock, run>>

Run ==
  [ pc       : {"idle", "begin", "lock", "groups", "apply"},
    order    : Seq(Group),
    next     : Nat,               \* index in order of the current group
    attempts : 0..maxAttempts,
    snapshot : [Group -> Int],    \* REPEATABLE READ: the versions it sees
    last     : Int,               \* version of the current group
    done     : Seq(Migration),    \* what its transaction applied
    wrote    : SUBSET Group ]     \* the groups whose version it has set

NoVersions == [g \in Group |-> -1]

NoRun == [ pc |-> "idle", order |-> <<>>, next |-> 1, attempts |-> 0,
           snapshot |-> NoVersions, last |-> -1, done |-> <<>>, wrote |-> {} ]

MInit ==
  /\ Init
  /\ groups = [m \in Migrator |-> Registered[m]]
  /\ lock = NoOne
  /\ run = [m \in Migrator |-> NoRun]

-----------------------------------------------------------------------------
Goto(m, r, pc) == run' = [run EXCEPT ![m] = [r EXCEPT !.pc = pc]]

\* Register; it is not for use while Migrate runs.  A group that is registered
\* already is an error, ErrGroupRegistered, and changes nothing.
Register(m, g) ==
  /\ run[m].pc = "idle"
  /\ g \notin groups[m]
  /\ groups' = [groups EXCEPT ![m] = @ \cup {g}]
  /\ UNCHANGED <<schema, version, lock, run>>

\* The calls of orderMigrationGroups and the prepare functions that precede
\* the transaction; an error there has no effect.
Call(m) ==
  /\ run[m].pc = "idle"
  /\ \E o \in orderMigrationGroups(groups[m]) : Goto(m, [NoRun EXCEPT !.order = o], "begin")
  /\ UNCHANGED <<schema, version, lock>>

\* BEGIN and the call of pg_advisory_xact_lock, that takes the snapshot.
RequestLock(m) ==
  /\ run[m].pc = "begin"
  /\ Goto(m, [run[m] EXCEPT !.attempts = @ + 1,
                            !.snapshot = IF m \in RepeatableRead THEN version ELSE @],
          "lock")
  /\ UNCHANGED <<schema, version, lock>>

\* Mutant: the lock is gone as soon as it is obtained, as if it had been taken
\* outside of the transaction.
AcquireNothing(m) ==
  /\ run[m].pc = "lock"
  /\ Goto(m, run[m], "groups")
  /\ UNCHANGED <<schema, version, lock>>

\* The lock is obtained.  The meta migrations follow: they are CREATE TABLE IF
\* NOT EXISTS, and a missing migrate_versions is as good as an empty one.
Acquire(m) ==
  /\ run[m].pc = "lock" /\ lock = NoOne
  /\ lock' = m
  /\ Goto(m, run[m], "groups")
  /\ UNCHANGED <<schema, version>>

Current(m) == run[m].order[run[m].next]

groupLastVersion(m, g) ==
  IF m \in RepeatableRead THEN run[m].snapshot[g] ELSE version[g]

\* Mutant: the version is written whether or not there was something to apply.
NeedsAlways(m, g, last) == TRUE

Needs(m, g, last) == Stmts[m][g] > last + 1

\* The loop over the groups: nothing to do for the next one, or the loop over
\* its statements begins.
NextGroup(m) ==
  /\ run[m].pc = "groups" /\ run[m].next <= Len(run[m].order)
  /\ LET last == groupLastVersion(m, Current(m))
     IN  \/ /\ Needs(m, Current(m), last)
            /\ Goto(m, [run[m] EXCEPT !.last = last], "apply")
         \/ /\ ~Needs(m, Current(m), last)
            /\ Goto(m, [run[m] EXCEPT !.next = @ + 1], "groups")
  /\ UNCHANGED <<schema, version, lock>>

\* applyMigrations: the next statement of stmts[last+1:].
Apply(m) ==
  /\ run[m].pc = "apply"
  /\ LET i == run[m].last + 1
     IN  /\ i < Stmts[m][Current(m)]
         /\ Goto(m, [run[m] EXCEPT
                       !.last = i,
                       !.done = Append(@, [g |-> Current(m), i |-> i, by |-> m])],
                 "apply")
  /\ UNCHANGED <<schema, version, lock>>

AllApplied(m) == run[m].pc = "apply" /\ run[m].last + 1 >= Stmts[m][Current(m)]

\* Mutant: a stale snapshot goes unnoticed.
WritableAlways(m, g) == TRUE

\* Under REPEATABLE READ a row that was written since the snapshot cannot be.
Writable(m, g) == m \in RepeatableRead => version[g] = run[m].snapshot[g]

setGroupLastVersion(m) ==
  /\ AllApplied(m)
  /\ Writable(m, Current(m))
  /\ Goto(m, [run[m] EXCEPT !.next = @ + 1, !.last = -1, !.wrote = @ \cup {Current(m)}],
          "groups")
  /\ UNCHANGED <<schema, version, lock>>

Commit(m) ==
  /\ run[m].pc = "groups" /\ run[m].next > Len(run[m].order)
  /\ schema' = schema \o run[m].done
  /\ version' = [g \in Group |-> IF g \in run[m].wrote THEN Stmts[m][g] - 1
                                                     ELSE version[g]]
  /\ lock' = IF lock = m THEN NoOne ELSE lock
  /\ Goto(m, NoRun, "idle")

-----------------------------------------------------------------------------
\* Mutant: pg_advisory_lock, which a rollback does not release.
RollbackKeepsLock(m) == UNCHANGED <<schema, version, lock>>

\* The end of a transaction that left nothing behind.
Rollback(m) ==
  /\ lock' = IF lock = m THEN NoOne ELSE lock
  /\ UNCHANGED <<schema, version>>

\* An error is returned, or the program died.
Fail(m) ==
  /\ run[m].pc # "idle"
  /\ Goto(m, NoRun, "idle")
  /\ Rollback(m)

\* Mutant: attempts <= maxAttempts.
RetryOnceMore(m) ==
  /\ IF m \in RetryDeadlock /\ run[m].attempts <= maxAttempts
     THEN Goto(m, [NoRun EXCEPT !.order = run[m].order, !.attempts = run[m].attempts],
               "begin")
     ELSE Goto(m, NoRun, "idle")
  /\ Rollback(m)

\* pgdb.Tx calls the function again, up to maxAttempts times in all.
RetryOrFail(m) ==
  /\ IF m \in RetryDeadlock /\ run[m].attempts < maxAttempts
     THEN Goto(m, [NoRun EXCEPT !.order = run[m].order, !.attempts = run[m].attempts],
               "begin")
     ELSE Goto(m, NoRun, "idle")
  /\ Rollback(m)

\* 40P01, from any statement.
Deadlock(m) ==
  /\ run[m].pc \in {"lock", "groups", "apply"}
  /\ RetryOrFail(m)

\* 40001, from setGroupLastVersion.
SerializationFailure(m) ==
  /\ AllApplied(m)
  /\ ~Writable(m, Current(m))
  /\ RetryOrFail(m)

\* What a call does if nothing goes wrong, except to wait for the lock.
Work(m) ==
  \/ RequestLock(m) \/ NextGroup(m) \/ Apply(m) \/ setGroupLastVersion(m)
  \/ Commit(m) \/ SerializationFailure(m)

MNext ==
  \E m \in Migrator :
    \/ \E g \in DOMAIN Stmts[m] : Register(m, g)
    \/ (Call(m) \/ Work(m) \/ Acquire(m) \/ Fail(m) \/ Deadlock(m)) /\ UNCHANGED groups

MSpec == MInit /\ [][MNext]_vars

(***************************************************************************)
(* The program and the database keep working (WF), and postgres grants a   *)
(* lock in the order of the requests, so that one who waits is not passed  *)
(* over for ever (SF).  Nobody has to call Migrate, and nothing has to     *)
(* fail.                                                                   *)
(***************************************************************************)
FairSpec ==
  /\ MSpec
  /\ \A m \in Migrator : WF_vars(Work(m) /\ UNCHANGED groups)
                         /\ SF_vars(Acquire(m) /\ UNCHANGED groups)

-----------------------------------------------------------------------------
\* The variables have the values that the code can give them; pgdb.Tx makes no
\* more than maxAttempts attempts.
MTypeOK ==
  /\ schema \in Seq(Migration)
  /\ version \in [Group -> Int]
  /\ groups \in [Migrator -> SUBSET Group]
  /\ lock \in Migrator \cup {NoOne}
  /\ run \in [Migrator -> Run]

(***************************************************************************)
(* Concurrent programs, with more or fewer migrations, that fail, retry or *)
(* die halfway, apply every migration of a group exactly once and in the   *)
(* order of the group, and the version recorded is that of the last one.   *)
(***************************************************************************)
ExactlyOnce ==
  \A g \in Group :
    /\ \A k \in DOMAIN schema : schema[k].g = g => schema[k].i \in 0..version[g]
    /\ \A i \in 0..version[g] : \E k \in DOMAIN schema : schema[k].g = g /\ schema[k].i = i
    /\ \A j, k \in DOMAIN schema :
         j < k /\ schema[j].g = g /\ schema[k].g = g => schema[j].i < schema[k].i

(***************************************************************************)
(* A migration is applied after all the migrations, that the same program  *)
(* knows, of the groups that its group was registered after.               *)
(***************************************************************************)
AfterDependencies ==
  \A k \in DOMAIN schema :
    \A d \in Deps[schema[k].g] : \A i \in 0..(Stmts[schema[k].by][d] - 1) :
      \E j \in 1..(k - 1) : schema[j].g = d /\ schema[j].i = i

(***************************************************************************)
(* A program with fewer migrations than the database never takes a group   *)
(* back to an older version.                                               *)
(***************************************************************************)
ForwardOnly == [][ \A g \in Group : version'[g] >= version[g] ]_vars

\* The promise, of the tables that an observer of the database sees.
Promise == INSTANCE MigrateSpec WITH schema <- schema, version <- version

\* Every step is an atomic upgrade, or nothing, to an observer of the database:
\* the uncommitted work, the lock and the retries do not show.
Implements == Promise!Spec

(***************************************************************************)
(* Migrate returns: a program that waits for the lock, or that has to      *)
(* start again, is not stuck.                                              *)
(***************************************************************************)
MigrateReturns == \A m \in Migrator : run[m].pc # "idle" ~> run[m].pc = "idle"
===============================================================================
