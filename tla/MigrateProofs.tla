---------------------------- MODULE MigrateProofs ------------------------------
(***************************************************************************)
(* For any number of programs, groups and migrations, whatever isolation   *)
(* level each program uses and whatever fails: migrations are applied      *)
(* exactly once, in order and after what they depend on, and Migrate is    *)
(* the atomic upgrade that MigrateSpec promises.                           *)
(***************************************************************************)
EXTENDS Migrate, SequenceTheorems, FiniteSetTheorems, TLAPS

-----------------------------------------------------------------------------
(* The inductive invariant.  The predicates on a run take the run r of m,  *)
(* the groups G that m has registered and the versions v in the database.  *)

\* The version of a group that the run reads.
Base(m, r, v, g) == IF m \in RepeatableRead THEN r.snapshot[g] ELSE v[g]

\* The run holds the lock.
Holds(r) == r.pc \in {"groups", "apply"}

\* A run that has not the lock yet has done nothing.
Untouched(r) == r.next = 1 /\ r.done = <<>> /\ r.wrote = {}

\* A snapshot is not of the future.
SnapshotOld(r, v) == \A g \in Group : -1 <= r.snapshot[g] /\ r.snapshot[g] <= v[g]

\* Of the groups it is through with, a run has written those that had to be.
Handled(m, r, v) ==
  /\ r.next \in 1..(Len(r.order) + 1)
  /\ r.pc = "apply" => r.next <= Len(r.order)
  /\ \A g \in r.wrote : /\ \E a \in 1..(r.next - 1) : r.order[a] = g
                        /\ v[g] + 1 < Stmts[m][g]
  /\ \A a \in 1..(r.next - 1) :
       r.order[a] \in r.wrote \/ Stmts[m][r.order[a]] <= v[r.order[a]] + 1

\* The group in hand is applied up to last.
InHand(m, r, v) ==
  r.pc = "apply" =>
    LET g == r.order[r.next]
    IN  /\ Base(m, r, v, g) + 1 < Stmts[m][g]
        /\ Base(m, r, v, g) <= r.last /\ r.last < Stmts[m][g]
        /\ \A i \in (Base(m, r, v, g) + 1)..r.last :
             \E k \in DOMAIN r.done : r.done[k].g = g /\ r.done[k].i = i

\* What its transaction has applied: the missing migrations of the groups it has
\* written, and some of the group in hand,
DoneOnly(m, r, v) ==
  \A k \in DOMAIN r.done :
    /\ r.done[k].by = m
    /\ \/ /\ r.done[k].g \in r.wrote
          /\ r.done[k].i \in (v[r.done[k].g] + 1)..(Stmts[m][r.done[k].g] - 1)
       \/ /\ r.pc = "apply" /\ r.done[k].g = r.order[r.next]
          /\ r.done[k].i \in (Base(m, r, v, r.done[k].g) + 1)..r.last

DoneAll(m, r, v) ==
  \A g \in r.wrote : \A i \in (v[g] + 1)..(Stmts[m][g] - 1) :
    \E k \in DOMAIN r.done : r.done[k].g = g /\ r.done[k].i = i

\* group by group, and one after the other,
DoneInOrder(r) ==
  \A j, k \in DOMAIN r.done : \A a, b \in DOMAIN r.order :
    j < k /\ r.done[j].g = r.order[a] /\ r.done[k].g = r.order[b] =>
      a < b \/ (a = b /\ r.done[j].i < r.done[k].i)

\* each after what its group depends on.
DoneAfterDeps(m, r, v) ==
  \A k \in DOMAIN r.done : \A d \in Deps[r.done[k].g] :
    \A i \in (v[d] + 1)..(Stmts[m][d] - 1) :
      \E j \in 1..(k - 1) : r.done[j].g = d /\ r.done[j].i = i

RunOK(m, r, G, v) ==
  /\ r.pc # "idle" => r.order \in orderMigrationGroups(G)
  /\ r.pc = "begin" => r.attempts < maxAttempts
  /\ ~Holds(r) => Untouched(r)
  /\ r.pc = "lock" \/ Holds(r) => SnapshotOld(r, v) \/ m \notin RepeatableRead
  /\ Holds(r) => /\ Handled(m, r, v) /\ InHand(m, r, v)
                 /\ DoneOnly(m, r, v) /\ DoneAll(m, r, v)
                 /\ DoneInOrder(r) /\ DoneAfterDeps(m, r, v)

Runs == \A m \in Migrator : RunOK(m, run[m], groups[m], version)

\* Only the holder of the lock reads versions and applies migrations.
LockHeld == \A m \in Migrator : lock = m <=> Holds(run[m])

IInv ==
  /\ MTypeOK
  /\ \A m \in Migrator : groups[m] \subseteq DOMAIN Stmts[m]
  /\ \A g \in Group : -1 <= version[g]
  /\ LockHeld
  /\ Runs
  /\ ExactlyOnce
  /\ AfterDependencies

-----------------------------------------------------------------------------
(* Sequences, and the orders of the groups. *)

\* A sequence is a function on its positions.
LEMMA SeqFacts ==
  ASSUME NEW S, NEW s \in Seq(S)
  PROVE  /\ Len(s) \in Nat /\ DOMAIN s = 1..Len(s)
         /\ \A k \in 1..Len(s) : s[k] \in S
  BY LenProperties, ElementOfSeq

\* One more migration.
LEMMA AppendFacts ==
  ASSUME NEW S, NEW s \in Seq(S), NEW x \in S
  PROVE  /\ Append(s, x) \in Seq(S) /\ Len(Append(s, x)) = Len(s) + 1
         /\ DOMAIN Append(s, x) = 1..(Len(s) + 1)
         /\ \A k \in 1..Len(s) : Append(s, x)[k] = s[k]
         /\ Append(s, x)[Len(s) + 1] = x
  BY AppendProperties, SeqFacts

\* What a commit adds.
LEMMA ConcatFacts ==
  ASSUME NEW S, NEW s \in Seq(S), NEW t \in Seq(S)
  PROVE  /\ s \o t \in Seq(S) /\ Len(s \o t) = Len(s) + Len(t)
         /\ DOMAIN (s \o t) = 1..(Len(s) + Len(t))
         /\ \A k \in 1..Len(s) : (s \o t)[k] = s[k]
         /\ \A k \in 1..Len(t) : (s \o t)[Len(s) + k] = t[k]
  <1>1. /\ s \o t \in Seq(S) /\ Len(s \o t) = Len(s) + Len(t)
        /\ \A i \in 1..(Len(s) + Len(t)) :
             (s \o t)[i] = IF i <= Len(s) THEN s[i] ELSE t[i - Len(s)]
    BY ConcatProperties
  <1>2. Len(s) \in Nat /\ Len(t) \in Nat
    BY SeqFacts
  <1>3. \A k \in 1..Len(t) :
          Len(s) + k \in 1..(Len(s) + Len(t)) /\ ~(Len(s) + k <= Len(s)) /\ (Len(s) + k) - Len(s) = k
    BY <1>2
  <1> QED
    BY <1>1, <1>2, <1>3, SeqFacts

\* Every group of o comes after those it depends on.
DepsFirst(o) == \A b \in 1..Len(o) : \A d \in Deps[o[b]] : \E a \in 1..(b - 1) : o[a] = d

\* An order of the groups lists each of them once, after those it depends on.
LEMMA OrderFacts ==
  ASSUME NEW m \in Migrator, NEW G, G \subseteq DOMAIN Stmts[m],
         NEW o \in orderMigrationGroups(G)
  PROVE  /\ o \in Seq(Group) /\ Len(o) \in Nat /\ DOMAIN o = 1..Len(o)
         /\ \A a \in 1..Len(o) : o[a] \in G /\ o[a] \in Group /\ Stmts[m][o[a]] \in Nat
         /\ \A a, b \in 1..Len(o) : o[a] = o[b] => a = b
         /\ \A g \in G : \E a \in 1..Len(o) : o[a] = g
         /\ DepsFirst(o)
  <1>1. G \subseteq Group /\ \A g \in G : Stmts[m][g] \in Nat
    BY MigrateSpecAssumption
  <1>2. IsFiniteSet(G)
    BY <1>1, MigrateSpecAssumption, FS_Subset
  <1> DEFINE n == Cardinality(G)
  <1>3. n \in Nat
    BY <1>2, FS_CardinalityType
  <1>4. /\ o \in [1..n -> G]
        /\ \A a, b \in 1..n : a # b => o[a] # o[b]
        /\ \A a, b \in 1..n : o[a] \in Deps[o[b]] => a < b
        /\ \A g \in G : Deps[g] \subseteq G
    BY DEF orderMigrationGroups
  <1>5. o \in Injection(1..n, G)
    BY <1>4 DEF Injection, IsInjective
  <1>6. Cardinality(1..n) = n
    BY <1>3, FS_Interval
  <1>7. o \in Surjection(1..n, G)
    BY <1>2, <1>5, <1>6, FS_Injection
  <1>8. \A g \in G : \E a \in 1..n : o[a] = g
    BY <1>7 DEF Surjection
  <1> HIDE DEF n
  <1>9. o \in Seq(Group) /\ Len(o) = n /\ DOMAIN o = 1..n
    <2>1. o \in [1..n -> Group]
      BY <1>1, <1>4
    <2>2. o \in Seq(Group)
      BY <1>3, <2>1, SeqDef
    <2> QED
      BY <1>3, <2>1, <2>2, LenProperties
  <1> QED
    BY <1>1, <1>3, <1>4, <1>8, <1>9 DEF DepsFirst

-----------------------------------------------------------------------------
(* What changes in a run, and what of it matters. *)

\* The fields of a run have their types.
LEMMA RunFields ==
  ASSUME NEW r \in Run
  PROVE  /\ r.pc \in {"idle", "begin", "lock", "groups", "apply"}
         /\ r.order \in Seq(Group) /\ r.next \in Nat
         /\ r.attempts \in 0..maxAttempts /\ r.snapshot \in [Group -> Int]
         /\ r.last \in Int /\ r.done \in Seq(Migration) /\ r.wrote \in SUBSET Group
  BY DEF Run

\* The same, of a migration.
LEMMA MigrationFields ==
  ASSUME NEW x \in Migration
  PROVE  x.g \in Group /\ x.i \in Nat /\ x.by \in Migrator
  BY DEF Migration

\* s is a run that waits to begin, or that is over.
Fresh(s, pc, o, n) ==
  /\ s \in Run /\ s.pc = pc /\ s.order = o /\ s.attempts = n
  /\ Untouched(s)

\* Nothing is going on.
LEMMA NoRunIsFresh == Fresh(NoRun, "idle", <<>>, 0)
  <1>1. NoVersions \in [Group -> Int]
    BY DEF NoVersions
  <1>2. <<>> \in Seq(Migration) /\ <<>> \in Seq(Group) /\ 0 \in 0..maxAttempts
    BY EmptySeq, MigrateAssumption
  <1>3. NoRun \in Run
    BY <1>1, <1>2 DEF NoRun, Run
  <1> QED
    BY <1>3 DEF NoRun, Fresh, Untouched

\* The call is over.
LEMMA GotoIdle == Fresh([NoRun EXCEPT !.pc = "idle"], "idle", <<>>, 0)
  BY NoRunIsFresh DEF Fresh, Run, Untouched

\* Migrate is called, with an order of the groups.
LEMMA GotoBegin ==
  ASSUME NEW o \in Seq(Group)
  PROVE  Fresh([[NoRun EXCEPT !.order = o] EXCEPT !.pc = "begin"], "begin", o, 0)
  BY NoRunIsFresh DEF Fresh, Run, Untouched

\* The transaction is tried again.
LEMMA GotoRetry ==
  ASSUME NEW o \in Seq(Group), NEW n \in 0..maxAttempts
  PROVE  Fresh([[NoRun EXCEPT !.order = o, !.attempts = n] EXCEPT !.pc = "begin"], "begin", o, n)
  BY NoRunIsFresh DEF Fresh, Run, Untouched

\* s is a run with these fields, in the order of r.
Is(s, r, pc, next, attempts, snapshot, last, done, wrote) ==
  /\ s \in Run /\ s.order = r.order
  /\ s.pc = pc /\ s.next = next /\ s.attempts = attempts /\ s.snapshot = snapshot
  /\ s.last = last /\ s.done = done /\ s.wrote = wrote

\* BEGIN, and the request for the lock.
LEMMA AfterRequest ==
  ASSUME NEW r \in Run, NEW snapshot \in [Group -> Int], r.attempts < maxAttempts
  PROVE  Is([[r EXCEPT !.attempts = @ + 1, !.snapshot = snapshot] EXCEPT !.pc = "lock"],
            r, "lock", r.next, r.attempts + 1, snapshot, r.last, r.done, r.wrote)
  <1>1. r.attempts + 1 \in 0..maxAttempts
    BY MigrateAssumption, RunFields
  <1> QED
    BY <1>1 DEF Run, Is

\* The lock is obtained.
LEMMA AfterAcquire ==
  ASSUME NEW r \in Run
  PROVE  Is([r EXCEPT !.pc = "groups"],
            r, "groups", r.next, r.attempts, r.snapshot, r.last, r.done, r.wrote)
  BY DEF Run, Is

\* The group has migrations to apply.
LEMMA AfterNeeded ==
  ASSUME NEW r \in Run, NEW last \in Int
  PROVE  Is([[r EXCEPT !.last = last] EXCEPT !.pc = "apply"],
            r, "apply", r.next, r.attempts, r.snapshot, last, r.done, r.wrote)
  BY DEF Run, Is

\* The group has none.
LEMMA AfterSkip ==
  ASSUME NEW r \in Run
  PROVE  Is([[r EXCEPT !.next = @ + 1] EXCEPT !.pc = "groups"],
            r, "groups", r.next + 1, r.attempts, r.snapshot, r.last, r.done, r.wrote)
  <1>1. r.next + 1 \in Nat
    BY RunFields
  <1> QED
    BY <1>1 DEF Run, Is

\* One of them is applied.
LEMMA AfterApply ==
  ASSUME NEW r \in Run, NEW last \in Int, NEW x \in Migration
  PROVE  Is([[r EXCEPT !.last = last, !.done = Append(@, x)] EXCEPT !.pc = "apply"],
            r, "apply", r.next, r.attempts, r.snapshot, last, Append(r.done, x), r.wrote)
  <1>1. Append(r.done, x) \in Seq(Migration)
    BY RunFields, AppendFacts
  <1> QED
    BY <1>1 DEF Run, Is

\* The version of the group is written.
LEMMA AfterWrite ==
  ASSUME NEW r \in Run, NEW g \in Group
  PROVE  Is([[r EXCEPT !.next = @ + 1, !.last = -1, !.wrote = @ \cup {g}] EXCEPT !.pc = "groups"],
            r, "groups", r.next + 1, r.attempts, r.snapshot, -1, r.done, r.wrote \cup {g})
  <1>1. r.next + 1 \in Nat /\ -1 \in Int /\ r.wrote \cup {g} \in SUBSET Group
    BY RunFields
  <1> QED
    BY <1>1 DEF Run, Is

\* The database moves on under a run that has not the lock.
LEMMA RunOfOthers ==
  ASSUME NEW m \in Migrator, NEW r \in Run, NEW G,
         NEW v \in [Group -> Int], NEW w \in [Group -> Int],
         RunOK(m, r, G, v), ~Holds(r), \A g \in Group : v[g] <= w[g]
  PROVE  RunOK(m, r, G, w)
  <1>1. SnapshotOld(r, v) => SnapshotOld(r, w)
    BY RunFields DEF SnapshotOld
  <1> QED
    BY <1>1 DEF RunOK

\* A step of m that leaves the tables alone: it suffices to look at its run.
LEMMA RunStep ==
  ASSUME IInv, NEW m \in Migrator, NEW r \in Run,
         run' = [run EXCEPT ![m] = r], UNCHANGED <<schema, version, groups>>,
         RunOK(m, r, groups[m], version),
         \/ lock' = lock /\ (Holds(r) <=> Holds(run[m]))
         \/ lock = NoOne /\ lock' = m /\ Holds(r)
         \/ lock' = (IF lock = m THEN NoOne ELSE lock) /\ ~Holds(r)
  PROVE  IInv'
  <1> USE MigrateAssumption
  <1>1. run \in [Migrator -> Run]
    BY DEF IInv, MTypeOK
  <1>2. run'[m] = r /\ \A p \in Migrator \ {m} : run'[p] = run[p]
    BY <1>1
  <1>3. MTypeOK'
    BY <1>1 DEF IInv, MTypeOK
  <1>4. LockHeld'
    BY <1>2 DEF IInv, LockHeld
  <1>5. Runs'
    BY <1>2 DEF IInv, Runs
  <1>6. ExactlyOnce' /\ AfterDependencies'
    BY DEF IInv, ExactlyOnce, AfterDependencies
  <1> QED
    BY <1>3, <1>4, <1>5, <1>6 DEF IInv

-----------------------------------------------------------------------------
(* Each statement keeps what holds of the run. *)

\* The versions that a run with the lock reads.
LEMMA BaseFacts ==
  ASSUME NEW m \in Migrator, NEW r \in Run, NEW G, NEW v \in [Group -> Int],
         \A g \in Group : -1 <= v[g], RunOK(m, r, G, v), Holds(r), NEW g \in Group
  PROVE  Base(m, r, v, g) \in Int /\ -1 <= Base(m, r, v, g) /\ Base(m, r, v, g) <= v[g]
  BY RunFields DEF Base, RunOK, SnapshotOld

\* The lock is obtained, and there is nothing done.
LEMMA AcquireKeeps ==
  ASSUME NEW m \in Migrator, NEW r \in Run, NEW G, G \subseteq DOMAIN Stmts[m],
         NEW v \in [Group -> Int], \A g \in Group : -1 <= v[g],
         RunOK(m, r, G, v), r.pc = "lock", NEW s,
         Is(s, r, "groups", r.next, r.attempts, r.snapshot, r.last, r.done, r.wrote)
  PROVE  RunOK(m, s, G, v) /\ Holds(s)
  <1>1. /\ r.order \in orderMigrationGroups(G)
        /\ r.next = 1 /\ r.done = <<>> /\ r.wrote = {}
        /\ SnapshotOld(r, v) \/ m \notin RepeatableRead
    BY DEF RunOK, Holds, Untouched
  <1>2. Len(r.order) \in Nat
    BY <1>1, OrderFacts
  <1>3. DOMAIN s.done = {}
    BY <1>1 DEF Is
  <1>4. Handled(m, s, v) /\ InHand(m, s, v)
    BY <1>1, <1>2 DEF Is, Handled, InHand
  <1>5. DoneOnly(m, s, v) /\ DoneAll(m, s, v) /\ DoneInOrder(s) /\ DoneAfterDeps(m, s, v)
    BY <1>1, <1>3 DEF Is, DoneOnly, DoneAll, DoneInOrder, DoneAfterDeps
  <1>6. SnapshotOld(s, v) \/ m \notin RepeatableRead
    BY <1>1 DEF Is, SnapshotOld
  <1> QED
    BY <1>1, <1>4, <1>5, <1>6 DEF Is, RunOK, Holds

\* The group has nothing to apply.
LEMMA SkipKeeps ==
  ASSUME NEW m \in Migrator, NEW r \in Run, NEW G, G \subseteq DOMAIN Stmts[m],
         NEW v \in [Group -> Int], \A g \in Group : -1 <= v[g],
         RunOK(m, r, G, v), r.pc = "groups", r.next <= Len(r.order),
         ~(Stmts[m][r.order[r.next]] > Base(m, r, v, r.order[r.next]) + 1), NEW s,
         Is(s, r, "groups", r.next + 1, r.attempts, r.snapshot, r.last, r.done, r.wrote)
  PROVE  RunOK(m, s, G, v) /\ Holds(s)
  <1> DEFINE g == r.order[r.next]
  <1>1. /\ r.order \in orderMigrationGroups(G) /\ Holds(r)
        /\ SnapshotOld(r, v) \/ m \notin RepeatableRead
        /\ Handled(m, r, v) /\ DoneOnly(m, r, v) /\ DoneAll(m, r, v)
        /\ DoneInOrder(r) /\ DoneAfterDeps(m, r, v)
    BY DEF RunOK, Holds
  <1>2. /\ Len(r.order) \in Nat /\ r.next \in 1..Len(r.order)
        /\ g \in Group /\ Stmts[m][g] \in Nat
    BY <1>1, OrderFacts DEF Handled
  <1>3. Stmts[m][g] <= v[g] + 1
    BY <1>1, <1>2, BaseFacts
  <1>4. Handled(m, s, v) /\ InHand(m, s, v)
    <2>1. /\ s.order = r.order /\ s.next = r.next + 1 /\ s.wrote = r.wrote /\ s.pc = "groups"
      BY DEF Is
    <2>2. s.next \in 1..(Len(s.order) + 1)
      BY <1>2, <2>1
    <2>3. \A a \in 1..(s.next - 1) : a \in 1..(r.next - 1) \/ a = r.next
      BY <1>2, <2>1
    <2>4. \A a \in 1..(r.next - 1) : a \in 1..(s.next - 1)
      BY <1>2, <2>1
    <2>5. \A h \in s.wrote : /\ \E a \in 1..(s.next - 1) : s.order[a] = h
                            /\ v[h] + 1 < Stmts[m][h]
      BY <1>1, <2>1, <2>4 DEF Handled
    <2>6. \A a \in 1..(s.next - 1) :
            s.order[a] \in s.wrote \/ Stmts[m][s.order[a]] <= v[s.order[a]] + 1
      BY <1>1, <1>3, <2>1, <2>3 DEF Handled
    <2> QED
      BY <2>1, <2>2, <2>5, <2>6 DEF Handled, InHand
  <1>5. DoneOnly(m, s, v) /\ DoneAll(m, s, v) /\ DoneInOrder(s) /\ DoneAfterDeps(m, s, v)
    BY <1>1 DEF Is, DoneOnly, DoneAll, DoneInOrder, DoneAfterDeps
  <1>6. SnapshotOld(s, v) \/ m \notin RepeatableRead
    BY <1>1 DEF Is, SnapshotOld
  <1> QED
    BY <1>1, <1>4, <1>5, <1>6 DEF Is, RunOK, Holds

\* The loop over its statements begins.
LEMMA NeededKeeps ==
  ASSUME NEW m \in Migrator, NEW r \in Run, NEW G, G \subseteq DOMAIN Stmts[m],
         NEW v \in [Group -> Int], \A g \in Group : -1 <= v[g],
         RunOK(m, r, G, v), r.pc = "groups", r.next <= Len(r.order),
         Stmts[m][r.order[r.next]] > Base(m, r, v, r.order[r.next]) + 1, NEW s,
         Is(s, r, "apply", r.next, r.attempts, r.snapshot,
            Base(m, r, v, r.order[r.next]), r.done, r.wrote)
  PROVE  RunOK(m, s, G, v) /\ Holds(s)
  <1> DEFINE g == r.order[r.next]
  <1>1. /\ r.order \in orderMigrationGroups(G) /\ Holds(r)
        /\ SnapshotOld(r, v) \/ m \notin RepeatableRead
        /\ Handled(m, r, v) /\ DoneOnly(m, r, v) /\ DoneAll(m, r, v)
        /\ DoneInOrder(r) /\ DoneAfterDeps(m, r, v)
    BY DEF RunOK, Holds
  <1>2. /\ Len(r.order) \in Nat /\ r.next \in 1..Len(r.order)
        /\ g \in Group /\ Stmts[m][g] \in Nat
    BY <1>1, OrderFacts DEF Handled
  <1>3. Base(m, r, v, g) \in Int
    BY <1>1, <1>2, BaseFacts
  <1>4. \A h : Base(m, s, v, h) = Base(m, r, v, h)
    BY DEF Is, Base
  <1>5. Handled(m, s, v)
    BY <1>1, <1>2 DEF Is, Handled
  <1>6. InHand(m, s, v)
    BY <1>2, <1>3, <1>4 DEF Is, InHand
  <1>7. DoneOnly(m, s, v) /\ DoneAll(m, s, v) /\ DoneInOrder(s) /\ DoneAfterDeps(m, s, v)
    BY <1>1 DEF Is, DoneOnly, DoneAll, DoneInOrder, DoneAfterDeps
  <1>8. SnapshotOld(s, v) \/ m \notin RepeatableRead
    BY <1>1 DEF Is, SnapshotOld
  <1> QED
    BY <1>1, <1>5, <1>6, <1>7, <1>8 DEF Is, RunOK, Holds

\* applyMigrations: one more statement of the group in hand.
LEMMA ApplyKeeps ==
  ASSUME NEW m \in Migrator, NEW r \in Run, NEW G, G \subseteq DOMAIN Stmts[m],
         NEW v \in [Group -> Int], \A g \in Group : -1 <= v[g],
         RunOK(m, r, G, v), r.pc = "apply", r.last + 1 < Stmts[m][r.order[r.next]],
         NEW x \in Migration, x = [g |-> r.order[r.next], i |-> r.last + 1, by |-> m], NEW s,
         Is(s, r, "apply", r.next, r.attempts, r.snapshot,
            r.last + 1, Append(r.done, x), r.wrote)
  PROVE  RunOK(m, s, G, v) /\ Holds(s)
  <1> DEFINE g == r.order[r.next]
             b == Base(m, r, v, g)
             n == Len(r.done)
             d == Append(r.done, x)
  <1>1. /\ r.order \in orderMigrationGroups(G) /\ Holds(r)
        /\ SnapshotOld(r, v) \/ m \notin RepeatableRead
        /\ Handled(m, r, v) /\ InHand(m, r, v) /\ DoneOnly(m, r, v) /\ DoneAll(m, r, v)
        /\ DoneInOrder(r) /\ DoneAfterDeps(m, r, v)
    BY DEF RunOK, Holds
  <1>2. /\ Len(r.order) \in Nat /\ DOMAIN r.order = 1..Len(r.order)
        /\ r.next \in 1..Len(r.order) /\ g \in Group /\ Stmts[m][g] \in Nat
        /\ \A a, c \in 1..Len(r.order) : r.order[a] = r.order[c] => a = c
        /\ \A e \in Deps[g] : \E a \in 1..(r.next - 1) : r.order[a] = e
        /\ \A a \in 1..(r.next - 1) : a \in 1..Len(r.order) /\ a < r.next
    <2>1. /\ Len(r.order) \in Nat /\ DOMAIN r.order = 1..Len(r.order)
          /\ \A a \in 1..Len(r.order) : r.order[a] \in Group /\ Stmts[m][r.order[a]] \in Nat
          /\ \A a, c \in 1..Len(r.order) : r.order[a] = r.order[c] => a = c
      BY <1>1, OrderFacts
    <2>2. \A c \in 1..Len(r.order) : \A e \in Deps[r.order[c]] :
            \E a \in 1..(c - 1) : r.order[a] = e
      <3>1. DepsFirst(r.order)
        BY <1>1, OrderFacts
      <3> QED
        BY <3>1 DEF DepsFirst
    <2>3. r.next \in 1..Len(r.order)
      BY <1>1, <2>1 DEF Handled
    <2> HIDE DEF g
    <2>4. g = r.order[r.next]
      BY DEF g
    <2>5. g \in Group /\ Stmts[m][g] \in Nat
      BY <2>1, <2>3, <2>4
    <2>6. \A a \in 1..(r.next - 1) : a \in 1..Len(r.order) /\ a < r.next
      BY <2>1, <2>3
    <2>7. \A e \in Deps[g] : \E a \in 1..(r.next - 1) : r.order[a] = e
      BY <2>2, <2>3, <2>4
    <2> QED
      BY <2>1, <2>3, <2>5, <2>6, <2>7
  <1>3. b \in Int /\ r.last \in Int /\ b <= r.last
    BY <1>1, <1>2, BaseFacts, RunFields DEF InHand
  <1>4. \A h : Base(m, s, v, h) = Base(m, r, v, h)
    BY DEF Is, Base
  <1>5. /\ n \in Nat /\ DOMAIN r.done = 1..n /\ DOMAIN d = 1..(n + 1)
        /\ \A k \in 1..n : d[k] = r.done[k]
        /\ d[n + 1] = x
    <2>1. r.done \in Seq(Migration)
      BY RunFields
    <2> QED
      BY <2>1, AppendFacts, SeqFacts
  <1>6. \A k \in 1..n : r.done[k] \in Migration
    BY RunFields, SeqFacts
  <1>7. x.g = g /\ x.i = r.last + 1 /\ x.by = m
    OBVIOUS
  <1>8. /\ s.order = r.order /\ s.next = r.next /\ s.wrote = r.wrote /\ s.pc = "apply"
        /\ s.done = d /\ s.last = r.last + 1 /\ s.snapshot = r.snapshot
    BY DEF Is
  <1>9. \A k \in DOMAIN d : k \in 1..n \/ k = n + 1
    BY <1>5
  <1>10. \A k \in 1..n : k \in DOMAIN d
    BY <1>5
  <1>a. n + 1 \in DOMAIN d
    BY <1>5
  <1> HIDE DEF g, b, n, d
  <1>11. Handled(m, s, v)
    BY <1>1, <1>2, <1>8 DEF Handled
  <1>12. InHand(m, s, v)
    <2>1. s.order[s.next] = g /\ r.order[r.next] = g /\ Base(m, s, v, g) = b
      BY <1>4, <1>8 DEF g, b
    <2>2. ASSUME NEW i \in (b + 1)..s.last
          PROVE  \E k \in DOMAIN s.done : s.done[k].g = g /\ s.done[k].i = i
      <3>1. CASE i = r.last + 1
        BY <3>1, <1>5, <1>7, <1>8, <1>a
      <3>2. CASE i \in (b + 1)..r.last
        <4>1. PICK k \in 1..n : r.done[k].g = g /\ r.done[k].i = i
          BY <3>2, <1>1, <1>5 DEF InHand, b, g
        <4> QED
          BY <4>1, <1>5, <1>8, <1>10
      <3> QED
        BY <3>1, <3>2, <1>3, <1>8
    <2>3. b + 1 < Stmts[m][g] /\ b <= s.last /\ s.last < Stmts[m][g]
      BY <1>1, <1>3, <1>8 DEF InHand, b, g
    <2> QED
      BY <2>1, <2>2, <2>3 DEF InHand
  <1>13. DoneOnly(m, s, v)
    <2> SUFFICES ASSUME NEW k \in DOMAIN d
                 PROVE  /\ d[k].by = m
                        /\ \/ /\ d[k].g \in r.wrote
                              /\ d[k].i \in (v[d[k].g] + 1)..(Stmts[m][d[k].g] - 1)
                           \/ /\ d[k].g = g /\ d[k].i \in (b + 1)..(r.last + 1)
      BY <1>4, <1>8 DEF DoneOnly, g, b
    <2>1. CASE k = n + 1
      BY <2>1, <1>3, <1>5, <1>7
    <2>2. CASE k \in 1..n
      <3>1. /\ r.done[k].by = m
            /\ \/ /\ r.done[k].g \in r.wrote
                  /\ r.done[k].i \in (v[r.done[k].g] + 1)..(Stmts[m][r.done[k].g] - 1)
               \/ r.done[k].g = g /\ r.done[k].i \in (b + 1)..r.last
        BY <2>2, <1>1, <1>5 DEF DoneOnly, g, b
      <3> QED
        BY <3>1, <2>2, <1>3, <1>5
    <2> QED
      BY <2>1, <2>2, <1>9
  <1>14. DoneAll(m, s, v)
    BY <1>1, <1>5, <1>8, <1>10 DEF DoneAll
  <1>15. DoneInOrder(s)
    <2> SUFFICES ASSUME NEW j \in DOMAIN d, NEW k \in DOMAIN d,
                        NEW a \in DOMAIN r.order, NEW c \in DOMAIN r.order,
                        j < k, d[j].g = r.order[a], d[k].g = r.order[c]
                 PROVE  a < c \/ (a = c /\ d[j].i < d[k].i)
      BY <1>8 DEF DoneInOrder
    <2>0. j \in 1..n
      BY <1>5
    <2>1. CASE k \in 1..n
      BY <2>0, <2>1, <1>1, <1>5 DEF DoneInOrder
    <2>2. CASE k = n + 1
      <3>1. c = r.next
        BY <2>2, <1>2, <1>5, <1>7 DEF g
      <3>2. \/ r.done[j].g \in r.wrote
            \/ r.done[j].g = g /\ r.done[j].i \in (b + 1)..r.last
        BY <2>0, <1>1, <1>5 DEF DoneOnly, g, b
      <3>3. CASE r.done[j].g \in r.wrote
        <4>1. PICK e \in 1..(r.next - 1) : r.order[e] = r.done[j].g
          BY <3>3, <1>1 DEF Handled
        <4>2. r.order[e] = r.order[a]
          BY <4>1, <2>0, <1>5
        <4>3. e \in 1..Len(r.order) /\ a \in 1..Len(r.order)
          BY <4>1, <1>2
        <4>4. e = a
          BY <4>2, <4>3, <1>2
        <4> QED
          BY <4>1, <4>4, <3>1, <1>2
      <3>4. CASE r.done[j].g = g /\ r.done[j].i \in (b + 1)..r.last
        <4>1. r.order[a] = r.order[r.next]
          BY <3>4, <2>0, <1>5 DEF g
        <4>2. a = r.next
          BY <4>1, <1>2
        <4> QED
          BY <4>2, <3>1, <3>4, <2>0, <2>2, <1>3, <1>5, <1>7
      <3> QED
        BY <3>2, <3>3, <3>4
    <2> QED
      BY <2>1, <2>2, <1>9
  <1>16. DoneAfterDeps(m, s, v)
    <2> SUFFICES ASSUME NEW k \in DOMAIN d, NEW e \in Deps[d[k].g],
                        NEW i \in (v[e] + 1)..(Stmts[m][e] - 1)
                 PROVE  \E j \in 1..(k - 1) : d[j].g = e /\ d[j].i = i
      BY <1>8 DEF DoneAfterDeps
    <2>1. CASE k \in 1..n
      <3>1. PICK j \in 1..(k - 1) : r.done[j].g = e /\ r.done[j].i = i
        BY <2>1, <1>1, <1>5 DEF DoneAfterDeps
      <3>2. j \in 1..n
        BY <2>1, <3>1, <1>5
      <3> QED
        BY <3>1, <3>2, <1>5
    <2>2. CASE k = n + 1
      <3>1. PICK a \in 1..(r.next - 1) : r.order[a] = e
        BY <2>2, <1>2, <1>5, <1>7
      <3>2. e \in Group /\ Stmts[m][e] \in Nat
        <4>1. \A c \in 1..Len(r.order) : r.order[c] \in Group /\ Stmts[m][r.order[c]] \in Nat
          BY <1>1, OrderFacts
        <4> QED
          BY <4>1, <3>1, <1>2
      <3>3. e \in r.wrote
        <4>1. r.order[a] \in r.wrote \/ Stmts[m][r.order[a]] <= v[r.order[a]] + 1
          BY <3>1, <1>1 DEF Handled
        <4>2. v[e] \in Int
          BY <3>2
        <4>3. ~(Stmts[m][e] <= v[e] + 1)
          BY <4>2, <3>2
        <4> QED
          BY <4>1, <4>3, <3>1
      <3>4. PICK j \in 1..n : r.done[j].g = e /\ r.done[j].i = i
        <4>1. \E j \in DOMAIN r.done : r.done[j].g = e /\ r.done[j].i = i
          BY <3>3, <1>1 DEF DoneAll
        <4> QED
          BY <4>1, <1>5
      <3>5. j \in 1..(k - 1)
        BY <3>4, <2>2, <1>5
      <3> QED
        BY <3>4, <3>5, <1>5
    <2> QED
      BY <2>1, <2>2, <1>9
  <1>17. SnapshotOld(s, v) \/ m \notin RepeatableRead
    BY <1>1, <1>8 DEF SnapshotOld
  <1> QED
    BY <1>1, <1>8, <1>11, <1>12, <1>13, <1>14, <1>15, <1>16, <1>17 DEF RunOK, Holds

\* setGroupLastVersion: the group in hand is written.
LEMMA WriteKeeps ==
  ASSUME NEW m \in Migrator, NEW r \in Run, NEW G, G \subseteq DOMAIN Stmts[m],
         NEW v \in [Group -> Int], \A g \in Group : -1 <= v[g],
         RunOK(m, r, G, v), r.pc = "apply", r.last + 1 >= Stmts[m][r.order[r.next]],
         m \in RepeatableRead => v[r.order[r.next]] = r.snapshot[r.order[r.next]], NEW s,
         Is(s, r, "groups", r.next + 1, r.attempts, r.snapshot,
            -1, r.done, r.wrote \cup {r.order[r.next]})
  PROVE  RunOK(m, s, G, v) /\ Holds(s)
  <1> DEFINE g == r.order[r.next]
  <1>1. /\ r.order \in orderMigrationGroups(G) /\ Holds(r)
        /\ SnapshotOld(r, v) \/ m \notin RepeatableRead
        /\ Handled(m, r, v) /\ InHand(m, r, v) /\ DoneOnly(m, r, v) /\ DoneAll(m, r, v)
        /\ DoneInOrder(r) /\ DoneAfterDeps(m, r, v)
    BY DEF RunOK, Holds
  <1>2. /\ Len(r.order) \in Nat /\ r.next \in 1..Len(r.order)
        /\ g \in Group /\ Stmts[m][g] \in Nat
    BY <1>1, OrderFacts DEF Handled
  <1>3. Base(m, r, v, g) = v[g] /\ v[g] \in Int
    BY <1>2 DEF Base
  <1>4. v[g] + 1 < Stmts[m][g] /\ r.last = Stmts[m][g] - 1
    <2>1. /\ Base(m, r, v, g) + 1 < Stmts[m][g]
          /\ Base(m, r, v, g) <= r.last /\ r.last < Stmts[m][g]
      BY <1>1 DEF InHand
    <2>2. r.last \in Int /\ r.last + 1 >= Stmts[m][g]
      BY RunFields
    <2> HIDE DEF g
    <2>3. v[g] + 1 < Stmts[m][g]
      BY <1>3, <2>1
    <2>4. Stmts[m][g] \in Int /\ r.last < Stmts[m][g]
      BY <1>2, <2>1
    <2>5. r.last = Stmts[m][g] - 1
      BY <2>2, <2>4
    <2> QED
      BY <2>3, <2>5
  <1>5. /\ s.order = r.order /\ s.next = r.next + 1 /\ s.wrote = r.wrote \cup {g}
        /\ s.pc = "groups" /\ s.done = r.done /\ s.snapshot = r.snapshot
    BY DEF Is
  <1>6. Handled(m, s, v)
    <2>2. s.next \in 1..(Len(s.order) + 1)
      BY <1>2, <1>5
    <2>3. \A a \in 1..(s.next - 1) : a \in 1..(r.next - 1) \/ a = r.next
      BY <1>2, <1>5
    <2>4. \A a \in 1..(r.next - 1) : a \in 1..(s.next - 1)
      BY <1>2, <1>5
    <2>5. r.next \in 1..(s.next - 1)
      BY <1>2, <1>5
    <2>6. \A h \in s.wrote : /\ \E a \in 1..(s.next - 1) : s.order[a] = h
                            /\ v[h] + 1 < Stmts[m][h]
      BY <1>1, <1>4, <1>5, <2>4, <2>5 DEF Handled
    <2>7. \A a \in 1..(s.next - 1) :
            s.order[a] \in s.wrote \/ Stmts[m][s.order[a]] <= v[s.order[a]] + 1
      BY <1>1, <1>5, <2>3 DEF Handled
    <2> QED
      BY <1>5, <2>2, <2>6, <2>7 DEF Handled
  <1>7. InHand(m, s, v)
    BY <1>5 DEF InHand
  <1>8. DoneOnly(m, s, v)
    <2> SUFFICES ASSUME NEW k \in DOMAIN r.done
                 PROVE  /\ r.done[k].by = m
                        /\ r.done[k].g \in r.wrote \cup {g}
                        /\ r.done[k].i \in (v[r.done[k].g] + 1)..(Stmts[m][r.done[k].g] - 1)
      BY <1>5 DEF DoneOnly
    <2>1. /\ r.done[k].by = m
          /\ \/ /\ r.done[k].g \in r.wrote
                /\ r.done[k].i \in (v[r.done[k].g] + 1)..(Stmts[m][r.done[k].g] - 1)
             \/ r.done[k].g = g /\ r.done[k].i \in (Base(m, r, v, r.done[k].g) + 1)..r.last
      BY <1>1 DEF DoneOnly
    <2> HIDE DEF g
    <2> QED
      BY <2>1, <1>3, <1>4
  <1>9. DoneAll(m, s, v)
    <2> SUFFICES ASSUME NEW h \in r.wrote \cup {g}, NEW i \in (v[h] + 1)..(Stmts[m][h] - 1)
                 PROVE  \E k \in DOMAIN r.done : r.done[k].g = h /\ r.done[k].i = i
      BY <1>5 DEF DoneAll
    <2>1. CASE h \in r.wrote
      BY <2>1, <1>1 DEF DoneAll
    <2>2. CASE h = g
      <3>1. i \in (Base(m, r, v, g) + 1)..r.last
        BY <2>2, <1>3, <1>4
      <3> QED
        BY <2>2, <3>1, <1>1 DEF InHand
    <2> QED
      BY <2>1, <2>2
  <1>10. DoneInOrder(s) /\ DoneAfterDeps(m, s, v)
    BY <1>1, <1>5 DEF DoneInOrder, DoneAfterDeps
  <1>11. SnapshotOld(s, v) \/ m \notin RepeatableRead
    BY <1>1, <1>5 DEF SnapshotOld
  <1> QED
    BY <1>1, <1>5, <1>6, <1>7, <1>8, <1>9, <1>10, <1>11 DEF RunOK, Holds

-----------------------------------------------------------------------------
(* The commit.  It adds d to the schema s and changes the versions from v  *)
(* to w for the groups W.                                                  *)

\* The versions after it.
Updated(m, v, w, W) ==
  \A g \in Group : w[g] = IF g \in W THEN Stmts[m][g] - 1 ELSE v[g]

\* d is what the groups W lacked.
Lacking(m, d, v, W) ==
  /\ W \subseteq Group
  /\ \A g \in W : Stmts[m][g] \in Nat /\ v[g] + 1 < Stmts[m][g]
  /\ \A k \in 1..Len(d) : /\ d[k].by = m /\ d[k].g \in W
                          /\ d[k].i \in (v[d[k].g] + 1)..(Stmts[m][d[k].g] - 1)
  /\ \A g \in W : \A i \in (v[g] + 1)..(Stmts[m][g] - 1) :
       \E k \in 1..Len(d) : d[k].g = g /\ d[k].i = i
  /\ \A j, k \in 1..Len(d) : j < k /\ d[j].g = d[k].g => d[j].i < d[k].i

\* ExactlyOnce and AfterDependencies, of the tables s and v.
Within(s, v) == \A k \in 1..Len(s) : s[k].i \in 0..v[s[k].g]
Present(s, v) == \A g \in Group : \A i \in 0..v[g] :
                   \E k \in 1..Len(s) : s[k].g = g /\ s[k].i = i
Rising(s) == \A j, k \in 1..Len(s) : j < k /\ s[j].g = s[k].g => s[j].i < s[k].i

After(s) ==
  \A k \in 1..Len(s) :
    \A e \in Deps[s[k].g] : \A i \in 0..(Stmts[s[k].by][e] - 1) :
      \E j \in 1..(k - 1) : s[j].g = e /\ s[j].i = i


Once(s, v) ==
  \A g \in Group :
    /\ \A k \in DOMAIN s : s[k].g = g => s[k].i \in 0..v[g]
    /\ \A i \in 0..v[g] : \E k \in DOMAIN s : s[k].g = g /\ s[k].i = i
    /\ \A j, k \in DOMAIN s : j < k /\ s[j].g = g /\ s[k].g = g => s[j].i < s[k].i

\* ExactlyOnce is about where the migrations are, that none is missing, and their order.
LEMMA OnceParts ==
  ASSUME NEW s \in Seq(Migration), NEW v
  PROVE  Once(s, v) <=> Within(s, v) /\ Present(s, v) /\ Rising(s)
  <1>1. DOMAIN s = 1..Len(s) /\ \A k \in 1..Len(s) : s[k] \in Migration
    BY SeqFacts
  <1>2. \A k \in 1..Len(s) : s[k].g \in Group
    BY <1>1, MigrationFields
  <1>3. Once(s, v) => Within(s, v) /\ Present(s, v) /\ Rising(s)
    BY <1>1, <1>2 DEF Once, Within, Present, Rising
  <1>4. Within(s, v) /\ Present(s, v) /\ Rising(s) => Once(s, v)
    BY <1>1, <1>2 DEF Once, Within, Present, Rising
  <1> QED
    BY <1>3, <1>4

\* Where the migrations of schema' come from.
LEMMA CommitPositions ==
  ASSUME NEW s \in Seq(Migration), NEW d \in Seq(Migration)
  PROVE  /\ \A k \in 1..Len(s \o d) :
              \/ k \in 1..Len(s) /\ (s \o d)[k] = s[k]
              \/ k > Len(s) /\ k - Len(s) \in 1..Len(d) /\ (s \o d)[k] = d[k - Len(s)]
         /\ \A k \in 1..Len(s) : k \in 1..Len(s \o d) /\ (s \o d)[k] = s[k]
         /\ \A k \in 1..Len(d) :
              Len(s) + k \in 1..Len(s \o d) /\ (s \o d)[Len(s) + k] = d[k]
         /\ Len(s) \in Nat /\ Len(d) \in Nat
         /\ \A k \in 1..Len(s) : s[k].g \in Group /\ s[k].i \in Nat
         /\ \A k \in 1..Len(d) : d[k].g \in Group /\ d[k].i \in Nat
  <1>1. Len(s) \in Nat /\ Len(d) \in Nat /\ Len(s \o d) = Len(s) + Len(d)
    BY SeqFacts, ConcatFacts
  <1>2. /\ \A k \in 1..Len(s) : (s \o d)[k] = s[k]
        /\ \A k \in 1..Len(d) : (s \o d)[Len(s) + k] = d[k]
    BY ConcatFacts
  <1>3. ASSUME NEW k \in 1..Len(s \o d), k > Len(s)
        PROVE  k - Len(s) \in 1..Len(d) /\ (s \o d)[k] = d[k - Len(s)]
    <2>1. k - Len(s) \in 1..Len(d) /\ Len(s) + (k - Len(s)) = k
      BY <1>1, <1>3
    <2> QED
      BY <2>1, <1>2
  <1>4. \A k \in 1..Len(s \o d) : k \in 1..Len(s) \/ k > Len(s)
    BY <1>1
  <1>5. /\ \A k \in 1..Len(s) : k \in 1..Len(s \o d)
        /\ \A k \in 1..Len(d) : Len(s) + k \in 1..Len(s \o d)
    BY <1>1
  <1>6. /\ \A k \in 1..Len(s) : s[k] \in Migration
        /\ \A k \in 1..Len(d) : d[k] \in Migration
    BY SeqFacts
  <1> QED
    BY <1>1, <1>2, <1>3, <1>4, <1>5, <1>6, MigrationFields

\* The versions only go up.
LEMMA CommitForward ==
  ASSUME NEW m \in Migrator, NEW d, NEW v \in [Group -> Int], NEW w \in [Group -> Int], NEW W,
         Lacking(m, d, v, W), Updated(m, v, w, W)
  PROVE  \A g \in Group : v[g] <= w[g]
  <1> SUFFICES ASSUME NEW g \in Group
               PROVE  v[g] <= w[g]
    OBVIOUS
  <1>1. CASE g \in W
    BY <1>1 DEF Lacking, Updated
  <1>2. CASE g \notin W
    BY <1>2 DEF Updated
  <1> QED
    BY <1>1, <1>2

\* Exactly once, with what the commit adds.
LEMMA CommitOnce ==
  ASSUME NEW m \in Migrator, NEW s \in Seq(Migration), NEW d \in Seq(Migration),
         NEW v \in [Group -> Int], NEW w \in [Group -> Int], NEW W,
         Within(s, v), Present(s, v), Rising(s), \A g \in Group : -1 <= v[g],
         Lacking(m, d, v, W), Updated(m, v, w, W)
  PROVE  Within(s \o d, w) /\ Present(s \o d, w) /\ Rising(s \o d)
  <1> DEFINE t == s \o d
             n == Len(s)
  <1>1. /\ \A k \in 1..Len(t) :
              \/ k \in 1..n /\ t[k] = s[k]
              \/ k > n /\ k - n \in 1..Len(d) /\ t[k] = d[k - n]
        /\ \A k \in 1..n : k \in 1..Len(t) /\ t[k] = s[k]
        /\ \A k \in 1..Len(d) : n + k \in 1..Len(t) /\ t[n + k] = d[k]
        /\ n \in Nat /\ Len(d) \in Nat
        /\ \A k \in 1..n : s[k].g \in Group /\ s[k].i \in Nat
        /\ \A k \in 1..Len(d) : d[k].g \in Group /\ d[k].i \in Nat
    BY CommitPositions
  <1>2. \A g \in Group : v[g] <= w[g]
    BY CommitForward
  <1>3. \A k \in 1..Len(d) :
          /\ d[k].g \in W /\ w[d[k].g] = Stmts[m][d[k].g] - 1
          /\ d[k].i \in (v[d[k].g] + 1)..(Stmts[m][d[k].g] - 1)
    BY <1>1 DEF Lacking, Updated
  <1> HIDE DEF t, n
  <1>4. Within(t, w)
    <2> SUFFICES ASSUME NEW k \in 1..Len(t)
                 PROVE  t[k].i \in 0..w[t[k].g]
      BY DEF Within
    <2>1. CASE k \in 1..n /\ t[k] = s[k]
      <3>1. s[k].i \in 0..v[s[k].g] /\ s[k].g \in Group
        BY <2>1, <1>1 DEF Within, n
      <3> QED
        BY <3>1, <2>1, <1>2
    <2>2. CASE k - n \in 1..Len(d) /\ t[k] = d[k - n]
      BY <2>2, <1>1, <1>3
    <2> QED
      BY <2>1, <2>2, <1>1
  <1>5. Present(t, w)
    <2> SUFFICES ASSUME NEW g \in Group, NEW i \in 0..w[g]
                 PROVE  \E k \in 1..Len(t) : t[k].g = g /\ t[k].i = i
      BY DEF Present
    <2>1. CASE i \in 0..v[g]
      <3>1. PICK k \in 1..n : s[k].g = g /\ s[k].i = i
        BY <2>1 DEF Present, n
      <3> QED
        BY <3>1, <1>1
    <2>2. CASE ~(i \in 0..v[g])
      <3>1. i > v[g] /\ v[g] \in Int /\ w[g] \in Int
        BY <2>2
      <3>2. g \in W /\ w[g] = Stmts[m][g] - 1
        BY <3>1 DEF Updated
      <3>3. i \in (v[g] + 1)..(Stmts[m][g] - 1)
        BY <3>1, <3>2
      <3>4. PICK k \in 1..Len(d) : d[k].g = g /\ d[k].i = i
        BY <3>2, <3>3 DEF Lacking
      <3> QED
        BY <3>4, <1>1
    <2> QED
      BY <2>1, <2>2
  <1>6. Rising(t)
    <2> SUFFICES ASSUME NEW j \in 1..Len(t), NEW k \in 1..Len(t), j < k, t[j].g = t[k].g
                 PROVE  t[j].i < t[k].i
      BY DEF Rising
    <2>1. CASE j \in 1..n /\ t[j] = s[j] /\ k \in 1..n /\ t[k] = s[k]
      BY <2>1 DEF Rising, n
    <2>2. CASE /\ j - n \in 1..Len(d) /\ t[j] = d[j - n]
               /\ k - n \in 1..Len(d) /\ t[k] = d[k - n]
      <3>1. j - n < k - n
        BY <1>1
      <3> QED
        BY <2>2, <3>1 DEF Lacking
    <2>3. CASE /\ j \in 1..n /\ t[j] = s[j]
               /\ k - n \in 1..Len(d) /\ t[k] = d[k - n]
      <3>1. s[j].i \in 0..v[s[j].g] /\ s[j].g \in Group
        BY <2>3, <1>1 DEF Within, n
      <3>2. d[k - n].i \in (v[d[k - n].g] + 1)..(Stmts[m][d[k - n].g] - 1)
        BY <2>3, <1>3
      <3>3. v[s[j].g] \in Int /\ d[k - n].i >= v[s[j].g] + 1
        BY <3>1, <3>2, <2>3
      <3>4. s[j].i \in Int /\ s[j].i <= v[s[j].g] /\ d[k - n].i \in Int
        BY <3>1, <3>2, <3>3, <2>3, <1>1
      <3>5. s[j].i < d[k - n].i
        <4> DEFINE x == s[j].i
                   y == d[k - n].i
                   z == v[s[j].g]
        <4>1. x \in Int /\ y \in Int /\ z \in Int /\ x <= z /\ y >= z + 1
          BY <3>3, <3>4
        <4> HIDE DEF x, y, z
        <4>2. x < y
          BY <4>1
        <4> QED
          BY <4>2 DEF x, y
      <3> QED
        BY <3>5, <2>3
    <2>4. ~(j > n /\ k \in 1..n)
      BY <1>1
    <2> QED
      BY <2>1, <2>2, <2>3, <2>4, <1>1
  <1> QED
    BY <1>4, <1>5, <1>6 DEF t

\* After the dependencies: the migrations of a dependency are in the database
\* already, or come earlier in the same commit.
LEMMA CommitAfter ==
  ASSUME NEW m \in Migrator, NEW s \in Seq(Migration), NEW d \in Seq(Migration),
         NEW v \in [Group -> Int], \A g \in Group : -1 <= v[g], Present(s, v), After(s),
         \A k \in 1..Len(d) : d[k].by = m,
         \A k \in 1..Len(d) : \A e \in Deps[d[k].g] : \A i \in (v[e] + 1)..(Stmts[m][e] - 1) :
           \E j \in 1..(k - 1) : d[j].g = e /\ d[j].i = i
  PROVE  After(s \o d)
  <1> DEFINE t == s \o d
             n == Len(s)
  <1>1. /\ \A k \in 1..Len(t) :
              \/ k \in 1..n /\ t[k] = s[k]
              \/ k > n /\ k - n \in 1..Len(d) /\ t[k] = d[k - n]
        /\ \A k \in 1..n : k \in 1..Len(t) /\ t[k] = s[k]
        /\ \A k \in 1..Len(d) : n + k \in 1..Len(t) /\ t[n + k] = d[k]
        /\ n \in Nat /\ Len(d) \in Nat
        /\ \A k \in 1..Len(d) : d[k].g \in Group
    BY CommitPositions
  <1> HIDE DEF t, n
  <1> SUFFICES ASSUME NEW k \in 1..Len(t), NEW e \in Deps[t[k].g],
                      NEW i \in 0..(Stmts[t[k].by][e] - 1)
               PROVE  \E j \in 1..(k - 1) : t[j].g = e /\ t[j].i = i
    BY DEF After, t
  <1>2. CASE k \in 1..n /\ t[k] = s[k]
    <2>0. k \in 1..Len(s) /\ e \in Deps[s[k].g] /\ i \in 0..(Stmts[s[k].by][e] - 1)
      BY <1>2 DEF n
    <2>a. \A f \in Deps[s[k].g] : \A h \in 0..(Stmts[s[k].by][f] - 1) :
            \E j \in 1..(k - 1) : s[j].g = f /\ s[j].i = h
      BY <2>0 DEF After
    <2>b. \A h \in 0..(Stmts[s[k].by][e] - 1) :
            \E j \in 1..(k - 1) : s[j].g = e /\ s[j].i = h
      BY <2>0, <2>a
    <2>1. PICK j \in 1..(k - 1) : s[j].g = e /\ s[j].i = i
      BY <2>0, <2>b
    <2>2. j \in 1..n
      BY <2>1, <1>1, <1>2
    <2> QED
      BY <2>1, <2>2, <1>1
  <1>3. CASE k > n /\ k - n \in 1..Len(d) /\ t[k] = d[k - n]
    <2>1. d[k - n].by = m /\ e \in Deps[d[k - n].g] /\ e \in Group
      BY <1>1, <1>3, MigrateSpecAssumption
    <2>2. i \in 0..(Stmts[m][e] - 1) /\ v[e] \in Int
      BY <2>1, <1>3
    <2>3. CASE i \in 0..v[e]
      <3>1. PICK j \in 1..n : s[j].g = e /\ s[j].i = i
        BY <2>1, <2>3 DEF Present, n
      <3>2. j \in 1..(k - 1) /\ t[j] = s[j]
        BY <3>1, <1>1, <1>3
      <3> QED
        BY <3>1, <3>2
    <2>4. CASE ~(i \in 0..v[e])
      <3>1. i \in (v[e] + 1)..(Stmts[m][e] - 1)
        BY <2>2, <2>4
      <3>2. PICK j \in 1..((k - n) - 1) : d[j].g = e /\ d[j].i = i
        BY <3>1, <2>1, <1>3
      <3>3. j \in 1..Len(d) /\ n + j \in 1..(k - 1)
        BY <3>2, <1>1, <1>3
      <3> QED
        BY <3>2, <3>3, <1>1
    <2> QED
      BY <2>3, <2>4
  <1> QED
    BY <1>1, <1>2, <1>3

\* What a run that has been through all its groups brings to its commit.
LEMMA CommitLacking ==
  ASSUME NEW m \in Migrator, NEW r \in Run, NEW G, G \subseteq DOMAIN Stmts[m],
         NEW v \in [Group -> Int], RunOK(m, r, G, v),
         r.pc = "groups", r.next > Len(r.order)
  PROVE  /\ Lacking(m, r.done, v, r.wrote)
         /\ r.order \in orderMigrationGroups(G) /\ r.wrote \subseteq G /\ G \subseteq Group
         /\ \A g \in G : Stmts[m][g] \in Nat /\ (g \in r.wrote \/ Stmts[m][g] <= v[g] + 1)
  <1> DEFINE o == r.order
             n == Len(r.order)
             d == r.done
  <1>1. /\ o \in orderMigrationGroups(G)
        /\ Handled(m, r, v) /\ DoneOnly(m, r, v) /\ DoneAll(m, r, v) /\ DoneInOrder(r)
    BY DEF RunOK, Holds
  <1>2. /\ n \in Nat /\ DOMAIN o = 1..n
        /\ \A a \in 1..n : o[a] \in G /\ o[a] \in Group /\ Stmts[m][o[a]] \in Nat
        /\ \A g \in G : \E a \in 1..n : o[a] = g
    BY <1>1, OrderFacts
  <1>3. G \subseteq Group
    BY MigrateSpecAssumption
  <1>4. r.next \in Nat /\ r.next - 1 = n
    BY <1>1, <1>2 DEF Handled
  <1>5. /\ \A g \in r.wrote : (\E a \in 1..n : o[a] = g) /\ v[g] + 1 < Stmts[m][g]
        /\ \A a \in 1..n : o[a] \in r.wrote \/ Stmts[m][o[a]] <= v[o[a]] + 1
    BY <1>1, <1>4 DEF Handled
  <1>6. DOMAIN d = 1..Len(d) /\ \A k \in 1..Len(d) : d[k] \in Migration
    BY RunFields, SeqFacts
  <1> HIDE DEF o, n, d
  <1>7. r.wrote \subseteq G
    BY <1>2, <1>5
  <1>8. \A g \in G : Stmts[m][g] \in Nat /\ (g \in r.wrote \/ Stmts[m][g] <= v[g] + 1)
    BY <1>2, <1>5
  <1>9. \A g \in r.wrote : Stmts[m][g] \in Nat /\ v[g] + 1 < Stmts[m][g]
    BY <1>5, <1>7, <1>8
  <1>10. \A k \in 1..Len(d) : /\ d[k].by = m /\ d[k].g \in r.wrote
                             /\ d[k].i \in (v[d[k].g] + 1)..(Stmts[m][d[k].g] - 1)
    BY <1>1, <1>6 DEF DoneOnly, d
  <1>11. \A g \in r.wrote : \A i \in (v[g] + 1)..(Stmts[m][g] - 1) :
           \E k \in 1..Len(d) : d[k].g = g /\ d[k].i = i
    BY <1>1, <1>6 DEF DoneAll, d
  <1>12. ASSUME NEW j \in 1..Len(d), NEW k \in 1..Len(d), j < k, d[j].g = d[k].g
         PROVE  d[j].i < d[k].i
    <2>1. PICK a \in 1..n : o[a] = d[k].g
      BY <1>2, <1>7, <1>10
    <2>2. a < a \/ (a = a /\ d[j].i < d[k].i)
      BY <2>1, <1>1, <1>2, <1>6, <1>12 DEF DoneInOrder, d, o
    <2>3. ~(a < a)
      BY <2>1, <1>2
    <2> QED
      BY <2>2, <2>3
  <1>13. Lacking(m, d, v, r.wrote)
    BY <1>3, <1>7, <1>9, <1>10, <1>11, <1>12 DEF Lacking
  <1> QED
    BY <1>1, <1>3, <1>7, <1>8, <1>13 DEF o, d

-----------------------------------------------------------------------------
(* The steps. *)

\* A call that is over, or that is about to begin an attempt, has no obligations.
LEMMA FreshOK ==
  ASSUME NEW m \in Migrator, NEW s, NEW pc \in {"idle", "begin"}, NEW o, NEW n,
         Fresh(s, pc, o, n), NEW G, NEW v,
         pc = "begin" => o \in orderMigrationGroups(G) /\ n < maxAttempts
  PROVE  RunOK(m, s, G, v) /\ ~Holds(s)
  BY DEF Fresh, RunOK, Holds

\* Nothing has happened yet.
LEMMA InitIInv == MInit => IInv
  <1> SUFFICES ASSUME MInit PROVE IInv
    OBVIOUS
  <1> USE MigrateAssumption
  <1>1. <<>> \in Seq(Migration) /\ <<>> \in Seq(Group) /\ Len(<<>>) = 0 /\ DOMAIN <<>> = {}
    BY EmptySeq
  <1>2. schema = <<>> /\ version = [g \in Group |-> -1] /\ lock = NoOne
        /\ groups = [m \in Migrator |-> Registered[m]] /\ run = [m \in Migrator |-> NoRun]
    BY DEF MInit, Init
  <1>3. NoRun \in Run /\ ~Holds(NoRun)
    BY NoRunIsFresh DEF Fresh, Holds
  <1>4. \A m \in Migrator : Registered[m] \subseteq DOMAIN Stmts[m] /\ Registered[m] \subseteq Group
    BY MigrateSpecAssumption
  <1>5. MTypeOK
    BY <1>1, <1>2, <1>3, <1>4 DEF MTypeOK
  <1>6. LockHeld
    BY <1>2, <1>3 DEF LockHeld
  <1>7. Runs
    <2> SUFFICES ASSUME NEW m \in Migrator
                 PROVE  RunOK(m, NoRun, groups[m], version)
      BY <1>2 DEF Runs
    <2> QED
      BY NoRunIsFresh, FreshOK
  <1>8. ExactlyOnce /\ AfterDependencies
    BY <1>1, <1>2 DEF ExactlyOnce, AfterDependencies
  <1> QED
    BY <1>2, <1>4, <1>5, <1>6, <1>7, <1>8 DEF IInv

\* Register: only a program that is idle gets a group, and its run is void.
LEMMA RegisterStep ==
  ASSUME IInv, NEW m \in Migrator, NEW g \in DOMAIN Stmts[m], Register(m, g)
  PROVE  IInv'
  <1>1. run \in [Migrator -> Run] /\ groups \in [Migrator -> SUBSET Group]
    BY DEF IInv, MTypeOK
  <1>2. /\ run[m].pc = "idle" /\ groups' = [groups EXCEPT ![m] = @ \cup {g}]
        /\ UNCHANGED <<schema, version, lock, run>>
    BY DEF Register
  <1>3. g \in Group
    BY MigrateSpecAssumption
  <1>4. MTypeOK'
    BY <1>1, <1>2, <1>3 DEF IInv, MTypeOK
  <1>5. \A p \in Migrator : groups'[p] \subseteq DOMAIN Stmts[p]
    BY <1>1, <1>2 DEF IInv
  <1>6. Runs'
    <2> SUFFICES ASSUME NEW p \in Migrator
                 PROVE  RunOK(p, run[p], groups'[p], version)
      BY <1>2 DEF Runs
    <2>1. RunOK(p, run[p], groups[p], version)
      BY DEF IInv, Runs
    <2>2. CASE p = m
      BY <2>1, <2>2, <1>2 DEF RunOK, Holds
    <2>3. CASE p # m
      BY <2>1, <2>3, <1>1, <1>2
    <2> QED
      BY <2>2, <2>3
  <1>7. LockHeld' /\ ExactlyOnce' /\ AfterDependencies' /\ \A h \in Group : -1 <= version'[h]
    BY <1>2 DEF IInv, LockHeld, ExactlyOnce, AfterDependencies
  <1> QED
    BY <1>4, <1>5, <1>6, <1>7 DEF IInv

\* What the invariant says of one program.
LEMMA OfProgram ==
  ASSUME IInv, NEW m \in Migrator
  PROVE  /\ run[m] \in Run /\ groups[m] \subseteq DOMAIN Stmts[m]
         /\ version \in [Group -> Int] /\ \A g \in Group : -1 <= version[g]
         /\ RunOK(m, run[m], groups[m], version)
         /\ lock = m <=> Holds(run[m])
  BY DEF IInv, MTypeOK, Runs, LockHeld

\* The calls before the transaction.
LEMMA CallStep ==
  ASSUME IInv, NEW m \in Migrator, Call(m), UNCHANGED groups
  PROVE  IInv'
  <1>1. /\ run[m] \in Run /\ groups[m] \subseteq DOMAIN Stmts[m]
    BY OfProgram
  <1>2. PICK o \in orderMigrationGroups(groups[m]) :
          run' = [run EXCEPT ![m] = [[NoRun EXCEPT !.order = o] EXCEPT !.pc = "begin"]]
    BY DEF Call, Goto
  <1> DEFINE r == [[NoRun EXCEPT !.order = o] EXCEPT !.pc = "begin"]
  <1>3. o \in Seq(Group)
    BY <1>1, OrderFacts
  <1>4. Fresh(r, "begin", o, 0)
    BY <1>3, GotoBegin
  <1>5. run' = [run EXCEPT ![m] = r]
    BY <1>2
  <1> HIDE DEF r
  <1>6. r \in Run
    BY <1>4 DEF Fresh
  <1>7. "begin" \in {"idle", "begin"} /\ 0 < maxAttempts
    BY MigrateAssumption
  <1>8. RunOK(m, r, groups[m], version) /\ ~Holds(r)
    BY <1>4, <1>7, FreshOK
  <1>9. ~Holds(run[m]) /\ UNCHANGED <<schema, version, lock>>
    BY DEF Call, Holds
  <1> QED
    BY <1>5, <1>6, <1>8, <1>9, RunStep

\* BEGIN, and the request for the lock.
LEMMA RequestLockStep ==
  ASSUME IInv, NEW m \in Migrator, RequestLock(m), UNCHANGED groups
  PROVE  IInv'
  <1> DEFINE q == run[m]
             snap == IF m \in RepeatableRead THEN version ELSE q.snapshot
             r == [[q EXCEPT !.attempts = @ + 1, !.snapshot = snap] EXCEPT !.pc = "lock"]
  <1>1. /\ q \in Run /\ version \in [Group -> Int] /\ \A g \in Group : -1 <= version[g]
        /\ RunOK(m, q, groups[m], version)
    BY OfProgram
  <1>2. q.pc = "begin" /\ UNCHANGED <<schema, version, lock>> /\ run' = [run EXCEPT ![m] = r]
    BY DEF RequestLock, Goto
  <1>3. /\ q.order \in orderMigrationGroups(groups[m]) /\ q.attempts < maxAttempts
        /\ ~Holds(q) /\ Untouched(q)
    BY <1>1, <1>2 DEF RunOK, Holds
  <1>4. snap \in [Group -> Int]
    BY <1>1, RunFields
  <1> HIDE DEF q, snap
  <1>5. Is(r, q, "lock", q.next, q.attempts + 1, snap, q.last, q.done, q.wrote)
    BY <1>1, <1>3, <1>4, AfterRequest
  <1> HIDE DEF r
  <1>6. /\ r \in Run /\ r.pc = "lock" /\ r.order = q.order /\ r.snapshot = snap
        /\ r.next = q.next /\ r.done = q.done /\ r.wrote = q.wrote
    BY <1>5 DEF Is
  <1>7. SnapshotOld(r, version) \/ m \notin RepeatableRead
    BY <1>1, <1>6 DEF SnapshotOld, snap
  <1>8. RunOK(m, r, groups[m], version) /\ ~Holds(r)
    BY <1>3, <1>6, <1>7 DEF RunOK, Holds, Untouched
  <1>9. ~Holds(run[m])
    BY <1>3 DEF q
  <1> QED
    BY <1>2, <1>6, <1>8, <1>9, RunStep

\* The lock is free, and taken.
LEMMA AcquireStep ==
  ASSUME IInv, NEW m \in Migrator, Acquire(m), UNCHANGED groups
  PROVE  IInv'
  <1> DEFINE q == run[m]
             r == [q EXCEPT !.pc = "groups"]
  <1>1. /\ q \in Run /\ version \in [Group -> Int] /\ \A g \in Group : -1 <= version[g]
        /\ RunOK(m, q, groups[m], version) /\ groups[m] \subseteq DOMAIN Stmts[m]
    BY OfProgram
  <1>2. /\ q.pc = "lock" /\ lock = NoOne /\ lock' = m
        /\ UNCHANGED <<schema, version>> /\ run' = [run EXCEPT ![m] = r]
    BY DEF Acquire, Goto
  <1> HIDE DEF q
  <1>3. Is(r, q, "groups", q.next, q.attempts, q.snapshot, q.last, q.done, q.wrote)
    BY <1>1, AfterAcquire
  <1> HIDE DEF r
  <1>4. r \in Run
    BY <1>3 DEF Is
  <1>5. RunOK(m, r, groups[m], version) /\ Holds(r)
    BY <1>1, <1>2, <1>3, AcquireKeeps
  <1> QED
    BY <1>2, <1>4, <1>5, RunStep

\* The loop over the groups.
LEMMA NextGroupStep ==
  ASSUME IInv, NEW m \in Migrator, NextGroup(m), UNCHANGED groups
  PROVE  IInv'
  <1> DEFINE q == run[m]
             b == Base(m, q, version, q.order[q.next])
  <1>1. /\ q \in Run /\ version \in [Group -> Int] /\ \A g \in Group : -1 <= version[g]
        /\ RunOK(m, q, groups[m], version) /\ groups[m] \subseteq DOMAIN Stmts[m]
    BY OfProgram
  <1>2. b = groupLastVersion(m, Current(m))
    BY DEF Base, groupLastVersion, Current
  <1>3. /\ q.pc = "groups" /\ q.next <= Len(q.order) /\ UNCHANGED <<schema, version, lock>>
        /\ \/ /\ Stmts[m][q.order[q.next]] > b + 1
              /\ run' = [run EXCEPT ![m] = [[q EXCEPT !.last = b] EXCEPT !.pc = "apply"]]
           \/ /\ ~(Stmts[m][q.order[q.next]] > b + 1)
              /\ run' = [run EXCEPT ![m] = [[q EXCEPT !.next = @ + 1] EXCEPT !.pc = "groups"]]
    BY <1>2 DEF NextGroup, Needs, Goto, Current
  <1>4. Holds(run[m])
    BY <1>3 DEF Holds
  <1> HIDE DEF q
  <1>5. CASE Stmts[m][q.order[q.next]] > b + 1
    <2> DEFINE r == [[q EXCEPT !.last = b] EXCEPT !.pc = "apply"]
    <2>1. q.order \in orderMigrationGroups(groups[m]) /\ Handled(m, q, version) /\ Holds(q)
      BY <1>1, <1>3 DEF RunOK, Holds
    <2>2. q.order[q.next] \in Group
      BY <1>1, <1>3, <2>1, OrderFacts DEF Handled
    <2>3. b \in Int
      BY <1>1, <2>1, <2>2, BaseFacts
    <2>4. Is(r, q, "apply", q.next, q.attempts, q.snapshot, b, q.done, q.wrote)
      BY <1>1, <2>3, AfterNeeded
    <2>5. run' = [run EXCEPT ![m] = r]
      BY <1>3, <1>5
    <2> HIDE DEF r
    <2>6. r \in Run
      BY <2>4 DEF Is
    <2>7. RunOK(m, r, groups[m], version) /\ Holds(r)
      BY <1>1, <1>3, <1>5, <2>4, NeededKeeps
    <2> QED
      BY <1>3, <1>4, <2>5, <2>6, <2>7, RunStep
  <1>6. CASE ~(Stmts[m][q.order[q.next]] > b + 1)
    <2> DEFINE r == [[q EXCEPT !.next = @ + 1] EXCEPT !.pc = "groups"]
    <2>4. Is(r, q, "groups", q.next + 1, q.attempts, q.snapshot, q.last, q.done, q.wrote)
      BY <1>1, AfterSkip
    <2>5. run' = [run EXCEPT ![m] = r]
      BY <1>3, <1>6
    <2> HIDE DEF r
    <2>6. r \in Run
      BY <2>4 DEF Is
    <2>7. RunOK(m, r, groups[m], version) /\ Holds(r)
      BY <1>1, <1>3, <1>6, <2>4, SkipKeeps
    <2> QED
      BY <1>3, <1>4, <2>5, <2>6, <2>7, RunStep
  <1> QED
    BY <1>5, <1>6

\* The loop over the statements of a group.
LEMMA ApplyStep ==
  ASSUME IInv, NEW m \in Migrator, Apply(m), UNCHANGED groups
  PROVE  IInv'
  <1> DEFINE q == run[m]
             x == [g |-> q.order[q.next], i |-> q.last + 1, by |-> m]
             r == [[q EXCEPT !.last = q.last + 1, !.done = Append(@, x)] EXCEPT !.pc = "apply"]
  <1>1. /\ q \in Run /\ version \in [Group -> Int] /\ \A g \in Group : -1 <= version[g]
        /\ RunOK(m, q, groups[m], version) /\ groups[m] \subseteq DOMAIN Stmts[m]
    BY OfProgram
  <1>2. /\ q.pc = "apply" /\ q.last + 1 < Stmts[m][q.order[q.next]]
        /\ UNCHANGED <<schema, version, lock>> /\ run' = [run EXCEPT ![m] = r]
    BY DEF Apply, Goto, Current
  <1>3. Holds(run[m])
    BY <1>2 DEF Holds
  <1> HIDE DEF q
  <1>4. /\ q.order \in orderMigrationGroups(groups[m]) /\ Holds(q)
        /\ Handled(m, q, version) /\ InHand(m, q, version)
    BY <1>1, <1>2 DEF RunOK, Holds
  <1>5. q.order[q.next] \in Group
    BY <1>1, <1>2, <1>4, OrderFacts DEF Handled
  <1>6. q.last \in Int /\ q.last + 1 \in Nat
    <2>1. q.last \in Int
      BY <1>1, RunFields
    <2>2. /\ Base(m, q, version, q.order[q.next]) \in Int
          /\ -1 <= Base(m, q, version, q.order[q.next])
      BY <1>1, <1>4, <1>5, BaseFacts
    <2>3. Base(m, q, version, q.order[q.next]) <= q.last
      BY <1>2, <1>4 DEF InHand
    <2> QED
      BY <2>1, <2>2, <2>3
  <1>7. x \in Migration
    BY <1>5, <1>6 DEF Migration
  <1>8. x = [g |-> q.order[q.next], i |-> q.last + 1, by |-> m]
    OBVIOUS
  <1> HIDE DEF x
  <1>9. Is(r, q, "apply", q.next, q.attempts, q.snapshot, q.last + 1, Append(q.done, x), q.wrote)
    <2> DEFINE last == q.last + 1
    <2>1. last \in Int
      BY <1>6
    <2>2. r = [[q EXCEPT !.last = last, !.done = Append(@, x)] EXCEPT !.pc = "apply"]
      OBVIOUS
    <2> HIDE DEF last, r
    <2>3. Is(r, q, "apply", q.next, q.attempts, q.snapshot, last, Append(q.done, x), q.wrote)
      BY <1>1, <1>7, <2>1, <2>2, AfterApply, Zenon
    <2> QED
      BY <2>3 DEF last
  <1> HIDE DEF r
  <1>10. r \in Run
    BY <1>9 DEF Is
  <1>11. RunOK(m, r, groups[m], version) /\ Holds(r)
    BY <1>1, <1>2, <1>7, <1>8, <1>9, ApplyKeeps
  <1> QED
    BY <1>2, <1>3, <1>10, <1>11, RunStep

\* The version of the group is written.
LEMMA setGroupLastVersionStep ==
  ASSUME IInv, NEW m \in Migrator, setGroupLastVersion(m), UNCHANGED groups
  PROVE  IInv'
  <1> DEFINE q == run[m]
             g == q.order[q.next]
             r == [[q EXCEPT !.next = @ + 1, !.last = -1, !.wrote = @ \cup {g}]
                     EXCEPT !.pc = "groups"]
  <1>1. /\ q \in Run /\ version \in [Group -> Int] /\ \A h \in Group : -1 <= version[h]
        /\ RunOK(m, q, groups[m], version) /\ groups[m] \subseteq DOMAIN Stmts[m]
    BY OfProgram
  <1>2. /\ q.pc = "apply" /\ q.last + 1 >= Stmts[m][g]
        /\ m \in RepeatableRead => version[g] = q.snapshot[g]
        /\ UNCHANGED <<schema, version, lock>> /\ run' = [run EXCEPT ![m] = r]
    BY DEF setGroupLastVersion, AllApplied, Writable, Goto, Current
  <1>3. Holds(run[m])
    BY <1>2 DEF Holds
  <1> HIDE DEF q
  <1>4. /\ q.order \in orderMigrationGroups(groups[m]) /\ Handled(m, q, version)
    BY <1>1, <1>2 DEF RunOK, Holds
  <1>5. g \in Group
    BY <1>1, <1>2, <1>4, OrderFacts DEF Handled
  <1>6. Is(r, q, "groups", q.next + 1, q.attempts, q.snapshot, -1, q.done, q.wrote \cup {g})
    BY <1>1, <1>5, AfterWrite
  <1> HIDE DEF r
  <1>7. r \in Run
    BY <1>6 DEF Is
  <1>8. RunOK(m, r, groups[m], version) /\ Holds(r)
    BY <1>1, <1>2, <1>6, WriteKeeps
  <1> QED
    BY <1>2, <1>3, <1>7, <1>8, RunStep

\* The end of a call or of an attempt, by an error.
LEMMA RollbackStep ==
  ASSUME IInv, NEW m \in Migrator, NEW r, NEW pc \in {"idle", "begin"}, NEW o, NEW n,
         Fresh(r, pc, o, n), run' = [run EXCEPT ![m] = r], Rollback(m), UNCHANGED groups,
         pc = "begin" => o \in orderMigrationGroups(groups[m]) /\ n < maxAttempts
  PROVE  IInv'
  <1>1. r \in Run
    BY DEF Fresh
  <1>2. RunOK(m, r, groups[m], version) /\ ~Holds(r)
    BY FreshOK
  <1>3. lock' = (IF lock = m THEN NoOne ELSE lock) /\ UNCHANGED <<schema, version, groups>>
    BY DEF Rollback
  <1> QED
    BY <1>1, <1>2, <1>3, RunStep

\* An error that is not tried again.
LEMMA FailStep ==
  ASSUME IInv, NEW m \in Migrator, Fail(m), UNCHANGED groups
  PROVE  IInv'
  <1> DEFINE r == [NoRun EXCEPT !.pc = "idle"]
  <1>1. run' = [run EXCEPT ![m] = r] /\ Rollback(m)
    BY DEF Fail, Goto
  <1>2. Fresh(r, "idle", <<>>, 0)
    BY GotoIdle
  <1> HIDE DEF r
  <1>3. "idle" \in {"idle", "begin"} /\ "idle" # "begin"
    OBVIOUS
  <1> QED
    BY <1>1, <1>2, <1>3, RollbackStep

\* Deadlock and SerializationFailure: the transaction is tried again, or given up.
LEMMA RetryStep ==
  ASSUME IInv, NEW m \in Migrator, run[m].pc # "idle", RetryOrFail(m), UNCHANGED groups
  PROVE  IInv'
  <1>1. Rollback(m)
    BY DEF RetryOrFail
  <1>2. CASE m \in RetryDeadlock /\ run[m].attempts < maxAttempts
    <2> DEFINE o == run[m].order
               n == run[m].attempts
               r == [[NoRun EXCEPT !.order = o, !.attempts = n] EXCEPT !.pc = "begin"]
    <2>1. run' = [run EXCEPT ![m] = r]
      BY <1>2 DEF RetryOrFail, Goto
    <2>2. run[m] \in Run /\ RunOK(m, run[m], groups[m], version)
      BY OfProgram
    <2>3. o \in orderMigrationGroups(groups[m]) /\ o \in Seq(Group) /\ n \in 0..maxAttempts
      BY <2>2, RunFields DEF RunOK
    <2>4. n < maxAttempts
      BY <1>2
    <2> HIDE DEF o, n
    <2>5. Fresh(r, "begin", o, n)
      BY <2>3, GotoRetry
    <2> HIDE DEF r
    <2>6. "begin" \in {"idle", "begin"}
      OBVIOUS
    <2> QED
      BY <1>1, <2>1, <2>3, <2>4, <2>5, <2>6, RollbackStep
  <1>3. CASE ~(m \in RetryDeadlock /\ run[m].attempts < maxAttempts)
    <2> DEFINE r == [NoRun EXCEPT !.pc = "idle"]
    <2>1. run' = [run EXCEPT ![m] = r]
      BY <1>3 DEF RetryOrFail, Goto
    <2>2. Fresh(r, "idle", <<>>, 0)
      BY GotoIdle
    <2> HIDE DEF r
    <2>3. "idle" \in {"idle", "begin"} /\ "idle" # "begin"
      OBVIOUS
    <2> QED
      BY <1>1, <2>1, <2>2, <2>3, RollbackStep
  <1> QED
    BY <1>2, <1>3

\* The commit: the others wait, and see the tables only grow.
LEMMA CommitStep ==
  ASSUME IInv, NEW m \in Migrator, Commit(m), UNCHANGED groups
  PROVE  IInv'
  <1> USE MigrateAssumption
  <1> DEFINE q == run[m]
             r == [NoRun EXCEPT !.pc = "idle"]
  <1>1. /\ q \in Run /\ version \in [Group -> Int] /\ \A g \in Group : -1 <= version[g]
        /\ RunOK(m, q, groups[m], version) /\ groups[m] \subseteq DOMAIN Stmts[m]
        /\ lock = m <=> Holds(q)
    BY OfProgram
  <1>2. /\ q.pc = "groups" /\ q.next > Len(q.order)
        /\ schema' = schema \o q.done
        /\ version' = [g \in Group |-> IF g \in q.wrote THEN Stmts[m][g] - 1 ELSE version[g]]
        /\ lock' = IF lock = m THEN NoOne ELSE lock
        /\ run' = [run EXCEPT ![m] = r]
    BY DEF Commit, Goto
  <1>3. Lacking(m, q.done, version, q.wrote)
    BY <1>1, <1>2, CommitLacking
  <1>4. Fresh(r, "idle", <<>>, 0)
    BY GotoIdle
  <1>5. lock = m
    BY <1>1, <1>2 DEF Holds
  <1>6. /\ schema \in Seq(Migration) /\ q.done \in Seq(Migration)
        /\ run \in [Migrator -> Run] /\ groups \in [Migrator -> SUBSET Group]
    BY <1>1, RunFields DEF IInv, MTypeOK
  <1> HIDE DEF r
  <1>7. run'[m] = r /\ \A p \in Migrator \ {m} : run'[p] = run[p]
    BY <1>2, <1>6
  <1>8. ~Holds(r) /\ r \in Run
    BY <1>4 DEF Fresh, Holds
  <1> HIDE DEF q
  <1>9. version' \in [Group -> Int]
    <2>1. \A g \in q.wrote : Stmts[m][g] - 1 \in Int
      BY <1>3 DEF Lacking
    <2> QED
      BY <1>1, <1>2, <2>1
  <1>10. Updated(m, version, version', q.wrote)
    BY <1>2 DEF Updated
  <1>11. \A g \in Group : version[g] <= version'[g]
    BY <1>1, <1>3, <1>9, <1>10, CommitForward
  <1>12. schema' \in Seq(Migration)
    BY <1>2, <1>6, ConcatFacts
  <1>13. MTypeOK'
    BY <1>2, <1>5, <1>6, <1>8, <1>9, <1>12 DEF MTypeOK
  <1>14. \A g \in Group : -1 <= version'[g]
    BY <1>1, <1>9, <1>11
  <1>15. LockHeld'
    BY <1>2, <1>5, <1>7, <1>8 DEF IInv, LockHeld
  <1>16. Runs'
    <2> SUFFICES ASSUME NEW p \in Migrator
                 PROVE  RunOK(p, run'[p], groups[p], version')
      BY DEF Runs
    <2>1. CASE p = m
      <3>1. "idle" \in {"idle", "begin"} /\ "idle" # "begin"
        OBVIOUS
      <3> QED
        BY <2>1, <3>1, <1>4, <1>7, FreshOK
    <2>2. CASE p # m
      <3>1. run[p] \in Run /\ RunOK(p, run[p], groups[p], version) /\ ~Holds(run[p])
        BY <2>2, <1>5, OfProgram
      <3>2. RunOK(p, run[p], groups[p], version')
        BY <3>1, <1>1, <1>9, <1>11, RunOfOthers
      <3> QED
        BY <2>2, <3>2, <1>7
    <2> QED
      BY <2>1, <2>2
  <1>17. /\ Within(schema, version) /\ Present(schema, version) /\ Rising(schema)
         /\ After(schema)
    <2>1. Once(schema, version)
      BY DEF IInv, ExactlyOnce, Once
    <2>2. DOMAIN schema = 1..Len(schema)
      BY <1>6, SeqFacts
    <2>3. After(schema)
      BY <2>2 DEF IInv, AfterDependencies, After
    <2> QED
      BY <1>6, <2>1, <2>3, OnceParts
  <1>18. ExactlyOnce' /\ AfterDependencies'
    <2>1. /\ Within(schema \o q.done, version') /\ Present(schema \o q.done, version')
          /\ Rising(schema \o q.done)
      BY <1>1, <1>3, <1>6, <1>9, <1>10, <1>17, CommitOnce
    <2>2. /\ \A k \in 1..Len(q.done) : q.done[k].by = m
          /\ \A k \in 1..Len(q.done) : \A e \in Deps[q.done[k].g] :
               \A i \in (version[e] + 1)..(Stmts[m][e] - 1) :
                 \E j \in 1..(k - 1) : q.done[j].g = e /\ q.done[j].i = i
      <3>1. DOMAIN q.done = 1..Len(q.done)
        BY <1>6, SeqFacts
      <3>2. DoneAfterDeps(m, q, version)
        BY <1>1, <1>2 DEF RunOK, Holds
      <3>3. \A k \in 1..Len(q.done) : q.done[k].by = m
        BY <1>3 DEF Lacking
      <3>4. \A k \in 1..Len(q.done) : \A e \in Deps[q.done[k].g] :
              \A i \in (version[e] + 1)..(Stmts[m][e] - 1) :
                \E j \in 1..(k - 1) : q.done[j].g = e /\ q.done[j].i = i
        BY <3>1, <3>2 DEF DoneAfterDeps
      <3> QED
        BY <3>3, <3>4
    <2>3. After(schema \o q.done)
      BY <1>1, <1>6, <1>17, <2>2, CommitAfter
    <2>4. Once(schema', version')
      BY <2>1, <1>2, <1>12, OnceParts
    <2>5. ExactlyOnce'
      BY <2>4 DEF ExactlyOnce, Once
    <2>6. DOMAIN schema' = 1..Len(schema')
      BY <1>12, SeqFacts
    <2>7. After(schema')
      BY <2>3, <1>2
    <2>8. AfterDependencies'
      BY <2>6, <2>7 DEF AfterDependencies, After
    <2> QED
      BY <2>5, <2>8
  <1>19. \A p \in Migrator : groups'[p] \subseteq DOMAIN Stmts[p]
    BY DEF IInv
  <1> QED
    BY <1>13, <1>14, <1>15, <1>16, <1>18, <1>19 DEF IInv

-----------------------------------------------------------------------------
(* The theorems. *)

\* Every step keeps the invariant.
LEMMA StepIInv == IInv /\ [MNext]_vars => IInv'
  <1> SUFFICES ASSUME IInv, [MNext]_vars PROVE IInv'
    OBVIOUS
  <1>1. CASE UNCHANGED vars
    BY <1>1 DEF vars, IInv, MTypeOK, LockHeld, Runs, ExactlyOnce, AfterDependencies
  <1>2. CASE MNext
    <2>1. PICK m \in Migrator :
            \/ \E g \in DOMAIN Stmts[m] : Register(m, g)
            \/ (Call(m) \/ Work(m) \/ Acquire(m) \/ Fail(m) \/ Deadlock(m)) /\ UNCHANGED groups
      BY <1>2 DEF MNext
    <2>2. CASE \E g \in DOMAIN Stmts[m] : Register(m, g)
      BY <2>2, RegisterStep
    <2>3. CASE Call(m) /\ UNCHANGED groups
      BY <2>3, CallStep
    <2>4. CASE RequestLock(m) /\ UNCHANGED groups
      BY <2>4, RequestLockStep
    <2>5. CASE Acquire(m) /\ UNCHANGED groups
      BY <2>5, AcquireStep
    <2>6. CASE NextGroup(m) /\ UNCHANGED groups
      BY <2>6, NextGroupStep
    <2>7. CASE Apply(m) /\ UNCHANGED groups
      BY <2>7, ApplyStep
    <2>8. CASE setGroupLastVersion(m) /\ UNCHANGED groups
      BY <2>8, setGroupLastVersionStep
    <2>9. CASE Commit(m) /\ UNCHANGED groups
      BY <2>9, CommitStep
    <2>10. CASE Fail(m) /\ UNCHANGED groups
      BY <2>10, FailStep
    <2>11. CASE (Deadlock(m) \/ SerializationFailure(m)) /\ UNCHANGED groups
      <3>1. run[m].pc # "idle" /\ RetryOrFail(m)
        BY <2>11 DEF Deadlock, SerializationFailure, AllApplied
      <3> QED
        BY <2>11, <3>1, RetryStep
    <2> QED
      BY <2>1, <2>2, <2>3, <2>4, <2>5, <2>6, <2>7, <2>8, <2>9, <2>10, <2>11 DEF Work
  <1> QED
    BY <1>1, <1>2

\* The invariant holds in every state: the lock, and the check of the snapshot
\* at setGroupLastVersion, make each transaction see the versions it changes.
THEOREM Inductive == MSpec => []IInv
  BY InitIInv, StepIInv, PTL DEF MSpec

\* The variables keep their types; pgdb.Tx makes no more than maxAttempts attempts.
THEOREM TypeCorrect == MSpec => []MTypeOK
  <1>1. IInv => MTypeOK
    BY DEF IInv
  <1> QED
    BY <1>1, Inductive, PTL

\* Any number of programs, of any builds, that call Migrate at the same time and
\* fail, retry or die, apply each migration of a group exactly once and in order.
THEOREM AppliedExactlyOnce == MSpec => []ExactlyOnce
  <1>1. IInv => ExactlyOnce
    BY DEF IInv
  <1> QED
    BY <1>1, Inductive, PTL

\* A migration is applied after those of the groups that its group depends on,
\* whatever order of the groups the topological sort chose.
THEOREM DependenciesFirst == MSpec => []AfterDependencies
  <1>1. IInv => AfterDependencies
    BY DEF IInv
  <1> QED
    BY <1>1, Inductive, PTL

\* The only step that changes the tables is a commit; this is all it does.
LEMMA TablesStep ==
  ASSUME IInv, [MNext]_vars
  PROVE  \/ UNCHANGED <<schema, version>>
         \/ \E m \in Migrator : Commit(m) /\ UNCHANGED groups
  <1>1. CASE UNCHANGED vars
    BY <1>1 DEF vars
  <1>2. CASE MNext
    <2>1. PICK m \in Migrator :
            \/ \E g \in DOMAIN Stmts[m] : Register(m, g)
            \/ (Call(m) \/ Work(m) \/ Acquire(m) \/ Fail(m) \/ Deadlock(m)) /\ UNCHANGED groups
      BY <1>2 DEF MNext
    <2>2. CASE Commit(m) /\ UNCHANGED groups
      BY <2>2
    <2>3. CASE \E g \in DOMAIN Stmts[m] : Register(m, g)
      BY <2>3 DEF Register
    <2>4. CASE Call(m) \/ RequestLock(m) \/ Acquire(m) \/ NextGroup(m) \/ Apply(m)
               \/ setGroupLastVersion(m)
      BY <2>4 DEF Call, RequestLock, Acquire, NextGroup, Apply, setGroupLastVersion
    <2>5. CASE Fail(m) \/ Deadlock(m) \/ SerializationFailure(m)
      BY <2>5 DEF Fail, Deadlock, SerializationFailure, RetryOrFail, Rollback
    <2> QED
      BY <2>1, <2>2, <2>3, <2>4, <2>5 DEF Work
  <1> QED
    BY <1>1, <1>2

\* What a commit of m does to the tables, as seen from outside.
LEMMA CommitTables ==
  ASSUME IInv, NEW m \in Migrator, Commit(m)
  PROVE  /\ run[m] \in Run /\ RunOK(m, run[m], groups[m], version) /\ Holds(run[m])
         /\ schema \in Seq(Migration) /\ run[m].done \in Seq(Migration)
         /\ version \in [Group -> Int] /\ version' \in [Group -> Int]
         /\ schema' = schema \o run[m].done
         /\ version' = [g \in Group |-> IF g \in run[m].wrote THEN Stmts[m][g] - 1
                                                            ELSE version[g]]
         /\ Lacking(m, run[m].done, version, run[m].wrote)
         /\ Updated(m, version, version', run[m].wrote)
         /\ run[m].order \in orderMigrationGroups(groups[m])
         /\ run[m].wrote \subseteq groups[m] /\ groups[m] \subseteq Group
         /\ groups[m] \subseteq DOMAIN Stmts[m]
         /\ \A g \in groups[m] : /\ Stmts[m][g] \in Nat
                                 /\ g \in run[m].wrote \/ Stmts[m][g] <= version[g] + 1
  <1> DEFINE q == run[m]
  <1>1. /\ q \in Run /\ version \in [Group -> Int]
        /\ RunOK(m, q, groups[m], version) /\ groups[m] \subseteq DOMAIN Stmts[m]
    BY OfProgram
  <1>2. /\ q.pc = "groups" /\ q.next > Len(q.order) /\ schema' = schema \o q.done
        /\ version' = [g \in Group |-> IF g \in q.wrote THEN Stmts[m][g] - 1 ELSE version[g]]
    BY DEF Commit
  <1>3. /\ Lacking(m, q.done, version, q.wrote)
        /\ q.order \in orderMigrationGroups(groups[m])
        /\ q.wrote \subseteq groups[m] /\ groups[m] \subseteq Group
        /\ \A g \in groups[m] : /\ Stmts[m][g] \in Nat
                                /\ g \in q.wrote \/ Stmts[m][g] <= version[g] + 1
    BY <1>1, <1>2, CommitLacking
  <1>4. schema \in Seq(Migration) /\ q.done \in Seq(Migration)
    BY <1>1, RunFields DEF IInv, MTypeOK
  <1>5. Holds(q)
    BY <1>2 DEF Holds
  <1> HIDE DEF q
  <1>6. version' \in [Group -> Int]
    <2>1. \A g \in q.wrote : Stmts[m][g] - 1 \in Int
      BY <1>3 DEF Lacking
    <2> QED
      BY <1>1, <1>2, <2>1
  <1>7. Updated(m, version, version', q.wrote)
    BY <1>2 DEF Updated
  <1> QED
    BY <1>1, <1>2, <1>3, <1>4, <1>5, <1>6, <1>7 DEF q

\* No step takes a group back to an older version.
THEOREM NeverBack == MSpec => ForwardOnly
  <1>1. ASSUME IInv, [MNext]_vars
        PROVE  [\A g \in Group : version'[g] >= version[g]]_vars
    <2>1. CASE UNCHANGED <<schema, version>>
      <3>1. version \in [Group -> Int]
        BY <1>1 DEF IInv, MTypeOK
      <3> QED
        BY <2>1, <3>1
    <2>2. CASE \E m \in Migrator : Commit(m) /\ UNCHANGED groups
      <3>1. PICK m \in Migrator : Commit(m)
        BY <2>2
      <3>2. /\ version \in [Group -> Int] /\ version' \in [Group -> Int]
            /\ Lacking(m, run[m].done, version, run[m].wrote)
            /\ Updated(m, version, version', run[m].wrote)
        BY <1>1, <3>1, CommitTables
      <3>3. \A g \in Group : version[g] <= version'[g]
        BY <3>2, CommitForward
      <3> QED
        BY <3>2, <3>3
    <2> QED
      BY <1>1, <2>1, <2>2, TablesStep
  <1> QED
    BY <1>1, Inductive, PTL DEF MSpec, ForwardOnly

\* A commit that wrote no version changes nothing.
LEMMA CommitOfNothing ==
  ASSUME IInv, NEW m \in Migrator, Commit(m), run[m].wrote = {}
  PROVE  UNCHANGED <<schema, version>>
  <1> DEFINE d == run[m].done
  <1>1. /\ schema \in Seq(Migration) /\ d \in Seq(Migration) /\ version \in [Group -> Int]
        /\ schema' = schema \o d
        /\ version' = [g \in Group |-> IF g \in {} THEN Stmts[m][g] - 1 ELSE version[g]]
        /\ Lacking(m, d, version, {})
    BY CommitTables
  <1> HIDE DEF d
  <1>2. version' = version
    BY <1>1
  <1>3. 1..Len(d) = {}
    BY <1>1 DEF Lacking
  <1>4. Len(d) = 0
    <2>1. Len(d) \in Nat
      BY <1>1, LenProperties
    <2> QED
      BY <2>1, <1>3
  <1>5. d = <<>>
    BY <1>1, <1>4, EmptySeq
  <1>6. schema \o d = schema
    BY <1>1, <1>5, ConcatEmptySeq
  <1> QED
    BY <1>1, <1>2, <1>6

\* Any other commit is the upgrade that MigrateSpec promises, with the groups that
\* the program has registered.
LEMMA CommitIsUpgrade ==
  ASSUME IInv, NEW m \in Migrator, Commit(m), run[m].wrote # {}
  PROVE  Promise!Upgrade(m, groups[m])
  <1> DEFINE q == run[m]
             d == run[m].done
             n == Len(schema)
             G == groups[m]
  <1>1. /\ schema \in Seq(Migration) /\ d \in Seq(Migration) /\ version \in [Group -> Int]
        /\ schema' = schema \o d /\ q \in Run
        /\ version' = [g \in Group |-> IF g \in q.wrote THEN Stmts[m][g] - 1 ELSE version[g]]
        /\ Lacking(m, d, version, q.wrote) /\ RunOK(m, q, G, version) /\ Holds(q)
        /\ q.order \in orderMigrationGroups(G)
        /\ q.wrote \subseteq G /\ G \subseteq Group
        /\ \A g \in G : /\ Stmts[m][g] \in Nat
                        /\ g \in q.wrote \/ Stmts[m][g] <= version[g] + 1
    BY CommitTables
  <1>2. /\ n \in Nat /\ Len(d) \in Nat /\ Len(schema') = n + Len(d)
        /\ DOMAIN schema = 1..n /\ DOMAIN d = 1..Len(d)
    BY <1>1, SeqFacts, ConcatFacts
  <1>3. /\ \A k \in 1..n : schema'[k] = schema[k]
        /\ \A k \in 1..Len(d) : schema'[n + k] = d[k]
    BY <1>1, ConcatFacts
  <1>4. DoneInOrder(q) /\ q.done = d
    BY <1>1 DEF RunOK
  <1>5. Promise!Added = (n + 1)..(n + Len(d))
    BY <1>2 DEF Promise!Added
  <1> HIDE DEF q, d, n, G
  <1>6. ASSUME NEW k \in Promise!Added
        PROVE  k - n \in 1..Len(d) /\ schema'[k] = d[k - n]
    <2>1. k - n \in 1..Len(d) /\ n + (k - n) = k
      BY <1>2, <1>5
    <2> QED
      BY <2>1, <1>3
  <1>7. \A k \in 1..Len(d) : n + k \in Promise!Added
    BY <1>2, <1>5
  <1>8. Promise!Added # {}
    <2>1. PICK g \in q.wrote : TRUE
      BY DEF q
    <2>2. version[g] \in Int /\ version[g] + 1 \in (version[g] + 1)..(Stmts[m][g] - 1)
      BY <1>1, <2>1 DEF Lacking
    <2>3. PICK k \in 1..Len(d) : d[k].g = g
      BY <1>1, <2>1, <2>2 DEF Lacking
    <2> QED
      BY <2>3, <1>7
  <1>9. \A k \in DOMAIN schema : schema'[k] = schema[k]
    BY <1>2, <1>3
  <1>10. Promise!AllMissing(m, G)
    <2>1. ASSUME NEW k \in Promise!Added
          PROVE  /\ schema'[k].by = m /\ schema'[k].g \in G
                 /\ schema'[k].i \in Promise!Missing(m, schema'[k].g)
      <3>1. k - n \in 1..Len(d) /\ schema'[k] = d[k - n]
        BY <1>6
      <3>2. /\ d[k - n].by = m /\ d[k - n].g \in q.wrote
            /\ d[k - n].i \in (version[d[k - n].g] + 1)..(Stmts[m][d[k - n].g] - 1)
        BY <1>1, <3>1 DEF Lacking
      <3> QED
        BY <1>1, <3>1, <3>2 DEF Promise!Missing
    <2>2. ASSUME NEW g \in G, NEW i \in Promise!Missing(m, g)
          PROVE  \E k \in Promise!Added : schema'[k].g = g /\ schema'[k].i = i
      <3>1. i \in (version[g] + 1)..(Stmts[m][g] - 1) /\ version[g] \in Int /\ Stmts[m][g] \in Nat
        BY <1>1 DEF Promise!Missing
      <3>2. g \in q.wrote
        BY <1>1, <3>1
      <3>3. PICK k \in 1..Len(d) : d[k].g = g /\ d[k].i = i
        BY <1>1, <3>1, <3>2 DEF Lacking
      <3> QED
        BY <3>3, <1>3, <1>7
    <2> QED
      BY <2>1, <2>2 DEF Promise!AllMissing
  <1>11. Promise!InOrder(q.order)
    <2> SUFFICES ASSUME NEW j \in Promise!Added, NEW k \in Promise!Added,
                        NEW a \in DOMAIN q.order, NEW b \in DOMAIN q.order,
                        j < k, schema'[j].g = q.order[a], schema'[k].g = q.order[b]
                 PROVE  a < b \/ (a = b /\ schema'[j].i < schema'[k].i)
      BY DEF Promise!InOrder
    <2>1. /\ j - n \in 1..Len(d) /\ schema'[j] = d[j - n]
          /\ k - n \in 1..Len(d) /\ schema'[k] = d[k - n]
      BY <1>6
    <2>2. j - n < k - n
      BY <1>2, <1>5
    <2>3. \A x, y \in 1..Len(d) :
            x < y /\ d[x].g = q.order[a] /\ d[y].g = q.order[b] =>
              a < b \/ (a = b /\ d[x].i < d[y].i)
      BY <1>2, <1>4 DEF DoneInOrder
    <2> QED
      BY <2>1, <2>2, <2>3
  <1>12. q.order \in Promise!orderMigrationGroups(G)
    <2>1. Promise!orderMigrationGroups(G) = orderMigrationGroups(G)
      <3>1. Promise!Cardinality(G) = Cardinality(G)
        BY DEF Cardinality, Promise!Cardinality, IsFiniteSet, Promise!IsFiniteSet
      <3> QED
        BY <3>1, Zenon DEF orderMigrationGroups, Promise!orderMigrationGroups
    <2> QED
      BY <1>1, <2>1
  <1>13. version' = [g \in Group |-> IF g \in G /\ Stmts[m][g] > version[g] + 1
                                     THEN Stmts[m][g] - 1 ELSE version[g]]
    <2>1. \A g \in Group : g \in q.wrote <=> g \in G /\ Stmts[m][g] > version[g] + 1
      <3> SUFFICES ASSUME NEW g \in Group
                   PROVE  g \in q.wrote <=> g \in G /\ Stmts[m][g] > version[g] + 1
        OBVIOUS
      <3>1. g \in q.wrote => version[g] + 1 < Stmts[m][g]
        BY <1>1 DEF Lacking
      <3>2. g \in G /\ Stmts[m][g] > version[g] + 1 => g \in q.wrote
        BY <1>1
      <3>3. g \in q.wrote => g \in G
        BY <1>1
      <3> QED
        BY <1>1, <3>1, <3>2, <3>3
    <2> QED
      BY <1>1, <2>1
  <1>14. Promise!Upgrade(m, G)
    BY <1>8, <1>9, <1>10, <1>11, <1>12, <1>13 DEF Promise!Upgrade
  <1> QED
    BY <1>14 DEF G

\* Migrate, statement by statement and with its failures and retries, implements
\* the atomic upgrade: no observer of the database sees a part of one, and none
\* does the work of another.
THEOREM MigrateIsAtomic == MSpec => Implements
  <1>1. MInit => Promise!Init
    BY DEF MInit, Init, Promise!Init
  <1>2. ASSUME IInv, [MNext]_vars
        PROVE  [Promise!Next]_<<schema, version>>
    <2>1. CASE UNCHANGED <<schema, version>>
      BY <2>1
    <2>2. CASE \E m \in Migrator : Commit(m) /\ UNCHANGED groups
      <3>1. PICK m \in Migrator : Commit(m)
        BY <2>2
      <3>2. CASE run[m].wrote = {}
        BY <1>2, <3>1, <3>2, CommitOfNothing
      <3>3. CASE run[m].wrote # {}
        <4>1. Promise!Upgrade(m, groups[m])
          BY <1>2, <3>1, <3>3, CommitIsUpgrade
        <4>2. groups[m] \in SUBSET DOMAIN Stmts[m]
          BY <1>2, OfProgram
        <4> QED
          BY <4>1, <4>2 DEF Promise!Next
      <3> QED
        BY <3>2, <3>3
    <2> QED
      BY <1>2, <2>1, <2>2, TablesStep
  <1> QED
    BY <1>1, <1>2, Inductive, PTL DEF MSpec, Implements, Promise!Spec
===============================================================================
