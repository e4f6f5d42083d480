----------------------------- MODULE MigrateSpec ------------------------------
(***************************************************************************)
(* What package migrate promises: a call of Migrator.Migrate brings the    *)
(* database up to date in one atomic step, or leaves it alone.  Several    *)
(* programs may do so, each with the migrations it was built with.         *)
(***************************************************************************)
EXTENDS Integers, Sequences, FiniteSets

CONSTANTS
  Migrator,  \* running programs that call Migrate
  Group,
  Deps,      \* Deps[g]: the groups that g was registered after
  Stmts      \* Stmts[m][g]: how many migrations m has for g, for each group
             \* that m may register

ASSUME MigrateSpecAssumption ==
  /\ IsFiniteSet(Group)
  /\ Deps \in [Group -> SUBSET Group]
  /\ \A m \in Migrator :
       /\ DOMAIN Stmts[m] \subseteq Group
       /\ Stmts[m] \in [DOMAIN Stmts[m] -> Nat]

VARIABLES
  schema,    \* the migrations applied to the database, in order
  version    \* migrate_versions; -1 for a group without a row

\* Migration i of group g, applied by program m.
Migration == [g : Group, i : Nat, by : Migrator]

Init ==
  /\ schema = <<>>
  /\ version = [g \in Group |-> -1]

\* Mutant: edges in the wrong direction.
orderAfterDependents(G) ==
  { o \in [1..Cardinality(G) -> G] :
      /\ \A i, j \in DOMAIN o : i # j => o[i] # o[j]
      /\ \A i, j \in DOMAIN o : o[i] \in Deps[o[j]] => i > j
      /\ \A g \in G : Deps[g] \subseteq G }

\* The orders of the registered groups that the topological sort may return;
\* none if there is a cycle or a dependency is not registered (ErrCycle,
\* ErrMissingGroup).
orderMigrationGroups(G) ==
  { o \in [1..Cardinality(G) -> G] :
      /\ \A i, j \in DOMAIN o : i # j => o[i] # o[j]
      /\ \A i, j \in DOMAIN o : o[i] \in Deps[o[j]] => i < j
      /\ \A g \in G : Deps[g] \subseteq G }

\* The migrations of g that m has and the database has not.
Missing(m, g) == (version[g] + 1)..(Stmts[m][g] - 1)

\* Where a step adds to schema.
Added == (Len(schema) + 1)..Len(schema')

\* The migrations added are the missing ones of the groups G.
AllMissing(m, G) ==
  /\ \A k \in Added : /\ schema'[k].by = m /\ schema'[k].g \in G
                      /\ schema'[k].i \in Missing(m, schema'[k].g)
  /\ \A g \in G : \A i \in Missing(m, g) :
       \E k \in Added : schema'[k].g = g /\ schema'[k].i = i

\* Group by group in the order o, and one after the other, none twice.
InOrder(o) ==
  \A j, k \in Added : \A a, b \in DOMAIN o :
    j < k /\ schema'[j].g = o[a] /\ schema'[k].g = o[b] =>
      a < b \/ (a = b /\ schema'[j].i < schema'[k].i)

\* With the groups G that the program has registered so far.
Upgrade(m, G) ==
  /\ Added # {}
  /\ \A k \in DOMAIN schema : schema'[k] = schema[k]
  /\ AllMissing(m, G)
  /\ \E o \in orderMigrationGroups(G) : InOrder(o)
  /\ version' = [g \in Group |->
                   IF g \in G /\ Stmts[m][g] > version[g] + 1
                   THEN Stmts[m][g] - 1 ELSE version[g]]

Next == \E m \in Migrator : \E G \in SUBSET DOMAIN Stmts[m] : Upgrade(m, G)

Spec == Init /\ [][Next]_<<schema, version>>
===============================================================================
