------------------------------- MODULE MCMigrate ------------------------------
(***************************************************************************)
(* Migrate on a small instance: an old and a new build of a program whose  *)
(* group app was registered after the group lib; new2 is another instance  *)
(* of the new build.                                                       *)
(***************************************************************************)
EXTENDS Migrate, TLC

CONSTANTS old, new, new2, lib, app, ext

MCDeps == [g \in Group |-> IF g = app THEN {lib} ELSE {}]

\* The new build has one more migration in each group, and one more group.
MCStmts ==
  [m \in Migrator |->
     CASE m = old -> [g \in {lib, app} |-> 1]
       [] m \in {new, new2} -> [g \in Group |-> IF g = ext THEN 1 ELSE 2]]

\* new2 registers the groups that app comes after, and ext, when it is running.
MCRegistered ==
  [m \in Migrator |-> IF m = new2 THEN {app} ELSE DOMAIN MCStmts[m]]
===============================================================================
