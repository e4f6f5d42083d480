CONSTANTS
  old = old  new = new  new2 = new2
  lib = lib  app = app  ext = ext
  Migrator = {old, new, new2}
  Group = {lib, app, ext}
  Deps <- MCDeps
  Stmts <- MCStmts
  RepeatableRead = {old, new}
  RetryDeadlock = {new}
  maxAttempts = 2
  Registered <- MCRegistered
  NoOne = NoOne
SPECIFICATION FairSpec
INVARIANTS
  MTypeOK
  ExactlyOnce
  AfterDependencies
PROPERTIES
  ForwardOnly
  Implements
  MigrateReturns
