--------------------------------- MODULE Pool ---------------------------------
(***************************************************************************)
(* A call of pgdb.Tx against a pool of connections that other callers use  *)
(* too, through the adapters pgxadapt and sqladapt: BeginTx takes a        *)
(* connection and waits for one, Commit and Rollback give it back, and a   *)
(* second Rollback is a no-op.  EnsureTx, RequireTx and EnsureQueryer in a *)
(* transaction use the one of the context and take nothing.                *)
(***************************************************************************)
EXTENDS Transactions

CONSTANT Size   \* of the pool

ASSUME PoolAssumption == Size \in Nat \ {0}

VARIABLES
  held,     \* connections of this call
  others,   \* connections of other callers
  nesting   \* fn has called EnsureTx or RequireTx, whose function has not begun

pool == <<held, others, nesting>>
pvars == <<vars, pool>>

free == Size - (held + others)

PInit == Init /\ held = 0 /\ others = 0 /\ nesting = FALSE

-----------------------------------------------------------------------------
\* The steps that need no connection of the pool.
Inside ==
  /\ ~nesting
  /\ RequireNoTx \/ Enter \/ Statement \/ Raise \/ Ignore \/ Retry \/ Return
  /\ UNCHANGED pool

\* BeginTx of the pool gets a connection.
BeginTx ==
  /\ Begin /\ tx' = "open"
  /\ free > 0 /\ held' = held + 1
  /\ UNCHANGED <<others, nesting>>

\* It fails, also while it waits, and leaves no connection behind.
BeginFails ==
  /\ Begin /\ tx' # "open"
  /\ UNCHANGED pool

\* Mutant: EnsureTx calls Tx whatever is in the context.
NestedConnsOwn == 1

\* What EnsureTx and RequireTx take in a transaction.
NestedConns == 0

CallNested ==
  /\ ~nesting /\ Working /\ Len(frames) < MaxDepth
  /\ nesting' = TRUE
  /\ UNCHANGED <<vars, held, others>>

NestedBegins ==
  /\ nesting /\ free >= NestedConns
  /\ Nest
  /\ nesting' = FALSE /\ held' = held + NestedConns
  /\ UNCHANGED others

\* The connection of a transaction that is over goes back.
GiveBack == held' = IF tx' = "ended" THEN 0 ELSE held

NestedReturns ==
  /\ ~nesting /\ Unnest
  /\ GiveBack
  /\ UNCHANGED <<others, nesting>>

EndTx ==
  /\ ~nesting /\ (Rollback \/ CommitClosed \/ Commit)
  /\ GiveBack
  /\ UNCHANGED <<others, nesting>>

\* Mutant: Rollback is only called when fn returns.
DeferredRollbackNone(h) == h

DeferredRollback(h) == 0

PanicEnds ==
  /\ ~nesting /\ Panic
  /\ held' = DeferredRollback(held)
  /\ UNCHANGED <<others, nesting>>

-----------------------------------------------------------------------------
(* Other callers: each holds one connection at a time, and gives it back. *)

OtherTakes ==
  /\ free > 0 /\ others' = others + 1
  /\ UNCHANGED <<vars, held, nesting>>

OtherGivesBack ==
  /\ others > 0 /\ others' = others - 1
  /\ UNCHANGED <<vars, held, nesting>>

Caller ==
  \/ Inside \/ BeginTx \/ CallNested \/ NestedBegins \/ NestedReturns \/ EndTx \/ PanicEnds

PNext == Caller \/ BeginFails \/ OtherTakes \/ OtherGivesBack

(***************************************************************************)
(* The goroutine runs, other callers give back what they hold, and both    *)
(* drivers serve those who wait for a connection in the order of their     *)
(* requests, so that a caller is not passed over for ever (SF).  Nothing   *)
(* has to fail, and a context may never be done.                           *)
(***************************************************************************)
PoolSpec ==
  /\ PInit /\ [][PNext]_pvars
  /\ SF_pvars(Caller) /\ WF_pvars(OtherGivesBack)

-----------------------------------------------------------------------------
\* The call holds a connection exactly while its transaction can be used: after
\* a nested call rolled it back, at a retry, after a panic and in the end it
\* holds none, and fn, which may go on, uses none that somebody else has.
ConnectionHeld ==
  /\ held \in 0..1
  /\ held = 1 <=> pc = "fn" /\ tx \in {"open", "aborted"}
===============================================================================
