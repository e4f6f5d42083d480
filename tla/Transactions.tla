----------------------------- MODULE Transactions -----------------------------
(***************************************************************************)
(* Package pgdb: one call of Tx, or of EnsureTx or RequireTx outside of a  *)
(* transaction, and all that its function fn may do: run statements        *)
(* through EnsureQueryer, call EnsureTx and RequireTx again from inside,   *)
(* and pass on, or ignore, the errors that it gets.                        *)
(*                                                                         *)
(* Postgres and its drivers are external: an error of a statement leaves   *)
(* the transaction aborted, its COMMIT is then a rollback and an error, a  *)
(* transaction that was ended refuses everything, and the answer to a      *)
(* COMMIT may be lost whether or not it took effect.                       *)
(***************************************************************************)
EXTENDS Naturals, Sequences

CONSTANTS
  maxAttempts,   \* of Tx
  MaxDepth,      \* bound on the nested calls
  MaxSteps       \* bound on the steps of fn in an attempt

ASSUME TransactionsAssumption ==
  /\ maxAttempts \in Nat \ {0}
  /\ MaxDepth \in Nat
  /\ MaxSteps \in Nat

VARIABLES
  retryDeadlock,  \* TxOptions.RetryDeadlock, given or from the context
  pc,             \* where the outermost call is
  attempts,       \* local attempts of Tx
  tx,             \* the transaction in the context
  frames,         \* the nested calls of EnsureTx and RequireTx
  err,            \* the error that fn, or Tx, has in hand
  steps,          \* what fn has done in this attempt
  result,         \* what the call returned
  commits,        \* history: how often a COMMIT took effect
  failed          \* history: something that fn did in this attempt failed

vars == <<retryDeadlock, pc, attempts, tx, frames, err, steps, result, commits,
          failed>>

\* nil, 40001 or 40P01, another error of the database or of fn itself, an
\* answer that was lost, and a transaction that is over.
Error == {"nil", "deadlock", "other", "lost", "closed"}

TxState == {"none", "open", "aborted", "ended"}

Init ==
  /\ retryDeadlock \in BOOLEAN
  /\ pc = "called"
  /\ attempts = 0
  /\ tx = "none"
  /\ frames = <<>>
  /\ err = "nil"
  /\ steps = 0
  /\ result = "none"
  /\ commits = 0
  /\ failed = FALSE

-----------------------------------------------------------------------------
\* RequireTx outside of a transaction: fn is not called.
RequireNoTx ==
  /\ pc = "called"
  /\ result' = "ErrNoTx" /\ pc' = "returned"
  /\ UNCHANGED <<retryDeadlock, attempts, tx, frames, err, steps, commits, failed>>

\* Tx, and EnsureTx that calls it, enter their loop.
Enter ==
  /\ pc = "called"
  /\ pc' = "begin"
  /\ UNCHANGED <<retryDeadlock, attempts, tx, frames, err, steps, result,
                 commits, failed>>

NextAttempt == attempts + 1

\* doTx: BeginTx, then fn starts.
Begin ==
  /\ pc = "begin"
  /\ attempts' = NextAttempt
  /\ \/ pc' = "fn" /\ tx' = "open" /\ err' = "nil"
     \/ pc' = "end" /\ tx' = "ended" /\ err' = "other"
  /\ frames' = <<>> /\ steps' = 0 /\ failed' = FALSE
  /\ UNCHANGED <<retryDeadlock, result, commits>>

-----------------------------------------------------------------------------
(* fn, or the function of a nested call. *)

Working == pc = "fn" /\ err = "nil" /\ steps < MaxSteps

\* EnsureQueryer: the statement runs in the transaction of the context.
Statement ==
  /\ Working
  /\ steps' = steps + 1
  /\ \/ tx = "open" /\ UNCHANGED <<tx, err, failed>>
     \/ /\ tx = "open"
        /\ tx' = "aborted" /\ err' \in {"deadlock", "other"} /\ failed' = TRUE
     \/ /\ tx # "open"
        /\ err' = "closed" /\ failed' = TRUE /\ UNCHANGED tx
  /\ UNCHANGED <<retryDeadlock, pc, attempts, frames, result, commits>>

\* fn finds an error of its own.
Raise ==
  /\ Working
  /\ steps' = steps + 1
  /\ err' = "other"
  /\ UNCHANGED <<retryDeadlock, pc, attempts, tx, frames, result, commits, failed>>

\* EnsureTx or RequireTx with a transaction in the context calls its function.
Nest ==
  /\ Working /\ Len(frames) < MaxDepth
  /\ steps' = steps + 1
  /\ \E f \in {"EnsureTx", "RequireTx"} : frames' = Append(frames, f)
  /\ UNCHANGED <<retryDeadlock, pc, attempts, tx, err, result, commits, failed>>

\* fn ignores the error and goes on.
Ignore ==
  /\ pc = "fn" /\ err # "nil"
  /\ err' = "nil"
  /\ UNCHANGED <<retryDeadlock, pc, attempts, tx, frames, steps, result, commits,
                 failed>>

\* Mutant: the transaction is left to the caller.
RollbackNestedNever(t) == t

\* tx.Rollback of a nested call that failed.
RollbackNested(t) == "ended"

\* A nested call returns.
Unnest ==
  /\ pc = "fn" /\ frames # <<>>
  /\ frames' = SubSeq(frames, 1, Len(frames) - 1)
  /\ \/ err = "nil" /\ UNCHANGED <<tx, failed>>
     \/ err # "nil" /\ tx' = RollbackNested(tx) /\ failed' = TRUE
  /\ UNCHANGED <<retryDeadlock, pc, attempts, err, steps, result, commits>>

-----------------------------------------------------------------------------
(* doTx after fn returned, and the loop of Tx. *)

\* fn returned an error: tx.Rollback.
Rollback ==
  /\ pc = "fn" /\ frames = <<>> /\ err # "nil"
  /\ tx' = "ended" /\ pc' = "end"
  /\ UNCHANGED <<retryDeadlock, attempts, frames, err, steps, result, commits,
                 failed>>

\* fn returned nil, and the transaction was aborted or rolled back meanwhile.
CommitClosed ==
  /\ pc = "fn" /\ frames = <<>> /\ err = "nil" /\ tx # "open"
  /\ tx' = "ended" /\ pc' = "end" /\ err' = "closed"
  /\ UNCHANGED <<retryDeadlock, attempts, frames, steps, result, commits, failed>>

\* fn returned nil: COMMIT takes effect, is refused, or its answer is lost.
Commit ==
  /\ pc = "fn" /\ frames = <<>> /\ err = "nil" /\ tx = "open"
  /\ tx' = "ended" /\ pc' = "end"
  /\ \/ commits' = commits + 1 /\ err' = "nil"
     \/ commits' = commits + 1 /\ err' = "lost"
     \/ UNCHANGED commits /\ err' \in {"lost", "deadlock", "other"}
  /\ UNCHANGED <<retryDeadlock, attempts, frames, steps, result, failed>>

\* A panic of fn, at any depth: the deferred Rollback.
Panic ==
  /\ pc = "fn"
  /\ tx' = "ended" /\ pc' = "returned" /\ result' = "panic" /\ frames' = <<>>
  /\ err' = "nil"
  /\ UNCHANGED <<retryDeadlock, attempts, steps, commits, failed>>

\* Mutant: every error is worth another attempt.
isDeadlockAny(e) == e # "nil"

isDeadlock(e) == e = "deadlock"

\* Mutant: the bound is off by one.
CanRetryOnceMore == retryDeadlock /\ isDeadlock(err) /\ attempts <= maxAttempts

CanRetry == retryDeadlock /\ isDeadlock(err) /\ attempts < maxAttempts

\* Another attempt after the backoff, unless the context is done meanwhile.
Retry ==
  /\ pc = "end" /\ CanRetry
  /\ \/ pc' = "begin" /\ UNCHANGED result
     \/ pc' = "returned" /\ result' = "ctxErr"
  /\ UNCHANGED <<retryDeadlock, attempts, tx, frames, err, steps, commits, failed>>

Return ==
  /\ pc = "end" /\ ~CanRetry
  /\ result' = err /\ pc' = "returned"
  /\ UNCHANGED <<retryDeadlock, attempts, tx, frames, err, steps, commits, failed>>

-----------------------------------------------------------------------------
\* fn and the nested calls.
Fn == Statement \/ Raise \/ Nest \/ Ignore \/ Unnest \/ Panic

Next ==
  \/ RequireNoTx \/ Enter \/ Begin \/ Fn
  \/ Rollback \/ CommitClosed \/ Commit \/ Retry \/ Return

Spec == Init /\ [][Next]_vars

-----------------------------------------------------------------------------
\* Types, and the loop of Tx makes at most maxAttempts attempts.
TypeOK ==
  /\ retryDeadlock \in BOOLEAN
  /\ pc \in {"called", "begin", "fn", "end", "returned"}
  /\ attempts \in 0..maxAttempts
  /\ tx \in TxState
  /\ frames \in Seq({"EnsureTx", "RequireTx"}) /\ Len(frames) <= MaxDepth
  /\ err \in Error
  /\ steps \in 0..MaxSteps
  /\ result \in Error \cup {"none", "ErrNoTx", "ctxErr", "panic"}
  /\ commits \in Nat
  /\ failed \in BOOLEAN

\* The work of fn takes effect at most once, although Tx runs it again after a
\* deadlock and although the answer to a COMMIT may be lost: only an error that
\* proves the rollback is retried.
AtMostOnce == commits <= 1

\* What the call returns is what happened. nil: it was committed, and nothing
\* that fn did failed, even if fn ignored the error of a statement or of a
\* nested EnsureTx or RequireTx. Any error but a lost answer: nothing is stored.
AllOrNothing ==
  /\ result = "nil" => commits = 1 /\ ~failed
  /\ result \notin {"none", "nil", "lost"} => commits = 0

\* The call returns: deadlocks do not keep Tx in its loop, and neither it nor a
\* nested call waits for ever for a connection of the pool.
TxReturns == <>(pc = "returned")
===============================================================================
