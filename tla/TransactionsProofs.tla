-------------------------- MODULE TransactionsProofs ---------------------------
(***************************************************************************)
(* For every bound of the attempts and of what fn does: Tx makes at most   *)
(* maxAttempts attempts, what it does takes effect at most once, and what  *)
(* it returns is what happened.  For a pool of any size: the pool changes  *)
(* nothing of this, and no connection is kept or used after the            *)
(* transaction it was taken for.                                           *)
(***************************************************************************)
EXTENDS Pool, SequenceTheorems, TLAPS

\* An attempt is only begun while there is one left.
AttemptLeft == pc \in {"called", "begin"} => attempts < maxAttempts

\* Nothing is stored, and nothing returned, before a COMMIT or a return.
NothingYet ==
  /\ pc # "returned" => result = "none"
  /\ pc \in {"called", "begin", "fn"} => commits = 0

\* A transaction that can still be committed is one in which nothing failed.
OpenIsClean == pc = "fn" /\ tx = "open" => ~failed

\* After doTx: nil means a commit without failure, and a commit can only be
\* behind nil and a lost answer.
AttemptEnded ==
  pc = "end" =>
    /\ err = "nil" => commits = 1 /\ ~failed
    /\ err # "nil" => commits = 0 \/ err = "lost"

IInv ==
  /\ TypeOK
  /\ AttemptLeft
  /\ NothingYet
  /\ OpenIsClean
  /\ AttemptEnded
  /\ AtMostOnce
  /\ AllOrNothing

\* The call starts in the invariant.
LEMMA InitIInv == Init => IInv
  <1> SUFFICES ASSUME Init PROVE IInv
    OBVIOUS
  <1>1. <<>> \in Seq({"EnsureTx", "RequireTx"}) /\ Len(<<>>) = 0
    OBVIOUS
  <1>2. retryDeadlock \in BOOLEAN /\ failed \in BOOLEAN
    BY Zenon DEF Init
  <1>3. frames \in Seq({"EnsureTx", "RequireTx"}) /\ Len(frames) <= MaxDepth
    BY <1>1, TransactionsAssumption DEF Init
  <1>4. TypeOK
    BY <1>2, <1>3, TransactionsAssumption DEF Init, TypeOK, Error, TxState
  <1> QED
    BY <1>4, TransactionsAssumption
    DEF Init, IInv, AttemptLeft, NothingYet, OpenIsClean, AttemptEnded, AtMostOnce,
        AllOrNothing

\* A sequence without its last element.
LEMMA ButLast ==
  ASSUME NEW S, NEW s \in Seq(S), s # <<>>
  PROVE  /\ SubSeq(s, 1, Len(s) - 1) \in Seq(S)
         /\ Len(SubSeq(s, 1, Len(s) - 1)) = Len(s) - 1
  <1>1. Len(s) \in Nat /\ Len(s) # 0
    BY EmptySeq
  <1>2. PICK n \in Nat : Len(s) = n + 1
    BY <1>1
  <1>3. SubSeq(s, 1, n) \in Seq(S)
    BY <1>2, SMT
  <1>4. Len(SubSeq(s, 1, n)) = n
    BY <1>2, SMT
  <1>5. Len(s) - 1 = n
    BY <1>2
  <1> QED
    BY <1>3, <1>4, <1>5, Zenon

\* The nested calls stay a sequence of calls, not deeper than MaxDepth.
LEMMA FramesTyped ==
  ASSUME TypeOK, Next
  PROVE  /\ frames' \in Seq({"EnsureTx", "RequireTx"})
         /\ Len(frames') <= MaxDepth
  <1> DEFINE S == {"EnsureTx", "RequireTx"}
  <1>0. frames \in Seq(S) /\ Len(frames) <= MaxDepth /\ Len(frames) \in Nat
    BY DEF TypeOK
  <1>1. CASE frames' = frames
    BY <1>0, <1>1
  <1>2. CASE frames' = <<>>
    BY <1>2, TransactionsAssumption
  <1>3. CASE Nest
    <2>1. PICK f \in S : frames' = Append(frames, f)
      BY <1>3 DEF Nest
    <2>2. Len(frames) < MaxDepth
      BY <1>3 DEF Nest
    <2> QED
      BY <1>0, <2>1, <2>2, TransactionsAssumption
  <1>4. CASE Unnest
    <2>1. frames' = SubSeq(frames, 1, Len(frames) - 1) /\ frames # <<>>
      BY <1>4 DEF Unnest
    <2>2. /\ SubSeq(frames, 1, Len(frames) - 1) \in Seq(S)
          /\ Len(SubSeq(frames, 1, Len(frames) - 1)) = Len(frames) - 1
      BY <1>0, <2>1, ButLast, Zenon
    <2> QED
      BY <1>0, <2>1, <2>2, TransactionsAssumption
  <1> QED
    BY <1>1, <1>2, <1>3, <1>4
    DEF Next, RequireNoTx, Enter, Begin, Fn, Statement, Raise, Nest, Ignore, Unnest,
        Panic, Rollback, CommitClosed, Commit, Retry, Return

\* The flags stay Boolean.
LEMMA FlagsTyped ==
  ASSUME TypeOK, Next
  PROVE  retryDeadlock' \in BOOLEAN /\ failed' \in BOOLEAN
  <1>1. retryDeadlock' = retryDeadlock
    BY DEF Next, RequireNoTx, Enter, Begin, Fn, Statement, Raise, Nest, Ignore,
           Unnest, Panic, Rollback, CommitClosed, Commit, Retry, Return
  <1>2. failed' = failed \/ failed' = TRUE \/ failed' = FALSE
    BY Zenon
    DEF Next, RequireNoTx, Enter, Begin, Fn, Statement, Raise, Nest, Ignore, Unnest,
        Panic, Rollback, CommitClosed, Commit, Retry, Return
  <1>3. retryDeadlock \in BOOLEAN /\ failed \in BOOLEAN
    BY DEF TypeOK
  <1> QED
    BY <1>1, <1>2, <1>3, Zenon

\* Every step of the call, of fn and of the nested calls keeps it.
LEMMA NextIInv == IInv /\ [Next]_vars => IInv'
  <1> SUFFICES ASSUME IInv, [Next]_vars PROVE IInv'
    OBVIOUS
  <1> USE TransactionsAssumption
  <1> USE DEF IInv, AttemptLeft, NothingYet, OpenIsClean, AttemptEnded, AtMostOnce,
              AllOrNothing
  <1>1. CASE UNCHANGED vars
    BY <1>1 DEF vars, TypeOK
  <1>2. CASE Next
    <2>1. /\ frames' \in Seq({"EnsureTx", "RequireTx"})
          /\ Len(frames') <= MaxDepth
          /\ retryDeadlock' \in BOOLEAN /\ failed' \in BOOLEAN
      BY <1>2, FramesTyped, FlagsTyped
    <2> USE <2>1 DEF TypeOK, Error, TxState
    <2>2. CASE RequireNoTx
      BY <2>2 DEF RequireNoTx
    <2>3. CASE Enter
      BY <2>3 DEF Enter
    <2>4. CASE Begin
      BY <2>4 DEF Begin, NextAttempt
    <2>5. CASE Statement
      BY <2>5 DEF Statement, Working
    <2>6. CASE Raise
      BY <2>6 DEF Raise, Working
    <2>7. CASE Nest
      BY <2>7 DEF Nest, Working
    <2>8. CASE Ignore
      BY <2>8 DEF Ignore
    <2>9. CASE Unnest
      BY <2>9 DEF Unnest, RollbackNested
    <2>10. CASE Panic
      BY <2>10 DEF Panic
    <2>11. CASE Rollback
      BY <2>11 DEF Rollback
    <2>12. CASE CommitClosed
      BY <2>12 DEF CommitClosed
    <2>13. CASE Commit
      BY <2>13 DEF Commit
    <2>14. CASE Retry
      BY <2>14 DEF Retry, CanRetry, isDeadlock
    <2>15. CASE Return
      BY <2>15 DEF Return
    <2> QED
      BY <1>2, <2>2, <2>3, <2>4, <2>5, <2>6, <2>7, <2>8, <2>9, <2>10, <2>11, <2>12,
         <2>13, <2>14, <2>15
      DEF Next, Fn
  <1> QED
    BY <1>1, <1>2

\* The inductive invariant holds of every behaviour of Tx and its nested calls.
THEOREM Inductive == Spec => []IInv
  BY InitIInv, NextIInv, PTL DEF Spec

\* Types, and at most maxAttempts attempts of Tx.
THEOREM AttemptsBounded == Spec => []TypeOK
  <1>1. IInv => TypeOK
    BY DEF IInv
  <1> QED
    BY <1>1, Inductive, PTL

\* Tx and EnsureTx never make the work of fn take effect twice.
THEOREM CommitsOnce == Spec => []AtMostOnce
  <1>1. IInv => AtMostOnce
    BY DEF IInv
  <1> QED
    BY <1>1, Inductive, PTL

\* What Tx, EnsureTx and RequireTx return is what happened to the transaction.
THEOREM ResultIsTrue == Spec => []AllOrNothing
  <1>1. IInv => AllOrNothing
    BY DEF IInv
  <1> QED
    BY <1>1, Inductive, PTL

-----------------------------------------------------------------------------
(* On a pool. *)

\* Every step on the pool is one of Tx, or does not show.
LEMMA StepIsTx == [PNext]_pvars => [Next]_vars
  <1>1. Inside \/ BeginTx \/ BeginFails => Next
    BY DEF Inside, BeginTx, BeginFails, Next, Fn
  <1>2. NestedBegins \/ NestedReturns \/ PanicEnds => Next
    BY DEF NestedBegins, NestedReturns, PanicEnds, Next, Fn
  <1>3. EndTx => Next
    BY DEF EndTx, Next
  <1>4. CallNested \/ OtherTakes \/ OtherGivesBack => UNCHANGED vars
    BY DEF CallNested, OtherTakes, OtherGivesBack
  <1>5. UNCHANGED pvars => UNCHANGED vars
    BY DEF pvars
  <1> QED
    BY <1>1, <1>2, <1>3, <1>4, <1>5, Zenon DEF PNext, Caller

\* A call on a pool is a call of Tx: waiting for a connection, and the other
\* callers, add no behaviour.
THEOREM PoolImplementsTx == PoolSpec => Spec
  <1>1. PInit => Init
    BY DEF PInit
  <1> QED
    BY <1>1, StepIsTx, PTL DEF PoolSpec, Spec

\* On a pool, too, the work of fn takes effect at most once and the result of
\* Tx tells what happened.
THEOREM PoolKeepsResults == PoolSpec => [](TypeOK /\ AtMostOnce /\ AllOrNothing)
  BY PoolImplementsTx, AttemptsBounded, CommitsOnce, ResultIsTrue, PTL

\* Every step of the call and of others keeps what is known of the connection.
LEMMA HeldStep == TypeOK /\ ConnectionHeld /\ [PNext]_pvars => ConnectionHeld'
  <1> SUFFICES ASSUME TypeOK, ConnectionHeld, [PNext]_pvars PROVE ConnectionHeld'
    OBVIOUS
  <1> USE DEF ConnectionHeld
  <1>1. CASE UNCHANGED pvars
    BY <1>1 DEF pvars, vars, pool
  <1>2. CASE Inside
    <2>1. held' = held
      BY <1>2 DEF Inside, pool
    <2>2. CASE RequireNoTx \/ Enter \/ Retry \/ Return
      BY <2>1, <2>2 DEF RequireNoTx, Enter, Retry, Return
    <2>3. CASE Statement
      BY <2>1, <2>3 DEF Statement, Working
    <2>4. CASE Raise \/ Ignore
      BY <2>1, <2>4 DEF Raise, Ignore
    <2> QED
      BY <1>2, <2>2, <2>3, <2>4 DEF Inside
  <1>3. CASE BeginTx
    BY <1>3 DEF BeginTx, Begin
  <1>4. CASE BeginFails
    BY <1>4 DEF BeginFails, Begin, pool
  <1>5. CASE CallNested \/ OtherTakes \/ OtherGivesBack
    BY <1>5 DEF CallNested, OtherTakes, OtherGivesBack, vars
  <1>6. CASE NestedBegins
    BY <1>6 DEF NestedBegins, NestedConns, Nest
  <1>7. CASE NestedReturns
    BY <1>7 DEF NestedReturns, Unnest, RollbackNested, GiveBack
  <1>8. CASE EndTx
    BY <1>8 DEF EndTx, Rollback, CommitClosed, Commit, GiveBack
  <1>9. CASE PanicEnds
    BY <1>9 DEF PanicEnds, Panic, DeferredRollback
  <1> QED
    BY <1>1, <1>2, <1>3, <1>4, <1>5, <1>6, <1>7, <1>8, <1>9 DEF PNext, Caller

\* A call holds a connection exactly while its transaction can be used, also
\* across retries, nested rollbacks and panics.
THEOREM HoldsWhileUsable == PoolSpec => []ConnectionHeld
  <1>1. PInit => ConnectionHeld
    BY DEF PInit, Init, ConnectionHeld
  <1>2. PoolSpec => []TypeOK
    BY PoolImplementsTx, AttemptsBounded, PTL
  <1> QED
    BY <1>1, <1>2, HeldStep, PTL DEF PoolSpec
===============================================================================
