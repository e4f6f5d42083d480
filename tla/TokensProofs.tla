----------------------------- MODULE TokensProofs -----------------------------
(***************************************************************************)
(* Proofs about Tokens for any number of callers, tokens and references,   *)
(* any arguments and an unbounded run of the clock.                        *)
(***************************************************************************)
EXTENDS Tokens, TokenTableProofs

-----------------------------------------------------------------------------
(* The inductive invariant. *)

\* A call holds the arguments its operation needs, and an instant not later
\* than the clock.
CallShape ==
  \A c \in Caller :
    /\ call[c].start <= clock
    /\ call[c].op \in {"new", "rotate"} =>
         call[c].fresh \in Token /\ call[c].args \in TokenArgs
    /\ call[c].op \in {"rotate", "verify", "reset"} => call[c].token \in Token
    /\ call[c].op \notin {"new", "rotate"} => call[c].fresh = Null

\* A token that a call has generated and not stored is no one else's.
FreshIsFresh ==
  /\ \A c \in Caller : call[c].fresh # Null =>
       call[c].fresh \in generated /\ root[call[c].fresh] = Null
  /\ \A c, d \in Caller :
       call[c].fresh # Null /\ call[c].fresh = call[d].fresh => c = d

\* The history variable root records every token that was in the table, and
\* only those; a row's first token is one of them.
RootRecords ==
  /\ \A r \in tokens_tokens : root[r.token] # Null
  /\ \A t \in Token : root[t] # Null => t \in generated /\ root[root[t]] # Null

\* What Verify loaded, and what it consumed, was in the table.
LoadedRecorded ==
  /\ \A c \in Caller : call[c].op = "verify" /\ call[c].row # Null =>
       call[c].row \in Row /\ root[call[c].row.token] # Null
  /\ \A t \in spent : root[t] # Null

IInv ==
  /\ TypeOK
  /\ CallShape
  /\ FreshIsFresh
  /\ RootRecords
  /\ LoadedRecorded
  /\ LineageUnique
  /\ OneSingleUsePerRef
  /\ SpentIsGone

\* The initial state satisfies the invariant.
LEMMA InitIInv == Init => IInv
BY TableAssumption
DEF Init, IInv, TypeOK, CallShape, FreshIsFresh, RootRecords, LoadedRecorded,
    LineageUnique, OneSingleUsePerRef, SpentIsGone, Call, NoCall, Op, Nullable

\* The table stays a set of rows, and the other variables have their types.
LEMMA TypeStep == IInv /\ [Next]_vars => TypeOK'
<1> SUFFICES ASSUME IInv, [Next]_vars PROVE TypeOK'
  OBVIOUS
<1> USE DEF IInv
<1>0. ASSUME NEW c \in Caller, Return(c) PROVE call' \in [Caller -> Call]
  BY <1>0 DEF TypeOK, Return, Call, NoCall, Op, Nullable
<1>1. ASSUME NEW c \in Caller, NEW op \in Op, NEW tok \in Nullable(Token),
             NEW f \in Nullable(Token), NEW args \in Nullable(TokenArgs),
             Begin(c, op, tok, f, args)
      PROVE  TypeOK'
  BY <1>1 DEF TypeOK, Begin, Call, Nullable, history
<1>2. ASSUME NEW c \in Caller, BeginNew(c) PROVE TypeOK'
  BY <1>1, <1>2, TokensAssumption
  DEF BeginNew, generateNewToken, Op, Nullable
<1>3. ASSUME NEW c \in Caller, ExecNew(c) PROVE TypeOK'
  <2>1. /\ tokens_tokens \in SUBSET Row /\ call[c].fresh \in Token
        /\ call[c].args \in TokenArgs /\ call[c].start \in Nat
    BY <1>3 DEF ExecNew, TypeOK, CallShape, Call
  <2>2. tokens_tokens' \in SUBSET Row
    BY <1>3, <2>1, StatementType DEF ExecNew
  <2> QED BY <1>0, <1>3, <2>1, <2>2 DEF ExecNew, TypeOK, Nullable
<1>4. ASSUME NEW c \in Caller, BeginRotate(c) PROVE TypeOK'
  BY <1>1, <1>4, TokensAssumption
  DEF BeginRotate, generateNewToken, Op, Nullable, TypeOK
<1>5. ASSUME NEW c \in Caller, ExecRotate(c) PROVE TypeOK'
  <2>1. /\ tokens_tokens \in SUBSET Row /\ call[c].fresh \in Token
        /\ call[c].token \in Token /\ call[c].args \in TokenArgs
        /\ call[c].start \in Nat
    BY <1>5 DEF ExecRotate, TypeOK, CallShape, Call
  <2>2. tokens_tokens' \in SUBSET Row
    BY <1>5, <2>1, StatementType DEF ExecRotate
  <2> QED BY <1>0, <1>5, <2>1, <2>2 DEF ExecRotate, TypeOK
<1>6. ASSUME NEW c \in Caller,
             BeginVerify(c) \/ BeginResetIdle(c) \/ BeginCleanup(c)
      PROVE  TypeOK'
  BY <1>1, <1>6 DEF BeginVerify, BeginResetIdle, BeginCleanup, Op, Nullable, TypeOK
<1>7. ASSUME NEW c \in Caller, VerifyLoad(c) PROVE TypeOK'
  BY <1>0, <1>7 DEF VerifyLoad, SelectToken, TypeOK, Call, Nullable, history
<1>8. ASSUME NEW c \in Caller, VerifyApply(c) PROVE TypeOK'
  <2> DEFINE r == call[c].row
  <2>1. /\ tokens_tokens \in SUBSET Row /\ r.token \in Token
        /\ call[c].start \in Nat
    BY <1>8 DEF VerifyApply, LoadedRecorded, TypeOK, Call, Row
  <2>2. tokens_tokens' \in SUBSET Row
    BY <1>8, <2>1, StatementType DEF VerifyApply, VerifyWrite, DeleteToken
  <2>3. spent' \subseteq Token /\ accepted' \in [Token -> Nat]
    BY <1>8, <2>1 DEF VerifyApply, TypeOK
  <2> QED BY <1>0, <1>8, <2>2, <2>3 DEF VerifyApply, TypeOK
<1>9. ASSUME NEW c \in Caller, ExecResetIdle(c) \/ ExecCleanup(c) \/ Fail(c)
      PROVE  TypeOK'
  BY <1>0, <1>9, StatementType
  DEF ExecResetIdle, ExecCleanup, CleanupTokens, Fail, TypeOK, CallShape, Call, history
<1>10. ASSUME UpdateData \/ Delete \/ DeleteByTypeRef \/ Tick PROVE TypeOK'
  <2>1. CASE UpdateData
    <3>1. PICK t \in generated, d \in Data :
            tokens_tokens' = SetData(tokens_tokens, t, d)
      BY <2>1 DEF UpdateData
    <3>2. tokens_tokens' \in SUBSET Row
      BY <3>1, StatementType, 0 \in Nat DEF TypeOK
    <3> QED BY <2>1, <3>2 DEF UpdateData, TypeOK, history
  <2>2. CASE Delete \/ DeleteByTypeRef
    <3>1. tokens_tokens' \subseteq tokens_tokens
      BY <2>2 DEF Delete, DeleteToken, DeleteByTypeRef, DeleteTypeRef
    <3> QED BY <2>2, <3>1 DEF Delete, DeleteByTypeRef, TypeOK, history
  <2>3. CASE Tick
    BY <2>3 DEF Tick, TypeOK, history
  <2> QED BY <1>10, <2>1, <2>2, <2>3
<1>11. CASE UNCHANGED vars
  BY <1>11 DEF vars, TypeOK
<1> QED BY <1>2, <1>3, <1>4, <1>5, <1>6, <1>7, <1>8, <1>9, <1>10, <1>11
        DEF Next, CallerStep

\* A call begins: nothing is stored yet.
LEMMA BeginStep ==
  ASSUME IInv, TypeOK', NEW c \in Caller, NEW op \in Op \ {"idle"},
         NEW tok \in Nullable(Token), NEW f \in Nullable(Token \ generated),
         NEW args \in Nullable(TokenArgs),
         op \in {"new", "rotate"} => f # Null /\ args \in TokenArgs,
         op \in {"rotate", "verify", "reset"} => tok \in Token,
         op \notin {"new", "rotate"} => f = Null,
         Begin(c, op, tok, f, args)
  PROVE  IInv'
<1> USE DEF IInv
<1>1. CallShape'
  BY DEF CallShape, Begin, TypeOK, Call, Nullable
<1>2. FreshIsFresh'
  BY DEF FreshIsFresh, RootRecords, Begin, TypeOK, Call, Nullable, history
<1>3. RootRecords' /\ LineageUnique' /\ OneSingleUsePerRef' /\ SpentIsGone'
  BY DEF RootRecords, LineageUnique, OneSingleUsePerRef, SpentIsGone, Begin, history
<1>4. LoadedRecorded'
  BY DEF LoadedRecorded, Begin, TypeOK, history
<1> QED BY <1>1, <1>2, <1>3, <1>4

\* A step that only removes rows, and at most ends a call, keeps the invariant.
LEMMA ShrinkStep ==
  ASSUME IInv, TypeOK', tokens_tokens' \subseteq tokens_tokens,
         UNCHANGED call \/ \E c \in Caller : Return(c),
         clock' >= clock, UNCHANGED <<generated, spent, root>>
  PROVE  IInv'
<1> USE DEF IInv
<1>1. CallShape'
  BY DEF CallShape, Return, NoCall, TypeOK, Call
<1>2. FreshIsFresh'
  BY DEF FreshIsFresh, Return, NoCall, TypeOK
<1>3. RootRecords' /\ LineageUnique' /\ OneSingleUsePerRef' /\ SpentIsGone'
  BY DEF RootRecords, LineageUnique, OneSingleUsePerRef, SpentIsGone
<1>4. LoadedRecorded'
  BY DEF LoadedRecorded, Return, NoCall, TypeOK
<1> QED BY <1>1, <1>2, <1>3, <1>4

\* Resetting the idle instant, or the data, of the row of a token leaves the
\* tokens of the table as they are.
LEMMA SameTokens ==
  ASSUME IInv, UNCHANGED <<spent, root, generated>>,
         \/ \E tok, now : tokens_tokens' = ResetIdleToken(tokens_tokens, tok, now)
         \/ \E tok, d : tokens_tokens' = SetData(tokens_tokens, tok, d)
  PROVE  RootRecords' /\ LineageUnique' /\ OneSingleUsePerRef' /\ SpentIsGone'
<1> USE DEF IInv
<1>1. CASE \E tok, now : tokens_tokens' = ResetIdleToken(tokens_tokens, tok, now)
  <2>1. PICK tok, now : tokens_tokens' = ResetIdleToken(tokens_tokens, tok, now)
    BY <1>1
  <2> DEFINE F(r) == IF r.token = tok /\ ~r.single_use THEN IdleReset(r, now) ELSE r
  <2>2. \A r \in tokens_tokens :
          /\ F(r).token = r.token /\ F(r).single_use = r.single_use
          /\ F(r).type = r.type /\ F(r).ref_id = r.ref_id
    BY DEF TypeOK, Row, IdleReset
  <2>3. tokens_tokens' = { F(r) : r \in tokens_tokens }
    BY <2>1 DEF ResetIdleToken
  <2> HIDE DEF F
  <2> QED BY <2>2, <2>3 DEF RootRecords, LineageUnique, OneSingleUsePerRef, SpentIsGone
<1>2. CASE \E tok, d : tokens_tokens' = SetData(tokens_tokens, tok, d)
  <2>1. PICK tok, d : tokens_tokens' = SetData(tokens_tokens, tok, d)
    BY <1>2
  <2> DEFINE F(r) == IF r.token = tok THEN WithData(r, d) ELSE r
  <2>2. \A r \in tokens_tokens :
          /\ F(r).token = r.token /\ F(r).single_use = r.single_use
          /\ F(r).type = r.type /\ F(r).ref_id = r.ref_id
    BY DEF TypeOK, Row, WithData
  <2>3. tokens_tokens' = { F(r) : r \in tokens_tokens }
    BY <2>1 DEF SetData
  <2> HIDE DEF F
  <2> QED BY <2>2, <2>3 DEF RootRecords, LineageUnique, OneSingleUsePerRef, SpentIsGone
<1> QED BY <1>1, <1>2

\* A call that ends leaves the other calls as they were.
LEMMA ReturnStep ==
  ASSUME IInv, NEW c \in Caller, Return(c), UNCHANGED <<clock, generated>>,
         \A t \in Token : t # call[c].fresh => root'[t] = root[t],
         spent' \subseteq Token, \A t \in spent' : root'[t] # Null,
         call[c].fresh # Null => root'[call[c].fresh] # Null \/ root' = root,
         TypeOK'
  PROVE  CallShape' /\ FreshIsFresh' /\ LoadedRecorded'
<1> USE DEF IInv
<1>1. CallShape'
  BY DEF CallShape, Return, NoCall, TypeOK, Call
<1>2. FreshIsFresh'
  BY DEF FreshIsFresh, Return, NoCall, TypeOK, Call, Nullable
<1>3. ASSUME NEW d \in Caller, call'[d].op = "verify", call'[d].row # Null
      PROVE  call'[d].row \in Row /\ root'[call'[d].row.token] # Null
  <2>1. d # c /\ call'[d] = call[d]
    BY <1>3 DEF Return, NoCall, TypeOK
  <2>2. call[d].row \in Row /\ root[call[d].row.token] # Null
    BY <1>3, <2>1 DEF LoadedRecorded
  <2>3. call[d].row.token \in Token /\ call[d].row.token # call[c].fresh
    BY <2>2, TableAssumption DEF FreshIsFresh, Row
  <2> QED BY <2>1, <2>2, <2>3
<1>4. LoadedRecorded'
  BY <1>3 DEF LoadedRecorded
<1> QED BY <1>1, <1>2, <1>4

\* New inserts a row, or replaces the one row it conflicts with.
LEMMA ExecNewStep ==
  ASSUME IInv, TypeOK', NEW c \in Caller, ExecNew(c)
  PROVE  IInv'
<1> USE DEF IInv
<1> DEFINE f == call[c].fresh
           args == call[c].args
           old == Conflicts(tokens_tokens, args)
           new == NewRow(f, args, call[c].start)
<1>1. f \in Token /\ f # Null /\ f \in generated /\ root[f] = Null
  BY TableAssumption DEF ExecNew, CallShape, FreshIsFresh
<1>2. root' = [root EXCEPT ![f] = f] /\ root'[f] # Null
  BY <1>1 DEF ExecNew, TypeOK
<1>3. CallShape' /\ FreshIsFresh' /\ LoadedRecorded'
  BY <1>1, <1>2, ReturnStep DEF ExecNew, TypeOK, LoadedRecorded
<1>4. \A r \in tokens_tokens : r.token # f /\ root[r.token] # f /\ r \in Row
  BY <1>1 DEF RootRecords, TypeOK, Row, Nullable
<1>5. CASE old = {}
  <2>1. tokens_tokens' = tokens_tokens \cup {new}
    BY <1>5 DEF ExecNew, InsertToken
  <2>2. /\ new.token = f /\ new.single_use = args.SingleUse
        /\ new.type = args.Type /\ new.ref_id = args.RefID
    BY DEF NewRow
  <2>3. OneSingleUsePerRef'
    BY <1>5, <2>1, <2>2 DEF OneSingleUsePerRef, Conflicts
  <2> HIDE DEF new, old
  <2>4. RootRecords' /\ LineageUnique' /\ SpentIsGone'
    BY <1>1, <1>2, <1>4, <2>1, <2>2
    DEF RootRecords, LineageUnique, SpentIsGone, LoadedRecorded, ExecNew, TypeOK, Row, Nullable
  <2> QED BY <1>3, <2>3, <2>4
<1>6. CASE old # {}
  <2>1. PICK r \in tokens_tokens : old = {r} /\ r.single_use
    BY <1>6 DEF Conflicts, OneSingleUsePerRef
  <2> DEFINE s == ReplacedRow(r, f, args, call[c].start)
  <2>2. tokens_tokens' = (tokens_tokens \ {r}) \cup {s}
    BY <1>6, <2>1 DEF ExecNew, InsertToken
  <2>3. /\ s.token = f /\ s.single_use = r.single_use
        /\ s.type = r.type /\ s.ref_id = r.ref_id
    BY <1>4 DEF ReplacedRow, Row
  <2> HIDE DEF s, old
  <2>4. OneSingleUsePerRef'
    BY <2>1, <2>2, <2>3 DEF OneSingleUsePerRef
  <2>5. RootRecords' /\ LineageUnique' /\ SpentIsGone'
    BY <1>1, <1>2, <1>4, <2>2, <2>3
    DEF RootRecords, LineageUnique, SpentIsGone, LoadedRecorded, ExecNew, TypeOK, Row, Nullable
  <2> QED BY <1>3, <2>4, <2>5
<1> QED BY <1>5, <1>6

\* Rotate moves one row to the new token, or does nothing.
LEMMA ExecRotateStep ==
  ASSUME IInv, TypeOK', NEW c \in Caller, ExecRotate(c)
  PROVE  IInv'
<1> USE DEF IInv
<1> DEFINE f == call[c].fresh
           old == call[c].token
           Hit(r) == r.token = old /\ ~r.single_use
           F(r) == IF Hit(r) THEN RotatedRow(r, f, call[c].args, call[c].start) ELSE r
<1>1. f \in Token /\ f # Null /\ f \in generated /\ root[f] = Null /\ old \in Token
  BY TableAssumption DEF ExecRotate, CallShape, FreshIsFresh
<1>2. tokens_tokens' = { F(r) : r \in tokens_tokens }
  BY DEF ExecRotate, RotateToken
<1>3. \A r \in tokens_tokens :
        /\ F(r).token = IF Hit(r) THEN f ELSE r.token
        /\ F(r).single_use = r.single_use /\ F(r).type = r.type
        /\ r.single_use => F(r) = r
  BY DEF RotatedRow, TypeOK, Row
<1>4. \A r \in tokens_tokens : r.token # f /\ root[r.token] # f /\ r \in Row
  BY <1>1 DEF RootRecords, TypeOK, Row, Nullable
<1>5. root' = IF f \in Tokens(tokens_tokens') THEN [root EXCEPT ![f] = root[old]] ELSE root
  BY DEF ExecRotate
<1> HIDE DEF F
<1>6. OneSingleUsePerRef'
  BY <1>2, <1>3 DEF OneSingleUsePerRef
<1>7. CASE \E r \in tokens_tokens : Hit(r)
  <2>1. PICK r \in tokens_tokens : Hit(r)
    BY <1>7
  <2>2. root' = [root EXCEPT ![f] = root[old]] /\ root[old] # Null
    BY <1>2, <1>3, <1>5, <2>1 DEF Tokens, RootRecords
  <2>3. root'[f] # Null /\ root'[f] = root[old] /\ \A t \in Token : t # f => root'[t] = root[t]
    BY <1>1, <2>2 DEF TypeOK
  <2>4. CallShape' /\ FreshIsFresh' /\ LoadedRecorded'
    BY <1>1, <2>3, ReturnStep DEF ExecRotate, TypeOK, LoadedRecorded
  <2>5. RootRecords'
    <3>1. \A s \in tokens_tokens' : root'[s.token] # Null
      BY <1>2, <1>3, <1>4, <2>3 DEF RootRecords, Row
    <3>2. root[old] \in Token /\ root[old] # f /\ root[root[old]] # Null
      BY <1>1, <2>2 DEF RootRecords, TypeOK, Nullable
    <3>3. \A t \in Token : root[t] # Null => root[t] \in Token /\ root[t] # f
      BY <1>1 DEF RootRecords, TypeOK, Nullable
    <3>4. generated' = generated
      BY DEF ExecRotate
    <3>5. \A t \in Token : root'[t] # Null => t \in generated' /\ root'[root'[t]] # Null
      BY <1>1, <2>3, <3>2, <3>3, <3>4 DEF RootRecords
    <3> QED BY <3>1, <3>5 DEF RootRecords
  <2>6. LineageUnique'
    BY <1>1, <1>2, <1>3, <1>4, <2>1, <2>3 DEF LineageUnique, Row
  <2>7. SpentIsGone'
    BY <1>1, <1>2, <1>3, <1>4, <2>3 DEF SpentIsGone, LoadedRecorded, ExecRotate
  <2> QED BY <1>6, <2>4, <2>5, <2>6, <2>7
<1>8. CASE ~ \E r \in tokens_tokens : Hit(r)
  <2>1. tokens_tokens' = tokens_tokens
    BY <1>2, <1>8 DEF F
  <2>2. root' = root
    BY <1>4, <1>5, <2>1 DEF Tokens
  <2> QED BY <2>1, <2>2, ShrinkStep DEF ExecRotate, TypeOK
<1> QED BY <1>7, <1>8

\* Every step keeps the invariant.
LEMMA NextIInv == IInv /\ [Next]_vars => IInv'
<1> SUFFICES ASSUME IInv, [Next]_vars PROVE IInv'
  OBVIOUS
<1>0. TypeOK'
  BY TypeStep
<1>1. ASSUME NEW c \in Caller, BeginNew(c) PROVE IInv'
  <2>1. PICK args \in NewArgs, f \in generateNewToken : Begin(c, "new", Null, f, args)
    BY <1>1 DEF BeginNew
  <2> QED BY <1>0, <2>1, BeginStep, TableAssumption, TokensAssumption
          DEF generateNewToken, Op, Nullable
<1>2. ASSUME NEW c \in Caller, BeginRotate(c) PROVE IInv'
  <2>1. PICK t \in generated, args \in RotateArgs, f \in generateNewToken :
          Begin(c, "rotate", t, f, args)
    BY <1>2 DEF BeginRotate
  <2> QED BY <1>0, <2>1, BeginStep, TableAssumption, TokensAssumption
          DEF generateNewToken, Op, Nullable, IInv, TypeOK
<1>3. ASSUME NEW c \in Caller,
             BeginVerify(c) \/ BeginResetIdle(c) \/ BeginCleanup(c)
      PROVE  IInv'
  BY <1>0, <1>3, BeginStep
  DEF BeginVerify, BeginResetIdle, BeginCleanup, Op, Nullable, IInv, TypeOK
<1>4. ASSUME NEW c \in Caller, ExecNew(c) PROVE IInv'
  BY <1>0, <1>4, ExecNewStep
<1>5. ASSUME NEW c \in Caller, ExecRotate(c) PROVE IInv'
  BY <1>0, <1>5, ExecRotateStep
<1>6. ASSUME NEW c \in Caller, VerifyLoad(c) PROVE IInv'
  <2>1. CASE Return(c)
    BY <1>0, <1>6, <2>1, ShrinkStep DEF VerifyLoad, history, IInv, TypeOK
  <2>2. ASSUME NEW r \in tokens_tokens, call' = [call EXCEPT ![c].row = r] PROVE IInv'
    <3>1. CallShape' /\ FreshIsFresh'
      BY <1>6, <2>2 DEF VerifyLoad, history, IInv, CallShape, FreshIsFresh, TypeOK, Call
    <3>2. LoadedRecorded'
      BY <1>6, <2>2
      DEF VerifyLoad, history, IInv, LoadedRecorded, RootRecords, TypeOK, Call
    <3>3. RootRecords' /\ LineageUnique' /\ OneSingleUsePerRef' /\ SpentIsGone'
      BY <1>6 DEF VerifyLoad, history, IInv, RootRecords, LineageUnique,
                  OneSingleUsePerRef, SpentIsGone
    <3> QED BY <1>0, <3>1, <3>2, <3>3 DEF IInv
  <2> QED BY <1>6, <2>1, <2>2 DEF VerifyLoad, SelectToken
<1>7. ASSUME NEW c \in Caller, VerifyApply(c) PROVE IInv'
  <2> DEFINE r == call[c].row
  <2>1. r \in Row /\ root[r.token] # Null /\ root' = root
    BY <1>7 DEF VerifyApply, IInv, LoadedRecorded
  <2>2. CallShape' /\ FreshIsFresh' /\ LoadedRecorded'
    <3>1. \A t \in spent' : root'[t] # Null
      BY <1>7, <2>1 DEF VerifyApply, IInv, LoadedRecorded
    <3> QED BY <1>0, <1>7, <2>1, <3>1, ReturnStep DEF VerifyApply, TypeOK
  <2>3. CASE r.single_use
    BY <1>0, <1>7, <2>2, <2>3
    DEF VerifyApply, VerifyWrite, DeleteToken, IInv, RootRecords, LineageUnique,
        OneSingleUsePerRef, SpentIsGone
  <2>4. CASE ~r.single_use /\ r.idle # Null
    <3>1. RootRecords' /\ LineageUnique' /\ OneSingleUsePerRef' /\ SpentIsGone'
      BY <1>7, <2>4, SameTokens DEF VerifyApply, VerifyWrite
    <3> QED BY <1>0, <2>2, <3>1 DEF IInv
  <2>5. CASE ~r.single_use /\ r.idle = Null
    BY <1>0, <1>7, <2>2, <2>5
    DEF VerifyApply, VerifyWrite, IInv, RootRecords, LineageUnique,
        OneSingleUsePerRef, SpentIsGone
  <2> QED BY <2>3, <2>4, <2>5
<1>8. ASSUME NEW c \in Caller, ExecResetIdle(c) PROVE IInv'
  <2>1. RootRecords' /\ LineageUnique' /\ OneSingleUsePerRef' /\ SpentIsGone'
    BY <1>8, SameTokens DEF ExecResetIdle, history
  <2>2. CallShape' /\ FreshIsFresh' /\ LoadedRecorded'
    BY <1>0, <1>8, ReturnStep DEF ExecResetIdle, history, IInv, TypeOK, LoadedRecorded
  <2> QED BY <1>0, <2>1, <2>2 DEF IInv
<1>9. ASSUME NEW c \in Caller, ExecCleanup(c) \/ Fail(c) PROVE IInv'
  BY <1>0, <1>9, ShrinkStep
  DEF ExecCleanup, CleanupTokens, Fail, history, IInv, TypeOK
<1>10. CASE UpdateData
  <2>1. RootRecords' /\ LineageUnique' /\ OneSingleUsePerRef' /\ SpentIsGone'
    BY <1>10, SameTokens DEF UpdateData, history
  <2>2. CallShape' /\ FreshIsFresh' /\ LoadedRecorded'
    BY <1>10 DEF UpdateData, history, IInv, CallShape, FreshIsFresh, LoadedRecorded
  <2> QED BY <1>0, <2>1, <2>2 DEF IInv
<1>11. CASE Delete \/ DeleteByTypeRef \/ Tick
  BY <1>0, <1>11, ShrinkStep
  DEF Delete, DeleteToken, DeleteByTypeRef, DeleteTypeRef, Tick, history, IInv, TypeOK
<1>12. CASE UNCHANGED vars
  BY <1>0, <1>12, ShrinkStep DEF vars, IInv, TypeOK
<1> QED BY <1>1, <1>2, <1>3, <1>4, <1>5, <1>6, <1>7, <1>8, <1>9, <1>10, <1>11, <1>12
        DEF Next, CallerStep

(***************************************************************************)
(* Every reachable state satisfies the inductive invariant.                *)
(***************************************************************************)
THEOREM Inductive == Spec => []IInv
BY InitIInv, NextIInv, PTL DEF Spec

(***************************************************************************)
(* Type correctness, for every value of the constants.                     *)
(***************************************************************************)
THEOREM TypeCorrect == Spec => []TypeOK
<1>1. IInv => TypeOK
  BY DEF IInv
<1> QED BY <1>1, Inductive, PTL

(***************************************************************************)
(* However many callers verify, rotate, replace and delete tokens: a       *)
(* consumed token is gone from the table, a lineage of rotated tokens has  *)
(* one row, and there is one single-use token per type and reference.      *)
(***************************************************************************)
THEOREM ConsumedIsGone == Spec => []SpentIsGone
<1>1. IInv => SpentIsGone
  BY DEF IInv
<1> QED BY <1>1, Inductive, PTL

\* Rotations never fork a session (Tokens.Rotate).
THEOREM RotateKeepsOneRow == Spec => []LineageUnique
<1>1. IInv => LineageUnique
  BY DEF IInv
<1> QED BY <1>1, Inductive, PTL

\* New keeps a single valid token for a type and a reference (Tokens.New).
THEOREM NewKeepsOneSingleUse == Spec => []OneSingleUsePerRef
<1>1. IInv => OneSingleUsePerRef
  BY DEF IInv
<1> QED BY <1>1, Inductive, PTL

-----------------------------------------------------------------------------
(* Action properties. *)

\* The rows that ResetIdle and UpdateData leave keep what identifies them.
LEMMA SameIdentity ==
  ASSUME TypeOK,
         \/ \E tok, now : tokens_tokens' = ResetIdleToken(tokens_tokens, tok, now)
         \/ \E tok, d : tokens_tokens' = SetData(tokens_tokens, tok, d),
         NEW s \in tokens_tokens'
  PROVE  \E r \in tokens_tokens :
           /\ r.token = s.token
           /\ r.type = s.type /\ r.single_use = s.single_use
           /\ r.ref_id = s.ref_id /\ r.expiry = s.expiry
<1>1. CASE \E tok, now : tokens_tokens' = ResetIdleToken(tokens_tokens, tok, now)
  <2>1. PICK tok, now : tokens_tokens' = ResetIdleToken(tokens_tokens, tok, now)
    BY <1>1
  <2> DEFINE F(r) == IF r.token = tok /\ ~r.single_use THEN IdleReset(r, now) ELSE r
  <2>2. \A r \in tokens_tokens :
          /\ F(r).token = r.token /\ F(r).single_use = r.single_use
          /\ F(r).type = r.type /\ F(r).ref_id = r.ref_id /\ F(r).expiry = r.expiry
    BY DEF TypeOK, Row, IdleReset
  <2>3. tokens_tokens' = { F(r) : r \in tokens_tokens }
    BY <2>1 DEF ResetIdleToken
  <2> HIDE DEF F
  <2> QED BY <2>2, <2>3
<1>2. CASE \E tok, d : tokens_tokens' = SetData(tokens_tokens, tok, d)
  <2>1. PICK tok, d : tokens_tokens' = SetData(tokens_tokens, tok, d)
    BY <1>2
  <2> DEFINE F(r) == IF r.token = tok THEN WithData(r, d) ELSE r
  <2>2. \A r \in tokens_tokens :
          /\ F(r).token = r.token /\ F(r).single_use = r.single_use
          /\ F(r).type = r.type /\ F(r).ref_id = r.ref_id /\ F(r).expiry = r.expiry
    BY DEF TypeOK, Row, WithData
  <2>3. tokens_tokens' = { F(r) : r \in tokens_tokens }
    BY <2>1 DEF SetData
  <2> HIDE DEF F
  <2> QED BY <2>2, <2>3
<1> QED BY <1>1, <1>2

(***************************************************************************)
(* A token that left the table never returns to it, and while it stays its *)
(* identity and its absolute expiry do not change.                         *)
(***************************************************************************)
THEOREM TokensAreFinal == Spec => TokenIsFinal
<1> DEFINE Same(s) ==
      \E r \in tokens_tokens :
        /\ r.token = s.token
        /\ r.type = s.type /\ r.single_use = s.single_use
        /\ r.ref_id = s.ref_id /\ r.expiry = s.expiry
<1>1. ASSUME IInv, [Next]_vars, NEW s \in tokens_tokens', root[s.token] # Null
      PROVE  Same(s)
  <2> USE <1>1
  <2>1. ASSUME NEW c \in Caller, ExecNew(c) PROVE Same(s)
    <3> DEFINE f == call[c].fresh
    <3>1. root[f] = Null /\ f # Null
      BY <2>1, TableAssumption DEF ExecNew, IInv, CallShape, FreshIsFresh
    <3>2. s \in InsertToken(tokens_tokens, f, call[c].args, call[c].start)
      BY <2>1 DEF ExecNew
    <3>3. s \in tokens_tokens \/ s.token = f
      <4>1. ASSUME NEW r \in Conflicts(tokens_tokens, call[c].args)
            PROVE  ReplacedRow(r, f, call[c].args, call[c].start).token = f
        BY DEF ReplacedRow, Conflicts, IInv, TypeOK, Row
      <4>2. NewRow(f, call[c].args, call[c].start).token = f
        BY DEF NewRow
      <4> QED BY <3>2, <4>1, <4>2, InsertRows
    <3> QED BY <3>1, <3>3
  <2>2. ASSUME NEW c \in Caller, ExecRotate(c) PROVE Same(s)
    <3> DEFINE f == call[c].fresh
               Hit(r) == r.token = call[c].token /\ ~r.single_use
               F(r) == IF Hit(r) THEN RotatedRow(r, f, call[c].args, call[c].start)
                       ELSE r
    <3>1. root[f] = Null /\ f # Null
      BY <2>2, TableAssumption DEF ExecRotate, IInv, CallShape, FreshIsFresh
    <3>2. tokens_tokens' = { F(r) : r \in tokens_tokens }
      BY <2>2 DEF ExecRotate, RotateToken
    <3>3. \A r \in tokens_tokens : F(r).token = f \/ F(r) = r
      BY DEF RotatedRow, IInv, TypeOK, Row
    <3> HIDE DEF F
    <3> QED BY <3>1, <3>2, <3>3
  <2>3. ASSUME NEW c \in Caller, VerifyApply(c) PROVE Same(s)
    <3>1. CASE tokens_tokens' \subseteq tokens_tokens
      BY <3>1
    <3>2. CASE \E tok, now : tokens_tokens' = ResetIdleToken(tokens_tokens, tok, now)
      BY <3>2, SameIdentity DEF IInv
    <3> QED BY <2>3, <3>1, <3>2 DEF VerifyApply, VerifyWrite, DeleteToken
  <2>4. ASSUME NEW c \in Caller, ExecResetIdle(c) PROVE Same(s)
    BY <2>4, SameIdentity DEF ExecResetIdle, IInv
  <2>5. CASE UpdateData
    BY <2>5, SameIdentity DEF UpdateData, IInv
  <2>6. CASE tokens_tokens' \subseteq tokens_tokens
    BY <2>6
  <2> QED
    BY <2>1, <2>2, <2>3, <2>4, <2>5, <2>6
    DEF Next, CallerStep, BeginNew, BeginRotate, BeginVerify, BeginResetIdle,
        BeginCleanup, Begin, VerifyLoad, ExecCleanup, CleanupTokens, Fail, Delete,
        DeleteToken, DeleteByTypeRef, DeleteTypeRef, Tick, vars
<1>2. IInv /\ [Next]_vars =>
        [\A s \in tokens_tokens' : root[s.token] # Null => Same(s)]_vars
  BY <1>1
<1> QED BY <1>2, Inductive, PTL DEF Spec, TokenIsFinal

(***************************************************************************)
(* A Cleanup that runs long after its now() removes no token that is still *)
(* valid.                                                                  *)
(***************************************************************************)
THEOREM CleanupIsSafe == Spec => CleanupKeepsValid
<1> DEFINE A == \A c \in Caller : ExecCleanup(c) =>
                  \A r \in tokens_tokens : ValidAt(r, clock) => r \in tokens_tokens'
<1>1. IInv => A
  BY DEF IInv, TypeOK, CallShape, Call, Row, ExecCleanup, CleanupTokens, ValidAt
<1>2. IInv /\ [Next]_vars => [A]_vars
  BY <1>1
<1> QED BY <1>2, Inductive, PTL DEF Spec, CleanupKeepsValid

-----------------------------------------------------------------------------
(* Idle expiry.  Each row satisfies a condition of its own, that the passage *)
(* of time preserves.                                                        *)

IdleOK(r, t) ==
  /\ r.single_use => r.idle_duration = Null
  /\ IF r.idle_duration = Null
     THEN r.idle = Null
     ELSE r.idle # Null /\ r.idle <= t + r.idle_duration * Second

IdleInv == \A r \in tokens_tokens : IdleOK(r, clock)

\* An idle instant computed from a now() that is past is within bounds.
LEMMA AfterBounded ==
  ASSUME NEW t \in Nat, NEW now \in Nat, now <= t, NEW secs \in Nullable(Nat)
  PROVE  IF secs = Null THEN After(now, secs) = Null
         ELSE After(now, secs) # Null /\ After(now, secs) <= t + secs * Second
<1>1. CASE secs = Null
  BY <1>1 DEF After
<1>2. CASE secs # Null
  <2>1. secs \in Nat /\ secs * Second \in Int /\ Second \in Nat
    BY <1>2, TableAssumption DEF Nullable
  <2>2. After(now, secs) = now + secs * Second /\ After(now, secs) # Null
    BY <1>2, <2>1, AfterType
  <2> DEFINE x == secs * Second
  <2>3. x \in Int
    BY <2>1
  <2> HIDE DEF x
  <2>4. now + x <= t + x
    BY <2>3
  <2> QED BY <1>2, <2>2, <2>4 DEF x
<1> QED BY <1>1, <1>2

\* A row's condition still holds when time has passed.
LEMMA IdleOKLater ==
  ASSUME NEW r \in Row, NEW t \in Nat, NEW u \in Nat, t <= u, IdleOK(r, t)
  PROVE  IdleOK(r, u)
<1>1. CASE r.idle_duration = Null
  BY <1>1 DEF IdleOK
<1>2. CASE r.idle_duration # Null
  <2> DEFINE x == r.idle_duration * Second
  <2>1. r.idle_duration \in Nat /\ Second \in Nat /\ r.idle \in Nat
    BY <1>2, TableAssumption DEF Row, Nullable, IdleOK
  <2>2. x \in Int /\ r.idle <= t + x
    BY <1>2, <2>1 DEF IdleOK
  <2> HIDE DEF x
  <2>3. r.idle <= u + x
    BY <2>1, <2>2
  <2> QED BY <1>2, <2>3 DEF IdleOK, x
<1> QED BY <1>1, <1>2

\* The rows that New, Rotate and ResetIdle write satisfy the condition.
LEMMA WrittenIdleOK ==
  ASSUME NEW t \in Nat, NEW now \in Nat, now <= t, NEW tok \in Token
  PROVE  /\ \A args \in TokenArgs : IdleOK(NewRow(tok, args, now), t)
         /\ \A r \in Row, args \in TokenArgs :
              IdleOK(r, t) => IdleOK(ReplacedRow(r, tok, args, now), t)
         /\ \A r \in Row, args \in TokenArgs :
              ~r.single_use => IdleOK(RotatedRow(r, tok, args, now), t)
         /\ \A r \in Row : ~r.single_use => IdleOK(IdleReset(r, now), t)
<1>1. ASSUME NEW args \in TokenArgs PROVE IdleOK(NewRow(tok, args, now), t)
  <2> DEFINE n == NewRow(tok, args, now)
             secs == NewIdleSecs(args)
  <2>1. n.single_use = args.SingleUse /\ n.idle_duration = secs /\ n.idle = After(now, secs)
    BY DEF NewRow
  <2>2. secs \in Nullable(Nat) /\ (args.SingleUse => secs = Null)
    BY SecondsNat DEF NewIdleSecs, TokenArgs, Nullable
  <2> HIDE DEF n, secs
  <2> QED BY <2>1, <2>2, AfterBounded DEF IdleOK, n
<1>2. ASSUME NEW r \in Row, NEW args \in TokenArgs, IdleOK(r, t)
      PROVE  IdleOK(ReplacedRow(r, tok, args, now), t)
  <2> DEFINE n == ReplacedRow(r, tok, args, now)
  <2>1. n.single_use = r.single_use /\ n.idle_duration = r.idle_duration /\ n.idle = r.idle
    BY DEF ReplacedRow, Row
  <2> HIDE DEF n
  <2> QED BY <1>2, <2>1 DEF IdleOK, n
<1>3. ASSUME NEW r \in Row, NEW args \in TokenArgs, ~r.single_use
      PROVE  IdleOK(RotatedRow(r, tok, args, now), t)
  <2> DEFINE n == RotatedRow(r, tok, args, now)
             secs == RotateIdleSecs(args)
  <2>1. n.single_use = r.single_use /\ n.idle_duration = secs /\ n.idle = After(now, secs)
    BY DEF RotatedRow, Row
  <2>2. secs \in Nullable(Nat)
    BY SecondsNat DEF RotateIdleSecs, TokenArgs, Nullable
  <2> HIDE DEF n, secs
  <2> QED BY <1>3, <2>1, <2>2, AfterBounded DEF IdleOK, n
<1>4. ASSUME NEW r \in Row, ~r.single_use PROVE IdleOK(IdleReset(r, now), t)
  <2> DEFINE n == IdleReset(r, now)
             secs == r.idle_duration
  <2>1. n.single_use = r.single_use /\ n.idle_duration = secs /\ n.idle = After(now, secs)
    BY DEF IdleReset, Row
  <2>2. secs \in Nullable(Nat)
    BY DEF Row
  <2> HIDE DEF n, secs
  <2> QED BY <1>4, <2>1, <2>2, AfterBounded DEF IdleOK, n
<1> QED BY <1>1, <1>2, <1>3, <1>4

\* ResetIdle, called at a past instant for any token, keeps the condition.
LEMMA ResetIdleInv ==
  ASSUME IInv, IdleInv, NEW tok \in Token, NEW now \in Nat, now <= clock,
         tokens_tokens' = ResetIdleToken(tokens_tokens, tok, now), clock' = clock
  PROVE  IdleInv'
<1>1. \A r \in tokens_tokens : ~r.single_use => IdleOK(IdleReset(r, now), clock)
  BY WrittenIdleOK DEF IInv, TypeOK
<1> QED BY <1>1 DEF ResetIdleToken, IdleInv

\* Every step keeps the condition of every row.
LEMMA IdleStep == IInv /\ IdleInv /\ [Next]_vars => IdleInv'
<1> SUFFICES ASSUME IInv, IdleInv, [Next]_vars PROVE IdleInv'
  OBVIOUS
<1>0. /\ tokens_tokens \subseteq Row /\ clock \in Nat
      /\ \A c \in Caller : call[c].start \in Nat /\ call[c].start <= clock
  BY DEF IInv, TypeOK, CallShape, Call
<1>1. ASSUME NEW c \in Caller, ExecNew(c) PROVE IdleInv'
  <2>1. call[c].fresh \in Token /\ call[c].args \in TokenArgs /\ clock' = clock
    BY <1>1 DEF ExecNew, IInv, CallShape
  <2> DEFINE N == NewRow(call[c].fresh, call[c].args, call[c].start)
             R(r) == ReplacedRow(r, call[c].fresh, call[c].args, call[c].start)
  <2>2. IdleOK(N, clock) /\ \A r \in tokens_tokens : IdleOK(R(r), clock)
    BY <1>0, <2>1, WrittenIdleOK DEF IdleInv
  <2>3. \A s \in tokens_tokens' : s \in tokens_tokens \/ s = N \/ \E r \in tokens_tokens : s = R(r)
    BY <1>1 DEF ExecNew, InsertToken, Conflicts
  <2> HIDE DEF N, R
  <2> QED BY <2>1, <2>2, <2>3 DEF IdleInv
<1>2. ASSUME NEW c \in Caller, ExecRotate(c) PROVE IdleInv'
  <2>1. call[c].fresh \in Token /\ call[c].args \in TokenArgs /\ clock' = clock
    BY <1>2 DEF ExecRotate, IInv, CallShape
  <2> DEFINE R(r) == RotatedRow(r, call[c].fresh, call[c].args, call[c].start)
  <2>2. \A r \in tokens_tokens : ~r.single_use => IdleOK(R(r), clock)
    BY <1>0, <2>1, WrittenIdleOK
  <2>3. \A s \in tokens_tokens' : \E r \in tokens_tokens :
          s = r \/ (~r.single_use /\ s = R(r))
    BY <1>2 DEF ExecRotate, RotateToken
  <2> HIDE DEF R
  <2> QED BY <2>1, <2>2, <2>3 DEF IdleInv
<1>3. ASSUME NEW c \in Caller, VerifyApply(c) PROVE IdleInv'
  <2>1. call[c].row.token \in Token /\ clock' = clock
    BY <1>3 DEF VerifyApply, IInv, LoadedRecorded, Row
  <2>2. CASE tokens_tokens' = ResetIdleToken(tokens_tokens, call[c].row.token, call[c].start)
    BY <1>0, <2>1, <2>2, ResetIdleInv
  <2>3. CASE tokens_tokens' \subseteq tokens_tokens
    BY <2>1, <2>3 DEF IdleInv
  <2> QED BY <1>3, <2>2, <2>3 DEF VerifyApply, VerifyWrite, DeleteToken
<1>4. ASSUME NEW c \in Caller, ExecResetIdle(c) PROVE IdleInv'
  <2>1. call[c].token \in Token
    BY <1>4 DEF ExecResetIdle, IInv, CallShape
  <2> QED BY <1>0, <1>4, <2>1, ResetIdleInv DEF ExecResetIdle
<1>5. CASE UpdateData
  <2>1. PICK t \in generated, d \in Data : tokens_tokens' = SetData(tokens_tokens, t, d)
    BY <1>5 DEF UpdateData
  <2>2. \A r \in tokens_tokens :
          /\ WithData(r, d).single_use = r.single_use
          /\ WithData(r, d).idle = r.idle
          /\ WithData(r, d).idle_duration = r.idle_duration
    BY <1>0 DEF WithData, Row
  <2>3. \A r \in tokens_tokens : IdleOK(WithData(r, d), clock)
    BY <2>2 DEF IdleInv, IdleOK
  <2> QED BY <1>5, <2>1, <2>3 DEF UpdateData, SetData, IdleInv
<1>6. CASE Tick
  BY <1>0, <1>6, IdleOKLater DEF Tick, IdleInv
<1>7. CASE tokens_tokens' \subseteq tokens_tokens /\ clock' = clock
  BY <1>7 DEF IdleInv
<1> QED
  BY <1>1, <1>2, <1>3, <1>4, <1>5, <1>6, <1>7
  DEF Next, CallerStep, BeginNew, BeginRotate, BeginVerify, BeginResetIdle,
      BeginCleanup, Begin, VerifyLoad, ExecCleanup, CleanupTokens, Fail, Delete,
      DeleteToken, DeleteByTypeRef, DeleteTypeRef, vars

(***************************************************************************)
(* A single-use token never has an idle expiry, and no sequence of resets, *)
(* however late, pushes an idle instant further than one idle duration.    *)
(***************************************************************************)
THEOREM IdleExpiryHolds == Spec => [](IdleOnlyMultiUse /\ IdleBounded)
<1>1. Init => IdleInv
  BY DEF Init, IdleInv
<1>2. IdleInv => IdleOnlyMultiUse /\ IdleBounded
  BY DEF IdleInv, IdleOK, IdleOnlyMultiUse, IdleBounded
<1> QED BY <1>1, <1>2, IdleStep, Inductive, PTL DEF Spec
===============================================================================
