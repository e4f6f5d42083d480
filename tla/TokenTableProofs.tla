--------------------------- MODULE TokenTableProofs ---------------------------
(***************************************************************************)
(* What the statements of TokenTable leave behind, for every table, token, *)
(* argument and instant: the lemmas that TokensProofs and SessionsProofs   *)
(* share.                                                                  *)
(***************************************************************************)
EXTENDS TokenTable, TLAPS

\* A whole number of seconds of any duration is a natural number.
LEMMA SecondsNat == ASSUME NEW d \in Nat PROVE Seconds(d) \in Nat
BY TableAssumption DEF Seconds

\* now() + secs * interval '1 second' is an instant, or NULL.
LEMMA AfterType ==
  ASSUME NEW now \in Nat, NEW secs \in Nullable(Nat)
  PROVE  /\ After(now, secs) \in Nullable(Nat)
         /\ secs \in Nat => /\ After(now, secs) \in Nat
                            /\ After(now, secs) = now + secs * Second
         /\ secs = Null <=> After(now, secs) = Null
BY TableAssumption DEF After, Nullable

\* The row New inserts has the types of the table's columns.
LEMMA NewRowType ==
  ASSUME NEW tok \in Token, NEW args \in TokenArgs, NEW now \in Nat
  PROVE  NewRow(tok, args, now) \in Row
<1>1. now + Seconds(args.AbsoluteExpiry) * Second \in Nat
  BY SecondsNat, TableAssumption DEF TokenArgs
<1>2. NewIdleSecs(args) \in Nullable(Nat)
  BY SecondsNat DEF NewIdleSecs, TokenArgs, Nullable
<1>3. After(now, NewIdleSecs(args)) \in Nullable(Nat)
  BY <1>2, AfterType
<1>4. NewData(args) \in Data
  BY TableAssumption DEF NewData, TokenArgs, Nullable
<1> QED BY <1>1, <1>2, <1>3, <1>4 DEF NewRow, Row, TokenArgs

\* The row Rotate leaves has the types of the table's columns.
LEMMA RotatedRowType ==
  ASSUME NEW r \in Row, NEW new \in Token, NEW args \in TokenArgs, NEW now \in Nat
  PROVE  RotatedRow(r, new, args, now) \in Row
<1>1. now + Seconds(args.AbsoluteExpiry) * Second \in Nat
  BY SecondsNat, TableAssumption DEF TokenArgs
<1>2. RotateIdleSecs(args) \in Nullable(Nat)
  BY SecondsNat DEF RotateIdleSecs, TokenArgs, Nullable
<1>3. After(now, RotateIdleSecs(args)) \in Nullable(Nat)
  BY <1>2, AfterType
<1>4. (IF args.Data = Null THEN r.data ELSE args.Data) \in Data
  BY DEF TokenArgs, Nullable, Row
<1> QED BY <1>1, <1>2, <1>3, <1>4 DEF RotatedRow, Row, TokenArgs

\* Where the rows that INSERT ... ON CONFLICT leaves come from.
LEMMA InsertRows ==
  ASSUME NEW tbl, NEW tok, NEW args, NEW now,
         NEW s \in InsertToken(tbl, tok, args, now)
  PROVE  \/ s \in tbl /\ s \notin Conflicts(tbl, args)
         \/ s = NewRow(tok, args, now) /\ Conflicts(tbl, args) = {}
         \/ \E r \in Conflicts(tbl, args) : s = ReplacedRow(r, tok, args, now)
BY Zenon DEF InsertToken

\* Every statement maps tables to tables.
LEMMA StatementType ==
  ASSUME NEW tbl \in SUBSET Row, NEW tok \in Token, NEW now \in Nat
  PROVE  /\ \A args \in TokenArgs : InsertToken(tbl, tok, args, now) \in SUBSET Row
         /\ \A args \in TokenArgs, new \in Token :
              RotateToken(tbl, tok, new, args, now) \in SUBSET Row
         /\ ResetIdleToken(tbl, tok, now) \in SUBSET Row
         /\ \A d \in Data : SetData(tbl, tok, d) \in SUBSET Row
<1>1. ASSUME NEW args \in TokenArgs, NEW s \in InsertToken(tbl, tok, args, now)
      PROVE  s \in Row
  <2>1. NewRow(tok, args, now) \in Row
    BY NewRowType
  <2>2. CASE s \in tbl
    BY <2>2
  <2>3. CASE s = NewRow(tok, args, now)
    BY <2>1, <2>3
  <2>4. ASSUME NEW r \in Conflicts(tbl, args),
               s = ReplacedRow(r, tok, args, now)
        PROVE  s \in Row
    <3>1. r \in Row
      BY DEF Conflicts
    <3>2. now + Seconds(args.AbsoluteExpiry) * Second \in Nat
      BY SecondsNat, TableAssumption DEF TokenArgs
    <3> QED BY <2>4, <3>1, <3>2 DEF ReplacedRow, Row
  <2>5. \/ s \in tbl /\ s \notin Conflicts(tbl, args)
        \/ s = NewRow(tok, args, now) /\ Conflicts(tbl, args) = {}
        \/ \E r \in Conflicts(tbl, args) : s = ReplacedRow(r, tok, args, now)
    BY <1>1, InsertRows
  <2> QED BY <2>2, <2>3, <2>4, <2>5
<1>2. \A args \in TokenArgs, new \in Token :
        RotateToken(tbl, tok, new, args, now) \in SUBSET Row
  BY RotatedRowType DEF RotateToken
<1>3. ASSUME NEW r \in tbl
      PROVE  IdleReset(r, now) \in Row
  <2>1. After(now, r.idle_duration) \in Nullable(Nat)
    BY AfterType DEF Row
  <2> QED BY <2>1 DEF Row, IdleReset
<1>4. ResetIdleToken(tbl, tok, now) \in SUBSET Row
  BY <1>3 DEF ResetIdleToken
<1>5. ASSUME NEW d \in Data, NEW r \in tbl
      PROVE  WithData(r, d) \in Row
  BY DEF Row, WithData
<1>6. \A d \in Data : SetData(tbl, tok, d) \in SUBSET Row
  BY <1>5 DEF SetData
<1> QED BY <1>1, <1>2, <1>4, <1>6
===============================================================================
