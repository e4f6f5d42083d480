------------------------------ MODULE TokenTable ------------------------------
(***************************************************************************)
(* The "tokens_tokens" table of package tokens and the SQL statements that *)
(* the package runs on it.  A table is a set of rows; a statement is an    *)
(* operator from a table to the table it leaves behind.  `now` is          *)
(* postgres' now(): the start of the transaction that runs the statement,  *)
(* not the instant the statement takes effect.                             *)
(***************************************************************************)
EXTENDS Integers

CONSTANTS
  Token,      \* the strings generateNewToken may return
  Type,       \* application-defined token types
  Ref,        \* reference ids (UUIDs)
  Data,       \* JSON documents
  JsonNull,   \* the JSON document null
  Null,       \* SQL NULL, and Go's nil for an absent value
  Second      \* clock ticks per second: now() is finer than a second

ASSUME TableAssumption ==
  /\ Second \in Nat \ {0}
  /\ JsonNull \in Data
  /\ Null \notin Nat
  /\ Null \notin Data
  /\ Null \notin Token
  /\ Null \notin Ref

Nullable(S) == S \cup {Null}

(***************************************************************************)
(* A row.  "idle_duration" is in seconds, "expiry" and "idle" are instants.*)
(***************************************************************************)
Row ==
  [ token         : Token,
    type          : Type,
    single_use    : BOOLEAN,
    ref_id        : Ref,
    expiry        : Nat,
    idle          : Nullable(Nat),
    idle_duration : Nullable(Nat),
    data          : Data ]

(***************************************************************************)
(* TokenArgs: durations are in ticks, IdleExpiry 0 means no idle expiry    *)
(* and Data Null is a nil Data field.                                      *)
(***************************************************************************)
TokenArgs ==
  [ Type           : Type,
    RefID          : Ref,
    SingleUse      : BOOLEAN,
    AbsoluteExpiry : Nat,
    IdleExpiry     : Nat,
    Data           : Nullable(Data) ]

\* int64(d / time.Second): the fraction of a second is dropped.
Seconds(d) == d \div Second

\* now() + secs * interval '1 second', which is NULL when secs is NULL.
After(now, secs) == IF secs = Null THEN Null ELSE now + secs * Second

-----------------------------------------------------------------------------
\* The idle duration New stores: none for a single-use token.
NewIdleSecs(args) ==
  IF ~args.SingleUse /\ args.IdleExpiry > 0 THEN Seconds(args.IdleExpiry) ELSE Null

\* The idle duration Rotate stores.
RotateIdleSecs(args) ==
  IF args.IdleExpiry > 0 THEN Seconds(args.IdleExpiry) ELSE Null

\* Mutant: a nil Data is stored as SQL NULL.
NewDataNil(args) == args.Data

\* The data New stores and returns: a nil Data becomes JSON null.
NewData(args) == IF args.Data = Null THEN JsonNull ELSE args.Data

NewRow(tok, args, now) ==
  [ token         |-> tok,
    type          |-> args.Type,
    single_use    |-> args.SingleUse,
    ref_id        |-> args.RefID,
    expiry        |-> now + Seconds(args.AbsoluteExpiry) * Second,
    idle          |-> After(now, NewIdleSecs(args)),
    idle_duration |-> NewIdleSecs(args),
    data          |-> NewData(args) ]

\* Mutant: the partial unique index is missing.
ConflictsNone(tbl, args) == {}

\* Rows that the partial unique index ("type", "ref_id") WHERE "single_use"
\* makes a new row conflict with.
Conflicts(tbl, args) ==
  { r \in tbl : /\ args.SingleUse /\ r.single_use
                /\ r.type = args.Type /\ r.ref_id = args.RefID }

\* ON CONFLICT DO UPDATE SET "token", "expiry": the data stays.
ReplacedRow(r, tok, args, now) ==
  [r EXCEPT !.token = tok, !.expiry = now + Seconds(args.AbsoluteExpiry) * Second]

\* Tokens.New.
InsertToken(tbl, tok, args, now) ==
  LET old == Conflicts(tbl, args)
  IN  IF old = {}
      THEN tbl \cup {NewRow(tok, args, now)}
      ELSE (tbl \ old) \cup { ReplacedRow(r, tok, args, now) : r \in old }

\* "idle" IS NULL OR "idle" > now(), and "expiry" > now().
ValidAt(r, now) == r.expiry > now /\ (r.idle = Null \/ r.idle > now)

\* Tokens.Verify: the rows that its SELECT returns (at most one: token is
\* the primary key).
SelectToken(tbl, tok, now) == { r \in tbl : r.token = tok /\ ValidAt(r, now) }

\* Tokens.UpdateData.
WithData(r, data) == [r EXCEPT !.data = data]

SetData(tbl, tok, data) ==
  { IF r.token = tok THEN WithData(r, data) ELSE r : r \in tbl }

\* Tokens.Rotate: moves the row of old to new; COALESCE keeps the data when
\* no new data is given.
RotatedRow(r, new, args, now) ==
  [r EXCEPT !.token         = new,
            !.ref_id        = args.RefID,
            !.expiry        = now + Seconds(args.AbsoluteExpiry) * Second,
            !.idle          = After(now, RotateIdleSecs(args)),
            !.idle_duration = RotateIdleSecs(args),
            !.data          = IF args.Data = Null THEN r.data ELSE args.Data]

\* Mutant: the rotated row is inserted next to the old one.
RotateTokenCopies(tbl, old, new, args, now) ==
  tbl \cup { RotatedRow(r, new, args, now)
               : r \in { r \in tbl : r.token = old /\ ~r.single_use } }

RotateToken(tbl, old, new, args, now) ==
  { IF r.token = old /\ ~r.single_use THEN RotatedRow(r, new, args, now) ELSE r
      : r \in tbl }

\* Tokens.Delete.
DeleteToken(tbl, tok) == { r \in tbl : r.token # tok }

\* Mutant: the condition on the reference is missing.
DeleteTypeAnyRef(tbl, type, ref) == { r \in tbl : r.type # type }

\* Tokens.DeleteByTypeRef.
DeleteTypeRef(tbl, type, ref) ==
  { r \in tbl : ~(r.ref_id = ref /\ r.type = type) }

\* Mutant: the duration is added to the current idle instant.
ResetIdleTokenAdds(tbl, tok, now) ==
  { IF r.token = tok /\ ~r.single_use /\ r.idle # Null
    THEN [r EXCEPT !.idle = After(r.idle, r.idle_duration)] ELSE r : r \in tbl }

\* Mutant: a reset extends the absolute expiry too.
ResetIdleTokenSlides(tbl, tok, now) ==
  { IF r.token = tok /\ ~r.single_use /\ r.idle_duration # Null
    THEN [r EXCEPT !.idle = After(now, r.idle_duration),
                   !.expiry = r.expiry + r.idle_duration * Second]
    ELSE r : r \in tbl }

\* Tokens.ResetIdle: a NULL idle_duration leaves idle NULL.
IdleReset(r, now) == [r EXCEPT !.idle = After(now, r.idle_duration)]

ResetIdleToken(tbl, tok, now) ==
  { IF r.token = tok /\ ~r.single_use THEN IdleReset(r, now) ELSE r : r \in tbl }

\* Mutant: consumes a single-use token only if it has an idle expiry.
VerifyWriteIdleOnly(tbl, r, now) ==
  IF r.idle = Null THEN tbl
  ELSE IF r.single_use THEN DeleteToken(tbl, r.token)
  ELSE ResetIdleToken(tbl, r.token, now)

\* Tokens.Verify: the statement that follows the SELECT, from the row that it
\* returned; neither one minds matching no row any more.
VerifyWrite(tbl, r, now) ==
  IF r.single_use THEN DeleteToken(tbl, r.token)
  ELSE IF r.idle # Null THEN ResetIdleToken(tbl, r.token, now) ELSE tbl

\* Mutant: "idle" >= now() is required, which a NULL idle does not satisfy.
CleanupTokensNullIdle(tbl, now) ==
  { r \in tbl : ~(r.expiry < now) /\ r.idle # Null /\ r.idle >= now }

\* tokens_cleanup(): only the absolute expiry counts.
CleanupTokens(tbl, now) == { r \in tbl : ~(r.expiry < now) }
===============================================================================
