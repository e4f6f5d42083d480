-------------------------------- MODULE Tokens --------------------------------
(***************************************************************************)
(* Package tokens: concurrent calls of the methods of type Tokens, each in *)
(* a READ COMMITTED transaction of its own, on one tokens_tokens table.    *)
(*                                                                         *)
(* A method that depends on now() or on a token it generates takes effect  *)
(* after it was called, so its call is one step (that fixes now() and the  *)
(* generated token) and its statement another.  UpdateData, Delete and     *)
(* DeleteByTypeRef depend on neither and are one step.  Verify has two     *)
(* statements, hence three steps.  Its second statement and its COMMIT are *)
(* one step: until the commit other transactions see the old row, and wait *)
(* when they want to write it, so the statement takes effect at the commit.*)
(*                                                                         *)
(* A call may also fail without effect (Fail).  A call whose effect was    *)
(* committed and whose answer was lost leaves the same state as one that   *)
(* returned, as far as this module's variables can tell, except for Verify *)
(* (see VerifyApply).                                                      *)
(***************************************************************************)
EXTENDS TokenTable, FiniteSets

CONSTANTS
  Caller,      \* goroutines that call the methods
  NewArgs,     \* the TokenArgs given to New
  RotateArgs,  \* the TokenArgs given to Rotate
  MaxClock     \* bound on the clock

ASSUME TokensAssumption ==
  /\ NewArgs \subseteq TokenArgs
  /\ RotateArgs \subseteq TokenArgs
  /\ MaxClock \in Nat

VARIABLES
  tokens_tokens,  \* the table
  clock,          \* the database's clock
  generated,      \* strings generateNewToken has returned
  call,           \* what each goroutine is doing
  spent,          \* history: single-use tokens consumed by a committed Verify
  accepted,       \* history: how often Verify returned a single-use token
  root            \* history: the token a row was created with, per token the
                  \* row ever had; Null for a token never in the table

vars == <<tokens_tokens, clock, generated, call, spent, accepted, root>>
history == <<spent, accepted, root>>

Op == {"idle", "new", "rotate", "verify", "reset", "cleanup"}

Call ==
  [ op    : Op,
    token : Nullable(Token),       \* the token argument
    fresh : Nullable(Token),       \* what generateNewToken returned
    args  : Nullable(TokenArgs),
    start : Nat,                   \* now() in the call's transaction
    row   : Nullable(Row) ]        \* what Verify's SELECT returned

NoCall == [ op |-> "idle", token |-> Null, fresh |-> Null, args |-> Null,
            start |-> 0, row |-> Null ]

Tokens(tbl) == { r.token : r \in tbl }

Init ==
  /\ tokens_tokens = {}
  /\ clock = 0
  /\ generated = {}
  /\ call = [c \in Caller |-> NoCall]
  /\ spent = {}
  /\ accepted = [t \in Token |-> 0]
  /\ root = [t \in Token |-> Null]

-----------------------------------------------------------------------------
\* 32 random bytes: never a string that was generated before.
generateNewToken == Token \ generated

Begin(c, op, tok, fresh, args) ==
  /\ call[c].op = "idle"
  /\ call' = [call EXCEPT ![c] = [ op |-> op, token |-> tok, fresh |-> fresh,
                                   args |-> args, start |-> clock, row |-> Null ]]
  /\ generated' = generated \cup ({fresh} \ {Null})
  /\ UNCHANGED <<tokens_tokens, clock, history>>

Return(c) == call' = [call EXCEPT ![c] = NoCall]

\* The statement fails, or the transaction is rolled back: an error is
\* returned and nothing changed.
Fail(c) ==
  /\ call[c].op # "idle"
  /\ Return(c)
  /\ UNCHANGED <<tokens_tokens, clock, generated, history>>

-----------------------------------------------------------------------------
BeginNew(c) ==
  \E args \in NewArgs, f \in generateNewToken : Begin(c, "new", Null, f, args)

ExecNew(c) ==
  /\ call[c].op = "new"
  /\ tokens_tokens' = InsertToken(tokens_tokens, call[c].fresh, call[c].args,
                                  call[c].start)
  /\ root' = [root EXCEPT ![call[c].fresh] = call[c].fresh]
  /\ Return(c)
  /\ UNCHANGED <<clock, generated, spent, accepted>>

BeginRotate(c) ==
  \E t \in generated, args \in RotateArgs, f \in generateNewToken :
    Begin(c, "rotate", t, f, args)

\* No error when no row matched.
ExecRotate(c) ==
  /\ call[c].op = "rotate"
  /\ tokens_tokens' = RotateToken(tokens_tokens, call[c].token, call[c].fresh,
                                  call[c].args, call[c].start)
  /\ root' = IF call[c].fresh \in Tokens(tokens_tokens')
             THEN [root EXCEPT ![call[c].fresh] = root[call[c].token]]
             ELSE root
  /\ Return(c)
  /\ UNCHANGED <<clock, generated, spent, accepted>>

-----------------------------------------------------------------------------
BeginVerify(c) == \E t \in generated : Begin(c, "verify", t, Null, Null)

\* The SELECT; no row is ErrInvalid.
VerifyLoad(c) ==
  /\ call[c].op = "verify" /\ call[c].row = Null
  /\ LET found == SelectToken(tokens_tokens, call[c].token, call[c].start)
     IN  \/ /\ found = {}
            /\ Return(c)
         \/ \E r \in found : call' = [call EXCEPT ![c].row = r]
  /\ UNCHANGED <<tokens_tokens, clock, generated, history>>

\* vfn runs after the commit: a token it refuses is consumed all the same,
\* and so is one whose commit was made and not acknowledged.
VerifyApply(c) ==
  /\ call[c].op = "verify" /\ call[c].row # Null
  /\ LET r == call[c].row
     IN  /\ tokens_tokens' = VerifyWrite(tokens_tokens, r, call[c].start)
         /\ spent' = IF r.single_use THEN spent \cup {r.token} ELSE spent
         /\ \E vfnOK \in BOOLEAN :
              accepted' = IF vfnOK /\ r.single_use
                          THEN [accepted EXCEPT ![r.token] = @ + 1] ELSE accepted
  /\ Return(c)
  /\ UNCHANGED <<clock, generated, root>>

-----------------------------------------------------------------------------
BeginResetIdle(c) == \E t \in generated : Begin(c, "reset", t, Null, Null)

ExecResetIdle(c) ==
  /\ call[c].op = "reset"
  /\ tokens_tokens' = ResetIdleToken(tokens_tokens, call[c].token, call[c].start)
  /\ Return(c)
  /\ UNCHANGED <<clock, generated, history>>

BeginCleanup(c) == Begin(c, "cleanup", Null, Null, Null)

ExecCleanup(c) ==
  /\ call[c].op = "cleanup"
  /\ tokens_tokens' = CleanupTokens(tokens_tokens, call[c].start)
  /\ Return(c)
  /\ UNCHANGED <<clock, generated, history>>

UpdateData ==
  /\ \E t \in generated, d \in Data :
       tokens_tokens' = SetData(tokens_tokens, t, d)
  /\ UNCHANGED <<clock, generated, call, history>>

Delete ==
  /\ \E t \in generated : tokens_tokens' = DeleteToken(tokens_tokens, t)
  /\ UNCHANGED <<clock, generated, call, history>>

DeleteByTypeRef ==
  /\ \E type \in Type, ref \in Ref :
       tokens_tokens' = DeleteTypeRef(tokens_tokens, type, ref)
  /\ UNCHANGED <<clock, generated, call, history>>

Tick ==
  /\ clock < MaxClock
  /\ clock' = clock + 1
  /\ UNCHANGED <<tokens_tokens, generated, call, history>>

-----------------------------------------------------------------------------
CallerStep(c) ==
  \/ BeginNew(c)       \/ ExecNew(c)
  \/ BeginRotate(c)    \/ ExecRotate(c)
  \/ BeginVerify(c)    \/ VerifyLoad(c)    \/ VerifyApply(c)
  \/ BeginResetIdle(c) \/ ExecResetIdle(c)
  \/ BeginCleanup(c)   \/ ExecCleanup(c)
  \/ Fail(c)

Next ==
  \/ \E c \in Caller : CallerStep(c)
  \/ UpdateData \/ Delete \/ DeleteByTypeRef
  \/ Tick

Spec == Init /\ [][Next]_vars

-----------------------------------------------------------------------------
\* The table and the calls in progress have the values that the columns and the
\* methods of type Tokens allow: the NOT NULL columns are not NULL, whatever the
\* callers gave and in whatever order their statements took effect.
TypeOK ==
  /\ tokens_tokens \subseteq Row
  /\ clock \in Nat
  /\ generated \subseteq Token
  /\ call \in [Caller -> Call]
  /\ spent \subseteq Token
  /\ accepted \in [Token -> Nat]
  /\ root \in [Token -> Nullable(Token)]

(***************************************************************************)
(* At most one single-use token exists for a type and a ref_id, however    *)
(* calls of New, Rotate and Verify for it interleave (tokens.go:56-58).    *)
(***************************************************************************)
OneSingleUsePerRef ==
  \A r, s \in tokens_tokens :
    r.single_use /\ s.single_use /\ r.type = s.type /\ r.ref_id = s.ref_id
      => r = s

(***************************************************************************)
(* A single-use token that some Verify consumed is not in the table, so no *)
(* Verify whose SELECT runs later accepts it, even if the consuming call   *)
(* returned an error because of vfn or of a lost answer.                   *)
(***************************************************************************)
SpentIsGone == \A r \in tokens_tokens : r.token \notin spent

(***************************************************************************)
(* All the tokens that Rotate derived from one New share one row: a        *)
(* rotation never leaves the old token usable next to the new one, and two *)
(* concurrent rotations do not fork a session in two.                      *)
(***************************************************************************)
LineageUnique ==
  \A r, s \in tokens_tokens : root[r.token] = root[s.token] => r = s

(***************************************************************************)
(* The table's CHECK constraint chk_idle_multi_use_only is never what      *)
(* stops a statement: no sequence of calls gives a single-use token an     *)
(* idle expiry.                                                            *)
(***************************************************************************)
IdleOnlyMultiUse ==
  \A r \in tokens_tokens : r.single_use => r.idle = Null /\ r.idle_duration = Null

(***************************************************************************)
(* A token not verified for its idle duration is invalid: the idle instant *)
(* is never further away than that duration, however many resets are made  *)
(* and however late their statements run (tokens.go:63-67).                *)
(***************************************************************************)
IdleBounded ==
  \A r \in tokens_tokens :
    IF r.idle_duration = Null
    THEN r.idle = Null
    ELSE r.idle # Null /\ r.idle <= clock + r.idle_duration * Second

(***************************************************************************)
(* A token that left the table (deleted, consumed, replaced, rotated or    *)
(* cleaned up) never comes back, whatever calls were in flight when it     *)
(* left, and as long as it stays its type, kind, reference and absolute    *)
(* expiry are those it was created with.                                   *)
(***************************************************************************)
TokenIsFinal ==
  [][ \A s \in tokens_tokens' :
        root[s.token] # Null =>
          \E r \in tokens_tokens :
            /\ r.token = s.token
            /\ r.type = s.type /\ r.single_use = s.single_use
            /\ r.ref_id = s.ref_id /\ r.expiry = s.expiry ]_vars

(***************************************************************************)
(* Cleanup, which may run long after its now(), never removes a token that *)
(* a Verify called at that moment would accept.                            *)
(***************************************************************************)
CleanupKeepsValid ==
  [][ \A c \in Caller : ExecCleanup(c) =>
        \A r \in tokens_tokens : ValidAt(r, clock) => r \in tokens_tokens' ]_vars

-----------------------------------------------------------------------------
(***************************************************************************)
(* tokens.go:56-57 calls a single-use token "consumed and invalid after    *)
(* first use": Verify returns it at most once.                             *)
(***************************************************************************)
SingleUseOnce == \A t \in Token : accepted[t] <= 1
===============================================================================
