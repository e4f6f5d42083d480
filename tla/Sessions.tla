------------------------------- MODULE Sessions -------------------------------
(***************************************************************************)
(* Package acctmw: HTTP requests that run concurrently through the Session *)
(* middleware and, inside it, one of Login, Logout, Delete, Register or    *)
(* nothing, and then the application's handler; with the accounts_accounts *)
(* and tokens_tokens tables they share and the context session (package    *)
(* acctctx) that each has for itself.                                      *)
(*                                                                         *)
(* A step is one database transaction, or the handler's own code.  Session *)
(* tokens are multi-use, so Tokens.Verify is one step here: its ResetIdle, *)
(* the only thing that could be late, changes nothing but the idle instant *)
(* of a row nobody rotated or deleted meanwhile (Tokens has both steps).   *)
(* Delete's transaction is one step, at its last statement.                *)
(*                                                                         *)
(* A request may present any token that was ever sent in a Set-Cookie,     *)
(* also one that was replaced or cleared since.  A response may be lost.   *)
(***************************************************************************)
EXTENDS TokenTable

CONSTANTS
  Req,            \* request slots: bound on the requests in flight
  Email,
  AcctID,         \* account ids
  NilID,          \* uuid.Nil, the RefID of an anonymous session
  AnonData,       \* JSON document that the application stores for a visitor
  SessionType,    \* a.sessionTokenType()
  anonymousSessionDuration, idleAnonymousSessionDuration,
  shortSessionDuration, longSessionDuration,
  AllowRememberMe,
  InitAccounts,   \* accounts that exist already
  InitTokens,     \* tokens of the application's own types that exist already
  MaxClock        \* bound on the clock

AccountRow == [id : AcctID, email : Email]

ASSUME SessionsAssumption ==
  /\ NilID \notin AcctID
  /\ Ref = AcctID \cup {NilID}
  /\ SessionType \in Type
  \* What the application stores in a session is told apart by whose it is.
  /\ Data = AcctID \cup {AnonData, JsonNull}
  /\ {anonymousSessionDuration, idleAnonymousSessionDuration,
      shortSessionDuration, longSessionDuration} \subseteq Nat \ {0}
  /\ AllowRememberMe \in BOOLEAN
  /\ InitAccounts \subseteq AccountRow
  /\ InitTokens \subseteq Row
  /\ \A r \in InitTokens : r.type # SessionType
  /\ "clear" \notin Token
  /\ MaxClock \in Nat

VARIABLES
  accounts,       \* accounts_accounts
  tokens_tokens,
  clock,
  generated,      \* tokens generated so far
  sent,           \* tokens that reached some client
  req,            \* the requests in flight
  issued,         \* history: the account a token was created for by Login,
                  \* NilID for an anonymous session, else Null
  ended,          \* history: session tokens that Login or Logout ended
  deleted         \* history: ids of deleted accounts

vars == <<accounts, tokens_tokens, clock, generated, sent, req, issued, ended,
          deleted>>
history == <<issued, ended, deleted>>

\* What runs inside Session; "app" is the application's handler alone.
Kind == {"app", "login", "logout", "delete", "register"}

PC == Kind \cup {"free", "verify", "byid", "purge", "drop", "store", "save", "respond"}

\* The value of http.SetCookie that clears the cookie.
Clear == "clear"

Request ==
  [ pc      : PC,
    kind    : Kind,
    email   : Nullable(Email),           \* input of Login and Register
    cookie  : Nullable(Token),           \* __Host-ssn
    ref     : Nullable(Ref),             \* RefID of the token that Verify loaded
    target  : Nullable(AcctID),          \* the account a.login returned
    acct    : Nullable(AcctID),          \* acctctx.Account
    id      : Nullable(Token),           \* acctctx session; Null is ""
    data    : Data,
    dirty   : BOOLEAN,
    written : BOOLEAN,                   \* the response header is out
    reply   : Token \cup {Null, Clear},  \* the cookie the header will carry
    gone    : SUBSET AcctID ]            \* history: deleted when it started

\* WithSession and ResetSession store nil data as JSON null.
sessionDataKeepsNil(data) == data
sessionData(data) == IF data = Null THEN JsonNull ELSE data

NoRequest ==
  [ pc |-> "free", kind |-> "app", email |-> Null, cookie |-> Null, ref |-> Null,
    target |-> Null, acct |-> Null, id |-> Null, data |-> JsonNull,
    dirty |-> FALSE, written |-> FALSE, reply |-> Null, gone |-> {} ]

Init ==
  /\ accounts = InitAccounts
  /\ tokens_tokens = InitTokens
  /\ clock = 0
  /\ generated = { r.token : r \in InitTokens }
  /\ sent = { r.token : r \in InitTokens }
  /\ req = [q \in Req |-> NoRequest]
  /\ issued = [t \in Token |-> Null]
  /\ ended = {}
  /\ deleted = {}

-----------------------------------------------------------------------------
(* The context session and the statements of package accounts. *)

WithSession(r, id, data) == [r EXCEPT !.id = id, !.data = sessionData(data)]

ResetSession(r, id, data) ==
  [r EXCEPT !.id = id, !.data = sessionData(data), !.dirty = FALSE]

\* After the header was written http.SetCookie has no effect.
SetCookie(r, value) == IF r.written THEN r ELSE [r EXCEPT !.reply = value]

\* Mutant: answers for any id that once existed.
ByIDCached(tbl, id) == {[id |-> id]}

ByID(tbl, id) == { a \in tbl : a.id = id }

ByEmail(tbl, email) == { a \in tbl : a.email = email }

\* Mutant: no validation of the token's type.
MustMatchAny(tok) == TRUE

\* tokens.MustMatchType(a.sessionTokenType()).
MustMatchSession(tok) == tok.type = SessionType

SessionArgs(ref, abs, idle, data) ==
  [ Type |-> SessionType, RefID |-> ref, SingleUse |-> FALSE,
    AbsoluteExpiry |-> abs, IdleExpiry |-> idle, Data |-> data ]

Step(q, pc) == req[q].pc = pc

\* Fields that no later step of a request at pc reads are reset.
Forget(r, pc) ==
  CASE pc = "respond" -> [NoRequest EXCEPT !.reply = r.reply]
    [] pc \in {"app", "save"} ->
         [r EXCEPT !.kind = "app", !.email = Null, !.cookie = Null, !.ref = Null,
                   !.target = Null]
    [] pc \in Kind \ {"app"} -> [r EXCEPT !.cookie = Null, !.ref = Null]
    [] OTHER -> r

\* Request q goes on as r, at pc.
Goto(q, r, pc) == req' = [req EXCEPT ![q] = [Forget(r, pc) EXCEPT !.pc = pc]]

\* The same after a write, unless the answer of the database is lost, or a
\* statement after the write fails: then ErrorHandler answers.
Wrote(q, r, pc) == Goto(q, r, pc) \/ Goto(q, req[q], "respond")

-----------------------------------------------------------------------------
(* The Session middleware up to its call of the wrapped handler. *)

Start(q) ==
  /\ Step(q, "free")
  /\ \E k \in Kind, ck \in Nullable(sent), e \in Nullable(Email) :
       /\ (e # Null) <=> (k \in {"login", "register"})
       /\ Goto(q, [NoRequest EXCEPT !.kind = k, !.email = e, !.cookie = ck,
                                    !.gone = deleted],
               IF ck = Null THEN k ELSE "verify")
  /\ UNCHANGED <<accounts, tokens_tokens, clock, generated, sent, history>>

\* An unknown or expired token, or one of another type, is as if not present;
\* the last is consumed or its idle instant reset all the same.
Verify(q) ==
  /\ Step(q, "verify")
  /\ LET r == req[q]
         found == SelectToken(tokens_tokens, r.cookie, clock)
     IN  \/ /\ found = {}
            /\ Goto(q, WithSession(r, Null, Null), r.kind)
            /\ UNCHANGED tokens_tokens
         \/ \E tok \in found :
              /\ tokens_tokens' = VerifyWrite(tokens_tokens, tok, clock)
              /\ \/ /\ ~MustMatchSession(tok)
                    /\ Goto(q, WithSession(r, Null, Null), r.kind)
                 \/ /\ MustMatchSession(tok) /\ tok.ref_id = NilID
                    /\ Goto(q, WithSession(r, tok.token, tok.data), r.kind)
                 \/ /\ MustMatchSession(tok) /\ tok.ref_id # NilID
                    /\ Goto(q, [r EXCEPT !.ref = tok.ref_id, !.data = tok.data], "byid")
  /\ UNCHANGED <<accounts, clock, generated, sent, history>>

LoadAccount(q) ==
  /\ Step(q, "byid")
  /\ LET r == req[q]
     IN  \/ /\ ByID(accounts, r.ref) = {}
            /\ Goto(q, [r EXCEPT !.data = JsonNull], "purge")
         \/ \E a \in ByID(accounts, r.ref) :
              Goto(q, WithSession([r EXCEPT !.acct = a.id], r.cookie, r.data), r.kind)
  /\ UNCHANGED <<accounts, tokens_tokens, clock, generated, sent, history>>

\* The account does not exist: its session tokens are deleted.
Purge(q) ==
  /\ Step(q, "purge")
  /\ tokens_tokens' = DeleteTypeRef(tokens_tokens, SessionType, req[q].ref)
  /\ Goto(q, WithSession(req[q], Null, Null), req[q].kind)
  /\ UNCHANGED <<accounts, clock, generated, sent, history>>

-----------------------------------------------------------------------------
(* Login. *)

\* a.login.  Fail stands for an unknown email or a wrong password.
LoginLookup(q) ==
  /\ Step(q, "login")
  /\ \E a \in ByEmail(accounts, req[q].email) :
       Goto(q, [req[q] EXCEPT !.target = a.id],
            IF req[q].acct # Null /\ req[q].id # Null THEN "drop" ELSE "store")
  /\ UNCHANGED <<accounts, tokens_tokens, clock, generated, sent, history>>

\* Another account was logged in: its session is deleted.
LoginDrop(q) ==
  /\ Step(q, "drop")
  /\ tokens_tokens' = DeleteToken(tokens_tokens, req[q].id)
  /\ ended' = ended \cup {req[q].id}
  /\ Wrote(q, req[q], "store")
  /\ UNCHANGED <<accounts, clock, generated, sent, issued, deleted>>

\* Mutant: the data of the session that was logged in goes with the client.
LoginDataKept(r) == r.data

\* Data of the new session: a visitor's is kept, another account's is not.
LoginData(r) == IF r.acct # Null THEN JsonNull ELSE r.data

LoggedIn(r, tok) ==
  SetCookie([ResetSession(r, tok, LoginData(r)) EXCEPT !.acct = r.target], tok)

\* The expiries that a login may ask for; a remember_me that is not allowed
\* is refused (Fail).
authenticatedSessionDurations ==
  {shortSessionDuration} \cup (IF AllowRememberMe THEN {longSessionDuration} ELSE {})

LoginNew(q) ==
  /\ Step(q, "store")
  /\ req[q].acct # Null \/ req[q].id = Null
  /\ \E f \in Token \ generated, expiry \in authenticatedSessionDurations :
       /\ tokens_tokens' =
            InsertToken(tokens_tokens, f,
                        SessionArgs(req[q].target, expiry, 0, LoginData(req[q])),
                        clock)
       /\ generated' = generated \cup {f}
       /\ issued' = [issued EXCEPT ![f] = req[q].target]
       /\ Goto(q, LoggedIn(req[q], f), "app")
  /\ UNCHANGED <<accounts, clock, sent, ended, deleted>>

LoginRotate(q) ==
  /\ Step(q, "store")
  /\ req[q].acct = Null /\ req[q].id # Null
  /\ \E f \in Token \ generated, expiry \in authenticatedSessionDurations :
       /\ tokens_tokens' =
            RotateToken(tokens_tokens, req[q].id, f,
                        SessionArgs(req[q].target, expiry, 0, LoginData(req[q])),
                        clock)
       /\ generated' = generated \cup {f}
       /\ issued' = [issued EXCEPT ![f] = req[q].target]
       /\ ended' = ended \cup {req[q].id}
       /\ Goto(q, LoggedIn(req[q], f), "app")
  /\ UNCHANGED <<accounts, clock, sent, deleted>>

-----------------------------------------------------------------------------
(* Logout, Delete and Register. *)

\* Without a session of an account: Fail (permission denied).
Logout(q) ==
  /\ Step(q, "logout")
  /\ req[q].id # Null /\ req[q].acct # Null
  /\ tokens_tokens' = DeleteToken(tokens_tokens, req[q].id)
  /\ ended' = ended \cup {req[q].id}
  /\ Wrote(q, SetCookie([ResetSession(req[q], Null, Null) EXCEPT !.acct = Null], Clear),
           "app")
  /\ UNCHANGED <<accounts, clock, generated, sent, issued, deleted>>

\* The account stays in the context for the handlers inside.
Delete(q) ==
  /\ Step(q, "delete")
  /\ req[q].acct # Null
  /\ accounts' = { a \in accounts : a.id # req[q].acct }
  /\ tokens_tokens' = DeleteTypeRef(tokens_tokens, SessionType, req[q].acct)
  /\ deleted' = deleted \cup {req[q].acct}
  /\ Wrote(q, ResetSession(SetCookie(req[q], Clear), Null, Null), "app")
  /\ UNCHANGED <<clock, generated, sent, issued, ended>>

\* gen_random_uuid(): never an id that exists or existed.  The unique index on
\* the email makes accounts.Create fail when the email is taken: Fail.  Create
\* inserts and then loads the account, in no transaction.
Register(q) ==
  /\ Step(q, "register")
  /\ ByEmail(accounts, req[q].email) = {}
  /\ \E a \in AcctID \ (deleted \cup { b.id : b \in accounts }) :
       accounts' = accounts \cup {[id |-> a, email |-> req[q].email]}
  /\ Wrote(q, req[q], "app")
  /\ UNCHANGED <<tokens_tokens, clock, generated, sent, history>>

-----------------------------------------------------------------------------
(* The application's handler, the rest of Session, and the response. *)

\* Whose data the application stores when it calls ReplaceSessionData.
Owner(r) == IF r.acct # Null /\ r.id # Null THEN r.acct ELSE AnonData

App(q) ==
  /\ Step(q, "app")
  /\ \E replace \in BOOLEAN, write \in BOOLEAN :
       LET r == [req[q] EXCEPT !.written = write,
                               !.dirty = replace,
                               !.data = IF replace THEN Owner(req[q]) ELSE @]
       IN  Goto(q, r, IF r.dirty THEN "save" ELSE "respond")
  /\ UNCHANGED <<accounts, tokens_tokens, clock, generated, sent, history>>

\* generateNewAnonymousSession, when the session is not in the database.
SaveNew(q) ==
  /\ Step(q, "save") /\ req[q].id = Null
  /\ \E f \in Token \ generated :
       /\ tokens_tokens' =
            InsertToken(tokens_tokens, f,
                        SessionArgs(NilID, anonymousSessionDuration,
                                    idleAnonymousSessionDuration, req[q].data),
                        clock)
       /\ generated' = generated \cup {f}
       /\ issued' = [issued EXCEPT ![f] = NilID]
       /\ Goto(q, SetCookie(req[q], f), "respond")
  /\ UNCHANGED <<accounts, clock, sent, ended, deleted>>

\* Mutant: the session is written back whole, not just its data.
SaveDataUpsert(tbl, r, now) ==
  DeleteToken(tbl, r.id)
    \cup { NewRow(r.id, SessionArgs(IF r.acct = Null THEN NilID ELSE r.acct,
                                    shortSessionDuration, 0, r.data), now) }

SaveData(tbl, r, now) == SetData(tbl, r.id, r.data)

SaveExisting(q) ==
  /\ Step(q, "save") /\ req[q].id # Null
  /\ tokens_tokens' = SaveData(tokens_tokens, req[q], clock)
  /\ Goto(q, req[q], "respond")
  /\ UNCHANGED <<accounts, clock, generated, sent, history>>

\* A database error, a refused input or a panic: ErrorHandler answers.
Fail(q) ==
  /\ req[q].pc \notin {"free", "respond"}
  /\ Goto(q, req[q], "respond")
  /\ UNCHANGED <<accounts, tokens_tokens, clock, generated, sent, history>>

Respond(q) ==
  /\ Step(q, "respond")
  /\ \E lost \in BOOLEAN :
       sent' = IF lost THEN sent ELSE sent \cup ({req[q].reply} \cap Token)
  /\ req' = [req EXCEPT ![q] = NoRequest]
  /\ UNCHANGED <<accounts, tokens_tokens, clock, generated, history>>

Tick ==
  /\ clock < MaxClock
  /\ clock' = clock + 1
  /\ UNCHANGED <<accounts, tokens_tokens, generated, sent, req, history>>

Next ==
  \/ \E q \in Req :
       \/ Start(q)       \/ Verify(q)    \/ LoadAccount(q) \/ Purge(q)
       \/ LoginLookup(q) \/ LoginDrop(q) \/ LoginNew(q)    \/ LoginRotate(q)
       \/ Logout(q)      \/ Delete(q)    \/ Register(q)
       \/ App(q)         \/ SaveNew(q)   \/ SaveExisting(q)
       \/ Fail(q)        \/ Respond(q)
  \/ Tick

Spec == Init /\ [][Next]_vars

-----------------------------------------------------------------------------
\* The tables and the context of every request have the values that the code can
\* give them; the data of a context session is always a JSON document.
TypeOK ==
  /\ accounts \subseteq AccountRow
  /\ tokens_tokens \subseteq Row
  /\ clock \in Nat
  /\ generated \subseteq Token
  /\ sent \subseteq Token
  /\ req \in [Req -> Request]
  /\ issued \in [Token -> Nullable(Ref)]
  /\ ended \subseteq Token
  /\ deleted \subseteq AcctID

(***************************************************************************)
(* The account that the context of a request holds next to a session id is *)
(* the one whose login created that session id.  In particular a token     *)
(* that was sent to a visitor before the login never becomes a logged-in   *)
(* session, nor does a token of another type.                              *)
(***************************************************************************)
SessionIdentity ==
  \A q \in Req : req[q].acct # Null /\ req[q].id # Null =>
                  issued[req[q].id] = req[q].acct

(***************************************************************************)
(* A session that was logged out, or replaced by a login, stays so: no     *)
(* request that was in flight meanwhile, and that saves its data later,    *)
(* brings its token back.                                                  *)
(***************************************************************************)
EndedIsGone == \A r \in tokens_tokens : r.token \notin ended

(***************************************************************************)
(* A request that started after an account was deleted never runs as that  *)
(* account, also when a login for it was in flight while it was deleted    *)
(* and left a session token behind.                                        *)
(***************************************************************************)
DeletedStaysOut == \A q \in Req : req[q].acct \notin req[q].gone

(***************************************************************************)
(* What the application stored in an account's session is only ever in     *)
(* sessions of that account: not in the next account's on the same client, *)
(* nor in the anonymous session after a logout or a delete.                *)
(***************************************************************************)
SessionDataOwned ==
  /\ \A r \in tokens_tokens :
       r.type = SessionType => r.data \in {JsonNull, AnonData, r.ref_id}
  /\ \A q \in Req : req[q].pc \in Kind =>
       req[q].data \in {JsonNull, AnonData} \cup {req[q].acct}

-----------------------------------------------------------------------------
SessionRow(t) == CHOOSE r \in tokens_tokens : r.token = t /\ r.type = SessionType

\* The sessions that the table stores: whose each is, and its data.
Stored ==
  [ t \in {r.token : r \in {s \in tokens_tokens : s.type = SessionType}} |->
      [owner |-> SessionRow(t).ref_id, data |-> SessionRow(t).data] ]

Store ==
  INSTANCE SessionStore WITH
    Principal <- Ref, Visitor <- NilID, Document <- Data,
    stored <- Stored, used <- generated

(***************************************************************************)
(* To an observer of the table the requests, interleaved and lost as they  *)
(* may be, are a store of sessions: every step of Session, Login, Logout,  *)
(* Delete and Register is one of SessionStore, or does not show.           *)
(***************************************************************************)
ImplementsStore == Store!Spec

-----------------------------------------------------------------------------
(***************************************************************************)
(* login.go:61-62: "if there was a saved anonymous session [...], rotate   *)
(* it to the authenticated one": the session id that Login puts in the     *)
(* context and in the cookie is the token of a stored session.             *)
(***************************************************************************)
LoginIsStored ==
  [][ \A q \in Req : LoginRotate(q) =>
        \E r \in tokens_tokens' : r.token = req'[q].id ]_vars
===============================================================================
