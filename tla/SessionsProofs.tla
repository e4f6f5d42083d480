---------------------------- MODULE SessionsProofs -----------------------------
(***************************************************************************)
(* Proofs about Sessions for any number of requests, accounts and tokens,  *)
(* and an unbounded run of the clock.                                      *)
(***************************************************************************)
EXTENDS Sessions, TokenTableProofs

-----------------------------------------------------------------------------
(* The inductive invariant.  The predicates on a row and on a request take *)
(* the history they depend on as arguments: gen, iss and del stand for     *)
(* generated, issued and deleted.                                          *)

\* A token that a history variable knows was generated, and no deleted account
\* is in the table.
Recorded ==
  /\ \A t \in Token : issued[t] # Null => t \in generated
  /\ sent \subseteq generated
  /\ ended \subseteq generated
  /\ \A a \in accounts : a.id \notin deleted

\* A row of a session is for the account that the token was issued for, and has
\* data of that account or of a visitor; no other row has a token of a session.
RowOK(r, gen, iss) ==
  /\ r.token \in gen
  /\ r.type = SessionType =>
       /\ ~r.single_use
       /\ iss[r.token] = r.ref_id
       /\ r.data \in {JsonNull, AnonData, r.ref_id}
  /\ r.type # SessionType => iss[r.token] = Null

Rows == \A r \in tokens_tokens : RowOK(r, generated, issued)

\* A session has one row.
OneRow ==
  \A r, s \in tokens_tokens :
    r.type = SessionType /\ s.type = SessionType /\ r.token = s.token => r = s

\* The session id of a request was issued for its account, or for a visitor.
Identified(r, gen, iss) ==
  r.id # Null =>
    r.id \in gen /\ iss[r.id] = (IF r.acct = Null THEN NilID ELSE r.acct)

\* Neither the account of a request nor the one it logs in was deleted when it
\* started.
Live(r, del) == r.gone \subseteq del /\ r.acct \notin r.gone /\ r.target \notin r.gone

\* What a request holds before, and in, the handler that Session wraps.
Loading(r, gen, iss) ==
  /\ r.pc \in {"verify", "byid", "purge"} =>
       /\ r.acct = Null /\ r.id = Null /\ r.cookie \in gen
       /\ r.kind \in {"login", "register"} => r.email # Null
  /\ r.pc \in {"verify", "purge"} => r.data = JsonNull
  /\ r.pc \in {"byid", "purge"} => r.ref \in AcctID
  /\ r.pc = "byid" => iss[r.cookie] = r.ref /\ r.data \in {JsonNull, AnonData, r.ref}

Handling(r) ==
  /\ r.pc \in {"login", "register"} => r.email # Null
  /\ r.pc \in {"drop", "store"} => r.target # Null
  /\ r.pc = "drop" => r.id # Null /\ r.acct # Null
  /\ r.pc \in Kind \cup {"drop", "store"} => r.data \in {JsonNull, AnonData, r.acct}
  /\ r.pc = "save" => r.data = Owner(r)

RequestOK(r, gen, iss, del) ==
  /\ Identified(r, gen, iss)
  /\ r.reply \in gen \cup {Null, Clear}
  /\ Live(r, del)
  /\ Loading(r, gen, iss)
  /\ Handling(r)

Requests == \A q \in Req : RequestOK(req[q], generated, issued, deleted)

IInv == TypeOK /\ Recorded /\ Rows /\ OneRow /\ EndedIsGone /\ Requests

-----------------------------------------------------------------------------
(* The records of the requests. *)

\* An idle slot holds nothing.
LEMMA NoRequestFields ==
  /\ NoRequest \in Request
  /\ NoRequest.pc = "free" /\ NoRequest.kind = "app" /\ NoRequest.acct = Null
  /\ NoRequest.id = Null /\ NoRequest.target = Null /\ NoRequest.cookie = Null
  /\ NoRequest.reply = Null /\ NoRequest.gone = {} /\ NoRequest.data = JsonNull
  <1>1. NoRequest \in Request
    BY TableAssumption DEF NoRequest, Request, PC, Kind, Nullable
  <1> QED
    BY <1>1 DEF NoRequest

\* The fields that the context session does not touch.
SameInput(r, s) ==
  /\ s.kind = r.kind /\ s.email = r.email /\ s.cookie = r.cookie /\ s.ref = r.ref
  /\ s.target = r.target /\ s.gone = r.gone

\* acctctx.WithSession.
LEMMA WithSessionFields ==
  ASSUME NEW r \in Request, NEW id \in Nullable(Token), NEW d \in Nullable(Data)
  PROVE  LET s == WithSession(r, id, d)
         IN  /\ s \in Request /\ SameInput(r, s)
             /\ s.id = id /\ s.acct = r.acct /\ s.reply = r.reply
             /\ s.data = IF d = Null THEN JsonNull ELSE d
  <1>1. sessionData(d) \in Data
    BY TableAssumption DEF sessionData, Nullable
  <1>2. WithSession(r, id, d) \in Request
    BY <1>1 DEF WithSession, Request
  <1> QED
    BY <1>2 DEF WithSession, Request, SameInput, sessionData

\* acctctx.ResetSession.
LEMMA ResetSessionFields ==
  ASSUME NEW r \in Request, NEW id \in Nullable(Token), NEW d \in Nullable(Data)
  PROVE  LET s == ResetSession(r, id, d)
         IN  /\ s \in Request /\ SameInput(r, s)
             /\ s.id = id /\ s.acct = r.acct /\ s.reply = r.reply
             /\ s.data = IF d = Null THEN JsonNull ELSE d
  <1>1. sessionData(d) \in Data
    BY TableAssumption DEF sessionData, Nullable
  <1>2. ResetSession(r, id, d) \in Request
    BY <1>1 DEF ResetSession, Request
  <1> QED
    BY <1>2 DEF ResetSession, Request, SameInput, sessionData

\* http.SetCookie changes nothing but the cookie of the answer.
LEMMA SetCookieFields ==
  ASSUME NEW r \in Request, NEW v \in Token \cup {Null, Clear}
  PROVE  LET s == SetCookie(r, v)
         IN  /\ s \in Request /\ SameInput(r, s)
             /\ s.id = r.id /\ s.acct = r.acct /\ s.data = r.data
             /\ s.reply \in {r.reply, v}
  BY DEF SetCookie, Request, SameInput

\* A request that goes on as r, at pc.
At(r, pc) == [Forget(r, pc) EXCEPT !.pc = pc]

\* What it holds then.
LEMMA AtFields ==
  ASSUME NEW r \in Request, NEW pc \in PC
  PROVE  LET n == At(r, pc)
         IN  /\ n \in Request /\ n.pc = pc /\ n.reply = r.reply
             /\ pc = "respond" => n.acct = Null /\ n.id = Null /\ n.target = Null /\ n.gone = {}
             /\ pc # "respond" =>
                  /\ n.acct = r.acct /\ n.id = r.id /\ n.data = r.data /\ n.gone = r.gone
                  /\ n.target \in {r.target, Null}
             /\ pc \in Kind \ {"app"} => n.email = r.email
             /\ pc \notin Kind \cup {"respond", "save"} => n = [r EXCEPT !.pc = pc]
  <1> USE NoRequestFields
  <1> DEFINE n == At(r, pc)
  <1>1. CASE pc = "respond"
    BY <1>1 DEF At, Forget, Request, Kind
  <1>2. CASE pc \in {"app", "save"}
    BY <1>2, TableAssumption DEF At, Forget, Request, Kind, Nullable
  <1>3. CASE pc \in Kind \ {"app"}
    BY <1>3, TableAssumption DEF At, Forget, Request, Kind, Nullable
  <1>4. CASE pc \notin Kind \cup {"respond", "save"}
    BY <1>4 DEF At, Forget, Request, Kind
  <1> QED
    BY <1>1, <1>2, <1>3, <1>4 DEF Kind

-----------------------------------------------------------------------------
(* The requests, at each step. *)

\* Null is no account and no token.
LEMMA NullIsNone == Null \notin AcctID /\ Null \notin Token /\ Null \notin Data /\ NilID # Null
  BY TableAssumption, SessionsAssumption

\* What holds of a request holds when others have generated tokens and deleted
\* accounts meanwhile.
LEMMA RequestLater ==
  ASSUME NEW r \in Request, NEW gen, NEW iss, NEW del, NEW gen2, NEW iss2, NEW del2,
         RequestOK(r, gen, iss, del),
         gen \subseteq gen2, del \subseteq del2, \A t \in gen : iss2[t] = iss[t]
  PROVE  RequestOK(r, gen2, iss2, del2)
  BY DEF RequestOK, Identified, Live, Loading

\* A request that is about to answer holds nothing but the cookie it sets.
LEMMA RespondOK ==
  ASSUME NEW r \in Request, NEW gen, NEW iss, NEW del, r.reply \in gen \cup {Null, Clear}
  PROVE  RequestOK(At(r, "respond"), gen, iss, del)
  <1>1. "respond" \in PC /\ "respond" \notin Kind
    BY DEF PC, Kind
  <1>2. LET n == At(r, "respond")
        IN  /\ n.pc = "respond" /\ n.reply = r.reply
            /\ n.acct = Null /\ n.id = Null /\ n.target = Null /\ n.gone = {}
    BY <1>1, AtFields
  <1> QED
    BY <1>1, <1>2 DEF RequestOK, Identified, Live, Loading, Handling

\* A request that Session hands to the handler it wraps, or that goes on to
\* the application's.
LEMMA HandlerOK ==
  ASSUME NEW r \in Request, NEW k \in Kind, NEW gen, NEW iss, NEW del,
         Identified(r, gen, iss), r.reply \in gen \cup {Null, Clear}, Live(r, del),
         k \in {"login", "register"} => r.email # Null,
         r.data \in {JsonNull, AnonData, r.acct}
  PROVE  RequestOK(At(r, k), gen, iss, del)
  <1> DEFINE n == At(r, k)
  <1>1. k \in PC /\ k \notin {"respond", "verify", "byid", "purge", "drop", "store", "save"}
    BY DEF PC, Kind
  <1>2. /\ n.pc = k /\ n.reply = r.reply
        /\ n.acct = r.acct /\ n.id = r.id /\ n.data = r.data /\ n.gone = r.gone
        /\ n.target \in {r.target, Null}
        /\ k # "app" => n.email = r.email
    BY <1>1, AtFields
  <1>3. Null \notin r.gone
    BY NullIsNone DEF Request
  <1> HIDE DEF n
  <1> QED
    BY <1>1, <1>2, <1>3 DEF RequestOK, Identified, Live, Loading, Handling, n

\* Request q goes on, and the others are where they were.
LEMMA GotoStep ==
  ASSUME IInv, NEW q \in Req, NEW r \in Request, NEW pc \in PC, Goto(q, r, pc),
         generated \subseteq generated', deleted \subseteq deleted',
         \A t \in generated : issued'[t] = issued[t],
         RequestOK(At(r, pc), generated', issued', deleted')
  PROVE  req' \in [Req -> Request] /\ Requests'
  <1>1. At(r, pc) \in Request
    BY AtFields
  <1>2. req' = [req EXCEPT ![q] = At(r, pc)]
    BY DEF Goto, At
  <1>3. req' \in [Req -> Request]
    BY <1>1, <1>2 DEF IInv, TypeOK
  <1>4. ASSUME NEW p \in Req PROVE RequestOK(req'[p], generated', issued', deleted')
    <2>1. CASE p = q
      BY <1>2, <2>1 DEF IInv, TypeOK
    <2>2. CASE p # q
      <3>1. req'[p] = req[p] /\ req[p] \in Request
        BY <1>2, <2>2 DEF IInv, TypeOK
      <3>2. RequestOK(req[p], generated, issued, deleted)
        BY DEF IInv, Requests
      <3> QED
        BY <3>1, <3>2, RequestLater
    <2> QED
      BY <2>1, <2>2
  <1> QED
    BY <1>3, <1>4 DEF Requests

\* The same after a write, when the answer of the database may be lost.
LEMMA WroteStep ==
  ASSUME IInv, NEW q \in Req, NEW r \in Request, NEW pc \in PC, Wrote(q, r, pc),
         generated \subseteq generated', deleted \subseteq deleted',
         \A t \in generated : issued'[t] = issued[t],
         RequestOK(At(r, pc), generated', issued', deleted')
  PROVE  req' \in [Req -> Request] /\ Requests'
  <1>1. req[q] \in Request /\ "respond" \in PC
    BY DEF IInv, TypeOK, PC
  <1>2. RequestOK(At(req[q], "respond"), generated', issued', deleted')
    <2>1. req[q].reply \in generated' \cup {Null, Clear}
      BY DEF IInv, Requests, RequestOK
    <2> QED
      BY <1>1, <2>1, RespondOK
  <1>3. CASE Goto(q, req[q], "respond")
    BY <1>1, <1>2, <1>3, GotoStep
  <1>4. CASE Goto(q, r, pc)
    BY <1>4, GotoStep
  <1> QED
    BY <1>3, <1>4 DEF Wrote

-----------------------------------------------------------------------------
(* The table, under each statement.  end stands for ended. *)

StoreOK(tbl, gen, iss, end) ==
  /\ tbl \subseteq Row
  /\ \A r \in tbl : RowOK(r, gen, iss) /\ r.token \notin end
  /\ \A r, s \in tbl :
       r.type = SessionType /\ s.type = SessionType /\ r.token = s.token => r = s

\* Tokens.Delete and Tokens.DeleteByTypeRef.
LEMMA FewerRows ==
  ASSUME NEW tbl, NEW gen, NEW iss, NEW end, NEW tbl2, NEW end2,
         StoreOK(tbl, gen, iss, end), tbl2 \subseteq tbl,
         \A r \in tbl2 : r.token \notin end2
  PROVE  StoreOK(tbl2, gen, iss, end2)
  BY DEF StoreOK

\* The arguments that Session and Login give to New and Rotate.
LEMMA SessionArgsFields ==
  ASSUME NEW ref \in Ref, NEW abs \in Nat, NEW idle \in Nat, NEW d \in Data
  PROVE  LET args == SessionArgs(ref, abs, idle, d)
         IN  /\ args \in TokenArgs /\ ~args.SingleUse
             /\ args.Type = SessionType /\ args.RefID = ref /\ args.Data = d
  BY SessionsAssumption DEF SessionArgs, TokenArgs, Nullable

\* Tokens.New stores one more session.
LEMMA InsertOK ==
  ASSUME NEW tbl, NEW gen \in SUBSET Token, NEW iss \in [Token -> Nullable(Ref)],
         NEW end \in SUBSET gen, StoreOK(tbl, gen, iss, end),
         NEW f \in Token \ gen, NEW ref \in Ref, NEW abs \in Nat, NEW idle \in Nat,
         NEW d \in {JsonNull, AnonData}, NEW now \in Nat
  PROVE  StoreOK(InsertToken(tbl, f, SessionArgs(ref, abs, idle, d), now),
                 gen \cup {f}, [iss EXCEPT ![f] = ref], end)
  <1> DEFINE args == SessionArgs(ref, abs, idle, d)
             new == NewRow(f, args, now)
  <1>0. d \in Data
    BY SessionsAssumption
  <1>1. /\ args \in TokenArgs /\ ~args.SingleUse
        /\ args.Type = SessionType /\ args.RefID = ref /\ args.Data = d
    BY <1>0, SessionArgsFields
  <1> HIDE DEF args
  <1>2. Conflicts(tbl, args) = {}
    BY <1>1 DEF Conflicts
  <1>3. InsertToken(tbl, f, args, now) = tbl \cup {new}
    BY <1>2, Zenon DEF InsertToken
  <1>4. new \in Row
    BY <1>1, NewRowType
  <1>5. /\ new.token = f /\ new.type = SessionType /\ ~new.single_use
        /\ new.ref_id = ref /\ new.data = d
    BY <1>0, <1>1, NullIsNone DEF NewRow, NewData
  <1> HIDE DEF new
  <1>6. RowOK(new, gen \cup {f}, [iss EXCEPT ![f] = ref]) /\ new.token \notin end
    BY <1>5 DEF RowOK
  <1>7. \A r \in tbl : /\ RowOK(r, gen \cup {f}, [iss EXCEPT ![f] = ref])
                       /\ r.token \notin end /\ r.token # f
    BY DEF StoreOK, RowOK
  <1>8. StoreOK(tbl \cup {new}, gen \cup {f}, [iss EXCEPT ![f] = ref], end)
    BY <1>4, <1>5, <1>6, <1>7 DEF StoreOK
  <1> QED
    BY <1>3, <1>8 DEF args

\* Tokens.Rotate moves the row of a session, if it is still there, to its new
\* token.
LEMMA RotateOK ==
  ASSUME NEW tbl, NEW gen \in SUBSET Token, NEW iss \in [Token -> Nullable(Ref)],
         NEW end \in SUBSET gen, StoreOK(tbl, gen, iss, end),
         NEW old \in gen, iss[old] # Null,
         NEW f \in Token \ gen, NEW ref \in Ref, NEW abs \in Nat, NEW idle \in Nat,
         NEW d \in {JsonNull, AnonData}, NEW now \in Nat
  PROVE  StoreOK(RotateToken(tbl, old, f, SessionArgs(ref, abs, idle, d), now),
                 gen \cup {f}, [iss EXCEPT ![f] = ref], end \cup {old})
  <1> DEFINE args == SessionArgs(ref, abs, idle, d)
             iss2 == [iss EXCEPT ![f] = ref]
             tbl2 == RotateToken(tbl, old, f, args, now)
  <1>0. d \in Data
    BY SessionsAssumption
  <1>1. args \in TokenArgs /\ args.RefID = ref /\ args.Data = d
    BY <1>0, SessionArgsFields
  <1> HIDE DEF args
  <1>2. \A r \in tbl : r.token = old => r.type = SessionType /\ ~r.single_use
    BY DEF StoreOK, RowOK
  <1>3. \A s \in tbl2 : \/ s \in tbl /\ s.token # old
                       \/ \E r \in tbl : r.token = old /\ s = RotatedRow(r, f, args, now)
    BY <1>2 DEF RotateToken
  <1>4. ASSUME NEW r \in tbl, r.token = old
        PROVE  LET s == RotatedRow(r, f, args, now)
               IN  /\ s \in Row /\ s.token = f /\ s.type = SessionType /\ ~s.single_use
                   /\ s.ref_id = ref /\ s.data = d
    <2>1. r \in Row
      BY DEF StoreOK
    <2>2. RotatedRow(r, f, args, now) \in Row
      BY <1>1, <2>1, RotatedRowType
    <2> QED
      BY <1>0, <1>1, <1>2, <1>4, <2>1, <2>2, NullIsNone DEF RotatedRow, Row
  <1>5. \A s \in tbl : s.token # f /\ RowOK(s, gen \cup {f}, iss2) /\ s.token \notin end
    BY DEF StoreOK, RowOK
  <1>6. \A r, s \in tbl : r.token = old /\ s.token = old => r = s
    BY <1>2 DEF StoreOK
  <1>7. ASSUME NEW s \in tbl2
        PROVE  s \in Row /\ RowOK(s, gen \cup {f}, iss2) /\ s.token \notin end \cup {old}
    <2>1. CASE s \in tbl /\ s.token # old
      BY <1>5, <2>1 DEF StoreOK
    <2>2. ASSUME NEW r \in tbl, r.token = old, s = RotatedRow(r, f, args, now)
          PROVE  s \in Row /\ RowOK(s, gen \cup {f}, iss2) /\ s.token \notin end \cup {old}
      <3>1. /\ s \in Row /\ s.token = f /\ s.type = SessionType /\ ~s.single_use
            /\ s.ref_id = ref /\ s.data = d
        BY <1>4, <2>2
      <3> QED
        BY <3>1 DEF RowOK
    <2> QED
      BY <1>3, <2>1, <2>2
  <1>8. ASSUME NEW s \in tbl2, NEW u \in tbl2,
               s.type = SessionType, u.type = SessionType, s.token = u.token
        PROVE  s = u
    <2>1. (s \in tbl /\ s.token # old) \/ s.token = f
      BY <1>3, <1>4
    <2>2. (u \in tbl /\ u.token # old) \/ u.token = f
      BY <1>3, <1>4
    <2>3. CASE s \in tbl /\ u \in tbl
      BY <1>8, <2>3 DEF StoreOK
    <2>4. CASE s \notin tbl /\ u \notin tbl
      BY <1>3, <1>6, <2>4
    <2> QED
      BY <1>5, <1>8, <2>1, <2>2, <2>3, <2>4
  <1> HIDE DEF tbl2, iss2
  <1> QED
    BY <1>7, <1>8 DEF StoreOK, tbl2, iss2, args

\* Tokens.UpdateData, with data that may be in the session.
LEMMA SetDataOK ==
  ASSUME NEW tbl, NEW gen \in SUBSET Token, NEW iss, NEW end, StoreOK(tbl, gen, iss, end),
         NEW tok \in gen, NEW d \in Data,
         \A r \in tbl : r.token = tok /\ r.type = SessionType =>
                        d \in {JsonNull, AnonData, r.ref_id}
  PROVE  StoreOK(SetData(tbl, tok, d), gen, iss, end)
  <1>1. ASSUME NEW r \in tbl
        PROVE  LET s == WithData(r, d)
               IN  /\ s \in Row /\ s.token = r.token /\ s.type = r.type
                   /\ s.single_use = r.single_use /\ s.ref_id = r.ref_id /\ s.data = d
    BY DEF StoreOK, WithData, Row
  <1>2. \A s \in SetData(tbl, tok, d) :
          \E r \in tbl : s = IF r.token = tok THEN WithData(r, d) ELSE r
    BY DEF SetData
  <1>3. ASSUME NEW r \in tbl, r.token = tok
        PROVE  RowOK(WithData(r, d), gen, iss)
    BY <1>1, <1>3 DEF StoreOK, RowOK
  <1>4. \A s \in SetData(tbl, tok, d) : s \in Row /\ RowOK(s, gen, iss) /\ s.token \notin end
    BY <1>1, <1>2, <1>3 DEF StoreOK
  <1>5. ASSUME NEW s \in SetData(tbl, tok, d), NEW u \in SetData(tbl, tok, d),
               s.type = SessionType, u.type = SessionType, s.token = u.token
        PROVE  s = u
    <2>1. PICK r \in tbl : s = IF r.token = tok THEN WithData(r, d) ELSE r
      BY <1>2
    <2>2. PICK v \in tbl : u = IF v.token = tok THEN WithData(v, d) ELSE v
      BY <1>2
    <2>3. r = v
      BY <1>1, <1>5, <2>1, <2>2 DEF StoreOK
    <2> QED
      BY <2>1, <2>2, <2>3
  <1> QED
    BY <1>4, <1>5 DEF StoreOK

\* Tokens.Verify consumes a row of the application, or resets the idle instant.
LEMMA VerifyOK ==
  ASSUME NEW tbl, NEW gen \in SUBSET Token, NEW iss, NEW end, StoreOK(tbl, gen, iss, end),
         NEW tok \in tbl, NEW now \in Nat
  PROVE  StoreOK(VerifyWrite(tbl, tok, now), gen, iss, end)
  <1> DEFINE tbl2 == ResetIdleToken(tbl, tok.token, now)
  <1>0. tok.token \in Token /\ tbl \in SUBSET Row
    BY DEF StoreOK, Row
  <1>1. StoreOK(DeleteToken(tbl, tok.token), gen, iss, end)
    <2>1. DeleteToken(tbl, tok.token) \subseteq tbl
      BY DEF DeleteToken
    <2> QED
      BY <2>1 DEF StoreOK
  <1>2. StoreOK(tbl2, gen, iss, end)
    <2>1. ASSUME NEW r \in tbl
          PROVE  LET s == IdleReset(r, now)
                 IN  /\ s.token = r.token /\ s.type = r.type /\ s.data = r.data
                     /\ s.single_use = r.single_use /\ s.ref_id = r.ref_id
      BY DEF StoreOK, IdleReset, Row
    <2>2. \A s \in tbl2 : \E r \in tbl :
            s = IF r.token = tok.token /\ ~r.single_use THEN IdleReset(r, now) ELSE r
      BY DEF ResetIdleToken
    <2>3. tbl2 \subseteq Row
      BY <1>0, StatementType
    <2>4. \A s \in tbl2 : RowOK(s, gen, iss) /\ s.token \notin end
      BY <2>1, <2>2 DEF StoreOK, RowOK
    <2>5. ASSUME NEW s \in tbl2, NEW u \in tbl2,
                 s.type = SessionType, u.type = SessionType, s.token = u.token
          PROVE  s = u
      <3>1. PICK r \in tbl :
              s = IF r.token = tok.token /\ ~r.single_use THEN IdleReset(r, now) ELSE r
        BY <2>2
      <3>2. PICK v \in tbl :
              u = IF v.token = tok.token /\ ~v.single_use THEN IdleReset(v, now) ELSE v
        BY <2>2
      <3>3. r = v
        BY <2>1, <2>5, <3>1, <3>2 DEF StoreOK
      <3> QED
        BY <3>1, <3>2, <3>3
    <2> HIDE DEF tbl2
    <2> QED
      BY <2>3, <2>4, <2>5 DEF StoreOK
  <1> QED
    BY <1>1, <1>2, Zenon DEF VerifyWrite

-----------------------------------------------------------------------------
(* The steps. *)

\* The tables but for the tokens, and the history.
Others ==
  /\ accounts \subseteq AccountRow
  /\ clock \in Nat
  /\ generated \subseteq Token
  /\ sent \subseteq Token
  /\ issued \in [Token -> Nullable(Ref)]
  /\ ended \subseteq Token
  /\ deleted \subseteq AcctID
  /\ Recorded

StoreSound == StoreOK(tokens_tokens, generated, issued, ended)

RequestsSound == req \in [Req -> Request] /\ Requests

\* The three parts of the invariant.
LEMMA IInvParts == IInv <=> Others /\ StoreSound /\ RequestsSound
  BY DEF IInv, TypeOK, Others, StoreSound, RequestsSound, StoreOK, Rows, OneRow, EndedIsGone

\* The same of the next state.
LEMMA IInvPartsNext == Others' /\ StoreSound' /\ RequestsSound' => IInv'
  BY IInvParts, PTL

\* A request at any step is one the invariant knows.
LEMMA RequestHere ==
  ASSUME IInv, NEW q \in Req
  PROVE  /\ req[q] \in Request /\ RequestOK(req[q], generated, issued, deleted)
         /\ req[q].acct \in Nullable(AcctID) /\ req[q].id \in Nullable(Token)
         /\ req[q].target \in Nullable(AcctID) /\ req[q].data \in Data
         /\ req[q].cookie \in Nullable(Token) /\ req[q].kind \in Kind
  BY DEF IInv, TypeOK, Requests, Request

\* A step that stores no account and generates no token, and after which the
\* token table is as it should be.
LEMMA QuietStep ==
  ASSUME IInv, UNCHANGED <<accounts, clock, generated, sent, issued, deleted>>,
         ended' \subseteq generated,
         StoreOK(tokens_tokens', generated, issued, ended'),
         RequestsSound'
  PROVE  IInv'
  <1>1. Others'
    BY IInvParts DEF Others, Recorded
  <1>2. StoreSound'
    BY DEF StoreSound
  <1> QED
    BY <1>1, <1>2, IInvPartsNext

\* A step of request q that changes the tokens at most.
LEMMA GotoQuiet ==
  ASSUME IInv, NEW q \in Req, NEW r \in Request, NEW pc \in PC, Wrote(q, r, pc),
         UNCHANGED <<accounts, clock, generated, sent, issued, deleted>>,
         ended' \subseteq generated,
         StoreOK(tokens_tokens', generated, issued, ended'),
         RequestOK(At(r, pc), generated, issued, deleted)
  PROVE  IInv'
  <1>1. RequestsSound'
    BY WroteStep DEF RequestsSound
  <1> QED
    BY <1>1, QuietStep

\* A request arrives.
LEMMA StartStep == ASSUME IInv, NEW q \in Req, Start(q) PROVE IInv'
  <1>1. PICK k \in Kind, ck \in Nullable(sent), e \in Nullable(Email) :
          /\ (e # Null) <=> (k \in {"login", "register"})
          /\ Goto(q, [NoRequest EXCEPT !.kind = k, !.email = e, !.cookie = ck,
                                       !.gone = deleted],
                  IF ck = Null THEN k ELSE "verify")
    BY DEF Start
  <1> DEFINE r == [NoRequest EXCEPT !.kind = k, !.email = e, !.cookie = ck, !.gone = deleted]
             pc == IF ck = Null THEN k ELSE "verify"
  <1>2. UNCHANGED <<accounts, tokens_tokens, clock, generated, sent, issued, ended, deleted>>
    BY DEF Start, history
  <1>3. /\ deleted \subseteq AcctID /\ ck \in Nullable(generated) /\ ck \in Nullable(Token)
        /\ ended \subseteq generated /\ StoreOK(tokens_tokens, generated, issued, ended)
    BY IInvParts DEF Others, StoreSound, Recorded, Nullable
  <1>4. /\ r \in Request /\ r.kind = k /\ r.email = e /\ r.cookie = ck /\ r.gone = deleted
        /\ r.acct = Null /\ r.id = Null /\ r.target = Null /\ r.reply = Null
        /\ r.data = JsonNull
    BY <1>3, NoRequestFields DEF Request
  <1>5. pc \in PC
    BY DEF PC
  <1>6. Live(r, deleted) /\ Identified(r, generated, issued)
    BY <1>3, <1>4, NullIsNone DEF Live, Identified
  <1> HIDE DEF r
  <1>7. RequestOK(At(r, pc), generated, issued, deleted)
    <2>1. CASE ck = Null
      BY <1>1, <1>4, <1>6, <2>1, HandlerOK
    <2>2. CASE ck # Null
      <3>1. At(r, "verify") = [r EXCEPT !.pc = "verify"] /\ "verify" \notin Kind
        BY <1>4, AtFields DEF PC, Kind
      <3>2. LET n == [r EXCEPT !.pc = "verify"]
            IN  /\ n.pc = "verify" /\ n.kind = k /\ n.email = e /\ n.cookie = ck
                /\ n.gone = deleted /\ n.acct = Null /\ n.id = Null /\ n.target = Null
                /\ n.reply = Null /\ n.data = JsonNull
        BY <1>4 DEF Request
      <3>3. ck \in generated
        BY <1>3, <2>2 DEF Nullable
      <3> HIDE <1>4
      <3> QED
        BY <1>1, <1>3, <2>2, <3>1, <3>2, <3>3, NullIsNone
        DEF RequestOK, Identified, Live, Loading, Handling
    <2> QED
      BY <2>1, <2>2
  <1>8. Wrote(q, r, pc)
    BY <1>1 DEF Wrote, r
  <1> QED
    BY <1>2, <1>3, <1>4, <1>5, <1>7, <1>8, GotoQuiet

\* Session looks its cookie up.
LEMMA VerifyStep == ASSUME IInv, NEW q \in Req, Verify(q) PROVE IInv'
  <1> DEFINE r == req[q]
             none == WithSession(r, Null, Null)
  <1>0. UNCHANGED <<accounts, clock, generated, sent, issued, ended, deleted>>
    BY DEF Verify, history
  <1>1. r \in Request /\ RequestOK(r, generated, issued, deleted) /\ r.kind \in Kind /\ r.kind \in PC
    BY RequestHere DEF PC
  <1>2. /\ r.pc = "verify" /\ r.acct = Null /\ r.id = Null /\ r.cookie \in generated
        /\ r.kind \in {"login", "register"} => r.email # Null
    BY <1>1 DEF Verify, Step, RequestOK, Loading
  <1>3. /\ ended \subseteq generated /\ generated \subseteq Token /\ clock \in Nat
        /\ StoreOK(tokens_tokens, generated, issued, ended)
    BY IInvParts DEF Others, StoreSound, Recorded
  <1>4. /\ none \in Request /\ none.id = Null /\ none.acct = Null /\ none.data = JsonNull
        /\ none.reply = r.reply /\ SameInput(r, none)
    BY <1>1, <1>2, WithSessionFields DEF Nullable
  <1>5. RequestOK(At(none, r.kind), generated, issued, deleted)
    <2>1. Identified(none, generated, issued) /\ Live(none, deleted)
      BY <1>1, <1>2, <1>4 DEF RequestOK, Identified, Live, SameInput
    <2> HIDE DEF none
    <2> QED
      BY <1>1, <1>2, <1>4, <2>1, HandlerOK DEF SameInput, RequestOK
  <1>6. CASE SelectToken(tokens_tokens, r.cookie, clock) = {}
    <2>1. tokens_tokens' = tokens_tokens /\ Goto(q, none, r.kind)
      BY <1>6 DEF Verify
    <2>2. Wrote(q, none, r.kind)
      BY <2>1 DEF Wrote
    <2> HIDE DEF none
    <2> QED
      BY <1>0, <1>1, <1>3, <1>4, <1>5, <2>1, <2>2, GotoQuiet
  <1>7. ASSUME NEW tok \in SelectToken(tokens_tokens, r.cookie, clock),
               tokens_tokens' = VerifyWrite(tokens_tokens, tok, clock),
               \/ /\ ~MustMatchSession(tok)
                  /\ Goto(q, none, r.kind)
               \/ /\ MustMatchSession(tok) /\ tok.ref_id = NilID
                  /\ Goto(q, WithSession(r, tok.token, tok.data), r.kind)
               \/ /\ MustMatchSession(tok) /\ tok.ref_id # NilID
                  /\ Goto(q, [r EXCEPT !.ref = tok.ref_id, !.data = tok.data], "byid")
        PROVE  IInv'
    <2>1. tok \in tokens_tokens /\ tok.token = r.cookie
      BY DEF SelectToken
    <2>2. tok \in Row /\ RowOK(tok, generated, issued)
      BY <1>3, <2>1 DEF StoreOK
    <2>3. StoreOK(tokens_tokens', generated, issued, ended)
      BY <1>3, <1>7, <2>1, VerifyOK
    <2>4. tok.token \in Token /\ tok.data \in Data /\ tok.ref_id \in Ref /\ tok.data # Null
      BY <2>2, NullIsNone DEF Row
    <2>5. CASE Goto(q, none, r.kind)
      <3>1. Wrote(q, none, r.kind)
        BY <2>5 DEF Wrote
      <3> HIDE DEF none
      <3> QED
        BY <1>0, <1>1, <1>3, <1>4, <1>5, <2>3, <3>1, GotoQuiet
    <2>6. CASE /\ MustMatchSession(tok) /\ tok.ref_id = NilID
               /\ Goto(q, WithSession(r, tok.token, tok.data), r.kind)
      <3> DEFINE s == WithSession(r, tok.token, tok.data)
      <3>1. /\ s \in Request /\ s.id = tok.token /\ s.acct = Null /\ s.data = tok.data
            /\ s.reply = r.reply /\ SameInput(r, s)
        BY <1>1, <1>2, <2>4, WithSessionFields DEF Nullable
      <3>2. issued[tok.token] = NilID /\ tok.data \in {JsonNull, AnonData} /\ tok.token \in generated
        BY <2>2, <2>4, <2>6, SessionsAssumption DEF MustMatchSession, RowOK
      <3>3. Wrote(q, s, r.kind)
        BY <2>6 DEF Wrote
      <3> HIDE DEF s
      <3>4. Identified(s, generated, issued) /\ Live(s, deleted)
        BY <1>1, <1>2, <3>1, <3>2 DEF RequestOK, Identified, Live, SameInput
      <3>5. RequestOK(At(s, r.kind), generated, issued, deleted)
        BY <1>1, <1>2, <3>1, <3>2, <3>4, HandlerOK DEF SameInput, RequestOK
      <3> QED
        BY <1>0, <1>1, <1>3, <2>3, <3>1, <3>3, <3>5, GotoQuiet
    <2>7. CASE /\ MustMatchSession(tok) /\ tok.ref_id # NilID
               /\ Goto(q, [r EXCEPT !.ref = tok.ref_id, !.data = tok.data], "byid")
      <3> DEFINE s == [r EXCEPT !.ref = tok.ref_id, !.data = tok.data]
                 n == At(s, "byid")
      <3>0. "byid" \in PC /\ "byid" \notin Kind \cup {"respond", "save"}
        BY DEF PC, Kind
      <3>1. s \in Request
        BY <1>1, <2>4 DEF Request, Nullable
      <3>2. n = [s EXCEPT !.pc = "byid"]
        BY <3>0, <3>1, AtFields
      <3>3. /\ n.pc = "byid" /\ n.ref = tok.ref_id /\ n.data = tok.data
            /\ n.acct = r.acct /\ n.id = r.id /\ n.cookie = r.cookie /\ n.kind = r.kind
            /\ n.email = r.email /\ n.reply = r.reply /\ n.gone = r.gone /\ n.target = r.target
        BY <1>1, <3>1, <3>2 DEF Request
      <3>4. /\ issued[r.cookie] = tok.ref_id /\ tok.data \in {JsonNull, AnonData, tok.ref_id}
            /\ tok.ref_id \in AcctID
        BY <2>1, <2>2, <2>4, <2>7, SessionsAssumption DEF MustMatchSession, RowOK
      <3> HIDE DEF n
      <3>5. RequestOK(n, generated, issued, deleted)
        BY <1>1, <1>2, <3>0, <3>3, <3>4 DEF RequestOK, Identified, Live, Loading, Handling
      <3>6. Wrote(q, s, "byid")
        BY <2>7 DEF Wrote
      <3> QED
        BY <1>0, <1>3, <2>3, <3>0, <3>1, <3>5, <3>6, GotoQuiet DEF n
    <2> QED
      BY <1>7, <2>5, <2>6, <2>7
  <1> QED
    BY <1>6, <1>7 DEF Verify

\* The account is loaded, or is not there any more.
LEMMA LoadAccountStep == ASSUME IInv, NEW q \in Req, LoadAccount(q) PROVE IInv'
  <1> DEFINE r == req[q]
  <1>0. UNCHANGED <<accounts, tokens_tokens, clock, generated, sent, issued, ended, deleted>>
    BY DEF LoadAccount, history
  <1>1. /\ r \in Request /\ RequestOK(r, generated, issued, deleted) /\ r.kind \in Kind
        /\ r.kind \in PC /\ r.data \in Data /\ r.cookie \in Nullable(Token)
    BY RequestHere DEF PC
  <1>2. /\ r.pc = "byid" /\ r.acct = Null /\ r.id = Null /\ r.cookie \in generated
        /\ r.kind \in {"login", "register"} => r.email # Null
        /\ r.ref \in AcctID /\ issued[r.cookie] = r.ref /\ r.data \in {JsonNull, AnonData, r.ref}
    BY <1>1 DEF LoadAccount, Step, RequestOK, Loading
  <1>3. /\ ended \subseteq generated /\ accounts \subseteq AccountRow
        /\ \A a \in accounts : a.id \notin deleted
        /\ StoreOK(tokens_tokens', generated, issued, ended)
    BY <1>0, IInvParts DEF Others, StoreSound, Recorded
  <1>4. CASE Goto(q, [r EXCEPT !.data = JsonNull], "purge")
    <2> DEFINE s == [r EXCEPT !.data = JsonNull]
               n == At(s, "purge")
    <2>0. "purge" \in PC /\ "purge" \notin Kind \cup {"respond", "save"}
      BY DEF PC, Kind
    <2>1. s \in Request
      BY <1>1, TableAssumption DEF Request
    <2>2. n = [s EXCEPT !.pc = "purge"]
      BY <2>0, <2>1, AtFields
    <2>3. /\ n.pc = "purge" /\ n.ref = r.ref /\ n.data = JsonNull
          /\ n.acct = r.acct /\ n.id = r.id /\ n.cookie = r.cookie /\ n.kind = r.kind
          /\ n.email = r.email /\ n.reply = r.reply /\ n.gone = r.gone /\ n.target = r.target
      BY <1>1, <2>1, <2>2 DEF Request
    <2> HIDE DEF n
    <2>4. RequestOK(n, generated, issued, deleted)
      BY <1>1, <1>2, <2>0, <2>3 DEF RequestOK, Identified, Live, Loading, Handling
    <2>5. Wrote(q, s, "purge")
      BY <1>4 DEF Wrote
    <2> QED
      BY <1>0, <1>3, <2>0, <2>1, <2>4, <2>5, GotoQuiet DEF n
  <1>5. ASSUME NEW a \in ByID(accounts, r.ref),
               Goto(q, WithSession([r EXCEPT !.acct = a.id], r.cookie, r.data), r.kind)
        PROVE  IInv'
    <2> DEFINE u == [r EXCEPT !.acct = a.id]
               s == WithSession(u, r.cookie, r.data)
    <2>1. a.id = r.ref /\ a.id \notin deleted /\ a.id # Null
      BY <1>2, <1>3, NullIsNone DEF ByID
    <2>2. u \in Request /\ u.acct = r.ref /\ SameInput(r, u) /\ u.reply = r.reply
      BY <1>1, <1>2, <2>1 DEF Request, Nullable, SameInput
    <2> HIDE DEF u
    <2>3. /\ s \in Request /\ s.id = r.cookie /\ s.acct = r.ref /\ s.data = r.data
          /\ s.reply = r.reply /\ SameInput(r, s)
      BY <1>1, <2>2, WithSessionFields, NullIsNone DEF Nullable, SameInput
    <2> HIDE DEF s
    <2>4. Identified(s, generated, issued) /\ Live(s, deleted)
      BY <1>1, <1>2, <2>1, <2>3 DEF RequestOK, Identified, Live, SameInput
    <2>5. RequestOK(At(s, r.kind), generated, issued, deleted)
      BY <1>1, <1>2, <2>3, <2>4, HandlerOK DEF SameInput, RequestOK
    <2>6. Wrote(q, s, r.kind)
      BY <1>5 DEF Wrote, s, u
    <2> QED
      BY <1>0, <1>1, <1>3, <2>3, <2>5, <2>6, GotoQuiet
  <1> QED
    BY <1>4, <1>5 DEF LoadAccount

\* The sessions of an account that is not there are deleted.
LEMMA PurgeStep == ASSUME IInv, NEW q \in Req, Purge(q) PROVE IInv'
  <1> DEFINE r == req[q]
             s == WithSession(r, Null, Null)
  <1>0. UNCHANGED <<accounts, clock, generated, sent, issued, ended, deleted>>
    BY DEF Purge, history
  <1>1. /\ r \in Request /\ RequestOK(r, generated, issued, deleted) /\ r.kind \in Kind
        /\ r.kind \in PC
    BY RequestHere DEF PC
  <1>2. r.kind \in {"login", "register"} => r.email # Null
    BY <1>1 DEF Purge, Step, RequestOK, Loading
  <1>3. r.acct = Null
    BY <1>1 DEF Purge, Step, RequestOK, Loading
  <1>4. /\ s \in Request /\ s.id = Null /\ s.acct = Null /\ s.data = JsonNull
        /\ s.reply = r.reply /\ SameInput(r, s)
    BY <1>1, <1>3, WithSessionFields DEF Nullable
  <1>5. ended \subseteq generated /\ StoreOK(tokens_tokens', generated, issued, ended)
    <2>1. tokens_tokens' \subseteq tokens_tokens
      BY DEF Purge, DeleteTypeRef
    <2>2. ended \subseteq generated /\ StoreOK(tokens_tokens, generated, issued, ended)
      BY IInvParts DEF Others, StoreSound, Recorded
    <2> QED
      BY <2>1, <2>2 DEF StoreOK
  <1>6. Wrote(q, s, r.kind)
    BY DEF Purge, Wrote
  <1> HIDE DEF s
  <1>7. Identified(s, generated, issued) /\ Live(s, deleted)
    BY <1>1, <1>3, <1>4 DEF RequestOK, Identified, Live, SameInput
  <1>8. RequestOK(At(s, r.kind), generated, issued, deleted)
    BY <1>1, <1>2, <1>3, <1>4, <1>7, HandlerOK DEF SameInput, RequestOK
  <1> QED
    BY <1>0, <1>1, <1>4, <1>5, <1>6, <1>8, GotoQuiet

\* A login finds its account.
LEMMA LoginLookupStep == ASSUME IInv, NEW q \in Req, LoginLookup(q) PROVE IInv'
  <1> DEFINE r == req[q]
             pc == IF r.acct # Null /\ r.id # Null THEN "drop" ELSE "store"
  <1>0. UNCHANGED <<accounts, tokens_tokens, clock, generated, sent, issued, ended, deleted>>
    BY DEF LoginLookup, history
  <1>1. r \in Request /\ RequestOK(r, generated, issued, deleted)
    BY RequestHere
  <1>2. r.data \in {JsonNull, AnonData, r.acct}
    BY <1>1 DEF LoginLookup, Step, RequestOK, Handling, Kind
  <1>3. PICK a \in accounts : Goto(q, [r EXCEPT !.target = a.id], pc)
    BY DEF LoginLookup, ByEmail
  <1> DEFINE s == [r EXCEPT !.target = a.id]
             n == At(s, pc)
  <1>4. /\ ended \subseteq generated /\ a.id \in AcctID /\ a.id \notin deleted /\ a.id # Null
        /\ StoreOK(tokens_tokens', generated, issued, ended)
    BY <1>0, IInvParts, NullIsNone DEF Others, StoreSound, Recorded, AccountRow
  <1>5. pc \in PC /\ pc \notin Kind \cup {"respond", "save"}
    BY DEF PC, Kind
  <1>6. s \in Request
    BY <1>1, <1>4 DEF Request, Nullable
  <1> HIDE DEF pc
  <1>7. n = [s EXCEPT !.pc = pc]
    BY <1>5, <1>6, AtFields
  <1>8. /\ n.pc = pc /\ n.target = a.id /\ n.data = r.data
        /\ n.acct = r.acct /\ n.id = r.id /\ n.reply = r.reply /\ n.gone = r.gone
    BY <1>1, <1>6, <1>7 DEF Request
  <1> HIDE DEF n
  <1>9. RequestOK(n, generated, issued, deleted)
    BY <1>1, <1>2, <1>4, <1>5, <1>8 DEF RequestOK, Identified, Live, Loading, Handling, pc
  <1>10. Wrote(q, s, pc)
    BY <1>3 DEF Wrote
  <1> QED
    BY <1>0, <1>4, <1>5, <1>6, <1>9, <1>10, GotoQuiet DEF n

\* A login drops the session of the account that was logged in.
LEMMA LoginDropStep == ASSUME IInv, NEW q \in Req, LoginDrop(q) PROVE IInv'
  <1> DEFINE r == req[q]
             n == At(r, "store")
  <1>0. UNCHANGED <<accounts, clock, generated, sent, issued, deleted>>
    BY DEF LoginDrop, history
  <1>1. r \in Request /\ RequestOK(r, generated, issued, deleted)
    BY RequestHere
  <1>2. /\ r.data \in {JsonNull, AnonData, r.acct} /\ r.target # Null
        /\ r.id \in generated
    BY <1>1 DEF LoginDrop, Step, RequestOK, Handling, Identified
  <1>3. ended' = ended \cup {r.id} /\ tokens_tokens' = DeleteToken(tokens_tokens, r.id)
    BY DEF LoginDrop
  <1>4. ended' \subseteq generated /\ StoreOK(tokens_tokens', generated, issued, ended')
    <2>1. ended \subseteq generated /\ StoreOK(tokens_tokens, generated, issued, ended)
      BY IInvParts DEF Others, StoreSound, Recorded
    <2> QED
      BY <1>2, <1>3, <2>1 DEF DeleteToken, StoreOK
  <1>5. "store" \in PC /\ "store" \notin Kind \cup {"respond", "save"}
    BY DEF PC, Kind
  <1>6. n = [r EXCEPT !.pc = "store"]
    BY <1>1, <1>5, AtFields
  <1>7. /\ n.pc = "store" /\ n.target = r.target /\ n.data = r.data
        /\ n.acct = r.acct /\ n.id = r.id /\ n.reply = r.reply /\ n.gone = r.gone
    BY <1>1, <1>6 DEF Request
  <1> HIDE DEF n
  <1>8. RequestOK(n, generated, issued, deleted)
    BY <1>1, <1>2, <1>5, <1>7 DEF RequestOK, Identified, Live, Loading, Handling
  <1>9. Wrote(q, r, "store")
    BY DEF LoginDrop
  <1> QED
    BY <1>0, <1>1, <1>4, <1>5, <1>8, <1>9, GotoQuiet DEF n

\* After a logout the context session is a new, empty one.
LEMMA LogoutStep == ASSUME IInv, NEW q \in Req, Logout(q) PROVE IInv'
  <1> DEFINE r == req[q]
             u == ResetSession(r, Null, Null)
             v == [u EXCEPT !.acct = Null]
             s == SetCookie(v, Clear)
  <1>0. UNCHANGED <<accounts, clock, generated, sent, issued, deleted>>
    BY DEF Logout, history
  <1>1. r \in Request /\ RequestOK(r, generated, issued, deleted) /\ r.id \in generated
    BY RequestHere DEF Logout, RequestOK, Identified
  <1>2. ended' = ended \cup {r.id} /\ tokens_tokens' = DeleteToken(tokens_tokens, r.id)
    BY DEF Logout
  <1>3. ended' \subseteq generated /\ StoreOK(tokens_tokens', generated, issued, ended')
    <2>1. ended \subseteq generated /\ StoreOK(tokens_tokens, generated, issued, ended)
      BY IInvParts DEF Others, StoreSound, Recorded
    <2> QED
      BY <1>1, <1>2, <2>1 DEF DeleteToken, StoreOK
  <1>4. u \in Request /\ SameInput(r, u) /\ u.id = Null /\ u.data = JsonNull /\ u.reply = r.reply
    BY <1>1, ResetSessionFields DEF Nullable
  <1>5. Wrote(q, s, "app")
    BY DEF Logout
  <1> HIDE DEF u
  <1>6. /\ v \in Request /\ SameInput(r, v) /\ v.id = Null /\ v.data = JsonNull
        /\ v.reply = r.reply /\ v.acct = Null
    BY <1>4 DEF Request, Nullable, SameInput
  <1> HIDE DEF v
  <1>7. /\ s \in Request /\ SameInput(r, s) /\ s.id = Null /\ s.data = JsonNull
        /\ s.reply \in {r.reply, Clear} /\ s.acct = Null
    BY <1>6, SetCookieFields DEF SameInput
  <1> HIDE DEF s
  <1>8. Identified(s, generated, issued) /\ Live(s, deleted)
    BY <1>1, <1>7, NullIsNone DEF RequestOK, Identified, Live, SameInput, Request
  <1>9. "app" \in Kind /\ "app" \in PC
    BY DEF Kind, PC
  <1>10. RequestOK(At(s, "app"), generated, issued, deleted)
    BY <1>1, <1>7, <1>8, <1>9, HandlerOK DEF RequestOK
  <1> QED
    BY <1>0, <1>3, <1>5, <1>7, <1>9, <1>10, GotoQuiet

\* The application's handler replaces the session data, or not.
LEMMA AppStep == ASSUME IInv, NEW q \in Req, App(q) PROVE IInv'
  <1> DEFINE r == req[q]
  <1>0. UNCHANGED <<accounts, tokens_tokens, clock, generated, sent, issued, ended, deleted>>
    BY DEF App, history
  <1>1. /\ r \in Request /\ RequestOK(r, generated, issued, deleted) /\ r.data \in Data
        /\ r.acct \in Nullable(AcctID)
    BY RequestHere
  <1>2. PICK replace \in BOOLEAN, write \in BOOLEAN :
          LET s == [r EXCEPT !.written = write, !.dirty = replace,
                             !.data = IF replace THEN Owner(r) ELSE @]
          IN  Goto(q, s, IF s.dirty THEN "save" ELSE "respond")
    BY DEF App
  <1> DEFINE d == IF replace THEN Owner(r) ELSE r.data
             s == [r EXCEPT !.written = write, !.dirty = replace, !.data = d]
  <1>3. s = [r EXCEPT !.written = write, !.dirty = replace,
                      !.data = IF replace THEN Owner(r) ELSE @]
    BY <1>1 DEF Request
  <1>4. Owner(r) \in Data
    BY <1>1, SessionsAssumption DEF Owner, Nullable
  <1>5. d \in Data
    BY <1>1, <1>4
  <1> HIDE DEF d
  <1>6. /\ s \in Request /\ s.dirty = replace /\ s.data = d /\ s.acct = r.acct /\ s.id = r.id
        /\ s.gone = r.gone /\ s.target = r.target /\ s.reply = r.reply
    BY <1>1, <1>5 DEF Request
  <1>7. Goto(q, s, IF replace THEN "save" ELSE "respond")
    BY <1>2, <1>3, <1>6
  <1> HIDE DEF s
  <1>8. ended \subseteq generated /\ StoreOK(tokens_tokens', generated, issued, ended)
    BY <1>0, IInvParts DEF Others, StoreSound, Recorded
  <1>9. "save" \in PC /\ "respond" \in PC /\ "save" \notin Kind
    BY DEF PC, Kind
  <1>10. CASE replace
    <2>1. Wrote(q, s, "save")
      BY <1>7, <1>10 DEF Wrote
    <2> DEFINE n == At(s, "save")
    <2>2. /\ n.pc = "save" /\ n.acct = r.acct /\ n.id = r.id /\ n.data = d /\ n.gone = r.gone
          /\ n.reply = r.reply /\ n.target \in {r.target, Null}
      BY <1>6, <1>9, AtFields
    <2>3. d = Owner(r)
      BY <1>10 DEF d
    <2>4. Null \notin r.gone
      BY <1>1, NullIsNone DEF Request
    <2> HIDE DEF n
    <2>5. RequestOK(n, generated, issued, deleted)
      BY <1>1, <1>9, <2>2, <2>3, <2>4
      DEF RequestOK, Identified, Live, Loading, Handling, Owner
    <2> QED
      BY <1>0, <1>6, <1>8, <1>9, <2>1, <2>5, GotoQuiet DEF n
  <1>11. CASE ~replace
    <2>1. Wrote(q, s, "respond")
      BY <1>7, <1>11 DEF Wrote
    <2>2. RequestOK(At(s, "respond"), generated, issued, deleted)
      BY <1>1, <1>6, RespondOK DEF RequestOK
    <2> QED
      BY <1>0, <1>6, <1>8, <1>9, <2>1, <2>2, GotoQuiet
  <1> QED
    BY <1>10, <1>11

\* The data of a stored session is saved, if it is still there.
LEMMA SaveExistingStep == ASSUME IInv, NEW q \in Req, SaveExisting(q) PROVE IInv'
  <1> DEFINE r == req[q]
  <1>0. UNCHANGED <<accounts, clock, generated, sent, issued, ended, deleted>>
    BY DEF SaveExisting, history
  <1>1. /\ r \in Request /\ RequestOK(r, generated, issued, deleted) /\ r.id # Null
        /\ r.data \in Data
    BY RequestHere DEF SaveExisting
  <1>2. /\ r.id \in generated /\ issued[r.id] = (IF r.acct = Null THEN NilID ELSE r.acct)
        /\ r.data = (IF r.acct = Null THEN AnonData ELSE r.acct)
    BY <1>1 DEF SaveExisting, Step, RequestOK, Identified, Handling, Owner
  <1>3. /\ generated \subseteq Token /\ ended \subseteq generated
        /\ StoreOK(tokens_tokens, generated, issued, ended)
    BY IInvParts DEF Others, StoreSound, Recorded
  <1>4. \A s \in tokens_tokens : s.token = r.id /\ s.type = SessionType =>
                                   r.data \in {JsonNull, AnonData, s.ref_id}
    BY <1>2, <1>3 DEF StoreOK, RowOK
  <1>5. StoreOK(tokens_tokens', generated, issued, ended)
    BY <1>1, <1>2, <1>3, <1>4, SetDataOK DEF SaveExisting, SaveData
  <1>6. RequestOK(At(r, "respond"), generated, issued, deleted)
    BY <1>1, RespondOK DEF RequestOK
  <1>7. Wrote(q, r, "respond") /\ "respond" \in PC
    BY DEF SaveExisting, Wrote, PC
  <1> QED
    BY <1>0, <1>1, <1>3, <1>5, <1>6, <1>7, GotoQuiet

\* An error is answered.
LEMMA FailStep == ASSUME IInv, NEW q \in Req, Fail(q) PROVE IInv'
  <1>0. UNCHANGED <<accounts, tokens_tokens, clock, generated, sent, issued, ended, deleted>>
    BY DEF Fail, history
  <1>1. req[q] \in Request /\ RequestOK(req[q], generated, issued, deleted)
    BY RequestHere
  <1>2. ended \subseteq generated /\ StoreOK(tokens_tokens', generated, issued, ended)
    BY <1>0, IInvParts DEF Others, StoreSound, Recorded
  <1>3. RequestOK(At(req[q], "respond"), generated, issued, deleted)
    BY <1>1, RespondOK DEF RequestOK
  <1>4. Wrote(q, req[q], "respond") /\ "respond" \in PC
    BY DEF Fail, Wrote, PC
  <1> QED
    BY <1>0, <1>1, <1>2, <1>3, <1>4, GotoQuiet

-----------------------------------------------------------------------------
(* The steps that generate a token. *)

\* A step of request q that stores a session under a new token.
LEMMA GenerateStep ==
  ASSUME IInv, NEW q \in Req, NEW r \in Request, NEW pc \in PC, Goto(q, r, pc),
         NEW f \in Token \ generated, NEW ref \in Ref,
         generated' = generated \cup {f}, issued' = [issued EXCEPT ![f] = ref],
         UNCHANGED <<accounts, clock, sent, deleted>>, ended' \subseteq generated,
         StoreOK(tokens_tokens', generated', issued', ended'),
         RequestOK(At(r, pc), generated', issued', deleted)
  PROVE  IInv'
  <1>1. Others
    BY IInvParts
  <1>2. generated \subseteq generated' /\ \A t \in generated : issued'[t] = issued[t]
    BY <1>1 DEF Others
  <1>3. RequestsSound'
    BY <1>2, GotoStep DEF RequestsSound
  <1>4. Others'
    BY <1>1 DEF Others, Recorded, Nullable
  <1>5. StoreSound'
    BY DEF StoreSound
  <1> QED
    BY <1>3, <1>4, <1>5, IInvPartsNext

\* The context after a login: the account, its new session and cookie, and no
\* data of another account.
LEMMA LoggedInOK ==
  ASSUME NEW r \in Request, NEW gen \in SUBSET Token, NEW iss \in [Token -> Nullable(Ref)],
         NEW del, RequestOK(r, gen, iss, del), r.pc = "store", NEW f \in Token \ gen
  PROVE  /\ LoginData(r) \in {JsonNull, AnonData} /\ r.target \in Ref /\ r.target # NilID
         /\ LoggedIn(r, f) \in Request
         /\ RequestOK(At(LoggedIn(r, f), "app"), gen \cup {f},
                      [iss EXCEPT ![f] = r.target], del)
  <1> DEFINE u == ResetSession(r, f, LoginData(r))
             v == [u EXCEPT !.acct = r.target]
             s == SetCookie(v, f)
             iss2 == [iss EXCEPT ![f] = r.target]
  <1>1. /\ r.target \in AcctID /\ r.data \in {JsonNull, AnonData, r.acct} /\ r.data # Null
        /\ r.acct \in Nullable(AcctID)
    BY NullIsNone DEF RequestOK, Handling, Request, Nullable
  <1>2. r.target \in Ref /\ r.target # NilID /\ r.target # Null
    BY <1>1, SessionsAssumption, NullIsNone
  <1>3. LoginData(r) \in {JsonNull, AnonData}
    BY <1>1 DEF LoginData
  <1>4. LoginData(r) \in Data
    BY <1>3, SessionsAssumption
  <1>5. u \in Request /\ SameInput(r, u) /\ u.id = f /\ u.data = LoginData(r) /\ u.reply = r.reply
    BY <1>4, ResetSessionFields, NullIsNone DEF Nullable
  <1>6. s = LoggedIn(r, f)
    BY DEF LoggedIn
  <1> HIDE DEF u
  <1>7. /\ v \in Request /\ SameInput(r, v) /\ v.id = f /\ v.data = LoginData(r)
        /\ v.reply = r.reply /\ v.acct = r.target
    BY <1>1, <1>5 DEF Request, Nullable, SameInput
  <1> HIDE DEF v
  <1>8. /\ s \in Request /\ SameInput(r, s) /\ s.id = f /\ s.data = LoginData(r)
        /\ s.reply \in {r.reply, f} /\ s.acct = r.target
    BY <1>7, SetCookieFields DEF SameInput
  <1> HIDE DEF s
  <1>9. iss2[f] = r.target
    OBVIOUS
  <1> HIDE DEF iss2
  <1>10. Identified(s, gen \cup {f}, iss2) /\ Live(s, del)
    BY <1>2, <1>8, <1>9 DEF RequestOK, Identified, Live, SameInput
  <1>11. "app" \in Kind
    BY DEF Kind
  <1>12. s.reply \in (gen \cup {f}) \cup {Null, Clear}
    BY <1>8 DEF RequestOK
  <1>13. RequestOK(At(s, "app"), gen \cup {f}, iss2, del)
    BY <1>3, <1>8, <1>10, <1>11, <1>12, HandlerOK
  <1> QED
    BY <1>2, <1>3, <1>6, <1>8, <1>13 DEF iss2

\* The expiries of a login are durations.
LEMMA DurationsNat ==
  /\ authenticatedSessionDurations \subseteq Nat
  /\ anonymousSessionDuration \in Nat /\ idleAnonymousSessionDuration \in Nat
  BY SessionsAssumption DEF authenticatedSessionDurations

\* A login stores a new session.
LEMMA LoginNewStep == ASSUME IInv, NEW q \in Req, LoginNew(q) PROVE IInv'
  <1> DEFINE r == req[q]
  <1>1. r \in Request /\ RequestOK(r, generated, issued, deleted) /\ r.pc = "store"
    BY RequestHere DEF LoginNew, Step
  <1>2. UNCHANGED <<accounts, clock, sent, ended, deleted>>
    BY DEF LoginNew
  <1>3. PICK f \in Token \ generated, expiry \in authenticatedSessionDurations :
          /\ tokens_tokens' =
               InsertToken(tokens_tokens, f, SessionArgs(r.target, expiry, 0, LoginData(r)), clock)
          /\ generated' = generated \cup {f}
          /\ issued' = [issued EXCEPT ![f] = r.target]
          /\ Goto(q, LoggedIn(r, f), "app")
    BY DEF LoginNew
  <1>4. /\ generated \subseteq Token /\ issued \in [Token -> Nullable(Ref)] /\ clock \in Nat
        /\ ended \subseteq generated /\ StoreOK(tokens_tokens, generated, issued, ended)
    BY IInvParts DEF Others, StoreSound, Recorded
  <1>5. /\ LoginData(r) \in {JsonNull, AnonData} /\ r.target \in Ref
        /\ LoggedIn(r, f) \in Request
        /\ RequestOK(At(LoggedIn(r, f), "app"), generated', issued', deleted)
    BY <1>1, <1>3, <1>4, LoggedInOK
  <1>6. expiry \in Nat /\ 0 \in Nat
    BY DurationsNat
  <1>7. StoreOK(tokens_tokens', generated', issued', ended')
    BY <1>2, <1>3, <1>4, <1>5, <1>6, InsertOK
  <1>8. "app" \in PC
    BY DEF PC, Kind
  <1> QED
    BY <1>2, <1>3, <1>4, <1>5, <1>7, <1>8, GenerateStep

\* A login goes on with the session of a visitor, under a new token.
LEMMA LoginRotateStep == ASSUME IInv, NEW q \in Req, LoginRotate(q) PROVE IInv'
  <1> DEFINE r == req[q]
  <1>1. r \in Request /\ RequestOK(r, generated, issued, deleted) /\ r.pc = "store"
    BY RequestHere DEF LoginRotate, Step
  <1>2. UNCHANGED <<accounts, clock, sent, deleted>>
    BY DEF LoginRotate
  <1>3. PICK f \in Token \ generated, expiry \in authenticatedSessionDurations :
          /\ tokens_tokens' =
               RotateToken(tokens_tokens, r.id, f,
                           SessionArgs(r.target, expiry, 0, LoginData(r)), clock)
          /\ generated' = generated \cup {f}
          /\ issued' = [issued EXCEPT ![f] = r.target]
          /\ ended' = ended \cup {r.id}
          /\ Goto(q, LoggedIn(r, f), "app")
    BY DEF LoginRotate
  <1>4. /\ generated \subseteq Token /\ issued \in [Token -> Nullable(Ref)] /\ clock \in Nat
        /\ ended \subseteq generated /\ StoreOK(tokens_tokens, generated, issued, ended)
    BY IInvParts DEF Others, StoreSound, Recorded
  <1>5. /\ LoginData(r) \in {JsonNull, AnonData} /\ r.target \in Ref
        /\ LoggedIn(r, f) \in Request
        /\ RequestOK(At(LoggedIn(r, f), "app"), generated', issued', deleted)
    BY <1>1, <1>3, <1>4, LoggedInOK
  <1>6. expiry \in Nat /\ 0 \in Nat
    BY DurationsNat
  <1>7. r.id \in generated /\ issued[r.id] # Null
    BY <1>1, NullIsNone DEF LoginRotate, RequestOK, Identified
  <1>8. StoreOK(tokens_tokens', generated', issued', ended')
    BY <1>3, <1>4, <1>5, <1>6, <1>7, RotateOK
  <1>9. "app" \in PC /\ ended' \subseteq generated
    BY <1>3, <1>4, <1>7 DEF PC, Kind
  <1> QED
    BY <1>2, <1>3, <1>4, <1>5, <1>8, <1>9, GenerateStep

\* The data of a visitor, or of a request that has no session any more, is
\* saved in a new anonymous session.
LEMMA SaveNewStep == ASSUME IInv, NEW q \in Req, SaveNew(q) PROVE IInv'
  <1> DEFINE r == req[q]
  <1>1. r \in Request /\ RequestOK(r, generated, issued, deleted)
    BY RequestHere
  <1>2. r.data = AnonData
    BY <1>1 DEF SaveNew, Step, RequestOK, Handling, Owner
  <1>3. UNCHANGED <<accounts, clock, sent, ended, deleted>>
    BY DEF SaveNew
  <1>4. PICK f \in Token \ generated :
          /\ tokens_tokens' =
               InsertToken(tokens_tokens, f,
                           SessionArgs(NilID, anonymousSessionDuration,
                                       idleAnonymousSessionDuration, r.data), clock)
          /\ generated' = generated \cup {f}
          /\ issued' = [issued EXCEPT ![f] = NilID]
          /\ Goto(q, SetCookie(r, f), "respond")
    BY DEF SaveNew
  <1>5. /\ generated \subseteq Token /\ issued \in [Token -> Nullable(Ref)] /\ clock \in Nat
        /\ ended \subseteq generated /\ StoreOK(tokens_tokens, generated, issued, ended)
    BY IInvParts DEF Others, StoreSound, Recorded
  <1>6. NilID \in Ref /\ r.data \in {JsonNull, AnonData}
    BY <1>2, SessionsAssumption
  <1>7. StoreOK(tokens_tokens', generated', issued', ended')
    BY <1>3, <1>4, <1>5, <1>6, DurationsNat, InsertOK
  <1>8. SetCookie(r, f) \in Request /\ SetCookie(r, f).reply \in generated' \cup {Null, Clear}
    BY <1>1, <1>4, SetCookieFields DEF RequestOK
  <1>9. RequestOK(At(SetCookie(r, f), "respond"), generated', issued', deleted)
    BY <1>8, RespondOK
  <1>10. "respond" \in PC
    BY DEF PC
  <1> QED
    BY <1>3, <1>4, <1>5, <1>6, <1>7, <1>8, <1>9, <1>10, GenerateStep

-----------------------------------------------------------------------------
(* The steps that change the accounts, and the others. *)

\* An account is deleted, with its sessions.
LEMMA DeleteStep == ASSUME IInv, NEW q \in Req, Delete(q) PROVE IInv'
  <1> DEFINE r == req[q]
             u == SetCookie(r, Clear)
             s == ResetSession(u, Null, Null)
  <1>0. UNCHANGED <<clock, generated, sent, issued, ended>>
    BY DEF Delete
  <1>1. r \in Request /\ RequestOK(r, generated, issued, deleted) /\ r.acct \in AcctID
    BY RequestHere DEF Delete, Nullable
  <1>2. /\ accounts' = { a \in accounts : a.id # r.acct }
        /\ tokens_tokens' = DeleteTypeRef(tokens_tokens, SessionType, r.acct)
        /\ deleted' = deleted \cup {r.acct}
        /\ Wrote(q, s, "app")
    BY DEF Delete
  <1>3. Others'
    BY <1>0, <1>1, <1>2, IInvParts DEF Others, Recorded
  <1>4. StoreSound'
    <2>1. tokens_tokens' \subseteq tokens_tokens /\ StoreSound
      BY <1>2, IInvParts DEF DeleteTypeRef
    <2> QED
      BY <1>0, <2>1 DEF StoreSound, StoreOK
  <1>5. /\ u \in Request /\ SameInput(r, u) /\ u.acct = r.acct /\ u.reply \in {r.reply, Clear}
    BY <1>1, SetCookieFields
  <1> HIDE DEF u
  <1>6. /\ s \in Request /\ SameInput(r, s) /\ s.id = Null /\ s.data = JsonNull
        /\ s.reply \in {r.reply, Clear} /\ s.acct = r.acct
    BY <1>5, ResetSessionFields DEF Nullable, SameInput
  <1> HIDE DEF s
  <1>7. Identified(s, generated', issued') /\ Live(s, deleted')
    BY <1>1, <1>2, <1>6 DEF RequestOK, Identified, Live, SameInput
  <1>8. "app" \in Kind /\ "app" \in PC /\ s.reply \in generated' \cup {Null, Clear}
    BY <1>0, <1>1, <1>6 DEF Kind, PC, RequestOK
  <1>9. RequestOK(At(s, "app"), generated', issued', deleted')
    BY <1>6, <1>7, <1>8, HandlerOK
  <1>10. RequestsSound'
    <2>1. /\ generated \subseteq generated' /\ deleted \subseteq deleted'
          /\ \A t \in generated : issued'[t] = issued[t]
      BY <1>0, <1>2
    <2> QED
      BY <1>2, <1>6, <1>8, <1>9, <2>1, WroteStep DEF RequestsSound
  <1> QED
    BY <1>3, <1>4, <1>10, IInvPartsNext

\* An account is created, under an id that never existed.
LEMMA RegisterStep == ASSUME IInv, NEW q \in Req, Register(q) PROVE IInv'
  <1> DEFINE r == req[q]
  <1>0. UNCHANGED <<tokens_tokens, clock, generated, sent, issued, ended, deleted>>
    BY DEF Register, history
  <1>1. r \in Request /\ RequestOK(r, generated, issued, deleted) /\ r.pc = "register"
    BY RequestHere DEF Register, Step
  <1>2. r.email \in Email /\ r.data \in {JsonNull, AnonData, r.acct}
    BY <1>1 DEF RequestOK, Handling, Request, Nullable, Kind
  <1>3. PICK a \in AcctID \ (deleted \cup { b.id : b \in accounts }) :
          accounts' = accounts \cup {[id |-> a, email |-> r.email]}
    BY DEF Register
  <1>4. Others'
    BY <1>0, <1>2, <1>3, IInvParts DEF Others, Recorded, AccountRow
  <1>5. StoreSound'
    BY <1>0, IInvParts DEF StoreSound
  <1>6. "app" \in Kind /\ "app" \in PC
    BY DEF Kind, PC
  <1>7. RequestOK(At(r, "app"), generated', issued', deleted')
    BY <1>0, <1>1, <1>2, <1>6, HandlerOK DEF RequestOK
  <1>8. RequestsSound'
    BY <1>0, <1>1, <1>6, <1>7, WroteStep DEF RequestsSound, Register
  <1> QED
    BY <1>4, <1>5, <1>8, IInvPartsNext

\* The answer reaches its client, or is lost.
LEMMA AnswerStep == ASSUME IInv, NEW q \in Req, Respond(q) PROVE IInv'
  <1>0. /\ UNCHANGED <<accounts, tokens_tokens, clock, generated, issued, ended, deleted>>
        /\ req' = [req EXCEPT ![q] = NoRequest]
    BY DEF Respond, history
  <1>1. req[q].reply \in generated \cup {Null, Clear} /\ Null \notin Token /\ Clear \notin Token
    BY RequestHere, NullIsNone, SessionsAssumption DEF RequestOK, Clear
  <1>2. sent' \subseteq sent \cup generated
    <2>1. PICK lost : sent' = IF lost THEN sent ELSE sent \cup ({req[q].reply} \cap Token)
      BY DEF Respond
    <2> QED
      BY <1>1, <2>1
  <1>3. Others'
    BY <1>0, <1>2, IInvParts DEF Others, Recorded
  <1>4. StoreSound'
    BY <1>0, IInvParts DEF StoreSound
  <1>5. RequestOK(NoRequest, generated, issued, deleted)
    BY NoRequestFields DEF RequestOK, Identified, Live, Loading, Handling, Kind
  <1>6. RequestsSound'
    BY <1>0, <1>5, NoRequestFields, IInvParts DEF RequestsSound, Requests
  <1> QED
    BY <1>3, <1>4, <1>6, IInvPartsNext

\* The initial state satisfies the invariant.
LEMMA InitIInv == Init => IInv
  <1> SUFFICES ASSUME Init PROVE IInv
    OBVIOUS
  <1>1. \A t \in Token : issued[t] = Null
    BY DEF Init
  <1>2. Others
    BY <1>1, SessionsAssumption DEF Init, Others, Recorded, Row, Nullable
  <1>3. StoreSound
    BY <1>1, SessionsAssumption DEF Init, StoreSound, StoreOK, RowOK, Row
  <1>4. RequestOK(NoRequest, generated, issued, deleted)
    BY NoRequestFields DEF RequestOK, Identified, Live, Loading, Handling, Kind
  <1>5. RequestsSound
    BY <1>4, NoRequestFields DEF Init, RequestsSound, Requests
  <1> QED
    BY <1>2, <1>3, <1>5, IInvParts

\* Every step keeps the invariant.
LEMMA NextIInv == IInv /\ [Next]_vars => IInv'
  <1> SUFFICES ASSUME IInv, [Next]_vars PROVE IInv'
    OBVIOUS
  <1>1. CASE UNCHANGED vars
    BY <1>1 DEF vars, IInv, TypeOK, Recorded, Rows, OneRow, EndedIsGone, Requests
  <1>2. CASE Tick
    <2>1. UNCHANGED <<accounts, tokens_tokens, generated, sent, req, issued, ended, deleted>>
          /\ clock' \in Nat
      BY <1>2 DEF Tick, history, IInv, TypeOK
    <2> QED
      BY <2>1 DEF IInv, TypeOK, Recorded, Rows, OneRow, EndedIsGone, Requests
  <1> QED
    BY <1>1, <1>2, StartStep, VerifyStep, LoadAccountStep, PurgeStep, LoginLookupStep,
       LoginDropStep, LoginNewStep, LoginRotateStep, LogoutStep, DeleteStep, RegisterStep,
       AppStep, SaveNewStep, SaveExistingStep, FailStep, AnswerStep
    DEF Next

\* The inductive invariant holds of every behaviour.
THEOREM Inductive == Spec => []IInv
  BY InitIInv, NextIInv, PTL DEF Spec

\* The tables and the contexts of the requests have the values that the code
\* can give them.
THEOREM TypeCorrect == Spec => []TypeOK
  <1>1. IInv => TypeOK
    BY DEF IInv
  <1> QED
    BY <1>1, Inductive, PTL

\* The account in the context of a request is the one whose login created the
\* session id next to it: no session is fixed on, or confused with, another's.
THEOREM IdentityHolds == Spec => []SessionIdentity
  <1>1. IInv => SessionIdentity
    BY DEF IInv, Requests, RequestOK, Identified, SessionIdentity
  <1> QED
    BY <1>1, Inductive, PTL

\* A session that was logged out or replaced never comes back.
THEOREM EndedStaysGone == Spec => []EndedIsGone
  <1>1. IInv => EndedIsGone
    BY DEF IInv
  <1> QED
    BY <1>1, Inductive, PTL

\* A request that started after an account was deleted never runs as it.
THEOREM DeletedIsOut == Spec => []DeletedStaysOut
  <1>1. IInv => DeletedStaysOut
    BY DEF IInv, Requests, RequestOK, Live, DeletedStaysOut
  <1> QED
    BY <1>1, Inductive, PTL

\* What an account stored in its session is never in the session of another.
THEOREM DataIsOwned == Spec => []SessionDataOwned
  <1>1. IInv => SessionDataOwned
    BY DEF IInv, Rows, RowOK, Requests, RequestOK, Handling, SessionDataOwned
  <1> QED
    BY <1>1, Inductive, PTL

-----------------------------------------------------------------------------
(* The refinement: what the table shows is a store of sessions. *)

\* A session, the one of a row, a store without the sessions T, and a store with
\* one more.
SessionFor(o, d) == [owner |-> o, data |-> d]

Session(r) == [owner |-> r.ref_id, data |-> r.data]

Cut(f, T) == [t \in DOMAIN f \ T |-> f[t]]

Extend(f, t, s) == [u \in DOMAIN f \cup {t} |-> IF u = t THEN s ELSE f[u]]

Renamed(f, old, new, s) == IF old \in DOMAIN f THEN Extend(Cut(f, {old}), new, s) ELSE f

\* The value of Stored for a table.
Image(tbl) ==
  [ t \in { r.token : r \in { s \in tbl : s.type = SessionType } } |->
      LET row == CHOOSE r \in tbl : r.token = t /\ r.type = SessionType
      IN  [owner |-> row.ref_id, data |-> row.data] ]

\* Each session has one row, so its token determines its owner and its data.
LEMMA ImageAt ==
  ASSUME NEW tbl, NEW gen, NEW iss, NEW end, StoreOK(tbl, gen, iss, end)
  PROVE  /\ \A t : t \in DOMAIN Image(tbl) <=>
                     \E r \in tbl : r.type = SessionType /\ r.token = t
         /\ \A r \in tbl : r.type = SessionType => Image(tbl)[r.token] = Session(r)
  <1>1. \A t : t \in DOMAIN Image(tbl) <=>
                 \E r \in tbl : r.type = SessionType /\ r.token = t
    BY DEF Image
  <1>2. ASSUME NEW r \in tbl, r.type = SessionType
        PROVE  Image(tbl)[r.token] = Session(r)
    <2> DEFINE row == CHOOSE s \in tbl : s.token = r.token /\ s.type = SessionType
    <2>1. row \in tbl /\ row.token = r.token /\ row.type = SessionType
      BY <1>2
    <2>2. row = r
      BY <1>2, <2>1 DEF StoreOK
    <2>3. Image(tbl)[r.token] = [owner |-> row.ref_id, data |-> row.data]
      BY <1>2 DEF Image
    <2> QED
      BY <2>2, <2>3 DEF Session
  <1> QED
    BY <1>1, <1>2

\* A function with the sessions of a table for values is what it shows.
LEMMA ImageIs ==
  ASSUME NEW tbl, NEW gen, NEW iss, NEW end, StoreOK(tbl, gen, iss, end),
         NEW D, NEW g, g = [t \in D |-> g[t]],
         \A t : t \in D <=> \E r \in tbl : r.type = SessionType /\ r.token = t,
         \A r \in tbl : r.type = SessionType => g[r.token] = Session(r)
  PROVE  Image(tbl) = g
  <1>1. Image(tbl) = [t \in DOMAIN Image(tbl) |-> Image(tbl)[t]]
    BY DEF Image
  <1>2. DOMAIN Image(tbl) = D
    BY ImageAt
  <1>3. \A t \in D : Image(tbl)[t] = g[t]
    BY ImageAt
  <1> HIDE DEF Image
  <1> QED
    BY <1>1, <1>2, <1>3

\* Rows that share a token are of the same type.
LEMMA TokenHasType ==
  ASSUME NEW tbl, NEW gen, NEW iss, NEW end, StoreOK(tbl, gen, iss, end),
         NEW r \in tbl, NEW s \in tbl, r.token = s.token, r.type = SessionType
  PROVE  s.type = SessionType
  <1>1. iss[r.token] = r.ref_id /\ r.ref_id \in Ref
    BY DEF StoreOK, RowOK, Row
  <1> QED
    BY <1>1, TableAssumption DEF StoreOK, RowOK

\* Tokens.Delete ends one session, if it is there.
LEMMA ImageDelete ==
  ASSUME NEW tbl, NEW gen, NEW iss, NEW end, StoreOK(tbl, gen, iss, end), NEW tok
  PROVE  Image(DeleteToken(tbl, tok)) =
           [t \in DOMAIN Image(tbl) \ {tok} |-> Image(tbl)[t]]
  <1> DEFINE tbl2 == DeleteToken(tbl, tok)
             D == DOMAIN Image(tbl) \ {tok}
             g == [t \in D |-> Image(tbl)[t]]
  <1>1. \A r : r \in tbl2 <=> r \in tbl /\ r.token # tok
    BY DEF DeleteToken
  <1> HIDE DEF tbl2
  <1>2. StoreOK(tbl2, gen, iss, end)
    BY <1>1 DEF StoreOK
  <1>3. \A t : t \in D <=> \E r \in tbl2 : r.type = SessionType /\ r.token = t
    BY <1>1, ImageAt
  <1>4. \A r \in tbl2 : r.type = SessionType => g[r.token] = Session(r)
    BY <1>1, <1>3, ImageAt
  <1>5. g = [t \in D |-> g[t]]
    OBVIOUS
  <1> HIDE DEF D, g
  <1>6. Image(tbl2) = g
    BY <1>2, <1>3, <1>4, <1>5, ImageIs
  <1> QED
    BY <1>6 DEF tbl2, D, g

\* Tokens.DeleteByTypeRef ends all the sessions of an account.
LEMMA ImageDeleteRef ==
  ASSUME NEW tbl, NEW gen, NEW iss, NEW end, StoreOK(tbl, gen, iss, end), NEW ref
  PROVE  Image(DeleteTypeRef(tbl, SessionType, ref)) =
           [ t \in DOMAIN Image(tbl) \ {u \in DOMAIN Image(tbl) : Image(tbl)[u].owner = ref} |->
               Image(tbl)[t] ]
  <1> DEFINE tbl2 == DeleteTypeRef(tbl, SessionType, ref)
             D == DOMAIN Image(tbl) \ {u \in DOMAIN Image(tbl) : Image(tbl)[u].owner = ref}
             g == [t \in D |-> Image(tbl)[t]]
  <1>1. \A r : r \in tbl2 <=> r \in tbl /\ ~(r.ref_id = ref /\ r.type = SessionType)
    BY DEF DeleteTypeRef
  <1> HIDE DEF tbl2
  <1>2. StoreOK(tbl2, gen, iss, end)
    BY <1>1 DEF StoreOK
  <1>3. \A r \in tbl : r.type = SessionType =>
          r.token \in DOMAIN Image(tbl) /\ Image(tbl)[r.token] = Session(r)
          /\ Image(tbl)[r.token].owner = r.ref_id
    BY ImageAt DEF Session
  <1>4. \A t : t \in D <=> \E r \in tbl2 : r.type = SessionType /\ r.token = t
    BY <1>1, <1>3, ImageAt
  <1>5. \A r \in tbl2 : r.type = SessionType => g[r.token] = Session(r)
    BY <1>1, <1>3, <1>4
  <1>6. g = [t \in D |-> g[t]]
    OBVIOUS
  <1> HIDE DEF D, g
  <1>7. Image(tbl2) = g
    BY <1>2, <1>4, <1>5, <1>6, ImageIs
  <1> QED
    BY <1>7 DEF tbl2, D, g

\* Tokens.New adds a session.
LEMMA ImageInsert ==
  ASSUME IInv, NEW f \in Token \ generated, NEW ref \in Ref, NEW abs \in Nat,
         NEW idle \in Nat, NEW d \in {JsonNull, AnonData}
  PROVE  Image(InsertToken(tokens_tokens, f, SessionArgs(ref, abs, idle, d), clock)) =
           Extend(Image(tokens_tokens), f, SessionFor(ref, d))
  <1> DEFINE tbl == tokens_tokens
             gen == generated
             iss == issued
             end == ended
             now == clock
  <1>a. /\ gen \in SUBSET Token /\ iss \in [Token -> Nullable(Ref)] /\ end \in SUBSET gen
        /\ now \in Nat /\ StoreOK(tbl, gen, iss, end)
    BY IInvParts DEF Others, StoreSound, Recorded
  <1> USE <1>a
  <1> DEFINE args == SessionArgs(ref, abs, idle, d)
             tbl2 == InsertToken(tbl, f, args, now)
             new == NewRow(f, args, now)
             D == DOMAIN Image(tbl) \cup {f}
             g == [ t \in D |-> IF t = f THEN [owner |-> ref, data |-> d] ELSE Image(tbl)[t] ]
  <1>0. StoreOK(tbl2, gen \cup {f}, [iss EXCEPT ![f] = ref], end)
    BY InsertOK
  <1>1. d \in Data /\ d # Null
    BY SessionsAssumption, NullIsNone
  <1>2. /\ args \in TokenArgs /\ ~args.SingleUse
        /\ args.Type = SessionType /\ args.RefID = ref /\ args.Data = d
    BY <1>1, SessionArgsFields
  <1> HIDE DEF args
  <1>3. tbl2 = tbl \cup {new}
    <2>1. Conflicts(tbl, args) = {}
      BY <1>2 DEF Conflicts
    <2> QED
      BY <2>1, Zenon DEF InsertToken
  <1>4. new.token = f /\ new.type = SessionType /\ Session(new) = [owner |-> ref, data |-> d]
    BY <1>1, <1>2 DEF NewRow, NewData, Session
  <1> HIDE DEF new, tbl2
  <1>5. \A r \in tbl : r.token # f
    BY DEF StoreOK, RowOK
  <1>6. \A t : t \in D <=> \E r \in tbl2 : r.type = SessionType /\ r.token = t
    BY <1>3, <1>4, ImageAt
  <1>7. ASSUME NEW r \in tbl2, r.type = SessionType PROVE g[r.token] = Session(r)
    <2>1. CASE r = new
      BY <1>4, <2>1
    <2>2. CASE r \in tbl
      BY <1>5, <1>6, <1>7, <2>2, ImageAt
    <2> QED
      BY <1>3, <2>1, <2>2
  <1>8. g = [t \in D |-> g[t]]
    OBVIOUS
  <1> HIDE DEF D, g
  <1>9. Image(tbl2) = g
    BY <1>0, <1>6, <1>7, <1>8, ImageIs
  <1> QED
    BY <1>9 DEF tbl2, D, g, args, Extend, SessionFor

\* Tokens.Rotate gives a session that is there to an account, under a new token.
LEMMA ImageRotate ==
  ASSUME IInv, NEW old \in generated, issued[old] # Null, NEW f \in Token \ generated,
         NEW ref \in Ref, NEW abs \in Nat, NEW idle \in Nat, NEW d \in {JsonNull, AnonData}
  PROVE  Image(RotateToken(tokens_tokens, old, f, SessionArgs(ref, abs, idle, d), clock)) =
           Renamed(Image(tokens_tokens), old, f, SessionFor(ref, d))
  <1> DEFINE tbl == tokens_tokens
             gen == generated
             iss == issued
             end == ended
             now == clock
  <1>a. /\ gen \in SUBSET Token /\ iss \in [Token -> Nullable(Ref)] /\ end \in SUBSET gen
        /\ now \in Nat /\ StoreOK(tbl, gen, iss, end)
    BY IInvParts DEF Others, StoreSound, Recorded
  <1> USE <1>a
  <1> DEFINE args == SessionArgs(ref, abs, idle, d)
             tbl2 == RotateToken(tbl, old, f, args, now)
             img == Image(tbl)
             rest == [t \in DOMAIN img \ {old} |-> img[t]]
  <1>0. StoreOK(tbl2, gen \cup {f}, [iss EXCEPT ![f] = ref], end \cup {old})
    BY RotateOK
  <1>1. d \in Data /\ d # Null
    BY SessionsAssumption, NullIsNone
  <1>2. args \in TokenArgs /\ args.RefID = ref /\ args.Data = d
    BY <1>1, SessionArgsFields
  <1> HIDE DEF args
  <1>3. \A r \in tbl : r.token = old => r.type = SessionType /\ ~r.single_use
    BY DEF StoreOK, RowOK
  <1>4. \A s : s \in tbl2 <=>
          \/ s \in tbl /\ s.token # old
          \/ \E r \in tbl : r.token = old /\ s = RotatedRow(r, f, args, now)
    BY <1>3 DEF RotateToken
  <1>5. ASSUME NEW r \in tbl, r.token = old
        PROVE  LET s == RotatedRow(r, f, args, now)
               IN  /\ s.token = f /\ s.type = SessionType
                   /\ Session(s) = [owner |-> ref, data |-> d]
    <2>1. r \in Row
      BY DEF StoreOK
    <2> QED
      BY <1>1, <1>2, <1>3, <1>5, <2>1 DEF RotatedRow, Row, Session
  <1>6. \A r \in tbl : r.token # f
    BY DEF StoreOK, RowOK
  <1> HIDE DEF tbl2
  <1>7. CASE old \in DOMAIN img
    <2> DEFINE D == DOMAIN rest \cup {f}
               g == [ t \in D |-> IF t = f THEN [owner |-> ref, data |-> d] ELSE rest[t] ]
    <2>1. PICK r0 \in tbl : r0.token = old
      BY <1>7, ImageAt
    <2>2. DOMAIN rest = DOMAIN img \ {old} /\ \A t \in DOMAIN rest : rest[t] = img[t]
      OBVIOUS
    <2> HIDE DEF rest
    <2>3. ASSUME NEW t PROVE t \in D <=> \E r \in tbl2 : r.type = SessionType /\ r.token = t
      <3>1. ASSUME t \in DOMAIN rest PROVE \E r \in tbl2 : r.type = SessionType /\ r.token = t
        BY <1>4, <2>2, <3>1, ImageAt
      <3>2. \E r \in tbl2 : r.type = SessionType /\ r.token = f
        BY <1>4, <1>5, <2>1
      <3>3. ASSUME NEW r \in tbl2, r.type = SessionType, r.token = t PROVE t \in D
        BY <1>4, <1>5, <2>2, <3>3, ImageAt
      <3> QED
        BY <3>1, <3>2, <3>3
    <2>4. ASSUME NEW r \in tbl2, r.type = SessionType PROVE g[r.token] = Session(r)
      <3>1. CASE r \in tbl /\ r.token # old
        BY <1>6, <2>2, <2>4, <3>1, ImageAt
      <3>2. CASE r.token = f /\ Session(r) = [owner |-> ref, data |-> d]
        BY <3>2
      <3> QED
        BY <1>4, <1>5, <3>1, <3>2
    <2>5. g = [t \in D |-> g[t]]
      OBVIOUS
    <2> HIDE DEF D, g
    <2>6. Image(tbl2) = g
      BY <1>0, <2>3, <2>4, <2>5, ImageIs
    <2> QED
      BY <1>7, <2>6 DEF tbl2, D, g, args, rest, Extend, SessionFor, Cut, Renamed
  <1>8. CASE old \notin DOMAIN img
    <2>1. tbl2 = tbl
      BY <1>3, <1>4, <1>8, ImageAt
    <2> QED
      BY <1>8, <2>1 DEF tbl2, args, Renamed
  <1> QED
    BY <1>7, <1>8

\* Tokens.UpdateData saves the data of a session that is there.
LEMMA ImageSetData ==
  ASSUME NEW tbl, NEW gen, NEW iss, NEW end, StoreOK(tbl, gen, iss, end),
         NEW tok, NEW d \in Data, StoreOK(SetData(tbl, tok, d), gen, iss, end)
  PROVE  Image(SetData(tbl, tok, d)) =
           IF tok \in DOMAIN Image(tbl) THEN [Image(tbl) EXCEPT ![tok].data = d]
           ELSE Image(tbl)
  <1> DEFINE tbl2 == SetData(tbl, tok, d)
             img == Image(tbl)
             D == DOMAIN img
             g == IF tok \in D THEN [img EXCEPT ![tok].data = d] ELSE img
  <1>0. img = [t \in D |-> img[t]] /\ D = DOMAIN img
    BY DEF Image
  <1> HIDE DEF img
  <1>1. \A s : s \in tbl2 <=> \E r \in tbl : s = IF r.token = tok THEN WithData(r, d) ELSE r
    BY DEF SetData
  <1>2. ASSUME NEW r \in tbl
        PROVE  LET s == WithData(r, d)
               IN  s.token = r.token /\ s.type = r.type /\ s.ref_id = r.ref_id /\ s.data = d
    BY DEF StoreOK, WithData, Row
  <1> HIDE DEF tbl2
  <1>3. ASSUME NEW t PROVE t \in D <=> \E r \in tbl2 : r.type = SessionType /\ r.token = t
    BY <1>1, <1>2, ImageAt DEF img
  <1>4. ASSUME NEW s \in tbl2, s.type = SessionType PROVE g[s.token] = Session(s)
    <2>1. PICK r \in tbl : s = IF r.token = tok THEN WithData(r, d) ELSE r
      BY <1>1
    <2>2. /\ r.type = SessionType /\ r.token = s.token
          /\ img[r.token] = [owner |-> r.ref_id, data |-> r.data] /\ r.token \in D
      BY <1>2, <1>4, <2>1, ImageAt DEF img, Session
    <2>3. CASE r.token = tok
      BY <1>0, <1>2, <2>1, <2>2, <2>3 DEF Session
    <2>4. CASE r.token # tok
      BY <1>0, <2>1, <2>2, <2>4 DEF Session
    <2> QED
      BY <2>3, <2>4
  <1>5. g = [t \in D |-> g[t]]
    BY <1>0
  <1> HIDE DEF D, g
  <1>6. Image(tbl2) = g
    BY <1>3, <1>4, <1>5, ImageIs DEF tbl2
  <1> QED
    BY <1>6 DEF tbl2, D, g, img

\* Tokens.Verify does not show.
LEMMA ImageVerify ==
  ASSUME NEW tbl, NEW gen \in SUBSET Token, NEW iss, NEW end, StoreOK(tbl, gen, iss, end),
         NEW tok \in tbl, NEW now \in Nat
  PROVE  Image(VerifyWrite(tbl, tok, now)) = Image(tbl)
  <1> DEFINE tbl2 == VerifyWrite(tbl, tok, now)
             D == DOMAIN Image(tbl)
             g == Image(tbl)
  <1>0. StoreOK(tbl2, gen, iss, end)
    BY VerifyOK
  <1>1. g = [t \in D |-> g[t]]
    BY DEF Image
  <1>2. ASSUME NEW r \in tbl
        PROVE  LET s == IdleReset(r, now)
               IN  s.token = r.token /\ s.type = r.type /\ s.ref_id = r.ref_id /\ s.data = r.data
    BY DEF StoreOK, IdleReset, Row
  <1>3. ASSUME NEW s \in tbl2, s.type = SessionType
        PROVE  \E r \in tbl : /\ r.type = SessionType /\ r.token = s.token
                              /\ Session(r) = Session(s)
    <2>1. s \in tbl \/ \E r \in tbl : s = IdleReset(r, now)
      BY DEF VerifyWrite, DeleteToken, ResetIdleToken
    <2> QED
      BY <1>2, <1>3, <2>1 DEF Session
  <1>4. ASSUME NEW r \in tbl, r.type = SessionType
        PROVE  \E s \in tbl2 : s.type = SessionType /\ s.token = r.token
    <2>1. CASE tok.single_use
      <3>1. tok.type # SessionType
        BY <2>1 DEF StoreOK, RowOK
      <3>2. r.token # tok.token
        BY <1>4, <3>1, TokenHasType
      <3> QED
        BY <1>4, <2>1, <3>2 DEF VerifyWrite, DeleteToken
    <2>2. CASE ~tok.single_use /\ tok.idle # Null
      <3>1. tbl2 = ResetIdleToken(tbl, tok.token, now)
        BY <2>2 DEF VerifyWrite
      <3>2. CASE r.token = tok.token /\ ~r.single_use
        <4>1. IdleReset(r, now) \in tbl2
          BY <3>1, <3>2 DEF ResetIdleToken
        <4> QED
          BY <1>2, <1>4, <4>1
      <3>3. CASE ~(r.token = tok.token /\ ~r.single_use)
        <4>1. r \in tbl2
          BY <3>1, <3>3 DEF ResetIdleToken
        <4> QED
          BY <1>4, <4>1
      <3> QED
        BY <3>2, <3>3
    <2>3. CASE ~tok.single_use /\ tok.idle = Null
      BY <1>4, <2>3 DEF VerifyWrite
    <2> QED
      BY <2>1, <2>2, <2>3
  <1> HIDE DEF tbl2, D, g
  <1>5. \A t : t \in D <=> \E s \in tbl2 : s.type = SessionType /\ s.token = t
    BY <1>3, <1>4, ImageAt DEF D
  <1>6. \A s \in tbl2 : s.type = SessionType => g[s.token] = Session(s)
    BY <1>3, ImageAt DEF g
  <1>7. Image(tbl2) = g
    BY <1>0, <1>1, <1>5, <1>6, ImageIs
  <1> QED
    BY <1>7 DEF tbl2, g

\* The steps that show, as the step of SessionStore that each one is.
LEMMA StoreStep ==
  ASSUME IInv, NEW q \in Req
  PROVE  /\ LoginNew(q) \/ SaveNew(q) => Store!Open
         /\ LoginRotate(q) => Store!Upgrade
         /\ LoginDrop(q) \/ Logout(q) => Store!End \/ UNCHANGED Store!vars
         /\ Purge(q) \/ Delete(q) => Store!EndAll
         /\ SaveExisting(q) => Store!Save \/ UNCHANGED Store!vars
         /\ Verify(q) => UNCHANGED Store!vars
  <1> DEFINE r == req[q]
             tbl == tokens_tokens
             img == Image(tokens_tokens)
  <1>0. Stored = img /\ Stored' = Image(tokens_tokens')
    BY DEF Stored, Image, SessionRow
  <1>1. /\ generated \in SUBSET Token /\ issued \in [Token -> Nullable(Ref)] /\ clock \in Nat
        /\ ended \in SUBSET generated /\ StoreOK(tbl, generated, issued, ended)
    BY IInvParts DEF Others, StoreSound, Recorded
  <1>2. r \in Request /\ RequestOK(r, generated, issued, deleted)
    BY RequestHere
  <1>3. \A ref \in Ref, d \in Data : SessionFor(ref, d) \in Store!Session
    BY DEF Store!Session, SessionFor
  <1>4. JsonNull \in Data /\ AnonData \in Data /\ NilID \in Ref
    BY SessionsAssumption
  <1>5. ASSUME LoginNew(q) PROVE Store!Open
    <2>1. PICK f \in Token \ generated, expiry \in authenticatedSessionDurations :
            /\ tokens_tokens' = InsertToken(tbl, f, SessionArgs(r.target, expiry, 0, LoginData(r)), clock)
            /\ generated' = generated \cup {f}
      BY <1>5 DEF LoginNew
    <2>2. LoginData(r) \in {JsonNull, AnonData} /\ r.target \in Ref
      BY <1>1, <1>2, <1>5, LoggedInOK DEF LoginNew, Step
    <2>3. expiry \in Nat /\ 0 \in Nat
      BY DurationsNat
    <2> DEFINE s == SessionFor(r.target, LoginData(r))
    <2>4. Stored' = Extend(Stored, f, s)
      <3>1. Image(tokens_tokens') = Extend(img, f, s)
        BY <2>1, <2>2, <2>3, ImageInsert
      <3> QED
        BY <1>0, <3>1
    <2>5. s \in Store!Session
      BY <1>3, <1>4, <2>2
    <2> QED
      BY <2>1, <2>4, <2>5 DEF Store!Open, Store!With, Extend
  <1>6. ASSUME SaveNew(q) PROVE Store!Open
    <2>1. PICK f \in Token \ generated :
            /\ tokens_tokens' =
                 InsertToken(tbl, f, SessionArgs(NilID, anonymousSessionDuration,
                                                 idleAnonymousSessionDuration, r.data), clock)
            /\ generated' = generated \cup {f}
      BY <1>6 DEF SaveNew
    <2>2. r.data \in {JsonNull, AnonData}
      BY <1>2, <1>6 DEF SaveNew, Step, RequestOK, Handling, Owner
    <2> DEFINE s == SessionFor(NilID, r.data)
    <2>3. Stored' = Extend(Stored, f, s)
      <3>1. Image(tokens_tokens') = Extend(img, f, s)
        BY <1>4, <2>1, <2>2, DurationsNat, ImageInsert
      <3> QED
        BY <1>0, <3>1
    <2>4. s \in Store!Session
      BY <1>3, <1>4, <2>2
    <2> QED
      BY <2>1, <2>3, <2>4 DEF Store!Open, Store!With, Extend
  <1>7. ASSUME LoginRotate(q) PROVE Store!Upgrade
    <2>1. PICK f \in Token \ generated, expiry \in authenticatedSessionDurations :
            /\ tokens_tokens' = RotateToken(tbl, r.id, f,
                                  SessionArgs(r.target, expiry, 0, LoginData(r)), clock)
            /\ generated' = generated \cup {f}
      BY <1>7 DEF LoginRotate
    <2>2. /\ LoginData(r) \in {JsonNull, AnonData} /\ r.target \in Ref /\ r.target # NilID
      BY <1>1, <1>2, <1>7, LoggedInOK DEF LoginRotate, Step
    <2>3. r.id \in generated /\ issued[r.id] = NilID /\ issued[r.id] # Null
      BY <1>2, <1>7, NullIsNone DEF LoginRotate, RequestOK, Identified
    <2>4. expiry \in Nat /\ 0 \in Nat
      BY DurationsNat
    <2> DEFINE s == SessionFor(r.target, LoginData(r))
    <2>5. Stored' = IF r.id \in DOMAIN Stored THEN Extend(Cut(Stored, {r.id}), f, s)
                    ELSE Stored
      <3>1. Image(tokens_tokens') = Renamed(img, r.id, f, s)
        BY <2>1, <2>2, <2>3, <2>4, ImageRotate
      <3> QED
        BY <1>0, <3>1 DEF Renamed
    <2>6. s \in Store!Session /\ s.owner = r.target
      BY <1>3, <1>4, <2>2 DEF SessionFor
    <2>7. r.id \in DOMAIN Stored => Stored[r.id].owner = NilID
      <3> SUFFICES ASSUME r.id \in DOMAIN Stored PROVE Stored[r.id].owner = NilID
        OBVIOUS
      <3>1. PICK row \in tbl : row.type = SessionType /\ row.token = r.id
        BY <1>0, <1>1, ImageAt
      <3>2. Stored[r.id] = [owner |-> row.ref_id, data |-> row.data]
        BY <1>0, <1>1, <3>1, ImageAt DEF Session
      <3>3. row.ref_id = NilID
        BY <1>1, <2>3, <3>1 DEF StoreOK, RowOK
      <3> QED
        BY <3>2, <3>3
    <2>8. Store!Without({r.id}) = Cut(Stored, {r.id})
      BY DEF Store!Without, Cut
    <2> QED
      BY <2>1, <2>2, <2>3, <2>5, <2>6, <2>7, <2>8 DEF Store!Upgrade, Store!With, Extend
  <1>8. ASSUME LoginDrop(q) \/ Logout(q) PROVE Store!End \/ UNCHANGED Store!vars
    <2>1. tokens_tokens' = DeleteToken(tbl, r.id) /\ generated' = generated
      BY <1>8 DEF LoginDrop, Logout
    <2>2. Stored' = [t \in DOMAIN Stored \ {r.id} |-> Stored[t]]
      <3>1. Image(tokens_tokens') = [t \in DOMAIN img \ {r.id} |-> img[t]]
        BY <1>1, <2>1, ImageDelete
      <3> QED
        BY <1>0, <3>1, Zenon
    <2>3. CASE r.id \in DOMAIN Stored
      BY <2>1, <2>2, <2>3 DEF Store!End, Store!Without
    <2>4. CASE r.id \notin DOMAIN Stored
      <3>1. Stored = [t \in DOMAIN Stored |-> Stored[t]]
        BY DEF Stored
      <3>2. DOMAIN Stored \ {r.id} = DOMAIN Stored
        BY <2>4
      <3>3. Stored' = Stored
        BY <2>2, <3>1, <3>2
      <3> QED
        BY <2>1, <3>3 DEF Store!vars
    <2> QED
      BY <2>3, <2>4
  <1>9. ASSUME Purge(q) \/ Delete(q) PROVE Store!EndAll
    <2>1. PICK o \in AcctID : /\ tokens_tokens' = DeleteTypeRef(tbl, SessionType, o)
                              /\ generated' = generated
      <3>1. CASE Purge(q)
        <4>1. r.ref \in AcctID
          BY <1>2, <3>1 DEF Purge, Step, RequestOK, Loading
        <4> QED
          BY <3>1, <4>1 DEF Purge
      <3>2. CASE Delete(q)
        <4>1. r.acct \in AcctID
          BY <3>2, RequestHere DEF Delete, Nullable
        <4> QED
          BY <3>2, <4>1 DEF Delete
      <3> QED
        BY <1>9, <3>1, <3>2
    <2>2. Stored' = [ t \in DOMAIN Stored \ {u \in DOMAIN Stored : Stored[u].owner = o} |->
                        Stored[t] ]
      <3>1. Image(tokens_tokens') =
              [t \in DOMAIN img \ {u \in DOMAIN img : img[u].owner = o} |-> img[t]]
        BY <1>1, <2>1, ImageDeleteRef
      <3> QED
        BY <1>0, <3>1, Zenon
    <2>3. o \in Ref \ {NilID}
      BY SessionsAssumption
    <2> QED
      BY <2>1, <2>2, <2>3 DEF Store!EndAll, Store!Without
  <1>10. ASSUME SaveExisting(q) PROVE Store!Save \/ UNCHANGED Store!vars
    <2>1. tokens_tokens' = SetData(tbl, r.id, r.data) /\ generated' = generated
      BY <1>10 DEF SaveExisting, SaveData
    <2>2. r.data \in Data
      BY RequestHere
    <2>3. StoreOK(tokens_tokens', generated, issued, ended)
      <3>1. IInv' /\ UNCHANGED <<generated, issued, ended>>
        BY <1>10, SaveExistingStep DEF SaveExisting, history
      <3>2. StoreSound'
        BY <3>1, IInvParts, PTL
      <3> QED
        BY <3>1, <3>2 DEF StoreSound
    <2>4. Stored' = IF r.id \in DOMAIN Stored THEN [Stored EXCEPT ![r.id].data = r.data]
                    ELSE Stored
      BY <1>0, <1>1, <2>1, <2>2, <2>3, ImageSetData
    <2> QED
      BY <2>1, <2>2, <2>4 DEF Store!Save, Store!vars
  <1>11. ASSUME Verify(q) PROVE UNCHANGED Store!vars
    <2>1. generated' = generated
      BY <1>11 DEF Verify
    <2>2. tokens_tokens' = tbl \/ \E tok \in tbl : tokens_tokens' = VerifyWrite(tbl, tok, clock)
      BY <1>11 DEF Verify, SelectToken
    <2>3. Stored' = Stored
      BY <1>0, <1>1, <2>2, ImageVerify
    <2> QED
      BY <2>1, <2>3 DEF Store!vars
  <1> QED
    BY <1>5, <1>6, <1>7, <1>8, <1>9, <1>10, <1>11

\* The requests, however they interleave, are to an observer of the table a
\* store of sessions: each step is one of SessionStore, or does not show.
THEOREM SessionsAreAStore == Spec => ImplementsStore
  <1>1. Init => Store!Init
    <2> SUFFICES ASSUME Init PROVE Store!Init
      OBVIOUS
    <2>1. \A r \in tokens_tokens : r.type # SessionType
      BY SessionsAssumption DEF Init
    <2>2. { r.token : r \in { s \in tokens_tokens : s.type = SessionType } } = {}
      BY <2>1
    <2>3. Stored = [t \in {} |-> NilID]
      BY <2>2 DEF Stored
    <2>4. generated \in SUBSET Token
      BY SessionsAssumption DEF Init, Row
    <2> QED
      BY <2>3, <2>4 DEF Store!Init
  <1>2. IInv /\ [Next]_vars => [Store!Next]_(Store!vars)
    <2> SUFFICES ASSUME IInv, [Next]_vars PROVE Store!Next \/ UNCHANGED Store!vars
      OBVIOUS
    <2>1. CASE UNCHANGED <<tokens_tokens, generated>>
      BY <2>1 DEF Store!vars, Stored, SessionRow
    <2>2. ASSUME NEW q \in Req,
                 \/ LoginNew(q) \/ SaveNew(q) \/ LoginRotate(q) \/ LoginDrop(q) \/ Logout(q)
                 \/ Purge(q) \/ Delete(q) \/ SaveExisting(q) \/ Verify(q)
          PROVE  Store!Next \/ UNCHANGED Store!vars
      BY <2>2, StoreStep DEF Store!Next
    <2>3. ASSUME NEW q \in Req,
                 \/ Start(q) \/ LoadAccount(q) \/ LoginLookup(q) \/ Register(q) \/ App(q)
                 \/ Fail(q) \/ Respond(q)
          PROVE  UNCHANGED <<tokens_tokens, generated>>
      BY <2>3 DEF Start, LoadAccount, LoginLookup, Register, App, Fail, Respond
    <2>4. Tick \/ UNCHANGED vars => UNCHANGED <<tokens_tokens, generated>>
      BY DEF Tick, vars
    <2> QED
      BY <2>1, <2>2, <2>3, <2>4 DEF Next
  <1> QED
    BY <1>1, <1>2, Inductive, PTL DEF Spec, ImplementsStore, Store!Spec
===============================================================================
