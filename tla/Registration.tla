----------------------------- MODULE Registration -----------------------------
(***************************************************************************)
(* Handlers that decode the parameters of a request, inside of a stack of  *)
(* middleware: one of the application ("Decode", with a struct type of its *)
(* own) and Register of package acctmw, with accounts.Create and the tags  *)
(* on the errors that ErrorHandler gets.  ErrorHandler is the application's *)
(* and answers as the comment on it recommends: errors.Code, or 500.       *)
(***************************************************************************)
EXTENDS Middleware, Params

CONSTANTS
  AppStruct,         \* the struct type of the application
  AppRequests,       \* requests for it
  RegisterRequests   \* requests to register

\* A tag is on a field of the struct.  Of a stack that decodes twice only one
\* handler would be recorded.
ASSUME RegistrationAssumption ==
  /\ \A s \in Stacks : \A i, j \in 1..Len(s) : s[i] = "Decode" => s[j] # "Register"
  /\ AppStruct.path \cup AppStruct.schema \cup AppStruct.json \cup DOMAIN AppStruct.cookie
       \subseteq AppStruct.fields
  /\ \A in \in AppRequests \cup RegisterRequests :
       DOMAIN in = { "path", "cookies", "query", "method", "body", "values",
                     "readable", "long", "tail" }

VARIABLE reg  \* the request, and what became of it:
              \* input    its parameters
              \* dst      the decoded values
              \* err      what ErrorHandler got
              \* stored   the account is in accounts_accounts
              \* passed   the handler inside was called

rvars == <<vars, reg>>

AccountsTag == "accounts"

registerInput ==
  LET F == {"email", "password", "password2"}
  IN [fields |-> F, path |-> {}, schema |-> F, json |-> F, cookie |-> Nothing, pointer |-> {}]

Requests ==
  CASE Has("Register") -> RegisterRequests
    [] Has("Decode") -> AppRequests
    [] OTHER -> {Nothing}

RInit ==
  /\ Init
  /\ \E in \in Requests :
       reg = [input |-> in, dst |-> Nothing, err |-> Nil, stored |-> FALSE, passed |-> FALSE]

-----------------------------------------------------------------------------
Meta(code, parameter) ==
  [code |-> code, parameter |-> parameter, action |-> "register"]

BadRequest == [code |-> "400", action |-> "register"]

validateEmail(email) ==
  IF email \in {"", "no at"} THEN TagNew("email", AccountsTag, Meta("400", "email")) ELSE Nil

validatePassword(pwd) ==
  IF pwd = "" THEN TagNew("password", AccountsTag, Meta("400", "password")) ELSE Nil

ValidateRegister(i) ==
  CASE validateEmail(i.email) # Nil -> validateEmail(i.email)
    [] validatePassword(i.password) # Nil -> validatePassword(i.password)
    [] i.password # i.password2 -> TagNew("match", AccountsTag, Meta("400", "password2"))
    [] OTHER -> Nil

\* What LimitRequestBodyBytes leaves of the request.
Limited ==
  [reg.input EXCEPT !.readable = @ /\ ~(reg.input.long /\ Has("LimitRequestBodyBytes"))]

\* A refused request is answered with the writer of the level above.
Refuse(g, e) ==
  LET code == IF Code(e) = 0 THEN 500 ELSE Code(e)
      at == gor[g].at
  IN GoesOn(g, "leave", at, Error(code, "refusal", at))

Others == <<stack, conn, tw, custom, metrics, pairs, logged, steps, rate, clock, crashed>>

\* The application decodes, and refuses what cannot be decoded.
EnterDecode(g) ==
  /\ Enters(g, "Decode")
  /\ LET d == Decode(AppStruct, Limited, Nil)
         e == Tag(d.err, "app", [code |-> "400"])
     IN /\ reg' = [reg EXCEPT !.dst = d.dst, !.err = e, !.passed = d.err = Nil]
        /\ IF e = Nil THEN Inside(g) ELSE Refuse(g, e)
  /\ UNCHANGED Others

\* An error of Decode that does not come from Validate.
DecodeError(e) == IF IsTag(e, AccountsTag) THEN e ELSE Tag(e, AccountsTag, BadRequest)

\* Register up to the password: the application's PasswordValidator may refuse it.
EnterRegister(g) ==
  /\ Enters(g, "Register")
  /\ \E verdict \in {Nil, New("weak")} :
       LET d == Decode(registerInput, Limited, ValidateRegister(Assigned(registerInput, Limited)))
           e == IF d.err # Nil THEN DecodeError(d.err) ELSE Tag(verdict, AccountsTag, BadRequest)
       IN /\ reg' = [reg EXCEPT !.dst = d.dst, !.err = e]
          /\ IF e = Nil THEN gor' = [gor EXCEPT ![g].pc = "creating"] ELSE Refuse(g, e)
  /\ UNCHANGED Others

\* Outcomes of a.register: the hash and the INSERT fail, the constraints of
\* accounts_accounts refuse the row, or it is stored; ByID is a statement, and
\* may fail, for itself.
Create ==
  { [stored |-> s, err |-> e] : s \in BOOLEAN, e \in {New("database")} }
  \cup { [stored |-> TRUE, err |-> Nil] }
  \cup { [stored |-> FALSE, err |-> TagNew("constraint", AccountsTag, meta)] :
           meta \in { [code |-> "409", parameter |-> "email"],
                      [code |-> "400", parameter |-> "email"],
                      [code |-> "500", parameter |-> "password"] } }

\* a.register adds the action to a tagged error.
registerError(e) == IF IsTag(e, AccountsTag) THEN WithKeyValue(e, "action", "register") ELSE e

RegisterCreates(g) ==
  /\ Ready(g, "creating")
  /\ \E o \in Create :
       LET e == registerError(o.err) IN
       /\ reg' = [reg EXCEPT !.stored = o.stored, !.err = e, !.passed = e = Nil]
       /\ IF e = Nil THEN GoesOn(g, "enter", gor[g].at + 1, <<>>) ELSE Refuse(g, e)
  /\ UNCHANGED Others

Reads(g) == EnterDecode(g) \/ EnterRegister(g) \/ RegisterCreates(g)

RNext ==
  \/ Next /\ UNCHANGED reg
  \/ ~crashed /\ \E g \in Goroutine : Reads(g)

RSpec == RInit /\ [][RNext]_rvars

\* The goroutines of Fairness go on where they read the request, too.
RFairSpec == RSpec /\ Fairness /\ \A g \in Goroutine : WF_rvars(~crashed /\ Reads(g))

-----------------------------------------------------------------------------
\* Where a field may come from, the sources that win last.
Sources(T, in) ==
  << [f \in T.path |-> in.path[f]],
     [f \in Cookies(T, in) |-> cookieValue(T, f, in.cookies[f])],
     IF in.body = "form" /\ in.method = "POST" THEN in.values ELSE Nothing,
     in.query,
     IF in.body = "json" THEN in.values ELSE Nothing >>

\* The value of field f of dst is the one of the last source that has it, and no
\* source has a name that is not a field.
FromLast(T, in, dst) ==
  LET src == Sources(T, in) IN
  /\ DOMAIN dst = T.fields
  /\ \A f \in T.fields, i \in DOMAIN src :
       f \in DOMAIN src[i] =>
         dst[f] = src[i][f] \/ \E j \in (i + 1)..Len(src) : f \in DOMAIN src[j]

\* params and acctmw: the handler inside runs on values that are each from the
\* source that wins, with no unknown name in what was read; for Register, once
\* the account is stored.  A client that is told of a mistake of its own (400,
\* 409) has changed nothing, also when a timeout or an errHandler comes in
\* between.  ErrorHandler gets the code and the action of every error that is
\* tagged, and nothing with one that is not.
AnswersTruthfully ==
  /\ reg.passed =>
       /\ FromLast(IF Has("Register") THEN registerInput ELSE AppStruct, reg.input, reg.dst)
       /\ Has("Register") => reg.stored
  /\ conn.status \in {400, 409} => ~reg.stored
  /\ Has("Register") /\ reg.err # Nil =>
       IF IsTag(reg.err, AccountsTag)
         THEN Code(reg.err) # 0 /\ KeyValue(reg.err, "action") = "register"
         ELSE reg.err.tags = <<>>
===============================================================================
