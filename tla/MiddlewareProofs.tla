--------------------------- MODULE MiddlewareProofs ----------------------------
(***************************************************************************)
(* For every stack of middleware, every limit and whatever the handler     *)
(* does: the rate of RequestLimit is kept, an answer that TimeoutHandler   *)
(* gave up is not sent, panics are recovered across goroutines, the pairs  *)
(* of ctxvals are shared only after a timeout, Logging logs what was sent, *)
(* an error that errHandler handled is the whole answer, and handlers that *)
(* read the request tell the client what they found in it.                 *)
(***************************************************************************)
EXTENDS Registration, SequenceTheorems, FiniteSetTheorems,
        WellFoundedInduction, TLAPS

-----------------------------------------------------------------------------
(* The inductive invariant. *)

Codes == {200, 400, 404, 406, 409, 415, 500, 503}

Who == {"handler", "error", "refusal", "limit", "timeout", "recover"}

Pc == {"off", "enter", "sleep", "handler", "setting", "leave", "consuming",
       "wait", "panic", "panicked", "hung", "ended", "aborted", "creating"}

\* The levels of the stack s.
Level(s) == 0..Len(s)

\* A call that is still to be made, with what those of W write; done: CustomErrors
\* has called errHandler.
CallOf(s, W, done) ==
  { c \in [op : {"header", "write", "copy", "handled"}, arg : Nat, src : SUBSET W,
           at : Level(s), metered : BOOLEAN] :
      /\ c.op = "header" => c.arg \in Codes
      /\ c.op = "handled" => done }

GorOf(s, done) == [pc : Pc, at : Level(s), todo : Seq(CallOf(s, Who, done)), until : Nat]

Answer == [status : Codes \cup {0}, bytes : Nat, src : SUBSET Who]

LogEntry == UNION { [{"status", "body_bytes_sent"} \cup K -> Int] : K \in SUBSET Key }

\* The variables of the request.  CustomErrors calls errHandler before an error
\* counts as handled.
Typed ==
  /\ stack \in Stacks
  /\ gor \in [Goroutine -> GorOf(stack, custom.called)]
  /\ conn \in Answer /\ tw \in [resp : Answer, err : BOOLEAN]
  /\ custom \in [noop : BOOLEAN, called : BOOLEAN, simple : BOOLEAN]
  /\ custom.noop => custom.called
  /\ metrics \in [Code : Codes, headerWritten : BOOLEAN, Written : Nat]
  /\ pairs \in [keys : SUBSET Key, use : SUBSET Goroutine]
  /\ logged \in Seq(LogEntry)
  /\ steps \in 0..MaxSteps /\ crashed \in BOOLEAN

\* The variables of RequestLimit.
TypedRate ==
  /\ bucket \in [avail : Int, tick : Nat] /\ bucket.avail <= Capacity /\ bucket.tick <= Tick(clock)
  /\ others \in Seq(Nat) /\ arrived \in 0..MaxOthers /\ admitted \in Nat /\ clock \in Nat

\* Where the two goroutines are: serve is past the start of inner, waits for it at
\* TimeoutHandler or is further out; and then inner has come to its end, or was
\* given up.
Control(s, v, n, err) ==
  /\ v.pc = "wait" => n.pc # "off"
  /\ n.pc # "off" =>
       /\ \E i \in 1..Len(s) : /\ s[i] = "TimeoutHandler" /\ n.at >= i
                               /\ v.pc = "wait" => v.at = i
                               /\ v.pc # "wait" => v.at < i
       /\ v.pc \in {"wait", "leave", "consuming", "ended", "panic", "aborted"}
       /\ n.pc \in {"ended", "panicked"} \/ v.pc = "wait" \/ err

\* Logging consumes the pairs at its own level, Register creates before it goes in.
AtLevel(s, r) ==
  /\ r.pc = "consuming" => r.at \in 1..Len(s) /\ s[r.at] = "Logging"
  /\ r.pc = "creating" => r.at + 1 \in 1..Len(s) /\ s[r.at + 1] = "Register"

\* A panic has passed no PanicRecovery.
Unrecovered(s, r) ==
  r.pc \in {"panic", "panicked", "aborted"} =>
    \A i \in (r.at + 1)..Len(s) : s[i] # "PanicRecovery"

\* It is kept at the level of TimeoutHandler, or ends the connection.
PanicLevel(s, v, n) ==
  /\ n.pc = "panicked" => n.at \in 1..Len(s) /\ s[n.at] = "TimeoutHandler"
  /\ v.pc = "aborted" => v.at = 0
  /\ n.pc # "aborted" /\ v.pc # "panicked"

\* No call has anything of the handler's.
NoHandler(s, todo) == todo \in Seq(CallOf(s, Who \ {"handler"}, TRUE))

\* On its way in a goroutine writes nothing, and when TimeoutHandler gave up the
\* handler is not in the answer, nor in what is still written.
Final(s, v, sent, err) ==
  /\ v.pc \in {"enter", "sleep", "creating", "wait"} =>
       v.todo = <<>> /\ "handler" \notin sent /\ ~err
  /\ err => /\ v.pc \in {"leave", "consuming", "ended"}
            /\ NoHandler(s, v.todo) /\ "handler" \notin sent

\* Who uses the map of the pairs.
Uses == \A g \in pairs.use : gor[g].pc \in {"setting", "consuming"}

Asleep(r) == IF r.pc = "sleep" THEN 1 ELSE 0

\* Asleep, with a token that has come at time t.
Due(r, t) == IF r.pc = "sleep" /\ r.until <= t THEN 1 ELSE 0

\* The tokens up to time t.
Tokens(t) == Capacity + quantum * Tick(t)

\* How many had, have or were promised a token, and how many of those who are not
\* among the others may be through at time t.
Promised == admitted + Len(others) + Asleep(gor["serve"]) + Asleep(gor["inner"])

Through(t) == admitted + Due(gor["serve"], t) + Due(gor["inner"], t)

\* The tokens that were taken are those that were there, with those to come.
Taken == Promised + bucket.avail <= Capacity + quantum * bucket.tick

\* At any later time t, those who were let through and those who may then be are
\* no more than the tokens.
NoneTooMany ==
  \A t \in Nat : t >= clock =>
    /\ Through(t) <= Tokens(t)
    /\ \A j \in 1..Len(others) : others[j] <= t => Through(t) + j <= Tokens(t)

\* A request that is still on its way to RequestLimit.
Before(s, r) == r.pc \in {"enter", "creating"} /\ \A i \in 1..r.at : s[i] # "RequestLimit"

\* It goes through RequestLimit once, and time ends when everybody is through.
Once ==
  LET before == \E g \in Goroutine : Before(stack, gor[g]) IN
  /\ Promised <= arrived + 1
  /\ before => Promised <= arrived
  /\ \A j \in 1..Len(others) : others[j] <= MaxClock + MaxWait
  /\ \A g \in Goroutine : gor[g].pc = "sleep" =>
       /\ gor[g].until <= MaxClock + 2 * MaxWait
       /\ gor[g].at \in 1..Len(stack) /\ stack[gor[g].at] = "RequestLimit"
  /\ clock <= MaxClock + 2 * MaxWait
  /\ before => clock <= MaxClock + MaxWait

\* The goroutines, the answer and the pairs.
Shape ==
  /\ Control(stack, gor["serve"], gor["inner"], tw.err)
  /\ \A g \in Goroutine : AtLevel(stack, gor[g]) /\ Unrecovered(stack, gor[g])
  /\ PanicLevel(stack, gor["serve"], gor["inner"])
  /\ Final(stack, gor["serve"], conn.src, tw.err)
  /\ Uses

Rate == TypedRate /\ Taken /\ NoneTooMany /\ Once

IInv == Typed /\ Shape /\ Rate

-----------------------------------------------------------------------------
(* The levels of a stack. *)

\* A stack has each middleware once.
LEMMA StackFacts ==
  ASSUME NEW s \in Stacks
  PROVE  /\ Len(s) \in Nat /\ DOMAIN s = 1..Len(s)
         /\ \A i \in 1..Len(s) : s[i] \in Names
         /\ \A i, j \in 1..Len(s) : s[i] = s[j] => i = j
  BY MiddlewareAssumption, LenProperties, ElementOfSeq

\* A middleware is at one level only.
LEMMA AtIs ==
  ASSUME stack \in Stacks, NEW i \in 1..Len(stack)
  PROVE  At(stack[i]) = i
  BY StackFacts DEF At

\* The writer of a level is the innermost that is wrapped, of those up to it.
LEMMA WriterIs ==
  ASSUME NEW i \in Nat
  PROVE  /\ Writer(i) \in 0..i /\ Wrapped(Writer(i))
         /\ \A k \in (Writer(i) + 1)..i : ~Wrapped(k)
  <1> DEFINE T == { k \in 0..i : Wrapped(i - k) }
             R == OpToRel(<, Nat)
  <1>1. T \subseteq Nat /\ i \in T
    BY DEF Wrapped
  <1>2. PICK k \in T : \A m \in T : <<m, k>> \notin R
    <2>1. T # {} /\ IsWellFoundedOn(R, Nat)
      BY <1>1, NatLessThanWellFounded
    <2> HIDE DEF T, R
    <2> QED
      BY <1>1, <2>1, WFMin
  <1>3. \A m \in T : ~(m < k)
    BY <1>1, <1>2 DEF OpToRel
  <1>4. i - k \in 0..i /\ Wrapped(i - k)
    OBVIOUS
  <1>5. ASSUME NEW m \in (i - k + 1)..i
        PROVE  ~Wrapped(m)
    <2>1. i - m \in 0..i /\ i - m < k /\ i - (i - m) = m
      BY <1>4
    <2> QED
      BY <2>1, <1>3
  <1> QED
    BY <1>4, <1>5 DEF Writer

\* There is a writer at or below every level.
LEMMA WriterLevel ==
  ASSUME NEW i \in Nat
  PROVE  Writer(i) \in 0..i
  BY WriterIs

-----------------------------------------------------------------------------
(* Calls of writers. *)

\* The fields of a call.
LEMMA CallFields ==
  ASSUME NEW s, NEW W, NEW done, NEW c \in CallOf(s, W, done)
  PROVE  /\ c.op \in {"header", "write", "copy", "handled"} /\ c.arg \in Nat
         /\ c.src \subseteq W /\ c.at \in Level(s) /\ c.metered \in BOOLEAN
         /\ c.op = "header" => c.arg \in Codes
         /\ c.op = "handled" => done
  BY DEF CallOf

\* A new one.
LEMMA NewCall ==
  ASSUME NEW s \in Stacks, s = stack, NEW W, NEW done \in BOOLEAN,
         NEW op \in {"header", "write", "copy", "handled"}, NEW arg \in Nat, NEW src \in W,
         NEW at \in Level(s), op = "header" => arg \in Codes, op = "handled" => done
  PROVE  Call(op, arg, src, at) \in CallOf(s, W, done)
  <1>1. Writer(at) \in Level(s)
    BY StackFacts, WriterLevel DEF Level
  <1>2. {src} \in SUBSET W
    OBVIOUS
  <1> QED
    BY <1>1, <1>2 DEF Call, CallOf

\* A call goes on to the writer below.
LEMMA BelowCall ==
  ASSUME NEW s \in Stacks, s = stack, NEW W, NEW done, NEW c \in CallOf(s, W, done), c.at > 0
  PROVE  Below(c) \in CallOf(s, W, done)
  <1>1. Writer(c.at - 1) \in Level(s)
    BY StackFacts, WriterLevel, CallFields DEF Level
  <1> QED
    BY <1>1, CallFields DEF Below, CallOf

\* One call to make.
LEMMA OneCall ==
  ASSUME NEW S, NEW a \in S
  PROVE  <<a>> \in Seq(S)
  OBVIOUS

\* Two calls to make, in their order.
LEMMA TwoCalls ==
  ASSUME NEW S, NEW a \in S, NEW b \in S
  PROVE  <<a, b>> \in Seq(S)
  OBVIOUS

\* The first call is replaced by others.
LEMMA Replaced ==
  ASSUME NEW S, NEW todo \in Seq(S), todo # <<>>, NEW calls \in Seq(S)
  PROVE  calls \o Tail(todo) \in Seq(S) /\ Head(todo) \in S
  BY HeadTailProperties, ConcatProperties

\* http.Error makes calls of its author only.
LEMMA ErrorCalls ==
  ASSUME NEW s \in Stacks, s = stack, NEW W, NEW done \in BOOLEAN,
         NEW code \in Codes, NEW src \in W, NEW at \in Level(s)
  PROVE  Error(code, src, at) \in Seq(CallOf(s, W, done))
  <1>1. Call("header", code, src, at) \in CallOf(s, W, done)
    BY NewCall DEF Codes
  <1>2. Call("write", 1, src, at) \in CallOf(s, W, done)
    BY NewCall
  <1> QED
    BY <1>1, <1>2, TwoCalls DEF Error

\* limitWrite passes the call on, or answers as the limit.
LEMMA LimitCalls ==
  ASSUME NEW s \in Stacks, s = stack, NEW W, "limit" \in W, NEW done \in BOOLEAN,
         NEW c \in CallOf(s, W, done), c.at > 0
  PROVE  LimitWrite(c) \in Seq(CallOf(s, W, done))
  <1>1. Below(c) \in CallOf(s, W, done) /\ c.at \in Level(s) /\ c.arg \in Nat
    BY BelowCall, CallFields
  <1>2. CASE c.op = "write" /\ c.arg > Limit
    <2> DEFINE d == [Below(c) EXCEPT !.arg = @ - (0 + c.arg - Limit)]
    <2>0. Below(c).arg = c.arg /\ Below(c).op = c.op
      BY CallFields DEF Below, CallOf
    <2>1. d \in CallOf(s, W, done)
      <3>1. Below(c).arg - (0 + c.arg - Limit) \in Nat
        BY <1>1, <2>0, MiddlewareAssumption
      <3> QED
        BY <1>1, <1>2, <2>0, <3>1 DEF CallOf
    <2>2. Call("header", 500, "limit", c.at) \in CallOf(s, W, done)
      BY <1>1, NewCall DEF Codes
    <2>3. LimitWrite(c) = <<Call("header", 500, "limit", c.at), d>>
      BY <1>1, <1>2, MiddlewareAssumption DEF LimitWrite
    <2> HIDE DEF d
    <2> QED
      BY <2>1, <2>2, <2>3, TwoCalls
  <1>3. CASE ~(c.op = "write" /\ c.arg > Limit)
    <2>1. LimitWrite(c) = <<Below(c)>>
      BY <1>1, <1>3, MiddlewareAssumption DEF LimitWrite
    <2> QED
      BY <1>1, <2>1, OneCall
  <1> QED
    BY <1>2, <1>3
-----------------------------------------------------------------------------
(* What a goroutine does, seen from outside: r before and q after a step in *)
(* the stack s, b the level that the goroutine returns to.                  *)

\* It calls a writer, which adds nothing of the handler's to what it has to do.
Writes(s, r, q) ==
  /\ r.todo # <<>> /\ q.pc = r.pc /\ q.at = r.at /\ q.until = r.until
  /\ NoHandler(s, r.todo) => NoHandler(s, q.todo)

GoesIn(s, r, q) ==
  /\ r.pc \in {"enter", "creating"} /\ q.todo = <<>>
  /\ r.at + 1 \in 1..Len(s) /\ s[r.at + 1] \notin {"RequestLimit", "TimeoutHandler"}
  /\ \/ q.pc = "enter" /\ q.at = r.at + 1
     \/ q.pc = "creating" /\ q.at = r.at /\ s[r.at + 1] = "Register"

Refused(r, q) == r.pc \in {"enter", "creating"} /\ q.pc = "leave" /\ q.at = r.at

Sleeps(s, r, q) ==
  /\ r.pc = "enter" /\ q.pc = "sleep" /\ q.todo = <<>>
  /\ q.at = r.at + 1 /\ q.at \in 1..Len(s) /\ s[q.at] = "RequestLimit"

Wakes(r, q) == r.pc = "sleep" /\ q.pc = "enter" /\ q.at = r.at /\ q.todo = <<>>

Handles(s, r, q) ==
  /\ r.pc \in {"enter", "handler", "setting"} /\ q.at = Len(s)
  /\ r.pc = "enter" => r.at = Len(s)
  /\ q.pc \in {"handler", "setting", "hung", "panic", "leave"}

GoesOut(s, b, r, q) ==
  /\ r.pc \in {"leave", "consuming"} /\ q.todo = <<>>
  /\ \/ q.pc = "consuming" /\ q.at = r.at /\ r.at \in 1..Len(s) /\ s[r.at] = "Logging"
     \/ q.pc = "leave" /\ r.at > b /\ q.at = r.at - 1
     \/ q.pc = "ended" /\ q.at = r.at

Panics(s, b, g, r, q) ==
  /\ r.pc = "panic"
  /\ \/ q.pc = "panic" /\ r.at > b /\ q.at = r.at - 1 /\ s[r.at] # "PanicRecovery"
     \/ q.pc = "leave" /\ r.at > b /\ q.at = r.at - 1
     \/ r.at = b /\ q.at = b /\ q.pc = IF g = "inner" THEN "panicked" ELSE "aborted"

\* A move other than to and from the sleep of RequestLimit, and any move.
Move(s, b, g, r, q) ==
  \/ Writes(s, r, q) \/ GoesIn(s, r, q) \/ Refused(r, q)
  \/ Handles(s, r, q) \/ GoesOut(s, b, r, q) \/ Panics(s, b, g, r, q)

AnyMove(s, b, g, r, q) == Move(s, b, g, r, q) \/ Sleeps(s, r, q) \/ Wakes(r, q)

\* A step of g alone.  Only serve writes to the connection, and who is done with
\* the pairs does not use them.
Alone(g) ==
  /\ stack' = stack /\ tw'.err = tw.err
  /\ \A h \in Goroutine : h # g => gor'[h] = gor[h]
  /\ \/ conn'.src = conn.src
     \/ /\ g = "serve" /\ gor[g].todo # <<>>
        /\ NoHandler(stack, gor[g].todo) /\ "handler" \in conn'.src => "handler" \in conn.src
  /\ pairs'.use \subseteq pairs.use \cup {g}
  /\ g \in pairs'.use => gor'[g].pc \in {"setting", "consuming"}

Moves(g) == Alone(g) /\ Move(stack, Base(g), g, gor[g], gor'[g])

\* The variables of a request other than its goroutines, the pairs and the log.
Aside == <<stack, conn, tw, custom, metrics, crashed>>

\* The fields of a goroutine.
LEMMA GorFields ==
  ASSUME Typed, NEW g \in Goroutine
  PROVE  /\ gor[g].pc \in Pc /\ gor[g].at \in Level(stack) /\ gor[g].until \in Nat
         /\ gor[g].todo \in Seq(CallOf(stack, Who, custom.called))
         /\ stack \in Stacks /\ custom.called \in BOOLEAN
  BY DEF Typed, GorOf

\* The goroutine after GoesOn.
LEMMA Goes ==
  ASSUME Typed, NEW g \in Goroutine, NEW pc \in Pc, NEW at \in Level(stack),
         NEW calls \in Seq(CallOf(stack, Who, custom.called)), GoesOn(g, pc, at, calls)
  PROVE  /\ gor' \in [Goroutine -> GorOf(stack, custom.called)]
         /\ \A h \in Goroutine : h # g => gor'[h] = gor[h]
         /\ gor'[g].pc = pc /\ gor'[g].at = at /\ gor'[g].todo = calls /\ gor'[g].until = 0
  BY DEF Typed, GorOf, GoesOn

\* The rest of the request stays as it is.
LEMMA TypedStep ==
  ASSUME Typed, UNCHANGED Aside, gor' \in [Goroutine -> GorOf(stack, custom.called)],
         pairs' \in [keys : SUBSET Key, use : SUBSET Goroutine], logged' \in Seq(LogEntry),
         steps' \in 0..MaxSteps
  PROVE  Typed'
  BY DEF Typed, Aside

\* A move without calls, conn and pairs as before.
LEMMA PlainMove ==
  ASSUME Typed, Uses, NEW g \in Goroutine, UNCHANGED <<Aside, pairs, logged>>,
         steps' \in 0..MaxSteps,
         gor' \in [Goroutine -> GorOf(stack, custom.called)],
         \A h \in Goroutine : h # g => gor'[h] = gor[h],
         gor[g].pc \notin {"setting", "consuming"}
  PROVE  Typed' /\ Alone(g)
  <1>1. Typed'
    BY TypedStep DEF Typed, Aside
  <1>2. g \notin pairs.use
    BY DEF Uses
  <1> QED
    BY <1>1, <1>2 DEF Alone, Aside

\* One goroutine changes.
LEMMA Steps ==
  ASSUME NEW G, gor \in [Goroutine -> G], NEW g \in Goroutine, NEW q \in G,
         gor' = [gor EXCEPT ![g] = q]
  PROVE  /\ gor' \in [Goroutine -> G] /\ gor'[g] = q
         /\ \A h \in Goroutine : h # g => gor'[h] = gor[h]
  OBVIOUS

\* The next level is entered.
LEMMA InsideIs ==
  ASSUME Typed, NEW g \in Goroutine, NEW m \in Names \ {"RequestLimit", "TimeoutHandler"},
         Enters(g, m), Inside(g)
  PROVE  /\ gor[g].pc = "enter"
         /\ gor' \in [Goroutine -> GorOf(stack, custom.called)]
         /\ \A h \in Goroutine : h # g => gor'[h] = gor[h]
         /\ GoesIn(stack, gor[g], gor'[g])
  <1> DEFINE r == gor[g]
             i == gor[g].at + 1
  <1>1. /\ r.pc = "enter" /\ r.todo = <<>> /\ r.at < Len(stack)
        /\ stack[i] \notin {"RequestLimit", "TimeoutHandler"}
        /\ gor' = [gor EXCEPT ![g].at = @ + 1]
    BY DEF Enters, Ready, Pending, Inside
  <1>2. i \in 1..Len(stack) /\ i \in Level(stack) /\ r.at \in Nat
    BY <1>1, GorFields, StackFacts DEF Level
  <1>3. /\ gor' \in [Goroutine -> GorOf(stack, custom.called)]
        /\ \A h \in Goroutine : h # g => gor'[h] = gor[h]
        /\ gor'[g].pc = "enter" /\ gor'[g].at = i /\ gor'[g].todo = <<>>
    <2> DEFINE q == [r EXCEPT !.at = i]
               G == GorOf(stack, custom.called)
    <2>1. gor \in [Goroutine -> G] /\ r \in G
      BY DEF Typed
    <2>2. gor' = [gor EXCEPT ![g] = q]
      BY <1>1
    <2>3. q \in G /\ q.pc = r.pc /\ q.at = i /\ q.todo = r.todo
      <3> HIDE DEF i, r
      <3> QED
        BY <1>2, <2>1 DEF GorOf
    <2> HIDE DEF q, G
    <2>4. /\ gor' \in [Goroutine -> G] /\ gor'[g] = q
          /\ \A h \in Goroutine : h # g => gor'[h] = gor[h]
      BY <2>1, <2>2, <2>3, Steps
    <2> QED
      BY <1>1, <2>3, <2>4 DEF G
  <1> QED
    BY <1>1, <1>2, <1>3 DEF GoesIn

\* The request is answered with an error instead.
LEMMA RefusedIs ==
  ASSUME Typed, NEW g \in Goroutine, gor[g].pc \in {"enter", "creating"}, NEW code \in Codes,
         GoesOn(g, "leave", gor[g].at, Error(code, "refusal", gor[g].at))
  PROVE  /\ gor' \in [Goroutine -> GorOf(stack, custom.called)]
         /\ \A h \in Goroutine : h # g => gor'[h] = gor[h]
         /\ Refused(gor[g], gor'[g])
  <1> DEFINE calls == Error(code, "refusal", gor[g].at)
  <1>1. calls \in Seq(CallOf(stack, Who, custom.called))
    BY GorFields, ErrorCalls DEF Who
  <1>2. "leave" \in Pc /\ gor[g].at \in Level(stack)
    BY GorFields DEF Pc
  <1> HIDE DEF calls
  <1>3. GoesOn(g, "leave", gor[g].at, calls)
    BY DEF calls
  <1> QED
    BY <1>1, <1>2, <1>3, Goes DEF Refused

\* Middleware that only calls the next one: a move of one goroutine.
LEMMA EnterPlainMoves ==
  ASSUME Typed, Uses, NEW g \in Goroutine, EnterPlain(g)
  PROVE  Typed' /\ Moves(g)
  <1>1. PICK m \in Names \ {"RequestLimit", "TimeoutHandler"} : Enters(g, m)
    BY DEF EnterPlain, Names
  <1>2. Inside(g) /\ UNCHANGED <<Aside, pairs, logged>> /\ steps' \in 0..MaxSteps
    BY DEF EnterPlain, Aside, Typed
  <1> QED
    BY <1>1, <1>2, InsideIs, PlainMove DEF Moves, Move

\* The checks of content types go in, or refuse.
LEMMA EnterContentTypeMoves ==
  ASSUME Typed, Uses, NEW g \in Goroutine, EnterContentType(g)
  PROVE  Typed' /\ Moves(g)
  <1>1. PICK m \in {"RequestContentType", "ResponseContentType"} :
          /\ Enters(g, m)
          /\ \/ Inside(g)
             \/ GoesOn(g, "leave", gor[g].at, Error(RefusalCode[m], "refusal", gor[g].at))
    BY DEF EnterContentType, RefusalCode
  <1>2. UNCHANGED <<Aside, pairs, logged>> /\ steps' \in 0..MaxSteps
    BY DEF EnterContentType, Aside, Typed
  <1>3. /\ m \in Names \ {"RequestLimit", "TimeoutHandler"} /\ RefusalCode[m] \in Codes
        /\ gor[g].pc = "enter"
    BY <1>1 DEF Names, RefusalCode, Codes, Enters, Ready
  <1>4. CASE Inside(g)
    BY <1>1, <1>2, <1>3, <1>4, InsideIs, PlainMove DEF Moves, Move
  <1>5. CASE GoesOn(g, "leave", gor[g].at, Error(RefusalCode[m], "refusal", gor[g].at))
    <2>1. /\ gor' \in [Goroutine -> GorOf(stack, custom.called)]
          /\ \A h \in Goroutine : h # g => gor'[h] = gor[h]
          /\ Refused(gor[g], gor'[g])
      BY <1>2, <1>3, <1>5, RefusedIs
    <2>2. Typed' /\ Alone(g)
      BY <1>2, <1>3, <2>1, PlainMove
    <2> QED
      BY <2>1, <2>2 DEF Moves, Move
  <1> QED
    BY <1>1, <1>4, <1>5

\* Nothing is left to be called.
LEMMA NoCalls ==
  ASSUME Typed
  PROVE  <<>> \in Seq(CallOf(stack, Who, custom.called))
  BY EmptySeq

\* A goroutine goes on without any.
LEMMA GoesQuietly ==
  ASSUME Typed, NEW g \in Goroutine, NEW pc \in Pc, NEW at \in Level(stack),
         GoesOn(g, pc, at, <<>>)
  PROVE  /\ gor' \in [Goroutine -> GorOf(stack, custom.called)]
         /\ \A h \in Goroutine : h # g => gor'[h] = gor[h]
         /\ gor'[g].pc = pc /\ gor'[g].at = at /\ gor'[g].todo = <<>> /\ gor'[g].until = 0
  <1> DEFINE none == <<>>
  <1>1. none \in Seq(CallOf(stack, Who, custom.called)) /\ GoesOn(g, pc, at, none)
    BY NoCalls
  <1> HIDE DEF none
  <1>2. /\ gor' \in [Goroutine -> GorOf(stack, custom.called)]
        /\ \A h \in Goroutine : h # g => gor'[h] = gor[h]
        /\ gor'[g].pc = pc /\ gor'[g].at = at /\ gor'[g].todo = none /\ gor'[g].until = 0
    BY <1>1, Goes
  <1> QED
    BY <1>2 DEF none

\* The handler starts, goes on or ends.
LEMMA HandlesIs ==
  ASSUME Typed, NEW g \in Goroutine, NEW pc \in {"handler", "setting", "hung", "panic", "leave"},
         gor[g].pc \in {"enter", "handler", "setting"}, gor[g].pc = "enter" => gor[g].at = Len(stack),
         NEW calls \in Seq(CallOf(stack, Who, custom.called)),
         GoesOn(g, pc, Len(stack), calls)
  PROVE  /\ gor' \in [Goroutine -> GorOf(stack, custom.called)]
         /\ \A h \in Goroutine : h # g => gor'[h] = gor[h]
         /\ Handles(stack, gor[g], gor'[g]) /\ gor'[g].pc = pc
  <1>1. pc \in Pc /\ Len(stack) \in Level(stack)
    BY StackFacts DEF Pc, Level, Typed
  <1> QED
    BY <1>1, Goes DEF Handles

\* The innermost handler starts.
LEMMA StartHandlerMoves ==
  ASSUME Typed, Uses, NEW g \in Goroutine, StartHandler(g)
  PROVE  Typed' /\ Moves(g)
  <1>1. /\ UNCHANGED <<Aside, pairs, logged>> /\ steps' \in 0..MaxSteps
        /\ gor[g].pc = "enter" /\ gor[g].at = Len(stack)
    BY DEF StartHandler, Aside, Typed, Ready
  <1>2. GoesOn(g, "handler", Len(stack), <<>>)
    BY DEF StartHandler
  <1> QED
    BY <1>1, <1>2, NoCalls, HandlesIs, PlainMove DEF Moves, Move

\* A step of the handler is counted.
LEMMA WorkingStep ==
  ASSUME Typed, NEW g \in Goroutine, Working(g)
  PROVE  steps' \in 0..MaxSteps /\ gor[g].pc = "handler"
  BY MiddlewareAssumption DEF Working, Typed, Ready

\* The handler calls its writer, at its own level.
LEMMA HandlerWritesMoves ==
  ASSUME Typed, Uses, NEW g \in Goroutine, HandlerWrites(g)
  PROVE  Typed' /\ Moves(g)
  <1>1. /\ UNCHANGED <<Aside, pairs, logged>> /\ steps' \in 0..MaxSteps /\ gor[g].pc = "handler"
    BY WorkingStep DEF HandlerWrites, Aside
  <1>2. PICK op \in {"header", "write", "copy"}, arg \in Nat :
          /\ op = "header" => arg \in Codes
          /\ GoesOn(g, "handler", Len(stack), <<Call(op, arg, "handler", Len(stack))>>)
    <2>1. PICK c \in {<<"header", 200>>, <<"header", 404>>, <<"write", 1>>,
                      <<"write", Limit + 1>>, <<Copy, 1>>} :
            GoesOn(g, "handler", Len(stack), <<Call(c[1], c[2], "handler", Len(stack))>>)
      BY DEF HandlerWrites
    <2>2. /\ c[1] \in {"header", "write", "copy"} /\ c[2] \in Nat
          /\ c[1] = "header" => c[2] \in Codes
      BY MiddlewareAssumption DEF Codes, Copy
    <2> QED
      BY <2>1, <2>2
  <1> DEFINE c == Call(op, arg, "handler", Len(stack))
  <1>3. <<c>> \in Seq(CallOf(stack, Who, custom.called))
    <2>1. Len(stack) \in Level(stack) /\ custom.called \in BOOLEAN /\ stack \in Stacks
      BY StackFacts, GorFields DEF Level
    <2>2. c \in CallOf(stack, Who, custom.called)
      BY <1>2, <2>1, NewCall DEF Who
    <2> HIDE DEF c
    <2> QED
      BY <2>2, OneCall
  <1> HIDE DEF c
  <1>4. GoesOn(g, "handler", Len(stack), <<c>>)
    BY <1>2 DEF c
  <1> QED
    BY <1>1, <1>3, <1>4, HandlesIs, PlainMove DEF Moves, Move

\* The handler returns to the middleware around it.
LEMMA HandlerReturnsMoves ==
  ASSUME Typed, Uses, NEW g \in Goroutine, HandlerReturns(g)
  PROVE  Typed' /\ Moves(g)
  <1>1. UNCHANGED <<Aside, pairs, logged>> /\ steps' \in 0..MaxSteps /\ gor[g].pc = "handler"
    BY DEF HandlerReturns, Aside, Typed, Ready
  <1>2. GoesOn(g, "leave", Len(stack), <<>>)
    BY DEF HandlerReturns
  <1> QED
    BY <1>1, <1>2, NoCalls, HandlesIs, PlainMove DEF Moves, Move

\* The handler panics, or blocks for ever.
LEMMA HandlerFailsMoves ==
  ASSUME Typed, Uses, NEW g \in Goroutine, HandlerFails(g)
  PROVE  Typed' /\ Moves(g)
  <1>1. UNCHANGED <<Aside, pairs, logged>> /\ steps' \in 0..MaxSteps /\ gor[g].pc = "handler"
    BY WorkingStep DEF HandlerFails, Aside
  <1>2. PICK pc \in {"hung", "panic"} : GoesOn(g, pc, Len(stack), <<>>)
    BY DEF HandlerFails
  <1> QED
    BY <1>1, <1>2, NoCalls, HandlesIs, PlainMove DEF Moves, Move

\* The handler begins to set a pair.
LEMMA SetKeyValueMoves ==
  ASSUME Typed, NEW g \in Goroutine, SetKeyValue(g)
  PROVE  Typed' /\ Moves(g)
  <1>1. /\ UNCHANGED <<Aside, logged>> /\ steps' \in 0..MaxSteps /\ gor[g].pc = "handler"
        /\ pairs' = [pairs EXCEPT !.use = @ \cup {g}]
    BY WorkingStep DEF SetKeyValue, Aside
  <1>2. GoesOn(g, "setting", Len(stack), <<>>)
    BY DEF SetKeyValue
  <1>3. /\ gor' \in [Goroutine -> GorOf(stack, custom.called)]
        /\ \A h \in Goroutine : h # g => gor'[h] = gor[h]
        /\ Handles(stack, gor[g], gor'[g]) /\ gor'[g].pc = "setting"
    BY <1>1, <1>2, NoCalls, HandlesIs
  <1>4. pairs' \in [keys : SUBSET Key, use : SUBSET Goroutine] /\ pairs'.use = pairs.use \cup {g}
    BY <1>1 DEF Typed
  <1>5. logged' \in Seq(LogEntry)
    BY <1>1 DEF Typed
  <1>6. Typed'
    BY <1>1, <1>3, <1>4, <1>5, TypedStep
  <1> QED
    BY <1>1, <1>3, <1>4, <1>6 DEF Moves, Alone, Move, Aside

\* It has set the pair, and does not use the map any more.
LEMMA KeyValueSetMoves ==
  ASSUME Typed, NEW g \in Goroutine, KeyValueSet(g)
  PROVE  Typed' /\ Moves(g)
  <1>1. /\ UNCHANGED <<Aside, logged>> /\ steps' \in 0..MaxSteps /\ gor[g].pc = "setting"
    BY DEF KeyValueSet, Aside, Ready, Typed
  <1>2. GoesOn(g, "handler", Len(stack), <<>>)
    BY DEF KeyValueSet
  <1>3. /\ gor' \in [Goroutine -> GorOf(stack, custom.called)]
        /\ \A h \in Goroutine : h # g => gor'[h] = gor[h]
        /\ Handles(stack, gor[g], gor'[g])
    BY <1>1, <1>2, NoCalls, HandlesIs
  <1>4. pairs' \in [keys : SUBSET Key, use : SUBSET Goroutine] /\ pairs'.use = pairs.use \ {g}
    <2>1. PICK k \in Key :
            \E keys \in {pairs.keys \cup {k}, pairs.keys} :
              pairs' = [keys |-> keys, use |-> pairs.use \ {g}]
      BY DEF KeyValueSet
    <2> QED
      BY <2>1 DEF Typed
  <1>5. logged' \in Seq(LogEntry)
    BY <1>1 DEF Typed
  <1>6. Typed'
    BY <1>1, <1>3, <1>4, <1>5, TypedStep
  <1> QED
    BY <1>1, <1>3, <1>4, <1>6 DEF Moves, Alone, Move, Aside
\* A goroutine is above the level that it returns to.
LEMMA AboveBase ==
  ASSUME Typed, Control(stack, gor["serve"], gor["inner"], tw.err),
         NEW g \in Goroutine, gor[g].pc # "off"
  PROVE  /\ Base(g) \in Nat /\ gor[g].at \in Nat /\ Base(g) <= gor[g].at
         /\ g = "inner" => Base(g) \in 1..Len(stack) /\ stack[Base(g)] = "TimeoutHandler"
  <1>1. gor[g].at \in Nat /\ stack \in Stacks /\ Len(stack) \in Nat
    BY GorFields, StackFacts DEF Level
  <1>2. CASE g = "serve"
    BY <1>1, <1>2 DEF Base
  <1>3. CASE g = "inner"
    <2>1. PICK i \in 1..Len(stack) : stack[i] = "TimeoutHandler" /\ gor["inner"].at >= i
      BY <1>3 DEF Control
    <2>2. Base("inner") = i
      BY <1>1, <2>1, AtIs DEF Base
    <2> QED
      BY <1>1, <1>3, <2>1, <2>2
  <1> QED
    BY <1>2, <1>3 DEF Goroutine

\* It leaves a level.
LEMMA LeavesIs ==
  ASSUME Typed, Control(stack, gor["serve"], gor["inner"], tw.err),
         NEW g \in Goroutine, gor[g].pc \in {"leave", "consuming"}, gor[g].at > Base(g),
         GoesOn(g, "leave", gor[g].at - 1, <<>>)
  PROVE  /\ gor' \in [Goroutine -> GorOf(stack, custom.called)]
         /\ \A h \in Goroutine : h # g => gor'[h] = gor[h]
         /\ GoesOut(stack, Base(g), gor[g], gor'[g]) /\ gor'[g].pc = "leave"
  <1> DEFINE out == gor[g].at - 1
  <1>1. out \in Level(stack) /\ "leave" \in Pc /\ GoesOn(g, "leave", out, <<>>)
    BY AboveBase, GorFields, StackFacts DEF Level, Pc
  <1> HIDE DEF out
  <1>2. /\ gor' \in [Goroutine -> GorOf(stack, custom.called)]
        /\ \A h \in Goroutine : h # g => gor'[h] = gor[h]
        /\ gor'[g].pc = "leave" /\ gor'[g].at = out /\ gor'[g].todo = <<>>
    BY <1>1, GoesQuietly
  <1> QED
    BY <1>2 DEF GoesOut, out

\* Middleware that does nothing after the next one returned.
LEMMA LeavePlainMoves ==
  ASSUME Typed, Uses, Control(stack, gor["serve"], gor["inner"], tw.err),
         NEW g \in Goroutine, LeavePlain(g)
  PROVE  Typed' /\ Moves(g)
  <1>1. /\ UNCHANGED <<Aside, pairs, logged>> /\ steps' \in 0..MaxSteps
        /\ gor[g].pc = "leave" /\ gor[g].at > Base(g)
    BY DEF LeavePlain, Leaves, Ready, Aside, Typed
  <1>2. GoesOn(g, "leave", gor[g].at - 1, <<>>)
    BY DEF LeavePlain
  <1> QED
    BY <1>1, <1>2, LeavesIs, PlainMove DEF Moves, Move

\* Logging begins to read the pairs.
LEMMA ConsumeKeyValuePairsMoves ==
  ASSUME Typed, Control(stack, gor["serve"], gor["inner"], tw.err),
         NEW g \in Goroutine, ConsumeKeyValuePairs(g)
  PROVE  Typed' /\ Moves(g)
  <1>1. /\ UNCHANGED <<Aside, logged>> /\ steps' \in 0..MaxSteps
        /\ gor[g].pc = "leave" /\ gor[g].at > Base(g) /\ stack[gor[g].at] = "Logging"
        /\ pairs' = [pairs EXCEPT !.use = @ \cup {g}]
    BY DEF ConsumeKeyValuePairs, Leaves, Ready, Aside, Typed
  <1>2. GoesOn(g, "consuming", gor[g].at, <<>>)
    BY DEF ConsumeKeyValuePairs
  <1>3. gor[g].at \in Level(stack) /\ gor[g].at \in 1..Len(stack) /\ "consuming" \in Pc
    BY <1>1, GorFields, StackFacts, AboveBase DEF Level, Pc
  <1>4. /\ gor' \in [Goroutine -> GorOf(stack, custom.called)]
        /\ \A h \in Goroutine : h # g => gor'[h] = gor[h]
        /\ gor'[g].pc = "consuming" /\ gor'[g].at = gor[g].at /\ gor'[g].todo = <<>>
    BY <1>2, <1>3, GoesQuietly
  <1>5. GoesOut(stack, Base(g), gor[g], gor'[g])
    BY <1>1, <1>3, <1>4 DEF GoesOut
  <1>6. pairs' \in [keys : SUBSET Key, use : SUBSET Goroutine] /\ pairs'.use = pairs.use \cup {g}
    BY <1>1 DEF Typed
  <1>7. logged' \in Seq(LogEntry)
    BY <1>1 DEF Typed
  <1>8. Typed'
    BY <1>1, <1>4, <1>6, <1>7, TypedStep
  <1> QED
    BY <1>1, <1>4, <1>5, <1>6, <1>8 DEF Moves, Alone, Move, Aside

\* What is logged is an entry of the log.
LEMMA FieldsTyped ==
  ASSUME Typed
  PROVE  Fields \in LogEntry
  <1>1. DOMAIN Predefined = {"status", "body_bytes_sent"}
    BY DEF Predefined
  <1>2. metrics.Code \in Int /\ metrics.Written \in Int /\ pairs.keys \in SUBSET Key
    BY DEF Typed, Codes
  <1>3. Predefined["status"] \in Int /\ Predefined["body_bytes_sent"] \in Int
    BY <1>2 DEF Predefined
  <1>4. Fields \in [{"status", "body_bytes_sent"} \cup pairs.keys -> Int]
    BY <1>1, <1>3 DEF Fields
  <1> QED
    BY <1>2, <1>4 DEF LogEntry

\* Logging has read the pairs, and logs.
LEMMA LogMoves ==
  ASSUME Typed, Control(stack, gor["serve"], gor["inner"], tw.err),
         NEW g \in Goroutine, AtLevel(stack, gor[g]), Log(g)
  PROVE  Typed' /\ Moves(g)
  <1>1. /\ UNCHANGED Aside /\ steps' \in 0..MaxSteps /\ gor[g].pc = "consuming"
        /\ logged' = Append(logged, Fields)
        /\ pairs' = [keys |-> {}, use |-> pairs.use \ {g}]
    BY DEF Log, Ready, Aside, Typed
  <1>2. GoesOn(g, "leave", gor[g].at - 1, <<>>)
    BY DEF Log
  <1>3. gor[g].at > Base(g)
    <2>1. gor[g].at \in 1..Len(stack) /\ stack[gor[g].at] = "Logging"
      BY <1>1 DEF AtLevel
    <2>2. CASE g = "serve"
      BY <2>1, <2>2, StackFacts DEF Base, Typed
    <2>3. CASE g = "inner"
      <3>1. stack[Base(g)] = "TimeoutHandler" /\ Base(g) \in Nat /\ Base(g) <= gor[g].at
        BY <1>1, <2>3, AboveBase
      <3>2. Base(g) # gor[g].at
        BY <2>1, <3>1
      <3>3. gor[g].at \in Nat
        BY <1>1, AboveBase
      <3> QED
        BY <3>1, <3>2, <3>3
    <2> QED
      BY <2>2, <2>3 DEF Goroutine
  <1>4. /\ gor' \in [Goroutine -> GorOf(stack, custom.called)]
        /\ \A h \in Goroutine : h # g => gor'[h] = gor[h]
        /\ GoesOut(stack, Base(g), gor[g], gor'[g])
    BY <1>1, <1>2, <1>3, LeavesIs
  <1>5. pairs' \in [keys : SUBSET Key, use : SUBSET Goroutine] /\ pairs'.use = pairs.use \ {g}
    BY <1>1 DEF Typed
  <1>6. logged' \in Seq(LogEntry)
    BY <1>1, FieldsTyped, AppendProperties DEF Typed
  <1>7. Typed'
    BY <1>1, <1>4, <1>5, <1>6, TypedStep
  <1> QED
    BY <1>1, <1>4, <1>5, <1>7 DEF Moves, Alone, Move, Aside

\* The goroutine of TimeoutHandler returns.
LEMMA InnerEndsMoves ==
  ASSUME Typed, Uses, InnerEnds
  PROVE  Typed' /\ Moves("inner")
  <1> DEFINE g == "inner"
  <1>1. /\ UNCHANGED <<Aside, pairs, logged>> /\ steps' \in 0..MaxSteps /\ gor[g].pc = "leave"
    BY DEF InnerEnds, Ready, Aside, Typed
  <1>2. GoesOn(g, "ended", gor[g].at, <<>>)
    BY DEF InnerEnds
  <1>3. gor[g].at \in Level(stack) /\ "ended" \in Pc /\ g \in Goroutine
    BY GorFields DEF Pc, Goroutine
  <1> HIDE DEF g
  <1>4. /\ gor' \in [Goroutine -> GorOf(stack, custom.called)]
        /\ \A h \in Goroutine : h # g => gor'[h] = gor[h]
        /\ GoesOut(stack, Base(g), gor[g], gor'[g])
    <2>1. /\ gor' \in [Goroutine -> GorOf(stack, custom.called)]
          /\ \A h \in Goroutine : h # g => gor'[h] = gor[h]
          /\ gor'[g].pc = "ended" /\ gor'[g].at = gor[g].at /\ gor'[g].todo = <<>>
      BY <1>2, <1>3, GoesQuietly
    <2> QED
      BY <1>1, <2>1 DEF GoesOut
  <1>5. Typed' /\ Moves(g)
    BY <1>1, <1>3, <1>4, PlainMove DEF Moves, Move
  <1> QED
    BY <1>5 DEF g

\* The goroutine that serves returns from the outermost level.
LEMMA ServeEndsMoves ==
  ASSUME Typed, Uses, ServeEnds
  PROVE  Typed' /\ Moves("serve")
  <1> DEFINE g == "serve"
  <1>1. /\ UNCHANGED <<stack, tw, custom, metrics, crashed, pairs, logged>>
        /\ steps' = steps /\ gor[g].pc = "leave" /\ gor[g].at = 0
        /\ conn' = [conn EXCEPT !.status = IF @ = 0 THEN 200 ELSE @]
    BY DEF ServeEnds, Ready
  <1>2. GoesOn(g, "ended", 0, <<>>)
    BY DEF ServeEnds
  <1>3. 0 \in Level(stack) /\ "ended" \in Pc /\ g \in Goroutine
    BY <1>1, GorFields DEF Pc, Goroutine
  <1>4. conn' \in Answer /\ conn'.src = conn.src
    BY <1>1 DEF Typed, Answer, Codes
  <1>5. g \notin pairs.use
    BY <1>1 DEF Uses
  <1> HIDE DEF g
  <1>6. /\ gor' \in [Goroutine -> GorOf(stack, custom.called)]
        /\ \A h \in Goroutine : h # g => gor'[h] = gor[h]
        /\ GoesOut(stack, Base(g), gor[g], gor'[g])
    <2>1. /\ gor' \in [Goroutine -> GorOf(stack, custom.called)]
          /\ \A h \in Goroutine : h # g => gor'[h] = gor[h]
          /\ gor'[g].pc = "ended" /\ gor'[g].at = 0 /\ gor'[g].todo = <<>>
      BY <1>2, <1>3, GoesQuietly
    <2> QED
      BY <1>1, <2>1 DEF GoesOut
  <1>7. Typed'
    BY <1>1, <1>4, <1>6 DEF Typed
  <1>8. Moves(g)
    BY <1>1, <1>4, <1>5, <1>6 DEF Moves, Alone, Move
  <1> QED
    BY <1>7, <1>8 DEF g

\* A panic passes one level, or PanicRecovery answers it.
LEMMA UnwindMoves ==
  ASSUME Typed, Uses, Control(stack, gor["serve"], gor["inner"], tw.err),
         NEW g \in Goroutine, Unwind(g)
  PROVE  Typed' /\ Moves(g)
  <1> DEFINE out == gor[g].at - 1
             calls == Error(500, "recover", out)
  <1>1. /\ UNCHANGED <<Aside, pairs, logged>> /\ steps' \in 0..MaxSteps
        /\ gor[g].pc = "panic" /\ gor[g].at > Base(g)
    BY DEF Unwind, Ready, Aside, Typed
  <1>2. \/ GoesOn(g, "leave", out, calls)
        \/ stack[gor[g].at] # "PanicRecovery" /\ GoesOn(g, "panic", out, <<>>)
    BY DEF Unwind, Recovers
  <1>3. out \in Level(stack) /\ "leave" \in Pc /\ "panic" \in Pc
    BY <1>1, AboveBase, GorFields, StackFacts DEF Level, Pc
  <1>4. calls \in Seq(CallOf(stack, Who, custom.called))
    <2>1. 500 \in Codes /\ "recover" \in Who
      BY DEF Codes, Who
    <2> HIDE DEF out
    <2> QED
      BY <1>3, <2>1, GorFields, ErrorCalls
  <1> HIDE DEF calls
  <1>5. CASE GoesOn(g, "leave", out, calls)
    BY <1>1, <1>3, <1>4, <1>5, Goes, PlainMove DEF Moves, Move, Panics
  <1>6. CASE stack[gor[g].at] # "PanicRecovery" /\ GoesOn(g, "panic", out, <<>>)
    <2> HIDE DEF out
    <2>1. /\ gor' \in [Goroutine -> GorOf(stack, custom.called)]
          /\ \A h \in Goroutine : h # g => gor'[h] = gor[h]
          /\ gor'[g].pc = "panic" /\ gor'[g].at = out
      BY <1>3, <1>6, GoesQuietly
    <2>2. Panics(stack, Base(g), g, gor[g], gor'[g])
      BY <1>1, <1>6, <2>1 DEF Panics, out
    <2> QED
      BY <1>1, <2>1, <2>2, PlainMove DEF Moves, Move
  <1> QED
    BY <1>2, <1>5, <1>6

\* A panic reaches the end of its goroutine.
LEMMA PanicEndsMoves ==
  ASSUME Typed, Uses, NEW g \in Goroutine, PanicEnds(g)
  PROVE  Typed' /\ Moves(g)
  <1> DEFINE pc == IF g = "inner" THEN "panicked" ELSE "aborted"
  <1>1. /\ UNCHANGED <<Aside, pairs, logged>> /\ steps' \in 0..MaxSteps
        /\ gor[g].pc = "panic" /\ gor[g].at = Base(g)
    BY DEF PanicEnds, Ready, Aside, Typed
  <1>2. GoesOn(g, pc, gor[g].at, <<>>)
    BY DEF PanicEnds
  <1>3. gor[g].at \in Level(stack) /\ pc \in Pc
    BY GorFields DEF Pc
  <1> HIDE DEF pc
  <1>4. /\ gor' \in [Goroutine -> GorOf(stack, custom.called)]
        /\ \A h \in Goroutine : h # g => gor'[h] = gor[h]
        /\ gor'[g].pc = pc /\ gor'[g].at = gor[g].at
    BY <1>2, <1>3, GoesQuietly
  <1>5. Panics(stack, Base(g), g, gor[g], gor'[g])
    BY <1>1, <1>4 DEF Panics, pc
  <1> QED
    BY <1>1, <1>4, <1>5, PlainMove DEF Moves, Move

\* RequestLimit goes on after its sleep.
LEMMA WakeMoves ==
  ASSUME Typed, Uses, NEW g \in Goroutine, Wake(g)
  PROVE  Typed' /\ Alone(g) /\ Wakes(gor[g], gor'[g])
  <1>1. UNCHANGED <<Aside, pairs, logged>> /\ steps' \in 0..MaxSteps /\ gor[g].pc = "sleep"
    BY DEF Wake, Ready, Aside, Typed
  <1>2. GoesOn(g, "enter", gor[g].at, <<>>)
    BY DEF Wake
  <1>3. gor[g].at \in Level(stack) /\ "enter" \in Pc
    BY GorFields DEF Pc
  <1>4. /\ gor' \in [Goroutine -> GorOf(stack, custom.called)]
        /\ \A h \in Goroutine : h # g => gor'[h] = gor[h]
        /\ Wakes(gor[g], gor'[g])
    BY <1>1, <1>2, <1>3, GoesQuietly DEF Wakes
  <1> QED
    BY <1>1, <1>4, PlainMove DEF Moves, Move
-----------------------------------------------------------------------------
(* Time, ticks and tokens. *)

\* A tick of the bucket adds tokens.
LEMMA QuantumNat == quantum \in Nat /\ quantum >= 1
  BY MiddlewareAssumption DEF quantum

\* Tick is the whole number of intervals.
LEMMA TickNat ==
  ASSUME NEW t \in Nat
  PROVE  Tick(t) \in Nat /\ Tick(t) * FillInterval <= t /\ t < (Tick(t) + 1) * FillInterval
  BY MiddlewareAssumption DEF Tick

\* Ticks do not go back.
LEMMA TickMono ==
  ASSUME NEW t \in Nat, NEW u \in Nat, t <= u
  PROVE  Tick(t) <= Tick(u)
  BY MiddlewareAssumption DEF Tick

\* At the end of n intervals it is tick n.
LEMMA TickExact ==
  ASSUME NEW n \in Nat
  PROVE  n * FillInterval \in Nat /\ Tick(n * FillInterval) = n
  BY MiddlewareAssumption DEF Tick

\* A product grows with its factor.
LEMMA TimesMono ==
  ASSUME NEW a \in Nat, NEW b \in Nat, a <= b, NEW c \in Nat
  PROVE  c * a \in Nat /\ c * b \in Nat /\ c * a <= c * b
  OBVIOUS

\* The quotient of WaitTime, rounded up: that many ticks bring m tokens.
LEMMA CeilDiv ==
  ASSUME NEW m \in Nat, m >= 1, NEW q \in Nat, q >= 1
  PROVE  (m + q - 1) \div q \in Nat /\ (m + q - 1) \div q >= 1 /\ q * ((m + q - 1) \div q) >= m
  OBVIOUS

\* What is in the bucket now.
LEMMA FilledIs ==
  ASSUME TypedRate
  PROVE  /\ Filled \in Int /\ Filled <= Capacity
         /\ Filled <= bucket.avail + quantum * (Tick(clock) - bucket.tick)
         /\ Tick(clock) \in Nat
  <1> DEFINE n == Tick(clock) - bucket.tick
  <1>1. n \in Nat /\ Tick(clock) \in Nat /\ bucket.avail \in Int /\ Capacity \in Int
    <2>1. /\ clock \in Nat /\ bucket.tick \in Nat /\ bucket.tick <= Tick(clock)
          /\ bucket.avail \in Int
      BY DEF TypedRate
    <2>2. Tick(clock) \in Nat
      BY <2>1, TickNat
    <2> QED
      BY <2>1, <2>2, MiddlewareAssumption
  <1>2. Filled = IF bucket.avail + n * quantum < Capacity THEN bucket.avail + n * quantum
                 ELSE Capacity
    BY DEF Filled
  <1> HIDE DEF n
  <1>3. n * quantum \in Nat /\ n * quantum = quantum * n
    BY <1>1, QuantumNat
  <1>4. /\ Filled \in Int /\ Filled <= Capacity
        /\ Filled <= bucket.avail + quantum * n
    <2> DEFINE x == n * quantum
               y == quantum * n
    <2>1. x \in Nat /\ x = y
      BY <1>3
    <2>2. Filled = IF bucket.avail + x < Capacity THEN bucket.avail + x ELSE Capacity
      BY <1>2
    <2> HIDE DEF x, y
    <2>3. Filled \in Int /\ Filled <= Capacity /\ Filled <= bucket.avail + y
      BY <1>1, <2>1, <2>2
    <2> QED
      BY <2>3 DEF y
  <1> QED
    BY <1>1, <1>4 DEF n

\* The time that the token is there: the ticks until then bring it.
LEMMA WaitTimeIs ==
  ASSUME TypedRate
  PROVE  /\ WaitTime \in Nat
         /\ Filled < 1 => 1 - Filled <= quantum * (Tick(clock + WaitTime) - Tick(clock))
  <1>1. Filled \in Int /\ Tick(clock) \in Nat /\ clock \in Nat
    BY FilledIs DEF TypedRate
  <1>2. CASE Filled >= 1
    BY <1>1, <1>2 DEF WaitTime
  <1>3. CASE Filled < 1
    <2> DEFINE k == ((1 - Filled) + quantum - 1) \div quantum
               n == Tick(clock) + k
               u == n * FillInterval
    <2>1. WaitTime = u - clock
      BY <1>1, <1>3 DEF WaitTime
    <2>2. k \in Nat /\ k >= 1 /\ quantum * k >= 1 - Filled
      <3> DEFINE m == 1 - Filled
      <3>1. m \in Nat /\ m >= 1
        BY <1>1, <1>3
      <3> HIDE DEF m
      <3>2. (m + quantum - 1) \div quantum \in Nat /\ (m + quantum - 1) \div quantum >= 1
            /\ quantum * ((m + quantum - 1) \div quantum) >= m
        BY <3>1, QuantumNat, CeilDiv
      <3> QED
        BY <3>2 DEF m
    <2> HIDE DEF k
    <2>3. n \in Nat /\ Tick(clock) + 1 <= n
      BY <1>1, <2>2
    <2>4. u \in Nat /\ Tick(u) = n
      BY <2>3, TickExact
    <2>5. clock <= u
      <3>1. (Tick(clock) + 1) * FillInterval <= n * FillInterval
        <4>1. FillInterval \in Nat
          BY MiddlewareAssumption
        <4> HIDE DEF n
        <4> QED
          BY <4>1, <1>1, <2>3
      <3>2. clock < (Tick(clock) + 1) * FillInterval
        BY <1>1, TickNat
      <3> DEFINE x == (Tick(clock) + 1) * FillInterval
      <3>3. x <= u /\ clock < x /\ x \in Int
        BY <3>1, <3>2, <1>1, MiddlewareAssumption
      <3> HIDE DEF x, u
      <3> QED
        BY <3>3, <2>4, <1>1
    <2> HIDE DEF u
    <2>6. WaitTime \in Nat /\ clock + WaitTime = u
      BY <1>1, <2>1, <2>4, <2>5
    <2>7. Tick(clock + WaitTime) - Tick(clock) = k
      BY <1>1, <2>2, <2>4, <2>6
    <2> QED
      BY <2>2, <2>6, <2>7
  <1> QED
    BY <1>1, <1>2, <1>3

-----------------------------------------------------------------------------
\* RequestLimit sleeps for the token that it took, or refuses and takes none.
LEMMA EnterRequestLimitMoves ==
  ASSUME Typed, TypedRate, Uses, NEW g \in Goroutine, EnterRequestLimit(g)
  PROVE  /\ Typed' /\ Alone(g)
         /\ \/ /\ Sleeps(stack, gor[g], gor'[g]) /\ gor'[g].until = clock + WaitTime
               /\ WaitMaxDuration(TRUE)
            \/ Refused(gor[g], gor'[g]) /\ WaitMaxDuration(FALSE)
  <1> DEFINE i == gor[g].at + 1
             u == clock + WaitTime
  <1>1. /\ UNCHANGED <<Aside, pairs, logged>> /\ steps' \in 0..MaxSteps
        /\ gor[g].pc = "enter" /\ gor[g].todo = <<>> /\ gor[g].at < Len(stack)
        /\ stack[i] = "RequestLimit"
    BY DEF EnterRequestLimit, Enters, Ready, Pending, Aside, Typed
  <1>2. i \in 1..Len(stack) /\ i \in Level(stack) /\ gor[g].at \in Nat
    BY <1>1, GorFields, StackFacts DEF Level
  <1>3. u \in Nat
    BY WaitTimeIs DEF TypedRate
  <1>4. CASE /\ WaitMaxDuration(TRUE)
             /\ gor' = [gor EXCEPT ![g].pc = "sleep", ![g].at = @ + 1, ![g].until = clock + WaitTime]
    <2> HIDE DEF u
    <2>0. gor' = [gor EXCEPT ![g].pc = "sleep", ![g].at = @ + 1, ![g].until = u]
      BY <1>4 DEF u
    <2>1. /\ gor' \in [Goroutine -> GorOf(stack, custom.called)]
          /\ \A h \in Goroutine : h # g => gor'[h] = gor[h]
          /\ gor'[g].pc = "sleep" /\ gor'[g].at = i /\ gor'[g].todo = <<>> /\ gor'[g].until = u
      <3> DEFINE r == gor[g]
                 q == [r EXCEPT !.pc = "sleep", !.at = i, !.until = u]
                 G == GorOf(stack, custom.called)
      <3>1. gor \in [Goroutine -> G] /\ r \in G
        BY DEF Typed
      <3>2. gor' = [gor EXCEPT ![g] = q]
        BY <2>0
      <3>3. q \in G /\ q.pc = "sleep" /\ q.at = i /\ q.todo = r.todo /\ q.until = u
        <4> HIDE DEF i, r
        <4> QED
          BY <1>2, <1>3, <3>1 DEF GorOf, Pc
      <3> HIDE DEF q, G
      <3>4. /\ gor' \in [Goroutine -> G] /\ gor'[g] = q
            /\ \A h \in Goroutine : h # g => gor'[h] = gor[h]
        BY <3>1, <3>2, <3>3, Steps
      <3> QED
        BY <1>1, <3>3, <3>4 DEF G
    <2>2. Sleeps(stack, gor[g], gor'[g])
      BY <1>1, <1>2, <2>1 DEF Sleeps
    <2> QED
      BY <1>1, <1>4, <2>1, <2>2, PlainMove DEF Moves, Move, u
  <1>5. CASE /\ WaitMaxDuration(FALSE)
             /\ GoesOn(g, "leave", gor[g].at, Error(503, "refusal", gor[g].at))
    <2>1. 503 \in Codes
      BY DEF Codes
    <2>2. /\ gor' \in [Goroutine -> GorOf(stack, custom.called)]
          /\ \A h \in Goroutine : h # g => gor'[h] = gor[h]
          /\ Refused(gor[g], gor'[g])
      BY <1>1, <1>5, <2>1, RefusedIs
    <2>3. Typed' /\ Alone(g)
      BY <1>1, <2>2, PlainMove
    <2> QED
      BY <1>5, <2>2, <2>3
  <1> QED
    BY <1>4, <1>5 DEF EnterRequestLimit

-----------------------------------------------------------------------------
(* Handlers that read the request. *)

\* The code of an error, or the default of ErrorHandler, is a status.
LEMMA CodeIs ==
  ASSUME NEW e
  PROVE  (IF Code(e) = 0 THEN 500 ELSE Code(e)) \in Codes
  <1>1. DOMAIN Atoi = {"400", "409", "500"} /\ \A v \in DOMAIN Atoi : Atoi[v] \in Codes
    BY DEF Atoi, Codes
  <1> QED
    BY <1>1 DEF Code, Codes

\* ErrorHandler answers; the goroutine goes no further in.
LEMMA RefuseIs ==
  ASSUME Typed, NEW g \in Goroutine, gor[g].pc \in {"enter", "creating"}, NEW e, Refuse(g, e)
  PROVE  /\ gor' \in [Goroutine -> GorOf(stack, custom.called)]
         /\ \A h \in Goroutine : h # g => gor'[h] = gor[h]
         /\ Refused(gor[g], gor'[g])
  <1> DEFINE code == IF Code(e) = 0 THEN 500 ELSE Code(e)
  <1>1. code \in Codes /\ GoesOn(g, "leave", gor[g].at, Error(code, "refusal", gor[g].at))
    BY CodeIs DEF Refuse
  <1> HIDE DEF code
  <1> QED
    BY <1>1, RefusedIs

\* A handler that decodes goes in, or refuses.
LEMMA EnterDecodeMoves ==
  ASSUME Typed, Uses, NEW g \in Goroutine, EnterDecode(g)
  PROVE  Typed' /\ Moves(g)
  <1>1. UNCHANGED <<Aside, pairs, logged>> /\ steps' \in 0..MaxSteps
    BY DEF EnterDecode, Others, Aside, Typed
  <1>2. /\ Enters(g, "Decode") /\ "Decode" \in Names \ {"RequestLimit", "TimeoutHandler"}
        /\ gor[g].pc = "enter"
        /\ Inside(g) \/ \E e : Refuse(g, e)
    BY DEF EnterDecode, Enters, Ready, Names
  <1>3. CASE Inside(g)
    BY <1>1, <1>2, <1>3, InsideIs, PlainMove DEF Moves, Move
  <1>4. CASE \E e : Refuse(g, e)
    <2>1. /\ gor' \in [Goroutine -> GorOf(stack, custom.called)]
          /\ \A h \in Goroutine : h # g => gor'[h] = gor[h]
          /\ Refused(gor[g], gor'[g])
      BY <1>2, <1>4, RefuseIs
    <2>2. Typed' /\ Alone(g)
      BY <1>1, <1>2, <2>1, PlainMove
    <2> QED
      BY <2>1, <2>2 DEF Moves, Move
  <1> QED
    BY <1>2, <1>3, <1>4

\* Register goes on to create the account, or refuses.
LEMMA EnterRegisterMoves ==
  ASSUME Typed, Uses, NEW g \in Goroutine, EnterRegister(g)
  PROVE  Typed' /\ Moves(g)
  <1>1. UNCHANGED <<Aside, pairs, logged>> /\ steps' \in 0..MaxSteps
    BY DEF EnterRegister, Others, Aside, Typed
  <1>2. /\ gor[g].pc = "enter" /\ gor[g].todo = <<>> /\ gor[g].at < Len(stack)
        /\ stack[gor[g].at + 1] = "Register"
        /\ gor' = [gor EXCEPT ![g].pc = "creating"] \/ \E e : Refuse(g, e)
    BY DEF EnterRegister, Enters, Ready, Pending
  <1>3. CASE gor' = [gor EXCEPT ![g].pc = "creating"]
    <2>1. gor[g].at + 1 \in 1..Len(stack)
      BY <1>2, GorFields, StackFacts DEF Level
    <2>2. /\ gor' \in [Goroutine -> GorOf(stack, custom.called)]
          /\ \A h \in Goroutine : h # g => gor'[h] = gor[h]
          /\ gor'[g].pc = "creating" /\ gor'[g].at = gor[g].at /\ gor'[g].todo = <<>>
      <3> DEFINE r == gor[g]
                 q == [r EXCEPT !.pc = "creating"]
                 G == GorOf(stack, custom.called)
      <3>1. gor \in [Goroutine -> G] /\ r \in G
        BY DEF Typed
      <3>2. gor' = [gor EXCEPT ![g] = q]
        BY <1>3
      <3>3. q \in G /\ q.pc = "creating" /\ q.at = r.at /\ q.todo = r.todo
        <4> HIDE DEF r
        <4> QED
          BY <3>1 DEF GorOf, Pc
      <3> HIDE DEF q, G
      <3>4. /\ gor' \in [Goroutine -> G] /\ gor'[g] = q
            /\ \A h \in Goroutine : h # g => gor'[h] = gor[h]
        BY <3>1, <3>2, <3>3, Steps
      <3> QED
        BY <1>2, <3>3, <3>4 DEF G
    <2>3. GoesIn(stack, gor[g], gor'[g])
      BY <1>2, <2>1, <2>2 DEF GoesIn
    <2> QED
      BY <1>1, <1>2, <2>2, <2>3, PlainMove DEF Moves, Move
  <1>4. CASE \E e : Refuse(g, e)
    <2>1. /\ gor' \in [Goroutine -> GorOf(stack, custom.called)]
          /\ \A h \in Goroutine : h # g => gor'[h] = gor[h]
          /\ Refused(gor[g], gor'[g])
      BY <1>2, <1>4, RefuseIs
    <2>2. Typed' /\ Alone(g)
      BY <1>1, <1>2, <2>1, PlainMove
    <2> QED
      BY <2>1, <2>2 DEF Moves, Move
  <1> QED
    BY <1>2, <1>3, <1>4

\* Register has created the account and goes in, or refuses.
LEMMA RegisterCreatesMoves ==
  ASSUME Typed, Uses, NEW g \in Goroutine, AtLevel(stack, gor[g]), RegisterCreates(g)
  PROVE  Typed' /\ Moves(g)
  <1>1. UNCHANGED <<Aside, pairs, logged>> /\ steps' \in 0..MaxSteps
    BY DEF RegisterCreates, Others, Aside, Typed
  <1>2. /\ gor[g].pc = "creating"
        /\ GoesOn(g, "enter", gor[g].at + 1, <<>>) \/ \E e : Refuse(g, e)
    BY DEF RegisterCreates, Ready
  <1>3. CASE GoesOn(g, "enter", gor[g].at + 1, <<>>)
    <2> DEFINE i == gor[g].at + 1
    <2>1. /\ i \in 1..Len(stack) /\ i \in Level(stack) /\ stack[i] = "Register" /\ "enter" \in Pc
      BY <1>2, StackFacts DEF AtLevel, Level, Typed, Pc
    <2> HIDE DEF i
    <2>2. GoesOn(g, "enter", i, <<>>)
      BY <1>3 DEF i
    <2>3. /\ gor' \in [Goroutine -> GorOf(stack, custom.called)]
          /\ \A h \in Goroutine : h # g => gor'[h] = gor[h]
          /\ gor'[g].pc = "enter" /\ gor'[g].at = i /\ gor'[g].todo = <<>>
      BY <2>1, <2>2, GoesQuietly
    <2>4. GoesIn(stack, gor[g], gor'[g])
      BY <1>2, <2>1, <2>3 DEF GoesIn, i
    <2> QED
      BY <1>1, <1>2, <2>3, <2>4, PlainMove DEF Moves, Move
  <1>4. CASE \E e : Refuse(g, e)
    <2>1. /\ gor' \in [Goroutine -> GorOf(stack, custom.called)]
          /\ \A h \in Goroutine : h # g => gor'[h] = gor[h]
          /\ Refused(gor[g], gor'[g])
      BY <1>2, <1>4, RefuseIs
    <2>2. Typed' /\ Alone(g)
      BY <1>1, <1>2, <2>1, PlainMove
    <2> QED
      BY <2>1, <2>2 DEF Moves, Move
  <1> QED
    BY <1>2, <1>3, <1>4
-----------------------------------------------------------------------------
(* The calls of a goroutine. *)

\* Calls of fewer authors are calls of more.
LEMMA CallsMore ==
  ASSUME NEW s, NEW V, NEW W, V \subseteq W, NEW c, NEW d, c => d,
         NEW todo \in Seq(CallOf(s, V, c))
  PROVE  todo \in Seq(CallOf(s, W, d))
  <1>1. CallOf(s, V, c) \subseteq CallOf(s, W, d)
    BY DEF CallOf
  <1> QED
    BY <1>1, SeqMonotonic

\* The goroutine after Becomes.
LEMMA BecomesIs ==
  ASSUME Typed, NEW g \in Goroutine, Pending(g), NEW d \in BOOLEAN, custom.called => d,
         NEW calls \in Seq(CallOf(stack, Who, d)), Becomes(g, calls),
         NoHandler(stack, gor[g].todo) => NoHandler(stack, calls)
  PROVE  /\ gor' \in [Goroutine -> GorOf(stack, d)]
         /\ \A h \in Goroutine : h # g => gor'[h] = gor[h]
         /\ Writes(stack, gor[g], gor'[g])
  <1> DEFINE todo == gor[g].todo
             new == calls \o Tail(todo)
  <1>1. todo # <<>> /\ gor' = [gor EXCEPT ![g].todo = new]
    BY DEF Pending, Becomes, Typed
  <1>2. todo \in Seq(CallOf(stack, Who, d))
    BY GorFields, CallsMore
  <1>3. new \in Seq(CallOf(stack, Who, d))
    <2> HIDE DEF todo
    <2> QED
      BY <1>1, <1>2, Replaced
  <1>4. NoHandler(stack, todo) => NoHandler(stack, new)
    <2> HIDE DEF todo
    <2>1. ASSUME NoHandler(stack, todo)
          PROVE  NoHandler(stack, new)
      <3> DEFINE S == CallOf(stack, Who \ {"handler"}, TRUE)
      <3>1. todo \in Seq(S) /\ calls \in Seq(S)
        BY <2>1 DEF NoHandler, todo
      <3> HIDE DEF S
      <3>2. new \in Seq(S)
        BY <1>1, <3>1, Replaced
      <3> QED
        BY <3>2 DEF NoHandler, S
    <2> QED
      BY <2>1
  <1>5. gor \in [Goroutine -> GorOf(stack, d)]
    <2>1. ASSUME NEW r \in GorOf(stack, custom.called)
          PROVE  r \in GorOf(stack, d)
      <3>1. r.todo \in Seq(CallOf(stack, Who, d))
        BY CallsMore DEF GorOf
      <3> QED
        BY <3>1 DEF GorOf
    <2> QED
      BY <2>1 DEF Typed
  <1> HIDE DEF new
  <1>6. /\ gor' \in [Goroutine -> GorOf(stack, d)]
        /\ \A h \in Goroutine : h # g => gor'[h] = gor[h]
        /\ gor'[g].pc = gor[g].pc /\ gor'[g].at = gor[g].at /\ gor'[g].until = gor[g].until
        /\ gor'[g].todo = new
    BY <1>1, <1>3, <1>5 DEF GorOf
  <1> QED
    BY <1>1, <1>4, <1>6 DEF Writes

\* The call that is made.
LEMMA HeadIs ==
  ASSUME Typed, NEW g \in Goroutine, Pending(g)
  PROVE  /\ Head(gor[g].todo) \in CallOf(stack, Who, custom.called)
         /\ NoHandler(stack, gor[g].todo) =>
              Head(gor[g].todo) \in CallOf(stack, Who \ {"handler"}, TRUE)
  BY GorFields, HeadTailProperties DEF Pending, NoHandler

\* The rest of the request after a call of a writer.
LEMMA CallMoves ==
  ASSUME Typed, Uses, NEW g \in Goroutine, Pending(g),
         UNCHANGED <<stack, pairs, logged, steps, crashed>>,
         custom' \in [noop : BOOLEAN, called : BOOLEAN, simple : BOOLEAN],
         custom.called => custom'.called, custom'.noop => custom'.called,
         NEW calls \in Seq(CallOf(stack, Who, custom'.called)), Becomes(g, calls),
         NoHandler(stack, gor[g].todo) => NoHandler(stack, calls),
         conn' \in Answer, tw' \in [resp : Answer, err : BOOLEAN], tw'.err = tw.err,
         metrics' \in [Code : Codes, headerWritten : BOOLEAN, Written : Nat],
         \/ conn'.src = conn.src
         \/ g = "serve" /\ conn'.src \subseteq conn.src \cup Head(gor[g].todo).src
  PROVE  Typed' /\ Moves(g)
  <1>1. /\ gor' \in [Goroutine -> GorOf(stack, custom'.called)]
        /\ \A h \in Goroutine : h # g => gor'[h] = gor[h]
        /\ Writes(stack, gor[g], gor'[g])
    <2> DEFINE d == custom'.called
    <2>1. d \in BOOLEAN /\ (custom.called => d) /\ calls \in Seq(CallOf(stack, Who, d))
      OBVIOUS
    <2> HIDE DEF d
    <2>2. /\ gor' \in [Goroutine -> GorOf(stack, d)]
          /\ \A h \in Goroutine : h # g => gor'[h] = gor[h]
          /\ Writes(stack, gor[g], gor'[g])
      BY <2>1, BecomesIs
    <2> QED
      BY <2>2 DEF d
  <1>2. Typed'
    BY <1>1 DEF Typed
  <1>3. ASSUME NoHandler(stack, gor[g].todo)
        PROVE  "handler" \notin Head(gor[g].todo).src
    <2> DEFINE e == Head(gor[g].todo)
    <2>1. e \in CallOf(stack, Who \ {"handler"}, TRUE)
      BY <1>3, HeadIs
    <2> HIDE DEF e
    <2>2. e.src \subseteq Who \ {"handler"}
      BY <2>1, CallFields
    <2> QED
      BY <2>2 DEF e
  <1>4. g \in pairs.use => gor'[g].pc \in {"setting", "consuming"}
    BY <1>1 DEF Uses, Writes
  <1> QED
    BY <1>1, <1>2, <1>3, <1>4 DEF Moves, Alone, Move, Pending

\* What a call sends leaves an answer, in which only its authors are new.
LEMMA SentIs ==
  ASSUME NEW r \in Answer, NEW s, NEW d, NEW e \in CallOf(s, Who, d)
  PROVE  Sent(r, e) \in Answer /\ Sent(r, e).src \subseteq r.src \cup e.src
  <1>1. /\ r.status \in Codes \cup {0} /\ r.bytes \in Nat /\ r.src \in SUBSET Who
        /\ e.arg \in Nat /\ e.src \in SUBSET Who /\ (e.op = "header" => e.arg \in Codes)
    BY CallFields DEF Answer
  <1>2. CASE e.op = "header"
    <2>1. Sent(r, e) = [r EXCEPT !.status = IF r.status = 0 THEN e.arg ELSE r.status]
      BY <1>2 DEF Sent
    <2> QED
      BY <1>1, <1>2, <2>1 DEF Answer
  <1>3. CASE e.op # "header"
    <2> DEFINE st == IF r.status = 0 THEN 200 ELSE r.status
               sr == IF e.arg > 0 THEN r.src \cup e.src ELSE r.src
    <2>1. Sent(r, e) = [status |-> st, bytes |-> r.bytes + e.arg, src |-> sr]
      BY <1>3 DEF Sent
    <2>2. st \in Codes \cup {0} /\ r.bytes + e.arg \in Nat /\ sr \in SUBSET Who
          /\ sr \subseteq r.src \cup e.src
      BY <1>1 DEF Codes
    <2> HIDE DEF st, sr
    <2> QED
      BY <2>1, <2>2 DEF Answer
  <1> QED
    BY <1>2, <1>3

\* The counters of httpsnoop keep their types.
LEMMA MeasuredIs ==
  ASSUME Typed, NEW e \in CallOf(stack, Who, custom.called), NEW ok, Measured(e, ok)
  PROVE  metrics' \in [Code : Codes, headerWritten : BOOLEAN, Written : Nat]
  <1>1. e.arg \in Nat
    BY CallFields
  <1> QED
    BY <1>1 DEF Typed, Measured

\* A call that is dropped leaves everything as it is.
LEMMA NothingMore ==
  ASSUME Typed
  PROVE  /\ <<>> \in Seq(CallOf(stack, Who, custom.called))
         /\ NoHandler(stack, <<>>)
         /\ custom \in [noop : BOOLEAN, called : BOOLEAN, simple : BOOLEAN]
         /\ custom.noop => custom.called
         /\ conn \in Answer /\ tw \in [resp : Answer, err : BOOLEAN]
         /\ metrics \in [Code : Codes, headerWritten : BOOLEAN, Written : Nat]
  BY EmptySeq DEF NoHandler, Typed

\* A call that reaches the connection.
LEMMA ConnCallMoves ==
  ASSUME Typed, Uses, ConnCall
  PROVE  Typed' /\ Moves("serve")
  <1> DEFINE g == "serve"
             e == Head(gor[g].todo)
  <1>1. /\ Pending(g) /\ conn' = Sent(conn, e) /\ Measured(e, TRUE) /\ Becomes(g, <<>>)
        /\ UNCHANGED <<stack, tw, custom, pairs, logged, steps, crashed>>
    BY DEF ConnCall
  <1>2. g \in Goroutine
    BY DEF Goroutine
  <1>3. e \in CallOf(stack, Who, custom.called)
    BY <1>1, <1>2, HeadIs
  <1>4. conn' \in Answer /\ conn'.src \subseteq conn.src \cup e.src
    BY <1>1, <1>3, SentIs, NothingMore
  <1>5. metrics' \in [Code : Codes, headerWritten : BOOLEAN, Written : Nat]
    BY <1>1, <1>3, MeasuredIs
  <1>6. /\ custom' \in [noop : BOOLEAN, called : BOOLEAN, simple : BOOLEAN]
        /\ custom.called => custom'.called
        /\ custom'.noop => custom'.called
        /\ <<>> \in Seq(CallOf(stack, Who, custom'.called))
        /\ NoHandler(stack, gor[g].todo) => NoHandler(stack, <<>>)
        /\ tw' \in [resp : Answer, err : BOOLEAN] /\ tw'.err = tw.err
    BY <1>1, NothingMore
  <1>7. g = "serve"
    OBVIOUS
  <1> HIDE DEF g
  <1>8. Typed' /\ Moves(g)
    BY <1>1, <1>2, <1>4, <1>5, <1>6, <1>7, CallMoves
  <1> QED
    BY <1>8 DEF g

\* A call that reaches the buffer of TimeoutHandler, which takes nothing after it gave up.
LEMMA BufferCallMoves ==
  ASSUME Typed, Uses, BufferCall
  PROVE  Typed' /\ Moves("inner")
  <1> DEFINE g == "inner"
             e == Head(gor[g].todo)
  <1>1. /\ Pending(g) /\ Measured(e, ~tw.err) /\ Becomes(g, <<>>)
        /\ tw' = IF tw.err THEN tw ELSE [tw EXCEPT !.resp = Sent(@, e)]
        /\ UNCHANGED <<stack, conn, custom, pairs, logged, steps, crashed>>
    BY DEF BufferCall, Calls, TimeoutWriter
  <1>2. g \in Goroutine
    BY DEF Goroutine
  <1>3. e \in CallOf(stack, Who, custom.called)
    BY <1>1, <1>2, HeadIs
  <1>4. tw' \in [resp : Answer, err : BOOLEAN] /\ tw'.err = tw.err
    <2>1. tw \in [resp : Answer, err : BOOLEAN] /\ tw.resp \in Answer
      BY NothingMore
    <2>2. Sent(tw.resp, e) \in Answer
      BY <1>3, <2>1, SentIs
    <2> HIDE DEF e
    <2> QED
      BY <1>1, <2>1, <2>2
  <1>5. metrics' \in [Code : Codes, headerWritten : BOOLEAN, Written : Nat]
    BY <1>1, <1>3, MeasuredIs
  <1>6. /\ custom' \in [noop : BOOLEAN, called : BOOLEAN, simple : BOOLEAN]
        /\ custom.called => custom'.called
        /\ custom'.noop => custom'.called
        /\ <<>> \in Seq(CallOf(stack, Who, custom'.called))
        /\ NoHandler(stack, gor[g].todo) => NoHandler(stack, <<>>)
        /\ conn' \in Answer /\ conn'.src = conn.src
    BY <1>1, NothingMore
  <1> HIDE DEF g
  <1>8. Typed' /\ Moves(g)
    BY <1>1, <1>2, <1>4, <1>5, <1>6, CallMoves
  <1> QED
    BY <1>8 DEF g
\* The level of a call of a middleware.
LEMMA CallsIs ==
  ASSUME Typed, NEW g \in Goroutine, NEW m, Calls(g, m)
  PROVE  /\ Pending(g) /\ Head(gor[g].todo).at > 0
         /\ Head(gor[g].todo) \in CallOf(stack, Who, custom.called)
         /\ NoHandler(stack, gor[g].todo) =>
              Head(gor[g].todo) \in CallOf(stack, Who \ {"handler"}, TRUE)
  BY HeadIs DEF Calls

\* A call at the level of LimitResponseBodyBytes.
LEMMA LimitCallMoves ==
  ASSUME Typed, Uses, NEW g \in Goroutine, LimitCall(g)
  PROVE  Typed' /\ Moves(g)
  <1> DEFINE e == Head(gor[g].todo)
             calls == LimitWrite(e)
  <1>1. /\ Calls(g, "LimitResponseBodyBytes") /\ Becomes(g, calls)
        /\ UNCHANGED <<stack, conn, tw, custom, metrics, pairs, logged, steps, crashed>>
    BY DEF LimitCall
  <1>2. /\ Pending(g) /\ e.at > 0 /\ e \in CallOf(stack, Who, custom.called)
        /\ NoHandler(stack, gor[g].todo) => e \in CallOf(stack, Who \ {"handler"}, TRUE)
    BY <1>1, CallsIs
  <1>3. stack \in Stacks /\ custom.called \in BOOLEAN /\ "limit" \in Who \ {"handler"}
    BY GorFields DEF Who
  <1> HIDE DEF e
  <1>4. calls \in Seq(CallOf(stack, Who, custom.called))
    BY <1>2, <1>3, LimitCalls
  <1>5. NoHandler(stack, gor[g].todo) => NoHandler(stack, calls)
    BY <1>2, <1>3, LimitCalls DEF NoHandler
  <1> HIDE DEF calls
  <1>6. /\ custom' \in [noop : BOOLEAN, called : BOOLEAN, simple : BOOLEAN]
        /\ custom.called => custom'.called
        /\ custom'.noop => custom'.called
        /\ calls \in Seq(CallOf(stack, Who, custom'.called))
        /\ tw' \in [resp : Answer, err : BOOLEAN] /\ tw'.err = tw.err
        /\ metrics' \in [Code : Codes, headerWritten : BOOLEAN, Written : Nat]
        /\ conn' \in Answer /\ conn'.src = conn.src
    BY <1>1, <1>4, NothingMore
  <1> QED
    BY <1>1, <1>2, <1>5, <1>6, CallMoves

\* A call at the level of Logging.
LEMMA LoggingCallMoves ==
  ASSUME Typed, Uses, NEW g \in Goroutine, LoggingCall(g)
  PROVE  Typed' /\ Moves(g)
  <1> DEFINE e == Head(gor[g].todo)
             d == [Below(e) EXCEPT !.metered = TRUE]
  <1>1. /\ Calls(g, "Logging") /\ Becomes(g, <<d>>)
        /\ metrics' = [metrics EXCEPT
             !.Code = IF e.op = "header" /\ ~metrics.headerWritten THEN e.arg ELSE @,
             !.headerWritten = TRUE]
        /\ UNCHANGED <<stack, conn, tw, custom, pairs, logged, steps, crashed>>
    BY DEF LoggingCall
  <1>2. /\ Pending(g) /\ e.at > 0 /\ e \in CallOf(stack, Who, custom.called)
        /\ NoHandler(stack, gor[g].todo) => e \in CallOf(stack, Who \ {"handler"}, TRUE)
    BY <1>1, CallsIs
  <1>3. stack \in Stacks /\ custom.called \in BOOLEAN
    BY GorFields
  <1> HIDE DEF e
  <1>4. ASSUME NEW W, NEW done, e \in CallOf(stack, W, done)
        PROVE  <<d>> \in Seq(CallOf(stack, W, done))
    <2>1. Below(e) \in CallOf(stack, W, done)
      BY <1>2, <1>3, <1>4, BelowCall
    <2>2. d \in CallOf(stack, W, done)
      BY <2>1 DEF CallOf
    <2> HIDE DEF d
    <2> QED
      BY <2>2, OneCall
  <1> HIDE DEF d
  <1>5. NoHandler(stack, gor[g].todo) => NoHandler(stack, <<d>>)
    BY <1>2, <1>4 DEF NoHandler
  <1>6. metrics' \in [Code : Codes, headerWritten : BOOLEAN, Written : Nat]
    BY <1>1, <1>2, CallFields DEF Typed
  <1>7. /\ custom' \in [noop : BOOLEAN, called : BOOLEAN, simple : BOOLEAN]
        /\ custom.called => custom'.called
        /\ custom'.noop => custom'.called
        /\ <<d>> \in Seq(CallOf(stack, Who, custom'.called))
        /\ tw' \in [resp : Answer, err : BOOLEAN] /\ tw'.err = tw.err
        /\ conn' \in Answer /\ conn'.src = conn.src
    BY <1>1, <1>2, <1>4, NothingMore
  <1> QED
    BY <1>1, <1>2, <1>5, <1>6, <1>7, CallMoves

\* What errHandler writes, and that it handled the error.
LEMMA HandlerCalls ==
  ASSUME stack \in Stacks, NEW W, "error" \in W, NEW code \in Codes, NEW at \in Level(stack)
  PROVE  Error(code, "error", at) \o <<Call("handled", 0, "error", at)>>
           \in Seq(CallOf(stack, W, TRUE))
  <1> DEFINE a == Error(code, "error", at)
             c == Call("handled", 0, "error", at)
             S == CallOf(stack, W, TRUE)
  <1>1. a \in Seq(S)
    BY ErrorCalls
  <1>2. c \in S
    BY NewCall
  <1> HIDE DEF a, c, S
  <1>3. <<c>> \in Seq(S)
    BY <1>2, OneCall
  <1>4. a \o <<c>> \in Seq(S)
    BY <1>1, <1>3, ConcatProperties
  <1> QED
    BY <1>4 DEF a, c, S

\* A call at the level of CustomErrors.
LEMMA CustomCallMoves ==
  ASSUME Typed, Uses, NEW g \in Goroutine, CustomCall(g)
  PROVE  Typed' /\ Moves(g)
  <1> DEFINE e == Head(gor[g].todo)
             more == Error(e.arg, "error", e.at) \o <<Call("handled", 0, "error", e.at)>>
             isError == e.op = "header" /\ e.arg >= 400 /\ ~custom.called
             quiet == NoHandler(stack, gor[g].todo)
             Flags == [noop : BOOLEAN, called : BOOLEAN, simple : BOOLEAN]
  <1>1. /\ Calls(g, "CustomErrors")
        /\ UNCHANGED <<stack, conn, tw, metrics, pairs, logged, steps, crashed>>
        /\ \/ Becomes(g, <<>>) /\ custom' = custom
           \/ /\ isError /\ custom' = [custom EXCEPT !.called = TRUE]
              /\ Becomes(g, more) \/ Becomes(g, <<Below(e)>>)
           \/ /\ e.op = "handled" /\ custom' = [custom EXCEPT !.noop = TRUE]
              /\ Becomes(g, <<>>)
           \/ /\ custom' = [custom EXCEPT !.simple = @ /\ custom.called /\ e.op # "copy"]
              /\ Becomes(g, <<Below(e)>>)
    BY DEF CustomCall
  <1>2. /\ Pending(g) /\ e.at > 0 /\ e \in CallOf(stack, Who, custom.called)
        /\ quiet => e \in CallOf(stack, Who \ {"handler"}, TRUE)
    BY <1>1, CallsIs
  <1>3. /\ stack \in Stacks /\ custom \in Flags /\ custom.called \in BOOLEAN
        /\ custom.noop => custom.called
    BY GorFields, NothingMore
  <1>4. /\ e.op = "header" => e.arg \in Codes
        /\ e.op = "handled" => custom.called
        /\ e.at \in Level(stack)
    BY <1>2, CallFields
  <1>5. /\ tw' \in [resp : Answer, err : BOOLEAN] /\ tw'.err = tw.err
        /\ metrics' \in [Code : Codes, headerWritten : BOOLEAN, Written : Nat]
        /\ conn' \in Answer /\ conn'.src = conn.src
    BY <1>1, NothingMore
  <1> HIDE DEF e
  <1> SUFFICES ASSUME NEW calls \in Seq(CallOf(stack, Who, custom'.called)),
                      quiet => NoHandler(stack, calls), Becomes(g, calls),
                      custom' \in Flags, custom.called => custom'.called,
                      custom'.noop => custom'.called
               PROVE  Typed' /\ Moves(g)
    <2>1. CASE Becomes(g, <<>>) /\ custom' = custom
      BY <1>3, <2>1, NothingMore
    <2>2. CASE /\ isError /\ custom' = [custom EXCEPT !.called = TRUE]
               /\ Becomes(g, more) \/ Becomes(g, <<Below(e)>>)
      <3>1. custom' \in Flags /\ custom'.called
        BY <1>3, <2>2
      <3>2. "error" \in Who \ {"handler"}
        BY DEF Who
      <3>3. /\ more \in Seq(CallOf(stack, Who, TRUE))
            /\ more \in Seq(CallOf(stack, Who \ {"handler"}, TRUE))
        BY <1>3, <1>4, <2>2, <3>2, HandlerCalls
      <3>4. /\ <<Below(e)>> \in Seq(CallOf(stack, Who, custom.called))
            /\ quiet => <<Below(e)>> \in Seq(CallOf(stack, Who \ {"handler"}, TRUE))
        BY <1>2, <1>3, BelowCall, OneCall
      <3>5. <<Below(e)>> \in Seq(CallOf(stack, Who, TRUE))
        BY <3>4, CallsMore
      <3> HIDE DEF more
      <3> QED
        BY <2>2, <3>1, <3>3, <3>4, <3>5 DEF NoHandler
    <2>3. CASE /\ e.op = "handled" /\ custom' = [custom EXCEPT !.noop = TRUE]
               /\ Becomes(g, <<>>)
      <3>1. custom' \in Flags /\ custom'.called = custom.called /\ custom.called
        BY <1>3, <1>4, <2>3
      <3> QED
        BY <2>3, <3>1, NothingMore
    <2>4. CASE /\ custom' = [custom EXCEPT !.simple = @ /\ custom.called /\ e.op # "copy"]
               /\ Becomes(g, <<Below(e)>>)
      <3>1. custom' \in Flags /\ custom'.called = custom.called /\ custom'.noop = custom.noop
        BY <1>3, <2>4
      <3>2. /\ <<Below(e)>> \in Seq(CallOf(stack, Who, custom.called))
            /\ quiet => <<Below(e)>> \in Seq(CallOf(stack, Who \ {"handler"}, TRUE))
        BY <1>2, <1>3, BelowCall, OneCall
      <3> QED
        BY <1>3, <2>4, <3>1, <3>2 DEF NoHandler
    <2> QED
      BY <1>1, <2>1, <2>2, <2>3, <2>4
  <1> QED
    BY <1>1, <1>2, <1>5, CallMoves
-----------------------------------------------------------------------------
(* What every move keeps. *)

\* A move leaves its goroutine at a middleware of the right kind.
LEMMA LevelKept ==
  ASSUME NEW s, NEW b, NEW g, NEW r, NEW q, AtLevel(s, r), AnyMove(s, b, g, r, q)
  PROVE  AtLevel(s, q)
  <1>1. CASE Writes(s, r, q)
    BY <1>1 DEF Writes, AtLevel
  <1>2. CASE GoesIn(s, r, q)
    BY <1>2 DEF GoesIn, AtLevel
  <1>3. CASE GoesOut(s, b, r, q)
    BY <1>3 DEF GoesOut, AtLevel
  <1>4. CASE Refused(r, q) \/ Sleeps(s, r, q) \/ Wakes(r, q) \/ Handles(s, r, q)
             \/ Panics(s, b, g, r, q)
    BY <1>4 DEF Refused, Sleeps, Wakes, Handles, Panics, AtLevel
  <1> QED
    BY <1>1, <1>2, <1>3, <1>4 DEF AnyMove, Move

\* A panic that goes on has met no PanicRecovery further in.
LEMMA UnrecoveredKept ==
  ASSUME NEW s \in Stacks, NEW b, NEW g, NEW r, NEW q, r.at \in Nat,
         Unrecovered(s, r), AnyMove(s, b, g, r, q)
  PROVE  Unrecovered(s, q)
  <1>0. Len(s) \in Nat
    BY StackFacts
  <1>1. CASE Writes(s, r, q)
    BY <1>1 DEF Writes, Unrecovered
  <1>2. CASE Handles(s, r, q)
    BY <1>0, <1>2 DEF Handles, Unrecovered
  <1>3. CASE Panics(s, b, g, r, q)
    <2> SUFFICES ASSUME q.pc \in {"panic", "panicked", "aborted"}, NEW i \in (q.at + 1)..Len(s)
                 PROVE  s[i] # "PanicRecovery"
      BY DEF Unrecovered
    <2>1. \A j \in (r.at + 1)..Len(s) : s[j] # "PanicRecovery"
      BY <1>3 DEF Panics, Unrecovered
    <2>2. \/ q.at = r.at - 1 /\ s[r.at] # "PanicRecovery"
          \/ q.at = r.at
      BY <1>3 DEF Panics
    <2> QED
      BY <1>0, <2>1, <2>2
  <1>4. CASE GoesIn(s, r, q) \/ Refused(r, q) \/ Sleeps(s, r, q) \/ Wakes(r, q)
             \/ GoesOut(s, b, r, q)
    BY <1>4 DEF GoesIn, Refused, Sleeps, Wakes, GoesOut, Unrecovered
  <1> QED
    BY <1>1, <1>2, <1>3, <1>4 DEF AnyMove, Move

\* A move of serve keeps the two goroutines in step.
LEMMA ControlServe ==
  ASSUME NEW s \in Stacks, NEW v, NEW n, NEW w, NEW err, v.at \in Nat,
         Control(s, v, n, err), AnyMove(s, 0, "serve", v, w)
  PROVE  Control(s, w, n, err)
  <1>1. CASE Writes(s, v, w)
    BY <1>1 DEF Writes, Control
  <1>2. CASE GoesOut(s, 0, v, w)
    <2>1. /\ v.pc # "wait" /\ w.pc \in {"consuming", "leave", "ended"}
          /\ w.at = v.at \/ w.at = v.at - 1
      BY <1>2 DEF GoesOut
    <2> QED
      BY <2>1, StackFacts DEF Control
  <1>3. CASE Panics(s, 0, "serve", v, w)
    <2>1. /\ v.pc # "wait" /\ w.pc \in {"panic", "leave", "aborted"}
          /\ w.at = v.at \/ w.at = v.at - 1
      BY <1>3 DEF Panics
    <2> QED
      BY <2>1, StackFacts DEF Control
  <1>4. CASE GoesIn(s, v, w) \/ Refused(v, w) \/ Sleeps(s, v, w) \/ Wakes(v, w) \/ Handles(s, v, w)
    <2>1. v.pc \in {"enter", "creating", "sleep", "handler", "setting"} /\ w.pc # "wait"
      BY <1>4 DEF GoesIn, Refused, Sleeps, Wakes, Handles
    <2> QED
      BY <2>1 DEF Control
  <1> QED
    BY <1>1, <1>2, <1>3, <1>4 DEF AnyMove, Move

\* A move of inner keeps the two goroutines in step.
LEMMA ControlInner ==
  ASSUME NEW s \in Stacks, NEW v, NEW n, NEW w, NEW err, NEW b, n.at \in Nat,
         n.pc # "off" => b \in 1..Len(s) /\ s[b] = "TimeoutHandler",
         Control(s, v, n, err), AnyMove(s, b, "inner", n, w)
  PROVE  Control(s, v, w, err)
  <1>0. Len(s) \in Nat /\ \A i, j \in 1..Len(s) : s[i] = s[j] => i = j
    BY StackFacts
  <1>1. CASE Writes(s, n, w)
    BY <1>1 DEF Writes, Control
  <1>2. CASE ~Writes(s, n, w)
    <2>1. /\ n.pc \in {"enter", "creating", "sleep", "handler", "setting", "leave", "consuming", "panic"}
          /\ w.pc # "off"
          /\ \/ w.at \in {n.at, n.at + 1, Len(s)}
             \/ w.at = n.at - 1 /\ n.at > b
      BY <1>2 DEF AnyMove, Move, GoesIn, Refused, Sleeps, Wakes, Handles, GoesOut, Panics
    <2>2. b \in 1..Len(s) /\ s[b] = "TimeoutHandler"
      BY <2>1
    <2>3. PICK i \in 1..Len(s) : /\ s[i] = "TimeoutHandler" /\ n.at >= i
                                 /\ v.pc = "wait" => v.at = i
                                 /\ v.pc # "wait" => v.at < i
      BY <2>1 DEF Control
    <2>4. i = b
      BY <1>0, <2>2, <2>3
    <2>5. w.at >= i
      BY <1>0, <2>1, <2>3, <2>4
    <2>6. /\ v.pc \in {"wait", "leave", "consuming", "ended", "panic", "aborted"}
          /\ v.pc = "wait" \/ err
      BY <2>1 DEF Control
    <2> QED
      BY <2>1, <2>3, <2>5, <2>6 DEF Control
  <1> QED
    BY <1>1, <1>2

\* A move of serve leaves panics at their levels.
LEMMA PanicServe ==
  ASSUME NEW s, NEW v, NEW n, NEW w, PanicLevel(s, v, n), AnyMove(s, 0, "serve", v, w)
  PROVE  PanicLevel(s, w, n)
  <1>1. CASE Writes(s, v, w)
    BY <1>1 DEF Writes, PanicLevel
  <1>2. CASE Panics(s, 0, "serve", v, w)
    BY <1>2 DEF Panics, PanicLevel
  <1>3. CASE GoesIn(s, v, w) \/ Refused(v, w) \/ Sleeps(s, v, w) \/ Wakes(v, w)
             \/ Handles(s, v, w) \/ GoesOut(s, 0, v, w)
    BY <1>3 DEF GoesIn, Refused, Sleeps, Wakes, Handles, GoesOut, PanicLevel
  <1> QED
    BY <1>1, <1>2, <1>3 DEF AnyMove, Move

\* A move of inner leaves panics at their levels.
LEMMA PanicInner ==
  ASSUME NEW s, NEW v, NEW n, NEW w, NEW b,
         n.pc # "off" => b \in 1..Len(s) /\ s[b] = "TimeoutHandler",
         PanicLevel(s, v, n), AnyMove(s, b, "inner", n, w)
  PROVE  PanicLevel(s, v, w)
  <1>1. CASE Writes(s, n, w)
    BY <1>1 DEF Writes, PanicLevel
  <1>2. CASE Panics(s, b, "inner", n, w)
    BY <1>2 DEF Panics, PanicLevel
  <1>3. CASE GoesIn(s, n, w) \/ Refused(n, w) \/ Sleeps(s, n, w) \/ Wakes(n, w)
             \/ Handles(s, n, w) \/ GoesOut(s, b, n, w)
    BY <1>3 DEF GoesIn, Refused, Sleeps, Wakes, Handles, GoesOut, PanicLevel
  <1> QED
    BY <1>1, <1>2, <1>3 DEF AnyMove, Move

\* The answer: sent and more are its parts before and after the step.
LEMMA FinalServe ==
  ASSUME NEW s, NEW v, NEW w, NEW err, NEW sent, NEW more,
         Final(s, v, sent, err), AnyMove(s, 0, "serve", v, w),
         \/ more = sent
         \/ v.todo # <<>> /\ (NoHandler(s, v.todo) /\ "handler" \in more => "handler" \in sent)
  PROVE  Final(s, w, more, err)
  <1>0. NoHandler(s, <<>>)
    BY EmptySeq DEF NoHandler
  <1>1. CASE Writes(s, v, w)
    BY <1>1 DEF Writes, Final
  <1>2. CASE GoesIn(s, v, w) \/ Sleeps(s, v, w) \/ Wakes(v, w)
    BY <1>2 DEF GoesIn, Sleeps, Wakes, Final
  <1>3. CASE Refused(v, w) \/ Handles(s, v, w) \/ Panics(s, 0, "serve", v, w)
    BY <1>3 DEF Refused, Handles, Panics, Final
  <1>4. CASE GoesOut(s, 0, v, w)
    BY <1>0, <1>4 DEF GoesOut, Final
  <1> QED
    BY <1>1, <1>2, <1>3, <1>4 DEF AnyMove, Move
\* All of it.
LEMMA ShapeKept ==
  ASSUME Typed, Shape, NEW g \in Goroutine, Alone(g),
         AnyMove(stack, Base(g), g, gor[g], gor'[g])
  PROVE  Shape'
  <1> DEFINE v == gor["serve"]
             n == gor["inner"]
             b == Base("inner")
  <1>1. /\ stack' = stack /\ tw'.err = tw.err /\ stack \in Stacks
        /\ "serve" \in Goroutine /\ "inner" \in Goroutine
        /\ \A h \in Goroutine : h # g => gor'[h] = gor[h]
        /\ \A h \in Goroutine : gor[h].at \in Nat
    BY GorFields, StackFacts DEF Alone, Level, Goroutine
  <1>2. n.pc # "off" => b \in 1..Len(stack) /\ stack[b] = "TimeoutHandler"
    BY <1>1, AboveBase DEF Shape
  <1>3. /\ g = "serve" => AnyMove(stack, 0, "serve", v, gor'["serve"]) /\ gor'["inner"] = n
        /\ g = "inner" => AnyMove(stack, b, "inner", n, gor'["inner"]) /\ gor'["serve"] = v
        /\ g = "serve" \/ g = "inner"
    <2>1. CASE g = "serve"
      BY <1>1, <2>1 DEF Base
    <2>2. CASE g = "inner"
      BY <1>1, <2>2
    <2> QED
      BY <2>1, <2>2 DEF Goroutine
  <1>4. \A h \in Goroutine : AtLevel(stack, gor'[h]) /\ Unrecovered(stack, gor'[h])
    <2> SUFFICES ASSUME NEW h \in Goroutine
                 PROVE  AtLevel(stack, gor'[h]) /\ Unrecovered(stack, gor'[h])
      OBVIOUS
    <2>1. CASE h # g
      BY <1>1, <2>1 DEF Shape
    <2>2. CASE h = g
      BY <1>1, <2>2, LevelKept, UnrecoveredKept DEF Shape
    <2> QED
      BY <2>1, <2>2
  <1>5. Control(stack, gor'["serve"], gor'["inner"], tw.err)
    <2>1. CASE g = "serve"
      BY <1>1, <1>3, <2>1, ControlServe DEF Shape
    <2>2. CASE g = "inner"
      BY <1>1, <1>2, <1>3, <2>2, ControlInner DEF Shape
    <2> QED
      BY <1>3, <2>1, <2>2
  <1>6. PanicLevel(stack, gor'["serve"], gor'["inner"])
    <2>1. CASE g = "serve"
      BY <1>1, <1>3, <2>1, PanicServe DEF Shape
    <2>2. CASE g = "inner"
      BY <1>1, <1>2, <1>3, <2>2, PanicInner DEF Shape
    <2> QED
      BY <1>3, <2>1, <2>2
  <1>7. Final(stack, gor'["serve"], conn'.src, tw.err)
    <2>0. Final(stack, v, conn.src, tw.err)
      BY DEF Shape
    <2>1. CASE g = "serve"
      <3>1. \/ conn'.src = conn.src
            \/ /\ v.todo # <<>>
               /\ NoHandler(stack, v.todo) /\ "handler" \in conn'.src => "handler" \in conn.src
        BY <2>1 DEF Alone
      <3> QED
        BY <1>3, <2>0, <2>1, <3>1, FinalServe
    <2>2. CASE g = "inner"
      BY <1>3, <2>0, <2>2 DEF Alone
    <2> QED
      BY <1>3, <2>1, <2>2
  <1>8. Uses'
    <2>1. pairs.use \subseteq Goroutine
      BY DEF Typed
    <2> QED
      BY <1>1, <2>1 DEF Uses, Shape, Alone
  <1> QED
    BY <1>1, <1>4, <1>5, <1>6, <1>7, <1>8 DEF Shape

-----------------------------------------------------------------------------
(* TimeoutHandler. *)

\* serve waits at its level, and inner starts there.
LEMMA EnterTimeoutKeeps ==
  ASSUME Typed, Shape, EnterTimeout
  PROVE  /\ Typed' /\ Shape'
         /\ stack' = stack /\ gor["serve"].pc = "enter" /\ gor'["serve"].pc = "wait"
         /\ gor["inner"].pc = "off" /\ gor'["inner"].pc = "enter"
         /\ gor'["inner"].at = gor["serve"].at + 1
         /\ gor["serve"].at + 1 \in 1..Len(stack)
         /\ stack[gor["serve"].at + 1] = "TimeoutHandler"
  <1> DEFINE v == gor["serve"]
             n == gor["inner"]
             i == gor["serve"].at + 1
  <1>1. /\ UNCHANGED <<Aside, pairs, logged>> /\ steps' \in 0..MaxSteps
        /\ v.pc = "enter" /\ v.at < Len(stack) /\ stack[i] = "TimeoutHandler"
        /\ gor' = [gor EXCEPT !["serve"] = [Idle EXCEPT !.pc = "wait", !.at = i],
                              !["inner"] = [Idle EXCEPT !.pc = "enter", !.at = i]]
    BY DEF EnterTimeout, TimeoutHandler, Enters, Ready, Aside, Typed
  <1>2. "serve" \in Goroutine /\ "inner" \in Goroutine /\ \A g \in Goroutine : g \in {"serve", "inner"}
    BY DEF Goroutine
  <1>3. i \in 1..Len(stack) /\ i \in Level(stack) /\ stack \in Stacks /\ Len(stack) \in Nat
    BY <1>1, <1>2, GorFields, StackFacts DEF Level
  <1>4. n.pc = "off"
    BY <1>1 DEF Shape, Control
  <1> HIDE DEF i
  <1>5. /\ gor' \in [Goroutine -> GorOf(stack, custom.called)]
        /\ gor'["serve"].pc = "wait" /\ gor'["serve"].at = i /\ gor'["serve"].todo = <<>>
        /\ gor'["inner"].pc = "enter" /\ gor'["inner"].at = i /\ gor'["inner"].todo = <<>>
    <2> DEFINE p == [Idle EXCEPT !.pc = "wait", !.at = i]
               q == [Idle EXCEPT !.pc = "enter", !.at = i]
    <2>1. p \in GorOf(stack, custom.called) /\ p.pc = "wait" /\ p.at = i /\ p.todo = <<>>
      BY <1>3, NoCalls DEF GorOf, Idle, Pc
    <2>2. q \in GorOf(stack, custom.called) /\ q.pc = "enter" /\ q.at = i /\ q.todo = <<>>
      BY <1>3, NoCalls DEF GorOf, Idle, Pc
    <2>3. gor' = [gor EXCEPT !["serve"] = p, !["inner"] = q]
      BY <1>1
    <2> HIDE DEF p, q
    <2> QED
      BY <1>2, <2>1, <2>2, <2>3 DEF Typed
  <1>6. Typed'
    BY <1>1, <1>5, TypedStep DEF Typed
  <1>7. Control(stack, gor'["serve"], gor'["inner"], tw.err)
    BY <1>1, <1>3, <1>5 DEF Control
  <1>8. \A h \in Goroutine : AtLevel(stack, gor'[h]) /\ Unrecovered(stack, gor'[h])
    BY <1>2, <1>5 DEF AtLevel, Unrecovered
  <1>9. PanicLevel(stack, gor'["serve"], gor'["inner"])
    BY <1>5 DEF PanicLevel
  <1>10. Final(stack, gor'["serve"], conn.src, tw.err)
    BY <1>1, <1>5 DEF Shape, Final
  <1>11. pairs.use = {}
    BY <1>1, <1>2, <1>4 DEF Shape, Uses, Typed
  <1>12. Shape'
    BY <1>1, <1>7, <1>8, <1>9, <1>10, <1>11 DEF Shape, Uses, Aside
  <1> QED
    BY <1>1, <1>3, <1>4, <1>5, <1>6, <1>12 DEF Aside, i

\* serve goes on one level further out.
LEMMA OuterLevel ==
  ASSUME Typed, Shape, gor["serve"].pc = "wait"
  PROVE  /\ gor["serve"].at - 1 \in Level(stack) /\ gor["serve"].at \in 1..Len(stack)
         /\ gor["inner"].pc # "off" /\ Base("inner") = gor["serve"].at
         /\ stack[gor["serve"].at] = "TimeoutHandler"
         /\ gor["serve"].at <= gor["inner"].at /\ gor["inner"].at \in Nat
         /\ stack \in Stacks /\ "serve" \in Goroutine /\ "inner" \in Goroutine
  <1>1. "serve" \in Goroutine /\ "inner" \in Goroutine
    BY DEF Goroutine
  <1>2. gor["inner"].pc # "off" /\ stack \in Stacks
    BY DEF Shape, Control, Typed
  <1>3. PICK i \in 1..Len(stack) : /\ stack[i] = "TimeoutHandler" /\ gor["inner"].at >= i
                                   /\ gor["serve"].at = i
    BY <1>2 DEF Shape, Control
  <1>4. i \in Nat /\ Len(stack) \in Nat /\ gor["inner"].at \in Nat
    BY <1>1, <1>2, GorFields, StackFacts DEF Level
  <1>5. At("TimeoutHandler") = i
    BY <1>2, <1>3, AtIs
  <1>6. i - 1 \in Level(stack)
    BY <1>3, <1>4 DEF Level
  <1> QED
    BY <1>1, <1>2, <1>3, <1>4, <1>5, <1>6 DEF Base

\* What is left of Shape when serve leaves TimeoutHandler.
LEMMA OuterKeeps ==
  ASSUME Typed, Shape, gor["serve"].pc = "wait", UNCHANGED <<stack, conn, pairs>>,
         gor'["inner"] = gor["inner"],
         NEW pc \in {"leave", "panic"}, gor'["serve"].pc = pc,
         gor'["serve"].at = gor["serve"].at - 1,
         pc = "panic" => Unrecovered(stack, gor'["serve"]),
         gor["inner"].pc \in {"ended", "panicked"} \/ tw'.err,
         tw'.err => pc = "leave" /\ NoHandler(stack, gor'["serve"].todo)
  PROVE  Shape'
  <1> DEFINE w == gor'["serve"]
             n == gor["inner"]
  <1>1. \A g \in Goroutine : g \in {"serve", "inner"}
    BY DEF Goroutine
  <1>2. Control(stack, w, n, tw'.err)
    <2>1. /\ gor["serve"].at \in 1..Len(stack) /\ stack[gor["serve"].at] = "TimeoutHandler"
          /\ n.at >= gor["serve"].at /\ w.at < gor["serve"].at
      BY OuterLevel, StackFacts
    <2> QED
      BY <2>1 DEF Control
  <1>3. \A h \in Goroutine : AtLevel(stack, gor'[h]) /\ Unrecovered(stack, gor'[h])
    <2>1. AtLevel(stack, n) /\ Unrecovered(stack, n)
      BY OuterLevel DEF Shape
    <2>2. AtLevel(stack, w)
      BY DEF AtLevel
    <2>3. Unrecovered(stack, w)
      BY DEF Unrecovered
    <2> QED
      BY <1>1, <2>1, <2>2, <2>3
  <1>4. PanicLevel(stack, w, n)
    BY DEF Shape, PanicLevel
  <1>5. Final(stack, w, conn.src, tw'.err)
    BY DEF Shape, Final
  <1>6. Uses'
    <2>1. pairs.use \subseteq {"serve", "inner"} /\ "serve" \notin pairs.use
      BY <1>1 DEF Typed, Shape, Uses
    <2> QED
      BY <2>1 DEF Uses, Shape
  <1> QED
    BY <1>2, <1>3, <1>4, <1>5, <1>6 DEF Shape
\* The buffer is sent: then nobody gave up.
LEMMA FlushKeeps ==
  ASSUME Typed, Shape, Flush
  PROVE  /\ Typed' /\ Shape' /\ stack' = stack /\ gor["serve"].pc = "wait"
         /\ gor'["serve"].pc = "leave" /\ gor'["inner"] = gor["inner"]
  <1> DEFINE outer == gor["serve"].at - 1
             r == tw.resp
             st == IF r.status = 0 THEN 200 ELSE r.status
             a == Call("header", st, "handler", outer)
             c == [Call("write", r.bytes, "handler", outer) EXCEPT !.src = r.src]
             S == CallOf(stack, Who, custom.called)
  <1>1. /\ UNCHANGED <<Aside, pairs, logged>> /\ steps' \in 0..MaxSteps
        /\ gor["serve"].pc = "wait" /\ gor["inner"].pc = "ended"
        /\ GoesOn("serve", "leave", outer, <<a, c>>)
    BY DEF Flush, Ready, Aside, Typed
  <1>2. /\ outer \in Level(stack) /\ stack \in Stacks /\ custom.called \in BOOLEAN
        /\ "serve" \in Goroutine /\ "leave" \in Pc
    BY <1>1, OuterLevel, GorFields DEF Pc
  <1> HIDE DEF outer
  <1>3. st \in Codes /\ r.bytes \in Nat /\ r.src \in SUBSET Who
    BY DEF Typed, Answer, Codes
  <1> HIDE DEF st, r
  <1>4. a \in S /\ Call("write", r.bytes, "handler", outer) \in S
    <2>1. "handler" \in Who /\ st \in Nat
      BY <1>3 DEF Who, Codes
    <2> QED
      BY <1>2, <1>3, <2>1, NewCall
  <1>5. c \in S
    BY <1>3, <1>4 DEF CallOf
  <1> DEFINE calls == <<a, c>>
  <1>6. calls \in Seq(S)
    <2> HIDE DEF a, c, S
    <2> QED
      BY <1>4, <1>5, TwoCalls
  <1> HIDE DEF calls
  <1>7. GoesOn("serve", "leave", outer, calls)
    BY <1>1 DEF calls
  <1>8. /\ gor' \in [Goroutine -> GorOf(stack, custom.called)]
        /\ \A h \in Goroutine : h # "serve" => gor'[h] = gor[h]
        /\ gor'["serve"].pc = "leave" /\ gor'["serve"].at = outer
    BY <1>2, <1>6, <1>7, Goes
  <1>9. Typed'
    BY <1>1, <1>8, TypedStep DEF Typed
  <1>10. gor'["inner"] = gor["inner"]
    BY <1>8 DEF Goroutine
  <1>11. ~tw'.err
    BY <1>1 DEF Shape, Final, Aside
  <1>12. Shape'
    BY <1>1, <1>8, <1>10, <1>11, OuterKeeps DEF Aside, outer
  <1> QED
    BY <1>1, <1>8, <1>9, <1>10, <1>12 DEF Aside

\* serve gives up on inner, with an answer of its own.
LEMMA TimeoutKeeps ==
  ASSUME Typed, Shape, Timeout
  PROVE  /\ Typed' /\ Shape' /\ stack' = stack /\ gor["serve"].pc = "wait"
         /\ gor'["serve"].pc = "leave" /\ gor'["inner"] = gor["inner"]
  <1> DEFINE outer == gor["serve"].at - 1
  <1>1. /\ UNCHANGED <<stack, conn, custom, metrics, pairs, logged, steps, crashed>>
        /\ gor["serve"].pc = "wait" /\ tw' = [tw EXCEPT !.err = TRUE]
    BY DEF Timeout, Ready
  <1>2. /\ outer \in Level(stack) /\ stack \in Stacks /\ custom.called \in BOOLEAN
        /\ "serve" \in Goroutine /\ "leave" \in Pc
    BY <1>1, OuterLevel, GorFields DEF Pc
  <1>3. PICK calls \in {Error(503, "timeout", outer), <<Call("header", 503, "timeout", outer)>>} :
          GoesOn("serve", "leave", outer, calls)
    BY DEF Timeout
  <1> HIDE DEF outer
  <1>4. ASSUME NEW W, "timeout" \in W, NEW d \in BOOLEAN
        PROVE  calls \in Seq(CallOf(stack, W, d))
    <2> DEFINE c == Call("header", 503, "timeout", outer)
               S == CallOf(stack, W, d)
    <2>1. 503 \in Codes
      BY DEF Codes
    <2>2. Error(503, "timeout", outer) \in Seq(S)
      BY <1>2, <1>4, <2>1, ErrorCalls
    <2>3. c \in S
      BY <1>2, <1>4, <2>1, NewCall
    <2> HIDE DEF c, S
    <2>4. <<c>> \in Seq(S)
      BY <2>3, OneCall
    <2>5. calls \in Seq(S)
      BY <1>3, <2>2, <2>4 DEF c
    <2> QED
      BY <2>5 DEF S
  <1>5. /\ calls \in Seq(CallOf(stack, Who, custom.called)) /\ NoHandler(stack, calls)
    <2>1. "timeout" \in Who /\ "timeout" \in Who \ {"handler"}
      BY DEF Who
    <2> QED
      BY <1>2, <1>4, <2>1 DEF NoHandler
  <1>6. /\ gor' \in [Goroutine -> GorOf(stack, custom.called)]
        /\ \A h \in Goroutine : h # "serve" => gor'[h] = gor[h]
        /\ gor'["serve"].pc = "leave" /\ gor'["serve"].at = outer /\ gor'["serve"].todo = calls
    BY <1>2, <1>3, <1>5, Goes
  <1>7. tw' \in [resp : Answer, err : BOOLEAN] /\ tw'.err
    BY <1>1 DEF Typed
  <1>8. Typed'
    BY <1>1, <1>6, <1>7 DEF Typed
  <1>9. gor'["inner"] = gor["inner"]
    BY <1>6 DEF Goroutine
  <1>10. Shape'
    BY <1>1, <1>5, <1>6, <1>7, <1>9, OuterKeeps DEF outer
  <1> QED
    BY <1>1, <1>6, <1>8, <1>9, <1>10

\* The panic of inner goes on in serve.
LEMMA PanicPassedKeeps ==
  ASSUME Typed, Shape, PanicPassed
  PROVE  /\ Typed' /\ Shape' /\ stack' = stack /\ gor["serve"].pc = "wait"
         /\ gor'["serve"].pc = "panic" /\ gor'["inner"] = gor["inner"]
  <1> DEFINE outer == gor["serve"].at - 1
             i == gor["serve"].at
             n == gor["inner"]
  <1>1. /\ UNCHANGED <<Aside, pairs, logged>> /\ steps' \in 0..MaxSteps
        /\ gor["serve"].pc = "wait" /\ n.pc = "panicked"
        /\ GoesOn("serve", "panic", outer, <<>>)
    BY DEF PanicPassed, Ready, Aside, Typed
  <1>2. /\ outer \in Level(stack) /\ i \in 1..Len(stack) /\ stack[i] = "TimeoutHandler"
        /\ stack \in Stacks /\ "serve" \in Goroutine /\ "inner" \in Goroutine /\ "panic" \in Pc
    BY <1>1, OuterLevel DEF Pc
  <1>3. n.at = i
    <2>1. n.at \in 1..Len(stack) /\ stack[n.at] = "TimeoutHandler"
      BY <1>1 DEF Shape, PanicLevel
    <2> QED
      BY <1>2, <2>1, StackFacts
  <1>4. \A k \in i..Len(stack) : stack[k] # "PanicRecovery"
    <2>1. \A k \in (i + 1)..Len(stack) : stack[k] # "PanicRecovery"
      BY <1>1, <1>2, <1>3 DEF Shape, Unrecovered
    <2>2. \A k \in i..Len(stack) : k = i \/ k \in (i + 1)..Len(stack)
      BY <1>2, StackFacts
    <2> QED
      BY <1>2, <2>1, <2>2
  <1>5. outer + 1 = i
    BY <1>2, StackFacts
  <1> HIDE DEF outer
  <1>6. /\ gor' \in [Goroutine -> GorOf(stack, custom.called)]
        /\ \A h \in Goroutine : h # "serve" => gor'[h] = gor[h]
        /\ gor'["serve"].pc = "panic" /\ gor'["serve"].at = outer
    BY <1>1, <1>2, GoesQuietly
  <1>7. Unrecovered(stack, gor'["serve"])
    BY <1>4, <1>5, <1>6 DEF Unrecovered
  <1>8. Typed'
    BY <1>1, <1>6, TypedStep DEF Typed
  <1>9. gor'["inner"] = gor["inner"]
    BY <1>6 DEF Goroutine
  <1>10. ~tw'.err
    BY <1>1 DEF Shape, Final, Aside
  <1>11. Shape'
    BY <1>1, <1>6, <1>7, <1>9, <1>10, OuterKeeps DEF Aside, outer
  <1> QED
    BY <1>1, <1>6, <1>8, <1>9, <1>11 DEF Aside
-----------------------------------------------------------------------------
(* The rate. *)

\* Who is asleep stays asleep, and nobody comes back before RequestLimit.
Rests(r, q) ==
  /\ q.pc = "sleep" <=> r.pc = "sleep"
  /\ r.pc = "sleep" => q.until = r.until /\ q.at = r.at

\* A plain move neither takes a token nor comes back before RequestLimit.
LEMMA MoveRests ==
  ASSUME NEW s, NEW b, NEW g, NEW r, NEW q, r.at \in Nat, Move(s, b, g, r, q)
  PROVE  Rests(r, q) /\ (Before(s, q) => Before(s, r))
  <1>1. CASE Writes(s, r, q)
    BY <1>1 DEF Writes, Rests, Before
  <1>2. CASE GoesIn(s, r, q)
    <2>1. /\ r.pc \in {"enter", "creating"} /\ q.pc \in {"enter", "creating"}
          /\ q.at = r.at \/ q.at = r.at + 1
      BY <1>2 DEF GoesIn
    <2> QED
      BY <2>1 DEF Rests, Before
  <1>3. CASE Refused(r, q) \/ Handles(s, r, q) \/ GoesOut(s, b, r, q) \/ Panics(s, b, g, r, q)
    BY <1>3 DEF Refused, Handles, GoesOut, Panics, Rests, Before
  <1> QED
    BY <1>1, <1>2, <1>3 DEF Move

\* Who rests is due when it was due before.
LEMMA RestsIs ==
  ASSUME NEW r, NEW q, Rests(r, q)
  PROVE  Asleep(q) = Asleep(r) /\ \A t : Due(q, t) = Due(r, t)
  BY DEF Rests, Asleep, Due

\* A goroutine takes at most one token.
LEMMA DueNat ==
  ASSUME NEW r
  PROVE  /\ Asleep(r) \in {0, 1}
         /\ \A t : Due(r, t) \in {0, 1} /\ Due(r, t) <= Asleep(r)
  BY DEF Asleep, Due

\* The same, as numbers.
LEMMA DueIs ==
  ASSUME NEW r, NEW t
  PROVE  Due(r, t) \in Nat /\ Asleep(r) \in Nat /\ Due(r, t) <= Asleep(r)
  BY DEF Asleep, Due

\* The numbers of RequestLimit are naturals.
LEMMA OthersFacts ==
  ASSUME TypedRate
  PROVE  /\ Len(others) \in Nat /\ \A j \in 1..Len(others) : others[j] \in Nat
         /\ arrived \in Nat /\ admitted \in Nat /\ clock \in Nat
         /\ MaxClock \in Nat /\ MaxWait \in Nat /\ Capacity \in Nat
  BY LenProperties, ElementOfSeq, MiddlewareAssumption DEF TypedRate

\* A step after which the same are asleep.
LEMMA RestsKeeps ==
  ASSUME TypedRate, NoneTooMany, Once, stack' = stack,
         UNCHANGED <<others, arrived, admitted, clock>>,
         \A h \in Goroutine : Rests(gor[h], gor'[h]),
         (\E h \in Goroutine : Before(stack, gor'[h])) => \E h \in Goroutine : Before(stack, gor[h])
  PROVE  NoneTooMany' /\ Once' /\ Promised' = Promised
  <1>1. \A h \in Goroutine : /\ Asleep(gor'[h]) = Asleep(gor[h])
                             /\ \A t : Due(gor'[h], t) = Due(gor[h], t)
    BY RestsIs
  <1>2. "serve" \in Goroutine /\ "inner" \in Goroutine
    BY DEF Goroutine
  <1>3. NoneTooMany'
    BY <1>1, <1>2 DEF NoneTooMany, Tokens, Through
  <1>4. Promised' = Promised
    BY <1>1, <1>2 DEF Promised
  <1>5. Once'
    <2> DEFINE before == \E h \in Goroutine : Before(stack, gor[h])
    <2>1. /\ Promised <= arrived + 1
          /\ before => Promised <= arrived
          /\ \A j \in 1..Len(others) : others[j] <= MaxClock + MaxWait
          /\ \A h \in Goroutine : gor[h].pc = "sleep" =>
               /\ gor[h].until <= MaxClock + 2 * MaxWait
               /\ gor[h].at \in 1..Len(stack) /\ stack[gor[h].at] = "RequestLimit"
          /\ clock <= MaxClock + 2 * MaxWait
          /\ before => clock <= MaxClock + MaxWait
      BY DEF Once
    <2>2. \A h \in Goroutine : gor'[h].pc = "sleep" =>
            /\ gor'[h].until <= MaxClock + 2 * MaxWait
            /\ gor'[h].at \in 1..Len(stack) /\ stack[gor'[h].at] = "RequestLimit"
      BY <2>1 DEF Rests
    <2>3. before' => before
      OBVIOUS
    <2>4. /\ Promised' <= arrived + 1
          /\ before' => Promised' <= arrived
          /\ before' => clock <= MaxClock + MaxWait
      BY <2>1, <2>3, <1>4
    <2> QED
      BY <2>1, <2>2, <2>4 DEF Once
  <1> QED
    BY <1>3, <1>4, <1>5

\* So is the number of tokens that were promised.
LEMMA PromisedNat ==
  ASSUME TypedRate
  PROVE  Promised \in Nat
  <1> DEFINE a == Asleep(gor["serve"])
             b == Asleep(gor["inner"])
  <1>1. a \in Nat /\ b \in Nat
    BY DueNat
  <1>2. Promised = admitted + Len(others) + a + b
    BY DEF Promised
  <1> HIDE DEF a, b
  <1> QED
    BY <1>1, <1>2, OthersFacts

\* The bucket after a request for a token.
LEMMA BucketAfter ==
  ASSUME TypedRate, Taken, NEW ok \in BOOLEAN, WaitMaxDuration(ok)
  PROVE  /\ bucket' \in [avail : Int, tick : Nat] /\ bucket'.avail <= Capacity
         /\ bucket'.tick = Tick(clock)
         /\ ok = (WaitTime <= MaxWait)
         /\ bucket'.avail = IF ok THEN Filled - 1 ELSE Filled
         /\ Promised + Filled <= Tokens(clock)
  <1> DEFINE T == Tick(clock)
             k == bucket.tick
             x == quantum * k
             y == quantum * (T - k)
             z == quantum * T
  <1>1. /\ Filled \in Int /\ Filled <= Capacity /\ T \in Nat /\ k \in Nat
        /\ Filled <= bucket.avail + y /\ bucket.avail \in Int /\ Capacity \in Int
    BY FilledIs, MiddlewareAssumption DEF TypedRate
  <1>2. Promised + bucket.avail <= Capacity + x
    BY DEF Taken
  <1>3. Promised \in Nat
    BY PromisedNat
  <1>4. x \in Int /\ y \in Int /\ z \in Int /\ x + y = z
    BY <1>1, QuantumNat
  <1>5. Tokens(clock) = Capacity + z
    BY DEF Tokens
  <1> HIDE DEF x, y, z
  <1>6. Promised + Filled <= Tokens(clock)
    BY <1>1, <1>2, <1>3, <1>4, <1>5
  <1> HIDE DEF T
  <1>7. ok = (WaitTime <= MaxWait)
    BY DEF WaitMaxDuration
  <1>8. bucket' = [avail |-> IF ok THEN Filled - 1 ELSE Filled, tick |-> T]
    BY DEF WaitMaxDuration, T
  <1>9. (IF ok THEN Filled - 1 ELSE Filled) \in Int /\ (IF ok THEN Filled - 1 ELSE Filled) <= Capacity
    BY <1>1
  <1> QED
    BY <1>1, <1>6, <1>7, <1>8, <1>9 DEF T

\* The tokens that the bucket has had grow with time.
LEMMA TokensMono ==
  ASSUME NEW t \in Nat, NEW u \in Nat, t <= u
  PROVE  Tokens(t) \in Nat /\ Tokens(u) \in Nat /\ Tokens(t) <= Tokens(u)
  <1>1. Tick(t) \in Nat /\ Tick(u) \in Nat /\ Tick(t) <= Tick(u)
    BY TickNat, TickMono
  <1> DEFINE x == quantum * Tick(t)
             y == quantum * Tick(u)
  <1>2. x \in Nat /\ y \in Nat /\ x <= y
    BY <1>1, QuantumNat, TimesMono
  <1>3. Tokens(t) = Capacity + x /\ Tokens(u) = Capacity + y /\ Capacity \in Nat
    BY MiddlewareAssumption DEF Tokens
  <1> HIDE DEF x, y
  <1> QED
    BY <1>2, <1>3

\* A token is there at the time that was promised, for one more.
LEMMA TokenThere ==
  ASSUME TypedRate, Taken, WaitMaxDuration(TRUE), NEW t \in Nat, clock + WaitTime <= t
  PROVE  Promised + 1 <= Tokens(t)
  <1> DEFINE u == clock + WaitTime
  <1>1. /\ Promised \in Nat /\ Filled \in Int /\ clock \in Nat /\ WaitTime \in Nat
        /\ Tick(clock) \in Nat
    BY PromisedNat, FilledIs, WaitTimeIs DEF TypedRate
  <1>2. Promised + Filled <= Tokens(clock)
    BY BucketAfter
  <1>3. u \in Nat /\ clock <= u /\ u <= t
    BY <1>1
  <1>4. CASE Filled >= 1
    <2>1. Tokens(clock) \in Nat /\ Tokens(t) \in Nat /\ Tokens(clock) <= Tokens(t)
      <3>1. clock <= t
        BY <1>1
      <3> QED
        BY <1>1, <3>1, TokensMono
    <2> QED
      BY <1>1, <1>2, <1>4, <2>1
  <1>5. CASE Filled < 1
    <2> DEFINE x == quantum * Tick(clock)
               y == quantum * (Tick(u) - Tick(clock))
               z == quantum * Tick(u)
    <2>1. 1 - Filled <= y
      BY <1>5, WaitTimeIs
    <2> HIDE DEF u
    <2>2. Tick(u) \in Nat
      BY <1>3, TickNat
    <2>3. x \in Int /\ y \in Int /\ z \in Int /\ x + y = z
      BY <1>1, <2>2, QuantumNat
    <2>4. Tokens(clock) = Capacity + x /\ Tokens(u) = Capacity + z /\ Capacity \in Int
      BY MiddlewareAssumption DEF Tokens
    <2>5. Tokens(u) \in Nat /\ Tokens(t) \in Nat /\ Tokens(u) <= Tokens(t)
      BY <1>3, TokensMono
    <2> HIDE DEF x, y, z
    <2> QED
      BY <1>1, <1>2, <2>1, <2>3, <2>4, <2>5
  <1> QED
    BY <1>1, <1>4, <1>5
\* A step that leaves the bucket, the clock and the sleepers alone keeps the rate.
LEMMA RateRests ==
  ASSUME Rate, stack' = stack, UNCHANGED <<rate, clock>>,
         \A h \in Goroutine : Rests(gor[h], gor'[h]),
         (\E h \in Goroutine : Before(stack, gor'[h])) => \E h \in Goroutine : Before(stack, gor[h])
  PROVE  Rate'
  <1>1. UNCHANGED <<bucket, others, arrived, admitted, clock>>
    BY DEF rate
  <1>2. NoneTooMany' /\ Once' /\ Promised' = Promised
    BY <1>1, RestsKeeps DEF Rate
  <1>3. TypedRate'
    BY <1>1 DEF Rate, TypedRate, Tick
  <1>4. Taken'
    BY <1>1, <1>2 DEF Rate, Taken
  <1> QED
    BY <1>2, <1>3, <1>4 DEF Rate

\* The bucket after a request for a token has the type, and Taken for what it took.
LEMMA BucketKeeps ==
  ASSUME TypedRate, Taken, NEW ok \in BOOLEAN, WaitMaxDuration(ok), clock' = clock,
         others' \in Seq(Nat), arrived' \in 0..MaxOthers, admitted' = admitted,
         Promised' = IF ok THEN Promised + 1 ELSE Promised
  PROVE  TypedRate' /\ Taken'
  <1>1. /\ bucket' \in [avail : Int, tick : Nat] /\ bucket'.avail <= Capacity
        /\ bucket'.tick = Tick(clock)
        /\ bucket'.avail = IF ok THEN Filled - 1 ELSE Filled
        /\ Promised + Filled <= Tokens(clock)
    BY BucketAfter
  <1>2. Promised \in Nat /\ Filled \in Int /\ clock \in Nat /\ admitted \in Nat
    BY PromisedNat, FilledIs DEF TypedRate
  <1>3. Tick(clock) \in Nat
    BY <1>2, TickNat
  <1>4. TypedRate'
    <2>1. bucket'.tick <= Tick(clock')
      BY <1>1, <1>3
    <2> QED
      BY <1>1, <1>2, <2>1 DEF TypedRate, Tick
  <1>5. Promised' + bucket'.avail = Promised + Filled
    BY <1>1, <1>2
  <1>6. Tokens(clock) = Capacity + quantum * bucket'.tick
    BY <1>1 DEF Tokens
  <1>7. Taken'
    BY <1>1, <1>5, <1>6 DEF Taken, quantum
  <1> QED
    BY <1>4, <1>7

\* A goroutine is refused, or another request is.
LEMMA RefusedRate ==
  ASSUME Rate, WaitMaxDuration(FALSE), stack' = stack,
         UNCHANGED <<others, arrived, admitted, clock>>,
         \A h \in Goroutine : Rests(gor[h], gor'[h]),
         (\E h \in Goroutine : Before(stack, gor'[h])) => \E h \in Goroutine : Before(stack, gor[h])
  PROVE  Rate'
  <1>1. NoneTooMany' /\ Once' /\ Promised' = Promised
    BY RestsKeeps DEF Rate
  <1>2. others' \in Seq(Nat) /\ arrived' \in 0..MaxOthers
    BY DEF Rate, TypedRate
  <1>3. TypedRate' /\ Taken'
    BY <1>1, <1>2, BucketKeeps DEF Rate
  <1> QED
    BY <1>1, <1>3 DEF Rate

\* Those that are through at t, and the others asleep, hold promised tokens.
LEMMA ThroughPromised ==
  ASSUME TypedRate, NEW t
  PROVE  Through(t) \in Nat /\ Through(t) + Len(others) <= Promised
  <1> DEFINE a == Asleep(gor["serve"])
             b == Asleep(gor["inner"])
             c == Due(gor["serve"], t)
             d == Due(gor["inner"], t)
  <1>1. a \in Nat /\ b \in Nat /\ c \in Nat /\ d \in Nat /\ c <= a /\ d <= b
    BY DueNat
  <1>2. Promised = admitted + Len(others) + a + b /\ Through(t) = admitted + c + d
    BY DEF Promised, Through
  <1> HIDE DEF a, b, c, d
  <1> QED
    BY <1>1, <1>2, OthersFacts, SMTT(30)

\* Another request takes a token, now or for later, or is refused.
LEMMA OtherArrivesRate ==
  ASSUME Rate, OtherArrives
  PROVE  Rate'
  <1> DEFINE u == clock + WaitTime
  <1>1. /\ arrived' = arrived + 1 /\ arrived < MaxOthers /\ clock < MaxClock
        /\ UNCHANGED <<stack, gor, admitted, clock>>
        /\ \/ WaitMaxDuration(TRUE) /\ others' = Append(others, u)
           \/ WaitMaxDuration(FALSE) /\ others' = others
    BY DEF OtherArrives, Arrivals, request
  <1>2. /\ arrived \in Nat /\ arrived' \in 0..MaxOthers /\ clock \in Nat /\ admitted \in Nat
        /\ Len(others) \in Nat /\ MaxClock \in Nat /\ MaxWait \in Nat
        /\ WaitTime \in Nat /\ u \in Nat
        /\ others \in Seq(Nat) /\ Promised \in Nat
    BY <1>1, OthersFacts, WaitTimeIs, PromisedNat, MiddlewareAssumption DEF Rate, TypedRate
  <1> DEFINE before == \E g \in Goroutine : Before(stack, gor[g])
  <1>3. /\ Promised <= arrived + 1
        /\ before => Promised <= arrived
        /\ \A j \in 1..Len(others) : others[j] <= MaxClock + MaxWait
        /\ \A g \in Goroutine : gor[g].pc = "sleep" =>
             /\ gor[g].until <= MaxClock + 2 * MaxWait
             /\ gor[g].at \in 1..Len(stack) /\ stack[gor[g].at] = "RequestLimit"
        /\ clock <= MaxClock + 2 * MaxWait
        /\ before => clock <= MaxClock + MaxWait
    BY DEF Rate, Once
  <1>4. before' = before
    BY <1>1
  <1>5. CASE WaitMaxDuration(TRUE) /\ others' = Append(others, u)
    <2>1. /\ others' \in Seq(Nat) /\ Len(others') = Len(others) + 1
          /\ \A j \in 1..Len(others) : others'[j] = others[j]
          /\ others'[Len(others) + 1] = u
      <3> HIDE DEF u
      <3> QED
        BY <1>2, <1>5, AppendProperties
    <2>2. Promised' = Promised + 1
      <3> DEFINE a == Asleep(gor["serve"])
                 b == Asleep(gor["inner"])
      <3>1. a \in Nat /\ b \in Nat
        BY DueNat
      <3>2. Promised = admitted + Len(others) + a + b /\ Promised' = admitted + Len(others') + a + b
        BY <1>1 DEF Promised
      <3> HIDE DEF a, b
      <3> QED
        BY <1>2, <2>1, <3>1, <3>2
    <2>3. TypedRate' /\ Taken'
      BY <1>1, <1>2, <1>5, <2>1, <2>2, BucketKeeps DEF Rate
    <2>4. NoneTooMany'
      <3> SUFFICES ASSUME NEW t \in Nat, t >= clock
                   PROVE  /\ Through(t) <= Tokens(t)
                          /\ \A j \in 1..Len(others') :
                               others'[j] <= t => Through(t) + j <= Tokens(t)
        BY <1>1 DEF NoneTooMany, Through, Tokens, quantum, Tick
      <3>1. /\ Through(t) <= Tokens(t)
            /\ \A j \in 1..Len(others) : others[j] <= t => Through(t) + j <= Tokens(t)
        BY DEF Rate, NoneTooMany
      <3>2. ASSUME u <= t
            PROVE  Through(t) + (Len(others) + 1) <= Tokens(t)
        <4>1. Promised + 1 <= Tokens(t)
          BY <1>5, <3>2, TokenThere DEF Rate
        <4>2. Through(t) \in Nat /\ Through(t) + Len(others) <= Promised
          BY ThroughPromised DEF Rate
        <4>3. Tokens(t) \in Nat
          BY TokensMono
        <4> QED
          BY <1>2, <4>1, <4>2, <4>3
      <3>3. \A j \in 1..Len(others') : j \in 1..Len(others) \/ j = Len(others) + 1
        BY <1>2, <2>1
      <3> HIDE DEF u
      <3>4. ASSUME NEW j \in 1..Len(others'), others'[j] <= t
            PROVE  Through(t) + j <= Tokens(t)
        <4>1. CASE j \in 1..Len(others)
          BY <2>1, <3>1, <3>4, <4>1
        <4>2. CASE j = Len(others) + 1
          BY <2>1, <3>2, <3>4, <4>2
        <4> QED
          BY <3>3, <4>1, <4>2
      <3> QED
        BY <3>1, <3>4
    <2>5. Once'
      <3>1. \A j \in 1..Len(others') : others'[j] <= MaxClock + MaxWait
        <4>1. u <= MaxClock + MaxWait
          <5>1. WaitTime <= MaxWait
            BY <1>5, BucketAfter DEF Rate
          <5> QED
            BY <1>1, <1>2, <5>1
        <4> HIDE DEF u
        <4>2. \A j \in 1..Len(others') : j \in 1..Len(others) \/ j = Len(others) + 1
          BY <1>2, <2>1
        <4> QED
          BY <1>3, <2>1, <4>1, <4>2
      <3>2. Promised' <= arrived' + 1 /\ (before' => Promised' <= arrived')
        <4> HIDE DEF before
        <4> QED
          BY <1>1, <1>2, <1>3, <1>4, <2>2
      <3> QED
        BY <1>1, <1>3, <1>4, <3>1, <3>2 DEF Once
    <2> QED
      BY <2>3, <2>4, <2>5 DEF Rate
  <1>6. CASE WaitMaxDuration(FALSE) /\ others' = others
    <2>1. Promised' = Promised
      BY <1>1, <1>6 DEF Promised
    <2>2. TypedRate' /\ Taken'
      BY <1>1, <1>2, <1>6, <2>1, BucketKeeps DEF Rate
    <2>3. NoneTooMany'
      BY <1>1, <1>6 DEF Rate, NoneTooMany, Through, Tokens, quantum, Tick
    <2>4. Promised' <= arrived' + 1 /\ (before' => Promised' <= arrived')
      <3> HIDE DEF before
      <3> QED
        BY <1>1, <1>2, <1>3, <1>4, <2>1
    <2>5. Once'
      BY <1>1, <1>3, <1>4, <1>6, <2>4 DEF Once
    <2> QED
      BY <2>2, <2>3, <2>5 DEF Rate
  <1> QED
    BY <1>1, <1>5, <1>6
\* Another request wakes with the token that it was promised.
LEMMA OtherWakesRate ==
  ASSUME Rate, OtherWakes
  PROVE  Rate'
  <1>1. /\ others # <<>> /\ clock >= Head(others) /\ others' = Tail(others)
        /\ admitted' = admitted + 1 /\ UNCHANGED <<stack, gor, bucket, arrived, clock>>
    BY DEF OtherWakes, request
  <1>2. /\ arrived \in Nat /\ clock \in Nat /\ admitted \in Nat /\ Len(others) \in Nat
        /\ others \in Seq(Nat) /\ Len(others) >= 1
    BY <1>1, OthersFacts, EmptySeq DEF Rate, TypedRate
  <1>3. /\ others' \in Seq(Nat) /\ Len(others') = Len(others) - 1 /\ Head(others) = others[1]
        /\ \A j \in 1..Len(others') : others'[j] = others[j + 1]
    BY <1>1, <1>2, HeadTailProperties
  <1>4. \A j \in 1..Len(others') : j + 1 \in 1..Len(others)
    BY <1>2, <1>3
  <1>5. Promised' = Promised
    <2> DEFINE a == Asleep(gor["serve"])
               b == Asleep(gor["inner"])
    <2>1. a \in Nat /\ b \in Nat
      BY DueNat
    <2>2. /\ Promised = admitted + Len(others) + a + b
          /\ Promised' = admitted + 1 + Len(others') + a + b
      BY <1>1 DEF Promised
    <2> HIDE DEF a, b
    <2> QED
      BY <1>2, <1>3, <2>1, <2>2
  <1>6. TypedRate'
    BY <1>1, <1>2, <1>3 DEF Rate, TypedRate, Tick
  <1>7. Taken'
    BY <1>1, <1>5 DEF Rate, Taken
  <1>8. NoneTooMany'
    <2> SUFFICES ASSUME NEW t \in Nat, t >= clock
                 PROVE  /\ Through(t) + 1 <= Tokens(t)
                        /\ \A j \in 1..Len(others') :
                             others'[j] <= t => Through(t) + 1 + j <= Tokens(t)
      <3>1. ASSUME NEW t \in Nat PROVE Through(t)' = Through(t) + 1
        <4> DEFINE c == Due(gor["serve"], t)
                   d == Due(gor["inner"], t)
        <4>1. c \in Nat /\ d \in Nat
          BY DueIs
        <4>2. Through(t) = admitted + c + d /\ Through(t)' = admitted + 1 + c + d
          BY <1>1 DEF Through
        <4> HIDE DEF c, d
        <4> QED
          BY <1>2, <4>1, <4>2
      <3> QED
        BY <1>1, <3>1 DEF NoneTooMany, Tokens, quantum, Tick
    <2>1. \A j \in 1..Len(others) : others[j] <= t => Through(t) + j <= Tokens(t)
      BY DEF Rate, NoneTooMany
    <2>2. Through(t) \in Nat /\ Tokens(t) \in Nat
      BY ThroughPromised, TokensMono DEF Rate
    <2>3. Through(t) + 1 <= Tokens(t)
      <3>1. 1 \in 1..Len(others) /\ others[1] \in Nat /\ others[1] <= t
        BY <1>1, <1>2, <1>3, OthersFacts DEF Rate
      <3> QED
        BY <2>1, <3>1
    <2>4. ASSUME NEW j \in 1..Len(others'), others'[j] <= t
          PROVE  Through(t) + 1 + j <= Tokens(t)
      <3>1. Through(t) + (j + 1) <= Tokens(t)
        BY <1>3, <1>4, <2>1, <2>4
      <3> QED
        BY <1>2, <1>3, <2>2, <3>1
    <2> QED
      BY <2>3, <2>4
  <1>9. Once'
    <2>1. \A j \in 1..Len(others') : others'[j] <= MaxClock + MaxWait
      BY <1>3, <1>4 DEF Rate, Once
    <2> QED
      BY <1>1, <1>5, <2>1 DEF Rate, Once
  <1> QED
    BY <1>6, <1>7, <1>8, <1>9 DEF Rate

\* While one goroutine is on its way in, the other is not.
LEMMA OneEnters ==
  ASSUME Shape, NEW g \in Goroutine, NEW h \in Goroutine, g # h,
         gor[g].pc \in {"enter", "sleep"}
  PROVE  gor[h].pc \notin {"enter", "creating", "sleep"}
  BY DEF Shape, Control, Goroutine

\* Time passes no sleeper, and what was in order at every later time still is.
LEMMA TimeRate ==
  ASSUME Typed, Shape, Rate, Time
  PROVE  Rate'
  <1> DEFINE before == \E g \in Goroutine : Before(stack, gor[g])
             E == MaxClock + MaxWait
             F == MaxClock + 2 * MaxWait
  <1>1. /\ clock' = clock + 1 /\ UNCHANGED <<stack, gor, bucket, others, arrived, admitted>>
        /\ \/ clock < MaxClock
           \/ \E i \in 1..Len(others) : clock < others[i]
           \/ \E g \in Goroutine : gor[g].pc = "sleep" /\ clock < gor[g].until
    BY DEF Time, request, rate, Arrivals
  <1>2. /\ clock \in Nat /\ clock' \in Nat /\ E \in Nat /\ F \in Nat /\ MaxClock <= E /\ E <= F
        /\ \A j \in 1..Len(others) : others[j] \in Nat
        /\ \A g \in Goroutine : gor[g].until \in Nat
    BY <1>1, OthersFacts, GorFields DEF Rate
  <1>3. /\ \A j \in 1..Len(others) : others[j] <= E
        /\ \A g \in Goroutine : gor[g].pc = "sleep" => gor[g].until <= F
    BY DEF Rate, Once
  <1>4. Promised' = Promised
    BY <1>1 DEF Promised
  <1>5. TypedRate'
    <2>1. Tick(clock) <= Tick(clock') /\ Tick(clock) \in Nat /\ Tick(clock') \in Nat
      <3>1. clock <= clock'
        BY <1>1, <1>2
      <3> QED
        BY <1>2, <3>1, TickMono, TickNat
    <2>2. bucket.tick \in Nat /\ bucket.tick <= Tick(clock)
      BY DEF Rate, TypedRate
    <2>3. bucket.tick <= Tick(clock')
      BY <2>1, <2>2
    <2> QED
      BY <1>1, <1>2, <2>3 DEF Rate, TypedRate, Tick
  <1>6. Taken'
    BY <1>1, <1>4 DEF Rate, Taken
  <1>7. NoneTooMany'
    <2>1. \A t \in Nat : t >= clock' => t >= clock
      BY <1>1, <1>2
    <2> QED
      BY <1>1, <2>1 DEF Rate, NoneTooMany, Through, Tokens, quantum, Tick
  <1>8. clock' <= F /\ (before => clock' <= E)
    <2>1. CASE clock < MaxClock
      BY <1>1, <1>2, <2>1, MiddlewareAssumption
    <2>2. CASE \E i \in 1..Len(others) : clock < others[i]
      <3>1. PICK i \in 1..Len(others) : clock < others[i]
        BY <2>2
      <3>2. others[i] \in Nat /\ others[i] <= E
        BY <1>2, <1>3
      <3> HIDE DEF E, F, before
      <3> QED
        BY <1>1, <1>2, <3>1, <3>2
    <2>3. CASE \E g \in Goroutine : gor[g].pc = "sleep" /\ clock < gor[g].until
      <3>1. PICK g \in Goroutine : gor[g].pc = "sleep" /\ clock < gor[g].until
        BY <2>3
      <3>2. gor[g].until \in Nat /\ gor[g].until <= F
        BY <1>2, <1>3, <3>1
      <3>3. ~before
        BY <3>1, OneEnters DEF Before
      <3> HIDE DEF E, F, before
      <3> QED
        BY <1>1, <1>2, <3>1, <3>2, <3>3
    <2> QED
      BY <1>1, <2>1, <2>2, <2>3
  <1>9. Once'
    BY <1>1, <1>4, <1>8 DEF Rate, Once
  <1> QED
    BY <1>5, <1>6, <1>7, <1>9 DEF Rate

\* One goroutine goes to sleep or wakes: what changes of the sums.
LEMMA SumsOf ==
  ASSUME TypedRate, NEW g \in Goroutine, \A h \in Goroutine : h # g => gor'[h] = gor[h],
         NEW k \in Nat, admitted' = admitted + k, others' = others
  PROVE  /\ Promised' = Promised + k + Asleep(gor'[g]) - Asleep(gor[g])
         /\ \A t : Through(t)' = Through(t) + k + Due(gor'[g], t) - Due(gor[g], t)
  <1>1. \A h \in Goroutine : /\ Asleep(gor[h]) \in Nat /\ Asleep(gor'[h]) \in Nat
                             /\ \A t : Due(gor[h], t) \in Nat /\ Due(gor'[h], t) \in Nat
    BY DueNat
  <1>2. /\ "serve" \in Goroutine /\ "inner" \in Goroutine /\ admitted \in Nat /\ Len(others) \in Nat
        /\ g = "serve" \/ g = "inner"
    BY OthersFacts DEF Goroutine
  <1>3. Promised' = Promised + k + Asleep(gor'[g]) - Asleep(gor[g])
    <2>1. CASE g = "serve"
      BY <1>1, <1>2, <2>1 DEF Promised
    <2>2. CASE g = "inner"
      BY <1>1, <1>2, <2>2 DEF Promised
    <2> QED
      BY <1>2, <2>1, <2>2
  <1>4. ASSUME NEW t
        PROVE  Through(t)' = Through(t) + k + Due(gor'[g], t) - Due(gor[g], t)
    <2> DEFINE a == Due(gor["serve"], t)
               b == Due(gor["inner"], t)
               c == Due(gor'["serve"], t)
               d == Due(gor'["inner"], t)
    <2>0. a \in Nat /\ b \in Nat /\ c \in Nat /\ d \in Nat
      BY DueIs
    <2>a. Through(t) = admitted + a + b /\ Through(t)' = admitted' + c + d
      BY DEF Through
    <2>1. CASE g = "serve"
      <3>1. b = d /\ Due(gor'[g], t) = c /\ Due(gor[g], t) = a
        BY <1>2, <2>1
      <3> HIDE DEF a, b, c, d
      <3> QED
        BY <1>2, <2>0, <2>a, <3>1
    <2>2. CASE g = "inner"
      <3>1. a = c /\ Due(gor'[g], t) = d /\ Due(gor[g], t) = b
        BY <1>2, <2>2
      <3> HIDE DEF a, b, c, d
      <3> QED
        BY <1>2, <2>0, <2>a, <3>1
    <2> QED
      BY <1>2, <2>1, <2>2
  <1> QED
    BY <1>3, <1>4
\* The request wakes with the token that it was promised.
LEMMA WakeRate ==
  ASSUME Typed, Shape, Rate, NEW g \in Goroutine, Wake(g), Alone(g), Wakes(gor[g], gor'[g])
  PROVE  Rate'
  <1> DEFINE before == \E h \in Goroutine : Before(stack, gor[h])
  <1>1. /\ gor[g].pc = "sleep" /\ clock >= gor[g].until /\ admitted' = admitted + 1
        /\ UNCHANGED <<stack, bucket, others, arrived, clock>>
    BY DEF Wake, Ready
  <1>2. gor'[g].pc = "enter" /\ gor'[g].at = gor[g].at
    BY DEF Wakes
  <1>3. \A h \in Goroutine : h # g => gor'[h] = gor[h]
    BY DEF Alone
  <1>4. /\ Promised \in Nat /\ admitted \in Nat /\ clock \in Nat /\ gor[g].until \in Nat
        /\ others \in Seq(Nat)
    BY PromisedNat, OthersFacts, GorFields DEF Rate, TypedRate
  <1>5. Promised' = Promised
    <2>1. Asleep(gor[g]) = 1 /\ Asleep(gor'[g]) = 0
      BY <1>1, <1>2 DEF Asleep
    <2>2. Promised' = Promised + 1 + Asleep(gor'[g]) - Asleep(gor[g])
      BY <1>1, <1>3, SumsOf DEF Rate
    <2> QED
      BY <1>4, <2>1, <2>2
  <1>6. ASSUME NEW t \in Nat, t >= clock
        PROVE  Through(t)' = Through(t)
    <2>1. Due(gor[g], t) = 1 /\ Due(gor'[g], t) = 0
      <3>1. gor[g].until <= t
        BY <1>1, <1>4, <1>6
      <3> QED
        BY <1>1, <1>2, <3>1 DEF Due
    <2>2. Through(t)' = Through(t) + 1 + Due(gor'[g], t) - Due(gor[g], t)
      BY <1>1, <1>3, SumsOf DEF Rate
    <2>3. Through(t) \in Nat
      BY ThroughPromised DEF Rate
    <2> QED
      BY <2>1, <2>2, <2>3
  <1>7. TypedRate'
    BY <1>1, <1>4 DEF Rate, TypedRate, Tick
  <1>8. Taken'
    BY <1>1, <1>5 DEF Rate, Taken
  <1>9. NoneTooMany'
    BY <1>1, <1>6 DEF Rate, NoneTooMany, Tokens, quantum, Tick
  <1>10. Once'
    <2>1. gor[g].at \in 1..Len(stack) /\ stack[gor[g].at] = "RequestLimit"
      BY <1>1 DEF Rate, Once
    <2>2. \A h \in Goroutine : ~Before(stack, gor'[h])
      <3>1. ~Before(stack, gor'[g])
        BY <1>2, <2>1 DEF Before
      <3>2. \A h \in Goroutine : h # g => ~Before(stack, gor[h])
        BY <1>1, OneEnters DEF Before
      <3> QED
        BY <1>3, <3>1, <3>2
    <2>3. \A h \in Goroutine : gor'[h].pc = "sleep" => h # g
      BY <1>2
    <2> QED
      BY <1>1, <1>3, <1>5, <2>2, <2>3 DEF Rate, Once
  <1> QED
    BY <1>7, <1>8, <1>9, <1>10 DEF Rate

\* Nobody is before RequestLimit any more when one has come to it.
LEMMA ComesToLimit ==
  ASSUME Typed, Shape, NEW g \in Goroutine, gor[g].pc = "enter",
         gor[g].at + 1 \in 1..Len(stack), stack[gor[g].at + 1] = "RequestLimit"
  PROVE  /\ Before(stack, gor[g])
         /\ \A h \in Goroutine : h # g => ~Before(stack, gor[h])
  <1>1. \A i \in 1..gor[g].at : stack[i] # "RequestLimit"
    <2>1. stack \in Stacks /\ gor[g].at \in Nat /\ Len(stack) \in Nat
      BY GorFields, StackFacts DEF Level
    <2>2. \A i \in 1..gor[g].at : i \in 1..Len(stack) /\ i # gor[g].at + 1
      BY <2>1
    <2> QED
      BY <2>1, <2>2, StackFacts
  <1>2. \A h \in Goroutine : h # g => ~Before(stack, gor[h])
    BY OneEnters DEF Before
  <1> QED
    BY <1>1, <1>2 DEF Before

\* The request takes a token: those due by then are no more than the bucket has had.
LEMMA SleepRate ==
  ASSUME Typed, Shape, Rate, NEW g \in Goroutine, Alone(g), Sleeps(stack, gor[g], gor'[g]),
         gor'[g].until = clock + WaitTime, WaitMaxDuration(TRUE),
         UNCHANGED <<others, arrived, admitted, clock>>
  PROVE  Rate'
  <1> DEFINE u == clock + WaitTime
  <1>1. /\ gor[g].pc = "enter" /\ gor'[g].pc = "sleep" /\ gor'[g].at = gor[g].at + 1
        /\ gor'[g].at \in 1..Len(stack) /\ stack[gor'[g].at] = "RequestLimit"
    BY DEF Sleeps
  <1>2. stack' = stack /\ \A h \in Goroutine : h # g => gor'[h] = gor[h]
    BY DEF Alone
  <1>3. /\ Promised \in Nat /\ admitted \in Nat /\ clock \in Nat /\ WaitTime \in Nat /\ u \in Nat
        /\ arrived \in Nat /\ MaxClock \in Nat /\ MaxWait \in Nat /\ Len(others) \in Nat
    BY PromisedNat, OthersFacts, WaitTimeIs DEF Rate
  <1>4. Promised' = Promised + 1
    <2>1. Asleep(gor[g]) = 0 /\ Asleep(gor'[g]) = 1
      BY <1>1 DEF Asleep
    <2>2. admitted' = admitted + 0
      BY <1>3
    <2>3. Promised' = Promised + 0 + Asleep(gor'[g]) - Asleep(gor[g])
      BY <1>2, <2>2, SumsOf DEF Rate
    <2> QED
      BY <1>3, <2>1, <2>3
  <1>5. ASSUME NEW t \in Nat
        PROVE  Through(t)' = IF u <= t THEN Through(t) + 1 ELSE Through(t)
    <2>1. Due(gor[g], t) = 0 /\ Due(gor'[g], t) = IF u <= t THEN 1 ELSE 0
      BY <1>1 DEF Due
    <2>2. admitted' = admitted + 0
      BY <1>3
    <2>3. Through(t)' = Through(t) + 0 + Due(gor'[g], t) - Due(gor[g], t)
      BY <1>2, <2>2, SumsOf DEF Rate
    <2>4. Through(t) \in Nat
      BY ThroughPromised DEF Rate
    <2> HIDE DEF u
    <2> QED
      BY <2>1, <2>3, <2>4
  <1>6. TypedRate' /\ Taken'
    <2>1. others' \in Seq(Nat) /\ arrived' \in 0..MaxOthers
      BY DEF Rate, TypedRate
    <2> QED
      BY <1>4, <2>1, BucketKeeps DEF Rate
  <1>7. NoneTooMany'
    <2> SUFFICES ASSUME NEW t \in Nat, t >= clock
                 PROVE  /\ Through(t)' <= Tokens(t)
                        /\ \A j \in 1..Len(others) :
                             others[j] <= t => Through(t)' + j <= Tokens(t)
      BY DEF NoneTooMany, Tokens, quantum, Tick
    <2>1. CASE u <= t
      <3>1. Through(t)' = Through(t) + 1
        BY <1>5, <2>1
      <3>2. Promised + 1 <= Tokens(t)
        BY <2>1, TokenThere DEF Rate
      <3>3. Through(t) \in Nat /\ Through(t) + Len(others) <= Promised
        BY ThroughPromised DEF Rate
      <3>4. Tokens(t) \in Nat
        BY TokensMono
      <3>5. \A j \in 1..Len(others) : j \in Nat /\ j <= Len(others)
        BY <1>3
      <3>6. ASSUME NEW j \in 1..Len(others)
            PROVE  Through(t)' + j <= Tokens(t)
        BY <1>3, <3>1, <3>2, <3>3, <3>4, <3>5
      <3>7. Through(t)' <= Tokens(t)
        BY <1>3, <3>1, <3>2, <3>3, <3>4
      <3> QED
        BY <3>6, <3>7
    <2>2. CASE ~(u <= t)
      <3>1. Through(t)' = Through(t)
        BY <1>5, <2>2
      <3> QED
        BY <3>1 DEF Rate, NoneTooMany
    <2> QED
      BY <2>1, <2>2
  <1>8. Once'
    <2>1. /\ Before(stack, gor[g])
          /\ \A h \in Goroutine : h # g => ~Before(stack, gor[h])
      BY <1>1, ComesToLimit
    <2>2. Promised <= arrived /\ clock <= MaxClock + MaxWait
      BY <2>1 DEF Rate, Once
    <2>3. u <= MaxClock + 2 * MaxWait
      <3>1. WaitTime <= MaxWait
        BY BucketAfter DEF Rate
      <3> QED
        BY <1>3, <2>2, <3>1
    <2>4. \A h \in Goroutine : ~Before(stack, gor'[h])
      BY <1>1, <1>2, <2>1 DEF Before
    <2>5. Promised' <= arrived + 1
      BY <1>3, <1>4, <2>2
    <2>6. \A h \in Goroutine : gor'[h].pc = "sleep" =>
            /\ gor'[h].until <= MaxClock + 2 * MaxWait
            /\ gor'[h].at \in 1..Len(stack) /\ stack[gor'[h].at] = "RequestLimit"
      BY <1>1, <1>2, <2>3 DEF Rate, Once
    <2> QED
      BY <1>2, <2>4, <2>5, <2>6 DEF Rate, Once
  <1> QED
    BY <1>6, <1>7, <1>8 DEF Rate
-----------------------------------------------------------------------------
(* The steps. *)

\* A move of one goroutine keeps the invariant.
LEMMA MoveKeeps ==
  ASSUME IInv, NEW g \in Goroutine, Typed', Moves(g), UNCHANGED <<rate, clock>>
  PROVE  IInv'
  <1>1. Shape'
    BY ShapeKept DEF IInv, Moves, AnyMove
  <1>2. gor[g].at \in Nat
    BY GorFields, StackFacts DEF IInv, Level
  <1>3. Rests(gor[g], gor'[g]) /\ (Before(stack, gor'[g]) => Before(stack, gor[g]))
    BY <1>2, MoveRests DEF Moves
  <1>4. stack' = stack /\ \A h \in Goroutine : h # g => gor'[h] = gor[h]
    BY DEF Moves, Alone
  <1>5. \A h \in Goroutine : Rests(gor[h], gor'[h])
    BY <1>3, <1>4 DEF Rests
  <1>6. Rate'
    BY <1>3, <1>4, <1>5, RateRests DEF IInv
  <1> QED
    BY <1>1, <1>6 DEF IInv

\* So does every call of a writer,
LEMMA WriterCallKeeps ==
  ASSUME IInv, NEW g \in Goroutine, WriterCall(g)
  PROVE  IInv'
  <1>1. Typed /\ Uses
    BY DEF IInv, Shape
  <1>2. CASE g = "serve" /\ ConnCall
    <2>1. UNCHANGED <<rate, clock>>
      BY <1>2 DEF ConnCall
    <2> QED
      BY <1>1, <1>2, <2>1, ConnCallMoves, MoveKeeps
  <1>3. CASE g = "inner" /\ BufferCall
    <2>1. UNCHANGED <<rate, clock>>
      BY <1>3 DEF BufferCall
    <2> QED
      BY <1>1, <1>3, <2>1, BufferCallMoves, MoveKeeps
  <1>4. CASE LimitCall(g)
    <2>1. UNCHANGED <<rate, clock>>
      BY <1>4 DEF LimitCall
    <2> QED
      BY <1>1, <1>4, <2>1, LimitCallMoves, MoveKeeps
  <1>5. CASE LoggingCall(g)
    <2>1. UNCHANGED <<rate, clock>>
      BY <1>5 DEF LoggingCall
    <2> QED
      BY <1>1, <1>5, <2>1, LoggingCallMoves, MoveKeeps
  <1>6. CASE CustomCall(g)
    <2>1. UNCHANGED <<rate, clock>>
      BY <1>6 DEF CustomCall
    <2> QED
      BY <1>1, <1>6, <2>1, CustomCallMoves, MoveKeeps
  <1> QED
    BY <1>2, <1>3, <1>4, <1>5, <1>6 DEF WriterCall

\* every step of the handler,
LEMMA HandlerKeeps ==
  ASSUME IInv, NEW g \in Goroutine, Handler(g)
  PROVE  IInv'
  <1>1. Typed /\ Uses
    BY DEF IInv, Shape
  <1>2. UNCHANGED <<rate, clock>>
    BY DEF Handler, StartHandler, HandlerWrites, HandlerReturns, HandlerFails, SetKeyValue,
           KeyValueSet
  <1>3. Typed' /\ Moves(g)
    BY <1>1, StartHandlerMoves, HandlerWritesMoves, HandlerReturnsMoves, HandlerFailsMoves,
       SetKeyValueMoves, KeyValueSetMoves DEF Handler
  <1> QED
    BY <1>2, <1>3, MoveKeeps

\* every way into the next middleware,
LEMMA EnterKeeps ==
  ASSUME IInv, NEW g \in Goroutine,
         EnterPlain(g) \/ EnterContentType(g) \/ EnterRequestLimit(g) \/ Wake(g)
  PROVE  IInv'
  <1>1. Typed /\ Uses /\ Shape /\ TypedRate /\ Rate
    BY DEF IInv, Shape, Rate
  <1>2. CASE EnterPlain(g) \/ EnterContentType(g)
    <2>1. UNCHANGED <<rate, clock>>
      BY <1>2 DEF EnterPlain, EnterContentType
    <2> QED
      BY <1>1, <1>2, <2>1, EnterPlainMoves, EnterContentTypeMoves, MoveKeeps
  <1>3. CASE EnterRequestLimit(g)
    <2>1. UNCHANGED <<others, arrived, admitted, clock>>
      BY <1>3 DEF EnterRequestLimit
    <2>2. /\ Typed' /\ Alone(g)
          /\ \/ /\ Sleeps(stack, gor[g], gor'[g]) /\ gor'[g].until = clock + WaitTime
                /\ WaitMaxDuration(TRUE)
             \/ Refused(gor[g], gor'[g]) /\ WaitMaxDuration(FALSE)
      BY <1>1, <1>3, EnterRequestLimitMoves
    <2>3. CASE /\ Sleeps(stack, gor[g], gor'[g]) /\ gor'[g].until = clock + WaitTime
               /\ WaitMaxDuration(TRUE)
      <3>1. Rate'
        BY <1>1, <2>1, <2>2, <2>3, SleepRate
      <3>2. Shape'
        BY <1>1, <2>2, <2>3, ShapeKept DEF AnyMove
      <3> QED
        BY <2>2, <3>1, <3>2 DEF IInv
    <2>4. CASE Refused(gor[g], gor'[g]) /\ WaitMaxDuration(FALSE)
      <3>1. /\ Rests(gor[g], gor'[g]) /\ ~Before(stack, gor'[g])
        BY <2>4 DEF Refused, Rests, Before
      <3>2. stack' = stack /\ \A h \in Goroutine : h # g => gor'[h] = gor[h]
        BY <2>2 DEF Alone
      <3>3. \A h \in Goroutine : Rests(gor[h], gor'[h])
        BY <3>1, <3>2 DEF Rests
      <3>4. Rate'
        BY <1>1, <2>1, <2>4, <3>1, <3>2, <3>3, RefusedRate
      <3>5. Shape'
        BY <1>1, <2>2, <2>4, ShapeKept DEF AnyMove, Move
      <3> QED
        BY <2>2, <3>4, <3>5 DEF IInv
    <2> QED
      BY <2>2, <2>3, <2>4
  <1>4. CASE Wake(g)
    <2>1. Typed' /\ Alone(g) /\ Wakes(gor[g], gor'[g])
      BY <1>1, <1>4, WakeMoves
    <2>2. Rate'
      BY <1>1, <1>4, <2>1, WakeRate
    <2>3. Shape'
      BY <1>1, <2>1, ShapeKept DEF AnyMove
    <2> QED
      BY <2>1, <2>2, <2>3 DEF IInv
  <1> QED
    BY <1>2, <1>3, <1>4

\* every way out, by return or panic,
LEMMA LeaveKeeps ==
  ASSUME IInv, NEW g \in Goroutine,
         LeavePlain(g) \/ ConsumeKeyValuePairs(g) \/ Log(g) \/ Unwind(g) \/ PanicEnds(g)
  PROVE  IInv'
  <1>1. /\ Typed /\ Uses /\ Control(stack, gor["serve"], gor["inner"], tw.err)
        /\ AtLevel(stack, gor[g])
    BY DEF IInv, Shape
  <1>2. UNCHANGED <<rate, clock>>
    BY DEF LeavePlain, ConsumeKeyValuePairs, Log, Unwind, PanicEnds
  <1>3. Typed' /\ Moves(g)
    BY <1>1, LeavePlainMoves, ConsumeKeyValuePairsMoves, LogMoves, UnwindMoves, PanicEndsMoves
  <1> QED
    BY <1>2, <1>3, MoveKeeps

\* and every handler that reads the request.
LEMMA ReadsKeeps ==
  ASSUME IInv, NEW g \in Goroutine, Reads(g)
  PROVE  IInv'
  <1>1. Typed /\ Uses /\ AtLevel(stack, gor[g])
    BY DEF IInv, Shape
  <1>2. UNCHANGED <<rate, clock>>
    BY DEF Reads, EnterDecode, EnterRegister, RegisterCreates, Others
  <1>3. Typed' /\ Moves(g)
    BY <1>1, EnterDecodeMoves, EnterRegisterMoves, RegisterCreatesMoves DEF Reads
  <1> QED
    BY <1>2, <1>3, MoveKeeps

\* A step of a goroutine keeps the invariant, TimeoutHandler's included.
LEMMA RunKeeps ==
  ASSUME IInv, NEW g \in Goroutine, Run(g)
  PROVE  IInv'
  BY WriterCallKeeps, EnterKeeps, HandlerKeeps, LeaveKeeps DEF Run

\* TimeoutHandler does not change the rate.
LEMMA TimeoutRate ==
  ASSUME IInv, EnterTimeout \/ Flush \/ PanicPassed \/ Timeout
  PROVE  IInv'
  <1>1. Typed /\ Shape /\ Rate
    BY DEF IInv
  <1>2. UNCHANGED <<rate, clock>>
    BY DEF EnterTimeout, Flush, PanicPassed, Timeout
  <1>3. "serve" \in Goroutine /\ "inner" \in Goroutine /\ \A h \in Goroutine : h \in {"serve", "inner"}
    BY DEF Goroutine
  <1>4. CASE EnterTimeout
    <2>1. /\ Typed' /\ Shape'
          /\ stack' = stack /\ gor["serve"].pc = "enter" /\ gor'["serve"].pc = "wait"
          /\ gor["inner"].pc = "off" /\ gor'["inner"].pc = "enter"
          /\ gor'["inner"].at = gor["serve"].at + 1
      BY <1>1, <1>4, EnterTimeoutKeeps
    <2>2. \A h \in Goroutine : Rests(gor[h], gor'[h])
      BY <1>3, <2>1 DEF Rests
    <2>3. gor["serve"].at \in Nat
      BY <1>1, <1>3, GorFields, StackFacts DEF Level
    <2>4. ~Before(stack, gor'["serve"]) /\ (Before(stack, gor'["inner"]) => Before(stack, gor["serve"]))
      BY <2>1, <2>3 DEF Before
    <2>5. Rate'
      BY <1>1, <1>2, <1>3, <2>1, <2>2, <2>4, RateRests
    <2> QED
      BY <2>1, <2>5 DEF IInv
  <1>5. CASE Flush \/ PanicPassed \/ Timeout
    <2>1. /\ Typed' /\ Shape' /\ stack' = stack /\ gor["serve"].pc = "wait"
          /\ gor'["serve"].pc \in {"leave", "panic"} /\ gor'["inner"] = gor["inner"]
      BY <1>1, <1>5, FlushKeeps, PanicPassedKeeps, TimeoutKeeps
    <2>2. \A h \in Goroutine : Rests(gor[h], gor'[h])
      BY <1>3, <2>1 DEF Rests
    <2>3. ~Before(stack, gor'["serve"])
      BY <2>1 DEF Before
    <2>4. (\E h \in Goroutine : Before(stack, gor'[h])) => \E h \in Goroutine : Before(stack, gor[h])
      BY <1>3, <2>1, <2>3
    <2>5. Rate'
      BY <1>1, <1>2, <2>1, <2>2, <2>4, RateRests
    <2> QED
      BY <2>1, <2>5 DEF IInv
  <1> QED
    BY <1>4, <1>5

\* Nor do the steps of others touch this request.
LEMMA RequestSame ==
  ASSUME Typed, Shape, UNCHANGED <<stack, request>>, crashed' \in BOOLEAN
  PROVE  Typed' /\ Shape'
  <1>1. UNCHANGED <<stack, gor, conn, tw, custom, metrics, pairs, logged, steps>>
    BY DEF request
  <1>2. Typed'
    BY <1>1 DEF Typed
  <1>3. Shape'
    BY <1>1 DEF Shape, Uses
  <1> QED
    BY <1>2, <1>3

\* So do the other requests, time, and a map that is used twice at once.
LEMMA OthersKeep ==
  ASSUME IInv, ConcurrentMapUse \/ OtherArrives \/ OtherWakes \/ Time \/ UNCHANGED rvars
  PROVE  IInv'
  <1>1. Typed /\ Shape /\ Rate /\ crashed \in BOOLEAN
    BY DEF IInv, Typed
  <1>2. UNCHANGED <<stack, request>> /\ crashed' \in BOOLEAN
    BY <1>1 DEF ConcurrentMapUse, OtherArrives, OtherWakes, Time, rvars, vars
  <1>3. Typed' /\ Shape'
    BY <1>1, <1>2, RequestSame
  <1>4. CASE OtherArrives \/ OtherWakes \/ Time
    BY <1>1, <1>3, <1>4, OtherArrivesRate, OtherWakesRate, TimeRate DEF IInv
  <1>5. CASE ConcurrentMapUse \/ UNCHANGED rvars
    <2>1. UNCHANGED <<rate, clock>> /\ stack' = stack /\ gor' = gor
      BY <1>2, <1>5 DEF ConcurrentMapUse, rvars, vars, request
    <2>2. \A h \in Goroutine : Rests(gor[h], gor'[h])
      BY <2>1 DEF Rests
    <2>3. Rate'
      BY <1>1, <2>1, <2>2, RateRests
    <2> QED
      BY <1>3, <2>3 DEF IInv
  <1> QED
    BY <1>4, <1>5

\* Every step keeps the invariant.
LEMMA StepKeeps ==
  ASSUME IInv, [RNext]_rvars
  PROVE  IInv'
  <1>1. "serve" \in Goroutine /\ "inner" \in Goroutine /\ Typed /\ Uses
    BY DEF Goroutine, IInv, Shape
  <1>2. CASE Serve
    <2>1. CASE Run("serve")
      BY <1>1, <2>1, RunKeeps
    <2>2. CASE EnterTimeout \/ Flush \/ PanicPassed
      BY <2>2, TimeoutRate
    <2>3. CASE ServeEnds
      <3>1. UNCHANGED <<rate, clock>>
        BY <2>3 DEF ServeEnds
      <3> QED
        BY <1>1, <2>3, <3>1, ServeEndsMoves, MoveKeeps
    <2> QED
      BY <1>2, <2>1, <2>2, <2>3 DEF Serve
  <1>3. CASE Inner
    <2>1. CASE Run("inner")
      BY <1>1, <2>1, RunKeeps
    <2>2. CASE InnerEnds
      <3>1. UNCHANGED <<rate, clock>>
        BY <2>2 DEF InnerEnds
      <3> QED
        BY <1>1, <2>2, <3>1, InnerEndsMoves, MoveKeeps
    <2> QED
      BY <1>3, <2>1, <2>2 DEF Inner
  <1>4. CASE Timeout
    BY <1>4, TimeoutRate
  <1>5. CASE ConcurrentMapUse \/ OtherArrives \/ OtherWakes \/ Time \/ UNCHANGED rvars
    BY <1>5, OthersKeep
  <1>6. CASE \E g \in Goroutine : Reads(g)
    BY <1>6, ReadsKeeps
  <1> QED
    BY <1>2, <1>3, <1>4, <1>5, <1>6 DEF RNext, Next
\* It holds when the request arrives.
LEMMA InitHolds ==
  ASSUME RInit
  PROVE  IInv
  <1> DEFINE v == gor["serve"]
             n == gor["inner"]
  <1>1. /\ stack \in Stacks /\ custom.called = FALSE
        /\ conn = NoResponse /\ tw = [resp |-> NoResponse, err |-> FALSE]
        /\ custom = [noop |-> FALSE, called |-> FALSE, simple |-> TRUE]
        /\ metrics = [Code |-> 200, headerWritten |-> FALSE, Written |-> 0]
        /\ pairs = [keys |-> {}, use |-> {}] /\ logged = <<>>
        /\ bucket = [avail |-> Capacity, tick |-> 0]
        /\ others = <<>> /\ arrived = 0 /\ admitted = 0 /\ clock = 0 /\ steps = 0 /\ crashed = FALSE
    BY DEF RInit, Init
  <1>2. Len(stack) \in Nat /\ "serve" \in Goroutine /\ "inner" \in Goroutine
        /\ \A g \in Goroutine : g = "serve" \/ g = "inner"
    BY <1>1, StackFacts DEF Goroutine
  <1>3. /\ gor \in [Goroutine -> GorOf(stack, custom.called)]
        /\ v.pc = "enter" /\ n.pc = "off" /\ v.at = 0 /\ n.at = 0
        /\ v.todo = <<>> /\ n.todo = <<>>
    <2>1. gor = [g \in Goroutine |->
                   [Idle EXCEPT !.pc = IF g = "serve" THEN "enter" ELSE "off"]]
      BY DEF RInit, Init
    <2>2. <<>> \in Seq(CallOf(stack, Who, custom.called)) /\ 0 \in Level(stack)
      BY <1>2, EmptySeq DEF Level
    <2>3. ASSUME NEW pc \in {"enter", "off"}
          PROVE  /\ [Idle EXCEPT !.pc = pc] \in GorOf(stack, custom.called)
                 /\ [Idle EXCEPT !.pc = pc].pc = pc /\ [Idle EXCEPT !.pc = pc].at = 0
                 /\ [Idle EXCEPT !.pc = pc].todo = <<>>
      BY <2>2 DEF Idle, GorOf, Pc
    <2>4. v = [Idle EXCEPT !.pc = "enter"] /\ n = [Idle EXCEPT !.pc = "off"]
      BY <1>2, <2>1
    <2>5. \A g \in Goroutine : gor[g] \in GorOf(stack, custom.called)
      BY <1>2, <2>3, <2>4
    <2> QED
      BY <2>1, <2>3, <2>4, <2>5
  <1>4. NoResponse \in Answer /\ NoResponse.src = {}
    BY DEF NoResponse, Answer, Codes
  <1>5. Typed
    <2>1. logged \in Seq(LogEntry) /\ steps \in 0..MaxSteps
      BY <1>1, EmptySeq, MiddlewareAssumption
    <2>2. metrics \in [Code : Codes, headerWritten : BOOLEAN, Written : Nat]
      BY <1>1 DEF Codes
    <2> QED
      BY <1>1, <1>3, <1>4, <2>1, <2>2 DEF Typed
  <1>6. Shape
    <2>1. Control(stack, v, n, tw.err) /\ PanicLevel(stack, v, n)
      BY <1>3 DEF Control, PanicLevel
    <2>2. Final(stack, v, conn.src, tw.err)
      BY <1>1, <1>3, <1>4 DEF Final
    <2>3. \A g \in Goroutine : AtLevel(stack, gor[g]) /\ Unrecovered(stack, gor[g])
      BY <1>2, <1>3 DEF AtLevel, Unrecovered
    <2>4. Uses
      BY <1>1 DEF Uses
    <2> QED
      BY <2>1, <2>2, <2>3, <2>4 DEF Shape
  <1>7. Rate
    <2>1. Tick(0) \in Nat
      BY TickNat
    <2>2. TypedRate
      BY <1>1, <2>1, EmptySeq, MiddlewareAssumption DEF TypedRate
    <2>3. Asleep(v) = 0 /\ Asleep(n) = 0 /\ \A t : Due(v, t) = 0 /\ Due(n, t) = 0
      BY <1>3 DEF Asleep, Due
    <2>4. Len(others) = 0
      BY <1>1
    <2>5. Promised = 0 /\ \A t : Through(t) = 0
      BY <1>1, <2>3, <2>4 DEF Promised, Through
    <2>6. Taken
      BY <1>1, <2>5, QuantumNat, MiddlewareAssumption DEF Taken
    <2>7. NoneTooMany
      <3>1. \A t \in Nat : Tokens(t) \in Nat
        BY TokensMono
      <3> QED
        BY <2>4, <2>5, <3>1 DEF NoneTooMany
    <2>8. Once
      <3>1. \A g \in Goroutine : gor[g].pc # "sleep"
        BY <1>2, <1>3
      <3> QED
        BY <1>1, <2>4, <2>5, <3>1, MiddlewareAssumption DEF Once
    <2> QED
      BY <2>2, <2>6, <2>7, <2>8 DEF Rate
  <1> QED
    BY <1>5, <1>6, <1>7 DEF IInv

\* The invariant is inductive, for any stacks of middleware and any handlers.
THEOREM Inductive == RSpec => []IInv
  <1>1. RInit => IInv
    BY InitHolds
  <1>2. IInv /\ [RNext]_rvars => IInv'
    BY StepKeeps
  <1> QED
    BY <1>1, <1>2, PTL DEF RSpec

\* Types: the calls of the middleware stay within the stack, whatever hooks
\* pass them on, and CustomErrors has handled only errors that it has called
\* errHandler for.
THEOREM TypeCorrect == RSpec => []TypeOK
  <1>1. ASSUME IInv PROVE TypeOK
    <2>1. Typed /\ Rate /\ TypedRate /\ Once
      BY <1>1 DEF IInv, Rate
    <2>2. ASSUME NEW g \in Goroutine
          PROVE  /\ gor[g].pc \in Pc /\ gor[g].at \in 0..Len(stack) /\ gor[g].until \in Nat
                 /\ \A i \in 1..Len(gor[g].todo) :
                      gor[g].todo[i].at \in 0..Len(stack) /\ gor[g].todo[i].arg \in Nat
      <3>1. /\ gor[g].pc \in Pc /\ gor[g].at \in 0..Len(stack) /\ gor[g].until \in Nat
            /\ gor[g].todo \in Seq(CallOf(stack, Who, custom.called))
        BY <2>1, GorFields DEF Level
      <3>2. ASSUME NEW i \in 1..Len(gor[g].todo)
            PROVE  gor[g].todo[i].at \in 0..Len(stack) /\ gor[g].todo[i].arg \in Nat
        <4>1. gor[g].todo[i] \in CallOf(stack, Who, custom.called)
          BY <3>1, ElementOfSeq
        <4> QED
          BY <4>1, CallFields DEF Level
      <3> QED
        BY <3>1, <3>2
    <2>3. Answer = Response
      <3> DEFINE C == {0, 200, 400, 404, 406, 409, 415, 500, 503}
      <3>1. Codes \cup {0} = C
        BY DEF Codes
      <3>2. Response = [status : C, bytes : Nat, src : SUBSET Who]
        BY Zenon DEF Response, Who
      <3> HIDE DEF C
      <3> QED
        BY <3>1, <3>2, Zenon DEF Answer
    <2>4. /\ stack \in Stacks /\ conn \in Response /\ tw.resp \in Response /\ tw.err \in BOOLEAN
          /\ custom.noop => custom.called
          /\ metrics.Code \in Codes /\ metrics.Written \in Nat
          /\ pairs.keys \subseteq Key /\ pairs.use \subseteq Goroutine
          /\ steps \in 0..MaxSteps /\ crashed \in BOOLEAN
      BY <2>1, <2>3 DEF Typed
    <2>5. ASSUME NEW i \in 1..Len(logged)
          PROVE  DOMAIN Predefined \subseteq DOMAIN logged[i]
      <3>1. logged[i] \in LogEntry
        BY <2>1, ElementOfSeq DEF Typed
      <3>2. {"status", "body_bytes_sent"} \subseteq DOMAIN logged[i]
        BY <3>1 DEF LogEntry
      <3>3. DOMAIN Predefined = {"status", "body_bytes_sent"}
        BY DEF Predefined
      <3> QED
        BY <3>2, <3>3
    <2>6. /\ bucket.avail <= Capacity /\ bucket.tick \in 0..Tick(clock)
          /\ arrived \in 0..MaxOthers
      <3>1. Tick(clock) \in Nat
        BY <2>1, TickNat DEF TypedRate
      <3> QED
        BY <2>1, <3>1 DEF TypedRate
    <2>7. admitted \in 0..(MaxOthers + 1)
      <3>1. admitted <= Promised
        <4> DEFINE a == Asleep(gor["serve"])
                   b == Asleep(gor["inner"])
        <4>1. a \in Nat /\ b \in Nat
          BY DueNat
        <4>2. Promised = admitted + Len(others) + a + b
          BY DEF Promised
        <4> HIDE DEF a, b
        <4> QED
          BY <2>1, <4>1, <4>2, OthersFacts
      <3>2. Promised <= arrived + 1
        BY <2>1 DEF Once
      <3> QED
        BY <2>1, <2>6, <3>1, <3>2, OthersFacts, PromisedNat, MiddlewareAssumption
    <2>8. clock \in 0..(MaxClock + 2 * MaxWait)
      BY <2>1, OthersFacts DEF Once
    <2> QED
      BY <2>2, <2>4, <2>5, <2>6, <2>7, <2>8 DEF TypeOK, Pc, Codes
  <1> QED
    BY <1>1, Inductive, PTL

\* RequestLimit: also for those that were promised a token to come, whatever the
\* capacity, the rate and the order in which they arrive and wake.
THEOREM RateIsKept == RSpec => []RateBound
  <1>1. ASSUME IInv PROVE RateBound
    <2>1. clock \in Nat /\ admitted \in Nat
      BY <1>1, OthersFacts DEF IInv, Rate
    <2>2. Through(clock) <= Tokens(clock)
      BY <1>1, <2>1 DEF IInv, Rate, NoneTooMany
    <2>3. admitted <= Through(clock) /\ Through(clock) \in Nat
      <3> DEFINE c == Due(gor["serve"], clock)
                 d == Due(gor["inner"], clock)
      <3>1. c \in Nat /\ d \in Nat
        BY DueIs
      <3>2. Through(clock) = admitted + c + d
        BY DEF Through
      <3> HIDE DEF c, d
      <3> QED
        BY <2>1, <3>1, <3>2
    <2>4. Tokens(clock) \in Nat
      BY <2>1, TokensMono
    <2> QED
      BY <2>1, <2>2, <2>3, <2>4 DEF RateBound, Tokens
  <1> QED
    BY <1>1, Inductive, PTL

\* TimeoutHandler: in every stack, nothing of the handler's is in the answer once
\* it gave up.
THEOREM TimeoutIsFinal == RSpec => []TimedOutIsFinal
  <1>1. IInv => TimedOutIsFinal
    BY DEF IInv, Shape, Final, TimedOutIsFinal
  <1> QED
    BY <1>1, Inductive, PTL

\* PanicRecovery: a panic in any goroutine meets it, wherever it is in the stack.
THEOREM PanicsAreAnswered == RSpec => []PanicAnswered
  <1>1. ASSUME IInv, gor["serve"].pc = "aborted", NEW i \in 1..Len(stack)
        PROVE  stack[i] # "PanicRecovery"
    <2>1. gor["serve"].at = 0 /\ "serve" \in Goroutine
      BY <1>1 DEF IInv, Shape, PanicLevel, Goroutine
    <2>2. \A j \in (0 + 1)..Len(stack) : stack[j] # "PanicRecovery"
      BY <1>1, <2>1 DEF IInv, Shape, Unrecovered
    <2> QED
      BY <2>2
  <1>2. IInv => PanicAnswered
    BY <1>1 DEF PanicAnswered, Has
  <1> QED
    BY <1>2, Inductive, PTL

\* ctxvals: the map of the pairs is shared only by a goroutine that TimeoutHandler
\* gave up on and the one that logs.
THEOREM RacesNeedATimeout == RSpec => []RaceOnlyAfterTimeout
  <1>1. ASSUME IInv, Cardinality(pairs.use) > 1
        PROVE  tw.err /\ At("Logging") < At("TimeoutHandler")
    <2>1. "serve" \in pairs.use /\ "inner" \in pairs.use
      <3>0. pairs.use \subseteq {"serve", "inner"}
        BY <1>1 DEF IInv, Typed, Goroutine
      <3>1. ASSUME NEW x, pairs.use \subseteq {x}
            PROVE  FALSE
        <4>1. pairs.use = {} \/ pairs.use = {x}
          BY <3>1
        <4>2. Cardinality({}) = 0 /\ Cardinality({x}) = 1
          BY FS_EmptySet, FS_Singleton
        <4> QED
          BY <1>1, <4>1, <4>2
      <3> QED
        BY <3>0, <3>1
    <2>2. /\ gor["serve"].pc \in {"setting", "consuming"}
          /\ gor["inner"].pc \in {"setting", "consuming"}
      BY <1>1, <2>1 DEF IInv, Shape, Uses
    <2>3. gor["serve"].pc = "consuming" /\ tw.err
      BY <1>1, <2>2 DEF IInv, Shape, Control
    <2>4. PICK i \in 1..Len(stack) : stack[i] = "TimeoutHandler" /\ gor["serve"].at < i
      BY <1>1, <2>2, <2>3 DEF IInv, Shape, Control
    <2>5. gor["serve"].at \in 1..Len(stack) /\ stack[gor["serve"].at] = "Logging"
      <3>1. "serve" \in Goroutine
        BY DEF Goroutine
      <3> QED
        BY <1>1, <2>3, <3>1 DEF IInv, Shape, AtLevel
    <2>6. At("TimeoutHandler") = i /\ At("Logging") = gor["serve"].at
      BY <1>1, <2>4, <2>5, AtIs DEF IInv, Typed
    <2> QED
      BY <2>3, <2>4, <2>6
  <1>2. IInv => RaceOnlyAfterTimeout
    BY <1>1 DEF RaceOnlyAfterTimeout
  <1> QED
    BY <1>2, Inductive, PTL

-----------------------------------------------------------------------------
(* The ways of goroutines and of their calls, for the invariants of Logging, *)
(* CustomErrors and of the handlers that read the request.                   *)

\* Where a goroutine is on its way to the handler.
Inbound == {"enter", "sleep", "creating"}

\* Calls of writers from level lo to level hi.
Between(s, lo, hi) == { c \in CallOf(s, Who, TRUE) : lo <= c.at /\ c.at <= hi }

\* A goroutine makes its calls before it leaves their level, and while the handler
\* works it is at the innermost level.
Placed(s, r) ==
  /\ r.todo # <<>> => r.pc \in {"handler", "leave"}
  /\ r.pc \in {"handler", "setting"} => r.at = Len(s)
  /\ r.todo \in Seq(Between(s, 0, r.at))

\* serve comes to TimeoutHandler and no further in, inner and its calls no further out.
InTime(s, v, n) ==
  /\ n.pc = "off" => n.at = 0
  /\ \A t \in 1..Len(s) : s[t] = "TimeoutHandler" =>
       /\ v.at <= t /\ (v.at = t => v.pc = "wait")
       /\ n.todo \in Seq(Between(s, t, Len(s)))

Places ==
  /\ \A g \in Goroutine : Placed(stack, gor[g])
  /\ InTime(stack, gor["serve"], gor["inner"])

-----------------------------------------------------------------------------
(* Logging. *)

\* Logging is at level l, and only middleware that answers instead is further out.
LogsAll(s, l) ==
  /\ l \in 1..Len(s) /\ s[l] = "Logging"
  /\ \A i \in 1..l : s[i] \notin {"TimeoutHandler", "CustomErrors", "LimitResponseBodyBytes"}

\* Calls that are still to come to level l.
Above(s, l) == { c \in CallOf(s, Who, TRUE) : c.at >= l /\ ~c.metered }

\* serve will come to Logging, or is inside of it.
InTouch(l, v) == v.pc \in Inbound \/ v.at >= l

Status(a) == IF a.status = 0 THEN 200 ELSE a.status

\* The status that httpsnoop has is that of the answer a.
Counts(a) == metrics.Code = Status(a) /\ metrics.headerWritten = (a.status # 0)

\* httpsnoop has measured the answer, also when a call is still on its way from
\* Logging to the connection.
Metered(l, todo) ==
  \/ todo \in Seq(Above(stack, l)) /\ Counts(conn)
  \/ /\ todo # <<>> /\ Head(todo).at = 0 /\ Head(todo).metered
     /\ Tail(todo) \in Seq(Above(stack, l)) /\ Counts(Sent(conn, Head(todo)))

\* What was logged is what was sent, and nothing more is.
LogTrue(l, v) ==
  /\ v.pc \in {"leave", "ended"} /\ v.at < l /\ v.todo = <<>> /\ Len(logged) = 1
  /\ logged[1].status = Status(conn) /\ logged[1].body_bytes_sent = conn.bytes

\* With Logging at level l, it logs once, when serve leaves, what was sent.
LogAt(l) ==
  /\ gor["inner"].todo \in Seq(Above(stack, l))
  /\ InTouch(l, gor["serve"]) =>
       logged = <<>> /\ metrics.Written = conn.bytes /\ Metered(l, gor["serve"].todo)
  /\ logged # <<>> => LogTrue(l, gor["serve"])

LogInv ==
  /\ gor["serve"].pc = "ended" => conn.status # 0
  /\ \A l \in 1..Len(stack) : LogsAll(stack, l) => LogAt(l)

-----------------------------------------------------------------------------
(* CustomErrors. *)

Foreign == {"handler", "refusal"}

Own == {"error", "recover"}

\* The goroutine that comes to level c.
Comer(s, c) == IF \E t \in 1..c : s[t] = "TimeoutHandler" THEN "inner" ELSE "serve"

Handling(todo) == \E k \in 1..Len(todo) : todo[k].op = "handled"

\* Calls that have nothing foreign when they have passed level c.
Pure(s, c) ==
  { x \in CallOf(s, Who, TRUE) : x.at < c /\ x.op # "header" => x.src \cap Foreign = {} }

\* A handled error is at level c, once, after what errHandler wrote.
Ordered(c, todo) ==
  \A k \in 1..Len(todo) : todo[k].op = "handled" =>
    /\ todo[k].at = c
    /\ \A j \in 1..k : todo[j].src \cap Foreign = {}
    /\ \A j \in 1..Len(todo) : todo[j].op = "handled" => j = k

\* An error is being handled.
Handled == \E g \in Goroutine : Handling(gor[g].todo)

\* A goroutine may still come to level c.
Coming(c) ==
  (\E g \in Goroutine : gor[g].pc \in Inbound) \/ gor[Comer(stack, c)].at >= c

\* The handler's first call is, or may be, an error that errHandler handles.
Simple(c) ==
  /\ custom.simple
  /\ \/ custom.noop
     \/ Handled
     \/ ~custom.called /\ Coming(c)

Clean(c) ==
  /\ conn.src \cap Foreign = {}
  /\ Comer(stack, c) = "inner" => tw.resp.src \cap Foreign = {}
  /\ \A g \in Goroutine : gor[g].todo \in Seq(Pure(stack, c))

\* Call j of todo writes what errHandler or recoverFn answers.
InFlight(c, todo, j) ==
  /\ todo[j].op \in {"write", "copy"} /\ todo[j].arg > 0 /\ todo[j].src \cap Own # {}
  /\ todo[j].at < c \/ \E k \in (j + 1)..Len(todo) : todo[k].op = "handled"

Flies(c, todo) == \E j \in 1..Len(todo) : InFlight(c, todo, j)

Landed(c) ==
  \/ conn.src \cap Own # {} \/ tw.err
  \/ /\ Comer(stack, c) = "inner"
     /\ \/ gor["serve"].pc \in {"panic", "aborted"}
        \/ gor["serve"].pc = "wait" /\ tw.resp.src \cap Own # {}
  \/ \E g \in Goroutine : Flies(c, gor[g].todo)

\* CustomErrors at level c: who was handled wrote, and then nothing foreign passes.
CustomAt(c) ==
  /\ \A g \in Goroutine : Ordered(c, gor[g].todo)
  /\ \A g \in Goroutine : custom.called /\ gor[g].pc \in Inbound => gor[g].at >= c
  /\ Handled => ~custom.noop
  /\ Simple(c) => Clean(c)
  /\ custom.noop \/ Handled => Landed(c)

CustomInv ==
  /\ custom.called => Has("CustomErrors")
  /\ tw.resp.src # {} => tw.resp.bytes > 0
  /\ \A c \in 1..Len(stack) : stack[c] = "CustomErrors" => CustomAt(c)

-----------------------------------------------------------------------------
(* Handlers that read the request. *)

Mistake == {400, 409}

\* Calls that tell the client of no mistake.
Mild(s) == { c \in CallOf(s, Who, TRUE) : c.op = "header" => c.arg \notin Mistake }

Untold ==
  /\ conn.status \notin Mistake /\ tw.resp.status \notin Mistake
  /\ \A g \in Goroutine : gor[g].todo \in Seq(Mild(stack))

\* Who is on the way in has passed the handler that reads.
Past(s, r) == r.pc \in Inbound => \E i \in 1..r.at : s[i] \in {"Decode", "Register"}

\* What ErrorHandler of Register gets.
Tagged(e) ==
  e # Nil =>
    IF IsTag(e, AccountsTag)
      THEN Code(e) # 0 /\ KeyValue(e, "action") = "register"
      ELSE e.tags = <<>>

ReadInv ==
  /\ DOMAIN reg = {"input", "dst", "err", "stored", "passed"} /\ reg.input \in Requests
  /\ reg.passed =>
       /\ FromLast(IF Has("Register") THEN registerInput ELSE AppStruct, reg.input, reg.dst)
       /\ Has("Register") => reg.stored
  /\ (\E g \in Goroutine : gor[g].pc = "creating") => FromLast(registerInput, reg.input, reg.dst)
  /\ reg.passed \/ reg.stored => \A g \in Goroutine : Past(stack, gor[g])
  /\ reg.stored \/ (\E g \in Goroutine : gor[g].pc \in Inbound) => Untold
  /\ Has("Register") => Tagged(reg.err)

-----------------------------------------------------------------------------
(* The writer that a call meets. *)

\* A call goes no further than a writer with hooks, the buffer or the connection.
LEMMA WriterAbove ==
  ASSUME NEW i \in Nat, NEW k \in 0..i, Wrapped(k)
  PROVE  Writer(i) >= k /\ Writer(i) \in 0..i /\ (k = i => Writer(i) = i)
  <1> DEFINE w == Writer(i)
  <1>1. w \in 0..i /\ \A m \in (w + 1)..i : ~Wrapped(m)
    BY WriterIs
  <1> HIDE DEF w
  <1>2. ~(k \in (w + 1)..i)
    BY <1>1
  <1> QED
    BY <1>1, <1>2 DEF w

\* Without any of these it goes to the connection.
LEMMA WriterZero ==
  ASSUME NEW i \in Nat, \A k \in 1..i : ~Wrapped(k)
  PROVE  Writer(i) = 0
  <1>1. Writer(i) \in 0..i /\ Wrapped(Writer(i))
    BY WriterIs
  <1> QED
    BY <1>1

-----------------------------------------------------------------------------
(* What a goroutine has to say after a step of its own, r before and q after, *)
(* with the codes C of the middleware that refuses.                           *)

Says(r, q, C) ==
  \/ q.todo = <<>> /\ ~(r.pc = "panic" /\ q.pc = "leave")
  \/ /\ r.pc \in {"enter", "creating"} /\ q.pc = "leave" /\ q.at = r.at
     /\ \E code \in C : q.todo = Error(code, "refusal", q.at)
  \/ /\ r.pc = "handler" /\ q.pc = "handler"
     /\ \E op \in {"header", "write", "copy"}, arg \in Nat :
          /\ op = "header" => arg \in {200, 404}
          /\ q.todo = <<Call(op, arg, "handler", q.at)>>
  \/ r.pc = "panic" /\ q.pc = "leave" /\ q.todo = Error(500, "recover", q.at)

\* The codes of the middleware of the package.
Refusals == {406, 415, 503}

\* g does a step other than a call of a writer.
Turn(g, C) ==
  /\ Alone(g) /\ AnyMove(stack, Base(g), g, gor[g], gor'[g])
  /\ gor[g].todo = <<>> /\ Says(gor[g], gor'[g], C)
  /\ UNCHANGED <<stack, tw, custom, metrics>>
  /\ conn' = conn \/ (g = "serve" /\ ServeEnds)
  /\ logged' = logged \/ Log(g)
  /\ g = "serve" /\ gor'[g].pc = "ended" => ServeEnds
  /\ gor'[g].pc = "creating" => Reads(g)

\* The goroutine after GoesOn.
LEMMA GoneOn ==
  ASSUME Typed, NEW g \in Goroutine, NEW pc, NEW at, NEW calls, GoesOn(g, pc, at, calls)
  PROVE  gor'[g].pc = pc /\ gor'[g].at = at /\ gor'[g].todo = calls
  BY DEF Typed, GoesOn

\* On the way in, a refusal has the writer of the level above.
LEMMA EnterSays ==
  ASSUME Typed, NEW g \in Goroutine,
         EnterPlain(g) \/ EnterContentType(g) \/ EnterRequestLimit(g) \/ Wake(g)
  PROVE  /\ gor[g].todo = <<>> /\ Says(gor[g], gor'[g], Refusals)
         /\ UNCHANGED <<stack, conn, tw, custom, metrics, logged>>
         /\ gor'[g].pc # "creating"
  <1>1. UNCHANGED <<stack, conn, tw, custom, metrics, logged>>
    BY DEF EnterPlain, EnterContentType, EnterRequestLimit, Wake
  <1>2. gor[g].todo = <<>>
    BY DEF EnterPlain, EnterContentType, EnterRequestLimit, Wake, Enters, Ready, Pending
  <1>3. ASSUME gor' = [gor EXCEPT ![g].at = @ + 1]
               \/ gor' = [gor EXCEPT ![g].pc = "sleep", ![g].at = @ + 1,
                                     ![g].until = clock + WaitTime],
               gor[g].pc = "enter"
        PROVE  gor'[g].todo = <<>> /\ gor'[g].pc # "creating"
    <2>1. gor'[g].todo = <<>>
      BY <1>2, <1>3 DEF Typed, GorOf
    <2>2. CASE gor' = [gor EXCEPT ![g].at = @ + 1]
      <3>1. gor'[g].pc = gor[g].pc
        BY <2>2 DEF Typed, GorOf
      <3> QED
        BY <1>3, <2>1, <3>1
    <2>3. CASE gor' = [gor EXCEPT ![g].pc = "sleep", ![g].at = @ + 1, ![g].until = clock + WaitTime]
      <3>1. gor'[g].pc = "sleep"
        BY <2>3 DEF Typed, GorOf
      <3> QED
        BY <2>1, <3>1
    <2> QED
      BY <1>3, <2>2, <2>3
  <1>4. CASE EnterPlain(g)
    <2>1. gor[g].pc = "enter" /\ gor' = [gor EXCEPT ![g].at = @ + 1]
      BY <1>4 DEF EnterPlain, Enters, Ready, Inside
    <2> QED
      BY <1>1, <1>2, <1>3, <2>1 DEF Says
  <1>5. CASE EnterContentType(g)
    <2>1. PICK m \in {"RequestContentType", "ResponseContentType"} :
            /\ Enters(g, m)
            /\ \/ Inside(g)
               \/ GoesOn(g, "leave", gor[g].at, Error(RefusalCode[m], "refusal", gor[g].at))
      BY <1>5 DEF EnterContentType, RefusalCode
    <2>2. gor[g].pc = "enter" /\ RefusalCode[m] \in Refusals
      BY <2>1 DEF Enters, Ready, RefusalCode, Refusals
    <2>3. CASE Inside(g)
      BY <1>1, <1>2, <1>3, <2>2, <2>3 DEF Says, Inside
    <2>4. CASE GoesOn(g, "leave", gor[g].at, Error(RefusalCode[m], "refusal", gor[g].at))
      <3>1. /\ gor'[g].pc = "leave" /\ gor'[g].at = gor[g].at
            /\ gor'[g].todo = Error(RefusalCode[m], "refusal", gor[g].at)
        BY <2>4, GoneOn
      <3> QED
        BY <1>1, <1>2, <2>2, <3>1 DEF Says
    <2> QED
      BY <2>1, <2>3, <2>4
  <1>6. CASE EnterRequestLimit(g)
    <2>1. /\ gor[g].pc = "enter"
          /\ \/ gor' = [gor EXCEPT ![g].pc = "sleep", ![g].at = @ + 1,
                                   ![g].until = clock + WaitTime]
             \/ GoesOn(g, "leave", gor[g].at, Error(503, "refusal", gor[g].at))
      BY <1>6 DEF EnterRequestLimit, Enters, Ready
    <2>2. CASE GoesOn(g, "leave", gor[g].at, Error(503, "refusal", gor[g].at))
      <3>1. /\ gor'[g].pc = "leave" /\ gor'[g].at = gor[g].at
            /\ gor'[g].todo = Error(503, "refusal", gor[g].at)
        BY <2>2, GoneOn
      <3>2. 503 \in Refusals
        BY DEF Refusals
      <3> QED
        BY <1>1, <1>2, <2>1, <3>1, <3>2 DEF Says
    <2> QED
      BY <1>1, <1>2, <1>3, <2>1, <2>2 DEF Says
  <1>7. CASE Wake(g)
    <2>1. gor[g].pc = "sleep" /\ GoesOn(g, "enter", gor[g].at, <<>>)
      BY <1>7 DEF Wake, Ready
    <2> QED
      BY <1>1, <1>2, <2>1, GoneOn DEF Says
  <1> QED
    BY <1>4, <1>5, <1>6, <1>7

\* The handler calls its own writer.
LEMMA HandlerSays ==
  ASSUME Typed, NEW g \in Goroutine, Handler(g)
  PROVE  /\ gor[g].todo = <<>> /\ Says(gor[g], gor'[g], Refusals)
         /\ UNCHANGED <<stack, conn, tw, custom, metrics, logged>>
         /\ gor'[g].pc # "creating"
  <1>1. UNCHANGED <<stack, conn, tw, custom, metrics, logged>>
    BY DEF Handler, StartHandler, HandlerWrites, HandlerReturns, HandlerFails, SetKeyValue,
           KeyValueSet
  <1>2. gor[g].todo = <<>> /\ gor[g].pc # "panic"
    BY DEF Handler, StartHandler, HandlerWrites, HandlerReturns, HandlerFails, SetKeyValue,
           KeyValueSet, Working, Ready, Pending
  <1>3. CASE HandlerWrites(g)
    <2>1. PICK c \in {<<"header", 200>>, <<"header", 404>>, <<"write", 1>>,
                      <<"write", Limit + 1>>, <<Copy, 1>>} :
            GoesOn(g, "handler", Len(stack), <<Call(c[1], c[2], "handler", Len(stack))>>)
      BY <1>3 DEF HandlerWrites
    <2>2. /\ c[1] \in {"header", "write", "copy"} /\ c[2] \in Nat
          /\ c[1] = "header" => c[2] \in {200, 404}
      BY MiddlewareAssumption DEF Copy
    <2>3. gor[g].pc = "handler"
      BY <1>3 DEF HandlerWrites, Working, Ready
    <2>4. /\ gor'[g].pc = "handler" /\ gor'[g].at = Len(stack)
          /\ gor'[g].todo = <<Call(c[1], c[2], "handler", Len(stack))>>
      BY <2>1, GoneOn
    <2> QED
      BY <1>1, <1>2, <2>2, <2>3, <2>4 DEF Says
  <1>4. CASE ~HandlerWrites(g)
    <2>1. \E pc \in {"handler", "leave", "hung", "panic", "setting"} :
            GoesOn(g, pc, Len(stack), <<>>)
      BY <1>4 DEF Handler, StartHandler, HandlerReturns, HandlerFails, SetKeyValue, KeyValueSet
    <2> QED
      BY <1>1, <1>2, <2>1, GoneOn DEF Says
  <1> QED
    BY <1>3, <1>4

\* On the way out only recoverFn writes.
LEMMA LeaveSays ==
  ASSUME Typed, NEW g \in Goroutine,
         LeavePlain(g) \/ ConsumeKeyValuePairs(g) \/ Log(g) \/ Unwind(g) \/ PanicEnds(g)
  PROVE  /\ gor[g].todo = <<>> /\ Says(gor[g], gor'[g], Refusals)
         /\ UNCHANGED <<stack, conn, tw, custom, metrics>> /\ (logged' = logged \/ Log(g))
         /\ gor'[g].pc \notin {"ended", "creating"}
  <1>1. UNCHANGED <<stack, conn, tw, custom, metrics>> /\ (logged' = logged \/ Log(g))
    BY DEF LeavePlain, ConsumeKeyValuePairs, Log, Unwind, PanicEnds
  <1>2. gor[g].todo = <<>>
    BY DEF LeavePlain, ConsumeKeyValuePairs, Log, Unwind, PanicEnds, Leaves, Ready, Pending
  <1>3. CASE LeavePlain(g) \/ ConsumeKeyValuePairs(g) \/ Log(g)
    <2>1. gor[g].pc # "panic" /\ \E pc \in {"leave", "consuming"} : \E at : GoesOn(g, pc, at, <<>>)
      BY <1>3 DEF LeavePlain, ConsumeKeyValuePairs, Log, Leaves, Ready
    <2> QED
      BY <1>1, <1>2, <2>1, GoneOn DEF Says
  <1>4. CASE Unwind(g)
    <2>1. /\ gor[g].pc = "panic"
          /\ \/ GoesOn(g, "leave", gor[g].at - 1, Error(500, "recover", gor[g].at - 1))
             \/ GoesOn(g, "panic", gor[g].at - 1, <<>>)
      BY <1>4 DEF Unwind, Ready
    <2> QED
      BY <1>1, <1>2, <2>1, GoneOn DEF Says
  <1>5. CASE PanicEnds(g)
    <2>1. \E pc \in {"panicked", "aborted"} : GoesOn(g, pc, gor[g].at, <<>>)
      BY <1>5 DEF PanicEnds
    <2> QED
      BY <1>1, <1>2, <2>1, GoneOn DEF Says
  <1> QED
    BY <1>3, <1>4, <1>5

\* A handler that reads answers with the code of the error.
LEMMA ReadsSays ==
  ASSUME Typed, NEW g \in Goroutine, Reads(g)
  PROVE  /\ gor[g].todo = <<>> /\ Says(gor[g], gor'[g], Codes)
         /\ UNCHANGED <<stack, conn, tw, custom, metrics, logged>>
  <1>1. UNCHANGED <<stack, conn, tw, custom, metrics, logged>>
    BY DEF Reads, EnterDecode, EnterRegister, RegisterCreates, Others
  <1>2. gor[g].todo = <<>> /\ gor[g].pc \in {"enter", "creating"}
    BY DEF Reads, EnterDecode, EnterRegister, RegisterCreates, Enters, Ready, Pending
  <1>3. \/ Inside(g) \/ gor' = [gor EXCEPT ![g].pc = "creating"]
        \/ GoesOn(g, "enter", gor[g].at + 1, <<>>)
        \/ \E e : Refuse(g, e)
    BY DEF Reads, EnterDecode, EnterRegister, RegisterCreates
  <1>4. CASE Inside(g) \/ gor' = [gor EXCEPT ![g].pc = "creating"]
    <2>1. gor'[g].todo = <<>>
      BY <1>2, <1>4 DEF Typed, GorOf, Inside
    <2> QED
      BY <1>1, <1>2, <2>1 DEF Says
  <1>5. CASE GoesOn(g, "enter", gor[g].at + 1, <<>>)
    BY <1>1, <1>2, <1>5, GoneOn DEF Says
  <1>6. CASE \E e : Refuse(g, e)
    <2>1. PICK code \in Codes : GoesOn(g, "leave", gor[g].at, Error(code, "refusal", gor[g].at))
      BY <1>6, CodeIs DEF Refuse
    <2>2. /\ gor'[g].pc = "leave" /\ gor'[g].at = gor[g].at
          /\ gor'[g].todo = Error(code, "refusal", gor[g].at)
      BY <2>1, GoneOn
    <2> QED
      BY <1>1, <1>2, <2>2 DEF Says
  <1> QED
    BY <1>3, <1>4, <1>5, <1>6

\* Goroutines end on the way out.
LEMMA Ending ==
  ASSUME NEW s, NEW b, NEW g, NEW r, NEW q, AnyMove(s, b, g, r, q), r.todo = <<>>,
         r.pc \in {"enter", "sleep", "handler", "setting", "creating"}
  PROVE  q.pc # "ended"
  BY DEF AnyMove, Move, Writes, GoesIn, Refused, Sleeps, Wakes, Handles, GoesOut, Panics

\* What the middleware and the handler do is a turn of their goroutine.
LEMMA TurnIs ==
  ASSUME IInv, NEW g \in Goroutine,
         \/ EnterPlain(g) \/ EnterContentType(g) \/ EnterRequestLimit(g) \/ Wake(g)
         \/ Handler(g)
         \/ LeavePlain(g) \/ ConsumeKeyValuePairs(g) \/ Log(g) \/ Unwind(g) \/ PanicEnds(g)
         \/ g = "serve" /\ ServeEnds
         \/ g = "inner" /\ InnerEnds
  PROVE  Turn(g, Refusals)
  <1>1. /\ Typed /\ Uses /\ TypedRate /\ Control(stack, gor["serve"], gor["inner"], tw.err)
        /\ AtLevel(stack, gor[g])
    BY DEF IInv, Shape, Rate
  <1>2. CASE EnterPlain(g) \/ EnterContentType(g) \/ EnterRequestLimit(g) \/ Wake(g)
    <2>1. Alone(g) /\ AnyMove(stack, Base(g), g, gor[g], gor'[g])
      BY <1>1, <1>2, EnterPlainMoves, EnterContentTypeMoves, EnterRequestLimitMoves, WakeMoves
         DEF Moves, AnyMove, Move
    <2>2. /\ gor[g].todo = <<>> /\ Says(gor[g], gor'[g], Refusals)
          /\ UNCHANGED <<stack, conn, tw, custom, metrics, logged>>
          /\ gor'[g].pc # "creating"
      BY <1>1, <1>2, EnterSays
    <2>3. gor'[g].pc # "ended"
      <3>1. gor[g].pc \in {"enter", "sleep"}
        BY <1>2 DEF EnterPlain, EnterContentType, EnterRequestLimit, Wake, Enters, Ready
      <3> QED
        BY <2>1, <2>2, <3>1, Ending
    <2> QED
      BY <2>1, <2>2, <2>3 DEF Turn
  <1>3. CASE Handler(g)
    <2>1. Moves(g)
      BY <1>1, <1>3, StartHandlerMoves, HandlerWritesMoves, HandlerReturnsMoves, HandlerFailsMoves,
         SetKeyValueMoves, KeyValueSetMoves DEF Handler
    <2>2. /\ gor[g].todo = <<>> /\ Says(gor[g], gor'[g], Refusals)
          /\ UNCHANGED <<stack, conn, tw, custom, metrics, logged>>
          /\ gor'[g].pc # "creating"
      BY <1>1, <1>3, HandlerSays
    <2>3. gor'[g].pc # "ended"
      <3>1. gor[g].pc \in {"enter", "handler", "setting"}
        BY <1>3 DEF Handler, StartHandler, HandlerWrites, HandlerReturns, HandlerFails, SetKeyValue,
                    KeyValueSet, Working, Ready
      <3>2. AnyMove(stack, Base(g), g, gor[g], gor'[g])
        BY <2>1 DEF Moves, AnyMove
      <3> QED
        BY <2>2, <3>1, <3>2, Ending
    <2> QED
      BY <2>1, <2>2, <2>3 DEF Turn, Moves, AnyMove
  <1>4. CASE LeavePlain(g) \/ ConsumeKeyValuePairs(g) \/ Log(g) \/ Unwind(g) \/ PanicEnds(g)
    <2>1. Moves(g)
      BY <1>1, <1>4, LeavePlainMoves, ConsumeKeyValuePairsMoves, LogMoves, UnwindMoves,
         PanicEndsMoves
    <2>2. /\ gor[g].todo = <<>> /\ Says(gor[g], gor'[g], Refusals)
          /\ UNCHANGED <<stack, conn, tw, custom, metrics>> /\ (logged' = logged \/ Log(g))
          /\ gor'[g].pc \notin {"ended", "creating"}
      BY <1>1, <1>4, LeaveSays
    <2> QED
      BY <2>1, <2>2 DEF Turn, Moves, AnyMove
  <1>5. CASE g = "serve" /\ ServeEnds
    <2>1. Moves(g)
      BY <1>1, <1>5, ServeEndsMoves
    <2>2. /\ gor[g].todo = <<>> /\ gor[g].pc = "leave" /\ GoesOn(g, "ended", 0, <<>>)
          /\ UNCHANGED <<stack, tw, custom, metrics, logged>>
      BY <1>5 DEF ServeEnds, Ready, Pending
    <2>3. Says(gor[g], gor'[g], Refusals) /\ gor'[g].pc = "ended"
      BY <1>1, <2>2, GoneOn DEF Says
    <2> QED
      BY <1>5, <2>1, <2>2, <2>3 DEF Turn, Moves, AnyMove
  <1>6. CASE g = "inner" /\ InnerEnds
    <2>1. Moves(g)
      BY <1>1, <1>6, InnerEndsMoves
    <2>2. /\ gor[g].todo = <<>> /\ gor[g].pc = "leave" /\ GoesOn(g, "ended", gor[g].at, <<>>)
          /\ UNCHANGED <<stack, conn, tw, custom, metrics, logged>>
      BY <1>6 DEF InnerEnds, Ready, Pending
    <2>3. Says(gor[g], gor'[g], Refusals) /\ gor'[g].pc = "ended"
      BY <1>1, <2>2, GoneOn DEF Says
    <2> QED
      BY <1>6, <2>1, <2>2, <2>3 DEF Turn, Moves, AnyMove
  <1> QED
    BY <1>2, <1>3, <1>4, <1>5, <1>6

\* So is what a handler that reads does.
LEMMA ReadsTurn ==
  ASSUME IInv, NEW g \in Goroutine, Reads(g)
  PROVE  Turn(g, Codes)
  <1>1. Typed /\ Uses /\ AtLevel(stack, gor[g])
    BY DEF IInv, Shape
  <1>2. Moves(g)
    BY <1>1, EnterDecodeMoves, EnterRegisterMoves, RegisterCreatesMoves DEF Reads
  <1>3. /\ gor[g].todo = <<>> /\ Says(gor[g], gor'[g], Codes)
        /\ UNCHANGED <<stack, conn, tw, custom, metrics, logged>>
    BY <1>1, ReadsSays
  <1>4. gor'[g].pc # "ended"
    <2>1. gor[g].pc \in {"enter", "creating"}
      BY DEF Reads, EnterDecode, EnterRegister, RegisterCreates, Enters, Ready
    <2>2. AnyMove(stack, Base(g), g, gor[g], gor'[g])
      BY <1>2 DEF Moves, AnyMove
    <2> QED
      BY <1>3, <2>1, <2>2, Ending
  <1> QED
    BY <1>2, <1>3, <1>4 DEF Turn, Moves, AnyMove

\* The steps, seen from one request.
LEMMA StepIs ==
  ASSUME IInv, [RNext]_rvars
  PROVE  \/ \E g \in Goroutine : WriterCall(g) /\ reg' = reg
         \/ \E g \in Goroutine : Turn(g, Refusals) /\ reg' = reg
         \/ \E g \in Goroutine : Reads(g) /\ Turn(g, Codes)
         \/ (EnterTimeout \/ Flush \/ Timeout \/ PanicPassed) /\ reg' = reg
         \/ UNCHANGED <<stack, gor, conn, tw, custom, metrics, logged, reg>>
  <1>1. "serve" \in Goroutine /\ "inner" \in Goroutine
    BY DEF Goroutine
  <1>2. ASSUME NEW g \in Goroutine, Run(g)
        PROVE  WriterCall(g) \/ Turn(g, Refusals)
    BY <1>2, TurnIs DEF Run
  <1>3. CASE Serve /\ reg' = reg
    <2>1. CASE ServeEnds
      BY <1>1, <1>3, <2>1, TurnIs
    <2> QED
      BY <1>1, <1>2, <1>3, <2>1 DEF Serve
  <1>4. CASE Inner /\ reg' = reg
    <2>1. CASE InnerEnds
      BY <1>1, <1>4, <2>1, TurnIs
    <2> QED
      BY <1>1, <1>2, <1>4, <2>1 DEF Inner
  <1>5. CASE (ConcurrentMapUse \/ OtherArrives \/ OtherWakes \/ Time) /\ reg' = reg
    BY <1>5 DEF ConcurrentMapUse, OtherArrives, OtherWakes, Time, request
  <1>6. CASE UNCHANGED rvars
    BY <1>6 DEF rvars, vars, request
  <1>7. CASE \E g \in Goroutine : Reads(g)
    BY <1>7, ReadsTurn
  <1> QED
    BY <1>3, <1>4, <1>5, <1>6, <1>7 DEF RNext, Next

-----------------------------------------------------------------------------
(* TimeoutHandler, seen from the calls. *)

\* It is entered by serve, and inner starts at its level.
LEMMA EnterTimeoutIs ==
  ASSUME IInv, EnterTimeout
  PROVE  /\ UNCHANGED <<stack, conn, tw, custom, metrics, logged>>
         /\ gor["serve"].pc = "enter" /\ gor["inner"].pc = "off"
         /\ gor["serve"].at + 1 \in 1..Len(stack)
         /\ stack[gor["serve"].at + 1] = "TimeoutHandler"
         /\ gor'["serve"].pc = "wait" /\ gor'["inner"].pc = "enter"
         /\ gor["serve"].todo = <<>>
         /\ \A g \in Goroutine : gor'[g].at = gor["serve"].at + 1 /\ gor'[g].todo = <<>>
  <1>1. /\ UNCHANGED <<stack, conn, tw, custom, metrics, logged>> /\ gor["serve"].todo = <<>>
        /\ gor' = [gor EXCEPT !["serve"] = [Idle EXCEPT !.pc = "wait", !.at = gor["serve"].at + 1],
                              !["inner"] = [Idle EXCEPT !.pc = "enter", !.at = gor["serve"].at + 1]]
    BY DEF EnterTimeout, TimeoutHandler, Enters, Ready, Pending
  <1>2. /\ gor["serve"].pc = "enter" /\ gor'["serve"].pc = "wait"
        /\ gor["inner"].pc = "off" /\ gor'["inner"].pc = "enter"
        /\ gor["serve"].at + 1 \in 1..Len(stack)
        /\ stack[gor["serve"].at + 1] = "TimeoutHandler"
    BY EnterTimeoutKeeps DEF IInv
  <1>3. \A g \in Goroutine : gor'[g].at = gor["serve"].at + 1 /\ gor'[g].todo = <<>>
    BY <1>1 DEF IInv, Typed, Goroutine, Idle
  <1> QED
    BY <1>1, <1>2, <1>3

\* It is left by serve, which waited: with the buffer, the answer to a timeout or
\* the panic of inner.
LEMMA WaitedIs ==
  ASSUME IInv, Flush \/ Timeout \/ PanicPassed
  PROVE  /\ UNCHANGED <<stack, conn, custom, metrics, logged>> /\ tw'.resp = tw.resp
         /\ gor["serve"].pc = "wait" /\ gor["serve"].todo = <<>>
         /\ gor["serve"].at \in 1..Len(stack) /\ stack[gor["serve"].at] = "TimeoutHandler"
         /\ gor'["serve"].at = gor["serve"].at - 1 /\ gor'["serve"].at \in Level(stack)
         /\ gor'["inner"] = gor["inner"]
         /\ Flush =>
              /\ tw' = tw /\ gor["inner"].pc = "ended" /\ gor'["serve"].pc = "leave"
              /\ gor'["serve"].todo =
                   << Call("header", Status(tw.resp), "handler", gor'["serve"].at),
                      [Call("write", tw.resp.bytes, "handler", gor'["serve"].at)
                         EXCEPT !.src = tw.resp.src] >>
         /\ Timeout =>
              /\ tw'.err /\ gor'["serve"].pc = "leave"
              /\ \/ gor'["serve"].todo = Error(503, "timeout", gor'["serve"].at)
                 \/ gor'["serve"].todo = <<Call("header", 503, "timeout", gor'["serve"].at)>>
         /\ PanicPassed =>
              tw' = tw /\ gor'["serve"].pc = "panic" /\ gor'["serve"].todo = <<>>
  <1> DEFINE outer == gor["serve"].at - 1
  <1>0. Typed /\ Shape /\ "serve" \in Goroutine /\ "inner" \in Goroutine
    BY DEF IInv, Goroutine
  <1>1. /\ UNCHANGED <<stack, conn, custom, metrics, logged>> /\ tw'.resp = tw.resp
        /\ gor["serve"].pc = "wait" /\ gor["serve"].todo = <<>>
    <2>1. tw \in [resp : Answer, err : BOOLEAN]
      BY <1>0 DEF Typed
    <2> QED
      BY <2>1 DEF Flush, Timeout, PanicPassed, Ready, Pending
  <1>2. /\ gor["serve"].at \in 1..Len(stack) /\ stack[gor["serve"].at] = "TimeoutHandler"
        /\ outer \in Level(stack)
    BY <1>0, <1>1, OuterLevel
  <1>3. gor'["inner"] = gor["inner"]
    BY <1>0, FlushKeeps, TimeoutKeeps, PanicPassedKeeps
  <1>4. ASSUME Flush
        PROVE  /\ tw' = tw /\ gor["inner"].pc = "ended" /\ gor'["serve"].pc = "leave"
               /\ gor'["serve"].at = outer
               /\ gor'["serve"].todo =
                    << Call("header", Status(tw.resp), "handler", outer),
                       [Call("write", tw.resp.bytes, "handler", outer) EXCEPT !.src = tw.resp.src] >>
    <2>1. /\ tw' = tw /\ gor["inner"].pc = "ended"
          /\ GoesOn("serve", "leave", outer,
               << Call("header", Status(tw.resp), "handler", outer),
                  [Call("write", tw.resp.bytes, "handler", outer) EXCEPT !.src = tw.resp.src] >>)
      BY <1>4 DEF Flush, Status
    <2> QED
      BY <1>0, <2>1, GoneOn
  <1>5. ASSUME Timeout
        PROVE  /\ tw'.err /\ gor'["serve"].pc = "leave" /\ gor'["serve"].at = outer
               /\ \/ gor'["serve"].todo = Error(503, "timeout", outer)
                  \/ gor'["serve"].todo = <<Call("header", 503, "timeout", outer)>>
    <2>1. tw \in [resp : Answer, err : BOOLEAN]
      BY <1>0 DEF Typed
    <2>2. /\ tw'.err
          /\ \/ GoesOn("serve", "leave", outer, Error(503, "timeout", outer))
             \/ GoesOn("serve", "leave", outer, <<Call("header", 503, "timeout", outer)>>)
      BY <1>5, <2>1 DEF Timeout
    <2> QED
      BY <1>0, <2>2, GoneOn
  <1>6. ASSUME PanicPassed
        PROVE  /\ tw' = tw /\ gor'["serve"].pc = "panic" /\ gor'["serve"].todo = <<>>
               /\ gor'["serve"].at = outer
    <2>1. tw' = tw /\ GoesOn("serve", "panic", outer, <<>>)
      BY <1>6 DEF PanicPassed
    <2> QED
      BY <1>0, <2>1, GoneOn
  <1>7. gor'["serve"].at = outer
    BY <1>4, <1>5, <1>6
  <1> HIDE DEF outer
  <1>8. outer = gor["serve"].at - 1
    BY DEF outer
  <1> QED
    BY <1>1, <1>2, <1>3, <1>4, <1>5, <1>6, <1>7, <1>8

-----------------------------------------------------------------------------
(* The calls, one by one. *)

\* http.Error makes two of them.
LEMMA ErrorIn ==
  ASSUME NEW S, NEW code, NEW src, NEW at,
         Call("header", code, src, at) \in S, Call("write", 1, src, at) \in S
  PROVE  Error(code, src, at) \in Seq(S)
  <1> DEFINE a == Call("header", code, src, at)
             b == Call("write", 1, src, at)
  <1>1. Error(code, src, at) = <<a, b>>
    BY DEF Error
  <1>2. a \in S /\ b \in S
    OBVIOUS
  <1> HIDE DEF a, b
  <1> QED
    BY <1>1, <1>2, TwoCalls

\* S has what is said at level at.
Hears(S, C, at) ==
  \A op \in {"header", "write", "copy"}, arg \in Nat, src \in {"handler", "refusal", "recover"} :
    (op = "header" => arg \in {200, 404, 500} \cup C) => Call(op, arg, src, at) \in S

\* What is said is in a set of calls.
LEMMA SaysIn ==
  ASSUME NEW r, NEW q, NEW C, Says(r, q, C), NEW S, Hears(S, C, q.at), C \subseteq Nat
  PROVE  q.todo \in Seq(S)
  <1>1. CASE q.todo = <<>>
    BY <1>1, EmptySeq
  <1>2. CASE \E code \in C : q.todo = Error(code, "refusal", q.at)
    <2>1. PICK code \in C : q.todo = Error(code, "refusal", q.at)
      BY <1>2
    <2>2. Call("header", code, "refusal", q.at) \in S /\ Call("write", 1, "refusal", q.at) \in S
      BY DEF Hears
    <2> QED
      BY <2>1, <2>2, ErrorIn
  <1>3. CASE \E op \in {"header", "write", "copy"}, arg \in Nat :
               /\ op = "header" => arg \in {200, 404}
               /\ q.todo = <<Call(op, arg, "handler", q.at)>>
    <2>1. PICK op \in {"header", "write", "copy"}, arg \in Nat :
               /\ op = "header" => arg \in {200, 404}
               /\ q.todo = <<Call(op, arg, "handler", q.at)>>
      BY <1>3
    <2> DEFINE a == Call(op, arg, "handler", q.at)
    <2>2. a \in S
      BY <2>1 DEF Hears
    <2>3. q.todo = <<a>>
      BY <2>1
    <2> HIDE DEF a
    <2> QED
      BY <2>2, <2>3, OneCall
  <1>4. CASE q.todo = Error(500, "recover", q.at)
    <2>1. Call("header", 500, "recover", q.at) \in S /\ Call("write", 1, "recover", q.at) \in S
      BY DEF Hears
    <2> QED
      BY <1>4, <2>1, ErrorIn
  <1> QED
    BY <1>1, <1>2, <1>3, <1>4 DEF Says

\* The first call is replaced, and nothing else of the goroutines.
LEMMA BecomesTodo ==
  ASSUME Typed, NEW g \in Goroutine, Pending(g), NEW calls, Becomes(g, calls)
  PROVE  /\ gor'[g].pc = gor[g].pc /\ gor'[g].at = gor[g].at
         /\ gor[g].todo # <<>> /\ gor'[g].todo = calls \o Tail(gor[g].todo)
         /\ \A h \in Goroutine : h # g => gor'[h] = gor[h]
  BY DEF Typed, GorOf, Becomes, Pending

\* The call that is made.
LEMMA FirstIs ==
  ASSUME Typed, NEW g \in Goroutine, gor[g].todo # <<>>
  PROVE  /\ Head(gor[g].todo) \in CallOf(stack, Who, custom.called)
         /\ Head(gor[g].todo) \in CallOf(stack, Who, TRUE)
         /\ Head(gor[g].todo).at \in Nat /\ Head(gor[g].todo).at <= Len(stack)
         /\ Tail(gor[g].todo) \in Seq(CallOf(stack, Who, TRUE))
         /\ gor[g].todo \in Seq(CallOf(stack, Who, TRUE))
         /\ Len(stack) \in Nat
  <1> DEFINE todo == gor[g].todo
             S == CallOf(stack, Who, TRUE)
  <1>1. todo \in Seq(CallOf(stack, Who, custom.called)) /\ stack \in Stacks
    BY GorFields
  <1>2. todo \in Seq(S)
    BY <1>1, CallsMore
  <1>3. Head(todo) \in S /\ Tail(todo) \in Seq(S)
    <2> HIDE DEF S, todo
    <2> QED
      BY <1>2, HeadTailProperties DEF todo
  <1>4. Head(todo) \in CallOf(stack, Who, custom.called)
    BY HeadIs DEF Pending
  <1>5. Len(stack) \in Nat
    BY <1>1, StackFacts
  <1> DEFINE e == Head(todo)
  <1>6. e.at \in 0..Len(stack)
    <2>1. e \in CallOf(stack, Who, TRUE)
      BY <1>3
    <2> HIDE DEF e
    <2> QED
      BY <2>1, CallFields DEF Level
  <1>7. e.at \in Nat /\ e.at <= Len(stack)
    <2> HIDE DEF e
    <2> QED
      BY <1>5, <1>6
  <1> QED
    BY <1>2, <1>3, <1>4, <1>5, <1>7

\* The call e becomes c, one writer further down.
Down(e, c) ==
  /\ c \in CallOf(stack, Who, TRUE) /\ c.op = e.op /\ c.src = e.src /\ c.at = Writer(e.at - 1)
  /\ e.arg > 0 => c.arg > 0
  /\ e.op = "header" => c.arg = e.arg

\* A call that is passed on.
LEMMA BelowIs ==
  ASSUME stack \in Stacks, NEW e \in CallOf(stack, Who, TRUE), e.at > 0
  PROVE  Down(e, Below(e)) /\ Below(e).metered = e.metered
  <1>1. Below(e) \in CallOf(stack, Who, TRUE)
    BY BelowCall
  <1>2. /\ Below(e).op = e.op /\ Below(e).src = e.src /\ Below(e).at = Writer(e.at - 1)
        /\ Below(e).arg = e.arg /\ Below(e).metered = e.metered
    BY DEF Below, CallOf
  <1> QED
    BY <1>1, <1>2 DEF Down

\* A call that reaches the connection.
LEMMA ConnIs ==
  ASSUME IInv, ConnCall
  PROVE  LET e == Head(gor["serve"].todo) IN
         /\ gor["serve"].todo # <<>> /\ e.at = 0 /\ conn' = Sent(conn, e) /\ Measured(e, TRUE)
         /\ gor'["serve"].pc = gor["serve"].pc /\ gor'["serve"].at = gor["serve"].at
         /\ gor'["serve"].todo = Tail(gor["serve"].todo) /\ gor'["inner"] = gor["inner"]
         /\ UNCHANGED <<stack, tw, custom, logged>>
  <1>1. Typed /\ "serve" \in Goroutine /\ "inner" \in Goroutine
    BY DEF IInv, Goroutine
  <1>2. Pending("serve") /\ Becomes("serve", <<>>)
    BY DEF ConnCall
  <1>3. /\ gor'["serve"].pc = gor["serve"].pc /\ gor'["serve"].at = gor["serve"].at
        /\ gor["serve"].todo # <<>> /\ gor'["serve"].todo = <<>> \o Tail(gor["serve"].todo)
        /\ gor'["inner"] = gor["inner"]
    BY <1>1, <1>2, BecomesTodo
  <1>4. <<>> \o Tail(gor["serve"].todo) = Tail(gor["serve"].todo)
    BY <1>1, <1>3, FirstIs, ConcatEmptySeq
  <1> QED
    BY <1>3, <1>4 DEF ConnCall

\* A call that reaches the buffer of TimeoutHandler.
LEMMA BufferIs ==
  ASSUME IInv, BufferCall
  PROVE  LET e == Head(gor["inner"].todo) IN
         /\ gor["inner"].todo # <<>> /\ e.at \in 1..Len(stack) /\ stack[e.at] = "TimeoutHandler"
         /\ tw' = IF tw.err THEN tw ELSE [tw EXCEPT !.resp = Sent(@, e)]
         /\ Measured(e, ~tw.err)
         /\ gor'["inner"].pc = gor["inner"].pc /\ gor'["inner"].at = gor["inner"].at
         /\ gor'["inner"].todo = Tail(gor["inner"].todo) /\ gor'["serve"] = gor["serve"]
         /\ UNCHANGED <<stack, conn, custom, logged>>
  <1>1. Typed /\ "serve" \in Goroutine /\ "inner" \in Goroutine
    BY DEF IInv, Goroutine
  <1>2. /\ Pending("inner") /\ Becomes("inner", <<>>)
        /\ Head(gor["inner"].todo).at > 0 /\ stack[Head(gor["inner"].todo).at] = "TimeoutHandler"
    BY DEF BufferCall, Calls
  <1>3. /\ gor'["inner"].pc = gor["inner"].pc /\ gor'["inner"].at = gor["inner"].at
        /\ gor["inner"].todo # <<>> /\ gor'["inner"].todo = <<>> \o Tail(gor["inner"].todo)
        /\ gor'["serve"] = gor["serve"]
    BY <1>1, <1>2, BecomesTodo
  <1>4. <<>> \o Tail(gor["inner"].todo) = Tail(gor["inner"].todo)
    BY <1>1, <1>3, FirstIs, ConcatEmptySeq
  <1>5. Head(gor["inner"].todo).at \in 1..Len(stack)
    <2> DEFINE at == Head(gor["inner"].todo).at
    <2>1. at \in Nat /\ at <= Len(stack) /\ Len(stack) \in Nat /\ at > 0
      BY <1>1, <1>2, <1>3, FirstIs
    <2> HIDE DEF at
    <2>2. at \in 1..Len(stack)
      BY <2>1
    <2> QED
      BY <2>2 DEF at
  <1> QED
    BY <1>2, <1>3, <1>4, <1>5 DEF BufferCall, TimeoutWriter

\* A call of a middleware.
LEMMA HookIs ==
  ASSUME IInv, NEW g \in Goroutine, NEW m, Calls(g, m)
  PROVE  LET e == Head(gor[g].todo) IN
         /\ Pending(g) /\ gor[g].todo # <<>> /\ e.at \in 1..Len(stack) /\ stack[e.at] = m
         /\ e \in CallOf(stack, Who, custom.called) /\ e \in CallOf(stack, Who, TRUE)
         /\ Down(e, Below(e)) /\ Below(e).metered = e.metered /\ stack \in Stacks
  <1> DEFINE e == Head(gor[g].todo)
  <1>1. Pending(g) /\ gor[g].todo # <<>> /\ e.at > 0 /\ stack[e.at] = m /\ Typed /\ stack \in Stacks
    BY DEF Calls, Pending, IInv, Typed
  <1>2. /\ e \in CallOf(stack, Who, custom.called) /\ e \in CallOf(stack, Who, TRUE)
        /\ e.at \in Nat /\ e.at <= Len(stack) /\ Len(stack) \in Nat
    BY <1>1, FirstIs
  <1> HIDE DEF e
  <1>3. Down(e, Below(e)) /\ Below(e).metered = e.metered
    BY <1>1, <1>2, BelowIs
  <1>4. e.at \in 1..Len(stack)
    BY <1>1, <1>2
  <1> QED
    BY <1>1, <1>2, <1>3, <1>4 DEF e

\* limitWrite passes the call e on, perhaps after a status.
LimitPassed(g, e) ==
  \E c : /\ Down(e, c) /\ c.metered = e.metered
         /\ \/ Becomes(g, <<c>>)
            \/ Becomes(g, <<Call("header", 500, "limit", e.at), c>>)

\* limitWrite answers for itself, and cuts what is too long: to something.
LEMMA LimitIs ==
  ASSUME IInv, NEW g \in Goroutine, LimitCall(g)
  PROVE  LET e == Head(gor[g].todo) IN
         /\ Calls(g, "LimitResponseBodyBytes") /\ LimitPassed(g, e)
         /\ UNCHANGED <<stack, conn, tw, custom, metrics, logged>>
  <1> DEFINE e == Head(gor[g].todo)
  <1>1. /\ Calls(g, "LimitResponseBodyBytes") /\ Becomes(g, LimitWrite(e))
        /\ UNCHANGED <<stack, conn, tw, custom, metrics, logged>>
    BY DEF LimitCall
  <1>2. /\ e \in CallOf(stack, Who, TRUE) /\ Down(e, Below(e)) /\ Below(e).metered = e.metered
    BY <1>1, HookIs
  <1> HIDE DEF e
  <1>3. CASE e.op = "write" /\ e.arg > Limit
    <2> DEFINE c == [Below(e) EXCEPT !.arg = @ - (0 + e.arg - Limit)]
    <2>1. e.arg \in Nat /\ Below(e).arg = e.arg
      BY <1>2 DEF CallOf, Below
    <2>2. Below(e).arg - (0 + e.arg - Limit) = Limit /\ Limit \in Nat /\ Limit > 0
      BY <2>1, MiddlewareAssumption
    <2>3. c = [Below(e) EXCEPT !.arg = Limit]
      BY <2>2
    <2>4. Down(e, c) /\ c.metered = e.metered
      BY <1>2, <1>3, <2>2, <2>3 DEF Down, CallOf
    <2>5. LimitWrite(e) = <<Call("header", 500, "limit", e.at), c>>
      BY <1>3, <2>1, MiddlewareAssumption DEF LimitWrite
    <2> HIDE DEF c
    <2> QED
      BY <1>1, <2>4, <2>5 DEF e, LimitPassed
  <1>4. CASE ~(e.op = "write" /\ e.arg > Limit)
    <2>1. e.arg \in Nat
      BY <1>2 DEF CallOf
    <2>2. LimitWrite(e) = <<Below(e)>>
      BY <1>4, <2>1, MiddlewareAssumption DEF LimitWrite
    <2> QED
      BY <1>1, <1>2, <2>2 DEF e, LimitPassed
  <1> QED
    BY <1>3, <1>4

\* httpsnoop passes the call on, and measures what it returns.
LEMMA LoggingIs ==
  ASSUME IInv, NEW g \in Goroutine, LoggingCall(g)
  PROVE  LET e == Head(gor[g].todo) IN
         /\ Calls(g, "Logging")
         /\ \E c : Down(e, c) /\ c.metered /\ c.arg = e.arg /\ Becomes(g, <<c>>)
         /\ metrics' = [metrics EXCEPT
              !.Code = IF e.op = "header" /\ ~metrics.headerWritten THEN e.arg ELSE @,
              !.headerWritten = TRUE]
         /\ UNCHANGED <<stack, conn, tw, custom, logged>>
  <1> DEFINE e == Head(gor[g].todo)
             c == [Below(e) EXCEPT !.metered = TRUE]
  <1>1. /\ Calls(g, "Logging") /\ Becomes(g, <<c>>)
        /\ metrics' = [metrics EXCEPT
             !.Code = IF e.op = "header" /\ ~metrics.headerWritten THEN e.arg ELSE @,
             !.headerWritten = TRUE]
        /\ UNCHANGED <<stack, conn, tw, custom, logged>>
    BY DEF LoggingCall
  <1>2. e \in CallOf(stack, Who, TRUE) /\ Down(e, Below(e))
    BY <1>1, HookIs
  <1> HIDE DEF e
  <1>3. Below(e).arg = e.arg
    BY <1>2 DEF Below, CallOf
  <1>4. Down(e, c) /\ c.metered /\ c.arg = e.arg
    <2> DEFINE b == Below(e)
    <2>1. /\ b \in CallOf(stack, Who, TRUE) /\ b.op = e.op /\ b.src = e.src
          /\ b.at = Writer(e.at - 1) /\ (e.arg > 0 => b.arg > 0) /\ b.arg = e.arg
      BY <1>2, <1>3 DEF Down
    <2> HIDE DEF b
    <2>2. c = [b EXCEPT !.metered = TRUE]
      BY DEF b
    <2>3. c \in CallOf(stack, Who, TRUE)
      BY <2>1, <2>2, Zenon DEF CallOf
    <2>4. c.op = b.op /\ c.arg = b.arg /\ c.src = b.src /\ c.at = b.at /\ c.metered
      BY <2>1, <2>2 DEF CallOf
    <2> HIDE DEF c
    <2> QED
      BY <2>1, <2>3, <2>4 DEF Down
  <1> HIDE DEF c
  <1> QED
    BY <1>1, <1>4 DEF e

\* What errHandler writes before it says that it handled the error.
Custom(e) ==
  << Call("header", e.arg, "error", e.at), Call("write", 1, "error", e.at),
     Call("handled", 0, "error", e.at) >>

\* CustomErrors drops, handles or passes on.
LEMMA CustomIs ==
  ASSUME IInv, NEW g \in Goroutine, CustomCall(g)
  PROVE  LET e == Head(gor[g].todo) IN
         /\ Calls(g, "CustomErrors") /\ UNCHANGED <<stack, conn, tw, metrics, logged>>
         /\ \/ Dropped(e) /\ Becomes(g, <<>>) /\ custom' = custom
            \/ /\ ~Dropped(e) /\ e.op = "header" /\ ~custom.called
               /\ custom' = [custom EXCEPT !.called = TRUE]
               /\ Becomes(g, Custom(e)) \/ Becomes(g, <<Below(e)>>)
            \/ /\ e.op = "handled" /\ custom' = [custom EXCEPT !.noop = TRUE]
               /\ Becomes(g, <<>>)
            \/ /\ ~Dropped(e) /\ e.op # "handled"
               /\ custom' = [custom EXCEPT !.simple = @ /\ custom.called /\ e.op # "copy"]
               /\ Becomes(g, <<Below(e)>>)
  <1> DEFINE e == Head(gor[g].todo)
             a == Call("header", e.arg, "error", e.at)
             b == Call("write", 1, "error", e.at)
             c == Call("handled", 0, "error", e.at)
  <1>1. Error(e.arg, "error", e.at) \o <<Call("handled", 0, "error", e.at)>> = Custom(e)
    <2>1. Error(e.arg, "error", e.at) = <<a, b>> /\ Custom(e) = <<a, b, c>>
      BY DEF Error, Custom
    <2> HIDE DEF a, b, c
    <2>2. <<a, b>> \o <<c>> = <<a, b, c>>
      <3> DEFINE S == {a, b, c}
                 p == <<a, b>>
                 q == <<c>>
                 t == <<a, b, c>>
      <3>1. /\ p \in Seq(S) /\ q \in Seq(S) /\ t \in Seq(S) /\ Len(p) = 2 /\ Len(q) = 1 /\ Len(t) = 3
            /\ p[1] = a /\ p[2] = b /\ q[1] = c /\ t[1] = a /\ t[2] = b /\ t[3] = c
        OBVIOUS
      <3> HIDE DEF S, p, q, t
      <3>2. /\ p \o q \in Seq(S) /\ Len(p \o q) = 3
            /\ \A i \in 1..3 : (p \o q)[i] = IF i <= 2 THEN p[i] ELSE q[i - 2]
        <4>1. /\ p \o q \in Seq(S) /\ Len(p \o q) = Len(p) + Len(q)
              /\ \A i \in 1..(Len(p) + Len(q)) :
                   (p \o q)[i] = IF i <= Len(p) THEN p[i] ELSE q[i - Len(p)]
          BY <3>1, ConcatProperties, Zenon
        <4> QED
          BY <3>1, <4>1
      <3>3. \A i \in 1..3 : (p \o q)[i] = t[i]
        BY <3>1, <3>2
      <3> QED
        BY <3>1, <3>2, <3>3, SeqEqual DEF p, q, t
    <2> QED
      BY <2>1, <2>2 DEF c
  <1> QED
    BY <1>1 DEF CustomCall

-----------------------------------------------------------------------------
(* The levels of goroutines and calls. *)

\* The writers of a turn's calls, between a writer and the level of the goroutine.
LEMMA SaidBetween ==
  ASSUME stack \in Stacks, NEW r, NEW q, NEW C, C \subseteq Codes, Says(r, q, C),
         NEW b \in Nat, Wrapped(b), q.at \in Level(stack), b <= q.at
  PROVE  q.todo \in Seq(Between(stack, b, q.at))
  <1> DEFINE S == Between(stack, b, q.at)
  <1>0. C \subseteq Nat
    BY DEF Codes
  <1>1. {200, 404, 500} \cup C \subseteq Codes
    BY DEF Codes
  <1>2. Len(stack) \in Nat /\ q.at \in Nat
    BY StackFacts DEF Level
  <1>3. Writer(q.at) >= b /\ Writer(q.at) \in 0..q.at
    BY <1>2, WriterAbove
  <1>4. ASSUME NEW op \in {"header", "write", "copy"}, NEW arg \in Nat,
               NEW src \in {"handler", "refusal", "recover"},
               op = "header" => arg \in {200, 404, 500} \cup C
        PROVE  Call(op, arg, src, q.at) \in S
    <2> DEFINE at == q.at
               c == Call(op, arg, src, at)
    <2>1. /\ op \in {"header", "write", "copy", "handled"} /\ at \in Level(stack) /\ src \in Who
          /\ op = "header" => arg \in Codes
      BY <1>1, <1>4 DEF Who
    <2>2. c.at = Writer(at) /\ Writer(at) >= b /\ Writer(at) <= at
      BY <1>2, <1>3 DEF Call
    <2> HIDE DEF at
    <2>3. c \in CallOf(stack, Who, TRUE)
      BY <2>1, NewCall
    <2> HIDE DEF c
    <2>4. c \in Between(stack, b, at)
      BY <2>2, <2>3 DEF Between
    <2> QED
      BY <2>4 DEF at, c
  <1> HIDE DEF S
  <1>5. Hears(S, C, q.at)
    BY <1>4 DEF Hears
  <1>6. q.todo \in Seq(S)
    BY <1>0, <1>5, SaysIn
  <1> QED
    BY <1>6 DEF S

\* Further calls between wider bounds.
LEMMA BetweenMore ==
  ASSUME NEW s, Len(s) \in Nat, NEW lo \in Nat, NEW hi \in Nat, NEW k \in Nat, NEW m \in Nat,
         k <= lo, hi <= m, NEW todo \in Seq(Between(s, lo, hi))
  PROVE  todo \in Seq(Between(s, k, m))
  <1>1. ASSUME NEW c \in Between(s, lo, hi)
        PROVE  c \in Between(s, k, m)
    <2>1. c \in CallOf(s, Who, TRUE) /\ lo <= c.at /\ c.at <= hi
      BY DEF Between
    <2>2. c.at \in Level(s)
      BY <2>1, CallFields
    <2>3. c.at \in Nat
      BY <2>2 DEF Level
    <2>4. k <= c.at /\ c.at <= m
      BY <2>1, <2>3
    <2> QED
      BY <2>1, <2>4 DEF Between
  <1>2. Between(s, lo, hi) \subseteq Between(s, k, m)
    BY <1>1
  <1> QED
    BY <1>2, SeqMonotonic

\* How a turn moves a goroutine.
LEMMA TurnMoves ==
  ASSUME IInv, IInv', Places, NEW g \in Goroutine, NEW C, Turn(g, C)
  PROVE  /\ gor[g].pc # "off" /\ gor'[g].pc # "off" /\ gor[g].pc # "wait" /\ gor'[g].pc # "wait"
         /\ gor[g].at \in Level(stack) /\ gor'[g].at \in Level(stack)
         /\ \/ /\ gor'[g].at = gor[g].at + 1 /\ gor[g].pc \in {"enter", "creating"}
               /\ gor'[g].pc \in {"enter", "sleep"} /\ stack[gor'[g].at] # "TimeoutHandler"
            \/ /\ gor'[g].at = gor[g].at
               /\ gor'[g].pc \in Inbound => gor[g].pc \in Inbound
            \/ /\ gor'[g].at = gor[g].at - 1
               /\ gor'[g].pc \in {"leave", "panic"} /\ gor[g].pc \in {"leave", "consuming", "panic"}
         /\ gor'[g].pc \in {"handler", "setting"} => gor'[g].at = Len(stack)
         /\ \A h \in Goroutine : h # g => gor'[h] = gor[h]
  <1>1. /\ AnyMove(stack, Base(g), g, gor[g], gor'[g]) /\ gor[g].todo = <<>> /\ stack' = stack
        /\ \A h \in Goroutine : h # g => gor'[h] = gor[h]
    BY DEF Turn, Alone
  <1>2. gor[g].at \in Level(stack) /\ gor'[g].at \in Level(stack)
    BY <1>1 DEF IInv, Typed, GorOf
  <1>3. gor[g].pc \in {"handler", "setting"} => gor[g].at = Len(stack)
    BY DEF Places, Placed
  <1>4. CASE GoesIn(stack, gor[g], gor'[g]) \/ Sleeps(stack, gor[g], gor'[g])
    BY <1>1, <1>2, <1>4 DEF GoesIn, Sleeps, Inbound
  <1>5. CASE Refused(gor[g], gor'[g]) \/ Wakes(gor[g], gor'[g]) \/ Handles(stack, gor[g], gor'[g])
    BY <1>1, <1>2, <1>3, <1>5 DEF Refused, Wakes, Handles, Inbound
  <1>6. CASE GoesOut(stack, Base(g), gor[g], gor'[g])
    BY <1>1, <1>2, <1>6 DEF GoesOut, Inbound
  <1>7. CASE Panics(stack, Base(g), g, gor[g], gor'[g])
    BY <1>1, <1>2, <1>7 DEF Panics, Inbound
  <1> QED
    BY <1>1, <1>4, <1>5, <1>6, <1>7 DEF AnyMove, Move, Writes

\* Inner is inside of TimeoutHandler.
LEMMA InnerInside ==
  ASSUME NEW s \in Stacks, NEW v, NEW n, NEW err, Control(s, v, n, err), n.pc # "off",
         NEW t \in 1..Len(s), s[t] = "TimeoutHandler"
  PROVE  n.at >= t /\ v.pc \in {"wait", "leave", "consuming", "ended", "panic", "aborted"}
  <1>1. PICK i \in 1..Len(s) : s[i] = "TimeoutHandler" /\ n.at >= i
    BY DEF Control
  <1>2. i = t
    BY <1>1, StackFacts
  <1> QED
    BY <1>1, <1>2 DEF Control

\* A turn keeps the goroutines and calls at their levels.
LEMMA PlacesTurn ==
  ASSUME IInv, IInv', Places, NEW g \in Goroutine, NEW C, C \subseteq Codes, Turn(g, C)
  PROVE  Places'
  <1> DEFINE r == gor[g]
             q == gor'[g]
  <1>1. /\ stack' = stack /\ stack \in Stacks /\ Says(r, q, C) /\ r.todo = <<>> /\ Len(stack) \in Nat
        /\ \A h \in Goroutine : h # g => gor'[h] = gor[h]
        /\ "serve" \in Goroutine /\ "inner" \in Goroutine
    BY StackFacts DEF Turn, Alone, IInv, Typed, Goroutine
  <1>2. /\ r.pc # "off" /\ q.pc # "off" /\ r.pc # "wait" /\ q.pc # "wait"
        /\ r.at \in Level(stack) /\ q.at \in Level(stack)
        /\ \/ /\ q.at = r.at + 1 /\ r.pc \in {"enter", "creating"}
              /\ q.pc \in {"enter", "sleep"} /\ stack[q.at] # "TimeoutHandler"
           \/ q.at = r.at
           \/ q.at = r.at - 1
        /\ q.pc \in {"handler", "setting"} => q.at = Len(stack)
    BY TurnMoves
  <1>3. Placed(stack, q)
    <2>1. q.todo # <<>> => q.pc \in {"handler", "leave"}
      BY <1>1 DEF Says
    <2>2. Wrapped(0) /\ 0 \in Nat /\ 0 <= q.at
      BY <1>2 DEF Wrapped, Level
    <2>3. q.todo \in Seq(Between(stack, 0, q.at))
      BY <1>1, <1>2, <2>2, SaidBetween
    <2> QED
      BY <1>2, <2>1, <2>3 DEF Placed
  <1>4. \A h \in Goroutine : Placed(stack, gor'[h])
    BY <1>1, <1>3 DEF Places
  <1>5. gor'["inner"].pc = "off" => gor'["inner"].at = 0
    BY <1>1, <1>2 DEF Places, InTime
  <1>6. ASSUME NEW t \in 1..Len(stack), stack[t] = "TimeoutHandler"
        PROVE  /\ gor'["serve"].at <= t /\ (gor'["serve"].at = t => gor'["serve"].pc = "wait")
               /\ gor'["inner"].todo \in Seq(Between(stack, t, Len(stack)))
    <2>1. /\ gor["serve"].at <= t /\ (gor["serve"].at = t => gor["serve"].pc = "wait")
          /\ gor["inner"].todo \in Seq(Between(stack, t, Len(stack)))
      BY <1>6 DEF Places, InTime
    <2>2. CASE g = "serve"
      <3>1. gor'["inner"] = gor["inner"]
        BY <1>1, <2>2
      <3>2. r.at < t /\ q.at <= t /\ q.at # t
        BY <1>1, <1>2, <1>6, <2>1, <2>2, SMTT(30) DEF Level
      <3> QED
        BY <2>1, <2>2, <3>1, <3>2
    <2>3. CASE g = "inner"
      <3>1. gor'["serve"] = gor["serve"]
        BY <1>1, <2>3
      <3>2. Control(stack, gor'["serve"], q, tw'.err)
        BY <1>1, <2>3 DEF IInv, Shape
      <3>3. q.at >= t
        BY <1>1, <1>2, <1>6, <3>2, InnerInside
      <3>4. q.todo \in Seq(Between(stack, t, q.at))
        <4>1. Wrapped(t) /\ t \in Nat
          BY <1>1, <1>6 DEF Wrapped
        <4> QED
          BY <1>1, <1>2, <3>3, <4>1, SaidBetween
      <3>5. q.todo \in Seq(Between(stack, t, Len(stack)))
        BY <1>1, <1>2, <3>4, BetweenMore, SMTT(30) DEF Level
      <3> QED
        BY <2>1, <2>3, <3>1, <3>5
    <2> QED
      BY <2>2, <2>3 DEF Goroutine
  <1> QED
    BY <1>1, <1>4, <1>5, <1>6 DEF Places, InTime

\* What a call of the level of e may make: calls further out, but not past a writer.
After(e) ==
  { c \in CallOf(stack, Who, TRUE) :
      /\ c.at <= e.at /\ \A k \in 0..(e.at - 1) : Wrapped(k) => k <= c.at
      /\ c.metered => e.metered \/ stack[e.at] = "Logging"
      /\ c.op = "header" => c.arg = 500 \/ (e.op = "header" /\ c.arg = e.arg) }

\* A call that goes down is one of these.
LEMMA DownAfter ==
  ASSUME NEW e, e.at \in Nat, e.at > 0, NEW c, Down(e, c),
         c.metered => e.metered \/ stack[e.at] = "Logging"
  PROVE  c \in After(e)
  <1>0. e.at - 1 \in Nat
    OBVIOUS
  <1>1. c \in CallOf(stack, Who, TRUE) /\ c.at = Writer(e.at - 1) /\ e.at - 1 \in Nat
    BY <1>0 DEF Down
  <1>2. c.at \in 0..(e.at - 1)
    BY <1>1, WriterAbove DEF Wrapped
  <1>3. ASSUME NEW k \in 0..(e.at - 1), Wrapped(k)
        PROVE  k <= c.at
    <2>1. Writer(e.at - 1) >= k /\ Writer(e.at - 1) \in 0..(e.at - 1)
      BY <1>1, <1>3, WriterAbove
    <2> QED
      BY <1>1, <2>1
  <1>4. c.at <= e.at
    BY <1>2
  <1>5. c.op = "header" => e.op = "header" /\ c.arg = e.arg
    BY DEF Down
  <1> QED
    BY <1>1, <1>3, <1>4, <1>5 DEF After

\* So is a new call of the same writer.
LEMMA SameAfter ==
  ASSUME stack \in Stacks, NEW e, e.at \in 1..Len(stack), Wrapped(e.at),
         NEW op \in {"header", "write", "copy", "handled"}, NEW arg \in Nat, NEW src \in Who,
         op = "header" => arg \in Codes
  PROVE  (op = "header" => arg = 500 \/ (e.op = "header" /\ arg = e.arg)) =>
           Call(op, arg, src, e.at) \in After(e)
  <1> DEFINE at == e.at
             c == Call(op, arg, src, at)
  <1>1. at \in Nat /\ at \in Level(stack) /\ at > 0
    BY StackFacts DEF Level
  <1>2. Writer(at) = at
    BY <1>1, WriterAbove
  <1>3. c.at = at /\ ~c.metered /\ c.op = op /\ c.arg = arg
    BY <1>2 DEF Call
  <1> HIDE DEF at
  <1>4. c \in CallOf(stack, Who, TRUE)
    BY <1>1, NewCall
  <1> HIDE DEF c
  <1>5. c.at <= at /\ \A k \in 0..(at - 1) : Wrapped(k) => k <= c.at
    BY <1>1, <1>3
  <1>6. ASSUME op = "header" => arg = 500 \/ (e.op = "header" /\ arg = e.arg)
        PROVE  c \in After(e)
    <2>1. c.at <= e.at /\ \A k \in 0..(e.at - 1) : Wrapped(k) => k <= c.at
      BY <1>5 DEF at
    <2>2. ~c.metered /\ (c.op = "header" => c.arg = 500 \/ (e.op = "header" /\ c.arg = e.arg))
      BY <1>3, <1>6
    <2> QED
      BY <1>4, <2>1, <2>2 DEF After
  <1> QED
    BY <1>6 DEF at, c

\* A call is replaced by calls that it makes; the connection and the buffer make none.
LEMMA CalledIs ==
  ASSUME IInv, NEW g \in Goroutine, WriterCall(g)
  PROVE  LET e == Head(gor[g].todo) IN
         /\ stack' = stack /\ gor[g].todo # <<>>
         /\ gor'[g].pc = gor[g].pc /\ gor'[g].at = gor[g].at
         /\ \A h \in Goroutine : h # g => gor'[h] = gor[h]
         /\ \E calls \in Seq(After(e)) :
              /\ gor'[g].todo = calls \o Tail(gor[g].todo)
              /\ calls # <<>> => e.at \in 1..Len(stack) /\ stack[e.at] # "TimeoutHandler"
  <1> DEFINE e == Head(gor[g].todo)
  <1>1. Typed /\ stack \in Stacks
    BY DEF IInv, Typed
  <1>2. stack' = stack /\ Pending(g)
    BY DEF WriterCall, ConnCall, BufferCall, LimitCall, LoggingCall, CustomCall, Calls
  <1>3. ASSUME NEW calls \in Seq(After(e)), Becomes(g, calls),
               calls # <<>> => e.at \in 1..Len(stack) /\ stack[e.at] # "TimeoutHandler"
        PROVE  /\ gor[g].todo # <<>>
               /\ gor'[g].pc = gor[g].pc /\ gor'[g].at = gor[g].at
               /\ \A h \in Goroutine : h # g => gor'[h] = gor[h]
               /\ \E x \in Seq(After(e)) :
                    /\ gor'[g].todo = x \o Tail(gor[g].todo)
                    /\ x # <<>> => e.at \in 1..Len(stack) /\ stack[e.at] # "TimeoutHandler"
    BY <1>1, <1>2, <1>3, BecomesTodo
  <1>4. CASE Becomes(g, <<>>)
    BY <1>2, <1>3, <1>4, EmptySeq
  <1>5. ASSUME NEW m \in {"LimitResponseBodyBytes", "Logging", "CustomErrors"}, Calls(g, m)
        PROVE  /\ e.at \in 1..Len(stack) /\ stack[e.at] = m /\ stack[e.at] # "TimeoutHandler"
               /\ e \in CallOf(stack, Who, TRUE) /\ Wrapped(e.at) /\ Down(e, Below(e))
               /\ Below(e).metered = e.metered /\ e.at \in Nat /\ e.at > 0
    <2>1. /\ e.at \in 1..Len(stack) /\ stack[e.at] = m /\ e \in CallOf(stack, Who, TRUE)
          /\ Down(e, Below(e)) /\ Below(e).metered = e.metered
      BY <1>5, HookIs
    <2> HIDE DEF e
    <2>2. e.at \in Nat /\ e.at > 0
      BY <1>1, <2>1, StackFacts
    <2>3. m # "TimeoutHandler" /\ Wrapped(e.at)
      BY <1>5, <2>1 DEF Wrapped
    <2> QED
      BY <2>1, <2>2, <2>3
  <1>6. CASE LimitCall(g)
    <2>1. /\ Calls(g, "LimitResponseBodyBytes")
          /\ LimitPassed(g, e)
      BY <1>6, LimitIs
    <2>2. PICK c : /\ Down(e, c) /\ c.metered = e.metered
                   /\ \/ Becomes(g, <<c>>)
                      \/ Becomes(g, <<Call("header", 500, "limit", e.at), c>>)
      BY <2>1 DEF LimitPassed
    <2> DEFINE d == Call("header", 500, "limit", e.at)
    <2>3. /\ e.at \in 1..Len(stack) /\ stack[e.at] # "TimeoutHandler" /\ Wrapped(e.at)
          /\ e.at \in Nat /\ e.at > 0
      BY <1>5, <2>1
    <2>4. c \in After(e) /\ d \in After(e)
      <3> HIDE DEF e
      <3>1. c \in After(e)
        BY <2>2, <2>3, DownAfter
      <3>2. 500 \in Codes /\ 500 \in Nat /\ "limit" \in Who
        BY DEF Codes, Who
      <3>3. d \in After(e)
        BY <1>1, <2>3, <3>2, SameAfter
      <3> QED
        BY <3>1, <3>3
    <2>5. Becomes(g, <<c>>) \/ Becomes(g, <<d, c>>)
      BY <2>2
    <2> HIDE DEF d
    <2>6. <<c>> \in Seq(After(e)) /\ <<d, c>> \in Seq(After(e))
      BY <2>4, OneCall, TwoCalls
    <2> QED
      BY <1>2, <1>3, <2>3, <2>5, <2>6
  <1>7. CASE LoggingCall(g)
    <2>1. Calls(g, "Logging") /\ \E c : Down(e, c) /\ Becomes(g, <<c>>)
      BY <1>7, LoggingIs
    <2>2. PICK c : Down(e, c) /\ Becomes(g, <<c>>)
      BY <2>1
    <2>3. /\ e.at \in 1..Len(stack) /\ stack[e.at] # "TimeoutHandler" /\ e.at \in Nat /\ e.at > 0
          /\ stack[e.at] = "Logging"
      BY <1>5, <2>1
    <2>4. c \in After(e)
      <3> HIDE DEF e
      <3> QED
        BY <2>2, <2>3, DownAfter
    <2>5. <<c>> \in Seq(After(e))
      BY <2>4, OneCall
    <2> QED
      BY <1>2, <1>3, <2>2, <2>3, <2>5
  <1>8. CASE CustomCall(g)
    <2>1. /\ Calls(g, "CustomErrors")
          /\ \/ Becomes(g, <<>>) \/ Becomes(g, <<Below(e)>>)
             \/ e.op = "header" /\ Becomes(g, Custom(e))
      BY <1>8, CustomIs
    <2>2. /\ e.at \in 1..Len(stack) /\ stack[e.at] # "TimeoutHandler" /\ Wrapped(e.at)
          /\ e.at \in Nat /\ e.at > 0 /\ Down(e, Below(e))
          /\ Below(e).metered = e.metered /\ e \in CallOf(stack, Who, TRUE)
      BY <1>5, <2>1
    <2> HIDE DEF e
    <2>3. Below(e) \in After(e)
      BY <2>2, DownAfter
    <2>4. CASE Becomes(g, <<Below(e)>>)
      <3> DEFINE c == Below(e)
      <3>1. c \in After(e) /\ Becomes(g, <<c>>)
        BY <2>3, <2>4
      <3> HIDE DEF c
      <3>2. <<c>> \in Seq(After(e))
        BY <3>1, OneCall
      <3> QED
        BY <1>2, <1>3, <2>2, <3>1, <3>2 DEF e
    <2>5. CASE e.op = "header" /\ Becomes(g, Custom(e))
      <3> DEFINE a == Call("header", e.arg, "error", e.at)
                 b == Call("write", 1, "error", e.at)
                 c == Call("handled", 0, "error", e.at)
      <3>1. e.arg \in Nat /\ e.arg \in Codes
        BY <2>2, <2>5, CallFields
      <3>2. "error" \in Who
        BY DEF Who
      <3>3. a \in After(e)
        BY <1>1, <2>2, <2>5, <3>1, <3>2, SameAfter
      <3>4. b \in After(e)
        BY <1>1, <2>2, <3>2, SameAfter
      <3>5. c \in After(e)
        BY <1>1, <2>2, <3>2, SameAfter
      <3>6. Custom(e) = <<a, b, c>>
        BY DEF Custom
      <3> HIDE DEF a, b, c
      <3>7. <<a, b, c>> \in Seq(After(e))
        BY <3>3, <3>4, <3>5
      <3>8. Custom(e) \in Seq(After(e))
        BY <3>6, <3>7
      <3> QED
        BY <1>2, <1>3, <2>2, <2>5, <3>8 DEF e
    <2> QED
      BY <1>4, <2>1, <2>4, <2>5 DEF e
  <1>9. CASE g = "serve" /\ ConnCall
    BY <1>4, <1>9 DEF ConnCall
  <1>10. CASE g = "inner" /\ BufferCall
    BY <1>4, <1>10 DEF BufferCall
  <1> QED
    BY <1>6, <1>7, <1>8, <1>9, <1>10 DEF WriterCall

\* Where all calls are in a set, and a call makes only calls of the set, they stay so.
LEMMA CalledIn ==
  ASSUME NEW todo, NEW S, todo \in Seq(S), todo # <<>>, NEW A, NEW calls \in Seq(A),
         calls # <<>> => A \subseteq S
  PROVE  calls \o Tail(todo) \in Seq(S)
  <1>1. calls \in Seq(S)
    <2>1. CASE calls = <<>>
      BY <2>1, EmptySeq
    <2>2. CASE calls # <<>>
      BY <2>2, SeqMonotonic
    <2> QED
      BY <2>1, <2>2
  <1> QED
    BY <1>1, Replaced

\* A call keeps the goroutines and calls at their levels.
LEMMA PlacesCall ==
  ASSUME IInv, Places, NEW g \in Goroutine, WriterCall(g)
  PROVE  Places'
  <1> DEFINE e == Head(gor[g].todo)
             r == gor[g]
             q == gor'[g]
  <1>1. /\ stack' = stack /\ r.todo # <<>> /\ q.pc = r.pc /\ q.at = r.at
        /\ \A h \in Goroutine : h # g => gor'[h] = gor[h]
    BY CalledIs
  <1>2. PICK calls \in Seq(After(e)) :
              /\ q.todo = calls \o Tail(r.todo)
              /\ calls # <<>> => e.at \in 1..Len(stack) /\ stack[e.at] # "TimeoutHandler"
    BY CalledIs
  <1>3. /\ Typed /\ stack \in Stacks /\ Len(stack) \in Nat /\ e.at \in Nat /\ e.at <= Len(stack)
        /\ "serve" \in Goroutine /\ "inner" \in Goroutine
    BY <1>1, FirstIs DEF IInv, Typed, Goroutine
  <1>4. ASSUME NEW lo \in Nat, NEW hi \in Nat, Wrapped(lo),
               r.todo \in Seq(Between(stack, lo, hi)),
               calls # <<>> => e.at # lo
        PROVE  q.todo \in Seq(Between(stack, lo, hi))
    <2>1. e \in Between(stack, lo, hi)
      BY <1>1, <1>4, Replaced, EmptySeq
    <2> HIDE DEF e
    <2>2. lo <= e.at /\ e.at <= hi
      BY <2>1 DEF Between
    <2>3. ASSUME calls # <<>>, NEW c \in After(e)
          PROVE  c \in Between(stack, lo, hi)
      <3>1. /\ c \in CallOf(stack, Who, TRUE) /\ c.at <= e.at
            /\ \A k \in 0..(e.at - 1) : Wrapped(k) => k <= c.at
        BY DEF After
      <3>2. c.at \in Level(stack)
        BY <3>1, CallFields
      <3>3. c.at \in Nat
        BY <3>2 DEF Level
      <3>4. lo \in 0..(e.at - 1)
        BY <1>3, <1>4, <2>2, <2>3
      <3>5. lo <= c.at /\ c.at <= hi
        BY <1>3, <1>4, <2>2, <3>1, <3>3, <3>4
      <3> QED
        BY <3>1, <3>5 DEF Between
    <2>4. calls # <<>> => After(e) \subseteq Between(stack, lo, hi)
      BY <2>3
    <2>5. calls \o Tail(r.todo) \in Seq(Between(stack, lo, hi))
      BY <1>1, <1>4, <2>4, CalledIn
    <2> QED
      BY <1>2, <2>5
  <1>5. Placed(stack, q)
    <2>1. /\ r.todo # <<>> => r.pc \in {"handler", "leave"}
          /\ r.pc \in {"handler", "setting"} => r.at = Len(stack)
          /\ r.todo \in Seq(Between(stack, 0, r.at))
      BY DEF Places, Placed
    <2>2. r.at \in Level(stack)
      BY <1>3 DEF Typed, GorOf
    <2>3. Wrapped(0) /\ r.at \in Nat /\ (calls # <<>> => e.at # 0)
      BY <1>2, <1>3, <2>2 DEF Wrapped, Level
    <2>4. q.todo \in Seq(Between(stack, 0, r.at))
      BY <1>4, <2>1, <2>3
    <2> QED
      BY <1>1, <2>1, <2>4 DEF Placed
  <1>6. \A h \in Goroutine : Placed(stack, gor'[h])
    BY <1>1, <1>5 DEF Places
  <1>7. gor'["inner"].pc = "off" => gor'["inner"].at = 0
    BY <1>1, <1>3 DEF Places, InTime
  <1>8. ASSUME NEW t \in 1..Len(stack), stack[t] = "TimeoutHandler"
        PROVE  /\ gor'["serve"].at <= t /\ (gor'["serve"].at = t => gor'["serve"].pc = "wait")
               /\ gor'["inner"].todo \in Seq(Between(stack, t, Len(stack)))
    <2>1. /\ gor["serve"].at <= t /\ (gor["serve"].at = t => gor["serve"].pc = "wait")
          /\ gor["inner"].todo \in Seq(Between(stack, t, Len(stack)))
      BY <1>8 DEF Places, InTime
    <2>2. /\ gor'["serve"].at <= t /\ (gor'["serve"].at = t => gor'["serve"].pc = "wait")
      BY <1>1, <1>3, <2>1
    <2>3. CASE g = "inner"
      <3>1. t \in Nat /\ Wrapped(t) /\ (calls # <<>> => e.at # t)
        BY <1>2, <1>3, <1>8 DEF Wrapped
      <3> QED
        BY <1>3, <1>4, <2>1, <2>2, <2>3, <3>1
    <2>4. CASE g # "inner"
      BY <1>1, <1>3, <2>1, <2>2, <2>4
    <2> QED
      BY <2>3, <2>4
  <1> QED
    BY <1>1, <1>6, <1>7, <1>8 DEF Places, InTime

\* What TimeoutHandler writes to the writer of level at: the buffer, or a timeout.
FromBuffer(at) ==
  { c \in CallOf(stack, Who, TRUE) :
      /\ c.at = Writer(at) /\ ~c.metered /\ c.op \in {"header", "write"}
      /\ c.op = "header" => c.arg \in {Status(tw.resp), 503}
      /\ c.op # "header" => c.src \subseteq tw.resp.src \cup {"timeout"} }

\* Serve has these to say when it leaves TimeoutHandler.
LEMMA FlushSays ==
  ASSUME IInv, Flush \/ Timeout \/ PanicPassed
  PROVE  gor'["serve"].todo \in Seq(FromBuffer(gor'["serve"].at))
  <1> DEFINE at == gor'["serve"].at
             S == FromBuffer(at)
             h == Call("header", Status(tw.resp), "handler", at)
             w == [Call("write", tw.resp.bytes, "handler", at) EXCEPT !.src = tw.resp.src]
             x == Call("header", 503, "timeout", at)
             y == Call("write", 1, "timeout", at)
  <1>1. /\ stack \in Stacks /\ tw.resp.status \in Codes \cup {0} /\ tw.resp.bytes \in Nat
        /\ tw.resp.src \subseteq Who
    BY DEF IInv, Typed, Answer
  <1>2. at \in Level(stack)
    BY WaitedIs
  <1>3. Status(tw.resp) \in Codes /\ Status(tw.resp) \in Nat /\ 503 \in Codes
    BY <1>1 DEF Status, Codes
  <1>4. Flush => gor'["serve"].todo = <<h, w>>
    BY WaitedIs
  <1>5. Timeout => gor'["serve"].todo \in {<<x, y>>, <<x>>}
    BY WaitedIs DEF Error
  <1>6. PanicPassed => gor'["serve"].todo = <<>>
    BY WaitedIs
  <1> HIDE DEF at
  <1>7. h \in S /\ x \in S
    <2>0. "handler" \in Who /\ "timeout" \in Who /\ 503 \in Nat
      BY DEF Who
    <2>1. h \in CallOf(stack, Who, TRUE)
      <3> DEFINE code == Status(tw.resp)
      <3>1. code \in Nat /\ code \in Codes
        BY <1>3
      <3> HIDE DEF code
      <3>2. Call("header", code, "handler", at) \in CallOf(stack, Who, TRUE)
        BY <1>1, <1>2, <2>0, <3>1, NewCall
      <3> QED
        BY <3>2 DEF code
    <2>2. x \in CallOf(stack, Who, TRUE)
      <3> DEFINE code == 503
      <3>1. code \in Nat /\ code \in Codes
        BY <1>3
      <3> HIDE DEF code
      <3>2. Call("header", code, "timeout", at) \in CallOf(stack, Who, TRUE)
        BY <1>1, <1>2, <2>0, <3>1, NewCall
      <3> QED
        BY <3>2 DEF code
    <2>3. /\ h.at = Writer(at) /\ ~h.metered /\ h.op = "header" /\ h.arg = Status(tw.resp)
          /\ x.at = Writer(at) /\ ~x.metered /\ x.op = "header" /\ x.arg = 503
      BY DEF Call
    <2> HIDE DEF h, x
    <2> QED
      BY <2>1, <2>2, <2>3 DEF FromBuffer
  <1>8. w \in S /\ y \in S
    <2> DEFINE z == Call("write", tw.resp.bytes, "handler", at)
    <2>1. z \in CallOf(stack, Who, TRUE) /\ y \in CallOf(stack, Who, TRUE)
      BY <1>1, <1>2, NewCall DEF Who
    <2>2. /\ z.at = Writer(at) /\ ~z.metered /\ z.op = "write"
          /\ y.at = Writer(at) /\ ~y.metered /\ y.op = "write" /\ y.src = {"timeout"}
      BY DEF Call
    <2>3. w = [z EXCEPT !.src = tw.resp.src]
      OBVIOUS
    <2> HIDE DEF z, y, w
    <2>4. /\ w \in CallOf(stack, Who, TRUE) /\ w.at = z.at /\ w.metered = z.metered /\ w.op = z.op
          /\ w.src = tw.resp.src
      BY <1>1, <2>1, <2>2, <2>3 DEF CallOf
    <2> QED
      BY <2>1, <2>2, <2>4 DEF FromBuffer
  <1> HIDE DEF S, h, w, x, y
  <1>9. <<h, w>> \in Seq(S) /\ <<x, y>> \in Seq(S) /\ <<x>> \in Seq(S) /\ <<>> \in Seq(S)
    BY <1>7, <1>8, OneCall, TwoCalls, EmptySeq
  <1>10. gor'["serve"].todo \in Seq(S)
    BY <1>4, <1>5, <1>6, <1>9
  <1> QED
    BY <1>10 DEF S, at

\* TimeoutHandler keeps the goroutines and calls at their levels.
LEMMA PlacesTimeout ==
  ASSUME IInv, Places, EnterTimeout \/ Flush \/ Timeout \/ PanicPassed
  PROVE  Places'
  <1>1. stack \in Stacks /\ Len(stack) \in Nat /\ \A i, j \in 1..Len(stack) : stack[i] = stack[j] => i = j
    BY StackFacts DEF IInv, Typed
  <1>2. CASE EnterTimeout
    <2> DEFINE i == gor["serve"].at + 1
    <2>1. /\ stack' = stack /\ i \in 1..Len(stack) /\ stack[i] = "TimeoutHandler"
          /\ gor'["serve"].pc = "wait" /\ gor'["inner"].pc = "enter"
          /\ \A g \in Goroutine : gor'[g].at = i /\ gor'[g].todo = <<>>
      BY <1>2, EnterTimeoutIs
    <2>2. "serve" \in Goroutine /\ "inner" \in Goroutine /\ Goroutine = {"serve", "inner"}
      BY DEF Goroutine
    <2> HIDE DEF i
    <2>3. \A g \in Goroutine : Placed(stack, gor'[g])
      BY <2>1, <2>2, EmptySeq DEF Placed
    <2>4. ASSUME NEW t \in 1..Len(stack), stack[t] = "TimeoutHandler"
          PROVE  /\ gor'["serve"].at <= t /\ (gor'["serve"].at = t => gor'["serve"].pc = "wait")
                 /\ gor'["inner"].todo \in Seq(Between(stack, t, Len(stack)))
      <3>1. t = i
        BY <1>1, <2>1, <2>4
      <3>2. i <= i
        BY <2>1
      <3> QED
        BY <2>1, <2>2, <3>1, <3>2, EmptySeq
    <2> QED
      BY <2>1, <2>3, <2>4 DEF Places, InTime
  <1>3. CASE Flush \/ Timeout \/ PanicPassed
    <2> DEFINE i == gor["serve"].at
               q == gor'["serve"]
    <2>1. /\ stack' = stack /\ i \in 1..Len(stack) /\ stack[i] = "TimeoutHandler"
          /\ q.at = i - 1 /\ q.at \in Level(stack) /\ gor'["inner"] = gor["inner"]
          /\ q.pc \in {"leave", "panic"} /\ (q.pc = "panic" => q.todo = <<>>)
      BY <1>3, WaitedIs
    <2>2. q.todo \in Seq(FromBuffer(q.at))
      BY <1>3, FlushSays
    <2> HIDE DEF i, q
    <2>3. ASSUME NEW c \in FromBuffer(q.at)
          PROVE  c \in Between(stack, 0, q.at)
      <3>1. c \in CallOf(stack, Who, TRUE) /\ c.at = Writer(q.at)
        BY DEF FromBuffer
      <3>2. Writer(q.at) \in 0..q.at
        BY <1>1, <2>1, WriterIs DEF Level
      <3>3. 0 <= c.at /\ c.at <= q.at
        BY <1>1, <2>1, <3>1, <3>2 DEF Level
      <3> QED
        BY <3>1, <3>3 DEF Between
    <2>4. FromBuffer(q.at) \subseteq Between(stack, 0, q.at)
      BY <2>3
    <2>5. q.todo \in Seq(Between(stack, 0, q.at))
      BY <2>2, <2>4, SeqMonotonic
    <2>6. Placed(stack, q)
      BY <2>1, <2>5 DEF Placed
    <2>7. \A g \in Goroutine : Placed(stack, gor'[g])
      BY <2>1, <2>6 DEF Places, Goroutine, q
    <2>8. ASSUME NEW t \in 1..Len(stack), stack[t] = "TimeoutHandler"
          PROVE  /\ q.at <= t /\ (q.at = t => q.pc = "wait")
                 /\ gor'["inner"].todo \in Seq(Between(stack, t, Len(stack)))
      <3>1. t = i
        BY <1>1, <2>1, <2>8
      <3>2. q.at <= t /\ q.at # t
        BY <1>1, <2>1, <3>1
      <3> QED
        BY <2>1, <2>8, <3>2 DEF Places, InTime
    <2> QED
      BY <2>1, <2>7, <2>8 DEF Places, InTime, q
  <1> QED
    BY <1>2, <1>3

\* Goroutines and calls start at their levels.
LEMMA PlacesInit ==
  ASSUME RInit
  PROVE  Places
  <1>1. /\ \A g \in Goroutine : gor[g].at = 0 /\ gor[g].todo = <<>> /\ gor[g].pc \in {"enter", "off"}
        /\ "serve" \in Goroutine /\ "inner" \in Goroutine
    BY DEF RInit, Init, Idle, Goroutine
  <1>2. \A g \in Goroutine : Placed(stack, gor[g])
    BY <1>1, EmptySeq DEF Placed
  <1>3. InTime(stack, gor["serve"], gor["inner"])
    <2>1. gor["inner"].at = 0 /\ gor["serve"].at = 0 /\ gor["inner"].todo = <<>>
      BY <1>1
    <2>2. \A t \in 1..Len(stack) : 0 <= t /\ 0 # t
      OBVIOUS
    <2> QED
      BY <2>1, <2>2, EmptySeq DEF InTime
  <1> QED
    BY <1>2, <1>3 DEF Places

\* They stay there.
LEMMA PlacesKept ==
  ASSUME IInv, IInv', Places, [RNext]_rvars
  PROVE  Places'
  <1>1. CASE UNCHANGED <<stack, gor, conn, tw, custom, metrics, logged, reg>>
    BY <1>1 DEF Places
  <1>2. Refusals \subseteq Codes
    BY DEF Refusals, Codes
  <1>3. ASSUME NEW g \in Goroutine, Turn(g, Refusals) \/ Turn(g, Codes)
        PROVE  Places'
    BY <1>2, <1>3, PlacesTurn
  <1> QED
    BY <1>1, <1>3, StepIs, PlacesCall, PlacesTimeout

-----------------------------------------------------------------------------
(* Logging: what it logs is what was sent. *)

\* What is further out than Logging has no hooks.
LEMMA LoggingOuter ==
  ASSUME stack \in Stacks, NEW l \in 1..Len(stack), LogsAll(stack, l)
  PROVE  /\ Wrapped(l) /\ Writer(l - 1) = 0 /\ l \in Nat /\ l > 0
         /\ \A i \in 1..Len(stack) : stack[i] = "Logging" => i = l
         /\ \A i \in 1..Len(stack) : stack[i] = "TimeoutHandler" => l < i
  <1>1. /\ Len(stack) \in Nat /\ l \in Nat /\ l > 0 /\ l - 1 \in Nat
        /\ \A i, j \in 1..Len(stack) : stack[i] = stack[j] => i = j
    BY StackFacts
  <1>2. /\ stack[l] = "Logging"
        /\ \A i \in 1..l : stack[i] \notin {"TimeoutHandler", "CustomErrors", "LimitResponseBodyBytes"}
    BY DEF LogsAll
  <1>3. Wrapped(l)
    BY <1>2 DEF Wrapped
  <1>4. \A i \in 1..Len(stack) : stack[i] = "Logging" => i = l
    BY <1>1, <1>2
  <1>5. ASSUME NEW k \in 1..(l - 1)
        PROVE  ~Wrapped(k)
    <2>1. k \in 1..l /\ k \in 1..Len(stack) /\ k # l /\ k # 0
      BY <1>1
    <2> QED
      BY <1>2, <1>4, <2>1 DEF Wrapped
  <1>6. Writer(l - 1) = 0
    BY <1>1, <1>5, WriterZero
  <1>7. ASSUME NEW i \in 1..Len(stack), stack[i] = "TimeoutHandler"
        PROVE  l < i
    <2>1. ~(i \in 1..l)
      BY <1>2, <1>7
    <2> QED
      BY <1>1, <2>1
  <1> QED
    BY <1>1, <1>3, <1>4, <1>6, <1>7

\* What is said inside of Logging comes to it.
LEMMA SaidAbove ==
  ASSUME stack \in Stacks, NEW r, NEW q, NEW C, C \subseteq Codes, Says(r, q, C),
         NEW l \in 1..Len(stack), Wrapped(l), q.at \in Level(stack),
         q.todo # <<>> => l <= q.at
  PROVE  q.todo \in Seq(Above(stack, l))
  <1> DEFINE S == Above(stack, l)
  <1>0. C \subseteq Nat
    BY DEF Codes
  <1>1. {200, 404, 500} \cup C \subseteq Codes
    BY DEF Codes
  <1>2. Len(stack) \in Nat /\ q.at \in Nat /\ l \in Nat
    BY StackFacts DEF Level
  <1>3. CASE q.todo = <<>>
    BY <1>3, EmptySeq
  <1>4. CASE q.todo # <<>>
    <2>1. Writer(q.at) >= l
      <3>1. l \in 0..q.at
        BY <1>2, <1>4
      <3> QED
        BY <1>2, <3>1, WriterAbove
    <2>2. ASSUME NEW op \in {"header", "write", "copy"}, NEW arg \in Nat,
                 NEW src \in {"handler", "refusal", "recover"},
                 op = "header" => arg \in {200, 404, 500} \cup C
          PROVE  Call(op, arg, src, q.at) \in S
      <3> DEFINE at == q.at
                 c == Call(op, arg, src, at)
      <3>1. /\ op \in {"header", "write", "copy", "handled"} /\ at \in Level(stack) /\ src \in Who
            /\ op = "header" => arg \in Codes
        BY <1>1, <2>2 DEF Who
      <3>2. c.at >= l /\ ~c.metered
        BY <2>1 DEF Call
      <3> HIDE DEF at
      <3>3. c \in CallOf(stack, Who, TRUE)
        BY <3>1, NewCall
      <3> HIDE DEF c
      <3>4. c \in Above(stack, l)
        BY <3>2, <3>3 DEF Above
      <3> QED
        BY <3>4 DEF at, c
    <2> HIDE DEF S
    <2>3. Hears(S, C, q.at)
      BY <2>2 DEF Hears
    <2>4. q.todo \in Seq(S)
      BY <1>0, <2>3, SaysIn
    <2> QED
      BY <2>4 DEF S
  <1> QED
    BY <1>3, <1>4

\* What httpsnoop has when no call is on its way.
LEMMA Measures ==
  ASSUME NEW l, Metered(l, <<>>)
  PROVE  Counts(conn)
  BY DEF Metered

\* A turn of inner, which is further in.
LEMMA LogInnerTurn ==
  ASSUME IInv, IInv', Places, NEW C, C \subseteq Codes, Turn("inner", C),
         NEW l \in 1..Len(stack), LogsAll(stack, l), LogAt(l)
  PROVE  LogAt(l)'
  <1> DEFINE q == gor'["inner"]
  <1>1. /\ stack \in Stacks /\ stack' = stack /\ "inner" \in Goroutine /\ "serve" \in Goroutine
        /\ Says(gor["inner"], q, C) /\ UNCHANGED <<metrics, conn>>
        /\ (logged' = logged \/ Log("inner")) /\ Len(stack) \in Nat
    BY StackFacts DEF IInv, Typed, Turn, Goroutine
  <1>2. /\ gor["inner"].pc # "off" /\ q.pc # "off" /\ q.at \in Level(stack)
        /\ gor'["serve"] = gor["serve"]
    BY <1>1, TurnMoves
  <1>3. Control(stack, gor["serve"], gor["inner"], tw.err)
    BY DEF IInv, Shape
  <1>4. Control(stack, gor'["serve"], q, tw'.err)
    BY <1>1 DEF IInv, Shape
  <1>5. PICK t \in 1..Len(stack) : stack[t] = "TimeoutHandler" /\ gor["inner"].at >= t
    BY <1>2, <1>3 DEF Control
  <1>6. q.at >= t
    BY <1>1, <1>2, <1>4, <1>5, InnerInside
  <1>7. /\ Wrapped(l) /\ l < t /\ \A i \in 1..Len(stack) : stack[i] = "Logging" => i = l
    BY <1>1, <1>5, LoggingOuter
  <1>8. logged' = logged
    <2>1. CASE Log("inner")
      <3>1. gor["inner"].at \in 1..Len(stack) /\ stack[gor["inner"].at] = "Logging"
        BY <1>1, <2>1 DEF Log, Ready, IInv, Shape, AtLevel
      <3>2. gor["inner"].at = l
        BY <1>7, <3>1
      <3> QED
        BY <1>1, <1>5, <1>7, <3>2
    <2> QED
      BY <1>1, <2>1
  <1>9. l <= q.at
    BY <1>1, <1>2, <1>5, <1>6, <1>7 DEF Level
  <1>10. q.todo \in Seq(Above(stack, l))
    BY <1>1, <1>2, <1>7, <1>9, SaidAbove
  <1> HIDE DEF q
  <1>11. Metered(l, gor["serve"].todo) => Metered(l, gor["serve"].todo)'
    BY <1>1, <1>2 DEF Metered, Counts
  <1> QED
    BY <1>1, <1>2, <1>8, <1>10, <1>11 DEF LogAt, LogTrue, q

\* A turn of serve: in touch with Logging it sends nothing by itself, then it logs,
\* and further out it only ends.
LEMMA LogServeTurn ==
  ASSUME IInv, IInv', Places, NEW C, C \subseteq Codes, Turn("serve", C),
         NEW l \in 1..Len(stack), LogsAll(stack, l), LogAt(l)
  PROVE  LogAt(l)'
  <1> DEFINE r == gor["serve"]
             q == gor'["serve"]
  <1>1. /\ stack \in Stacks /\ stack' = stack /\ "inner" \in Goroutine /\ "serve" \in Goroutine
        /\ Says(r, q, C) /\ metrics' = metrics /\ (conn' = conn \/ ServeEnds)
        /\ (logged' = logged \/ Log("serve")) /\ Len(stack) \in Nat /\ r.todo = <<>>
        /\ AnyMove(stack, Base("serve"), "serve", r, q)
    BY StackFacts DEF IInv, Typed, Turn, Goroutine
  <1>2. /\ r.at \in Level(stack) /\ q.at \in Level(stack)
        /\ \/ q.at = r.at + 1 /\ r.pc \in {"enter", "creating"} /\ q.pc \in {"enter", "sleep"}
           \/ q.at = r.at /\ (q.pc \in Inbound => r.pc \in Inbound)
           \/ /\ q.at = r.at - 1
              /\ q.pc \in {"leave", "panic"} /\ r.pc \in {"leave", "consuming", "panic"}
        /\ gor'["inner"] = gor["inner"]
    BY <1>1, TurnMoves
  <1>3. /\ Wrapped(l) /\ l \in Nat /\ l > 0
        /\ \A i \in 1..Len(stack) : stack[i] = "Logging" => i = l
    BY <1>1, LoggingOuter
  <1>4. gor'["inner"].todo \in Seq(Above(stack, l))
    BY <1>2 DEF LogAt
  <1>5. Log("serve") =>
          /\ r.pc = "consuming" /\ r.at = l /\ q.pc = "leave" /\ q.at = l - 1 /\ q.todo = <<>>
          /\ logged' = Append(logged, Fields) /\ conn' = conn
    <2> SUFFICES ASSUME Log("serve")
                 PROVE  /\ r.pc = "consuming" /\ r.at = l /\ q.pc = "leave" /\ q.at = l - 1
                        /\ q.todo = <<>> /\ logged' = Append(logged, Fields) /\ conn' = conn
      OBVIOUS
    <2>1. /\ r.pc = "consuming" /\ GoesOn("serve", "leave", r.at - 1, <<>>)
          /\ logged' = Append(logged, Fields) /\ conn' = conn
      BY DEF Log, Ready
    <2>2. r.at \in 1..Len(stack) /\ stack[r.at] = "Logging"
      BY <1>1, <2>1 DEF IInv, Shape, AtLevel
    <2>3. q.pc = "leave" /\ q.at = r.at - 1 /\ q.todo = <<>>
      BY <1>1, <2>1, GoneOn DEF IInv
    <2> QED
      BY <1>3, <2>1, <2>2, <2>3
  <1>6. ServeEnds => r.pc = "leave" /\ r.at = 0 /\ q.pc = "ended" /\ q.at = 0
    <2> SUFFICES ASSUME ServeEnds
                 PROVE  r.pc = "leave" /\ r.at = 0 /\ q.pc = "ended" /\ q.at = 0
      OBVIOUS
    <2>1. r.pc = "leave" /\ r.at = 0 /\ GoesOn("serve", "ended", 0, <<>>)
      BY DEF ServeEnds, Ready
    <2> QED
      BY <1>1, <2>1, GoneOn DEF IInv
  <1>7. q.todo # <<>> => q.pc \in {"handler", "leave"}
    BY <1>1 DEF Says
  <1>8. ASSUME InTouch(l, q)
        PROVE  logged' = <<>> /\ metrics'.Written = conn'.bytes /\ Metered(l, gor["serve"].todo)'
    <2>1. InTouch(l, r)
      BY <1>1, <1>2, <1>3, <1>8 DEF InTouch, Inbound, Level
    <2>2. logged = <<>> /\ metrics.Written = conn.bytes /\ Counts(conn)
      BY <1>1, <2>1, Measures DEF LogAt
    <2>3. ~Log("serve") /\ ~ServeEnds
      BY <1>3, <1>5, <1>6, <1>8, <2>1 DEF InTouch, Inbound
    <2>4. conn' = conn /\ logged' = logged
      BY <1>1, <2>3
    <2>5. q.todo # <<>> => l <= q.at
      BY <1>2, <1>3, <1>7, <1>8 DEF InTouch, Inbound, Level
    <2>6. q.todo \in Seq(Above(stack, l))
      BY <1>1, <1>2, <1>3, <2>5, SaidAbove
    <2> HIDE DEF q, r
    <2> QED
      BY <1>1, <2>2, <2>4, <2>6 DEF Metered, Counts, q
  <1>9. ASSUME logged' # <<>>
        PROVE  LogTrue(l, gor["serve"])'
    <2>1. CASE Log("serve")
      <3>1. InTouch(l, r)
        BY <1>3, <1>5, <2>1 DEF InTouch
      <3>2. logged = <<>> /\ metrics.Written = conn.bytes /\ Counts(conn)
        BY <1>1, <3>1, Measures DEF LogAt
      <3>3. /\ Len(logged') = 1 /\ logged'[1] = Fields
        BY <1>5, <2>1, <3>2
      <3>4. Fields.status = metrics.Code /\ Fields.body_bytes_sent = metrics.Written
        BY DEF Fields, Predefined
      <3>5. q.at < l
        BY <1>3, <1>5, <2>1
      <3> QED
        BY <1>5, <2>1, <3>2, <3>3, <3>4, <3>5 DEF LogTrue, Counts, Status
    <2>2. CASE ~Log("serve")
      <3>1. logged' = logged
        BY <1>1, <2>2
      <3>2. /\ r.pc \in {"leave", "ended"} /\ r.at < l /\ Len(logged) = 1
            /\ logged[1].status = Status(conn) /\ logged[1].body_bytes_sent = conn.bytes
        BY <1>9, <3>1 DEF LogAt, LogTrue
      <3>3. GoesOut(stack, Base("serve"), r, q)
        BY <1>1, <3>2 DEF AnyMove, Move, Writes, GoesIn, Refused, Sleeps, Wakes, Handles, Panics
      <3>4. q.todo = <<>> /\ q.pc \in {"leave", "ended"} /\ q.at \in {r.at, r.at - 1}
        BY <1>1, <1>3, <3>2, <3>3 DEF GoesOut
      <3>5. q.at < l
        BY <1>2, <1>3, <3>2, <3>4 DEF Level
      <3>6. Status(conn') = Status(conn) /\ conn'.bytes = conn.bytes
        BY <1>1 DEF Status, ServeEnds, IInv, Typed, Answer
      <3> QED
        BY <3>1, <3>2, <3>4, <3>5, <3>6 DEF LogTrue
    <2> QED
      BY <2>1, <2>2
  <1> HIDE DEF q, r
  <1> QED
    BY <1>1, <1>4, <1>8, <1>9 DEF LogAt, q

\* A call that is made before the others.
LEMMA PutFirst ==
  ASSUME NEW c, NEW S, NEW u \in Seq(S)
  PROVE  <<c>> \o u # <<>> /\ Head(<<c>> \o u) = c /\ Tail(<<c>> \o u) = u
  <1> DEFINE R == S \cup {c}
             d == <<c>>
  <1>1. d \in Seq(R) /\ Len(d) = 1 /\ d[1] = c /\ u \in Seq(R)
    BY SeqMonotonic
  <1> HIDE DEF R, d
  <1>2. /\ d \o u \in Seq(R) /\ Len(d \o u) = Len(d) + Len(u)
        /\ \A i \in 1..(Len(d) + Len(u)) : (d \o u)[i] = IF i <= Len(d) THEN d[i] ELSE u[i - Len(d)]
    BY <1>1, ConcatProperties, Zenon
  <1>3. Len(u) \in Nat
    BY <1>1, LenProperties
  <1>4. /\ Len(d \o u) = 1 + Len(u) /\ (d \o u)[1] = c
        /\ \A i \in 1..Len(u) : (d \o u)[i + 1] = u[i]
    BY <1>1, <1>2, <1>3
  <1>5. d \o u # <<>>
    BY <1>3, <1>4
  <1>6. /\ Head(d \o u) = (d \o u)[1] /\ Tail(d \o u) \in Seq(R) /\ Len(Tail(d \o u)) = Len(d \o u) - 1
        /\ \A i \in 1..Len(Tail(d \o u)) : Tail(d \o u)[i] = (d \o u)[i + 1]
    BY <1>2, <1>5, HeadTailProperties
  <1>7. Len(Tail(d \o u)) = Len(u)
    BY <1>3, <1>4, <1>6
  <1>8. \A i \in 1..Len(u) : Tail(d \o u)[i] = u[i]
    BY <1>4, <1>6, <1>7
  <1>9. Tail(d \o u) = u
    BY <1>1, <1>6, <1>7, <1>8, SeqEqual
  <1> QED
    BY <1>4, <1>5, <1>6, <1>9 DEF d

\* A call of inner is not measured, and does not get to the connection.
LEMMA LogInnerCall ==
  ASSUME IInv, Places, WriterCall("inner"),
         NEW l \in 1..Len(stack), LogsAll(stack, l), LogAt(l)
  PROVE  LogAt(l)'
  <1> DEFINE e == Head(gor["inner"].todo)
             todo == gor["inner"].todo
             S == Above(stack, l)
  <1>0. "inner" \in Goroutine /\ "serve" \in Goroutine
    BY DEF Goroutine
  <1>1. /\ stack' = stack /\ todo # <<>> /\ gor'["serve"] = gor["serve"]
        /\ gor'["inner"].pc = gor["inner"].pc
    BY <1>0, CalledIs
  <1>2. PICK calls \in Seq(After(e)) :
           /\ gor'["inner"].todo = calls \o Tail(todo)
           /\ calls # <<>> => e.at \in 1..Len(stack) /\ stack[e.at] # "TimeoutHandler"
    BY <1>0, CalledIs
  <1>3. /\ Typed /\ stack \in Stacks /\ Len(stack) \in Nat /\ e.at \in Nat /\ e.at <= Len(stack)
    BY <1>0, <1>1, FirstIs DEF IInv, Typed
  <1>4. /\ Wrapped(l) /\ l \in Nat /\ l > 0
        /\ \A i \in 1..Len(stack) : stack[i] = "Logging" => i = l
        /\ \A i \in 1..Len(stack) : stack[i] = "TimeoutHandler" => l < i
    BY <1>3, LoggingOuter
  <1>5. todo \in Seq(S) /\ e \in S
    BY <1>1, Replaced, EmptySeq DEF LogAt
  <1>6. PICK t \in 1..Len(stack) : stack[t] = "TimeoutHandler" /\ todo \in Seq(Between(stack, t, Len(stack)))
    <2>1. gor["inner"].pc # "off"
      BY <1>0, <1>1 DEF Places, Placed
    <2>2. PICK t \in 1..Len(stack) : stack[t] = "TimeoutHandler"
      BY <2>1 DEF IInv, Shape, Control
    <2> QED
      BY <2>2 DEF Places, InTime
  <1>7. t <= e.at /\ l < t
    <2>1. e \in Between(stack, t, Len(stack))
      BY <1>1, <1>6, Replaced, EmptySeq
    <2> HIDE DEF e
    <2>2. t <= e.at
      BY <2>1 DEF Between
    <2> QED
      BY <1>4, <1>6, <2>2
  <1>8. ~e.metered /\ l <= e.at
    <2> HIDE DEF e
    <2> QED
      BY <1>5 DEF Above
  <1>9. ~LoggingCall("inner")
    <2>1. ASSUME LoggingCall("inner") PROVE FALSE
      <3>1. e.at \in 1..Len(stack) /\ stack[e.at] = "Logging"
        BY <1>0, <2>1, HookIs DEF LoggingCall
      <3>2. e.at = l
        BY <1>4, <3>1
      <3> HIDE DEF e
      <3> QED
        BY <1>3, <1>4, <1>7, <3>2
    <2> QED
      BY <2>1
  <1>10. UNCHANGED <<metrics, conn, logged>>
    <2>1. CASE BufferCall
      <3>1. Measured(e, ~tw.err) /\ UNCHANGED <<conn, logged>>
        BY <2>1, BufferIs
      <3>2. metrics' = metrics
        <4> HIDE DEF e
        <4> QED
          BY <1>8, <3>1 DEF Measured
      <3> QED
        BY <3>1, <3>2
    <2>2. CASE LimitCall("inner") \/ CustomCall("inner")
      BY <2>2 DEF LimitCall, CustomCall
    <2> QED
      BY <1>9, <2>1, <2>2 DEF WriterCall
  <1>11. calls \o Tail(todo) \in Seq(S)
    <2> HIDE DEF e
    <2>1. ASSUME calls # <<>>, NEW c \in After(e)
          PROVE  c \in S
      <3>1. e.at \in 1..Len(stack) /\ stack[e.at] # "Logging" /\ l \in 0..(e.at - 1)
        BY <1>2, <1>3, <1>4, <1>7, <2>1
      <3>2. c \in CallOf(stack, Who, TRUE) /\ ~c.metered /\ l <= c.at
        BY <1>4, <1>8, <3>1 DEF After
      <3>3. c.at \in Level(stack)
        BY <3>2, CallFields
      <3>4. c.at >= l
        BY <1>3, <1>4, <3>2, <3>3 DEF Level
      <3> QED
        BY <3>2, <3>4 DEF Above
    <2>2. calls # <<>> => After(e) \subseteq S
      BY <2>1
    <2> HIDE DEF S, todo
    <2> QED
      BY <1>1, <1>5, <2>2, CalledIn
  <1> HIDE DEF e, todo, S
  <1>12. Metered(l, gor["serve"].todo) => Metered(l, gor["serve"].todo)'
    BY <1>1, <1>10 DEF Metered, Counts
  <1> QED
    BY <1>1, <1>2, <1>10, <1>11, <1>12 DEF LogAt, LogTrue, S

\* A call of serve comes to Logging, which counts it and passes it on to the
\* connection; or it gets there.
LEMMA LogServeCall ==
  ASSUME IInv, Places, WriterCall("serve"),
         NEW l \in 1..Len(stack), LogsAll(stack, l), LogAt(l)
  PROVE  LogAt(l)'
  <1> DEFINE todo == gor["serve"].todo
             e == Head(todo)
             S == Above(stack, l)
  <1>0. "inner" \in Goroutine /\ "serve" \in Goroutine /\ "inner" # "serve"
    BY DEF Goroutine
  <1>1. /\ stack' = stack /\ todo # <<>> /\ gor'["inner"] = gor["inner"]
        /\ gor'["serve"].pc = gor["serve"].pc /\ gor'["serve"].at = gor["serve"].at
    BY <1>0, CalledIs
  <1>2. PICK calls \in Seq(After(e)) :
           /\ gor'["serve"].todo = calls \o Tail(todo)
           /\ calls # <<>> => e.at \in 1..Len(stack) /\ stack[e.at] # "TimeoutHandler"
    BY <1>0, CalledIs
  <1>3. /\ Typed /\ stack \in Stacks /\ Len(stack) \in Nat /\ e.at \in Nat /\ e.at <= Len(stack)
        /\ e \in CallOf(stack, Who, TRUE) /\ todo \in Seq(CallOf(stack, Who, TRUE))
    BY <1>0, <1>1, FirstIs DEF IInv, Typed
  <1>4. /\ Wrapped(l) /\ l \in Nat /\ l > 0 /\ Writer(l - 1) = 0
        /\ \A i \in 1..Len(stack) : stack[i] = "Logging" => i = l
    BY <1>3, LoggingOuter
  <1>5. logged = <<>> /\ logged' = logged
    <2>1. logged = <<>>
      BY <1>1 DEF LogAt, LogTrue
    <2> QED
      BY <2>1 DEF WriterCall, ConnCall, BufferCall, LimitCall, LoggingCall, CustomCall
  <1>6. InTouch(l, gor'["serve"]) => InTouch(l, gor["serve"])
    BY <1>1 DEF InTouch
  <1>7. SUFFICES ASSUME InTouch(l, gor["serve"]), metrics.Written = conn.bytes, Metered(l, todo)
                 PROVE  metrics'.Written = conn'.bytes /\ Metered(l, gor["serve"].todo)'
    <2>1. InTouch(l, gor["serve"]) => metrics.Written = conn.bytes /\ Metered(l, todo)
      BY DEF LogAt
    <2>2. gor'["inner"].todo \in Seq(Above(stack, l))
      BY <1>1 DEF LogAt
    <2> QED
      BY <1>1, <1>5, <1>6, <1>7, <2>1, <2>2 DEF LogAt
  <1>8. ASSUME todo \in Seq(S), Counts(conn)
        PROVE  metrics'.Written = conn'.bytes /\ Metered(l, gor["serve"].todo)'
    <2>1. e \in S /\ Tail(todo) \in Seq(S)
      BY <1>1, <1>8, HeadTailProperties
    <2>2. e.at >= l
      <3> HIDE DEF e
      <3> QED
        BY <2>1 DEF Above
    <2>3. ~e.metered
      <3> HIDE DEF e
      <3> QED
        BY <2>1 DEF Above
    <2>4. CASE LimitCall("serve") \/ CustomCall("serve")
      <3>1. UNCHANGED <<conn, metrics>>
        BY <2>4 DEF LimitCall, CustomCall
      <3>2. e.at \in 1..Len(stack) /\ stack[e.at] # "Logging"
        <4>1. PICK m \in {"LimitResponseBodyBytes", "CustomErrors"} : Calls("serve", m)
          BY <2>4 DEF LimitCall, CustomCall
        <4>2. e.at \in 1..Len(stack) /\ stack[e.at] = m
          BY <1>0, <4>1, HookIs
        <4> QED
          BY <4>1, <4>2
      <3>3. e.at # l
        BY <3>2 DEF LogsAll
      <3> HIDE DEF e
      <3>4. ASSUME NEW c \in After(e)
            PROVE  c \in S
        <4>1. l \in 0..(e.at - 1)
          BY <1>3, <1>4, <2>2, <3>3
        <4>2. c \in CallOf(stack, Who, TRUE) /\ ~c.metered /\ l <= c.at
          BY <1>4, <2>3, <3>2, <4>1 DEF After
        <4>3. c.at \in Level(stack)
          BY <4>2, CallFields
        <4>4. c.at >= l
          BY <1>3, <1>4, <4>2, <4>3 DEF Level
        <4> QED
          BY <4>2, <4>4 DEF Above
      <3>5. After(e) \subseteq S
        BY <3>4
      <3>6. calls \o Tail(todo) \in Seq(S)
        <4> HIDE DEF S, todo
        <4> QED
          BY <1>1, <1>8, <3>5, CalledIn
      <3> QED
        BY <1>1, <1>2, <1>7, <1>8, <3>1, <3>6 DEF Metered, Counts
    <2>5. CASE LoggingCall("serve")
      <3>1. /\ Calls("serve", "Logging") /\ conn' = conn
            /\ \E c : Down(e, c) /\ c.metered /\ c.arg = e.arg /\ Becomes("serve", <<c>>)
            /\ metrics' = [metrics EXCEPT
                 !.Code = IF e.op = "header" /\ ~metrics.headerWritten THEN e.arg ELSE @,
                 !.headerWritten = TRUE]
        BY <1>0, <2>5, LoggingIs
      <3>2. PICK c : Down(e, c) /\ c.metered /\ c.arg = e.arg /\ Becomes("serve", <<c>>)
        BY <3>1
      <3>3. e.at \in 1..Len(stack) /\ stack[e.at] = "Logging"
        BY <1>0, <3>1, HookIs
      <3>4. e.at = l
        BY <1>4, <3>3
      <3>5. gor'["serve"].todo = <<c>> \o Tail(todo)
        BY <1>0, <1>3, <3>1, <3>2, BecomesTodo DEF Calls
      <3>6. /\ c.at = 0 /\ c.op = e.op
        BY <1>4, <3>2, <3>4 DEF Down
      <3>7. /\ <<c>> \o Tail(todo) # <<>> /\ Head(<<c>> \o Tail(todo)) = c
            /\ Tail(<<c>> \o Tail(todo)) = Tail(todo)
        <4> DEFINE u == Tail(todo)
        <4>1. u \in Seq(S)
          BY <2>1
        <4> HIDE DEF u
        <4>2. /\ <<c>> \o u # <<>> /\ Head(<<c>> \o u) = c /\ Tail(<<c>> \o u) = u
          BY <4>1, PutFirst
        <4> QED
          BY <4>2 DEF u
      <3>8. e.arg \in Codes \/ e.op # "header"
        <4> HIDE DEF e
        <4> QED
          BY <1>3, CallFields
      <3>9. /\ metrics'.Code = (IF e.op = "header" /\ ~metrics.headerWritten THEN e.arg ELSE metrics.Code)
            /\ metrics'.headerWritten = TRUE /\ metrics'.Written = metrics.Written
        BY <1>3, <3>1 DEF Typed
      <3>10. /\ Status(Sent(conn, c)) = metrics'.Code /\ Sent(conn, c).status # 0
        <4>1. /\ conn.status \in Codes \cup {0} /\ metrics.Code = Status(conn)
              /\ metrics.headerWritten = (conn.status # 0)
          BY <1>3, <1>8 DEF Typed, Answer, Counts
        <4>2. Sent(conn, c).status = IF conn.status = 0 THEN (IF c.op = "header" THEN c.arg ELSE 200)
                                     ELSE conn.status
          BY <1>3 DEF Sent, Typed, Answer
        <4> HIDE DEF e
        <4>3. CASE conn.status = 0
          <5>1. ~metrics.headerWritten /\ metrics.Code = 200
            BY <4>1, <4>3 DEF Status
          <5>2. Sent(conn, c).status = metrics'.Code
            BY <3>2, <3>6, <3>9, <4>2, <4>3, <5>1
          <5>3. metrics'.Code # 0
            BY <3>8, <3>9, <5>1 DEF Codes
          <5> QED
            BY <5>2, <5>3 DEF Status
        <4>4. CASE conn.status # 0
          <5>1. metrics.headerWritten /\ metrics.Code = conn.status
            BY <4>1, <4>4 DEF Status
          <5> QED
            BY <3>9, <4>2, <4>4, <5>1 DEF Status
        <4> QED
          BY <4>3, <4>4
      <3>11. /\ gor'["serve"].todo # <<>> /\ Head(gor'["serve"].todo) = c
             /\ Tail(gor'["serve"].todo) \in Seq(Above(stack, l))
        BY <2>1, <3>5, <3>7
      <3> QED
        BY <1>1, <1>7, <3>1, <3>2, <3>6, <3>9, <3>10, <3>11 DEF Metered, Counts
    <2>6. ~ConnCall
      <3>1. ConnCall => e.at = 0
        BY DEF ConnCall
      <3> QED
        BY <1>4, <2>2, <3>1
    <2> QED
      BY <1>0, <2>4, <2>5, <2>6 DEF WriterCall
  <1>9. ASSUME e.at = 0, e.metered, Tail(todo) \in Seq(S), Counts(Sent(conn, e))
        PROVE  metrics'.Written = conn'.bytes /\ Metered(l, gor["serve"].todo)'
    <2>1. ConnCall
      <3>1. \A m : ~Calls("serve", m)
        BY <1>9 DEF Calls
      <3> QED
        BY <1>0, <3>1 DEF WriterCall, LimitCall, LoggingCall, CustomCall
    <2>2. conn' = Sent(conn, e) /\ Measured(e, TRUE) /\ gor'["serve"].todo = Tail(todo)
      BY <2>1, ConnIs
    <2>3. /\ metrics'.Code = metrics.Code /\ metrics'.headerWritten = metrics.headerWritten
          /\ metrics'.Written = IF e.op # "header" THEN metrics.Written + e.arg ELSE metrics.Written
      BY <1>3, <1>9, <2>2 DEF Measured, Typed
    <2>4. conn'.bytes = IF e.op # "header" THEN conn.bytes + e.arg ELSE conn.bytes
      BY <1>3, <2>2 DEF Sent, Typed, Answer
    <2>5. metrics'.Written = conn'.bytes
      BY <1>7, <2>3, <2>4
    <2> HIDE DEF e
    <2>6. Counts(conn)'
      BY <1>9, <2>2, <2>3 DEF Counts, Status
    <2>7. gor'["serve"].todo \in Seq(Above(stack, l))
      BY <1>9, <2>2
    <2> QED
      BY <1>1, <2>5, <2>6, <2>7 DEF Metered
  <1> QED
    BY <1>7, <1>8, <1>9 DEF Metered

\* TimeoutHandler is further in, and calls Logging with what it sends.
LEMMA LogTimeout ==
  ASSUME IInv, EnterTimeout \/ Flush \/ Timeout \/ PanicPassed,
         NEW l \in 1..Len(stack), LogsAll(stack, l), LogAt(l)
  PROVE  LogAt(l)'
  <1>1. stack \in Stacks /\ Len(stack) \in Nat
    BY StackFacts DEF IInv, Typed
  <1>2. /\ Wrapped(l) /\ l \in Nat /\ l > 0
        /\ \A i \in 1..Len(stack) : stack[i] = "TimeoutHandler" => l < i
    BY <1>1, LoggingOuter
  <1>3. CASE EnterTimeout
    <2>1. /\ UNCHANGED <<stack, conn, metrics, logged>> /\ gor["serve"].pc = "enter"
          /\ gor["serve"].todo = <<>> /\ gor'["serve"].todo = <<>> /\ gor'["inner"].todo = <<>>
      BY <1>3, EnterTimeoutIs DEF Goroutine
    <2>2. InTouch(l, gor["serve"])
      BY <2>1 DEF InTouch, Inbound
    <2>3. logged = <<>> /\ metrics.Written = conn.bytes /\ Counts(conn)
      BY <2>1, <2>2, Measures DEF LogAt
    <2> QED
      BY <2>1, <2>3, EmptySeq DEF LogAt, Metered, Counts
  <1>4. CASE Flush \/ Timeout \/ PanicPassed
    <2> DEFINE q == gor'["serve"]
    <2>1. /\ UNCHANGED <<stack, conn, metrics, logged>> /\ gor["serve"].todo = <<>>
          /\ gor["serve"].at \in 1..Len(stack) /\ stack[gor["serve"].at] = "TimeoutHandler"
          /\ q.at = gor["serve"].at - 1 /\ q.at \in Level(stack) /\ gor'["inner"] = gor["inner"]
      BY <1>4, WaitedIs
    <2>2. l < gor["serve"].at
      BY <1>2, <2>1
    <2>3. InTouch(l, gor["serve"])
      BY <1>1, <1>2, <2>1, <2>2 DEF InTouch
    <2>4. logged = <<>> /\ metrics.Written = conn.bytes /\ Counts(conn)
      BY <2>1, <2>3, Measures DEF LogAt
    <2>5. q.todo \in Seq(FromBuffer(q.at))
      BY <1>4, FlushSays
    <2> HIDE DEF q
    <2>6. ASSUME NEW c \in FromBuffer(q.at)
          PROVE  c \in Above(stack, l)
      <3>1. c \in CallOf(stack, Who, TRUE) /\ c.at = Writer(q.at) /\ ~c.metered
        BY DEF FromBuffer
      <3>2. l \in 0..q.at /\ q.at \in Nat
        BY <1>1, <1>2, <2>1, <2>2 DEF Level
      <3>3. Writer(q.at) >= l
        BY <1>2, <3>2, WriterAbove
      <3> QED
        BY <3>1, <3>3 DEF Above
    <2>7. FromBuffer(q.at) \subseteq Above(stack, l)
      BY <2>6
    <2>8. q.todo \in Seq(Above(stack, l))
      BY <2>5, <2>7, SeqMonotonic
    <2> QED
      BY <2>1, <2>4, <2>8 DEF LogAt, Metered, Counts, q
  <1> QED
    BY <1>3, <1>4

\* An answer that ended has a status.
LEMMA EndedHasStatus ==
  ASSUME IInv, Places, [RNext]_rvars, gor["serve"].pc = "ended" => conn.status # 0
  PROVE  gor'["serve"].pc = "ended" => conn'.status # 0
  <1>1. "serve" \in Goroutine /\ "inner" \in Goroutine /\ Goroutine = {"serve", "inner"}
    BY DEF Goroutine
  <1>2. ASSUME NEW g \in Goroutine, WriterCall(g), gor'["serve"].pc = "ended"
        PROVE  conn'.status # 0
    <2>1. gor[g].todo # <<>> /\ gor'["serve"].pc = gor["serve"].pc
      BY <1>1, <1>2, CalledIs
    <2>2. gor[g].pc \in {"handler", "leave"}
      BY <2>1 DEF Places, Placed
    <2>3. g = "inner"
      BY <1>1, <1>2, <2>1, <2>2
    <2>4. conn' = conn
      BY <1>2, <2>3, BufferIs DEF WriterCall, LimitCall, LoggingCall, CustomCall
    <2> QED
      BY <1>2, <2>1, <2>4
  <1>3. ASSUME NEW g \in Goroutine, NEW C, Turn(g, C), gor'["serve"].pc = "ended"
        PROVE  conn'.status # 0
    <2>1. CASE ServeEnds
      BY <2>1 DEF ServeEnds, IInv, Typed, Answer
    <2>2. CASE ~ServeEnds
      <3>1. g = "inner" /\ conn' = conn
        BY <1>1, <1>3, <2>2 DEF Turn
      <3>2. gor'["serve"] = gor["serve"]
        BY <1>1, <1>3, <3>1 DEF Turn, Alone
      <3> QED
        BY <1>3, <3>1, <3>2
    <2> QED
      BY <2>1, <2>2
  <1>4. CASE EnterTimeout \/ Flush \/ Timeout \/ PanicPassed
    <2>1. gor'["serve"].pc \in {"wait", "leave", "panic"}
      BY <1>4, EnterTimeoutIs, WaitedIs
    <2> QED
      BY <2>1
  <1>5. CASE UNCHANGED <<stack, gor, conn, tw, custom, metrics, logged, reg>>
    BY <1>5
  <1> QED
    BY <1>2, <1>3, <1>4, <1>5, StepIs

\* Nothing is sent and nothing logged at the start.
LEMMA LogInit ==
  ASSUME RInit
  PROVE  LogInv
  <1>1. /\ \A g \in Goroutine : gor[g].todo = <<>> /\ gor[g].pc \in {"enter", "off"}
        /\ "serve" \in Goroutine /\ "inner" \in Goroutine
        /\ logged = <<>> /\ metrics.Written = 0 /\ conn.bytes = 0 /\ conn.status = 0
        /\ metrics.Code = 200 /\ metrics.headerWritten = FALSE
    BY DEF RInit, Init, Idle, Goroutine, NoResponse
  <1>2. Counts(conn)
    BY <1>1 DEF Counts, Status
  <1>3. \A l : Metered(l, <<>>) /\ <<>> \in Seq(Above(stack, l))
    BY <1>2, EmptySeq DEF Metered
  <1>4. gor["serve"].todo = <<>> /\ gor["inner"].todo = <<>> /\ gor["serve"].pc # "ended"
    BY <1>1
  <1>5. \A l : LogAt(l)
    BY <1>1, <1>3, <1>4 DEF LogAt
  <1> QED
    BY <1>4, <1>5 DEF LogInv

\* It stays so that what is logged is what was sent.
LEMMA LogKept ==
  ASSUME IInv, IInv', Places, LogInv, [RNext]_rvars
  PROVE  LogInv'
  <1>1. gor'["serve"].pc = "ended" => conn'.status # 0
    BY EndedHasStatus DEF LogInv
  <1>2. stack' = stack
    BY StepIs, CalledIs, EnterTimeoutIs, WaitedIs DEF Turn
  <1>3. Refusals \subseteq Codes /\ Goroutine = {"serve", "inner"}
    BY DEF Refusals, Codes, Goroutine
  <1>4. ASSUME NEW l \in 1..Len(stack), LogsAll(stack, l)
        PROVE  LogAt(l)'
    <2>1. LogAt(l)
      BY <1>4 DEF LogInv
    <2>2. ASSUME NEW g \in Goroutine, WriterCall(g)
          PROVE  LogAt(l)'
      BY <1>3, <1>4, <2>1, <2>2, LogServeCall, LogInnerCall
    <2>3. ASSUME NEW g \in Goroutine, NEW C, C \subseteq Codes, Turn(g, C)
          PROVE  LogAt(l)'
      BY <1>3, <1>4, <2>1, <2>3, LogServeTurn, LogInnerTurn
    <2>4. CASE EnterTimeout \/ Flush \/ Timeout \/ PanicPassed
      BY <1>4, <2>1, <2>4, LogTimeout
    <2>5. CASE UNCHANGED <<stack, gor, conn, tw, custom, metrics, logged, reg>>
      BY <2>1, <2>5 DEF LogAt, Metered, Counts, LogTrue
    <2> QED
      BY <1>3, <2>2, <2>3, <2>4, <2>5, StepIs
  <1> QED
    BY <1>1, <1>2, <1>4 DEF LogInv

\* For every stack, whatever the handler, errHandler and the timer do: Logging logs
\* the status and the bytes that the client got, when no middleware that changes
\* them is further out.
THEOREM LogIsTrue == RSpec => []LoggedAsSent
  <1>1. RInit => IInv /\ Places /\ LogInv
    BY InitHolds, PlacesInit, LogInit
  <1>2. IInv /\ Places /\ LogInv /\ [RNext]_rvars => (IInv /\ Places /\ LogInv)'
    <2> SUFFICES ASSUME IInv, Places, LogInv, [RNext]_rvars
                 PROVE  IInv' /\ Places' /\ LogInv'
      OBVIOUS
    <2>1. IInv'
      BY StepKeeps
    <2> QED
      BY <2>1, PlacesKept, LogKept
  <1>3. IInv /\ LogInv => LoggedAsSent
    <2> SUFFICES ASSUME IInv, LogInv, Has("Logging"), gor["serve"].pc = "ended", logged # <<>>,
                        \A i \in 1..At("Logging") : stack[i] \notin
                          {"TimeoutHandler", "CustomErrors", "LimitResponseBodyBytes"}
                 PROVE  /\ Len(logged) = 1
                        /\ logged[1].status = conn.status /\ logged[1].body_bytes_sent = conn.bytes
      BY DEF LoggedAsSent
    <2>1. PICK l \in 1..Len(stack) : stack[l] = "Logging"
      BY DEF Has
    <2>2. At("Logging") = l
      BY <2>1, AtIs DEF IInv, Typed
    <2>3. LogTrue(l, gor["serve"]) /\ conn.status # 0
      BY <2>1, <2>2 DEF LogInv, LogsAll, LogAt
    <2> QED
      BY <2>3 DEF LogTrue, Status
  <1> QED
    BY <1>1, <1>2, <1>3, PTL DEF RSpec

-----------------------------------------------------------------------------
(* Errors and parameters. *)

\* A new error has no tag.
LEMMA NewIs ==
  ASSUME NEW msg, msg # "nil", NEW e, e = New(msg)
  PROVE  e # Nil /\ e.tags = <<>> /\ e.root = msg /\ ~IsTag(e, AccountsTag)
  BY DEF New, Nil, IsTag

\* A new tagged error has one.
LEMMA TagNewIs ==
  ASSUME NEW msg, NEW t, NEW m, NEW e, e = TagNew(msg, t, m), msg # "nil"
  PROVE  /\ DOMAIN e.tags = {1} /\ e.tags[1] = [tag |-> t, meta |-> m]
         /\ e # Nil /\ e.tags # <<>> /\ e = [root |-> msg, tags |-> <<[tag |-> t, meta |-> m]>>]
  <1> DEFINE x == [tag |-> t, meta |-> m]
  <1>1. New(msg) # Nil
    BY DEF New, Nil
  <1>2. e = [root |-> msg, tags |-> <<x>> \o <<>>]
    BY <1>1 DEF TagNew, Tag, New
  <1>3. <<x>> \o <<>> = <<x>>
    <2> HIDE DEF x
    <2> QED
      BY ConcatEmptySeq
  <1>4. e.tags = <<x>> /\ e.root = msg
    BY <1>2, <1>3
  <1>5. e # Nil
    BY <1>4 DEF Nil
  <1> HIDE DEF x
  <1>6. DOMAIN <<x>> = {1} /\ <<x>>[1] = x /\ <<x>> # <<>>
    OBVIOUS
  <1> QED
    BY <1>2, <1>3, <1>4, <1>5, <1>6 DEF x

\* One tag of the package, with a code and the action.
LEMMA TaggedOne ==
  ASSUME NEW e, DOMAIN e.tags = {1}, e.tags[1].tag = AccountsTag,
         NEW m, e.tags[1].meta = m,
         {"code", "action"} \subseteq DOMAIN m, m["action"] = "register",
         m["code"] \in {"400", "409", "500"}
  PROVE  IsTag(e, AccountsTag) /\ Tagged(e) /\ Code(e) # 0
  <1>1. IsTag(e, AccountsTag)
    BY DEF IsTag
  <1>2. ASSUME NEW key \in {"code", "action"}
        PROVE  KeyValue(e, key) = m[key]
    <2>1. HasKey(e, key)
      BY DEF HasKey
    <2> DEFINE P(i) == key \in DOMAIN e.tags[i].meta
                       /\ \A j \in 1..(i - 1) : key \notin DOMAIN e.tags[j].meta
    <2>2. P(1)
      OBVIOUS
    <2>3. (CHOOSE i \in DOMAIN e.tags : P(i)) = 1
      <3> HIDE DEF P
      <3> QED
        BY <2>2
    <2> QED
      BY <2>1, <2>3 DEF KeyValue
  <1>3. KeyValue(e, "code") = m["code"] /\ KeyValue(e, "action") = "register"
    BY <1>2
  <1>4. Code(e) = Atoi[m["code"]] /\ Atoi[m["code"]] # 0
    BY <1>3 DEF Code, Atoi
  <1> QED
    BY <1>1, <1>3, <1>4 DEF Tagged

\* The metadata of an error of the registration.
Full(m) ==
  {"code", "action"} \subseteq DOMAIN m /\ m["action"] = "register" /\ m["code"] \in {"400", "409", "500"}

\* A new error with these.
LEMMA NewTagged ==
  ASSUME NEW msg, NEW m, NEW e, e = TagNew(msg, AccountsTag, m), msg # "nil", Full(m)
  PROVE  e # Nil /\ IsTag(e, AccountsTag) /\ Tagged(e)
  <1> DEFINE t == AccountsTag
  <1>1. DOMAIN e.tags = {1} /\ e.tags[1] = [tag |-> t, meta |-> m] /\ e # Nil
    <2>1. e = TagNew(msg, t, m)
      OBVIOUS
    <2> HIDE DEF t
    <2> QED
      BY <2>1, TagNewIs
  <1>2. e.tags[1].tag = AccountsTag /\ e.tags[1].meta = m
    BY <1>1
  <1> QED
    BY <1>1, <1>2, TaggedOne DEF Full

\* Decode returns no error only if no check failed.
LEMMA Decoded ==
  ASSUME NEW T, NEW in, NEW invalid
  PROVE  LET d == Decode(T, in, invalid) IN
         /\ d.dst = Assigned(T, in)
         /\ \/ /\ d.err = invalid /\ \A i \in 1..5 : Checks(T, in)[i].ok
            \/ \E msg : msg # "nil" /\ d.err = New(msg)
  <1> DEFINE checks == Checks(T, in)
             failed == { i \in DOMAIN checks : ~checks[i].ok }
             P(i) == \A j \in failed : i <= j
             k == CHOOSE i \in failed : P(i)
  <1>1. DOMAIN checks = 1..5 /\ \A i \in 1..5 : checks[i].msg # "nil"
    BY DEF Checks
  <1>2. Decode(T, in, invalid).dst = Assigned(T, in)
    BY DEF Decode
  <1>3. Decode(T, in, invalid).err = IF failed = {} THEN invalid ELSE New(checks[k].msg)
    BY DEF Decode
  <1>4. CASE failed = {}
    BY <1>1, <1>2, <1>3, <1>4, SMTT(30)
  <1>5. CASE failed # {}
    <2>1. failed \subseteq 1..5
      BY <1>1
    <2>2. \E i \in failed : P(i)
      <3> HIDE DEF failed
      <3>1. CASE 1 \in failed
        BY <2>1, <3>1
      <3>2. CASE 1 \notin failed /\ 2 \in failed
        BY <2>1, <3>2
      <3>3. CASE 1 \notin failed /\ 2 \notin failed /\ 3 \in failed
        BY <2>1, <3>3
      <3>4. CASE 1 \notin failed /\ 2 \notin failed /\ 3 \notin failed /\ 4 \in failed
        BY <2>1, <3>4
      <3>5. CASE 1 \notin failed /\ 2 \notin failed /\ 3 \notin failed /\ 4 \notin failed
        <4>1. PICK i \in failed : TRUE
          BY <1>5
        <4>2. \A j \in failed : j = 5
          BY <2>1, <3>5
        <4> QED
          BY <4>1, <4>2
      <3> QED
        BY <3>1, <3>2, <3>3, <3>4, <3>5
    <2>3. k \in failed
      <3> HIDE DEF P, failed
      <3> QED
        BY <2>2
    <2> QED
      BY <1>1, <1>2, <1>3, <1>5, <2>1, <2>3
  <1> QED
    BY <1>4, <1>5

\* The last of the sources src that has a field of F gives it its value in dst.
Wins(F, src, dst) ==
  /\ DOMAIN dst = F
  /\ \A f \in F, i \in DOMAIN src :
       f \in DOMAIN src[i] =>
         dst[f] = src[i][f] \/ \E j \in (i + 1)..Len(src) : f \in DOMAIN src[j]

\* Of layers over each other the last that has a field wins.
LEMMA LayersWin ==
  ASSUME NEW a1, NEW a2, NEW a3, NEW a4, NEW a5, NEW v, NEW b, NEW F,
         DOMAIN v = DOMAIN a4 \cup DOMAIN a3,
         \A x \in DOMAIN a4 : v[x] = a4[x],
         \A x \in DOMAIN a3 : x \notin DOMAIN a4 => v[x] = a3[x],
         DOMAIN a1 \subseteq F, DOMAIN a2 \subseteq F, DOMAIN v \subseteq F, DOMAIN a5 \subseteq F,
         DOMAIN b = F
  PROVE  Wins(F, <<a1, a2, a3, a4, a5>>, Overlay(a5, Overlay(v, Overlay(a2, Overlay(a1, b)))))
  <1> DEFINE src == <<a1, a2, a3, a4, a5>>
             o1 == Overlay(a1, b)
             o2 == Overlay(a2, o1)
             o3 == Overlay(v, o2)
             dst == Overlay(a5, o3)
  <1>1. DOMAIN o1 = F /\ \A x \in DOMAIN a1 : o1[x] = a1[x]
    BY DEF Overlay
  <1> HIDE DEF o1
  <1>2. /\ DOMAIN o2 = F /\ \A x \in DOMAIN a2 : o2[x] = a2[x]
        /\ \A x \in F : x \notin DOMAIN a2 => o2[x] = o1[x]
    BY <1>1 DEF Overlay
  <1> HIDE DEF o2
  <1>3. /\ DOMAIN o3 = F /\ \A x \in DOMAIN v : o3[x] = v[x]
        /\ \A x \in F : x \notin DOMAIN v => o3[x] = o2[x]
    BY <1>2 DEF Overlay
  <1> HIDE DEF o3
  <1>4. /\ DOMAIN dst = F /\ \A x \in DOMAIN a5 : dst[x] = a5[x]
        /\ \A x \in F : x \notin DOMAIN a5 => dst[x] = o3[x]
    BY <1>3 DEF Overlay
  <1> HIDE DEF dst
  <1>5. /\ DOMAIN src = 1..5 /\ Len(src) = 5 /\ src[1] = a1 /\ src[2] = a2 /\ src[3] = a3
        /\ src[4] = a4 /\ src[5] = a5
    OBVIOUS
  <1> HIDE DEF src
  <1>6. ASSUME NEW f \in F, NEW i \in 1..5, f \in DOMAIN src[i],
               \A j \in (i + 1)..5 : f \notin DOMAIN src[j]
        PROVE  dst[f] = src[i][f]
    <2>1. CASE i = 5
      BY <1>4, <1>5, <1>6, <2>1
    <2>2. CASE i # 5
      <3>1. f \notin DOMAIN a5
        BY <1>5, <1>6, <2>2
      <3>2. dst[f] = o3[f]
        BY <1>4, <3>1
      <3>3. CASE i = 4
        BY <1>3, <1>5, <1>6, <3>2, <3>3
      <3>4. CASE i = 3
        <4>1. f \notin DOMAIN a4
          BY <1>5, <1>6, <3>4
        <4> QED
          BY <1>3, <1>5, <1>6, <3>2, <3>4, <4>1
      <3>5. CASE i \in {1, 2}
        <4>1. f \notin DOMAIN a4 /\ f \notin DOMAIN a3
          BY <1>5, <1>6, <3>5
        <4>2. dst[f] = o2[f]
          BY <1>3, <3>2, <4>1
        <4>3. CASE i = 2
          BY <1>2, <1>5, <1>6, <4>2, <4>3
        <4>4. CASE i = 1
          <5>1. f \notin DOMAIN a2
            BY <1>5, <1>6, <4>4
          <5> QED
            BY <1>1, <1>2, <1>5, <1>6, <4>2, <4>4, <5>1
        <4> QED
          BY <3>5, <4>3, <4>4
      <3> QED
        BY <2>2, <3>3, <3>4, <3>5
    <2> QED
      BY <2>1, <2>2
  <1>7. Wins(F, src, dst)
    BY <1>4, <1>5, <1>6 DEF Wins
  <1> QED
    BY <1>7 DEF dst, src, o1, o2, o3

\* A struct whose tags are on fields.
Struct(T) ==
  T.path \cup T.schema \cup T.json \cup DOMAIN T.cookie \subseteq T.fields

\* What Decode accepts is from the sources that win, also of a limited request.
LEMMA AssignedIs ==
  ASSUME NEW T, Struct(T), NEW in, NEW x,
         DOMAIN in = { "path", "cookies", "query", "method", "body", "values",
                       "readable", "long", "tail" },
         \A i \in 1..5 : Checks(T, [in EXCEPT !.readable = x])[i].ok
  PROVE  FromLast(T, in, Assigned(T, [in EXCEPT !.readable = x]))
  <1> DEFINE lim == [in EXCEPT !.readable = x]
             v == FormValues(lim)
             a1 == [f \in T.path |-> in.path[f]]
             a2 == [f \in Cookies(T, in) |-> cookieValue(T, f, in.cookies[f])]
             a3 == IF in.body = "form" /\ in.method = "POST" THEN in.values ELSE Nothing
             a4 == in.query
             a5 == IF in.body = "json" THEN in.values ELSE Nothing
             b == [f \in T.fields |-> ""]
  <1>1. /\ lim.path = in.path /\ lim.cookies = in.cookies /\ lim.query = in.query
        /\ lim.method = in.method /\ lim.body = in.body /\ lim.values = in.values
    OBVIOUS
  <1> HIDE DEF lim
  <1>2. Cookies(T, lim) = Cookies(T, in) /\ Cookies(T, in) \subseteq DOMAIN T.cookie
    BY <1>1 DEF Cookies
  <1>3. Assigned(T, lim) = Overlay(a5, Overlay(v, Overlay(a2, Overlay(a1, b))))
    BY <1>1, <1>2 DEF Assigned
  <1>4. Sources(T, in) = <<a1, a2, a3, a4, a5>>
    BY DEF Sources
  <1>5. DOMAIN v \subseteq T.schema /\ (in.body = "json" => DOMAIN in.values \subseteq T.json)
    <2>1. Checks(T, lim)[3].ok /\ Checks(T, lim)[4].ok
      BY DEF lim
    <2> QED
      BY <1>1, <2>1 DEF Checks
  <1>6. DOMAIN Nothing = {}
    BY DEF Nothing
  <1>7. /\ DOMAIN v = DOMAIN a4 \cup DOMAIN a3
        /\ \A z \in DOMAIN a4 : v[z] = a4[z]
        /\ \A z \in DOMAIN a3 : z \notin DOMAIN a4 => v[z] = a3[z]
    <2>1. CASE in.body = "form" /\ in.method = "POST"
      <3>1. v = Overlay(a4, a3)
        BY <1>1, <2>1 DEF FormValues
      <3> HIDE DEF v, a4, a3
      <3> QED
        BY <3>1 DEF Overlay
    <2>2. CASE ~(in.body = "form" /\ in.method = "POST")
      <3>1. v = a4 /\ a3 = Nothing
        BY <1>1, <2>2 DEF FormValues
      <3> HIDE DEF v, a4, a3
      <3> QED
        BY <1>6, <3>1
    <2> QED
      BY <2>1, <2>2
  <1>8. /\ DOMAIN a1 \subseteq T.fields /\ DOMAIN a2 \subseteq T.fields /\ DOMAIN v \subseteq T.fields
        /\ DOMAIN a5 \subseteq T.fields /\ DOMAIN b = T.fields
    <2>1. DOMAIN a1 = T.path /\ DOMAIN a2 = Cookies(T, in) /\ DOMAIN b = T.fields
      OBVIOUS
    <2>2. DOMAIN a5 \subseteq T.json
      BY <1>5, <1>6
    <2> QED
      BY <1>2, <1>5, <2>1, <2>2 DEF Struct
  <1> HIDE DEF v, a1, a2, a3, a4, a5, b
  <1>9. Wins(T.fields, <<a1, a2, a3, a4, a5>>,
             Overlay(a5, Overlay(v, Overlay(a2, Overlay(a1, b)))))
    BY <1>7, <1>8, LayersWin
  <1> QED
    BY <1>3, <1>4, <1>9 DEF FromLast, Wins, lim

\* The metadata that Register gives.
LEMMA Fulls ==
  ASSUME NEW p
  PROVE  Full(BadRequest) /\ Full(Meta("400", p))
  BY DEF Full, BadRequest, Meta

\* Validate returns a tagged error.
LEMMA ValidateIs ==
  ASSUME NEW i
  PROVE  \/ ValidateRegister(i) = Nil
         \/ \E msg, p : /\ msg # "nil"
                        /\ ValidateRegister(i) = TagNew(msg, AccountsTag, Meta("400", p))
  <1> DEFINE v == ValidateRegister(i)
  <1>1. validateEmail(i.email) = Nil
        \/ validateEmail(i.email) = TagNew("email", AccountsTag, Meta("400", "email"))
    BY DEF validateEmail
  <1>2. validatePassword(i.password) = Nil
        \/ validatePassword(i.password) = TagNew("password", AccountsTag, Meta("400", "password"))
    BY DEF validatePassword
  <1>3. \/ v = Nil
        \/ v = TagNew("email", AccountsTag, Meta("400", "email"))
        \/ v = TagNew("password", AccountsTag, Meta("400", "password"))
        \/ v = TagNew("match", AccountsTag, Meta("400", "password2"))
    BY <1>1, <1>2 DEF ValidateRegister
  <1> HIDE DEF v
  <1>4. v = Nil \/ \E msg, p : msg # "nil" /\ v = TagNew(msg, AccountsTag, Meta("400", p))
    BY <1>3
  <1> QED
    BY <1>4 DEF v

\* Register refuses what Decode refuses, and tags every error.
LEMMA RegisterTags ==
  ASSUME NEW in, NEW verdict \in {Nil, New("weak")}, NEW d, NEW e,
         d = Decode(registerInput, in, ValidateRegister(Assigned(registerInput, in))),
         e = IF d.err # Nil THEN DecodeError(d.err) ELSE Tag(verdict, AccountsTag, BadRequest)
  PROVE  /\ Tagged(e) /\ d.dst = Assigned(registerInput, in)
         /\ e = Nil => \A i \in 1..5 : Checks(registerInput, in)[i].ok
  <1> DEFINE v == ValidateRegister(Assigned(registerInput, in))
             T == registerInput
  <1>1. /\ d.dst = Assigned(T, in)
        /\ \/ d.err = v /\ \A i \in 1..5 : Checks(T, in)[i].ok
           \/ \E msg : msg # "nil" /\ d.err = New(msg)
    <2>1. d = Decode(T, in, v)
      OBVIOUS
    <2> HIDE DEF T, v
    <2> QED
      BY <2>1, Decoded
  <1>2. CASE d.err = Nil
    <2>1. \A i \in 1..5 : Checks(T, in)[i].ok
      <3>1. ASSUME NEW msg, msg # "nil", d.err = New(msg)
            PROVE  FALSE
        BY <1>2, <3>1, NewIs
      <3> QED
        BY <1>1, <3>1
    <2>2. CASE verdict = Nil
      <3>1. e = Nil
        BY <1>2, <2>2 DEF Tag
      <3> QED
        BY <1>1, <2>1, <3>1 DEF Tagged
    <2>3. CASE verdict = New("weak")
      <3>1. e = TagNew("weak", AccountsTag, BadRequest)
        BY <1>2, <2>3 DEF TagNew
      <3>2. Tagged(e)
        BY <3>1, Fulls, NewTagged
      <3> QED
        BY <1>1, <2>1, <3>2
    <2> QED
      BY <2>2, <2>3
  <1>3. CASE d.err # Nil
    <2>0. e = DecodeError(d.err)
      BY <1>3
    <2>1. ASSUME NEW msg, msg # "nil", d.err = New(msg)
          PROVE  Tagged(e) /\ e # Nil
      <3>1. ~IsTag(d.err, AccountsTag)
        BY <2>1, NewIs
      <3>2. e = TagNew(msg, AccountsTag, BadRequest)
        BY <2>0, <2>1, <3>1 DEF DecodeError, TagNew
      <3> QED
        BY <2>1, <3>2, Fulls, NewTagged
    <2>2. ASSUME d.err = v
          PROVE  Tagged(e) /\ e # Nil
      <3>1. PICK msg, p : msg # "nil" /\ v = TagNew(msg, AccountsTag, Meta("400", p))
        BY <1>3, <2>2, ValidateIs
      <3> HIDE DEF v
      <3>2. d.err # Nil /\ IsTag(d.err, AccountsTag) /\ Tagged(d.err)
        BY <2>2, <3>1, Fulls, NewTagged
      <3>3. e = d.err
        BY <2>0, <3>2 DEF DecodeError
      <3> QED
        BY <3>2, <3>3
    <2> QED
      BY <1>1, <2>1, <2>2
  <1> QED
    BY <1>2, <1>3

\* What a.register returns: tagged, or without code.
LEMMA CreateTags ==
  ASSUME NEW o \in Create, NEW e, e = registerError(o.err)
  PROVE  Tagged(e) /\ (e = Nil => o.stored) /\ (e # Nil /\ o.stored => Code(e) = 0)
  <1>1. CASE o.err = New("database")
    <2>1. e = New("database")
      BY <1>1, NewIs DEF registerError
    <2>2. e # Nil /\ e.tags = <<>> /\ ~IsTag(e, AccountsTag)
      BY <2>1, NewIs
    <2>3. Code(e) = 0
      BY <2>2 DEF Code, KeyValue, HasKey, Atoi
    <2> QED
      BY <2>2, <2>3 DEF Tagged
  <1>2. CASE o = [stored |-> TRUE, err |-> Nil]
    <2>1. ~IsTag(Nil, AccountsTag)
      BY DEF IsTag, Nil
    <2>2. e = Nil
      BY <1>2, <2>1 DEF registerError
    <2> QED
      BY <1>2, <2>2 DEF Tagged
  <1>3. CASE \E m \in { [code |-> "409", parameter |-> "email"],
                        [code |-> "400", parameter |-> "email"],
                        [code |-> "500", parameter |-> "password"] } :
               o = [stored |-> FALSE, err |-> TagNew("constraint", AccountsTag, m)]
    <2>1. PICK m \in { [code |-> "409", parameter |-> "email"],
                       [code |-> "400", parameter |-> "email"],
                       [code |-> "500", parameter |-> "password"] } :
               o = [stored |-> FALSE, err |-> TagNew("constraint", AccountsTag, m)]
      BY <1>3
    <2>2. DOMAIN m = {"code", "parameter"} /\ m["code"] \in {"400", "409", "500"}
      BY <2>1
    <2> DEFINE c == TagNew("constraint", AccountsTag, m)
               t == AccountsTag
               a == [k \in {"action"} |-> "register"]
               n == Overlay(a, m)
    <2>3. ~o.stored /\ o.err = c
      BY <2>1
    <2> HIDE DEF c
    <2>4. /\ DOMAIN c.tags = {1} /\ c.tags[1] = [tag |-> t, meta |-> m] /\ c # Nil /\ c.tags # <<>>
          /\ c = [root |-> "constraint", tags |-> <<[tag |-> t, meta |-> m]>>]
      <3>1. c = TagNew("constraint", t, m)
        BY DEF c
      <3> HIDE DEF t
      <3> QED
        BY <3>1, TagNewIs
    <2>5. IsTag(c, AccountsTag)
      BY <2>4 DEF IsTag
    <2>6. e = [c EXCEPT !.tags[1].meta = Overlay(a, @)]
      BY <2>3, <2>4, <2>5 DEF registerError, WithKeyValue
    <2>7. DOMAIN n = {"code", "parameter", "action"} /\ n["action"] = "register" /\ n["code"] = m["code"]
      BY <2>2 DEF Overlay
    <2>8. Overlay(a, c.tags[1].meta) = n
      BY <2>4
    <2> HIDE DEF n, a, t
    <2>9. /\ DOMAIN e.tags = {1} /\ e.tags[1].tag = t /\ e.tags[1].meta = n
      BY <2>4, <2>6, <2>8
    <2>10. e.tags[1].tag = AccountsTag /\ {"code", "action"} \subseteq DOMAIN n
      BY <2>7, <2>9 DEF t
    <2>11. Tagged(e) /\ IsTag(e, AccountsTag)
      BY <2>2, <2>7, <2>9, <2>10, TaggedOne
    <2>12. e # Nil
      BY <2>11 DEF IsTag, Nil
    <2> QED
      BY <2>3, <2>11, <2>12
  <1>4. \/ o.err = New("database") \/ o = [stored |-> TRUE, err |-> Nil]
        \/ \E m \in { [code |-> "409", parameter |-> "email"],
                      [code |-> "400", parameter |-> "email"],
                      [code |-> "500", parameter |-> "password"] } :
             o = [stored |-> FALSE, err |-> TagNew("constraint", AccountsTag, m)]
    BY DEF Create
  <1> QED
    BY <1>1, <1>2, <1>3, <1>4

\* The tags of registerInput are on its fields.
LEMMA RegisterStruct == Struct(registerInput)
  BY DEF Struct, registerInput, Nothing

\* What the handlers read.
LEMMA RequestIs ==
  ASSUME stack \in Stacks, reg.input \in Requests, Has("Register") \/ Has("Decode")
  PROVE  /\ DOMAIN reg.input = { "path", "cookies", "query", "method", "body", "values",
                                 "readable", "long", "tail" }
         /\ ~(Has("Register") /\ Has("Decode"))
         /\ Struct(AppStruct)
  <1>1. Requests \in {RegisterRequests, AppRequests}
    BY DEF Requests
  <1>2. ~(Has("Register") /\ Has("Decode"))
    BY RegistrationAssumption DEF Has
  <1>3. Struct(AppStruct)
    BY RegistrationAssumption DEF Struct
  <1>4. \A in \in AppRequests \cup RegisterRequests :
          DOMAIN in = { "path", "cookies", "query", "method", "body", "values",
                        "readable", "long", "tail" }
    BY RegistrationAssumption
  <1>5. reg.input \in AppRequests \cup RegisterRequests
    BY <1>1
  <1> QED
    BY <1>2, <1>3, <1>4, <1>5

\* Only one goroutine is on its way in.
LEMMA OneInbound ==
  ASSUME IInv, NEW g \in Goroutine, NEW h \in Goroutine, g # h, gor[g].pc \in Inbound
  PROVE  gor[h].pc \notin Inbound
  <1>1. Control(stack, gor["serve"], gor["inner"], tw.err)
    BY DEF IInv, Shape
  <1> QED
    BY <1>1 DEF Control, Inbound, Goroutine

\* Where a goroutine on its way in was before.
Inward ==
  \A g \in Goroutine : gor'[g].pc \in Inbound =>
    \E h \in Goroutine : gor[h].pc \in Inbound /\ gor'[g].at >= gor[h].at

\* In a turn it came no further out.
LEMMA InwardTurn ==
  ASSUME IInv, IInv', Places, NEW g \in Goroutine, NEW C, Turn(g, C)
  PROVE  Inward
  <1>1. /\ gor[g].at \in Level(stack) /\ gor'[g].at \in Level(stack)
        /\ \/ gor'[g].at = gor[g].at + 1 /\ gor[g].pc \in {"enter", "creating"}
           \/ gor'[g].at = gor[g].at /\ (gor'[g].pc \in Inbound => gor[g].pc \in Inbound)
           \/ gor'[g].pc \in {"leave", "panic"}
        /\ \A h \in Goroutine : h # g => gor'[h] = gor[h]
    BY TurnMoves
  <1>2. gor'[g].pc \in Inbound => gor[g].pc \in Inbound /\ gor'[g].at >= gor[g].at
    BY <1>1 DEF Inbound, Level
  <1>3. ASSUME NEW h \in Goroutine, h # g, gor'[h].pc \in Inbound
        PROVE  gor[h].pc \in Inbound /\ gor'[h].at >= gor[h].at
    <2>1. gor'[h] = gor[h] /\ gor[h].at \in Level(stack)
      BY <1>1, <1>3 DEF IInv, Typed, GorOf
    <2> QED
      BY <1>3, <2>1 DEF Level
  <1> QED
    BY <1>2, <1>3 DEF Inward

\* Nor did it in another step, in which nobody starts to create.
LEMMA InwardOther ==
  ASSUME IInv,
         \/ \E g \in Goroutine : WriterCall(g)
         \/ EnterTimeout \/ Flush \/ Timeout \/ PanicPassed
         \/ UNCHANGED <<stack, gor>>
  PROVE  Inward /\ \A g \in Goroutine : gor'[g].pc = "creating" => gor[g].pc = "creating"
  <1>0. \A g \in Goroutine : gor[g].at \in Nat
    BY StackFacts DEF IInv, Typed, GorOf, Level
  <1>1. Goroutine = {"serve", "inner"} /\ "serve" \in Goroutine /\ "inner" \in Goroutine
    BY DEF Goroutine
  <1>2. ASSUME NEW g \in Goroutine, gor'[g].pc = gor[g].pc, gor'[g].at = gor[g].at,
               gor'[g].pc \in Inbound
        PROVE  gor[g].pc \in Inbound /\ gor'[g].at >= gor[g].at
    BY <1>0, <1>2
  <1>3. CASE (\E g \in Goroutine : WriterCall(g)) \/ UNCHANGED <<stack, gor>>
    <2>1. \A g \in Goroutine : gor'[g].pc = gor[g].pc /\ gor'[g].at = gor[g].at
      <3>1. ASSUME NEW g \in Goroutine, WriterCall(g)
            PROVE  \A h \in Goroutine : gor'[h].pc = gor[h].pc /\ gor'[h].at = gor[h].at
        BY <3>1, CalledIs
      <3> QED
        BY <1>3, <3>1
    <2> QED
      BY <1>2, <2>1 DEF Inward
  <1>4. CASE EnterTimeout
    <2>1. /\ gor["serve"].pc = "enter" /\ gor'["serve"].pc = "wait" /\ gor'["inner"].pc = "enter"
          /\ gor'["inner"].at = gor["serve"].at + 1
      BY <1>1, <1>4, EnterTimeoutIs
    <2>2. gor'["inner"].at >= gor["serve"].at
      BY <1>0, <1>1, <2>1
    <2> QED
      BY <1>1, <2>1, <2>2 DEF Inward, Inbound
  <1>5. CASE Flush \/ Timeout \/ PanicPassed
    <2>1. gor'["serve"].pc \in {"leave", "panic"} /\ gor'["inner"] = gor["inner"]
      BY <1>5, WaitedIs
    <2>2. gor'["serve"].pc \notin Inbound
      BY <2>1 DEF Inbound
    <2> QED
      BY <1>1, <1>2, <2>1, <2>2 DEF Inward
  <1> QED
    BY <1>3, <1>4, <1>5

-----------------------------------------------------------------------------
(* What the client is told. *)

\* Codes that are no mistake of the client's are not told as one.
LEMMA MildSays ==
  ASSUME stack \in Stacks, NEW r, NEW q, NEW C, C \subseteq Codes, C \cap Mistake = {},
         Says(r, q, C), q.at \in Level(stack)
  PROVE  q.todo \in Seq(Mild(stack))
  <1> DEFINE S == Mild(stack)
  <1>0. C \subseteq Nat
    BY DEF Codes
  <1>1. /\ {200, 404, 500} \cup C \subseteq Codes
        /\ ({200, 404, 500} \cup C) \cap Mistake = {}
    BY DEF Codes, Mistake
  <1>2. ASSUME NEW op \in {"header", "write", "copy"}, NEW arg \in Nat,
               NEW src \in {"handler", "refusal", "recover"},
               op = "header" => arg \in {200, 404, 500} \cup C
        PROVE  Call(op, arg, src, q.at) \in S
    <2> DEFINE at == q.at
               c == Call(op, arg, src, at)
    <2>1. /\ op \in {"header", "write", "copy", "handled"} /\ at \in Level(stack) /\ src \in Who
          /\ op = "header" => arg \in Codes
      BY <1>1, <1>2 DEF Who
    <2>2. c.op = "header" => c.arg \notin Mistake
      BY <1>1, <1>2 DEF Call
    <2> HIDE DEF at
    <2>3. c \in CallOf(stack, Who, TRUE)
      BY <2>1, NewCall
    <2> HIDE DEF c
    <2>4. c \in Mild(stack)
      BY <2>2, <2>3 DEF Mild
    <2> QED
      BY <2>4 DEF at, c
  <1> HIDE DEF S
  <1>3. Hears(S, C, q.at)
    BY <1>2 DEF Hears
  <1>4. q.todo \in Seq(S)
    BY <1>0, <1>3, SaysIn
  <1> QED
    BY <1>4 DEF S

\* A turn with such codes tells of none.
LEMMA UntoldTurn ==
  ASSUME IInv, IInv', Places, NEW g \in Goroutine, NEW C, C \subseteq Codes, C \cap Mistake = {},
         Turn(g, C), Untold
  PROVE  Untold'
  <1>1. /\ stack \in Stacks /\ UNCHANGED <<stack, tw>> /\ Says(gor[g], gor'[g], C)
        /\ (conn' = conn \/ ServeEnds)
    BY DEF IInv, Typed, Turn
  <1>2. gor'[g].at \in Level(stack) /\ \A h \in Goroutine : h # g => gor'[h] = gor[h]
    BY TurnMoves
  <1>3. gor'[g].todo \in Seq(Mild(stack))
    BY <1>1, <1>2, MildSays
  <1>4. conn'.status \notin Mistake
    <2>1. ServeEnds => conn'.status \in {200, conn.status}
      BY DEF ServeEnds, IInv, Typed, Answer
    <2> QED
      BY <1>1, <2>1 DEF Untold, Mistake
  <1> QED
    BY <1>1, <1>2, <1>3, <1>4 DEF Untold

\* A call that tells of no mistake makes none that does, and the status is its own.
LEMMA UntoldCall ==
  ASSUME IInv, NEW g \in Goroutine, WriterCall(g), Untold
  PROVE  Untold'
  <1> DEFINE todo == gor[g].todo
             e == Head(todo)
             S == Mild(stack)
  <1>1. /\ stack' = stack /\ todo # <<>>
        /\ \A h \in Goroutine : h # g => gor'[h] = gor[h]
    BY CalledIs
  <1>2. PICK calls \in Seq(After(e)) : gor'[g].todo = calls \o Tail(todo)
    BY CalledIs
  <1>3. todo \in Seq(S) /\ e \in S
    BY <1>1, Replaced, EmptySeq DEF Untold
  <1>4. e.op = "header" => e.arg \notin Mistake
    <2> HIDE DEF e
    <2> QED
      BY <1>3 DEF Mild
  <1>5. After(e) \subseteq S
    <2> HIDE DEF e
    <2>1. ASSUME NEW c \in After(e)
          PROVE  c \in S
      <3>1. /\ c \in CallOf(stack, Who, TRUE)
            /\ c.op = "header" => c.arg = 500 \/ (e.op = "header" /\ c.arg = e.arg)
        BY DEF After
      <3>2. c.op = "header" => c.arg \notin Mistake
        BY <1>4, <3>1 DEF Mistake
      <3> QED
        BY <3>1, <3>2 DEF Mild
    <2> QED
      BY <2>1
  <1>6. gor'[g].todo \in Seq(S)
    <2> HIDE DEF S, todo, e
    <2> QED
      BY <1>1, <1>2, <1>3, <1>5, CalledIn
  <1>7. ASSUME NEW a, a.status \notin Mistake, a \in Answer
        PROVE  Sent(a, e).status \notin Mistake
    <2> HIDE DEF e
    <2>1. Sent(a, e).status \in {a.status, 200} \/ (e.op = "header" /\ Sent(a, e).status = e.arg)
      BY <1>7 DEF Sent, Answer
    <2> QED
      BY <1>4, <1>7, <2>1 DEF Mistake
  <1>8. conn \in Answer /\ tw.resp \in Answer /\ tw \in [resp : Answer, err : BOOLEAN]
    BY DEF IInv, Typed
  <1>9. conn'.status \notin Mistake /\ tw'.resp.status \notin Mistake
    <2>1. CASE g = "serve" /\ ConnCall
      <3>1. conn' = Sent(conn, e) /\ tw' = tw
        BY <2>1, ConnIs
      <3> HIDE DEF e
      <3> QED
        BY <1>7, <1>8, <3>1 DEF Untold
    <2>2. CASE g = "inner" /\ BufferCall
      <3>1. conn' = conn /\ tw' = IF tw.err THEN tw ELSE [tw EXCEPT !.resp = Sent(@, e)]
        BY <2>2, BufferIs
      <3> HIDE DEF e
      <3>2. tw'.resp \in {tw.resp, Sent(tw.resp, e)}
        BY <1>8, <3>1
      <3> QED
        BY <1>7, <1>8, <3>1, <3>2 DEF Untold
    <2>3. CASE LimitCall(g) \/ LoggingCall(g) \/ CustomCall(g)
      <3>1. UNCHANGED <<conn, tw>>
        BY <2>3 DEF LimitCall, LoggingCall, CustomCall
      <3> QED
        BY <3>1 DEF Untold
    <2> QED
      BY <2>1, <2>2, <2>3 DEF WriterCall
  <1> HIDE DEF e, todo
  <1> QED
    BY <1>1, <1>6, <1>9 DEF Untold

\* TimeoutHandler tells of none that is not in its buffer.
LEMMA UntoldTimeout ==
  ASSUME IInv, EnterTimeout \/ Flush \/ Timeout \/ PanicPassed, Untold
  PROVE  Untold'
  <1>1. CASE EnterTimeout
    <2>1. UNCHANGED <<stack, conn, tw>> /\ \A g \in Goroutine : gor'[g].todo = <<>>
      BY <1>1, EnterTimeoutIs
    <2> QED
      BY <2>1, EmptySeq DEF Untold
  <1>2. CASE Flush \/ Timeout \/ PanicPassed
    <2>1. UNCHANGED <<stack, conn>> /\ tw'.resp = tw.resp /\ gor'["inner"] = gor["inner"]
      BY <1>2, WaitedIs
    <2>2. gor'["serve"].todo \in Seq(FromBuffer(gor'["serve"].at))
      BY <1>2, FlushSays
    <2>3. Status(tw.resp) \notin Mistake
      BY DEF Untold, Status, Mistake
    <2>4. ASSUME NEW at, NEW c \in FromBuffer(at)
          PROVE  c \in Mild(stack)
      <3>1. c \in CallOf(stack, Who, TRUE) /\ (c.op = "header" => c.arg \in {Status(tw.resp), 503})
        BY DEF FromBuffer
      <3>2. c.op = "header" => c.arg \notin Mistake
        BY <2>3, <3>1 DEF Mistake
      <3> QED
        BY <3>1, <3>2 DEF Mild
    <2>5. gor'["serve"].todo \in Seq(Mild(stack))
      <3>1. FromBuffer(gor'["serve"].at) \subseteq Mild(stack)
        BY <2>4
      <3> QED
        BY <2>2, <3>1, SeqMonotonic
    <2> QED
      BY <2>1, <2>5 DEF Untold, Goroutine
  <1> QED
    BY <1>1, <1>2

\* The steps that do not read.
LEMMA ReadOther ==
  ASSUME IInv, IInv', Places, ReadInv, [RNext]_rvars, \A g \in Goroutine : ~Reads(g)
  PROVE  ReadInv'
  <1>1. reg' = reg /\ stack' = stack
    BY StepIs, CalledIs, EnterTimeoutIs, WaitedIs DEF Turn
  <1>2. Inward /\ \A g \in Goroutine : gor'[g].pc = "creating" => gor[g].pc = "creating"
    <2>1. ASSUME NEW g \in Goroutine, Turn(g, Refusals)
          PROVE  Inward /\ \A h \in Goroutine : gor'[h].pc = "creating" => gor[h].pc = "creating"
      <3>1. Inward
        BY <2>1, InwardTurn
      <3>2. gor'[g].pc # "creating" /\ \A h \in Goroutine : h # g => gor'[h] = gor[h]
        BY <2>1 DEF Turn, Alone
      <3> QED
        BY <3>1, <3>2
    <2> QED
      BY <2>1, StepIs, InwardOther
  <1>3. Untold => Untold'
    <2>1. Refusals \subseteq Codes /\ Refusals \cap Mistake = {}
      BY DEF Refusals, Codes, Mistake
    <2>2. UNCHANGED <<stack, gor, conn, tw, custom, metrics, logged, reg>> => (Untold => Untold')
      BY DEF Untold
    <2> QED
      BY <2>1, <2>2, StepIs, UntoldTurn, UntoldCall, UntoldTimeout
  <1>4. ASSUME NEW g \in Goroutine, \A h \in Goroutine : Past(stack, gor[h])
        PROVE  Past(stack, gor'[g])
    <2> SUFFICES ASSUME gor'[g].pc \in Inbound
                 PROVE  \E i \in 1..gor'[g].at : stack[i] \in {"Decode", "Register"}
      BY DEF Past
    <2>1. PICK h \in Goroutine : gor[h].pc \in Inbound /\ gor'[g].at >= gor[h].at
      BY <1>2 DEF Inward
    <2>2. PICK i \in 1..gor[h].at : stack[i] \in {"Decode", "Register"}
      BY <1>4, <2>1 DEF Past
    <2>3. gor[h].at \in Level(stack) /\ gor'[g].at \in Level(stack) /\ Len(stack) \in Nat
      BY <1>1, StackFacts DEF IInv, Typed, GorOf
    <2>4. i \in 1..gor'[g].at
      BY <2>1, <2>2, <2>3 DEF Level
    <2> QED
      BY <2>2, <2>4
  <1>5. (\E g \in Goroutine : gor'[g].pc \in Inbound) => \E g \in Goroutine : gor[g].pc \in Inbound
    BY <1>2 DEF Inward
  <1>6. /\ \A m : Has(m)' <=> Has(m)
        /\ Requests' = Requests
    BY <1>1 DEF Has, Requests
  <1> QED
    BY <1>1, <1>2, <1>3, <1>4, <1>5, <1>6 DEF ReadInv

-----------------------------------------------------------------------------
(* The handlers that read. *)

\* Who reads has not read before, and nobody else is on the way in.
LEMMA ReadsFirst ==
  ASSUME IInv, ReadInv, NEW g \in Goroutine, Reads(g)
  PROVE  /\ gor[g].pc \in Inbound /\ gor[g].at + 1 \in 1..Len(stack) /\ gor[g].at \in Nat
         /\ stack[gor[g].at + 1] \in {"Decode", "Register"}
         /\ ~reg.passed /\ ~reg.stored /\ Untold /\ gor[g].todo = <<>>
         /\ \A h \in Goroutine : h # g => gor[h].pc \notin Inbound
         /\ stack \in Stacks /\ ~(Has("Register") /\ Has("Decode"))
         /\ Has(stack[gor[g].at + 1])
  <1> DEFINE i == gor[g].at + 1
  <1>1. /\ stack \in Stacks /\ Len(stack) \in Nat
        /\ \A j, k \in 1..Len(stack) : stack[j] = stack[k] => j = k
    BY StackFacts DEF IInv, Typed
  <1>2. gor[g].at \in Level(stack) /\ AtLevel(stack, gor[g])
    BY DEF IInv, Typed, GorOf, Shape
  <1>3. /\ gor[g].pc \in Inbound /\ i \in 1..Len(stack) /\ stack[i] \in {"Decode", "Register"}
        /\ gor[g].todo = <<>>
    <2>1. CASE EnterDecode(g) \/ EnterRegister(g)
      <3>1. gor[g].pc = "enter" /\ gor[g].at < Len(stack) /\ stack[i] \in {"Decode", "Register"}
            /\ gor[g].todo = <<>>
        BY <2>1 DEF EnterDecode, EnterRegister, Enters, Ready, Pending
      <3> QED
        BY <1>1, <1>2, <3>1 DEF Inbound, Level
    <2>2. CASE RegisterCreates(g)
      BY <1>2, <2>2 DEF RegisterCreates, Ready, Pending, AtLevel, Inbound
    <2> QED
      BY <2>1, <2>2 DEF Reads
  <1>4. Has(stack[i])
    BY <1>3 DEF Has
  <1>5. ~(Has("Register") /\ Has("Decode"))
    BY <1>1, <1>3, <1>4, RequestIs DEF ReadInv
  <1>6. ~Past(stack, gor[g])
    <2>1. ASSUME NEW k \in 1..gor[g].at, stack[k] \in {"Decode", "Register"}
          PROVE  FALSE
      <3>1. k \in 1..Len(stack) /\ k # i
        BY <1>1, <1>2, <1>3, <2>1 DEF Level
      <3>2. stack[k] # stack[i] /\ Has(stack[k])
        BY <1>1, <1>3, <3>1 DEF Has
      <3> QED
        BY <1>3, <1>4, <1>5, <2>1, <3>2
    <2> QED
      BY <1>3, <2>1 DEF Past
  <1>7. ~reg.passed /\ ~reg.stored /\ Untold
    BY <1>3, <1>6 DEF ReadInv
  <1> QED
    BY <1>1, <1>2, <1>3, <1>4, <1>5, <1>7, OneInbound DEF Level

\* Nothing is told when a goroutine goes on to read or to pass on.
LEMMA UntoldIn ==
  ASSUME Untold, UNCHANGED <<stack, conn, tw>>, NEW g \in Goroutine,
         gor'[g].todo \in Seq(Mild(stack)), \A h \in Goroutine : h # g => gor'[h] = gor[h]
  PROVE  Untold'
  BY DEF Untold

\* Decode of the application.
LEMMA ReadDecode ==
  ASSUME IInv, IInv', Places, ReadInv, NEW g \in Goroutine, EnterDecode(g)
  PROVE  ReadInv'
  <1> DEFINE d == Decode(AppStruct, Limited, Nil)
             e == Tag(d.err, "app", [code |-> "400"])
             i == gor[g].at + 1
  <1>0. Reads(g)
    BY DEF Reads
  <1>1. /\ gor[g].pc \in Inbound /\ i \in 1..Len(stack) /\ gor[g].at \in Nat
        /\ ~reg.passed /\ ~reg.stored /\ Untold /\ gor[g].todo = <<>>
        /\ \A h \in Goroutine : h # g => gor[h].pc \notin Inbound
        /\ stack \in Stacks /\ ~(Has("Register") /\ Has("Decode")) /\ Has(stack[i])
    BY <1>0, ReadsFirst
  <1>2. /\ stack[i] = "Decode" /\ UNCHANGED <<stack, conn, tw>> /\ gor[g].pc = "enter"
        /\ reg' = [reg EXCEPT !.dst = d.dst, !.err = e, !.passed = d.err = Nil]
        /\ IF e = Nil THEN Inside(g) ELSE Refuse(g, e)
    BY DEF EnterDecode, Enters, Ready, Others
  <1>3. /\ DOMAIN reg = {"input", "dst", "err", "stored", "passed"} /\ reg.input \in Requests
    BY DEF ReadInv
  <1>4. /\ DOMAIN reg' = DOMAIN reg /\ reg'.input = reg.input /\ reg'.stored = reg.stored
        /\ reg'.dst = d.dst /\ reg'.passed = (d.err = Nil)
    BY <1>2, <1>3
  <1>5. ~Has("Register") /\ Has("Decode")
    BY <1>1, <1>2
  <1>6. Has("Register")' = Has("Register") /\ Requests' = Requests
    BY <1>2 DEF Has, Requests
  <1>7. d.err = Nil => FromLast(AppStruct, reg.input, d.dst)
    <2> SUFFICES ASSUME d.err = Nil PROVE FromLast(AppStruct, reg.input, d.dst)
      OBVIOUS
    <2> DEFINE x == reg.input.readable /\ ~(reg.input.long /\ Has("LimitRequestBodyBytes"))
    <2>1. Limited = [reg.input EXCEPT !.readable = x]
      BY DEF Limited
    <2>2. /\ d.dst = Assigned(AppStruct, Limited)
          /\ \/ \A k \in 1..5 : Checks(AppStruct, Limited)[k].ok
             \/ \E msg : msg # "nil" /\ d.err = New(msg)
      BY Decoded
    <2>3. \A k \in 1..5 : Checks(AppStruct, Limited)[k].ok
      BY <2>2, NewIs
    <2>4. /\ DOMAIN reg.input = { "path", "cookies", "query", "method", "body", "values",
                                  "readable", "long", "tail" }
          /\ Struct(AppStruct)
      BY <1>1, <1>3, <1>5, RequestIs
    <2> DEFINE in == reg.input
    <2> HIDE DEF x, d, in
    <2>5. FromLast(AppStruct, in, Assigned(AppStruct, [in EXCEPT !.readable = x]))
      BY <2>1, <2>3, <2>4, AssignedIs DEF in
    <2> QED
      BY <2>1, <2>2, <2>5 DEF in
  <1> HIDE DEF d
  <1>8. CASE e = Nil
    <2>1. Enters(g, "Decode") /\ Inside(g) /\ "Decode" \in Names \ {"RequestLimit", "TimeoutHandler"}
      BY <1>2, <1>8 DEF EnterDecode, Names
    <2>2. /\ gor'[g].pc = "enter" /\ gor'[g].at = i /\ gor'[g].todo = <<>>
          /\ \A h \in Goroutine : h # g => gor'[h] = gor[h]
      <3>1. /\ GoesIn(stack, gor[g], gor'[g])
            /\ \A h \in Goroutine : h # g => gor'[h] = gor[h]
        BY <2>1, InsideIs DEF IInv
      <3> QED
        BY <1>2, <3>1 DEF GoesIn
    <2>3. Untold'
      BY <1>1, <1>2, <2>2, UntoldIn, EmptySeq
    <2>4. Past(stack, gor'[g])
      <3>1. i \in 1..i
        BY <1>1
      <3> HIDE DEF i
      <3> QED
        BY <1>2, <2>2, <3>1 DEF Past
    <2>5. \A h \in Goroutine : Past(stack, gor'[h]) /\ gor'[h].pc # "creating"
      BY <1>1, <2>2, <2>4 DEF Past, Inbound
    <2> QED
      BY <1>1, <1>2, <1>3, <1>4, <1>5, <1>6, <1>7, <2>3, <2>5 DEF ReadInv
  <1>9. CASE e # Nil
    <2>1. d.err # Nil
      BY <1>9 DEF Tag
    <2>2. \E at, calls : GoesOn(g, "leave", at, calls)
      BY <1>2, <1>9 DEF Refuse
    <2>3. gor'[g].pc = "leave" /\ \A h \in Goroutine : h # g => gor'[h] = gor[h]
      BY <2>2 DEF GoesOn, IInv, Typed
    <2>4. \A h \in Goroutine : gor'[h].pc \notin Inbound /\ gor'[h].pc # "creating"
      BY <1>1, <2>3 DEF Inbound
    <2>5. ~reg'.passed /\ ~reg'.stored
      BY <1>1, <1>4, <2>1
    <2> QED
      BY <1>2, <1>3, <1>4, <1>5, <1>6, <2>4, <2>5 DEF ReadInv
  <1> QED
    BY <1>8, <1>9

\* Register up to the password.
LEMMA ReadRegister ==
  ASSUME IInv, IInv', Places, ReadInv, NEW g \in Goroutine, EnterRegister(g)
  PROVE  ReadInv'
  <1> DEFINE T == registerInput
             v == ValidateRegister(Assigned(T, Limited))
             d == Decode(T, Limited, v)
             i == gor[g].at + 1
  <1>0. Reads(g)
    BY DEF Reads
  <1>1. /\ gor[g].pc \in Inbound /\ i \in 1..Len(stack) /\ gor[g].at \in Nat
        /\ ~reg.passed /\ ~reg.stored /\ Untold /\ gor[g].todo = <<>>
        /\ \A h \in Goroutine : h # g => gor[h].pc \notin Inbound
        /\ stack \in Stacks /\ ~(Has("Register") /\ Has("Decode")) /\ Has(stack[i])
    BY <1>0, ReadsFirst
  <1>2. PICK verdict \in {Nil, New("weak")} :
          LET e == IF d.err # Nil THEN DecodeError(d.err) ELSE Tag(verdict, AccountsTag, BadRequest)
          IN /\ reg' = [reg EXCEPT !.dst = d.dst, !.err = e]
             /\ IF e = Nil THEN gor' = [gor EXCEPT ![g].pc = "creating"] ELSE Refuse(g, e)
    BY DEF EnterRegister
  <1> DEFINE e == IF d.err # Nil THEN DecodeError(d.err) ELSE Tag(verdict, AccountsTag, BadRequest)
  <1>3. /\ stack[i] = "Register" /\ UNCHANGED <<stack, conn, tw>> /\ gor[g].pc = "enter"
    BY DEF EnterRegister, Enters, Ready, Others
  <1>4. /\ DOMAIN reg = {"input", "dst", "err", "stored", "passed"} /\ reg.input \in Requests
    BY DEF ReadInv
  <1>5. /\ DOMAIN reg' = DOMAIN reg /\ reg'.input = reg.input /\ reg'.stored = reg.stored
        /\ reg'.dst = d.dst /\ reg'.passed = reg.passed /\ reg'.err = e
    BY <1>2, <1>4
  <1>6. Has("Register") /\ ~Has("Decode")
    BY <1>1, <1>3
  <1>7. Has("Register")' = Has("Register") /\ Requests' = Requests
    BY <1>3 DEF Has, Requests
  <1>8. /\ Tagged(e) /\ d.dst = Assigned(T, Limited)
        /\ e = Nil => \A k \in 1..5 : Checks(T, Limited)[k].ok
    <2>1. d = Decode(registerInput, Limited, ValidateRegister(Assigned(registerInput, Limited)))
      OBVIOUS
    <2>2. e = IF d.err # Nil THEN DecodeError(d.err) ELSE Tag(verdict, AccountsTag, BadRequest)
      OBVIOUS
    <2> HIDE DEF d, e
    <2> QED
      BY <2>1, <2>2, RegisterTags
  <1>9. e = Nil => FromLast(T, reg.input, d.dst)
    <2> SUFFICES ASSUME e = Nil PROVE FromLast(T, reg.input, d.dst)
      OBVIOUS
    <2> DEFINE x == reg.input.readable /\ ~(reg.input.long /\ Has("LimitRequestBodyBytes"))
               in == reg.input
    <2>1. Limited = [in EXCEPT !.readable = x]
      BY DEF Limited
    <2>2. DOMAIN in = { "path", "cookies", "query", "method", "body", "values",
                        "readable", "long", "tail" }
      BY <1>1, <1>4, <1>6, RequestIs
    <2>3. Struct(T)
      BY RegisterStruct
    <2>4. d.dst = Assigned(T, Limited) /\ \A k \in 1..5 : Checks(T, Limited)[k].ok
      BY <1>8
    <2> HIDE DEF x, d, in, e, T
    <2>5. FromLast(T, in, Assigned(T, [in EXCEPT !.readable = x]))
      BY <2>1, <2>2, <2>3, <2>4, AssignedIs
    <2> QED
      BY <2>1, <2>4, <2>5 DEF in
  <1>10. IF e = Nil THEN gor' = [gor EXCEPT ![g].pc = "creating"] ELSE Refuse(g, e)
    BY <1>2
  <1> HIDE DEF d, e
  <1>11. CASE e = Nil
    <2>1. gor' = [gor EXCEPT ![g].pc = "creating"]
      BY <1>10, <1>11
    <2>2. /\ gor'[g].pc = "creating" /\ gor'[g].todo = <<>>
          /\ \A h \in Goroutine : h # g => gor'[h] = gor[h]
      BY <1>1, <2>1 DEF IInv, Typed, GorOf
    <2>3. Untold'
      BY <1>1, <1>3, <2>2, UntoldIn, EmptySeq
    <2>4. FromLast(registerInput, reg'.input, reg'.dst)
      BY <1>5, <1>9, <1>11
    <2> QED
      BY <1>1, <1>3, <1>4, <1>5, <1>6, <1>7, <1>8, <2>3, <2>4 DEF ReadInv
  <1>12. CASE e # Nil
    <2>1. \E at, calls : GoesOn(g, "leave", at, calls)
      BY <1>10, <1>12 DEF Refuse
    <2>2. gor'[g].pc = "leave" /\ \A h \in Goroutine : h # g => gor'[h] = gor[h]
      BY <2>1 DEF GoesOn, IInv, Typed
    <2>3. \A h \in Goroutine : gor'[h].pc \notin Inbound /\ gor'[h].pc # "creating"
      BY <1>1, <2>2 DEF Inbound
    <2> QED
      BY <1>1, <1>3, <1>4, <1>5, <1>6, <1>7, <1>8, <2>3 DEF ReadInv
  <1> QED
    BY <1>11, <1>12

\* The account is created, or not.
LEMMA ReadCreates ==
  ASSUME IInv, IInv', Places, ReadInv, NEW g \in Goroutine, RegisterCreates(g)
  PROVE  ReadInv'
  <1> DEFINE i == gor[g].at + 1
  <1>0. Reads(g)
    BY DEF Reads
  <1>1. /\ gor[g].pc \in Inbound /\ i \in 1..Len(stack) /\ gor[g].at \in Nat
        /\ ~reg.passed /\ ~reg.stored /\ Untold /\ gor[g].todo = <<>>
        /\ \A h \in Goroutine : h # g => gor[h].pc \notin Inbound
        /\ stack \in Stacks /\ ~(Has("Register") /\ Has("Decode")) /\ Has(stack[i])
    BY <1>0, ReadsFirst
  <1>2. PICK o \in Create :
          /\ reg' = [reg EXCEPT !.stored = o.stored, !.err = registerError(o.err),
                                !.passed = registerError(o.err) = Nil]
          /\ IF registerError(o.err) = Nil THEN GoesOn(g, "enter", gor[g].at + 1, <<>>)
                                           ELSE Refuse(g, registerError(o.err))
    BY DEF RegisterCreates
  <1> DEFINE e == registerError(o.err)
  <1>3. /\ UNCHANGED <<stack, conn, tw>> /\ gor[g].pc = "creating"
    BY DEF RegisterCreates, Ready, Others
  <1>4. stack[i] = "Register"
    BY <1>3 DEF IInv, Shape, AtLevel
  <1>5. /\ DOMAIN reg = {"input", "dst", "err", "stored", "passed"} /\ reg.input \in Requests
        /\ FromLast(registerInput, reg.input, reg.dst)
    BY <1>3 DEF ReadInv
  <1>6. /\ DOMAIN reg' = DOMAIN reg /\ reg'.input = reg.input /\ reg'.stored = o.stored
        /\ reg'.dst = reg.dst /\ reg'.passed = (e = Nil) /\ reg'.err = e
    BY <1>2, <1>5
  <1>7. Has("Register") /\ ~Has("Decode")
    BY <1>1, <1>4
  <1>8. Has("Register")' = Has("Register") /\ Requests' = Requests
    BY <1>3 DEF Has, Requests
  <1>9. Tagged(e) /\ (e = Nil => o.stored) /\ (e # Nil /\ o.stored => Code(e) = 0)
    BY CreateTags
  <1>10. IF e = Nil THEN GoesOn(g, "enter", i, <<>>) ELSE Refuse(g, e)
    BY <1>2
  <1> HIDE DEF e
  <1>11. CASE e = Nil
    <2>1. GoesOn(g, "enter", i, <<>>)
      BY <1>10, <1>11
    <2>2. /\ gor'[g].pc = "enter" /\ gor'[g].at = i /\ gor'[g].todo = <<>>
          /\ \A h \in Goroutine : h # g => gor'[h] = gor[h]
      BY <2>1 DEF GoesOn, IInv, Typed
    <2>3. Untold'
      BY <1>1, <1>3, <2>2, UntoldIn, EmptySeq
    <2>4. Past(stack, gor'[g])
      <3>1. i \in 1..i
        BY <1>1
      <3> QED
        BY <1>4, <2>2, <3>1 DEF Past
    <2>5. \A h \in Goroutine : Past(stack, gor'[h]) /\ gor'[h].pc # "creating"
      BY <1>1, <2>2, <2>4 DEF Past, Inbound
    <2> QED
      BY <1>3, <1>5, <1>6, <1>7, <1>8, <1>9, <1>11, <2>3, <2>5 DEF ReadInv
  <1>12. CASE e # Nil
    <2> DEFINE code == IF Code(e) = 0 THEN 500 ELSE Code(e)
               at == gor[g].at
    <2>1. GoesOn(g, "leave", at, Error(code, "refusal", at))
      BY <1>10, <1>12 DEF Refuse
    <2>2. /\ gor'[g].pc = "leave" /\ gor'[g].todo = Error(code, "refusal", at)
          /\ \A h \in Goroutine : h # g => gor'[h] = gor[h]
      BY <2>1 DEF GoesOn, IInv, Typed
    <2>3. \A h \in Goroutine : gor'[h].pc \notin Inbound /\ gor'[h].pc # "creating"
      BY <1>1, <2>2 DEF Inbound
    <2>4. o.stored => Untold'
      <3> SUFFICES ASSUME o.stored PROVE Untold'
        OBVIOUS
      <3>1. gor'[g].todo = Error(500, "refusal", at)
        BY <1>9, <1>12, <2>2
      <3>2. Call("header", 500, "refusal", at) \in Mild(stack)
        <4> DEFINE n == 500
                   c == Call("header", n, "refusal", at)
        <4>1. at \in Level(stack) /\ n \in Nat /\ n \in Codes /\ "refusal" \in Who
          BY DEF IInv, Typed, GorOf, Codes, Who
        <4>2. n \notin Mistake
          BY DEF Mistake
        <4> HIDE DEF at, n
        <4>3. c.arg \notin Mistake
          BY <4>2 DEF Call
        <4>4. c \in CallOf(stack, Who, TRUE)
          BY <1>1, <4>1, NewCall
        <4> HIDE DEF c
        <4>5. c \in Mild(stack)
          BY <4>3, <4>4 DEF Mild
        <4> QED
          BY <4>5 DEF c, n
      <3>3. Call("write", 1, "refusal", at) \in Mild(stack)
        <4> DEFINE c == Call("write", 1, "refusal", at)
        <4>1. at \in Level(stack) /\ "refusal" \in Who
          BY DEF IInv, Typed, GorOf, Who
        <4>2. c.op = "write"
          BY DEF Call
        <4> HIDE DEF at
        <4>3. c \in CallOf(stack, Who, TRUE)
          BY <1>1, <4>1, NewCall
        <4> HIDE DEF c
        <4>4. c \in Mild(stack)
          BY <4>2, <4>3 DEF Mild
        <4> QED
          BY <4>4 DEF c
      <3> HIDE DEF at
      <3>4. Error(500, "refusal", at) \in Seq(Mild(stack))
        BY <3>2, <3>3, ErrorIn
      <3> QED
        BY <1>1, <1>3, <2>2, <3>1, <3>4, UntoldIn
    <2>5. \A h \in Goroutine : Past(stack, gor'[h])
      BY <2>3 DEF Past
    <2>6. ~reg'.passed /\ Tagged(reg'.err) /\ (reg'.stored => Untold')
      BY <1>6, <1>9, <1>12, <2>4
    <2>7. reg'.input \in Requests' /\ DOMAIN reg' = {"input", "dst", "err", "stored", "passed"}
      BY <1>5, <1>6, <1>8
    <2> QED
      BY <1>3, <2>3, <2>5, <2>6, <2>7 DEF ReadInv
  <1> QED
    BY <1>11, <1>12

\* Nothing is read at the start.
LEMMA ReadInit ==
  ASSUME RInit
  PROVE  ReadInv
  <1>1. PICK in \in Requests :
          reg = [input |-> in, dst |-> Nothing, err |-> Nil, stored |-> FALSE, passed |-> FALSE]
    BY DEF RInit
  <1>2. /\ \A g \in Goroutine : gor[g].todo = <<>> /\ gor[g].pc \in {"enter", "off"}
        /\ conn.status = 0 /\ tw.resp.status = 0
    BY DEF RInit, Init, Idle, Goroutine, NoResponse
  <1>3. /\ DOMAIN reg = {"input", "dst", "err", "stored", "passed"} /\ reg.input \in Requests
        /\ ~reg.passed /\ ~reg.stored /\ reg.err = Nil
    BY <1>1
  <1>4. Untold
    <2>1. 0 \notin Mistake
      BY DEF Mistake
    <2>2. \A g \in Goroutine : gor[g].todo \in Seq(Mild(stack))
      BY <1>2, EmptySeq
    <2> QED
      BY <1>2, <2>1, <2>2 DEF Untold
  <1>5. Tagged(Nil)
    BY DEF Tagged
  <1> QED
    BY <1>2, <1>3, <1>4, <1>5 DEF ReadInv

\* For every struct type and all requests, in every stack, whatever a timeout or an
\* errHandler does: what the handler inside gets was decoded from the sources that
\* win, a client that is told of its mistake has changed nothing, and ErrorHandler
\* gets the code and the action of every tagged error.
THEOREM AnswersAreTrue == RSpec => []AnswersTruthfully
  <1>1. RInit => IInv /\ Places /\ ReadInv
    BY InitHolds, PlacesInit, ReadInit
  <1>2. IInv /\ Places /\ ReadInv /\ [RNext]_rvars => (IInv /\ Places /\ ReadInv)'
    <2> SUFFICES ASSUME IInv, Places, ReadInv, [RNext]_rvars
                 PROVE  IInv' /\ Places' /\ ReadInv'
      OBVIOUS
    <2>1. IInv'
      BY StepKeeps
    <2>2. ReadInv'
      BY <2>1, ReadOther, ReadDecode, ReadRegister, ReadCreates DEF Reads
    <2> QED
      BY <2>1, <2>2, PlacesKept
  <1>3. ReadInv => AnswersTruthfully
    BY DEF ReadInv, AnswersTruthfully, Untold, Mistake, Tagged
  <1> QED
    BY <1>1, <1>2, <1>3, PTL DEF RSpec

-----------------------------------------------------------------------------
(* CustomErrors: calls in their order. *)

\* Call i of todo, after its first call was replaced by n calls, and call j after that.
LEMMA Shifted ==
  ASSUME NEW S, NEW todo \in Seq(S), todo # <<>>, NEW T, NEW new \in Seq(T), NEW u,
         u = new \o Tail(todo)
  PROVE  /\ Len(u) = Len(new) + Len(todo) - 1 /\ Len(new) \in Nat /\ Len(todo) \in Nat
         /\ Len(todo) >= 1 /\ todo[1] = Head(todo)
         /\ \A j \in 1..Len(new) : u[j] = new[j]
         /\ \A i \in 2..Len(todo) : u[Len(new) + i - 1] = todo[i]
         /\ \A j \in 1..Len(u) :
              \/ j <= Len(new) /\ u[j] = new[j]
              \/ j - Len(new) + 1 \in 2..Len(todo) /\ u[j] = todo[j - Len(new) + 1]
  <1> DEFINE t == Tail(todo)
             R == S \cup T
  <1>1. /\ Len(todo) \in Nat /\ Len(todo) >= 1 /\ t \in Seq(S) /\ Len(t) = Len(todo) - 1
        /\ \A i \in 1..Len(t) : t[i] = todo[i + 1]
        /\ Head(todo) = todo[1]
    <2>1. Len(todo) \in Nat /\ Len(todo) # 0
      BY EmptySeq, LenProperties
    <2>2. /\ t \in Seq(S) /\ Len(t) = Len(todo) - 1
          /\ \A i \in 1..Len(t) : t[i] = todo[i + 1]
      BY HeadTailProperties
    <2> QED
      BY <2>1, <2>2
  <1> HIDE DEF t
  <1>2. t \in Seq(R) /\ new \in Seq(R) /\ Len(t) \in Nat /\ Len(new) \in Nat
    <2>1. S \subseteq R /\ T \subseteq R
      OBVIOUS
    <2> HIDE DEF R
    <2> QED
      BY <1>1, <2>1, SeqMonotonic, LenProperties
  <1>3. /\ Len(u) = Len(new) + Len(t)
        /\ \A i \in 1..(Len(new) + Len(t)) : u[i] = IF i <= Len(new) THEN new[i] ELSE t[i - Len(new)]
    <2> HIDE DEF R
    <2>1. u = new \o t
      BY DEF t
    <2>2. /\ Len(new \o t) = Len(new) + Len(t)
          /\ \A i \in 1..(Len(new) + Len(t)) :
               (new \o t)[i] = IF i <= Len(new) THEN new[i] ELSE t[i - Len(new)]
      BY <1>2, ConcatProperties
    <2> QED
      BY <2>1, <2>2
  <1>4. ASSUME NEW i \in 2..Len(todo)
        PROVE  u[Len(new) + i - 1] = todo[i]
    <2>1. /\ Len(new) + i - 1 \in 1..(Len(new) + Len(t)) /\ ~(Len(new) + i - 1 <= Len(new))
          /\ Len(new) + i - 1 - Len(new) = i - 1 /\ i - 1 \in 1..Len(t) /\ i - 1 + 1 = i
      BY <1>1, <1>2
    <2> QED
      BY <1>1, <1>3, <2>1, SMTT(30)
  <1>5. ASSUME NEW j \in 1..Len(u)
        PROVE  \/ j <= Len(new) /\ u[j] = new[j]
               \/ j - Len(new) + 1 \in 2..Len(todo) /\ u[j] = todo[j - Len(new) + 1]
    <2>1. CASE j <= Len(new)
      BY <1>2, <1>3, <2>1
    <2>2. CASE ~(j <= Len(new))
      <3>1. j - Len(new) \in 1..Len(t) /\ j - Len(new) + 1 \in 2..Len(todo)
        BY <1>1, <1>2, <1>3, <2>2
      <3> QED
        BY <1>1, <1>2, <1>3, <2>2, <3>1
    <2> QED
      BY <2>1, <2>2
  <1>6. \A j \in 1..Len(new) : u[j] = new[j]
    BY <1>2, <1>3
  <1>7. Len(u) = Len(new) + Len(todo) - 1
    BY <1>1, <1>2, <1>3
  <1> QED
    BY <1>1, <1>2, <1>4, <1>5, <1>6, <1>7

\* todo became u: its first call was replaced by new calls.
Changed(todo, new, u) ==
  (\E S : todo \in Seq(S)) /\ todo # <<>> /\ (\E T : new \in Seq(T)) /\ u = new \o Tail(todo)

\* Where the calls of both are then.
LEMMA ShiftedIs ==
  ASSUME NEW todo, NEW new, NEW u, Changed(todo, new, u)
  PROVE  /\ Len(u) = Len(new) + Len(todo) - 1 /\ Len(new) \in Nat /\ Len(todo) \in Nat
         /\ Len(todo) >= 1 /\ todo[1] = Head(todo)
         /\ \A j \in 1..Len(new) : u[j] = new[j]
         /\ \A i \in 2..Len(todo) : u[Len(new) + i - 1] = todo[i]
         /\ \A j \in 1..Len(u) :
              \/ j <= Len(new) /\ u[j] = new[j]
              \/ j - Len(new) + 1 \in 2..Len(todo) /\ u[j] = todo[j - Len(new) + 1]
  <1>1. PICK S, T : todo \in Seq(S) /\ new \in Seq(T)
    BY DEF Changed
  <1>2. todo # <<>> /\ u = new \o Tail(todo)
    BY DEF Changed
  <1> QED
    BY <1>1, <1>2, Shifted

\* An error that is being handled: where.
LEMMA HandledAt ==
  ASSUME NEW todo, NEW new, NEW u, Changed(todo, new, u),
         \A j \in 1..Len(new) : new[j].op # "handled"
  PROVE  /\ Handling(u) <=> \E k \in 2..Len(todo) : todo[k].op = "handled"
         /\ \A k \in 1..Len(u) : u[k].op = "handled" =>
              k - Len(new) + 1 \in 2..Len(todo) /\ todo[k - Len(new) + 1].op = "handled"
  <1>1. \A j \in 1..Len(u) :
          \/ j <= Len(new) /\ u[j] = new[j]
          \/ j - Len(new) + 1 \in 2..Len(todo) /\ u[j] = todo[j - Len(new) + 1]
    BY ShiftedIs
  <1>2. Len(new) \in Nat /\ Len(u) \in Nat
    BY ShiftedIs
  <1>3. ASSUME NEW k \in 1..Len(u), u[k].op = "handled"
        PROVE  k - Len(new) + 1 \in 2..Len(todo) /\ todo[k - Len(new) + 1].op = "handled"
    <2>1. CASE k <= Len(new) /\ u[k] = new[k]
      <3>1. k \in 1..Len(new)
        BY <1>2, <2>1
      <3> QED
        BY <1>3, <2>1, <3>1
    <2> QED
      BY <1>1, <1>3, <2>1
  <1>4. ASSUME NEW k \in 2..Len(todo), todo[k].op = "handled"
        PROVE  Handling(u)
    <2>1. /\ u[Len(new) + k - 1] = todo[k] /\ Len(todo) \in Nat
          /\ Len(u) = Len(new) + Len(todo) - 1
      BY ShiftedIs
    <2>2. Len(new) + k - 1 \in 1..Len(u)
      BY <1>2, <2>1
    <2> QED
      BY <1>4, <2>1, <2>2 DEF Handling
  <1> QED
    BY <1>3, <1>4 DEF Handling

\* The order stays when the new calls have nothing foreign where that matters.
LEMMA OrderedKept ==
  ASSUME NEW todo, NEW new, NEW u, Changed(todo, new, u), NEW c, Ordered(c, todo),
         \A j \in 1..Len(new) : new[j].op # "handled",
         (\E k \in 2..Len(todo) : todo[k].op = "handled") =>
            \A j \in 1..Len(new) : new[j].src \cap Foreign = {}
  PROVE  Ordered(c, u)
  <1>1. /\ Len(new) \in Nat /\ Len(todo) \in Nat /\ Len(u) = Len(new) + Len(todo) - 1
        /\ \A j \in 1..Len(u) :
             \/ j <= Len(new) /\ u[j] = new[j]
             \/ j - Len(new) + 1 \in 2..Len(todo) /\ u[j] = todo[j - Len(new) + 1]
    BY ShiftedIs
  <1>2. \A k \in 1..Len(u) : u[k].op = "handled" =>
          k - Len(new) + 1 \in 2..Len(todo) /\ todo[k - Len(new) + 1].op = "handled"
    BY HandledAt
  <1>3. ASSUME NEW k \in 1..Len(u), u[k].op = "handled"
        PROVE  /\ u[k].at = c
               /\ \A j \in 1..k : u[j].src \cap Foreign = {}
               /\ \A j \in 1..Len(u) : u[j].op = "handled" => j = k
    <2> DEFINE m == k - Len(new) + 1
    <2>1. m \in 2..Len(todo) /\ todo[m].op = "handled"
      BY <1>2, <1>3
    <2>2. k \in Nat /\ Len(u) \in Nat /\ k = m + Len(new) - 1 /\ ~(k <= Len(new)) /\ m \in 1..Len(todo)
      BY <1>1, <2>1
    <2>3. u[k] = todo[m]
      BY <1>1, <2>2
    <2> HIDE DEF m
    <2>4. /\ todo[m].at = c /\ \A j \in 1..m : todo[j].src \cap Foreign = {}
          /\ \A j \in 1..Len(todo) : todo[j].op = "handled" => j = m
      BY <2>1, <2>2 DEF Ordered
    <2>5. ASSUME NEW j \in 1..k
          PROVE  u[j].src \cap Foreign = {}
      <3>1. j \in 1..Len(u)
        BY <2>2
      <3>2. CASE j <= Len(new) /\ u[j] = new[j]
        BY <1>1, <2>1, <3>2
      <3>3. CASE j - Len(new) + 1 \in 2..Len(todo) /\ u[j] = todo[j - Len(new) + 1]
        <4>1. j - Len(new) + 1 \in 1..m
          BY <1>1, <2>1, <2>2, <3>3
        <4> QED
          BY <2>4, <3>3, <4>1
      <3> QED
        BY <1>1, <3>1, <3>2, <3>3
    <2>6. ASSUME NEW j \in 1..Len(u), u[j].op = "handled"
          PROVE  j = k
      <3>1. j - Len(new) + 1 \in 2..Len(todo) /\ todo[j - Len(new) + 1].op = "handled"
        BY <1>2, <2>6
      <3>2. j - Len(new) + 1 = m
        BY <1>1, <2>4, <3>1
      <3> QED
        BY <1>1, <2>2, <3>2
    <2> QED
      BY <2>3, <2>4, <2>5, <2>6
  <1> QED
    BY <1>3 DEF Ordered

\* What is on its way stays so, when the first call made new ones.
LEMMA FliesOn ==
  ASSUME NEW todo, NEW new, NEW u, Changed(todo, new, u), NEW c, NEW j \in 1..Len(todo),
         InFlight(c, todo, j), Head(todo).op # "handled",
         j = 1 => \E m \in 1..Len(new) :
                    /\ new[m].op = Head(todo).op /\ new[m].src = Head(todo).src /\ new[m].arg > 0
                    /\ Head(todo).at < c => new[m].at < c
  PROVE  Flies(c, u)
  <1>1. /\ Len(new) \in Nat /\ Len(todo) \in Nat /\ Len(u) = Len(new) + Len(todo) - 1
        /\ todo[1] = Head(todo) /\ \A i \in 1..Len(new) : u[i] = new[i]
        /\ \A i \in 2..Len(todo) : u[Len(new) + i - 1] = todo[i]
    BY ShiftedIs
  <1>2. /\ todo[j].op \in {"write", "copy"} /\ todo[j].arg > 0 /\ todo[j].src \cap Own # {}
        /\ todo[j].at < c \/ \E k \in (j + 1)..Len(todo) : todo[k].op = "handled"
    BY DEF InFlight
  <1>3. ASSUME NEW i \in 1..Len(u), u[i].op \in {"write", "copy"}, u[i].arg > 0,
               u[i].src \cap Own # {}, todo[j].at < c => u[i].at < c, i < Len(new) + j
        PROVE  Flies(c, u)
    <2>1. CASE todo[j].at < c
      BY <1>3, <2>1 DEF Flies, InFlight
    <2>2. CASE \E k \in (j + 1)..Len(todo) : todo[k].op = "handled"
      <3>1. PICK k \in (j + 1)..Len(todo) : todo[k].op = "handled"
        BY <2>2
      <3>2. k \in 2..Len(todo)
        BY <1>1
      <3>3. u[Len(new) + k - 1] = todo[k] /\ Len(new) + k - 1 \in (i + 1)..Len(u)
        BY <1>1, <1>3, <3>2
      <3> QED
        BY <1>3, <3>1, <3>3 DEF Flies, InFlight
    <2> QED
      BY <1>2, <2>1, <2>2
  <1>4. CASE j = 1
    <2>1. PICK m \in 1..Len(new) :
            /\ new[m].op = todo[1].op /\ new[m].src = todo[1].src /\ new[m].arg > 0
            /\ todo[1].at < c => new[m].at < c
      BY <1>1, <1>4
    <2>2. m \in 1..Len(u) /\ m < Len(new) + j /\ u[m] = new[m]
      BY <1>1, <1>4
    <2> QED
      BY <1>2, <1>3, <1>4, <2>1, <2>2
  <1>5. CASE j # 1
    <2> DEFINE i == Len(new) + j - 1
    <2>1. j \in 2..Len(todo)
      BY <1>1, <1>5
    <2>2. u[i] = todo[j]
      BY <1>1, <2>1
    <2>3. i \in 1..Len(u) /\ i < Len(new) + j
      BY <1>1, <2>1
    <2> HIDE DEF i
    <2> QED
      BY <1>2, <1>3, <2>2, <2>3
  <1> QED
    BY <1>4, <1>5

-----------------------------------------------------------------------------
(* CustomErrors: who comes to it. *)

\* TimeoutHandler is further out than CustomErrors if inner comes to it, and further
\* in if serve does.
LEMMA ComerIs ==
  ASSUME stack \in Stacks, NEW c \in 1..Len(stack), stack[c] = "CustomErrors"
  PROVE  /\ Comer(stack, c) \in Goroutine /\ c \in Nat /\ c > 0 /\ c <= Len(stack) /\ Len(stack) \in Nat
         /\ Wrapped(c) /\ \A i \in 1..Len(stack) : stack[i] = "CustomErrors" => i = c
         /\ Comer(stack, c) = "inner" => \E t \in 1..Len(stack) : stack[t] = "TimeoutHandler" /\ t < c
         /\ Comer(stack, c) # "inner" =>
              \A t \in 1..Len(stack) : stack[t] = "TimeoutHandler" => c < t
  <1>1. /\ Len(stack) \in Nat /\ \A i, j \in 1..Len(stack) : stack[i] = stack[j] => i = j
        /\ c \in Nat /\ c > 0 /\ c <= Len(stack)
    BY StackFacts
  <1>2. Wrapped(c) /\ \A i \in 1..Len(stack) : stack[i] = "CustomErrors" => i = c
    BY <1>1 DEF Wrapped
  <1>3. CASE \E t \in 1..c : stack[t] = "TimeoutHandler"
    <2>1. PICK t \in 1..c : stack[t] = "TimeoutHandler"
      BY <1>3
    <2>2. Comer(stack, c) = "inner"
      BY <1>3 DEF Comer
    <2>3. t # c
      BY <2>1
    <2>4. t \in 1..Len(stack) /\ t < c
      BY <1>1, <2>3
    <2> QED
      BY <1>1, <1>2, <2>1, <2>2, <2>4 DEF Goroutine
  <1>4. CASE ~\E t \in 1..c : stack[t] = "TimeoutHandler"
    <2>1. Comer(stack, c) = "serve"
      BY <1>4 DEF Comer
    <2>2. ASSUME NEW t \in 1..Len(stack), stack[t] = "TimeoutHandler"
          PROVE  c < t
      <3>1. ~(t \in 1..c)
        BY <1>4, <2>2
      <3> QED
        BY <1>1, <3>1
    <2> QED
      BY <1>1, <1>2, <2>1, <2>2 DEF Goroutine
  <1> QED
    BY <1>3, <1>4

\* A goroutine that has a call of level c is the one that comes there, and nobody
\* comes from further out any more.
LEMMA CallerIs ==
  ASSUME IInv, Places, NEW c \in 1..Len(stack), stack[c] = "CustomErrors",
         NEW g \in Goroutine, NEW j \in 1..Len(gor[g].todo), gor[g].todo[j].at = c
  PROVE  /\ g = Comer(stack, c) /\ gor[g].at >= c
         /\ \A h \in Goroutine : gor[h].pc \in Inbound => gor[h].at >= c
  <1> DEFINE todo == gor[g].todo
             x == todo[j]
  <1>1. /\ stack \in Stacks /\ gor[g].at \in Level(stack)
        /\ \A h \in Goroutine : gor[h].at \in Level(stack)
        /\ Control(stack, gor["serve"], gor["inner"], tw.err)
        /\ "serve" \in Goroutine /\ "inner" \in Goroutine
    BY DEF IInv, Typed, GorOf, Shape, Goroutine
  <1>2. /\ Comer(stack, c) \in Goroutine /\ c \in Nat /\ c > 0 /\ Len(stack) \in Nat
        /\ Comer(stack, c) = "inner" => \E t \in 1..Len(stack) : stack[t] = "TimeoutHandler" /\ t < c
        /\ Comer(stack, c) # "inner" =>
              \A t \in 1..Len(stack) : stack[t] = "TimeoutHandler" => c < t
    BY <1>1, ComerIs
  <1>3. /\ todo # <<>> => gor[g].pc \in {"handler", "leave"}
        /\ todo \in Seq(Between(stack, 0, gor[g].at))
    BY DEF Places, Placed
  <1>4. todo # <<>>
    <2>1. CASE todo = <<>>
      <3>1. Len(todo) = 0
        BY <2>1, EmptySeq
      <3>2. j \in 1..Len(todo)
        OBVIOUS
      <3> HIDE DEF todo
      <3> QED
        BY <3>1, <3>2
    <2> QED
      BY <2>1
  <1>5. gor[g].pc \in {"handler", "leave"}
    BY <1>3, <1>4
  <1>6. ASSUME NEW S, todo \in Seq(S)
        PROVE  x \in S
    <2>1. j \in 1..Len(todo)
      OBVIOUS
    <2> HIDE DEF todo
    <2> QED
      BY <1>6, <2>1, ElementOfSeq
  <1>7. gor[g].at >= c
    <2>1. x \in Between(stack, 0, gor[g].at) /\ x.at = c
      BY <1>3, <1>6
    <2> HIDE DEF x
    <2>2. c <= gor[g].at
      BY <2>1 DEF Between
    <2> QED
      BY <1>1, <1>2, <2>2 DEF Level
  <1>8. CASE g = "serve"
    <2>1. Comer(stack, c) # "inner"
      <3> SUFFICES ASSUME Comer(stack, c) = "inner" PROVE FALSE
        OBVIOUS
      <3>1. PICK t \in 1..Len(stack) : stack[t] = "TimeoutHandler" /\ t < c
        BY <1>2
      <3>2. gor["serve"].at <= t
        BY <3>1 DEF Places, InTime
      <3> QED
        BY <1>1, <1>2, <1>7, <1>8, <3>1, <3>2 DEF Level
    <2>2. gor["inner"].pc \in Inbound => gor["inner"].at >= c
      <3> SUFFICES ASSUME gor["inner"].pc \in Inbound PROVE gor["inner"].at >= c
        OBVIOUS
      <3>1. gor["inner"].pc # "off" /\ gor["serve"].pc # "wait"
        BY <1>5, <1>8 DEF Inbound
      <3>2. PICK i \in 1..Len(stack) : gor["inner"].at >= i /\ gor["serve"].at < i
        BY <1>1, <3>1 DEF Control
      <3> QED
        BY <1>1, <1>2, <1>7, <1>8, <3>2 DEF Level
    <2>3. gor["serve"].pc \notin Inbound
      BY <1>5, <1>8 DEF Inbound
    <2> QED
      BY <1>2, <1>7, <1>8, <2>1, <2>2, <2>3 DEF Goroutine
  <1>9. CASE g = "inner"
    <2>0. gor["inner"].pc # "off"
      BY <1>5, <1>9
    <2>1. Comer(stack, c) = "inner"
      <3> SUFFICES ASSUME Comer(stack, c) # "inner" PROVE FALSE
        OBVIOUS
      <3>1. PICK t \in 1..Len(stack) : stack[t] = "TimeoutHandler"
        BY <1>1, <2>0 DEF Control
      <3>2. todo \in Seq(Between(stack, t, Len(stack)))
        BY <1>9, <3>1 DEF Places, InTime
      <3>3. x \in Between(stack, t, Len(stack)) /\ x.at = c /\ c < t
        BY <1>2, <1>6, <3>1, <3>2
      <3> HIDE DEF x
      <3>4. t <= c
        BY <3>3 DEF Between
      <3> QED
        BY <1>2, <3>3, <3>4
    <2>2. gor["serve"].pc \notin Inbound
      BY <1>1, <2>0 DEF Control, Inbound
    <2>3. gor["inner"].pc \notin Inbound
      BY <1>5, <1>9 DEF Inbound
    <2> QED
      BY <1>7, <1>9, <2>1, <2>2, <2>3 DEF Goroutine
  <1> QED
    BY <1>8, <1>9 DEF Goroutine

\* No error is being handled before errHandler was called, or in an empty list.
LEMMA NotHandled ==
  ASSUME Typed, NEW g \in Goroutine, ~custom.called \/ gor[g].todo = <<>>
  PROVE  ~Handling(gor[g].todo)
  <1>1. gor[g].todo \in Seq(CallOf(stack, Who, custom.called))
    BY DEF Typed, GorOf
  <1>2. ASSUME NEW k \in 1..Len(gor[g].todo), gor[g].todo[k].op = "handled"
        PROVE  FALSE
    <2> DEFINE todo == gor[g].todo
               x == todo[k]
    <2>1. x \in CallOf(stack, Who, custom.called) /\ x.op = "handled" /\ k \in 1..Len(todo)
      BY <1>1, <1>2, ElementOfSeq
    <2>2. custom.called
      <3> HIDE DEF x
      <3> QED
        BY <2>1, CallFields
    <2>3. todo = <<>>
      BY <2>2
    <2>4. Len(todo) = 0
      BY <2>3, EmptySeq
    <2> HIDE DEF todo
    <2> QED
      BY <2>1, <2>4
  <1> QED
    BY <1>2 DEF Handling

\* Nor is it in a list without.
LEMMA NoneHandled ==
  ASSUME NEW todo \in Seq({ x \in CallOf(stack, Who, TRUE) : x.op # "handled" }), NEW c
  PROVE  ~Handling(todo) /\ Ordered(c, todo)
  <1> DEFINE S == { x \in CallOf(stack, Who, TRUE) : x.op # "handled" }
  <1>1. \A k \in 1..Len(todo) : todo[k] \in S
    BY ElementOfSeq
  <1>2. \A k \in 1..Len(todo) : todo[k].op # "handled"
    BY <1>1
  <1> QED
    BY <1>2 DEF Handling, Ordered

\* What is said handles nothing.
LEMMA SaidUnhandled ==
  ASSUME stack \in Stacks, NEW r, NEW q, NEW C, C \subseteq Codes, Says(r, q, C),
         q.at \in Level(stack)
  PROVE  q.todo \in Seq({ x \in CallOf(stack, Who, TRUE) : x.op # "handled" })
  <1> DEFINE S == { x \in CallOf(stack, Who, TRUE) : x.op # "handled" }
  <1>1. {200, 404, 500} \cup C \subseteq Codes
    BY DEF Codes
  <1>2. C \subseteq Nat
    BY DEF Codes
  <1>3. ASSUME NEW op \in {"header", "write", "copy"}, NEW arg \in Nat,
               NEW src \in {"handler", "refusal", "recover"},
               op = "header" => arg \in {200, 404, 500} \cup C
        PROVE  Call(op, arg, src, q.at) \in S
    <2> DEFINE at == q.at
               x == Call(op, arg, src, at)
    <2>1. /\ op \in {"header", "write", "copy", "handled"} /\ at \in Level(stack) /\ src \in Who
          /\ op = "header" => arg \in Codes
      BY <1>1, <1>3 DEF Who
    <2>2. x.op # "handled"
      BY <1>3 DEF Call
    <2> HIDE DEF at
    <2>3. x \in CallOf(stack, Who, TRUE)
      BY <2>1, NewCall
    <2> HIDE DEF x
    <2>4. x \in S
      BY <2>2, <2>3
    <2> QED
      BY <2>4 DEF at, x
  <1> HIDE DEF S
  <1>4. Hears(S, C, q.at)
    BY <1>3 DEF Hears
  <1>5. q.todo \in Seq(S)
    BY <1>2, <1>4, SaysIn
  <1> QED
    BY <1>5 DEF S

\* A foreign call comes to CustomErrors first, when it is said inside of it.
LEMMA SaidPure ==
  ASSUME stack \in Stacks, NEW r, NEW q, NEW C, C \subseteq Codes, Says(r, q, C),
         q.at \in Level(stack), NEW c \in 1..Len(stack), Wrapped(c),
         q.at >= c \/ r.pc \notin {"enter", "creating", "handler"}
  PROVE  q.todo \in Seq(Pure(stack, c))
  <1> DEFINE S == Pure(stack, c)
  <1>1. {200, 404, 500} \cup C \subseteq Codes
    BY DEF Codes
  <1>2. C \subseteq Nat
    BY DEF Codes
  <1>3. Len(stack) \in Nat /\ q.at \in Nat /\ c \in Nat
    BY StackFacts DEF Level
  <1>4. ASSUME NEW op \in {"header", "write", "copy"}, NEW arg \in Nat,
               NEW src \in {"handler", "refusal", "recover"},
               op = "header" => arg \in {200, 404, 500} \cup C,
               q.at >= c \/ src = "recover"
        PROVE  Call(op, arg, src, q.at) \in S
    <2> DEFINE at == q.at
               x == Call(op, arg, src, at)
    <2>1. /\ op \in {"header", "write", "copy", "handled"} /\ at \in Level(stack) /\ src \in Who
          /\ op = "header" => arg \in Codes
      BY <1>1, <1>4 DEF Who
    <2>2. x.at = Writer(at) /\ x.src = {src}
      BY DEF Call
    <2>3. at >= c => Writer(at) >= c /\ Writer(at) \in 0..at
      BY <1>3, WriterAbove
    <2>4. x.at < c => x.src \cap Foreign = {}
      <3>1. CASE at >= c
        BY <1>3, <2>2, <2>3, <3>1
      <3>2. CASE src = "recover"
        BY <2>2, <3>2 DEF Foreign
      <3> QED
        BY <1>4, <3>1, <3>2
    <2> HIDE DEF at
    <2>5. x \in CallOf(stack, Who, TRUE)
      BY <2>1, NewCall
    <2> HIDE DEF x
    <2>6. x \in Pure(stack, c)
      BY <2>4, <2>5 DEF Pure
    <2> QED
      BY <2>6 DEF at, x
  <1> HIDE DEF S
  <1>5. CASE q.at >= c
    <2>1. Hears(S, C, q.at)
      BY <1>4, <1>5 DEF Hears
    <2>2. q.todo \in Seq(S)
      BY <1>2, <2>1, SaysIn
    <2> QED
      BY <2>2 DEF S
  <1>6. CASE q.todo = <<>>
    BY <1>6, EmptySeq
  <1>7. CASE q.todo = Error(500, "recover", q.at)
    <2>1. Call("header", 500, "recover", q.at) \in S /\ Call("write", 1, "recover", q.at) \in S
      BY <1>4
    <2>2. q.todo \in Seq(S)
      BY <1>7, <2>1, ErrorIn
    <2> QED
      BY <2>2 DEF S
  <1> QED
    BY <1>5, <1>6, <1>7 DEF Says

-----------------------------------------------------------------------------
(* CustomErrors: the steps other than calls. *)

\* What a step of TimeoutHandler or a turn leaves of the state of CustomErrors.
Besides(c) ==
  /\ UNCHANGED <<stack, custom>> /\ conn'.src = conn.src /\ tw'.resp.src = tw.resp.src
  /\ \A g \in Goroutine : gor'[g].todo = gor[g].todo
       \/ (~Handling(gor[g].todo) /\ ~Handling(gor'[g].todo) /\ Ordered(c, gor'[g].todo))
  /\ \A g \in Goroutine : gor'[g].pc \in Inbound =>
       \E h \in Goroutine : gor[h].pc \in Inbound /\ gor'[g].at >= gor[h].at

\* Then it is left to show what may come, that it is pure, and that it landed.
LEMMA CustomBesides ==
  ASSUME IInv, IInv', NEW c \in 1..Len(stack), stack[c] = "CustomErrors", CustomAt(c), Besides(c),
         Coming(c)' => Coming(c),
         Simple(c)' /\ Clean(c) => \A g \in Goroutine : gor'[g].todo \in Seq(Pure(stack, c)),
         Landed(c) => Landed(c)'
  PROVE  CustomAt(c)'
  <1>1. Handled' <=> Handled
    BY DEF Handled, Besides
  <1>2. \A g \in Goroutine : Ordered(c, gor'[g].todo)
    BY DEF CustomAt, Besides
  <1>3. custom' = custom /\ stack' = stack /\ conn'.src = conn.src /\ tw'.resp.src = tw.resp.src
    BY DEF Besides
  <1>4. ASSUME NEW g \in Goroutine, custom.called, gor'[g].pc \in Inbound
        PROVE  gor'[g].at >= c
    <2>1. PICK h \in Goroutine : gor[h].pc \in Inbound /\ gor'[g].at >= gor[h].at
      BY <1>4 DEF Besides
    <2>2. gor[h].at >= c
      BY <1>4, <2>1 DEF CustomAt
    <2>3. gor[h].at \in Level(stack) /\ gor'[g].at \in Level(stack) /\ Len(stack) \in Nat
      BY <1>3, StackFacts DEF IInv, Typed, GorOf
    <2> QED
      BY <2>1, <2>2, <2>3 DEF Level
  <1>5. Simple(c)' => Simple(c)
    BY <1>1, <1>3 DEF Simple
  <1>6. Simple(c)' => Clean(c)'
    <2> SUFFICES ASSUME Simple(c)' PROVE Clean(c)'
      OBVIOUS
    <2>1. Clean(c)
      BY <1>5 DEF CustomAt
    <2>2. \A g \in Goroutine : gor'[g].todo \in Seq(Pure(stack, c))
      BY <2>1
    <2> QED
      BY <1>3, <2>1, <2>2 DEF Clean
  <1> QED
    BY <1>1, <1>2, <1>3, <1>4, <1>6 DEF CustomAt

\* A turn.
LEMMA CustomTurn ==
  ASSUME IInv, IInv', Places, NEW c \in 1..Len(stack), stack[c] = "CustomErrors", CustomAt(c),
         NEW g \in Goroutine, NEW C, C \subseteq Codes, Turn(g, C)
  PROVE  CustomAt(c)'
  <1> DEFINE r == gor[g]
             q == gor'[g]
             G == Comer(stack, c)
  <1>1. /\ stack \in Stacks /\ UNCHANGED <<stack, tw, custom>> /\ Says(r, q, C) /\ r.todo = <<>>
        /\ (conn' = conn \/ ServeEnds) /\ Typed /\ AnyMove(stack, Base(g), g, r, q)
        /\ \A h \in Goroutine : h # g => gor'[h] = gor[h]
    BY DEF IInv, Typed, Turn, Alone
  <1>2. /\ r.pc # "wait" /\ q.pc # "wait" /\ r.at \in Level(stack) /\ q.at \in Level(stack)
        /\ \/ /\ q.at = r.at + 1 /\ r.pc \in {"enter", "creating"}
              /\ q.pc \in {"enter", "sleep"}
           \/ q.at = r.at /\ (q.pc \in Inbound => r.pc \in Inbound)
           \/ /\ q.at = r.at - 1
              /\ q.pc \in {"leave", "panic"} /\ r.pc \in {"leave", "consuming", "panic"}
        /\ q.pc \in {"handler", "setting"} => q.at = Len(stack)
    BY TurnMoves
  <1>3. /\ G \in Goroutine /\ c \in Nat /\ c > 0 /\ c <= Len(stack) /\ Len(stack) \in Nat /\ Wrapped(c)
        /\ G = "inner" => \E t \in 1..Len(stack) : stack[t] = "TimeoutHandler" /\ t < c
        /\ G # "inner" => \A t \in 1..Len(stack) : stack[t] = "TimeoutHandler" => c < t
    BY <1>1, ComerIs
  <1>4. conn'.src = conn.src
    BY <1>1 DEF ServeEnds, IInv, Typed, Answer
  <1>5. Inward
    BY InwardTurn
  <1>6. Besides(c)
    <2>1. ~Handling(r.todo)
      BY <1>1, NotHandled
    <2>2. ~Handling(q.todo) /\ Ordered(c, q.todo)
      BY <1>1, <1>2, SaidUnhandled, NoneHandled
    <2> QED
      BY <1>1, <1>4, <1>5, <2>1, <2>2 DEF Besides, Inward
  <1>7. Coming(c)' => Coming(c)
    <2>1. ASSUME NEW h \in Goroutine, gor'[h].pc \in Inbound
          PROVE  Coming(c)
      BY <1>5, <2>1 DEF Inward, Coming
    <2>2. ASSUME gor'[G].at >= c
          PROVE  Coming(c)
      <3>1. CASE G = g
        BY <1>2, <1>3, <2>2, <3>1 DEF Coming, Inbound, Level
      <3>2. CASE G # g
        BY <1>1, <1>3, <2>2, <3>2 DEF Coming
      <3> QED
        BY <3>1, <3>2
    <2> QED
      BY <1>1, <2>1, <2>2 DEF Coming
  <1>8. ASSUME Simple(c)', Clean(c)
        PROVE  \A h \in Goroutine : gor'[h].todo \in Seq(Pure(stack, c))
    <2>1. CASE q.at >= c \/ r.pc \notin {"enter", "creating", "handler"}
      <3>1. q.todo \in Seq(Pure(stack, c))
        BY <1>1, <1>2, <1>3, <2>1, SaidPure
      <3> QED
        BY <1>1, <1>8, <3>1 DEF Clean
    <2>2. CASE q.todo = <<>>
      BY <1>1, <1>8, <2>2, EmptySeq DEF Clean
    <2>3. CASE q.at < c /\ r.pc \in {"enter", "creating", "handler"} /\ q.todo # <<>>
      <3>1. r.pc \in {"enter", "creating"} /\ q.pc = "leave" /\ q.at = r.at
        <4>1. r.pc = "handler" /\ q.pc = "handler" => q.at >= c
          BY <1>2, <1>3 DEF Level
        <4>2. r.pc # "panic"
          BY <2>3
        <4>3. ~(q.at >= c)
          BY <1>2, <1>3, <2>3 DEF Level
        <4> QED
          BY <1>1, <2>3, <4>1, <4>2, <4>3 DEF Says
      <3>2. r.pc \in Inbound /\ ~(r.at >= c)
        BY <1>2, <1>3, <2>3, <3>1 DEF Inbound, Level
      <3>3. ~custom.called
        BY <3>2 DEF CustomAt
      <3>4. ~custom.noop
        BY <1>1, <3>3 DEF Typed
      <3>5. ~Handled
        BY <1>1, <3>3, NotHandled DEF Handled
      <3>6. ~Handled'
        BY <1>6, <3>5 DEF Besides, Handled
      <3>7. Coming(c)'
        BY <1>1, <1>8, <3>4, <3>6 DEF Simple
      <3>8. \A h \in Goroutine : gor'[h].pc \notin Inbound
        <4>1. \A h \in Goroutine : h # g => gor[h].pc \notin Inbound
          BY <3>2, OneInbound
        <4>2. q.pc \notin Inbound
          BY <3>1 DEF Inbound
        <4> QED
          BY <1>1, <4>1, <4>2
      <3>9. gor'[G].at >= c
        BY <1>1, <3>7, <3>8 DEF Coming
      <3>10. G # g
        BY <1>2, <1>3, <2>3, <3>9 DEF Level
      <3>11. gor[G].at >= c
        BY <1>1, <1>3, <3>9, <3>10
      <3>12. Control(stack, gor["serve"], gor["inner"], tw.err)
        BY DEF IInv, Shape
      <3>13. CASE g = "serve"
        <4>1. G = "inner" /\ gor["inner"].pc = "off"
          BY <1>3, <3>1, <3>10, <3>12, <3>13 DEF Control, Goroutine
        <4>2. gor["inner"].at = 0
          BY <4>1 DEF Places, InTime
        <4> QED
          BY <1>3, <3>11, <4>1, <4>2
      <3>14. CASE g = "inner"
        <4>1. PICK t \in 1..Len(stack) : stack[t] = "TimeoutHandler" /\ r.at >= t
          BY <3>1, <3>12, <3>14 DEF Control
        <4>2. c < t
          BY <1>3, <3>10, <3>14, <4>1
        <4> QED
          BY <1>2, <1>3, <3>2, <4>1, <4>2 DEF Level
      <3> QED
        BY <3>13, <3>14 DEF Goroutine
    <2> QED
      BY <1>2, <1>3, <2>1, <2>2, <2>3 DEF Level
  <1>9. ASSUME Landed(c)
        PROVE  Landed(c)'
    <2>1. CASE conn.src \cap Own # {} \/ tw.err
      BY <1>1, <1>4, <2>1 DEF Landed
    <2>2. ASSUME NEW h \in Goroutine, Flies(c, gor[h].todo)
          PROVE  Landed(c)'
      <3>1. CASE h = g
        <4>1. gor[h].todo = <<>>
          BY <1>1, <3>1
        <4>2. Len(gor[h].todo) = 0
          BY <4>1, EmptySeq
        <4> QED
          BY <2>2, <4>2 DEF Flies
      <3>2. CASE h # g
        BY <1>1, <2>2, <3>2 DEF Landed
      <3> QED
        BY <3>1, <3>2
    <2>3. CASE G = "inner" /\ gor["serve"].pc = "wait" /\ tw.resp.src \cap Own # {}
      <3>1. g # "serve" /\ "serve" \in Goroutine
        BY <1>2, <2>3 DEF Goroutine
      <3> QED
        BY <1>1, <2>3, <3>1 DEF Landed
    <2>4. CASE G = "inner" /\ gor["serve"].pc \in {"panic", "aborted"}
      <3>1. CASE g # "serve"
        BY <1>1, <2>4, <3>1 DEF Landed, Goroutine
      <3>2. CASE g = "serve" /\ q.pc \in {"panic", "aborted"}
        BY <1>1, <2>4, <3>2 DEF Landed
      <3>3. CASE g = "serve" /\ q.pc \notin {"panic", "aborted"}
        <4>1. r.pc = "panic" /\ q.pc = "leave"
          BY <1>1, <2>4, <3>3 DEF AnyMove, Move, Writes, GoesIn, Refused, Sleeps, Wakes, Handles,
                                  GoesOut, Panics
        <4>2. q.todo = Error(500, "recover", q.at)
          BY <1>1, <4>1 DEF Says
        <4> DEFINE a == Call("header", 500, "recover", q.at)
                   b == Call("write", 1, "recover", q.at)
        <4>3. q.todo = <<a, b>>
          BY <4>2 DEF Error
        <4>4. b.op = "write" /\ b.arg = 1 /\ b.src = {"recover"} /\ b.at = Writer(q.at)
          BY DEF Call
        <4>5. b.at < c
          <5>1. PICK t \in 1..Len(stack) : stack[t] = "TimeoutHandler" /\ t < c
            BY <1>3, <2>4
          <5>2. r.at <= t
            BY <3>3, <5>1 DEF Places, InTime
          <5>3. q.at \in Nat /\ q.at <= r.at
            BY <1>2, <4>1 DEF Level
          <5>4. Writer(q.at) \in 0..q.at
            BY <5>3, WriterIs
          <5> HIDE DEF q, r, b
          <5> QED
            BY <1>2, <1>3, <4>4, <5>1, <5>2, <5>3, <5>4 DEF Level
        <4>6. b.src \cap Own # {} /\ b.arg > 0
          <5> HIDE DEF b
          <5>1. "recover" \in b.src \cap Own
            BY <4>4 DEF Own
          <5> QED
            BY <4>4, <5>1
        <4> HIDE DEF a, b, q
        <4>7. q.todo[2] = b /\ 2 \in 1..Len(q.todo)
          BY <4>3
        <4>8. InFlight(c, q.todo, 2)
          BY <4>4, <4>5, <4>6, <4>7 DEF InFlight
        <4>9. Flies(c, q.todo)
          BY <4>7, <4>8 DEF Flies
        <4> QED
          BY <4>9 DEF Landed, q
      <3> QED
        BY <3>1, <3>2, <3>3
    <2> QED
      BY <1>9, <2>1, <2>2, <2>3, <2>4 DEF Landed
  <1> QED
    BY <1>6, <1>7, <1>8, <1>9, CustomBesides

\* TimeoutHandler starts inner: nobody has anything to say yet.
LEMMA CustomEnters ==
  ASSUME IInv, IInv', Places, NEW c \in 1..Len(stack), stack[c] = "CustomErrors", CustomAt(c),
         EnterTimeout
  PROVE  CustomAt(c)'
  <1>1. /\ UNCHANGED <<stack, conn, tw, custom>> /\ gor["serve"].todo = <<>>
        /\ gor["serve"].pc = "enter" /\ gor["inner"].pc = "off"
        /\ \A g \in Goroutine : gor'[g].todo = <<>>
        /\ "serve" \in Goroutine /\ "inner" \in Goroutine
    BY EnterTimeoutIs DEF Goroutine
  <1>2. \A g \in Goroutine : gor[g].todo = <<>>
    <2>1. gor["inner"].todo = <<>>
      BY <1>1 DEF Places, Placed
    <2> QED
      BY <1>1, <2>1 DEF Goroutine
  <1>3. Inward
    BY InwardOther
  <1>4. Besides(c)
    BY <1>1, <1>2, <1>3 DEF Besides, Inward
  <1>5. Coming(c)
    BY <1>1 DEF Coming, Inbound
  <1>6. \A g \in Goroutine : gor'[g].todo \in Seq(Pure(stack, c))
    BY <1>1, EmptySeq
  <1>7. ASSUME Landed(c)
        PROVE  Landed(c)'
    <2>1. \A g \in Goroutine : ~Flies(c, gor[g].todo)
      <3>1. \A g \in Goroutine : Len(gor[g].todo) = 0
        BY <1>2, EmptySeq
      <3> QED
        BY <3>1 DEF Flies
    <2> QED
      BY <1>1, <1>7, <2>1 DEF Landed
  <1> QED
    BY <1>4, <1>5, <1>6, <1>7, CustomBesides

\* Serve leaves it: what is in the buffer has passed CustomErrors, or comes to it.
LEMMA CustomWaited ==
  ASSUME IInv, IInv', Places, NEW c \in 1..Len(stack), stack[c] = "CustomErrors", CustomAt(c),
         tw.resp.src # {} => tw.resp.bytes > 0,
         Flush \/ Timeout \/ PanicPassed
  PROVE  CustomAt(c)'
  <1> DEFINE t == gor["serve"].at
             q == gor'["serve"]
             G == Comer(stack, c)
  <1>1. /\ UNCHANGED <<stack, conn, custom>> /\ tw'.resp = tw.resp /\ gor'["inner"] = gor["inner"]
        /\ gor["serve"].pc = "wait" /\ gor["serve"].todo = <<>>
        /\ t \in 1..Len(stack) /\ stack[t] = "TimeoutHandler"
        /\ q.at = t - 1 /\ q.at \in Level(stack) /\ q.pc \in {"leave", "panic"}
    BY WaitedIs
  <1>2. q.todo \in Seq(FromBuffer(q.at))
    BY FlushSays
  <1>3. /\ stack \in Stacks /\ Typed /\ "serve" \in Goroutine /\ "inner" \in Goroutine
        /\ \A i, j \in 1..Len(stack) : stack[i] = stack[j] => i = j
        /\ \A g \in Goroutine : g \in {"serve", "inner"}
    BY StackFacts DEF IInv, Typed, Goroutine
  <1>4. /\ G \in Goroutine /\ c \in Nat /\ c > 0 /\ c <= Len(stack) /\ Len(stack) \in Nat /\ Wrapped(c)
        /\ G = "inner" => t < c
        /\ G # "inner" => c < t
    <2>1. /\ G = "inner" => \E i \in 1..Len(stack) : stack[i] = "TimeoutHandler" /\ i < c
          /\ G # "inner" => c < t
          /\ G \in Goroutine /\ c \in Nat /\ c > 0 /\ c <= Len(stack) /\ Len(stack) \in Nat
          /\ Wrapped(c)
      BY <1>1, <1>3, ComerIs
    <2>2. G = "inner" => t < c
      BY <1>1, <1>3, <2>1
    <2> QED
      BY <2>1, <2>2
  <1>5. Writer(q.at) \in 0..q.at /\ (G # "inner" => Writer(q.at) >= c)
    <2>1. q.at \in Nat
      BY <1>1, <1>4 DEF Level
    <2>2. Writer(q.at) \in 0..q.at
      BY <2>1, WriterIs
    <2>3. G # "inner" => c \in 0..q.at
      BY <1>1, <1>4, <2>1
    <2> HIDE DEF q
    <2> QED
      BY <1>4, <2>1, <2>2, <2>3, WriterAbove
  <1>6. Inward
    BY InwardOther
  <1>7. Besides(c)
    <2>1. ~Handling(gor["serve"].todo)
      BY <1>1, <1>3, NotHandled
    <2>2. ~Handling(q.todo) /\ Ordered(c, q.todo)
      <3>1. ASSUME NEW x \in FromBuffer(q.at)
            PROVE  x \in CallOf(stack, Who, TRUE) /\ x.op # "handled"
        BY DEF FromBuffer
      <3>2. FromBuffer(q.at) \subseteq { x \in CallOf(stack, Who, TRUE) : x.op # "handled" }
        BY <3>1
      <3>3. q.todo \in Seq({ x \in CallOf(stack, Who, TRUE) : x.op # "handled" })
        BY <1>2, <3>2, SeqMonotonic
      <3> QED
        BY <3>3, NoneHandled
    <2> QED
      BY <1>1, <1>3, <1>6, <2>1, <2>2 DEF Besides, Inward
  <1>8. Coming(c)' => Coming(c)
    <2>1. ASSUME NEW h \in Goroutine, gor'[h].pc \in Inbound
          PROVE  Coming(c)
      BY <1>6, <2>1 DEF Inward, Coming
    <2>2. ASSUME gor'[G].at >= c
          PROVE  Coming(c)
      <3>1. CASE G = "inner"
        BY <1>1, <2>2, <3>1 DEF Coming
      <3>2. CASE G # "inner"
        <4>1. G = "serve" /\ t >= c
          BY <1>1, <1>3, <1>4, <3>2
        <4> QED
          BY <4>1 DEF Coming
      <3> QED
        BY <3>1, <3>2
    <2> QED
      BY <1>1, <2>1, <2>2 DEF Coming
  <1>9. ASSUME Clean(c)
        PROVE  \A g \in Goroutine : gor'[g].todo \in Seq(Pure(stack, c))
    <2>1. ASSUME NEW x \in FromBuffer(q.at)
          PROVE  x \in Pure(stack, c)
      <3>1. /\ x \in CallOf(stack, Who, TRUE) /\ x.at = Writer(q.at)
            /\ x.op # "header" => x.src \subseteq tw.resp.src \cup {"timeout"}
        BY DEF FromBuffer
      <3>2. x.at < c /\ x.op # "header" => x.src \cap Foreign = {}
        <4>1. CASE G = "inner"
          <5>1. tw.resp.src \cap Foreign = {}
            BY <1>9, <4>1 DEF Clean
          <5> QED
            BY <3>1, <5>1 DEF Foreign
        <4>2. CASE G # "inner"
          <5>1. ~(x.at < c)
            BY <1>1, <1>4, <1>5, <3>1, <4>2 DEF Level
          <5> QED
            BY <5>1
        <4> QED
          BY <4>1, <4>2
      <3> QED
        BY <3>1, <3>2 DEF Pure
    <2>2. FromBuffer(q.at) \subseteq Pure(stack, c)
      BY <2>1
    <2>3. q.todo \in Seq(Pure(stack, c))
      BY <1>2, <2>2, SeqMonotonic
    <2> QED
      BY <1>1, <1>3, <1>9, <2>3 DEF Clean
  <1>10. ASSUME Landed(c)
         PROVE  Landed(c)'
    <2>1. tw.err => tw'.err
      BY WaitedIs
    <2>2. CASE conn.src \cap Own # {} \/ tw.err
      BY <1>1, <2>1, <2>2 DEF Landed
    <2>3. ASSUME NEW h \in Goroutine, Flies(c, gor[h].todo)
          PROVE  Landed(c)'
      <3>1. CASE h = "serve"
        <4>1. Len(gor[h].todo) = 0
          BY <1>1, <3>1, EmptySeq
        <4> QED
          BY <2>3, <4>1 DEF Flies
      <3>2. CASE h = "inner"
        BY <1>1, <1>3, <2>3, <3>2 DEF Landed
      <3> QED
        BY <1>3, <3>1, <3>2
    <2>4. CASE G = "inner" /\ tw.resp.src \cap Own # {}
      <3>1. CASE Timeout
        BY <3>1, WaitedIs DEF Landed
      <3>2. CASE PanicPassed
        BY <1>1, <2>4, <3>2, WaitedIs DEF Landed
      <3>3. CASE Flush
        <4> DEFINE a == Call("header", Status(tw.resp), "handler", q.at)
                   z == Call("write", tw.resp.bytes, "handler", q.at)
                   b == [z EXCEPT !.src = tw.resp.src]
        <4>1. q.todo = <<a, b>>
          BY <3>3, WaitedIs
        <4>2. z.op = "write" /\ z.arg = tw.resp.bytes /\ z.at = Writer(q.at)
          BY DEF Call
        <4>3. b.op = "write" /\ b.arg = tw.resp.bytes /\ b.at = Writer(q.at) /\ b.src = tw.resp.src
          BY DEF Call
        <4>4. tw.resp.bytes > 0
          BY <2>4
        <4> HIDE DEF a, b, q
        <4>5. b.at < c
          BY <1>1, <1>4, <1>5, <2>4, <4>3 DEF Level
        <4>6. q.todo[2] = b /\ 2 \in 1..Len(q.todo)
          BY <4>1
        <4>7. InFlight(c, q.todo, 2)
          BY <2>4, <4>3, <4>4, <4>5, <4>6 DEF InFlight
        <4>8. Flies(c, q.todo)
          BY <4>6, <4>7 DEF Flies
        <4> QED
          BY <1>3, <4>8 DEF Landed, q
      <3> QED
        BY <3>1, <3>2, <3>3
    <2> QED
      BY <1>1, <1>10, <2>2, <2>3, <2>4 DEF Landed
  <1> QED
    BY <1>7, <1>8, <1>9, <1>10, CustomBesides

-----------------------------------------------------------------------------
(* CustomErrors: calls. *)

\* g made its first call, which became new calls, none of which is of errHandler.
Made(g, new) ==
  /\ Changed(gor[g].todo, new, gor'[g].todo)
  /\ gor'[g].pc = gor[g].pc /\ gor'[g].at = gor[g].at /\ stack' = stack
  /\ \A h \in Goroutine : h # g => gor'[h] = gor[h]

Plain(e, new) ==
  /\ e.op # "handled"
  /\ \A j \in 1..Len(new) :
       new[j].op # "handled" /\ (new[j].src \cap Foreign = {} \/ new[j].src = e.src)

\* A call that is made.
LEMMA MadeIs ==
  ASSUME IInv, NEW g \in Goroutine, Pending(g), NEW new, Becomes(g, new), stack' = stack,
         NEW T, new \in Seq(T)
  PROVE  Made(g, new)
  <1>1. Typed
    BY DEF IInv
  <1>2. gor[g].todo \in Seq(CallOf(stack, Who, TRUE))
    BY <1>1, FirstIs DEF Pending
  <1> QED
    BY <1>1, <1>2, BecomesTodo DEF Made, Changed

\* What was written has landed, or is on its way, if that is so of what g has to say.
LEMMA LandedOn ==
  ASSUME NEW c, NEW g \in Goroutine, NEW new, Made(g, new), conn.src \subseteq conn'.src,
         tw'.err = tw.err, tw.resp.src \subseteq tw'.resp.src, Landed(c),
         \A j \in 1..Len(gor[g].todo) : InFlight(c, gor[g].todo, j) => Landed(c)'
  PROVE  Landed(c)'
  <1>1. \A h \in Goroutine : gor'[h].pc = gor[h].pc
    BY DEF Made
  <1>2. stack' = stack /\ "serve" \in Goroutine
    BY DEF Made, Goroutine
  <1>3. CASE conn.src \cap Own # {} \/ tw.err
    <2>1. CASE conn.src \cap Own # {}
      <3>1. conn'.src \cap Own # {}
        BY <2>1
      <3> QED
        BY <3>1 DEF Landed
    <2> QED
      BY <1>3, <2>1 DEF Landed
  <1>4. CASE /\ Comer(stack, c) = "inner"
             /\ \/ gor["serve"].pc \in {"panic", "aborted"}
                \/ gor["serve"].pc = "wait" /\ tw.resp.src \cap Own # {}
    <2>1. tw.resp.src \cap Own # {} => tw'.resp.src \cap Own # {}
      OBVIOUS
    <2> QED
      BY <1>1, <1>2, <1>4, <2>1 DEF Landed
  <1>5. ASSUME NEW h \in Goroutine, Flies(c, gor[h].todo)
        PROVE  Landed(c)'
    <2>1. CASE h = g
      BY <1>5, <2>1 DEF Flies
    <2>2. CASE h # g
      <3>1. gor'[h] = gor[h]
        BY <2>2 DEF Made
      <3> QED
        BY <1>5, <3>1 DEF Landed
    <2> QED
      BY <2>1, <2>2
  <1> QED
    BY <1>3, <1>4, <1>5 DEF Landed

\* Another call than of errHandler: it is left to show that what follows is pure, and
\* that it landed.
LEMMA CustomMade ==
  ASSUME IInv, NEW c \in 1..Len(stack), stack[c] = "CustomErrors", CustomAt(c),
         NEW g \in Goroutine, NEW new, Made(g, new), Plain(Head(gor[g].todo), new),
         custom'.noop = custom.noop, custom'.called = custom.called,
         custom'.simple => custom.simple,
         Simple(c)' /\ Clean(c) =>
           /\ new \in Seq(Pure(stack, c)) /\ conn'.src \cap Foreign = {}
           /\ Comer(stack, c) = "inner" => tw'.resp.src \cap Foreign = {},
         Landed(c) => Landed(c)'
  PROVE  CustomAt(c)'
  <1> DEFINE todo == gor[g].todo
             u == gor'[g].todo
  <1>1. /\ Changed(todo, new, u) /\ stack' = stack
        /\ \A h \in Goroutine : h # g => gor'[h] = gor[h]
        /\ \A h \in Goroutine : gor'[h].pc = gor[h].pc /\ gor'[h].at = gor[h].at
    BY DEF Made
  <1>2. /\ Head(todo).op # "handled" /\ \A j \in 1..Len(new) : new[j].op # "handled"
        /\ \A j \in 1..Len(new) : new[j].src \cap Foreign = {} \/ new[j].src = Head(todo).src
    BY DEF Plain
  <1>3. todo[1] = Head(todo) /\ Len(todo) \in Nat /\ Len(todo) >= 1
    BY <1>1, ShiftedIs
  <1>4. Ordered(c, todo)
    BY DEF CustomAt
  <1> HIDE DEF todo, u
  <1>5. Handling(u) <=> Handling(todo)
    <2>1. Handling(u) <=> \E k \in 2..Len(todo) : todo[k].op = "handled"
      BY <1>1, <1>2, HandledAt
    <2>2. ASSUME NEW k \in 1..Len(todo), todo[k].op = "handled"
          PROVE  k \in 2..Len(todo)
      <3>1. k # 1
        BY <1>2, <1>3, <2>2
      <3> QED
        BY <1>3, <3>1
    <2>3. \A k \in 2..Len(todo) : k \in 1..Len(todo)
      BY <1>3
    <2> QED
      BY <2>1, <2>2, <2>3 DEF Handling
  <1>6. Ordered(c, u)
    <2>1. ASSUME NEW k \in 2..Len(todo), todo[k].op = "handled", NEW j \in 1..Len(new)
          PROVE  new[j].src \cap Foreign = {}
      <3>1. k \in 1..Len(todo) /\ 1 \in 1..k
        BY <1>3
      <3>2. todo[1].src \cap Foreign = {}
        BY <1>4, <2>1, <3>1 DEF Ordered
      <3> QED
        BY <1>2, <1>3, <3>2
    <2> QED
      BY <1>1, <1>2, <1>4, <2>1, OrderedKept
  <1>7. Handled' <=> Handled
    BY <1>1, <1>5 DEF Handled, todo, u
  <1>8. \A h \in Goroutine : Ordered(c, gor'[h].todo)
    BY <1>1, <1>6 DEF CustomAt, u
  <1>9. Comer(stack, c) \in Goroutine
    BY ComerIs DEF IInv, Typed
  <1>10. Coming(c)' <=> Coming(c)
    BY <1>1, <1>9 DEF Coming
  <1>11. Simple(c)' => Simple(c)
    BY <1>7, <1>10 DEF Simple
  <1>12. ASSUME Simple(c)'
         PROVE  Clean(c)'
    <2>1. Clean(c)
      BY <1>11, <1>12 DEF CustomAt
    <2>2. /\ new \in Seq(Pure(stack, c)) /\ conn'.src \cap Foreign = {}
          /\ Comer(stack, c) = "inner" => tw'.resp.src \cap Foreign = {}
      BY <1>12, <2>1
    <2>3. u \in Seq(Pure(stack, c))
      <3>1. todo \in Seq(Pure(stack, c)) /\ todo # <<>> /\ u = new \o Tail(todo)
        BY <1>1, <2>1 DEF Clean, Changed, todo
      <3> QED
        BY <2>2, <3>1, Replaced
    <2>4. \A h \in Goroutine : gor'[h].todo \in Seq(Pure(stack, c))
      BY <1>1, <2>1, <2>3 DEF Clean, u
    <2> QED
      BY <1>1, <2>2, <2>4 DEF Clean
  <1> QED
    BY <1>1, <1>7, <1>8, <1>12 DEF CustomAt

\* The new calls of a call that is passed on.
Passed(e, new) == \E x : /\ Down(e, x)
                         /\ \/ new = <<x>>
                            \/ \E d : /\ d \in CallOf(stack, Who, TRUE) /\ d.op = "header"
                                      /\ d.src = {"limit"} /\ new = <<d, x>>

\* They are plain, and what was on its way still is; and they are pure, if it was.
LEMMA PassedIs ==
  ASSUME stack \in Stacks, NEW e \in CallOf(stack, Who, TRUE), e.at \in 1..Len(stack),
         NEW new, Passed(e, new), NEW c \in 1..Len(stack), Wrapped(c), e.op # "handled"
  PROVE  /\ Plain(e, new) /\ new \in Seq(CallOf(stack, Who, TRUE))
         /\ \E m \in 1..Len(new) : /\ new[m].op = e.op /\ new[m].src = e.src
                                   /\ e.arg > 0 => new[m].arg > 0
                                   /\ e.at <= c => new[m].at < c
         /\ e.at # c /\ e \in Pure(stack, c) => new \in Seq(Pure(stack, c))
         /\ e.op = "header" \/ e.src \cap Foreign = {} => new \in Seq(Pure(stack, c))
  <1>1. PICK x : /\ Down(e, x)
                 /\ \/ new = <<x>>
                    \/ \E d : /\ d \in CallOf(stack, Who, TRUE) /\ d.op = "header"
                              /\ d.src = {"limit"} /\ new = <<d, x>>
    BY DEF Passed
  <1>2. /\ x \in CallOf(stack, Who, TRUE) /\ x.op = e.op /\ x.src = e.src
        /\ x.at = Writer(e.at - 1) /\ (e.arg > 0 => x.arg > 0)
    BY <1>1 DEF Down
  <1>3. Len(stack) \in Nat /\ e.at \in Nat /\ c \in Nat /\ e.at - 1 \in Nat
    BY StackFacts
  <1>4. x.at \in 0..(e.at - 1)
    BY <1>2, <1>3, WriterIs
  <1>5. e.at <= c => x.at < c
    BY <1>3, <1>4
  <1>6. e.at > c => x.at >= c
    <2> SUFFICES ASSUME e.at > c PROVE x.at >= c
      OBVIOUS
    <2>1. c \in 0..(e.at - 1)
      BY <1>3
    <2> QED
      BY <1>2, <1>3, <2>1, WriterAbove
  <1>7. e.at # c /\ e \in Pure(stack, c) => x \in Pure(stack, c)
    <2> SUFFICES ASSUME e.at # c, e \in Pure(stack, c), x.at < c, x.op # "header"
                 PROVE  x.src \cap Foreign = {}
      BY <1>2 DEF Pure
    <2>1. e.at < c
      BY <1>3, <1>4, <1>6
    <2> QED
      BY <1>2, <2>1 DEF Pure
  <1>8. e.op = "header" \/ e.src \cap Foreign = {} => x \in Pure(stack, c)
    BY <1>2 DEF Pure
  <1>9. CASE new = <<x>>
    <2>1. Len(new) = 1 /\ new[1] = x /\ 1 \in 1..Len(new) /\ \A j \in 1..Len(new) : j = 1
      BY <1>9
    <2>2. x \in Pure(stack, c) => new \in Seq(Pure(stack, c))
      BY <1>9, OneCall
    <2>3. new \in Seq(CallOf(stack, Who, TRUE))
      BY <1>2, <1>9, OneCall
    <2>4. Plain(e, new)
      BY <1>2, <2>1 DEF Plain
    <2> QED
      BY <1>2, <1>5, <1>7, <1>8, <2>1, <2>2, <2>3, <2>4
  <1>10. ASSUME NEW d, d \in CallOf(stack, Who, TRUE), d.op = "header", d.src = {"limit"},
                new = <<d, x>>
         PROVE  /\ Plain(e, new) /\ new \in Seq(CallOf(stack, Who, TRUE))
                /\ \E m \in 1..Len(new) : /\ new[m].op = e.op /\ new[m].src = e.src
                                          /\ e.arg > 0 => new[m].arg > 0
                                          /\ e.at <= c => new[m].at < c
                /\ e.at # c /\ e \in Pure(stack, c) => new \in Seq(Pure(stack, c))
                /\ e.op = "header" \/ e.src \cap Foreign = {} => new \in Seq(Pure(stack, c))
    <2>1. /\ Len(new) = 2 /\ new[1] = d /\ new[2] = x /\ 2 \in 1..Len(new)
          /\ \A j \in 1..Len(new) : j = 1 \/ j = 2
      BY <1>10
    <2>2. d \in Pure(stack, c) /\ d.src \cap Foreign = {}
      BY <1>10 DEF Pure, Foreign
    <2>3. x \in Pure(stack, c) => new \in Seq(Pure(stack, c))
      BY <1>10, <2>2, TwoCalls
    <2>4. new \in Seq(CallOf(stack, Who, TRUE))
      BY <1>2, <1>10, TwoCalls
    <2>5. Plain(e, new)
      BY <1>2, <1>10, <2>1, <2>2 DEF Plain
    <2> QED
      BY <1>2, <1>5, <1>7, <1>8, <2>1, <2>3, <2>4, <2>5
  <1> QED
    BY <1>1, <1>9, <1>10

\* A call of the level of CustomErrors only handles an error.
LEMMA HandledThere ==
  ASSUME IInv, NEW c, NEW g \in Goroutine, gor[g].todo # <<>>, Ordered(c, gor[g].todo)
  PROVE  Head(gor[g].todo).op = "handled" => Head(gor[g].todo).at = c
  <1> DEFINE todo == gor[g].todo
  <1>1. todo \in Seq(CallOf(stack, Who, TRUE)) /\ todo # <<>> /\ Ordered(c, todo)
    BY FirstIs DEF IInv
  <1>2. Changed(todo, <<>>, <<>> \o Tail(todo))
    BY <1>1, EmptySeq DEF Changed
  <1> HIDE DEF todo
  <1>3. todo[1] = Head(todo) /\ 1 \in 1..Len(todo)
    BY <1>2, ShiftedIs
  <1>4. Head(todo).op = "handled" => Head(todo).at = c
    BY <1>1, <1>3 DEF Ordered
  <1> QED
    BY <1>4 DEF todo

\* An answer has what was written to it.
LEMMA SentSrc ==
  ASSUME NEW a \in Answer, NEW s, NEW e \in CallOf(s, Who, TRUE)
  PROVE  /\ a.src \subseteq Sent(a, e).src
         /\ Sent(a, e).src = a.src \/ (e.op # "header" /\ Sent(a, e).src = a.src \cup e.src)
         /\ e.op # "header" /\ e.arg > 0 => e.src \subseteq Sent(a, e).src
         /\ (a.src # {} => a.bytes > 0) => (Sent(a, e).src # {} => Sent(a, e).bytes > 0)
  <1>1. a.bytes \in Nat /\ e.arg \in Nat
    BY DEF Answer, CallOf
  <1>2. CASE e.op = "header"
    BY <1>1, <1>2 DEF Sent, Answer
  <1>3. CASE e.op # "header"
    <2>1. /\ Sent(a, e).src = IF e.arg > 0 THEN a.src \cup e.src ELSE a.src
          /\ Sent(a, e).bytes = a.bytes + e.arg
      BY <1>3 DEF Sent
    <2>2. e.arg > 0 \/ e.arg = 0
      BY <1>1
    <2>3. e.arg > 0 => a.bytes + e.arg > 0
      BY <1>1
    <2>4. e.arg = 0 => a.bytes + e.arg = a.bytes
      BY <1>1
    <2> QED
      BY <1>3, <2>1, <2>2, <2>3, <2>4
  <1> QED
    BY <1>2, <1>3

\* The first call of a pure list, when it has passed CustomErrors.
LEMMA FirstPure ==
  ASSUME NEW c, NEW g \in Goroutine, gor[g].todo # <<>>, Clean(c)
  PROVE  /\ Head(gor[g].todo) \in Pure(stack, c)
         /\ Head(gor[g].todo).at < c /\ Head(gor[g].todo).op # "header" =>
              Head(gor[g].todo).src \cap Foreign = {}
  <1> DEFINE e == Head(gor[g].todo)
  <1>1. e \in Pure(stack, c)
    BY Replaced, EmptySeq DEF Clean
  <1> HIDE DEF e
  <1>2. e.at < c /\ e.op # "header" => e.src \cap Foreign = {}
    BY <1>1 DEF Pure
  <1> QED
    BY <1>1, <1>2 DEF e

\* A call that reaches the connection.
LEMMA CustomConn ==
  ASSUME IInv, NEW c \in 1..Len(stack), stack[c] = "CustomErrors", CustomAt(c), ConnCall
  PROVE  CustomAt(c)'
  <1> DEFINE todo == gor["serve"].todo
             e == Head(todo)
  <1>1. /\ todo # <<>> /\ e.at = 0 /\ conn' = Sent(conn, e) /\ UNCHANGED <<stack, tw, custom>>
        /\ "serve" \in Goroutine
    BY ConnIs DEF Goroutine
  <1>2. Made("serve", <<>>)
    BY <1>1, EmptySeq, MadeIs DEF ConnCall
  <1>3. e \in CallOf(stack, Who, TRUE) /\ c \in Nat /\ c > 0 /\ conn \in Answer /\ stack \in Stacks
    BY <1>1, FirstIs, ComerIs DEF IInv, Typed
  <1>4. e.op # "handled"
    <2>1. e.op = "handled" => e.at = c
      BY <1>1, HandledThere DEF CustomAt
    <2> HIDE DEF e
    <2> QED
      BY <1>1, <1>3, <2>1
  <1>5. Len(<<>>) = 0 /\ \A j \in 1..Len(<<>>) : FALSE
    OBVIOUS
  <1>6. Plain(e, <<>>)
    BY <1>4, <1>5 DEF Plain
  <1>7. /\ conn.src \subseteq conn'.src
        /\ conn'.src = conn.src \/ (e.op # "header" /\ conn'.src = conn.src \cup e.src)
        /\ e.op # "header" /\ e.arg > 0 => e.src \subseteq conn'.src
    <2> HIDE DEF e
    <2> QED
      BY <1>1, <1>3, SentSrc
  <1>8. e.at < c
    BY <1>1, <1>3
  <1>9. ASSUME Clean(c)
        PROVE  conn'.src \cap Foreign = {} /\ (Comer(stack, c) = "inner" => tw'.resp.src \cap Foreign = {})
    <2>1. e.op # "header" => e.src \cap Foreign = {}
      BY <1>1, <1>8, <1>9, FirstPure
    <2>2. conn.src \cap Foreign = {}
      BY <1>9 DEF Clean
    <2> QED
      BY <1>1, <1>7, <1>9, <2>1, <2>2 DEF Clean
  <1>10. ASSUME NEW j \in 1..Len(todo), InFlight(c, todo, j)
         PROVE  Landed(c)'
    <2>1. todo[1] = e
      BY <1>2, ShiftedIs DEF Made
    <2>2. CASE j = 1
      <3>1. e.op # "header" /\ e.arg > 0 /\ e.src \cap Own # {}
        BY <1>10, <2>1, <2>2 DEF InFlight
      <3>2. conn'.src \cap Own # {}
        BY <1>7, <3>1
      <3> QED
        BY <3>2 DEF Landed
    <2>3. CASE j # 1
      <3>1. Changed(todo, <<>>, gor'["serve"].todo)
        BY <1>2 DEF Made
      <3>2. Flies(c, gor'["serve"].todo)
        <4> HIDE DEF todo
        <4> QED
          BY <1>4, <1>10, <2>3, <3>1, FliesOn
      <3> QED
        BY <1>1, <3>2 DEF Landed
    <2> QED
      BY <2>2, <2>3
  <1>11. Landed(c) => Landed(c)'
    BY <1>1, <1>2, <1>7, <1>10, LandedOn
  <1> QED
    BY <1>1, <1>2, <1>6, <1>9, <1>11, EmptySeq, CustomMade

\* A call that reaches the buffer.
LEMMA CustomBuffer ==
  ASSUME IInv, Places, NEW c \in 1..Len(stack), stack[c] = "CustomErrors", CustomAt(c), BufferCall
  PROVE  CustomAt(c)'
  <1> DEFINE todo == gor["inner"].todo
             e == Head(todo)
             G == Comer(stack, c)
  <1>1. /\ todo # <<>> /\ e.at \in 1..Len(stack) /\ stack[e.at] = "TimeoutHandler"
        /\ UNCHANGED <<stack, conn, custom>>
        /\ tw' = IF tw.err THEN tw ELSE [tw EXCEPT !.resp = Sent(@, e)]
        /\ "inner" \in Goroutine /\ "serve" \in Goroutine /\ gor'["serve"] = gor["serve"]
    BY BufferIs DEF Goroutine
  <1>2. Made("inner", <<>>)
    BY <1>1, EmptySeq, MadeIs DEF BufferCall, Calls
  <1>3. /\ e \in CallOf(stack, Who, TRUE) /\ tw.resp \in Answer /\ stack \in Stacks
        /\ tw \in [resp : Answer, err : BOOLEAN]
        /\ \A i, j \in 1..Len(stack) : stack[i] = stack[j] => i = j
    BY <1>1, FirstIs, StackFacts DEF IInv, Typed
  <1>4. /\ c \in Nat /\ G \in Goroutine
        /\ G = "inner" => \E t \in 1..Len(stack) : stack[t] = "TimeoutHandler" /\ t < c
        /\ G # "inner" => \A t \in 1..Len(stack) : stack[t] = "TimeoutHandler" => c < t
    BY <1>3, ComerIs
  <1>5. G = "inner" => e.at < c
    BY <1>1, <1>3, <1>4
  <1>6. e.op # "handled"
    <2>1. e.op = "handled" => e.at = c
      BY <1>1, HandledThere DEF CustomAt
    <2> QED
      BY <1>1, <2>1
  <1>7. Len(<<>>) = 0 /\ \A j \in 1..Len(<<>>) : FALSE
    OBVIOUS
  <1>8. Plain(e, <<>>)
    BY <1>6, <1>7 DEF Plain
  <1>9. /\ tw'.err = tw.err /\ tw.resp.src \subseteq tw'.resp.src
        /\ \/ tw'.resp.src = tw.resp.src
           \/ e.op # "header" /\ tw'.resp.src = tw.resp.src \cup e.src
        /\ ~tw.err /\ e.op # "header" /\ e.arg > 0 => e.src \subseteq tw'.resp.src
    <2> HIDE DEF e
    <2>1. CASE tw.err
      BY <1>1, <2>1
    <2>2. CASE ~tw.err
      <3>1. tw'.err = tw.err /\ tw'.resp = Sent(tw.resp, e)
        BY <1>1, <1>3, <2>2
      <3>2. tw.resp \in Answer /\ e \in CallOf(stack, Who, TRUE)
        BY <1>3
      <3>3. /\ tw.resp.src \subseteq Sent(tw.resp, e).src
            /\ \/ Sent(tw.resp, e).src = tw.resp.src
               \/ e.op # "header" /\ Sent(tw.resp, e).src = tw.resp.src \cup e.src
            /\ e.op # "header" /\ e.arg > 0 => e.src \subseteq Sent(tw.resp, e).src
        BY <3>2, SentSrc
      <3> QED
        BY <3>1, <3>3
    <2> QED
      BY <2>1, <2>2
  <1>10. ASSUME Clean(c)
         PROVE  conn'.src \cap Foreign = {} /\ (G = "inner" => tw'.resp.src \cap Foreign = {})
    <2>1. G = "inner" /\ e.op # "header" => e.src \cap Foreign = {}
      BY <1>1, <1>5, <1>10, FirstPure
    <2>2. conn.src \cap Foreign = {} /\ (G = "inner" => tw.resp.src \cap Foreign = {})
      BY <1>10 DEF Clean
    <2> QED
      BY <1>1, <1>9, <2>1, <2>2
  <1>11. ASSUME NEW j \in 1..Len(todo), InFlight(c, todo, j)
         PROVE  Landed(c)'
    <2>1. todo[1] = e /\ Len(todo) \in Nat
      BY <1>2, ShiftedIs DEF Made
    <2>2. CASE j = 1
      <3>1. e.op # "header" /\ e.arg > 0 /\ e.src \cap Own # {}
        BY <1>11, <2>1, <2>2 DEF InFlight
      <3>2. CASE tw.err
        BY <1>9, <3>2 DEF Landed
      <3>3. CASE ~tw.err
        <4>1. tw'.resp.src \cap Own # {}
          BY <1>9, <3>1, <3>3
        <4>2. G = "inner"
          <5>1. CASE e.at < c
            <6>1. ~(c < e.at)
              BY <1>1, <1>4, <5>1
            <6> QED
              BY <1>1, <1>4, <6>1
          <5>2. CASE \E k \in 2..Len(todo) : todo[k].op = "handled"
            <6>1. PICK k \in 2..Len(todo) : todo[k].op = "handled"
              BY <5>2
            <6>2. k \in 1..Len(todo)
              BY <2>1
            <6>3. Ordered(c, todo)
              BY <1>1 DEF CustomAt
            <6>4. todo[k].at = c
              BY <6>1, <6>2, <6>3 DEF Ordered
            <6> QED
              BY <1>1, <6>2, <6>4, CallerIs
          <5> QED
            BY <1>11, <2>1, <2>2, <5>1, <5>2 DEF InFlight
        <4>3. gor["serve"].pc = "wait"
          <5>1. gor["inner"].pc \in {"handler", "leave"}
            BY <1>1 DEF Places, Placed
          <5>2. Control(stack, gor["serve"], gor["inner"], tw.err)
            BY DEF IInv, Shape
          <5> QED
            BY <3>3, <5>1, <5>2 DEF Control
        <4> QED
          BY <1>1, <4>1, <4>2, <4>3 DEF Landed
      <3> QED
        BY <3>2, <3>3
    <2>3. CASE j # 1
      <3>1. Changed(todo, <<>>, gor'["inner"].todo)
        BY <1>2 DEF Made
      <3>2. Flies(c, gor'["inner"].todo)
        <4> HIDE DEF todo
        <4> QED
          BY <1>6, <1>11, <2>3, <3>1, FliesOn
      <3> QED
        BY <1>1, <3>2 DEF Landed
    <2> QED
      BY <2>2, <2>3
  <1>12. Landed(c) => Landed(c)'
    BY <1>1, <1>2, <1>9, <1>11, LandedOn
  <1> QED
    BY <1>1, <1>2, <1>8, <1>10, <1>12, EmptySeq, CustomMade

\* A call of another middleware is passed on.
LEMMA CustomPassed ==
  ASSUME IInv, NEW c \in 1..Len(stack), stack[c] = "CustomErrors", CustomAt(c),
         NEW g \in Goroutine, LimitCall(g) \/ LoggingCall(g)
  PROVE  CustomAt(c)'
  <1> DEFINE todo == gor[g].todo
             e == Head(todo)
  <1>1. /\ Calls(g, "LimitResponseBodyBytes") \/ Calls(g, "Logging")
        /\ UNCHANGED <<stack, conn, tw, custom>>
    BY DEF LimitCall, LoggingCall
  <1>2. /\ Pending(g) /\ todo # <<>> /\ e.at \in 1..Len(stack) /\ stack[e.at] # "CustomErrors"
        /\ e \in CallOf(stack, Who, TRUE) /\ stack \in Stacks
    <2>1. CASE Calls(g, "LimitResponseBodyBytes")
      <3>1. /\ Pending(g) /\ todo # <<>> /\ e.at \in 1..Len(stack) /\ stack[e.at] = "LimitResponseBodyBytes"
            /\ e \in CallOf(stack, Who, TRUE) /\ stack \in Stacks
        BY <2>1, HookIs
      <3> HIDE DEF e
      <3> QED
        BY <3>1
    <2>2. CASE Calls(g, "Logging")
      <3>1. /\ Pending(g) /\ todo # <<>> /\ e.at \in 1..Len(stack) /\ stack[e.at] = "Logging"
            /\ e \in CallOf(stack, Who, TRUE) /\ stack \in Stacks
        BY <2>2, HookIs
      <3> HIDE DEF e
      <3> QED
        BY <3>1
    <2> QED
      BY <1>1, <2>1, <2>2
  <1>3. Wrapped(c) /\ c \in Nat
    BY <1>2, ComerIs
  <1>4. PICK new : Becomes(g, new) /\ Passed(e, new)
    <2>1. CASE LimitCall(g)
      <3>0. LimitPassed(g, e)
        BY <2>1, LimitIs
      <3>1. PICK x : /\ Down(e, x)
                     /\ \/ Becomes(g, <<x>>)
                        \/ Becomes(g, <<Call("header", 500, "limit", e.at), x>>)
        BY <3>0 DEF LimitPassed
      <3> DEFINE d == Call("header", 500, "limit", e.at)
      <3>2. d.op = "header" /\ d.src = {"limit"}
        BY DEF Call
      <3>3. d \in CallOf(stack, Who, TRUE)
        <4> DEFINE at == e.at
                   code == 500
        <4>1. at \in Level(stack)
          <5> HIDE DEF e
          <5> QED
            BY <1>2, CallFields
        <4>2. code \in Nat /\ code \in Codes /\ "limit" \in Who
          BY DEF Codes, Who
        <4> HIDE DEF at, code
        <4>3. Call("header", code, "limit", at) \in CallOf(stack, Who, TRUE)
          BY <1>2, <4>1, <4>2, NewCall
        <4> QED
          BY <4>3 DEF code, at
      <3>4. Becomes(g, <<x>>) \/ Becomes(g, <<d, x>>)
        BY <3>1
      <3> HIDE DEF d, e
      <3> QED
        BY <3>1, <3>2, <3>3, <3>4 DEF Passed
    <2>2. CASE LoggingCall(g)
      BY <2>2, LoggingIs DEF Passed
    <2> QED
      BY <2>1, <2>2
  <1>5. e.op # "handled"
    <2>1. e.op = "handled" => e.at = c
      BY <1>2, HandledThere DEF CustomAt
    <2> QED
      BY <1>2, <2>1
  <1> HIDE DEF e
  <1>6. /\ Plain(e, new) /\ new \in Seq(CallOf(stack, Who, TRUE))
        /\ \E m \in 1..Len(new) : /\ new[m].op = e.op /\ new[m].src = e.src
                                  /\ e.arg > 0 => new[m].arg > 0
                                  /\ e.at <= c => new[m].at < c
        /\ e.at # c /\ e \in Pure(stack, c) => new \in Seq(Pure(stack, c))
    BY <1>2, <1>3, <1>4, <1>5, PassedIs
  <1>7. Made(g, new)
    BY <1>1, <1>2, <1>4, <1>6, MadeIs
  <1>8. ASSUME Clean(c)
        PROVE  new \in Seq(Pure(stack, c))
    <2>1. e \in Pure(stack, c)
      BY <1>2, <1>8, FirstPure DEF e
    <2>2. e.at # c
      BY <1>2
    <2> QED
      BY <1>6, <2>1, <2>2
  <1>9. ASSUME NEW j \in 1..Len(todo), InFlight(c, todo, j)
        PROVE  Landed(c)'
    <2>1. todo[1] = e
      BY <1>7, ShiftedIs DEF Made, e
    <2>2. j = 1 => e.arg > 0
      BY <1>9, <2>1 DEF InFlight
    <2>3. Changed(todo, new, gor'[g].todo)
      BY <1>7 DEF Made
    <2>4. PICK m \in 1..Len(new) : /\ new[m].op = e.op /\ new[m].src = e.src
                                   /\ e.arg > 0 => new[m].arg > 0
                                   /\ e.at <= c => new[m].at < c
      BY <1>6
    <2>5. e.at < c => e.at <= c
      BY <1>2, <1>3
    <2>6. Flies(c, gor'[g].todo)
      <3>1. e = Head(todo)
        BY DEF e
      <3> HIDE DEF todo
      <3> QED
        BY <1>5, <1>9, <2>2, <2>3, <2>4, <2>5, <3>1, FliesOn
    <2> QED
      BY <2>6 DEF Landed
  <1>10. Landed(c) => Landed(c)'
    BY <1>1, <1>7, <1>9, LandedOn
  <1> QED
    BY <1>1, <1>6, <1>7, <1>8, <1>10, CustomMade DEF Clean, e

\* A call of the level of CustomErrors is of the goroutine that comes there.
LEMMA CustomThere ==
  ASSUME IInv, Places, NEW c \in 1..Len(stack), stack[c] = "CustomErrors",
         NEW g \in Goroutine, Calls(g, "CustomErrors")
  PROVE  LET e == Head(gor[g].todo) IN
         /\ Pending(g) /\ gor[g].todo # <<>> /\ e.at = c /\ gor[g].todo[1] = e /\ stack \in Stacks
         /\ e \in CallOf(stack, Who, TRUE) /\ e \in CallOf(stack, Who, custom.called)
         /\ Down(e, Below(e)) /\ 1 \in 1..Len(gor[g].todo) /\ Len(gor[g].todo) \in Nat
         /\ g = Comer(stack, c) /\ gor[g].at >= c
         /\ \A h \in Goroutine : gor[h].pc \in Inbound => gor[h].at >= c
  <1> DEFINE todo == gor[g].todo
             e == Head(todo)
  <1>1. /\ Pending(g) /\ todo # <<>> /\ e.at \in 1..Len(stack) /\ stack[e.at] = "CustomErrors"
        /\ e \in CallOf(stack, Who, TRUE) /\ e \in CallOf(stack, Who, custom.called)
        /\ Down(e, Below(e)) /\ stack \in Stacks
    BY HookIs
  <1>2. e.at = c
    BY <1>1, ComerIs
  <1>3. Changed(todo, <<>>, <<>> \o Tail(todo))
    <2>1. todo \in Seq(CallOf(stack, Who, TRUE))
      BY <1>1, FirstIs DEF IInv
    <2> QED
      BY <1>1, <2>1, EmptySeq DEF Changed
  <1>4. todo[1] = e /\ 1 \in 1..Len(todo) /\ Len(todo) \in Nat
    <2> HIDE DEF todo
    <2> QED
      BY <1>3, ShiftedIs
  <1>5. todo[1].at = c
    BY <1>2, <1>4
  <1>6. /\ g = Comer(stack, c) /\ gor[g].at >= c
        /\ \A h \in Goroutine : gor[h].pc \in Inbound => gor[h].at >= c
    BY <1>4, <1>5, CallerIs
  <1> QED
    BY <1>1, <1>2, <1>4, <1>6

\* After the handled error CustomErrors drops what comes.
LEMMA CustomDrops ==
  ASSUME IInv, Places, NEW c \in 1..Len(stack), stack[c] = "CustomErrors", CustomAt(c),
         NEW g \in Goroutine, Calls(g, "CustomErrors"), Dropped(Head(gor[g].todo)),
         Becomes(g, <<>>), UNCHANGED <<stack, conn, tw, custom>>
  PROVE  CustomAt(c)'
  <1> DEFINE todo == gor[g].todo
             e == Head(todo)
  <1>1. Pending(g) /\ todo # <<>> /\ e.at = c /\ todo[1] = e /\ 1 \in 1..Len(todo) /\ Len(todo) \in Nat
    BY CustomThere
  <1>2. Made(g, <<>>)
    BY <1>1, EmptySeq, MadeIs
  <1>3. custom.noop /\ e.op # "handled"
    BY DEF Dropped
  <1>4. ~Handled
    BY <1>3 DEF CustomAt
  <1>5. c \in Nat
    BY ComerIs DEF IInv, Typed
  <1>6. Plain(e, <<>>)
    <2>1. \A j \in 1..Len(<<>>) : FALSE
      OBVIOUS
    <2> QED
      BY <1>3, <2>1 DEF Plain
  <1>7. ASSUME NEW j \in 1..Len(todo), InFlight(c, todo, j)
        PROVE  Landed(c)'
    <2>1. j # 1
      <3> SUFFICES ASSUME j = 1 PROVE FALSE
        OBVIOUS
      <3>1. ~(todo[1].at < c)
        BY <1>1, <1>5
      <3>2. PICK k \in 2..Len(todo) : todo[k].op = "handled"
        BY <1>7, <3>1 DEF InFlight
      <3>3. k \in 1..Len(todo)
        BY <1>1
      <3> QED
        BY <1>4, <3>2, <3>3 DEF Handled, Handling
    <2>2. Changed(todo, <<>>, gor'[g].todo)
      BY <1>2 DEF Made
    <2>3. Flies(c, gor'[g].todo)
      <3> HIDE DEF todo
      <3> QED
        BY <1>3, <1>7, <2>1, <2>2, FliesOn
    <2> QED
      BY <2>3 DEF Landed
  <1>8. Landed(c) => Landed(c)'
    BY <1>2, <1>7, LandedOn
  <1> QED
    BY <1>2, <1>6, <1>8, EmptySeq, CustomMade DEF Clean

\* Another call is passed on: after the error only what errHandler writes is.
LEMMA CustomPasses ==
  ASSUME IInv, Places, NEW c \in 1..Len(stack), stack[c] = "CustomErrors", CustomAt(c),
         NEW g \in Goroutine, Calls(g, "CustomErrors"), NEW e, e = Head(gor[g].todo),
         ~Dropped(e), e.op # "handled",
         custom' = [custom EXCEPT !.simple = @ /\ custom.called /\ e.op # "copy"],
         Becomes(g, <<Below(e)>>), UNCHANGED <<stack, conn, tw>>
  PROVE  CustomAt(c)'
  <1> DEFINE todo == gor[g].todo
             new == <<Below(e)>>
             u == gor'[g].todo
  <1>1. /\ Pending(g) /\ todo # <<>> /\ e.at = c /\ todo[1] = e /\ 1 \in 1..Len(todo)
        /\ Len(todo) \in Nat /\ g = Comer(stack, c)
        /\ e \in CallOf(stack, Who, TRUE) /\ Down(e, Below(e)) /\ stack \in Stacks
    BY CustomThere
  <1>2. c \in Nat /\ Wrapped(c)
    BY <1>1, ComerIs
  <1>3. Passed(e, new)
    BY <1>1 DEF Passed
  <1>4. /\ custom'.noop = custom.noop /\ custom'.called = custom.called
        /\ custom'.simple => custom.simple /\ custom.called /\ e.op # "copy"
    BY DEF IInv, Typed
  <1> HIDE DEF new
  <1>5. /\ Plain(e, new) /\ new \in Seq(CallOf(stack, Who, TRUE))
        /\ \E m \in 1..Len(new) : /\ new[m].op = e.op /\ new[m].src = e.src
                                  /\ e.arg > 0 => new[m].arg > 0
                                  /\ e.at <= c => new[m].at < c
        /\ e.op = "header" \/ e.src \cap Foreign = {} => new \in Seq(Pure(stack, c))
    BY <1>1, <1>2, <1>3, PassedIs
  <1>6. Made(g, new)
    BY <1>1, <1>5, MadeIs DEF new
  <1>7. Changed(todo, new, u) /\ \A h \in Goroutine : h # g => gor'[h] = gor[h]
    BY <1>6 DEF Made
  <1>8. ASSUME Simple(c)'
        PROVE  new \in Seq(Pure(stack, c))
    <2>1. custom.called /\ e.op # "copy"
      BY <1>4, <1>8 DEF Simple
    <2>2. CASE e.op = "header"
      BY <1>5, <2>2
    <2>3. CASE e.op # "header"
      <3>1. e.op = "write"
        BY <1>1, <2>1, <2>3, CallFields
      <3>2. ~custom.noop
        BY <3>1 DEF Dropped
      <3>3. Handled'
        BY <1>4, <1>8, <2>1, <3>2 DEF Simple
      <3>4. PICK h \in Goroutine : Handling(gor'[h].todo)
        BY <3>3 DEF Handled
      <3>5. h = g
        <4> SUFFICES ASSUME h # g PROVE FALSE
          OBVIOUS
        <4>1. gor'[h] = gor[h]
          BY <1>7
        <4>2. PICK k \in 1..Len(gor[h].todo) : gor[h].todo[k].op = "handled"
          BY <3>4, <4>1 DEF Handling
        <4>3. gor[h].todo[k].at = c
          BY <4>2 DEF CustomAt, Ordered
        <4> QED
          BY <1>1, <4>3, CallerIs
      <3>6. \E k \in 2..Len(todo) : todo[k].op = "handled"
        <4>1. Handling(u) /\ \A j \in 1..Len(new) : new[j].op # "handled"
          BY <1>5, <3>4, <3>5 DEF Plain
        <4> HIDE DEF todo, u
        <4> QED
          BY <1>7, <4>1, HandledAt
      <3>7. PICK k \in 2..Len(todo) : todo[k].op = "handled"
        BY <3>6
      <3>8. k \in 1..Len(todo) /\ 1 \in 1..k
        BY <1>1
      <3>9. todo[1].src \cap Foreign = {}
        BY <3>7, <3>8 DEF CustomAt, Ordered
      <3> QED
        BY <1>1, <1>5, <3>9
    <2> QED
      BY <2>2, <2>3
  <1>9. ASSUME NEW j \in 1..Len(todo), InFlight(c, todo, j)
        PROVE  Landed(c)'
    <2>1. j = 1 => e.arg > 0
      BY <1>1, <1>9 DEF InFlight
    <2>2. PICK m \in 1..Len(new) : /\ new[m].op = e.op /\ new[m].src = e.src
                                   /\ e.arg > 0 => new[m].arg > 0
                                   /\ e.at <= c => new[m].at < c
      BY <1>5
    <2>3. new[m].at < c
      BY <1>1, <1>2, <2>2
    <2>4. Flies(c, u)
      <3> HIDE DEF todo, u
      <3>1. e = Head(todo)
        BY DEF todo
      <3> QED
        BY <1>7, <1>9, <2>1, <2>2, <2>3, <3>1, FliesOn
    <2> QED
      BY <2>4 DEF Landed
  <1>10. Landed(c) => Landed(c)'
    BY <1>6, <1>9, LandedOn
  <1> QED
    BY <1>4, <1>5, <1>6, <1>8, <1>10, CustomMade DEF Clean

\* errHandler leaves the error to CustomErrors, which passes it on.
LEMMA CustomDeclines ==
  ASSUME IInv, Places, NEW c \in 1..Len(stack), stack[c] = "CustomErrors",
         NEW g \in Goroutine, Calls(g, "CustomErrors"), NEW e, e = Head(gor[g].todo),
         e.op = "header", ~custom.called, custom' = [custom EXCEPT !.called = TRUE],
         Becomes(g, <<Below(e)>>), UNCHANGED <<stack, conn, tw>>
  PROVE  CustomAt(c)'
  <1> DEFINE todo == gor[g].todo
             b == Below(e)
             new == <<b>>
             u == gor'[g].todo
  <1>1. /\ Pending(g) /\ b \in CallOf(stack, Who, TRUE) /\ b.op = e.op /\ Len(todo) \in Nat
        /\ \A h \in Goroutine : gor[h].pc \in Inbound => gor[h].at >= c
    BY CustomThere DEF Down
  <1>2. custom'.called /\ ~custom.noop /\ ~custom'.noop
    BY DEF IInv, Typed
  <1> HIDE DEF b
  <1>3. new \in Seq(CallOf(stack, Who, TRUE)) /\ \A j \in 1..Len(new) : new[j].op # "handled"
    <2>1. new \in Seq(CallOf(stack, Who, TRUE))
      BY <1>1, OneCall
    <2>2. new[1] = b /\ \A j \in 1..Len(new) : j = 1
      OBVIOUS
    <2>3. b.op # "handled"
      BY <1>1
    <2> QED
      BY <2>1, <2>2, <2>3
  <1>4. Made(g, new)
    BY <1>1, <1>3, MadeIs DEF b
  <1>5. /\ Changed(todo, new, u) /\ \A h \in Goroutine : h # g => gor'[h] = gor[h]
        /\ \A h \in Goroutine : gor'[h].pc = gor[h].pc /\ gor'[h].at = gor[h].at
    BY <1>4 DEF Made
  <1>6. \A h \in Goroutine : ~Handling(gor[h].todo)
    BY NotHandled DEF IInv
  <1>7. ~Handling(u)
    <2>1. ~Handling(todo)
      BY <1>6
    <2> HIDE DEF todo, u, new
    <2>2. Handling(u) <=> \E k \in 2..Len(todo) : todo[k].op = "handled"
      BY <1>3, <1>5, HandledAt
    <2>3. \A k \in 2..Len(todo) : k \in 1..Len(todo)
      BY <1>1 DEF todo
    <2> QED
      BY <2>1, <2>2, <2>3 DEF Handling
  <1>8. \A h \in Goroutine : ~Handling(gor'[h].todo)
    BY <1>5, <1>6, <1>7
  <1>9. ~Handled' /\ \A h \in Goroutine : Ordered(c, gor'[h].todo)
    BY <1>8 DEF Handled, Handling, Ordered
  <1>10. ~Simple(c)'
    BY <1>2, <1>9 DEF Simple
  <1> QED
    BY <1>1, <1>2, <1>5, <1>9, <1>10 DEF CustomAt

\* errHandler writes an answer of its own, and says then that it handled the error.
LEMMA CustomAnswers ==
  ASSUME IInv, Places, NEW c \in 1..Len(stack), stack[c] = "CustomErrors", CustomAt(c),
         NEW g \in Goroutine, Calls(g, "CustomErrors"), NEW e, e = Head(gor[g].todo),
         e.op = "header", ~custom.called, custom' = [custom EXCEPT !.called = TRUE],
         Becomes(g, Custom(e)), UNCHANGED <<stack, conn, tw>>
  PROVE  CustomAt(c)'
  <1> DEFINE todo == gor[g].todo
             a == Call("header", e.arg, "error", e.at)
             b == Call("write", 1, "error", e.at)
             d == Call("handled", 0, "error", e.at)
             new == <<a, b, d>>
             u == gor'[g].todo
  <1>1. /\ Pending(g) /\ todo # <<>> /\ e.at = c /\ e \in CallOf(stack, Who, TRUE) /\ stack \in Stacks
        /\ Len(todo) \in Nat /\ g = Comer(stack, c) /\ gor[g].at >= c
        /\ \A h \in Goroutine : gor[h].pc \in Inbound => gor[h].at >= c
    BY CustomThere
  <1>2. /\ custom'.called /\ ~custom.noop /\ ~custom'.noop /\ custom'.simple = custom.simple
    BY DEF IInv, Typed
  <1>3. c \in Nat /\ c \in 0..c /\ Wrapped(c) /\ c \in Level(stack)
    <2>1. c \in Nat /\ Wrapped(c) /\ c <= Len(stack) /\ Len(stack) \in Nat
      BY <1>1, ComerIs
    <2> QED
      BY <2>1 DEF Level
  <1>4. Writer(c) = c
    BY <1>3, WriterAbove
  <1>5. /\ a.op = "header" /\ b.op = "write" /\ d.op = "handled" /\ b.arg = 1
        /\ \A x \in {a, b, d} : x.src = {"error"} /\ x.at = c
    BY <1>1, <1>4 DEF Call
  <1>6. a \in Pure(stack, c) /\ b \in Pure(stack, c) /\ d \in Pure(stack, c)
    <2> DEFINE arg == e.arg
               at == e.at
    <2>0. e.arg \in Nat /\ e.at \in Level(stack) /\ (e.op = "header" => e.arg \in Codes)
      BY <1>1 DEF CallOf
    <2>1. arg \in Codes /\ arg \in Nat /\ at \in Level(stack) /\ "error" \in Who
      BY <2>0 DEF Who
    <2> HIDE DEF arg, at
    <2>2. /\ Call("header", arg, "error", at) \in CallOf(stack, Who, TRUE)
          /\ Call("write", 1, "error", at) \in CallOf(stack, Who, TRUE)
          /\ Call("handled", 0, "error", at) \in CallOf(stack, Who, TRUE)
      BY <1>1, <2>1, NewCall
    <2>3. a \in CallOf(stack, Who, TRUE) /\ b \in CallOf(stack, Who, TRUE) /\ d \in CallOf(stack, Who, TRUE)
      BY <2>2 DEF arg, at
    <2> HIDE DEF a, b, d
    <2>4. {"error"} \cap Foreign = {}
      BY DEF Foreign
    <2> QED
      BY <1>5, <2>3, <2>4 DEF Pure
  <1>7. Becomes(g, new)
    BY DEF Custom
  <1> HIDE DEF a, b, d
  <1>8. /\ new \in Seq(Pure(stack, c)) /\ Len(new) = 3 /\ new[1] = a /\ new[2] = b /\ new[3] = d
    BY <1>6
  <1> HIDE DEF new
  <1>9. Made(g, new)
    BY <1>1, <1>7, <1>8, MadeIs
  <1>10. /\ Changed(todo, new, u) /\ \A h \in Goroutine : h # g => gor'[h] = gor[h]
         /\ \A h \in Goroutine : gor'[h].pc = gor[h].pc /\ gor'[h].at = gor[h].at
    BY <1>9 DEF Made
  <1>11. /\ Len(u) = 3 + Len(todo) - 1 /\ Len(todo) >= 1 /\ u[1] = a /\ u[2] = b /\ u[3] = d
         /\ \A j \in 1..Len(u) : j <= 3 \/ (j - 2 \in 2..Len(todo) /\ u[j] = todo[j - 2])
    <2> HIDE DEF todo, u
    <2>1. /\ Len(u) = Len(new) + Len(todo) - 1 /\ Len(todo) >= 1
          /\ \A j \in 1..Len(new) : u[j] = new[j]
          /\ \A j \in 1..Len(u) :
               \/ j <= Len(new) /\ u[j] = new[j]
               \/ j - Len(new) + 1 \in 2..Len(todo) /\ u[j] = todo[j - Len(new) + 1]
      BY <1>10, ShiftedIs
    <2>2. \A j \in 1..Len(u) : j - 3 + 1 = j - 2
      OBVIOUS
    <2> QED
      BY <1>8, <2>1, <2>2
  <1>12. \A h \in Goroutine : ~Handling(gor[h].todo)
    BY NotHandled DEF IInv
  <1>13. \A k \in 1..Len(u) : u[k].op = "handled" => k = 3
    <2> SUFFICES ASSUME NEW k \in 1..Len(u), u[k].op = "handled", k # 3 PROVE FALSE
      OBVIOUS
    <2>1. CASE k <= 3
      <3>1. k = 1 \/ k = 2
        BY <2>1
      <3> QED
        BY <1>5, <1>11, <3>1
    <2>2. CASE k - 2 \in 2..Len(todo) /\ u[k] = todo[k - 2]
      <3>1. k - 2 \in 1..Len(todo)
        BY <1>1, <2>2
      <3> QED
        BY <1>12, <2>2, <3>1 DEF Handling
    <2> QED
      BY <1>11, <2>1, <2>2
  <1>14. Ordered(c, u)
    <2>1. \A j \in 1..3 : u[j].src \cap Foreign = {}
      <3>1. \A j \in 1..3 : j = 1 \/ j = 2 \/ j = 3
        OBVIOUS
      <3>2. {"error"} \cap Foreign = {}
        BY DEF Foreign
      <3> QED
        BY <1>5, <1>11, <3>1, <3>2
    <2> QED
      BY <1>5, <1>11, <1>13, <2>1 DEF Ordered
  <1>15. \A h \in Goroutine : Ordered(c, gor'[h].todo)
    BY <1>10, <1>14 DEF CustomAt
  <1>16. ASSUME Simple(c)'
         PROVE  Clean(c)'
    <2>1. Simple(c)
      BY <1>1, <1>2, <1>16 DEF Simple, Coming
    <2>2. Clean(c)
      BY <2>1 DEF CustomAt
    <2>3. u \in Seq(Pure(stack, c))
      <3>1. todo \in Seq(Pure(stack, c)) /\ u = new \o Tail(todo)
        BY <1>10, <2>2 DEF Clean, Changed
      <3> HIDE DEF todo, u
      <3> QED
        BY <1>1, <1>8, <3>1, Replaced DEF todo
    <2> QED
      BY <1>10, <2>2, <2>3 DEF Clean
  <1>17. Landed(c)'
    <2>1. 2 \in 1..Len(u) /\ 3 \in (2 + 1)..Len(u)
      BY <1>1, <1>11
    <2>2. "error" \in u[2].src \cap Own
      BY <1>5, <1>11 DEF Own
    <2>3. InFlight(c, u, 2)
      BY <1>5, <1>11, <2>1, <2>2 DEF InFlight
    <2>4. Flies(c, u)
      BY <2>1, <2>3 DEF Flies
    <2> QED
      BY <2>4 DEF Landed
  <1> QED
    BY <1>1, <1>2, <1>10, <1>15, <1>16, <1>17 DEF CustomAt

\* errHandler handled the error: from here on CustomErrors drops what comes.
LEMMA CustomHandles ==
  ASSUME IInv, Places, NEW c \in 1..Len(stack), stack[c] = "CustomErrors", CustomAt(c),
         NEW g \in Goroutine, Calls(g, "CustomErrors"), NEW e, e = Head(gor[g].todo),
         e.op = "handled", custom' = [custom EXCEPT !.noop = TRUE],
         Becomes(g, <<>>), UNCHANGED <<stack, conn, tw>>
  PROVE  CustomAt(c)'
  <1> DEFINE todo == gor[g].todo
             u == gor'[g].todo
  <1>1. /\ Pending(g) /\ todo # <<>> /\ todo[1] = e /\ 1 \in 1..Len(todo)
        /\ Len(todo) \in Nat /\ g = Comer(stack, c) /\ e \in CallOf(stack, Who, custom.called)
        /\ \A h \in Goroutine : gor[h].pc \in Inbound => gor[h].at >= c
    BY CustomThere
  <1>2. custom.called
    BY <1>1, CallFields
  <1>3. custom'.called = custom.called /\ custom'.noop /\ custom'.simple = custom.simple
    BY DEF IInv, Typed
  <1>4. Made(g, <<>>)
    BY <1>1, EmptySeq, MadeIs
  <1>5. /\ Changed(todo, <<>>, u) /\ \A h \in Goroutine : h # g => gor'[h] = gor[h]
        /\ \A h \in Goroutine : gor'[h].pc = gor[h].pc /\ gor'[h].at = gor[h].at
    BY <1>4 DEF Made
  <1>6. \A k \in 1..Len(todo) : todo[k].op = "handled" => k = 1
    BY <1>1 DEF CustomAt, Ordered
  <1>7. Handled
    BY <1>1 DEF Handled, Handling
  <1>8. \A h \in Goroutine : ~Handling(gor'[h].todo)
    <2>1. ~Handling(u)
      <3>1. \A k \in 2..Len(todo) : todo[k].op # "handled"
        BY <1>1, <1>6
      <3>2. \A j \in 1..Len(<<>>) : <<>>[j].op # "handled"
        OBVIOUS
      <3> HIDE DEF todo, u
      <3> QED
        BY <1>5, <3>1, <3>2, HandledAt
    <2>2. ASSUME NEW h \in Goroutine, h # g, Handling(gor'[h].todo)
          PROVE  FALSE
      <3>1. gor'[h] = gor[h]
        BY <1>5, <2>2
      <3>2. PICK k \in 1..Len(gor[h].todo) : gor[h].todo[k].op = "handled"
        BY <2>2, <3>1 DEF Handling
      <3>3. gor[h].todo[k].at = c
        BY <3>2 DEF CustomAt, Ordered
      <3> QED
        BY <1>1, <2>2, <3>3, CallerIs
    <2> QED
      BY <2>1, <2>2
  <1>9. ~Handled' /\ \A h \in Goroutine : Ordered(c, gor'[h].todo)
    BY <1>8 DEF Handled, Handling, Ordered
  <1>10. ASSUME Simple(c)'
         PROVE  Clean(c)'
    <2>1. Clean(c)
      BY <1>3, <1>7, <1>10 DEF Simple, CustomAt
    <2>2. u \in Seq(Pure(stack, c))
      <3>1. todo \in Seq(Pure(stack, c)) /\ u = <<>> \o Tail(todo)
        BY <1>5, <2>1 DEF Clean, Changed
      <3> HIDE DEF todo, u
      <3> QED
        BY <1>1, <3>1, EmptySeq, Replaced DEF todo
    <2> QED
      BY <1>5, <2>1, <2>2 DEF Clean
  <1>11. ASSUME NEW j \in 1..Len(todo), InFlight(c, todo, j)
         PROVE  Landed(c)'
    <2>1. j # 1
      BY <1>1, <1>11 DEF InFlight
    <2>2. todo[j].at < c
      <3>1. ASSUME NEW k \in (j + 1)..Len(todo), todo[k].op = "handled"
            PROVE  FALSE
        <4>1. k \in 1..Len(todo) /\ k # 1
          BY <1>1
        <4> QED
          BY <1>6, <3>1, <4>1
      <3> QED
        BY <1>11, <3>1 DEF InFlight
    <2>3. u[j - 1] = todo[j] /\ j - 1 \in 1..Len(u)
      <3> HIDE DEF todo, u
      <3>1. /\ Len(u) = Len(<<>>) + Len(todo) - 1
            /\ \A i \in 2..Len(todo) : u[Len(<<>>) + i - 1] = todo[i]
        BY <1>5, ShiftedIs
      <3>2. Len(<<>>) = 0 /\ j \in 2..Len(todo) /\ 0 + j - 1 = j - 1
        BY <1>1, <2>1 DEF todo
      <3> QED
        BY <1>1, <3>1, <3>2 DEF todo
    <2>4. InFlight(c, u, j - 1)
      BY <1>11, <2>2, <2>3 DEF InFlight
    <2>5. Flies(c, u)
      BY <2>3, <2>4 DEF Flies
    <2> QED
      BY <2>5 DEF Landed
  <1>12. Landed(c)'
    <2>1. Landed(c)
      BY <1>7 DEF CustomAt
    <2> QED
      BY <1>4, <1>11, <2>1, LandedOn
  <1> QED
    BY <1>1, <1>3, <1>5, <1>9, <1>10, <1>12 DEF CustomAt

\* A call of CustomErrors.
LEMMA CustomCalled ==
  ASSUME IInv, Places, NEW c \in 1..Len(stack), stack[c] = "CustomErrors", CustomAt(c),
         NEW g \in Goroutine, CustomCall(g)
  PROVE  CustomAt(c)'
  <1> DEFINE e == Head(gor[g].todo)
  <1>1. /\ Calls(g, "CustomErrors") /\ UNCHANGED <<stack, conn, tw>>
        /\ \/ Dropped(e) /\ Becomes(g, <<>>) /\ custom' = custom
           \/ /\ e.op = "header" /\ ~custom.called
              /\ custom' = [custom EXCEPT !.called = TRUE]
              /\ Becomes(g, Custom(e)) \/ Becomes(g, <<Below(e)>>)
           \/ /\ e.op = "handled" /\ custom' = [custom EXCEPT !.noop = TRUE]
              /\ Becomes(g, <<>>)
           \/ /\ ~Dropped(e) /\ e.op # "handled"
              /\ custom' = [custom EXCEPT !.simple = @ /\ custom.called /\ e.op # "copy"]
              /\ Becomes(g, <<Below(e)>>)
    BY CustomIs
  <1>2. CASE Dropped(e) /\ Becomes(g, <<>>) /\ custom' = custom
    BY <1>1, <1>2, CustomDrops
  <1> HIDE DEF e
  <1>3. e = Head(gor[g].todo)
    BY DEF e
  <1>4. CASE /\ e.op = "header" /\ ~custom.called
             /\ custom' = [custom EXCEPT !.called = TRUE]
             /\ Becomes(g, Custom(e)) \/ Becomes(g, <<Below(e)>>)
    <2>1. CASE Becomes(g, Custom(e))
      BY <1>1, <1>3, <1>4, <2>1, CustomAnswers
    <2>2. CASE Becomes(g, <<Below(e)>>)
      BY <1>1, <1>3, <1>4, <2>2, CustomDeclines
    <2> QED
      BY <1>4, <2>1, <2>2
  <1>5. CASE /\ e.op = "handled" /\ custom' = [custom EXCEPT !.noop = TRUE]
             /\ Becomes(g, <<>>)
    BY <1>1, <1>3, <1>5, CustomHandles
  <1>6. CASE /\ ~Dropped(e) /\ e.op # "handled"
             /\ custom' = [custom EXCEPT !.simple = @ /\ custom.called /\ e.op # "copy"]
             /\ Becomes(g, <<Below(e)>>)
    BY <1>1, <1>3, <1>6, CustomPasses
  <1> QED
    BY <1>1, <1>2, <1>4, <1>5, <1>6

\* Nothing has come to CustomErrors at the start.
LEMMA CustomInit ==
  ASSUME RInit
  PROVE  CustomInv
  <1>1. /\ \A g \in Goroutine : gor[g].todo = <<>> /\ Len(gor[g].todo) = 0
        /\ ~custom.called /\ ~custom.noop /\ conn.src = {} /\ tw.resp.src = {}
    BY DEF RInit, Init, Idle, Goroutine, NoResponse
  <1>2. ~Handled /\ \A c : \A g \in Goroutine : Ordered(c, gor[g].todo)
    BY <1>1 DEF Handled, Handling, Ordered
  <1>3. \A c : Clean(c)
    BY <1>1, EmptySeq DEF Clean
  <1>4. \A c : CustomAt(c)
    BY <1>1, <1>2, <1>3 DEF CustomAt
  <1> QED
    BY <1>1, <1>4 DEF CustomInv

\* What is in the buffer has a length.
LEMMA BufferHasBytes ==
  ASSUME IInv, tw.resp.src # {} => tw.resp.bytes > 0, [RNext]_rvars
  PROVE  tw'.resp.src # {} => tw'.resp.bytes > 0
  <1>1. CASE BufferCall
    <2> DEFINE e == Head(gor["inner"].todo)
    <2>1. /\ tw' = IF tw.err THEN tw ELSE [tw EXCEPT !.resp = Sent(@, e)]
          /\ gor["inner"].todo # <<>> /\ "inner" \in Goroutine
      BY <1>1, BufferIs DEF Goroutine
    <2>2. /\ e \in CallOf(stack, Who, TRUE) /\ tw.resp \in Answer
          /\ tw \in [resp : Answer, err : BOOLEAN]
      BY <2>1, FirstIs DEF IInv, Typed
    <2> HIDE DEF e
    <2>3. Sent(tw.resp, e).src # {} => Sent(tw.resp, e).bytes > 0
      BY <2>2, SentSrc
    <2>4. tw' = tw \/ tw'.resp = Sent(tw.resp, e)
      BY <2>1, <2>2
    <2> QED
      BY <2>3, <2>4
  <1>2. ASSUME NEW g \in Goroutine, WriterCall(g), ~BufferCall
        PROVE  tw' = tw
    BY <1>2 DEF WriterCall, ConnCall, LimitCall, LoggingCall, CustomCall
  <1>3. ASSUME NEW g \in Goroutine, NEW C, Turn(g, C)
        PROVE  tw' = tw
    BY <1>3 DEF Turn
  <1>4. CASE EnterTimeout \/ Flush \/ Timeout \/ PanicPassed
    <2>1. tw'.resp = tw.resp
      BY <1>4, EnterTimeoutIs, WaitedIs
    <2> QED
      BY <2>1
  <1> QED
    BY <1>1, <1>2, <1>3, <1>4, StepIs

\* errHandler is called by CustomErrors.
LEMMA CalledHas ==
  ASSUME IInv, custom.called => Has("CustomErrors"), [RNext]_rvars
  PROVE  stack' = stack /\ (custom'.called => Has("CustomErrors"))
  <1>1. stack' = stack
    BY StepIs, CalledIs, EnterTimeoutIs, WaitedIs DEF Turn
  <1>2. ASSUME NEW g \in Goroutine, CustomCall(g)
        PROVE  Has("CustomErrors")
    <2>1. Calls(g, "CustomErrors")
      BY <1>2 DEF CustomCall
    <2>2. /\ Head(gor[g].todo).at \in 1..Len(stack)
          /\ stack[Head(gor[g].todo).at] = "CustomErrors"
      BY <2>1, HookIs
    <2> QED
      BY <2>2 DEF Has
  <1>3. ASSUME NEW g \in Goroutine, WriterCall(g), ~CustomCall(g)
        PROVE  custom' = custom
    BY <1>3 DEF WriterCall, ConnCall, BufferCall, LimitCall, LoggingCall
  <1>4. ASSUME NEW g \in Goroutine, NEW C, Turn(g, C)
        PROVE  custom' = custom
    BY <1>4 DEF Turn
  <1>5. CASE EnterTimeout \/ Flush \/ Timeout \/ PanicPassed
    BY <1>1, <1>5, EnterTimeoutIs, WaitedIs
  <1> QED
    BY <1>1, <1>2, <1>3, <1>4, <1>5, StepIs

\* It stays so that a handled error is the whole answer.
LEMMA CustomKept ==
  ASSUME IInv, IInv', Places, CustomInv, [RNext]_rvars
  PROVE  CustomInv'
  <1>1. stack' = stack /\ (custom'.called => Has("CustomErrors"))
    BY CalledHas DEF CustomInv
  <1>2. tw.resp.src # {} => tw.resp.bytes > 0
    BY DEF CustomInv
  <1>3. tw'.resp.src # {} => tw'.resp.bytes > 0
    BY <1>2, BufferHasBytes
  <1>4. Refusals \subseteq Codes
    BY DEF Refusals, Codes
  <1>5. ASSUME NEW c \in 1..Len(stack), stack[c] = "CustomErrors"
        PROVE  CustomAt(c)'
    <2>1. CustomAt(c)
      BY <1>5 DEF CustomInv
    <2>2. ASSUME NEW g \in Goroutine, WriterCall(g)
          PROVE  CustomAt(c)'
      <3>1. CASE ConnCall
        BY <1>5, <2>1, <3>1, CustomConn
      <3>2. CASE BufferCall
        BY <1>5, <2>1, <3>2, CustomBuffer
      <3>3. CASE LimitCall(g) \/ LoggingCall(g)
        BY <1>5, <2>1, <3>3, CustomPassed
      <3>4. CASE CustomCall(g)
        BY <1>5, <2>1, <3>4, CustomCalled
      <3> QED
        BY <2>2, <3>1, <3>2, <3>3, <3>4 DEF WriterCall
    <2>3. ASSUME NEW g \in Goroutine, NEW C, C \subseteq Codes, Turn(g, C)
          PROVE  CustomAt(c)'
      BY <1>5, <2>1, <2>3, CustomTurn
    <2>4. CASE EnterTimeout
      BY <1>5, <2>1, <2>4, CustomEnters
    <2>5. CASE Flush \/ Timeout \/ PanicPassed
      BY <1>2, <1>5, <2>1, <2>5, CustomWaited
    <2>6. CASE UNCHANGED <<stack, gor, conn, tw, custom, metrics, logged, reg>>
      BY <2>1, <2>6 DEF CustomAt, Handled, Simple, Coming, Clean, Landed
    <2> QED
      BY <1>4, <2>2, <2>3, <2>4, <2>5, <2>6, StepIs
  <1> QED
    BY <1>1, <1>3, <1>5 DEF CustomInv, Has

\* When serve has ended, what was written has reached the connection, unless
\* TimeoutHandler gave up.
LEMMA EndedLanded ==
  ASSUME IInv, Places, NEW c, Landed(c), gor["serve"].pc = "ended", ~tw.err
  PROVE  conn.src \cap Own # {}
  <1> SUFFICES ASSUME NEW g \in Goroutine, Flies(c, gor[g].todo)
               PROVE  FALSE
    BY DEF Landed
  <1>1. gor[g].todo # <<>>
    <2>1. gor[g].todo = <<>> => Len(gor[g].todo) = 0
      BY EmptySeq
    <2> QED
      BY <2>1 DEF Flies
  <1>2. gor[g].pc \in {"handler", "leave"}
    BY <1>1 DEF Places, Placed
  <1>3. g = "inner"
    BY <1>2 DEF Goroutine
  <1>4. Control(stack, gor["serve"], gor["inner"], tw.err)
    BY DEF IInv, Shape
  <1> QED
    BY <1>2, <1>3, <1>4 DEF Control

\* For every stack, whatever the handler, errHandler and the timer do: when errHandler
\* handled the error that the handler began with, nothing that the handler or a middleware
\* wrote goes to the client, and the client gets an answer of errHandler or recoverFn,
\* unless TimeoutHandler gave up.
THEOREM CustomErrorsAreWhole == RSpec => []CustomWhole
  <1>1. RInit => IInv /\ Places /\ CustomInv
    BY InitHolds, PlacesInit, CustomInit
  <1>2. IInv /\ Places /\ CustomInv /\ [RNext]_rvars => (IInv /\ Places /\ CustomInv)'
    <2> SUFFICES ASSUME IInv, Places, CustomInv, [RNext]_rvars
                 PROVE  IInv' /\ Places' /\ CustomInv'
      OBVIOUS
    <2>1. IInv'
      BY StepKeeps
    <2> QED
      BY <2>1, PlacesKept, CustomKept
  <1>3. IInv /\ Places /\ CustomInv => CustomWhole
    <2> SUFFICES ASSUME IInv, Places, CustomInv, custom.noop, custom.simple
                 PROVE  /\ conn.src \cap {"handler", "refusal"} = {}
                        /\ gor["serve"].pc = "ended" /\ ~tw.err =>
                             conn.src \cap {"error", "recover"} # {}
      BY DEF CustomWhole
    <2>1. PICK c \in 1..Len(stack) : stack[c] = "CustomErrors"
      BY DEF CustomInv, Has, IInv, Typed
    <2>2. CustomAt(c)
      BY <2>1 DEF CustomInv
    <2>3. conn.src \cap Foreign = {}
      BY <2>2 DEF CustomAt, Simple, Clean
    <2>4. Landed(c)
      BY <2>2 DEF CustomAt
    <2>5. gor["serve"].pc = "ended" /\ ~tw.err => conn.src \cap Own # {}
      BY <2>4, EndedLanded
    <2> QED
      BY <2>3, <2>5 DEF Foreign, Own
  <1> QED
    BY <1>1, <1>2, <1>3, PTL DEF RSpec
================================================================================
