------------------------------ MODULE Middleware ------------------------------
(***************************************************************************)
(* Package server/middleware, and the container of key-value pairs of      *)
(* ctxvals: one request through a stack of middleware, outermost first,    *)
(* to a handler of the application.  Level i of the stack is the response  *)
(* writer that middleware i passes on; level 0 is the response of the      *)
(* connection.  A call of a writer goes down level by level, through the   *)
(* hooks that the middleware installed.                                    *)
(*                                                                         *)
(* http.TimeoutHandler runs the rest of the stack in a goroutine of its    *)
(* own ("inner"), on a buffer, while the goroutine that serves the         *)
(* connection ("serve") waits for it or for the timer.                     *)
(*                                                                         *)
(* External, modelled from how the code uses them: net/http, httpsnoop     *)
(* (which asks a hook for its function again at every call), the bucket of *)
(* juju/ratelimit, and the application's handler, errHandler and           *)
(* recoverFn.  "Decode" and "Register" stand for handlers that read the    *)
(* parameters of the request; module Registration has their steps.         *)
(***************************************************************************)
EXTENDS Integers, Sequences, FiniteSets

CONSTANTS
  Stacks,        \* the stacks to try: sequences of names of middleware
  Limit,         \* of LimitResponseBodyBytes
  Capacity,      \* RequestLimitConfig, time in the unit of clock
  Quantum,
  FillInterval,
  MaxWait,
  MaxSteps,      \* bound on what the handler does
  MaxClock,      \* bound on the time in which other requests arrive
  MaxOthers      \* bound on the other requests

Names == { "LimitResponseBodyBytes", "RequestContentType", "ResponseContentType",
           "TimeoutHandler", "RequestLimit", "PanicRecovery", "Logging",
           "CustomErrors", "LimitRequestBodyBytes", "Decode", "Register" }

\* A middleware is at most once in a stack.
ASSUME MiddlewareAssumption ==
  /\ Stacks \subseteq Seq(Names)
  /\ \A s \in Stacks : \A i, j \in 1..Len(s) : s[i] = s[j] => i = j
  /\ Limit \in Nat \ {0} /\ Capacity \in Nat \ {0} /\ Quantum \in Int
  /\ FillInterval \in Nat \ {0} /\ MaxWait \in Nat
  /\ MaxSteps \in Nat /\ MaxClock \in Nat /\ MaxOthers \in Nat

VARIABLES
  stack,     \* the middleware of this request
  gor,       \* the goroutines
  conn,      \* the response of the connection
  tw,        \* the buffer of TimeoutHandler, and whether it gave up (err)
  custom,    \* noop and called of CustomErrors; history: the handler began with
             \* the error and did not use ReadFrom (simple)
  metrics,   \* httpsnoop.Metrics of Logging
  pairs,     \* the container of ctxvals, and who is using it
  logged,    \* what Logging passed to logFn
  bucket,    \* the bucket of RequestLimit
  others,    \* other requests that sleep in RequestLimit: until when
  arrived,   \* how many other requests there were
  admitted,  \* history: requests that RequestLimit let through
  clock,
  steps,     \* what the handler has done
  crashed    \* the Go runtime ended the program: concurrent use of a map

request == <<gor, conn, tw, custom, metrics, pairs, logged, steps>>
rate == <<bucket, others, arrived, admitted>>
vars == <<stack, request, rate, clock, crashed>>

Goroutine == {"serve", "inner"}

Has(m) == \E i \in 1..Len(stack) : stack[i] = m

At(m) == CHOOSE i \in 1..Len(stack) : stack[i] = m

\* The level that a goroutine starts from and returns to.
Base(g) == IF g = "serve" THEN 0 ELSE At("TimeoutHandler")

\* The writers that a call can meet: of a middleware with hooks, the buffer of
\* TimeoutHandler, and the connection.
Wrapped(i) ==
  i = 0 \/ stack[i] \in {"LimitResponseBodyBytes", "CustomErrors", "Logging", "TimeoutHandler"}

\* The outermost of the writers up to level i that are the same.
Writer(i) == CHOOSE j \in 0..i : Wrapped(j) /\ \A k \in (j + 1)..i : ~Wrapped(k)

\* A call of a response writer: WriteHeader, Write or ReadFrom of the writer of
\* a level, with what it writes, and whether it passed the hooks of Logging.
Call(op, arg, src, at) ==
  [op |-> op, arg |-> arg, src |-> {src}, at |-> Writer(at), metered |-> FALSE]

\* http.Error, and what errHandler and recoverFn do: a status and a short body.
Error(code, src, at) == <<Call("header", code, src, at), Call("write", 1, src, at)>>

\* Where a goroutine is, at which level, the calls that it makes first, and the
\* time that it sleeps until.
Idle == [pc |-> "off", at |-> 0, todo |-> <<>>, until |-> 0]

NoResponse == [status |-> 0, bytes |-> 0, src |-> {}]

Init ==
  /\ stack \in Stacks
  /\ gor = [g \in Goroutine |->
              [Idle EXCEPT !.pc = IF g = "serve" THEN "enter" ELSE "off"]]
  /\ conn = NoResponse
  /\ tw = [resp |-> NoResponse, err |-> FALSE]
  /\ custom = [noop |-> FALSE, called |-> FALSE, simple |-> TRUE]
  /\ metrics = [Code |-> 200, headerWritten |-> FALSE, Written |-> 0]
  /\ pairs = [keys |-> {}, use |-> {}]
  /\ logged = <<>>
  /\ bucket = [avail |-> Capacity, tick |-> 0]
  /\ others = <<>> /\ arrived = 0 /\ admitted = 0
  /\ clock = 0
  /\ steps = 0
  /\ crashed = FALSE

-----------------------------------------------------------------------------
(* Calls of response writers. *)

Pending(g) == gor[g].todo # <<>>

Ready(g, pc) == gor[g].pc = pc /\ ~Pending(g)

\* The call that g makes next, when it is one of middleware m.
Calls(g, m) == Pending(g) /\ LET i == Head(gor[g].todo).at IN i > 0 /\ stack[i] = m

\* The call is replaced by the calls that it makes.
Becomes(g, calls) == gor' = [gor EXCEPT ![g].todo = calls \o Tail(@)]

Below(e) == [e EXCEPT !.at = Writer(@ - 1)]

\* What a writer without hooks does: the first status counts, a body without a
\* status has 200.
Sent(r, e) ==
  LET first(code) == IF r.status = 0 THEN code ELSE r.status IN
  IF e.op = "header"
    THEN [r EXCEPT !.status = first(e.arg)]
    ELSE [ status |-> first(200), bytes |-> r.bytes + e.arg,
           src |-> IF e.arg > 0 THEN r.src \cup e.src ELSE r.src ]

\* Logging adds what the call returns to it.
Measured(e, ok) ==
  metrics' = IF e.metered /\ e.op # "header" /\ ok
               THEN [metrics EXCEPT !.Written = @ + e.arg] ELSE metrics

\* The response of net/http.
ConnCall ==
  LET e == Head(gor["serve"].todo) IN
  /\ Pending("serve") /\ e.at = 0
  /\ conn' = Sent(conn, e)
  /\ Measured(e, TRUE)
  /\ Becomes("serve", <<>>)
  /\ UNCHANGED <<stack, tw, custom, pairs, logged, steps, rate, clock, crashed>>

\* Mutant: the handler gets the writer of the connection itself.
TimeoutWriterDirect(e) == conn' = Sent(conn, e) /\ Measured(e, TRUE) /\ UNCHANGED tw

\* The timeoutWriter: a buffer that refuses everything once it gave up.
TimeoutWriter(e) ==
  /\ tw' = IF tw.err THEN tw ELSE [tw EXCEPT !.resp = Sent(@, e)]
  /\ Measured(e, ~tw.err)
  /\ UNCHANGED conn

BufferCall ==
  /\ Calls("inner", "TimeoutHandler")
  /\ TimeoutWriter(Head(gor["inner"].todo))
  /\ Becomes("inner", <<>>)
  /\ UNCHANGED <<stack, custom, pairs, logged, steps, rate, clock, crashed>>

\* Mutant: the difference is the wrong way round.
LimitWriteSwapped(e) ==
  IF e.op = "write" /\ e.arg > Limit
    THEN <<Call("header", 500, "limit", e.at), [Below(e) EXCEPT !.arg = Limit - @]>>
    ELSE <<Below(e)>>

\* limitWrite: httpsnoop asks for the function, and its size is 0, at every Write.
LimitWrite(e) ==
  LET size == 0
      total == size + e.arg
  IN IF e.op = "write" /\ total > Limit
       THEN << Call("header", 500, "limit", e.at),
               [Below(e) EXCEPT !.arg = @ - (total - Limit)] >>
       ELSE <<Below(e)>>

LimitCall(g) ==
  /\ Calls(g, "LimitResponseBodyBytes")
  /\ Becomes(g, LimitWrite(Head(gor[g].todo)))
  /\ UNCHANGED <<stack, conn, tw, custom, metrics, pairs, logged, steps, rate,
                 clock, crashed>>

\* httpsnoop.CaptureMetrics: the first status counts.
LoggingCall(g) ==
  LET e == Head(gor[g].todo) IN
  /\ Calls(g, "Logging")
  /\ metrics' = [metrics EXCEPT
                   !.Code = IF e.op = "header" /\ ~metrics.headerWritten THEN e.arg ELSE @,
                   !.headerWritten = TRUE]
  /\ Becomes(g, <<[Below(e) EXCEPT !.metered = TRUE]>>)
  /\ UNCHANGED <<stack, conn, tw, custom, pairs, logged, steps, rate, clock, crashed>>

\* Mutant: what follows the handled error is not dropped.
DroppedNever(e) == FALSE

\* The hooks of WriteHeader and Write return at once when noop; ReadFrom has none.
Dropped(e) == custom.noop /\ e.op \in {"header", "write"}

\* CustomErrors: errHandler writes to the same writer and then says if it
\* handled the error.
CustomCall(g) ==
  LET e == Head(gor[g].todo)
      isError == e.op = "header" /\ e.arg >= 400 /\ ~custom.called
  IN
  /\ Calls(g, "CustomErrors")
  /\ \/ Dropped(e) /\ Becomes(g, <<>>) /\ UNCHANGED custom
     \/ /\ ~Dropped(e) /\ isError
        /\ custom' = [custom EXCEPT !.called = TRUE]
        /\ \/ Becomes(g, Error(e.arg, "error", e.at) \o <<Call("handled", 0, "error", e.at)>>)
           \/ Becomes(g, <<Below(e)>>)
     \/ /\ e.op = "handled"
        /\ custom' = [custom EXCEPT !.noop = TRUE]
        /\ Becomes(g, <<>>)
     \/ /\ ~Dropped(e) /\ ~isError /\ e.op # "handled"
        /\ custom' = [custom EXCEPT !.simple = @ /\ custom.called /\ e.op # "copy"]
        /\ Becomes(g, <<Below(e)>>)
  /\ UNCHANGED <<stack, conn, tw, metrics, pairs, logged, steps, rate, clock, crashed>>

WriterCall(g) ==
  \/ g = "serve" /\ ConnCall
  \/ g = "inner" /\ BufferCall
  \/ LimitCall(g) \/ LoggingCall(g) \/ CustomCall(g)

-----------------------------------------------------------------------------
(* The way in: the goroutine enters the middleware of the next level. *)

Enters(g, m) ==
  /\ Ready(g, "enter") /\ gor[g].at < Len(stack) /\ stack[gor[g].at + 1] = m

Inside(g) == gor' = [gor EXCEPT ![g].at = @ + 1]

\* Goroutine g goes on from level at, after the calls.
GoesOn(g, pc, at, calls) ==
  gor' = [gor EXCEPT ![g] = [pc |-> pc, at |-> at, todo |-> calls, until |-> 0]]

\* LimitResponseBodyBytes, CustomErrors and Logging install their hooks,
\* PanicRecovery its defer, LimitRequestBodyBytes its reader.
EnterPlain(g) ==
  /\ \E m \in {"LimitResponseBodyBytes", "CustomErrors", "Logging", "PanicRecovery",
               "LimitRequestBodyBytes"} : Enters(g, m)
  /\ Inside(g)
  /\ UNCHANGED <<stack, conn, tw, custom, metrics, pairs, logged, steps, rate, clock, crashed>>

RefusalCode == [RequestContentType |-> 415, ResponseContentType |-> 406]

\* The content types of the request are accepted, or it ends with http.Error.
EnterContentType(g) ==
  /\ \E m \in DOMAIN RefusalCode :
       /\ Enters(g, m)
       /\ \/ Inside(g)
          \/ GoesOn(g, "leave", gor[g].at, Error(RefusalCode[m], "refusal", gor[g].at))
  /\ UNCHANGED <<stack, conn, tw, custom, metrics, pairs, logged, steps, rate, clock, crashed>>

\* Mutant: the middleware calls the handler itself, and relies on the context.
TimeoutHandlerSame == gor' = [gor EXCEPT !["serve"].at = @ + 1]

\* Mutant: the goroutine is started and not waited for.
TimeoutHandlerAsync ==
  LET i == gor["serve"].at + 1 IN
  gor' = [gor EXCEPT !["serve"] = [Idle EXCEPT !.pc = "leave", !.at = i - 1],
                     !["inner"] = [Idle EXCEPT !.pc = "enter", !.at = i]]

\* http.TimeoutHandler starts the goroutine, and waits.
TimeoutHandler ==
  LET i == gor["serve"].at + 1 IN
  gor' = [gor EXCEPT !["serve"] = [Idle EXCEPT !.pc = "wait", !.at = i],
                     !["inner"] = [Idle EXCEPT !.pc = "enter", !.at = i]]

EnterTimeout ==
  /\ Enters("serve", "TimeoutHandler")
  /\ TimeoutHandler
  /\ UNCHANGED <<stack, conn, tw, custom, metrics, pairs, logged, steps, rate, clock, crashed>>

quantum == IF Quantum <= 0 THEN 1 ELSE Quantum

Tick(t) == t \div FillInterval

\* The tokens of the bucket at the present tick.
Filled ==
  LET now == bucket.avail + (Tick(clock) - bucket.tick) * quantum
  IN IF now < Capacity THEN now ELSE Capacity

\* How long the next token takes: 0 when there is one.
WaitTime ==
  IF Filled >= 1 THEN 0
  ELSE (Tick(clock) + ((1 - Filled) + quantum - 1) \div quantum) * FillInterval - clock

\* Mutant: a bucket for every request.
WaitMaxDurationOwn(ok) == ok /\ UNCHANGED bucket

\* buck.WaitMaxDuration(1, MaxWait): the token is taken now, also one that is
\* still to come, unless that takes too long.
WaitMaxDuration(ok) ==
  /\ ok = (WaitTime <= MaxWait)
  /\ bucket' = [avail |-> IF ok THEN Filled - 1 ELSE Filled, tick |-> Tick(clock)]

EnterRequestLimit(g) ==
  /\ Enters(g, "RequestLimit")
  /\ \/ /\ WaitMaxDuration(TRUE)
        /\ gor' = [gor EXCEPT ![g].pc = "sleep", ![g].at = @ + 1, ![g].until = clock + WaitTime]
     \/ WaitMaxDuration(FALSE) /\ GoesOn(g, "leave", gor[g].at, Error(503, "refusal", gor[g].at))
  /\ UNCHANGED <<stack, conn, tw, custom, metrics, pairs, logged, steps, others,
                 arrived, admitted, clock, crashed>>

\* The request has its token.
Wake(g) ==
  /\ Ready(g, "sleep") /\ clock >= gor[g].until
  /\ GoesOn(g, "enter", gor[g].at, <<>>)
  /\ admitted' = admitted + 1
  /\ UNCHANGED <<stack, conn, tw, custom, metrics, pairs, logged, steps, bucket,
                 others, arrived, clock, crashed>>

\* Others arrive up to MaxClock, and before the handler of this request works:
\* what it does then does not matter to them.
Arrivals == Has("RequestLimit") /\ clock < MaxClock /\ steps = 0

\* Another request comes to the same RequestLimit: it is refused, or sleeps.
OtherArrives ==
  /\ Arrivals /\ arrived < MaxOthers
  /\ arrived' = arrived + 1
  /\ \/ WaitMaxDuration(TRUE) /\ others' = Append(others, clock + WaitTime)
     \/ WaitMaxDuration(FALSE) /\ UNCHANGED others
  /\ UNCHANGED <<stack, request, admitted, clock, crashed>>

OtherWakes ==
  /\ others # <<>> /\ clock >= Head(others)
  /\ others' = Tail(others)
  /\ admitted' = admitted + 1
  /\ UNCHANGED <<stack, request, bucket, arrived, clock, crashed>>

\* Time matters to RequestLimit only.
Time ==
  /\ \/ Arrivals
     \/ \E i \in 1..Len(others) : clock < others[i]
     \/ \E g \in Goroutine : gor[g].pc = "sleep" /\ clock < gor[g].until
  /\ clock' = clock + 1
  /\ UNCHANGED <<stack, request, rate, crashed>>

-----------------------------------------------------------------------------
(* The handler of the application. *)

StartHandler(g) ==
  /\ Ready(g, "enter") /\ gor[g].at = Len(stack)
  /\ GoesOn(g, "handler", Len(stack), <<>>)
  /\ UNCHANGED <<stack, conn, tw, custom, metrics, pairs, logged, steps, rate, clock, crashed>>

Working(g) == Ready(g, "handler") /\ steps < MaxSteps /\ steps' = steps + 1

\* The buffer of TimeoutHandler has no ReadFrom: io.Copy calls Write.
Copy == IF Has("TimeoutHandler") THEN "write" ELSE "copy"

HandlerWrites(g) ==
  /\ Working(g)
  /\ \E c \in {<<"header", 200>>, <<"header", 404>>, <<"write", 1>>,
               <<"write", Limit + 1>>, <<Copy, 1>>} :
       GoesOn(g, "handler", Len(stack), <<Call(c[1], c[2], "handler", Len(stack))>>)
  /\ UNCHANGED <<stack, conn, tw, custom, metrics, pairs, logged, rate, clock, crashed>>

HandlerReturns(g) ==
  /\ Ready(g, "handler")
  /\ GoesOn(g, "leave", Len(stack), <<>>)
  /\ UNCHANGED <<stack, conn, tw, custom, metrics, pairs, logged, steps, rate, clock, crashed>>

\* The handler blocks for ever, or panics.
HandlerFails(g) ==
  /\ Working(g)
  /\ \E pc \in {"hung", "panic"} : GoesOn(g, pc, Len(stack), <<>>)
  /\ UNCHANGED <<stack, conn, tw, custom, metrics, pairs, logged, rate, clock, crashed>>

\* The pairs of the handler: one with the name of a predefined field.
Key == {"user", "status"}

\* ctxvals.SetKeyValue begins: nothing happens without a container.
SetKeyValue(g) ==
  /\ Working(g) /\ Has("Logging")
  /\ GoesOn(g, "setting", Len(stack), <<>>)
  /\ pairs' = [pairs EXCEPT !.use = @ \cup {g}]
  /\ UNCHANGED <<stack, conn, tw, custom, metrics, logged, rate, clock, crashed>>

\* It ends. When another goroutine uses the map the pair may be lost.
KeyValueSet(g) ==
  /\ Ready(g, "setting")
  /\ GoesOn(g, "handler", Len(stack), <<>>)
  /\ \E k \in Key :
       \E keys \in IF pairs.use = {g} THEN {pairs.keys \cup {k}}
                                     ELSE {pairs.keys \cup {k}, pairs.keys} :
         pairs' = [keys |-> keys, use |-> pairs.use \ {g}]
  /\ UNCHANGED <<stack, conn, tw, custom, metrics, logged, steps, rate, clock, crashed>>

\* The map is not made for two goroutines: the runtime may end the program.
ConcurrentMapUse ==
  /\ Cardinality(pairs.use) > 1
  /\ crashed' = TRUE
  /\ UNCHANGED <<stack, request, rate, clock>>

-----------------------------------------------------------------------------
(* The way out. *)

Leaves(g, m) ==
  /\ Ready(g, "leave") /\ gor[g].at > Base(g) /\ stack[gor[g].at] = m

\* Nothing is left to do after h.ServeHTTP.
LeavePlain(g) ==
  /\ \E m \in Names \ {"Logging", "TimeoutHandler"} : Leaves(g, m)
  /\ GoesOn(g, "leave", gor[g].at - 1, <<>>)
  /\ UNCHANGED <<stack, conn, tw, custom, metrics, pairs, logged, steps, rate, clock, crashed>>

\* Logging: ctxvals.ConsumeKeyValuePairs begins to clone the map.
ConsumeKeyValuePairs(g) ==
  /\ Leaves(g, "Logging")
  /\ GoesOn(g, "consuming", gor[g].at, <<>>)
  /\ pairs' = [pairs EXCEPT !.use = @ \cup {g}]
  /\ UNCHANGED <<stack, conn, tw, custom, metrics, logged, steps, rate, clock, crashed>>

Predefined == [status |-> metrics.Code, body_bytes_sent |-> metrics.Written]

\* Mutant: a pair of the handler replaces a predefined field.
FieldsOverridden ==
  [k \in DOMAIN Predefined \cup pairs.keys |->
     IF k \in pairs.keys THEN -1 ELSE Predefined[k]]

\* The fields to log. The value of a pair of the handler is -1.
Fields ==
  [k \in DOMAIN Predefined \cup pairs.keys |->
     IF k \in DOMAIN Predefined THEN Predefined[k] ELSE -1]

\* The map is cloned and cleared, and logFn called.
Log(g) ==
  /\ Ready(g, "consuming")
  /\ logged' = Append(logged, Fields)
  /\ pairs' = [keys |-> {}, use |-> pairs.use \ {g}]
  /\ GoesOn(g, "leave", gor[g].at - 1, <<>>)
  /\ UNCHANGED <<stack, conn, tw, custom, metrics, steps, rate, clock, crashed>>

\* The goroutine of TimeoutHandler ends.
InnerEnds ==
  /\ Ready("inner", "leave") /\ gor["inner"].at = Base("inner")
  /\ GoesOn("inner", "ended", gor["inner"].at, <<>>)
  /\ UNCHANGED <<stack, conn, tw, custom, metrics, pairs, logged, steps, rate, clock, crashed>>

\* The request ends: an answer without a status has 200.
ServeEnds ==
  /\ Ready("serve", "leave") /\ gor["serve"].at = 0
  /\ GoesOn("serve", "ended", 0, <<>>)
  /\ conn' = [conn EXCEPT !.status = IF @ = 0 THEN 200 ELSE @]
  /\ UNCHANGED <<stack, tw, custom, metrics, pairs, logged, steps, rate, clock, crashed>>

\* TimeoutHandler: the inner goroutine is done, its buffer is sent.
Flush ==
  LET outer == gor["serve"].at - 1
      buffered == tw.resp
  IN
  /\ Ready("serve", "wait") /\ gor["inner"].pc = "ended"
  /\ GoesOn("serve", "leave", outer,
       << Call("header", IF buffered.status = 0 THEN 200 ELSE buffered.status, "handler", outer),
          [Call("write", buffered.bytes, "handler", outer) EXCEPT !.src = buffered.src] >>)
  /\ UNCHANGED <<stack, conn, tw, custom, metrics, pairs, logged, steps, rate, clock, crashed>>

\* The time is up, with a body, or the client went away, without one.
Timeout ==
  LET outer == gor["serve"].at - 1 IN
  /\ Ready("serve", "wait")
  /\ tw' = [tw EXCEPT !.err = TRUE]
  /\ \E answer \in {Error(503, "timeout", outer), <<Call("header", 503, "timeout", outer)>>} :
       GoesOn("serve", "leave", outer, answer)
  /\ UNCHANGED <<stack, conn, custom, metrics, pairs, logged, steps, rate, clock, crashed>>

\* The panic of the inner goroutine is raised again by the one that waits for it.
PanicPassed ==
  /\ Ready("serve", "wait") /\ gor["inner"].pc = "panicked"
  /\ GoesOn("serve", "panic", gor["serve"].at - 1, <<>>)
  /\ UNCHANGED <<stack, conn, tw, custom, metrics, pairs, logged, steps, rate, clock, crashed>>

\* Mutant: recover is not deferred, a panic skips it.
RecoversNever(g) == FALSE

\* The deferred function of PanicRecovery.
Recovers(g) == stack[gor[g].at] = "PanicRecovery"

\* A panic unwinds a level: PanicRecovery calls recoverFn with its writer, and
\* returns.  Nothing else is deferred; Logging does not log.
Unwind(g) ==
  /\ Ready(g, "panic") /\ gor[g].at > Base(g)
  /\ \/ Recovers(g) /\ GoesOn(g, "leave", gor[g].at - 1, Error(500, "recover", gor[g].at - 1))
     \/ ~Recovers(g) /\ GoesOn(g, "panic", gor[g].at - 1, <<>>)
  /\ UNCHANGED <<stack, conn, tw, custom, metrics, pairs, logged, steps, rate, clock, crashed>>

\* Nobody recovered: TimeoutHandler keeps the panic for the goroutine that
\* waits, net/http closes the connection.
PanicEnds(g) ==
  /\ Ready(g, "panic") /\ gor[g].at = Base(g)
  /\ GoesOn(g, IF g = "inner" THEN "panicked" ELSE "aborted", gor[g].at, <<>>)
  /\ UNCHANGED <<stack, conn, tw, custom, metrics, pairs, logged, steps, rate, clock, crashed>>

-----------------------------------------------------------------------------
Handler(g) ==
  \/ StartHandler(g) \/ HandlerWrites(g) \/ HandlerReturns(g) \/ HandlerFails(g)
  \/ SetKeyValue(g) \/ KeyValueSet(g)

\* What both goroutines do.
Run(g) ==
  \/ WriterCall(g)
  \/ EnterPlain(g) \/ EnterContentType(g) \/ EnterRequestLimit(g) \/ Wake(g)
  \/ Handler(g)
  \/ LeavePlain(g) \/ ConsumeKeyValuePairs(g) \/ Log(g)
  \/ Unwind(g) \/ PanicEnds(g)

Serve == Run("serve") \/ EnterTimeout \/ Flush \/ PanicPassed \/ ServeEnds

Inner == Run("inner") \/ InnerEnds

Next ==
  /\ ~crashed
  /\ Serve \/ Inner \/ Timeout \/ ConcurrentMapUse \/ OtherArrives \/ OtherWakes \/ Time

Spec == Init /\ [][Next]_vars

\* The goroutines are scheduled, the timer fires and time passes.  The handler
\* may block for ever.
Fairness ==
  /\ WF_vars(~crashed /\ Serve) /\ WF_vars(~crashed /\ Inner)
  /\ WF_vars(~crashed /\ Timeout) /\ WF_vars(~crashed /\ Time)

-----------------------------------------------------------------------------
Response == [status : {0, 200, 400, 404, 406, 409, 415, 500, 503}, bytes : Nat,
             src : SUBSET {"handler", "error", "refusal", "limit", "timeout", "recover"}]

\* Types: calls stay within the levels of the stack, and CustomErrors calls
\* errHandler before it is in the state of having handled an error.
TypeOK ==
  /\ stack \in Stacks
  /\ \A g \in Goroutine :
       /\ gor[g].pc \in {"off", "enter", "sleep", "handler", "setting", "leave", "consuming",
                         "wait", "panic", "panicked", "hung", "ended", "aborted", "creating"}
       /\ gor[g].at \in 0..Len(stack)
       /\ \A i \in 1..Len(gor[g].todo) :
            gor[g].todo[i].at \in 0..Len(stack) /\ gor[g].todo[i].arg \in Nat
       /\ gor[g].until \in Nat
  /\ conn \in Response /\ tw.resp \in Response /\ tw.err \in BOOLEAN
  /\ custom.noop => custom.called
  /\ metrics.Code \in {200, 400, 404, 406, 409, 415, 500, 503} /\ metrics.Written \in Nat
  /\ pairs.keys \subseteq Key /\ pairs.use \subseteq Goroutine
  /\ \A i \in 1..Len(logged) : DOMAIN Predefined \subseteq DOMAIN logged[i]
  /\ bucket.avail <= Capacity /\ bucket.tick \in 0..Tick(clock)
  /\ arrived \in 0..MaxOthers /\ admitted \in 0..(MaxOthers + 1)
  /\ clock \in 0..(MaxClock + 2 * MaxWait) /\ steps \in 0..MaxSteps /\ crashed \in BOOLEAN

\* RequestLimit: whoever arrives and sleeps, no more requests got through than
\* the capacity and what was filled since, also those that were promised a
\* token that was still to come.
RateBound == admitted <= Capacity + quantum * Tick(clock)

\* CustomErrors: when the handler begins with an error that errHandler handles,
\* and keeps to WriteHeader and Write, the client gets the body of errHandler
\* and nothing of the handler, whatever it, or middleware further in, does then.
CustomWhole ==
  custom.noop /\ custom.simple =>
    /\ conn.src \cap {"handler", "refusal"} = {}
    /\ gor["serve"].pc = "ended" /\ ~tw.err => conn.src \cap {"error", "recover"} # {}

\* Logging logs what the client got, when only middleware that answers instead
\* of calling Logging is further out: through hooks of others, timeouts and
\* handled errors, and whatever pairs the handler set.
LoggedAsSent ==
  /\ Has("Logging") /\ gor["serve"].pc = "ended" /\ logged # <<>>
  /\ \A i \in 1..At("Logging") :
       stack[i] \notin {"TimeoutHandler", "CustomErrors", "LimitResponseBodyBytes"}
  => /\ Len(logged) = 1
     /\ logged[1].status = conn.status /\ logged[1].body_bytes_sent = conn.bytes

\* ctxvals: two goroutines use the map of the pairs at once only if TimeoutHandler,
\* further in than Logging, gave up on the handler, which sets a pair later.
RaceOnlyAfterTimeout ==
  Cardinality(pairs.use) > 1 => tw.err /\ At("Logging") < At("TimeoutHandler")

\* TimeoutHandler: once it gave up, nothing of the handler is, or will be, in
\* the answer, although the handler goes on.
TimedOutIsFinal == tw.err => "handler" \notin conn.src

\* PanicRecovery: with it anywhere in the stack, also on the other side of
\* TimeoutHandler's goroutine, a panic of the handler aborts no connection.
PanicAnswered == gor["serve"].pc = "aborted" => ~Has("PanicRecovery")

\* TimeoutHandler: the request is answered, even if the handler blocks for ever;
\* without it, if the handler does not.  RequestLimit lets nobody sleep for ever.
Answered ==
  <>( \/ gor["serve"].pc \in {"ended", "aborted"} \/ crashed
      \/ ~Has("TimeoutHandler") /\ gor["serve"].pc = "hung" )

-----------------------------------------------------------------------------
\* middleware.go:47-48 says of LimitResponseBodyBytes that it "limits the number
\* of bytes that can be written to the response".
LimitHolds == Has("LimitResponseBodyBytes") => conn.bytes <= Limit
===============================================================================
