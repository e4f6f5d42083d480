# karbur in TLA+

TLA+ modules for the parts of karbur that keep state and meet concurrency:
tokens, sessions, groups, transactions on a pool, migrations, the server, and
the middleware with the handlers that decode a request.  TLC checks them on
small instances, TLAPS proves most of the safety results, and the refinements,
for every instance.

    tlc -workers 2 -config Tokens.cfg MCTokens    # a run
    tlapm TokensProofs.tla                        # the proofs of a module

`PROJECT.json` lists the components, the runs and what they show, the mutants
that each property was tried on, the source lines of every definition, the
disagreements found, the hazards and the theorems.

## The system

karbur is a library for Go web programs on postgres.

| Part | State | Operations | Talks to |
|---|---|---|---|
| `pgdb` | the transaction in the context, the attempts of `Tx`, a connection of the pool | `Tx`, `EnsureTx`, `RequireTx`, `EnsureQueryer` | postgres through `pgxadapt`, `sqladapt` |
| `pgdb/migrate` | table `migrate_versions`, the advisory lock, the schema | `Register`, `Migrate`, `Export` | `pgdb.Tx` |
| `tokens` | table `tokens_tokens` | `New`, `Verify`, `UpdateData`, `Rotate`, `Delete`, `DeleteByTypeRef`, `ResetIdle`, `Cleanup` | `pgdb` |
| `accounts` | tables `accounts_accounts`, `accounts_groups`, `accounts_members` | create and load accounts, groups, memberships | `pgdb` |
| `accounts/acctmw`, `acctctx` | the cookie, the session and the account in the context of a request | middleware `Session`, `Login`, `Logout`, `Delete`, `Register`, `Authorize`, `Deny` | `tokens`, `accounts` |
| `server` | `built`, `srv`, `state` | `Build`, `HTTPServer`, `ListenAndServe` | `net/http` |
| `server/middleware` | hooks, flags and counters of one request; the bucket of `RequestLimit` is shared | limits of size and rate, timeout, panic recovery, logging, custom errors, content types; headers, CORS, compression | `ctxvals`, `net/http`, `httpsnoop`, `juju/ratelimit` |
| `ctxvals` | a map of key-value pairs in the context | `WithKeyValue`, `SetKeyValue`, `ConsumeKeyValuePairs` | |
| `server/params` | a cache of struct types | `Decode` | `errors` |
| `errors` | none; an error is a chain | `Tag`, `IsTag`, `KeyValue`, `WithKeyValue`, `Code` | |
| `server/webpages` | the loaded templates | load, render | files |

All the processes of a program share the database and nothing else, so the hard
behaviour is in what transactions see of each other:

- **tokens.** Statements of concurrent calls interleave; `now()` is the start
  of a transaction and may be old when a statement runs; a statement that finds
  no row is no error.  Correct is: a consumed or replaced token is gone for
  good, a rotation does not fork, there is one single-use token per type and
  reference, idle times are bounded, `Cleanup` removes nothing valid.
- **sessions.** A request reads its session first, lets the handler work, and
  writes the session last; logins, logouts and deletions of other requests fall
  in between, and answers get lost.  Correct is: nobody runs as somebody else
  or as a deleted account, ended sessions do not come back, and the data of an
  account stays in its sessions.
- **groups.** `SetMembership` is two statements, and loads happen in between.
  Correct is: loads see all or nothing, memberships refer to what exists, and
  access is decided as documented.
- **transactions.** Nested calls roll back their caller's transaction, errors
  may be ignored, `Tx` retries, the answer to a COMMIT may be lost, and the
  connections are few.  Correct is: the work takes effect at most once, the
  result tells what happened, and no connection is kept or waited for in vain.
- **migrations.** Several processes, of different builds, start at once and may
  die anywhere.  Correct is: each migration exactly once, in order.
- **server.** Two goroutines report states; a shutdown races its timeout, the
  start of the listener and the connections.  Correct is: `StateClosed` is last,
  a clean shutdown leaves nothing behind, a cancelled call returns.
- **middleware.** Every middleware hooks the writer of the one outside of it, a
  handler goes on when `TimeoutHandler` gave up on it, a panic crosses
  goroutines, requests sleep for tokens of a bucket that they share.  Correct
  is: one answer, the log and the client agree on it, nothing of an answer that
  was given up or replaced gets through, the rate is kept, and nobody waits for
  ever.
- **handlers that decode.** One value may come from the path, a cookie, the
  query and the body; `Register` passes errors of three layers to
  `ErrorHandler`.  Correct is: handlers run on the source that wins, and a
  client that is told of a mistake of its own has changed nothing.

## The modules

| Module | Models | Used by |
|---|---|---|
| `TokenTable` | the rows of `tokens_tokens` and each SQL statement on them, as operators | `Tokens`, `Sessions` |
| `Tokens`, `MCTokens` | concurrent calls of the methods of `Tokens` | |
| `TokenTableProofs` | lemmas about the statements | `TokensProofs`, `SessionsProofs` |
| `TokensProofs` | theorems about `Tokens` | |
| `SessionStore` | the promise of `acctmw`: a store of sessions | `Sessions` |
| `Sessions`, `MCSessions` | requests through `Session` and the other handlers, on the same statements | |
| `SessionsProofs` | theorems about `Sessions`; it implements `SessionStore` | |
| `Groups`, `MCGroups` | groups, memberships, `Authorize` and `Deny` | |
| `GroupsProofs` | theorems about `Groups` | |
| `Transactions` | one call of `Tx`, `EnsureTx` or `RequireTx` and what its function does | `Pool` |
| `Pool`, `MCTransactions` | that call and others on a pool of connections | |
| `TransactionsProofs` | theorems about `Transactions` and `Pool`, which implements it | |
| `MigrateSpec` | the promise of `Migrate`: one atomic upgrade | `Migrate` |
| `Migrate`, `MCMigrate` | `Register`, and `Migrate` statement by statement | |
| `MigrateProofs` | theorems about `Migrate`; it implements `MigrateSpec` | |
| `Server`, `MCServer` | the life of one `Server` | |
| `ServerProofs` | theorems about `Server` | |
| `Middleware` | a request through a stack of middleware, and the pairs of `ctxvals` | `Registration` |
| `Errors` | chains of tagged errors, as operators | `Params` |
| `Params` | what `Decode` makes of a request, as operators | `Registration` |
| `Registration`, `MCMiddleware` | `Register`, and a handler that decodes, in a stack | |
| `MiddlewareProofs` | theorems about `Middleware` as `Registration` composes it | |

Definitions carry the names of the code where there is one.  Postgres and
`net/http` are external and are modelled from how the code uses them.

**Tokens.**  `tokens_tokens` is the set of rows, `clock` the database's clock,
`call` what each caller is doing.  A method that uses `now()` or generates a
token is a step for its call (`BeginNew`, which fixes both) and one for its
statement (`ExecNew`); `Verify` has a step per statement.  A statement sees
what is committed when it runs (READ COMMITTED).  The variables `spent`,
`accepted` and `root` are history.  A second is `Second` ticks of the clock, so
that durations are truncated as the code does.  A generated token is one that
was never generated before: the 32 random bytes do not collide.

**Sessions.**  `req` holds the requests in flight: where each one is, its
cookie, and the session and the account of its context.  Every transaction is a
step; `Login` is three or four.  A request may present any token that a client
ever received.  The answer to the client may be lost, and so may the answer of
the database to a write (`Wrote`).  Passwords are right or wrong by choice
(`Fail`).  `ImplementsStore` is the specification of `SessionStore`; the
refinement mapping takes the rows of the session type to the function `Stored`
from their tokens to owner and data, and the tokens generated so far to `used`.
Everything of a request (its context, its cookie, the times) is hidden.  An
upgrade whose old session is gone is a step of the promise too, one that stores
nothing: that is the disagreement that `SessionsLogin` shows.

**Groups.**  `tx` holds the calls of `SetMembership`: what each has seen,
deleted and inserted but not committed.  A statement that writes a row another
transaction holds waits; two that wait for each other are resolved by postgres
(`Fail`).  `settled` is what the last completed operation left.

**Transactions.**  `frames` are the nested calls, `tx` is the state of the
transaction in postgres, `err` the error at hand.  The caller's function is any
sequence of statements, errors, nested calls and ignored errors.

**Pool.**  The steps of `Transactions`, each with what it does to the pool:
`held` is what the call holds, `others` what other callers hold, `nesting` says
that a nested call is about to begin, the point at which one that took a
connection of its own would wait.

**Migrate.**  `run` holds what each process does, with the uncommitted effects
of its transaction (`done`, `wrote`), that COMMIT adds to `schema` and
`version`.  At REPEATABLE READ the snapshot is the one of the statement that
waits for the lock.  `groups` is what each program has registered; a group may
be registered between two calls.  `Implements` is the specification of
`MigrateSpec` (`Promise`); the refinement mapping is the identity on `schema`
and `version`, and hides the groups, the lock and the calls.

**Server.**  `pc` is the goroutine of the caller, `serving` the one that it
starts.  `transit` is two steps, the store and the hook.

**Middleware.**  Level i is the response writer that middleware i passes on,
level 0 the connection.  A call of a writer goes down level by level: each step
replaces it by the calls that the hooks of that level make (`Becomes`), so
that `errHandler`, which writes through the hooks that called it, and the 500 of
`limitWrite`, which comes in between, take the way they take in the code.  `gor`
has the goroutine that serves and the one of `TimeoutHandler`: where each is, at
which level, and which calls it has to make first.  The use of the map of pairs
has a begin and an end; two uses at once may lose a pair or end the program.
Bodies are numbers of bytes with the set of those who wrote them (`src`).

**Registration, Params, Errors.**  A request says which names its path, cookies,
query and body have and whether they can be parsed; a struct type says which
fields each source may assign.  `Decode` is the list of its checks in their
order, of which the first that fails is the error, and the overlay of its
assignments.  `Register` decodes, validates, creates the account and answers;
the outcomes of `Create` are those of its statements.  An error is its root and
its tags, outermost first.

## The runs

| Run | Instance | Question |
|---|---|---|
| `Tokens` | 2 callers, 3 tokens, 1 type and reference, clock to 2 (a second) | do interleaved statements, some with an old `now()`, keep the identity and the expiries of tokens? |
| `Sessions` | 2 requests, 1 account and 1 to register, 2 emails, an API key of the same table, time | is a request the account it should be, with its data, do ended sessions and deleted accounts stay away, and is the table a store of sessions? |
| `Groups` | 1 `SetMembership`, 1 request, every other operation | are loads whole, memberships consistent and decisions as documented? |
| `Transactions` | 4 attempts (the code's), depth 2, 4 steps, a pool of 1 connection | at most once, truthful result, connection given back, return |
| `Migrate` | 3 processes of 2 builds, 3 groups, two of them registered late by one process; two at REPEATABLE READ, one of them with retries | exactly once, in order, implements the atomic upgrade, returns |
| `Server` | 2 connections, 2 calls, every configuration | order of states, drain, return |
| `Middleware` | 12 stacks, 3 steps of the handler, 2 other requests, clock to 3; requests with each kind of mistake | one answer, logged as sent, within the rate, on what the request says, in the end |

Five runs each show a behaviour in which the code does not do what a comment
says of it; `PROJECT.json` quotes the comments:

| Run | Shows |
|---|---|
| `TokensSingleUse` | two concurrent `Verify` accept one single-use token |
| `SessionsLogin` | a login on a session that vanished is answered with a session that is not stored |
| `GroupsTwoAdmins` | two calls of `SetMembership` leave the union of their lists |
| `ServerShutdownState` | `StateListening` after `StateShutdown` |
| `ResponseLimit` | more than the limit of `LimitResponseBodyBytes` in several calls of `Write`, or with `ReadFrom` |

Other disagreements that were met while modelling.  The models have the code's
behaviour; most take one call to see, and there is no run for them:

- `tokens.go:96-99`: `New` for a single-use token that exists updates the token
  and the expiry but not the data, and returns the new data; the comment (78-79)
  says that the token is replaced.
- `005_proc_tokens_cleanup.sql.tpl:7`: `Cleanup` leaves tokens that are past
  their idle time; its comment (`tokens.go:355`) says all expired tokens.
- `accounts.go:249`: `SetMembership` with a nil slice removes nothing, because
  `g.name != ALL(NULL)` is NULL; `accounts_test.go:106` uses nil to "set no
  group", for an account that has none.
- `delete.go:90-98`: a login that has looked up the account before it is deleted
  stores a session of it afterwards; the comment (32-33) says that any sessions
  are deleted.  `DeletedStaysOut` shows that such a session is of no use.
- `session.go:124`: the cookie of a lazily created session is set after the
  handler returned, when the header may have been sent.
- `server.go:108`: after a failed `Build`, `HTTPServer` returns nil and no error
  and `ListenAndServe` crashes (`Crash`).
- `server.go:208-214`: when its context is done `ListenAndServe` does not return
  the error of the `http.Server`, as its comment (137-139) says.
- `accounts.go:130`: `Create` stores the account and may answer with an error
  all the same, when the load that follows fails: a second try gets a conflict.
- `params.go:19-21` says that unexpected data raises errors: a closing bracket
  after the JSON value, or data that cannot be read, goes unnoticed by `More`,
  and a form in the body of a DELETE is not read at all.
- `params.go`: a cookie for a field that is a nil pointer is always an error.
- `errors.go:191`: `IsTag` follows the first tagged error only, so of errors
  that were joined it misses the tags of the others.
- `middleware.go:513`: inside of `TimeoutHandler`, `RequestTimeouts` has no
  effect, as that writer has no deadlines and the errors are ignored.
- `middleware.go:285`: `Logging` does not log a request that panics through it.
- `middleware.go:551`: what follows a handled error is dropped by `CustomErrors`
  unless it is sent with `ReadFrom`.

**Bounds.**  Every bound is a constant: `MaxClock`, the sets of tokens, callers
and requests, `MaxSteps`, `MaxDepth`, `MaxActive`, `MaxCalls`, `Size`,
`MaxOthers`, `Stacks`.  Two actors are
enough for the races here, because each property relates at most two calls that
touch one row; the third process of `Migrate` waits while two others pass.
Two attempts are enough there for a process with an old snapshot to fail and
succeed; `Transactions` has the code's four.  One `SetMembership` at a time is
enough for `Groups`, whose other operations interleave with its two statements;
`GroupsTwoAdmins` has two.
Three tokens allow a row to be created, rotated twice, or rotated by one call
while another one creates its own; two ticks of the clock, a second, let a token
expire or go idle while a transaction with an old `now()` is open, and one of
half a second, whose duration is truncated, do so at once.  When the tokens are
used up New and Rotate are disabled, and the rest goes on.  Symmetry is used
for tokens, callers, requests, administrators and group ids where no liveness
is checked.  A pool of one connection is the smallest that a second one could
wait for.  The stacks of `MCMiddleware` are those in which two middleware share
the writer, the goroutines or the panic, in both orders; three steps let a
handler write a status and a body and then fail, or go on after its answer was
replaced.  Two other requests use up the bucket, of one token, and one that is
still to come.  The requests to decode have each kind of mistake, and names that
two sources have.

**Deadlock** is checked except for `Transactions`, `Server` and `Middleware`,
whose call, program or request ends.

**Fairness.**  `Transactions`: the goroutine runs, and its function ends (its
steps are bounded); other callers give back what they hold (WF), and both
drivers serve those who wait for a connection in their order (SF).  Nothing has
to fail, and every deadlock may be retried until the attempts are used up.  `Migrate`: a process and its database go on
(WF), and postgres grants an advisory lock in the order of the requests (SF on
`Acquire`).  `Server`: both goroutines are scheduled (WF); no connection has to
end, no context has to be done, the listener does not have to fail.
`Middleware`: both goroutines run, the timer fires, time passes and the database
answers (WF); the handler may block for ever, and nobody else has to come
(`RFairSpec`; what is safe holds of `RSpec`, without any fairness).  The other
modules have safety properties only and assume nothing.

## The proofs

`TokensProofs` proves, for every set of callers, tokens, types, references and
data, any bound of the clock and any arguments of `New` and `Rotate`, all seven
properties that run `Tokens` checks.  The assumptions are those of `TokenTable` and
`Tokens`, which TLC evaluates in the run.  None of the properties is inductive by
itself.  The invariant `IInv` adds what they rest on:

- `CallShape`: a call that has generated a token, or loaded a row, holds it;
- `FreshIsFresh`: the token that a call has generated and not stored yet is no
  other call's, has no history and is in no row: so storing it cannot revive
  anything;
- `RootRecords`: every row has its root recorded, and a token without a root
  was never in the table;
- `LoadedRecorded`: the row that `Verify` has loaded is one of a recorded token,
  so that what it deletes by name is what it loaded, or nothing.

`LineageUnique` needs `RootRecords` (a rotation passes on the root of the row
it replaces), `SpentIsGone` and `TokenIsFinal` need `FreshIsFresh`.
`IdleExpiryHolds` has an invariant of its own (`IdleOK` of every row): a
`now()` that is old is never later than the clock, so a reset that comes late
moves the idle time within its bound.

`TransactionsProofs` proves `TypeOK`, `AtMostOnce` and `AllOrNothing` for every
number of attempts, depth and number of steps.  The strengthening says that an
attempt is only begun when one is left, that nothing is committed before the
end of an attempt, that an open transaction is one in which nothing failed
(`OpenIsClean`, the reason why an ignored error cannot be committed), and that
after an attempt a commit is only behind nil and a lost answer (`AttemptEnded`,
the reason why a retry cannot do the work twice).

A call on a pool takes the steps of a call of `Tx` (`PoolImplementsTx`), so these
results hold on a pool as well.  There `ConnectionHeld` is inductive as it
stands, given the types.

`SessionsProofs` proves all the properties of run `Sessions`, for any number of
requests, accounts and tokens.  The invariant:

- `Recorded`: a token that any history knows was generated, and no deleted account
  is in the table, so that neither comes back;
- `Rows`: a row of a session is for the account its token was issued for and has
  data of that account, or of a visitor; no other row has a token of a session;
- `OneRow`: a session has one row, so that a write by token is a write of one
  session;
- `EndedIsGone` itself;
- `Requests`: what a request carries from one transaction to the next, at each
  point: its id was issued for its account, neither that account nor the one it
  logs in was deleted when it started, its data is the account's or a visitor's.

That the id and the account in the context stay together (`SessionIdentity`) is
not inductive without `Rows`, since a request takes both from a row.
`SessionsAreAStore` maps every step to an operation of `SessionStore` or to a
stutter.  `SessionsAssumption` says, for the proofs, that the value which clears
the cookie (`"clear"`) is no token.

`GroupsProofs` proves `TypeOK`, `ReadsWhole` and `AccessAsDocumented` for any
number of concurrent calls of `SetMembership`.  `TypeOK` has the constraints of
the tables.  The strengthening says that what a call has inserted and not
committed refers to an account and a group that exist (`AddedExists`, else its
COMMIT could leave a membership of nothing), and that no stored or loaded group
has a special name (`NamesNotSpecial`, else an account could be let in by a group
called `*`).  The three special names are different ones (`GroupsAssumption`).

`MigrateProofs` proves all the safety properties of run `Migrate`, and that
`Migrate` implements `MigrateSpec`, for any number of programs, groups and
migrations and any mix of isolation levels.  The advisory lock makes one run the
only one that has uncommitted work (`LockHeld`, `Untouched`).  For that run
`RunOK` says which groups it is through with (`Handled`), how far the one in hand
is (`InHand`), and that the work is exactly the missing migrations
(`DoneOnly`, `DoneAll`), in order and after their dependencies.  The migrations
of the group in hand count from the version that the run has read (`Base`), which at
REPEATABLE READ may be older than the one in the database; a write of such a
group fails, so for what was written the two are equal.  The others hold old
snapshots and nothing else.  So COMMIT is `Upgrade` of `MigrateSpec` for the
registered groups, or a stutter when nothing was written.

`ServerProofs` proves `TypeOK`, `GracefulDrains` and `ClosedIsLast` for any
configuration, number of connections and of calls.  The strengthening relates
the two goroutines (`ServingInCall`: the one that serves has ended when the
caller stores `StateClosed`), says at which points of a call the state may be
closed (`ClosedAtEnd`), and that `Shutdown` stops the listener before it looks at
the connections (`DrainedAfterShutdown`, else one could be accepted after it
returned).

`MiddlewareProofs` proves, for any set of stacks in which a middleware is used
at most once, and any capacity, rate, limits and waits, all the invariants of the
run: `TypeOK`, `RateBound`, `TimedOutIsFinal`, `PanicAnswered`,
`RaceOnlyAfterTimeout`, `LoggedAsSent`, `CustomWhole` and `AnswersTruthfully`.
Most of the steps are moves of one goroutine (`Moves`): in, out, up with a panic, or a call
of a writer.  Each action is shown to be one, once, and what a move keeps is
shown for moves; the steps at which the goroutines meet (`EnterTimeout`, `Flush`,
`Timeout`, `PanicPassed`) and those of `RequestLimit` are treated by themselves.
The first five follow from an invariant with two halves:

- `Shape`: where the two goroutines are relative to each other and to
  `TimeoutHandler` (`Control`), at which level a panic is and what it cannot have
  passed (`Unrecovered`, `PanicLevel`), that nothing of the handler's is
  in what is still to be written when `TimeoutHandler` gave up (`Final`), and
  who uses the map of pairs (`Uses`);
- `Rate`: the tokens promised and those available are those the bucket has had
  (`Taken`); and at *every later time* those who are through and those whose
  sleep is then over are no more than the tokens up to then (`NoneTooMany`).
  `RateBound` says so of the present only, and a request that is asleep with a
  token to come would break it when it wakes.

The other three relate what is done at one level of the stack to what is at
another one.  Each has an invariant of its own, inductive relative to that one
and to `Places`: a goroutine makes its calls of writers before it leaves their
level, the serving one comes no further in than `TimeoutHandler`, and the calls
of the other one go no further out.

- `LogInv`, for `LoggedAsSent`: the counters of `httpsnoop` equal the answer at the
  connection, or what it will be when the one call that is on its way from
  `Logging` has arrived (`Metered`); no other call has passed `Logging`; and
  after it has logged, nothing more is sent (`LogTrue`).  `LoggedAsSent` says this
  only of requests that have ended.
- `CustomInv`, for `CustomWhole`: the mark of a handled error is at the level of
  `CustomErrors`, once, after what `errHandler` wrote (`Ordered`); as long as the
  handler's first call is, or may still be, the error that is handled, nothing
  of the handler or of a middleware has passed that level (`Clean`); and what
  `errHandler` or `recoverFn` wrote is at the connection, in the buffer of
  `TimeoutHandler` or in flight, unless `TimeoutHandler` gave up (`Landed`).
  `Clean` must hold *before* it is known that the error will be handled, since
  what has passed by then cannot be called back.
- `ReadInv`, for `AnswersTruthfully`: what was decoded is from the source that wins
  while `Register` still waits for the database; until a handler has refused,
  no 400 or 409 is at the connection, in the buffer or among the calls to come
  (`Untold`), and who is past the handler that reads does not come to it again
  (`Past`); and each error on the way to `ErrorHandler` is tagged with its code
  and action (`Tagged`).

`RegistrationAssumption` says that the tags of a struct are on its fields, that a
request has the fields of a request, and that a stack decodes in one place, as
`reg` records one handler.  Maps that are merged (`Overlay` of `Errors`) are
written as functions, which the provers know, and not with `@@` of TLC.

Every invariant and every action property of the passing runs is proved, and the
refinements of `SessionStore`, `MigrateSpec` and `Transactions`.  Only
model-checked is the liveness (`TxReturns`, `MigrateReturns`, `ReturnsOnCancel`,
`Answered`): TLAPS does not prove liveness under fairness, or `ENABLED`.

## What is not modelled

- Middleware that only sets headers or passes options to a third-party handler:
  `RequestID`, `TrustProxyHeaders`, CORS, the security headers, compression; and
  `RequestTimeouts`, whose deadlines are the connection's.  They change neither
  the flow nor the answer as far as it is modelled.
- `webpages` and `Export` of `migrate`: files and templates, input and output.
- The text of SQL, of migrations, of cookies, of errors and logs; hashing and
  parsing are reduced to success or failure, and to what the result holds.
- `UserMessage` and `TagOnce` of `errors`; the accessors of `ctxvals`.
- What the adapters do besides taking and giving back a connection: they
  delegate a call or convert a type.
- The fakes and helpers for tests (`mockdb`, `testdb`); `changeemail`,
  `changepwd`, `resetpwd` and `verifyemail`, which hold only a TODO.
- Isolation levels other than READ COMMITTED for tokens, sessions and groups:
  the level is the database's default unless the program chooses another one.

## Plan

Done: `TokenTable`, `Tokens` and its proofs first, as everything else rests on
tokens; then `Sessions` on the same statements, `Migrate` with its abstract
specification, `Server`, `Groups`, `Transactions` and its proofs; then
`Middleware`, `SessionStore`, which `Sessions` implements, `Pool`, `Register` of
`migrate`, and `Registration` with `Params` and `Errors`.

Then the proofs of `Sessions`, `Groups`, `Pool`, `Server`, `Migrate` and
`Middleware`, with the refinements of `SessionStore`, `MigrateSpec` and
`Transactions`.  Last those of
`LoggedAsSent`, `CustomWhole` and `AnswersTruthfully`, each with an invariant
across the levels of a stack.

Left: no invariant or action property of a run is without a theorem.  The two hazards
without a property are listed with the reason in `PROJECT.json`.  The liveness
properties stay with TLC.
