-------------------------------- MODULE Server --------------------------------
(***************************************************************************)
(* Package server: the life of one Server.  ListenAndServe runs in the     *)
(* caller's goroutine (variable pc) and starts another one that serves     *)
(* (variable serving); both call transit, that stores the new state and    *)
(* then calls ServerStateHook, in two steps.  The caller may call          *)
(* ListenAndServe again once it has returned, and Build or HTTPServer      *)
(* between the calls.                                                      *)
(*                                                                         *)
(* net/http's Server is external: http.inShutdown is set by Shutdown and   *)
(* Close, http.listening says that a listener accepts connections, and     *)
(* http.active counts the connections that are being served.               *)
(***************************************************************************)
EXTENDS Naturals

CONSTANTS
  MaxActive,   \* bound on the connections served at once
  MaxCalls     \* bound on the calls of ListenAndServe

ASSUME ServerAssumption ==
  /\ MaxActive \in Nat
  /\ MaxCalls \in Nat

VARIABLES
  conf,        \* the fields GracefulShutdown and Certs of the Server
  built, srv,  \* Server.built; whether Server.srv is set or nil
  state,       \* Server.state
  sent,        \* the last state ServerStateHook was called with
  pc,          \* the goroutine of the caller
  serving,     \* the goroutine that serves
  done,        \* the context of the current call is done
  err,         \* local err of the call: what Shutdown or Close returned
  lasErr,      \* local lasErr of the call
  result,      \* what the last call of ListenAndServe returned
  returned,    \* what the last call of HTTPServer returned
  calls,       \* number of calls of ListenAndServe
  http         \* the http.Server

vars == <<conf, built, srv, state, sent, pc, serving, done, err, lasErr,
          result, returned, calls, http>>

\* GracefulShutdown is nil, or has a timeout or not; the certificate is nil (no
\* TLS), obtained automatically, or read from files.
Conf == [GracefulShutdown : {"nil", "timeout", "unbounded"},
         Certs : {"nil", "AutoCert", "files"}]

ServerState == {"StateNew", "StateListening", "StateShutdown", "StateClosed"}

HTTP == [inShutdown : BOOLEAN, listening : BOOLEAN, active : 0..MaxActive]

Init ==
  /\ conf \in Conf
  /\ built = FALSE /\ srv = "nil"
  /\ state = "StateNew" /\ sent = "none"
  /\ pc = "idle" /\ serving = "none"
  /\ done = FALSE
  /\ err = "nil" /\ lasErr = "nil" /\ result = "none" /\ returned = "none"
  /\ calls = 0
  /\ http = [inShutdown |-> FALSE, listening |-> FALSE, active |-> 0]

-----------------------------------------------------------------------------
\* buildTLS fails only for files of a certificate that are not named or cannot be
\* read; buildHTTPServer never fails.
buildTLS == IF conf.Certs = "files" THEN BOOLEAN ELSE {TRUE}

\* build: s.built is set first, s.srv only once the TLS configuration is there.
build(ok) ==
  /\ built' = TRUE
  /\ srv' = IF ok THEN "server" ELSE "nil"

Build ==
  /\ pc = "idle" /\ ~built
  /\ \E ok \in buildTLS : build(ok)
  /\ UNCHANGED <<conf, state, sent, pc, serving, done, err, lasErr, result,
                 returned, calls, http>>

HTTPServer ==
  /\ pc = "idle"
  /\ \/ built /\ returned' = srv /\ UNCHANGED <<built, srv>>
     \/ /\ ~built
        /\ \E ok \in buildTLS : /\ build(ok)
                               /\ returned' = IF ok THEN "server" ELSE "error"
  /\ UNCHANGED <<conf, state, sent, pc, serving, done, err, lasErr, result,
                 calls, http>>

\* transit(to), its two steps.
transit(to) == state' = to

Hook(to) == sent' = to

\* The call up to the first step of transit(StateNew): it builds the server if
\* that was not done, and a closed server is refused.
ListenAndServe ==
  /\ pc = "idle" /\ calls < MaxCalls
  /\ calls' = calls + 1
  /\ \/ built /\ UNCHANGED <<built, srv>>
     \/ ~built /\ \E ok \in buildTLS : build(ok)
  /\ \/ /\ ~built /\ srv' = "nil"
        /\ result' = "BuildError"
        /\ UNCHANGED <<state, pc, serving, done, err, lasErr>>
     \/ /\ built \/ srv' # "nil"
        /\ state = "StateClosed"
        /\ result' = "ErrServerClosed"
        /\ UNCHANGED <<state, pc, serving, done, err, lasErr>>
     \/ /\ built \/ srv' # "nil"
        /\ state # "StateClosed"
        /\ transit("StateNew")
        /\ pc' = "hookNew" /\ serving' = "none"
        /\ done' = FALSE /\ err' = "nil" /\ lasErr' = "nil"
        /\ UNCHANGED result
  /\ UNCHANGED <<conf, sent, returned, http>>

\* The context is cancelled, its deadline passes, or a signal is caught.
Cancel ==
  /\ pc # "idle" /\ ~done
  /\ done' = TRUE
  /\ UNCHANGED <<conf, built, srv, state, sent, pc, serving, err, lasErr,
                 result, returned, calls, http>>

\* The hook is called with StateNew, then the other goroutine is started.
StartServing ==
  /\ pc = "hookNew"
  /\ Hook("StateNew")
  /\ pc' = "select" /\ serving' = "start"
  /\ UNCHANGED <<conf, built, srv, state, done, err, lasErr, result, returned,
                 calls, http>>

\* select, case <-ctx.Done().
SelectDone ==
  /\ pc = "select" /\ done
  /\ \/ /\ conf.GracefulShutdown # "nil"
        /\ transit("StateShutdown") /\ pc' = "hookShutdown"
     \/ conf.GracefulShutdown = "nil" /\ pc' = "stop" /\ UNCHANGED state
  /\ UNCHANGED <<conf, built, srv, sent, serving, done, err, lasErr, result,
                 returned, calls, http>>

HookShutdown ==
  /\ pc = "hookShutdown"
  /\ Hook("StateShutdown")
  /\ pc' = "stop"
  /\ UNCHANGED <<conf, built, srv, state, serving, done, err, lasErr, result,
                 returned, calls, http>>

\* http.Server.Shutdown and Close stop the listener.  Close also closes every
\* connection, Shutdown waits for them.  Closing the listener may fail.
Close(h) == [h EXCEPT !.inShutdown = TRUE, !.listening = FALSE, !.active = 0]

Shutdown(h) == [h EXCEPT !.inShutdown = TRUE, !.listening = FALSE]

\* The call of srv.Shutdown or srv.Close.  With no server the goroutine that
\* serves has crashed the program, or this call does.
Stop ==
  /\ pc = "stop" /\ srv # "nil"
  /\ \/ conf.GracefulShutdown # "nil" /\ http' = Shutdown(http) /\ pc' = "drain"
     \/ conf.GracefulShutdown = "nil" /\ http' = Close(http) /\ pc' = "await"
  /\ err' \in {"nil", "ListenerError"}
  /\ UNCHANGED <<conf, built, srv, state, sent, serving, done, lasErr, result,
                 returned, calls>>

\* Mutant: nobody waits for the connections.
DrainedAlways == TRUE

Drained == http.active = 0

\* srv.Shutdown returns when the last connection has ended, or with the error of
\* its context, that only a configured timeout ends.
ShutdownReturns ==
  /\ pc = "drain" /\ Drained
  /\ pc' = "await"
  /\ UNCHANGED <<conf, built, srv, state, sent, serving, done, err, lasErr,
                 result, returned, calls, http>>

\* Mutant: the timeout does not reach the context given to Shutdown.
ShutdownTimeoutNever == FALSE /\ UNCHANGED vars

ShutdownTimeout ==
  /\ pc = "drain" /\ conf.GracefulShutdown = "timeout"
  /\ err' = "DeadlineExceeded"
  /\ pc' = "await"
  /\ UNCHANGED <<conf, built, srv, state, sent, serving, done, lasErr, result,
                 returned, calls, http>>

\* Mutant: no wait for the goroutine that serves.
ServingEndedAlways == TRUE

\* The channel ch is closed.
ServingEnded == serving = "ended"

\* <-ch after the shutdown, the choice of the error, and the first step of the
\* deferred transit(StateClosed).
Await ==
  /\ pc = "await" /\ ServingEnded
  /\ result' = IF err = "nil" THEN "ctxErr" ELSE err
  /\ transit("StateClosed")
  /\ pc' = "hookClosed"
  /\ UNCHANGED <<conf, built, srv, sent, serving, done, err, lasErr, returned,
                 calls, http>>

\* select, case <-ch.
SelectServed ==
  /\ pc = "select" /\ serving = "ended"
  /\ result' = lasErr
  /\ transit("StateClosed")
  /\ pc' = "hookClosed"
  /\ UNCHANGED <<conf, built, srv, sent, serving, done, err, lasErr, returned,
                 calls, http>>

\* The hook is called with StateClosed and ListenAndServe returns.
Return ==
  /\ pc = "hookClosed"
  /\ Hook("StateClosed")
  /\ pc' = "idle"
  /\ UNCHANGED <<conf, built, srv, state, serving, done, err, lasErr, result,
                 returned, calls, http>>

-----------------------------------------------------------------------------
\* The goroutine that serves: transit(StateListening), in two steps.
ServeTransit ==
  /\ serving = "start"
  /\ transit("StateListening")
  /\ serving' = "hookListening"
  /\ UNCHANGED <<conf, built, srv, sent, pc, done, err, lasErr, result,
                 returned, calls, http>>

ServeHook ==
  /\ serving = "hookListening"
  /\ Hook("StateListening")
  /\ serving' = "listen"
  /\ UNCHANGED <<conf, built, srv, state, pc, done, err, lasErr, result,
                 returned, calls, http>>

\* srv is nil: the program crashes.
Crash ==
  /\ srv = "nil"
  /\ serving = "listen" \/ pc = "stop"
  /\ pc' = "crashed" /\ serving' = "crashed"
  /\ UNCHANGED <<conf, built, srv, state, sent, done, err, lasErr, result,
                 returned, calls, http>>

\* Mutant: the listener stays open when the goroutine ends.
ServeReturnsListening(e) ==
  /\ lasErr' = e
  /\ serving' = "ended"
  /\ UNCHANGED http

\* The goroutine ends: lasErr is set and ch is closed.
ServeReturns(e) ==
  /\ lasErr' = e
  /\ http' = [http EXCEPT !.listening = FALSE]
  /\ serving' = "ended"

\* http.Server.ListenAndServe[TLS]: refused after Shutdown or Close, otherwise
\* the address may be in use.
Listen ==
  /\ serving = "listen" /\ srv # "nil"
  /\ \/ http.inShutdown /\ ServeReturns("ErrServerClosed")
     \/ ~http.inShutdown /\ ServeReturns("ListenError")
     \/ /\ ~http.inShutdown
        /\ http' = [http EXCEPT !.listening = TRUE]
        /\ serving' = "accept"
        /\ UNCHANGED lasErr
  /\ UNCHANGED <<conf, built, srv, state, sent, pc, done, err, result, returned,
                 calls>>

\* The accept loop ends: the listener was closed.
ServeClosed ==
  /\ serving = "accept" /\ ~http.listening
  /\ ServeReturns("ErrServerClosed")
  /\ UNCHANGED <<conf, built, srv, state, sent, pc, done, err, result, returned,
                 calls>>

\* The accept loop ends: accepting failed for good.
ServeFails ==
  /\ serving = "accept" /\ http.listening
  /\ ServeReturns("AcceptError")
  /\ UNCHANGED <<conf, built, srv, state, sent, pc, done, err, result, returned,
                 calls>>

Accept ==
  /\ serving = "accept" /\ http.listening /\ http.active < MaxActive
  /\ http' = [http EXCEPT !.active = @ + 1]
  /\ UNCHANGED <<conf, built, srv, state, sent, pc, serving, done, err, lasErr,
                 result, returned, calls>>

\* A connection ends.
Finish ==
  /\ http.active > 0
  /\ http' = [http EXCEPT !.active = @ - 1]
  /\ UNCHANGED <<conf, built, srv, state, sent, pc, serving, done, err, lasErr,
                 result, returned, calls>>

\* The program closes the *http.Server it got from HTTPServer.
CloseExplicitly ==
  /\ returned = "server" /\ ~http.inShutdown
  /\ http' = Close(http)
  /\ UNCHANGED <<conf, built, srv, state, sent, pc, serving, done, err, lasErr,
                 result, returned, calls>>

-----------------------------------------------------------------------------
Caller ==
  \/ StartServing \/ SelectDone \/ HookShutdown \/ Stop \/ ShutdownReturns
  \/ ShutdownTimeout \/ Await \/ SelectServed \/ Return

Goroutine ==
  \/ ServeTransit \/ ServeHook \/ Crash \/ Listen \/ ServeClosed

Next ==
  /\ pc # "crashed"
  /\ \/ Build \/ HTTPServer \/ ListenAndServe \/ Cancel
     \/ Caller \/ Goroutine
     \/ ServeFails \/ Accept \/ Finish \/ CloseExplicitly

Spec == Init /\ [][Next]_vars

\* Goroutines that can run are scheduled.  No connection has to end: its handler
\* is the program's, and it may never return.
FairSpec == Spec /\ WF_vars(Caller) /\ WF_vars(Goroutine)

-----------------------------------------------------------------------------
\* The variables have the values the code can give them, and a connection is
\* only accepted by the goroutine that serves.
TypeOK ==
  /\ conf \in Conf
  /\ built \in BOOLEAN /\ srv \in {"nil", "server"} /\ (srv = "server" => built)
  /\ state \in ServerState /\ sent \in ServerState \union {"none"}
  /\ pc \in {"idle", "hookNew", "select", "hookShutdown", "stop", "drain",
             "await", "hookClosed", "crashed"}
  /\ serving \in {"none", "start", "hookListening", "listen", "accept", "ended",
                  "crashed"}
  /\ done \in BOOLEAN
  /\ err \in {"nil", "ListenerError", "DeadlineExceeded"}
  /\ lasErr \in {"nil", "ErrServerClosed", "ListenError", "AcceptError"}
  /\ result \in {"none", "BuildError", "ErrServerClosed", "ctxErr", "ListenError",
                 "AcceptError", "ListenerError", "DeadlineExceeded"}
  /\ returned \in {"none", "nil", "server", "error"}
  /\ calls \in 0..MaxCalls
  /\ http \in HTTP /\ (http.listening => serving = "accept")

\* StateClosed is the last state a Server has, and the last one the hook is told
\* ("This is a terminal state"; the comment in ListenAndServe fears a hook "after
\* StateClosed has been sent"): neither the goroutine that serves nor another
\* call of ListenAndServe follows it with another transition.
ClosedIsLast ==
  [][ /\ state = "StateClosed" => state' = "StateClosed"
      /\ sent = "StateClosed" => sent' = "StateClosed" ]_<<state, sent>>

\* A call of ListenAndServe that ends a graceful shutdown and reports no failure
\* of it leaves no connection being served, and none is accepted later: the
\* calls in flight when the context was cancelled all got their answer.
GracefulDrains ==
  (conf.GracefulShutdown # "nil" /\ pc \in {"hookClosed", "idle"})
    => (result = "ctxErr" => http.active = 0)

\* Once the context is done ListenAndServe returns, whatever the handlers do,
\* unless the program asked for a graceful shutdown with no timeout; the crash
\* of a server that could not be built excepted.
ReturnsOnCancel ==
  (pc # "idle" /\ done /\ conf.GracefulShutdown # "unbounded")
    ~> (pc \in {"idle", "crashed"})

\* What the comment of StateShutdown says: "It may only transition to
\* StateClosed".  The context may be done before the goroutine that serves calls
\* transit(StateListening).
ShutdownOnlyToClosed ==
  [][state = "StateShutdown" => state' \in {"StateShutdown", "StateClosed"}]_state
===============================================================================
