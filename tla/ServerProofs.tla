----------------------------- MODULE ServerProofs ------------------------------
(***************************************************************************)
(* For any number of connections and of calls of ListenAndServe: the order *)
(* of the states of a Server, and what a graceful shutdown leaves behind.  *)
(***************************************************************************)
EXTENDS Server, TLAPS

\* The goroutine that serves lives inside of a call: it has not been started
\* before the hook was called with StateNew, and the caller has waited for it
\* when it stores StateClosed.
ServingInCall ==
  /\ pc = "hookNew" => serving = "none"
  /\ pc \in {"select", "hookShutdown", "stop", "drain", "await"} =>
       serving \in {"start", "hookListening", "listen", "accept", "ended"}
  /\ pc \in {"hookClosed", "idle"} => serving \in {"none", "ended"}
  /\ pc = "crashed" <=> serving = "crashed"
  /\ serving = "accept" => srv = "server"
  /\ serving = "ended" => lasErr # "nil"

\* StateClosed is stored at the end of a call, and the hook is told afterwards.
\* Between calls the Server is new, never called or closed.
ClosedAtEnd ==
  /\ state = "StateClosed" => pc \in {"hookClosed", "idle"}
  /\ sent = "StateClosed" => state = "StateClosed" /\ pc = "idle"
  /\ pc = "idle" => state \in {"StateNew", "StateClosed"}
  /\ pc = "idle" /\ state = "StateNew" => serving = "none" /\ result \in {"none", "BuildError"}
  /\ pc = "hookClosed" => state = "StateClosed"

\* A graceful shutdown is in progress only if one is configured.
DrainsIfGraceful == pc \in {"hookShutdown", "drain"} => conf.GracefulShutdown # "nil"

\* Once Shutdown was called nothing is accepted, and once it returned without
\* an error nothing is served either.
DrainedAfterShutdown ==
  /\ http.inShutdown => ~http.listening
  /\ pc \in {"drain", "await"} => http.inShutdown
  /\ pc = "await" /\ conf.GracefulShutdown # "nil" =>
       err = "DeadlineExceeded" \/ http.active = 0
  /\ pc \in {"hookClosed", "idle"} /\ state = "StateClosed" => ~http.listening

IInv ==
  /\ TypeOK
  /\ ServingInCall
  /\ ClosedAtEnd
  /\ DrainsIfGraceful
  /\ DrainedAfterShutdown
  /\ GracefulDrains

\* Records of HTTP, built or updated.
LEMMA HTTPTyped ==
  ASSUME NEW a \in BOOLEAN, NEW b \in BOOLEAN, NEW n \in 0..MaxActive
  PROVE  /\ [inShutdown |-> a, listening |-> b, active |-> n] \in HTTP
         /\ \A h \in HTTP :
              /\ [h EXCEPT !.inShutdown = a, !.listening = b, !.active = n] \in HTTP
              /\ [h EXCEPT !.inShutdown = a, !.listening = b] \in HTTP
              /\ [h EXCEPT !.listening = b] \in HTTP
              /\ [h EXCEPT !.active = n] \in HTTP
  BY DEF HTTP

\* Shutdown and Close stop the listener; Close closes the connections too.
LEMMA HTTPStops ==
  ASSUME NEW h \in HTTP
  PROVE  /\ Shutdown(h) \in HTTP /\ ~Shutdown(h).listening /\ Shutdown(h).inShutdown
         /\ Shutdown(h).active = h.active
         /\ Close(h) \in HTTP /\ ~Close(h).listening /\ Close(h).inShutdown
         /\ Close(h).active = 0
  <1>1. 0 \in 0..MaxActive
    BY ServerAssumption
  <1>2. Shutdown(h) \in HTTP /\ Close(h) \in HTTP
    BY <1>1, HTTPTyped, Zenon DEF Shutdown, Close
  <1>3. ~Shutdown(h).listening /\ Shutdown(h).inShutdown /\ Shutdown(h).active = h.active
    BY DEF HTTP, Shutdown
  <1>4. ~Close(h).listening /\ Close(h).inShutdown /\ Close(h).active = 0
    BY DEF HTTP, Close
  <1> QED
    BY <1>2, <1>3, <1>4

\* A listener is opened, or it is gone.
Opened(h) == [h EXCEPT !.listening = TRUE]
Unheard(h) == [h EXCEPT !.listening = FALSE]

\* Neither changes what is served.
LEMMA HTTPListens ==
  ASSUME NEW h \in HTTP
  PROVE  /\ Opened(h) \in HTTP
         /\ Opened(h).inShutdown = h.inShutdown /\ Opened(h).active = h.active
         /\ Unheard(h) \in HTTP /\ ~Unheard(h).listening
         /\ Unheard(h).inShutdown = h.inShutdown /\ Unheard(h).active = h.active
  <1>1. 0 \in 0..MaxActive
    BY ServerAssumption
  <1>2. Opened(h) \in HTTP /\ Unheard(h) \in HTTP
    BY <1>1, HTTPTyped, Zenon DEF Opened, Unheard
  <1>3. Opened(h).inShutdown = h.inShutdown /\ Opened(h).active = h.active
    BY DEF HTTP, Opened
  <1>4. /\ ~Unheard(h).listening
        /\ Unheard(h).inShutdown = h.inShutdown /\ Unheard(h).active = h.active
    BY DEF HTTP, Unheard
  <1> QED
    BY <1>2, <1>3, <1>4

\* A connection begins or ends.
LEMMA HTTPServes ==
  ASSUME NEW h \in HTTP, NEW n \in 0..MaxActive
  PROVE  LET g == [h EXCEPT !.active = n]
         IN  /\ g \in HTTP /\ g.active = n
             /\ g.inShutdown = h.inShutdown /\ g.listening = h.listening
  <1> DEFINE g == [h EXCEPT !.active = n]
  <1>1. g \in HTTP
    BY HTTPTyped, Zenon
  <1>2. g.active = n
    BY DEF HTTP
  <1>3. g.inShutdown = h.inShutdown /\ g.listening = h.listening
    BY DEF HTTP
  <1> QED
    BY <1>1, <1>2, <1>3

\* A new Server satisfies the invariant.
LEMMA InitIInv == Init => IInv
  <1> SUFFICES ASSUME Init PROVE IInv
    OBVIOUS
  <1>1. built \in BOOLEAN /\ done \in BOOLEAN
    BY Zenon DEF Init
  <1>2. 0 \in 0..MaxActive
    BY ServerAssumption
  <1>3. http \in HTTP
    BY <1>2, HTTPTyped, Zenon DEF Init
  <1>4. ~http.listening /\ ~http.inShutdown /\ http.active = 0
    BY DEF Init
  <1>5. TypeOK
    BY <1>1, <1>3, <1>4, ServerAssumption DEF Init, TypeOK, ServerState
  <1> QED
    BY <1>4, <1>5
    DEF Init, IInv, ServingInCall, ClosedAtEnd, DrainsIfGraceful, DrainedAfterShutdown,
        GracefulDrains

\* The flags stay Boolean, and the http.Server one.
LEMMA FlagsTyped ==
  ASSUME TypeOK, Next
  PROVE  built' \in BOOLEAN /\ done' \in BOOLEAN /\ http' \in HTTP
  <1> USE DEF Next, Caller, Goroutine, Build, HTTPServer, ListenAndServe, Cancel,
              StartServing, SelectDone, HookShutdown, Stop, ShutdownReturns,
              ShutdownTimeout, Await, SelectServed, Return, ServeTransit, ServeHook, Crash,
              Listen, ServeClosed, ServeFails, Accept, Finish, CloseExplicitly
  <1>0. built \in BOOLEAN /\ done \in BOOLEAN /\ http \in HTTP
    BY DEF TypeOK
  <1>1. built' = built \/ built' = TRUE
    BY Zenon DEF build
  <1>2. done' = done \/ done' = TRUE \/ done' = FALSE
    BY Zenon
  <1>3. \/ http' = http \/ http' = Shutdown(http) \/ http' = Close(http)
        \/ http' = Opened(http) \/ http' = Unheard(http)
        \/ http' = [http EXCEPT !.active = @ + 1] /\ http.active < MaxActive
        \/ http' = [http EXCEPT !.active = @ - 1] /\ http.active > 0
    BY Zenon DEF ServeReturns, Opened, Unheard
  <1>4. http.active \in 0..MaxActive
    BY <1>0 DEF HTTP
  <1>5. http.active < MaxActive => http.active + 1 \in 0..MaxActive
    BY <1>4, ServerAssumption
  <1>6. http.active > 0 => http.active - 1 \in 0..MaxActive
    BY <1>4, ServerAssumption
  <1>7. http' \in HTTP
    BY <1>0, <1>3, <1>5, <1>6, HTTPStops, HTTPListens, HTTPServes
  <1> QED
    BY <1>0, <1>1, <1>2, <1>7, Zenon

\* Every step of the two goroutines, of the connections and of the program
\* keeps it.
LEMMA NextIInv == IInv /\ [Next]_vars => IInv'
  <1> SUFFICES ASSUME IInv, [Next]_vars PROVE IInv'
    OBVIOUS
  <1> USE ServerAssumption
  <1> USE DEF IInv, TypeOK, ServingInCall, ClosedAtEnd, DrainsIfGraceful,
              DrainedAfterShutdown, GracefulDrains, ServerState
  <1>1. CASE UNCHANGED vars
    BY <1>1 DEF vars
  <1>2. CASE Next
    <2>0. /\ built' \in BOOLEAN /\ done' \in BOOLEAN /\ http' \in HTTP
          /\ http.active \in 0..MaxActive
      BY <1>2, FlagsTyped DEF HTTP
    <2> USE <2>0
    <2>1. CASE Build
      BY <2>1 DEF Build, build
    <2>2. CASE HTTPServer
      BY <2>2 DEF HTTPServer, build
    <2>3. CASE ListenAndServe
      BY <2>3 DEF ListenAndServe, build, transit
    <2>4. CASE Cancel \/ StartServing \/ HookShutdown \/ Return
      BY <2>4 DEF Cancel, StartServing, HookShutdown, Return, Hook
    <2>5. CASE SelectDone
      BY <2>5 DEF SelectDone, transit
    <2>6. CASE Stop
      BY <2>6, HTTPStops DEF Stop
    <2>7. CASE ShutdownReturns \/ ShutdownTimeout
      BY <2>7 DEF ShutdownReturns, ShutdownTimeout, Drained
    <2>8. CASE Await \/ SelectServed
      BY <2>8 DEF Await, SelectServed, ServingEnded, transit
    <2>9. CASE ServeTransit \/ ServeHook
      BY <2>9 DEF ServeTransit, ServeHook, Hook, transit
    <2>10. CASE Crash
      BY <2>10 DEF Crash
    <2>11. CASE Listen
      <3>1. \/ http' = Unheard(http) /\ serving' = "ended" /\ lasErr' = "ErrServerClosed"
            \/ http' = Unheard(http) /\ serving' = "ended" /\ lasErr' = "ListenError"
            \/ http' = Opened(http) /\ serving' = "accept" /\ ~http.inShutdown /\ lasErr' = lasErr
        BY <2>11, Zenon DEF Listen, ServeReturns, Opened, Unheard
      <3>2. srv # "nil" /\ serving = "listen"
            /\ UNCHANGED <<conf, built, srv, state, sent, pc, done, err, result, returned, calls>>
        BY <2>11 DEF Listen
      <3> QED
        BY <3>1, <3>2, HTTPListens
    <2>12. CASE ServeClosed \/ ServeFails
      <3>1. /\ http' = Unheard(http) /\ serving' = "ended" /\ serving = "accept"
            /\ lasErr' = "ErrServerClosed" \/ lasErr' = "AcceptError"
        BY <2>12, Zenon DEF ServeClosed, ServeFails, ServeReturns, Unheard
      <3>2. UNCHANGED <<conf, built, srv, state, sent, pc, done, err, result, returned, calls>>
        BY <2>12 DEF ServeClosed, ServeFails
      <3> QED
        BY <3>1, <3>2, HTTPListens
    <2>13. CASE Accept
      <3>1. http.active + 1 \in 0..MaxActive /\ http' = [http EXCEPT !.active = http.active + 1]
        BY <2>13 DEF Accept
      <3> QED
        BY <2>13, <3>1, HTTPServes DEF Accept
    <2>14. CASE Finish
      <3>1. http.active - 1 \in 0..MaxActive /\ http' = [http EXCEPT !.active = http.active - 1]
        BY <2>14 DEF Finish
      <3> QED
        BY <2>14, <3>1, HTTPServes DEF Finish
    <2>15. CASE CloseExplicitly
      BY <2>15, HTTPStops DEF CloseExplicitly
    <2> QED
      BY <1>2, <2>1, <2>2, <2>3, <2>4, <2>5, <2>6, <2>7, <2>8, <2>9, <2>10, <2>11, <2>12,
         <2>13, <2>14, <2>15
      DEF Next, Caller, Goroutine
  <1> QED
    BY <1>1, <1>2

\* The inductive invariant holds of every behaviour of a Server.
THEOREM Inductive == Spec => []IInv
  BY InitIInv, NextIInv, PTL DEF Spec

\* The fields of Server and the locals of ListenAndServe keep their types.
THEOREM TypeCorrect == Spec => []TypeOK
  <1>1. IInv => TypeOK
    BY DEF IInv
  <1> QED
    BY <1>1, Inductive, PTL

\* A graceful shutdown that reports no failure left no connection behind.
THEOREM ShutdownDrains == Spec => []GracefulDrains
  <1>1. IInv => GracefulDrains
    BY DEF IInv
  <1> QED
    BY <1>1, Inductive, PTL

\* StateClosed is the last state that is stored and the last one the hook gets.
THEOREM ClosedStays == Spec => ClosedIsLast
  <1> DEFINE Last == /\ state = "StateClosed" => state' = "StateClosed"
                     /\ sent = "StateClosed" => sent' = "StateClosed"
  <1>1. IInv /\ [Next]_vars => [Last]_<<state, sent>>
    <2> SUFFICES ASSUME IInv, [Next]_vars, <<state, sent>>' # <<state, sent>> PROVE Last
      OBVIOUS
    <2> USE DEF IInv, ServingInCall, ClosedAtEnd, transit, Hook
    <2>1. CASE UNCHANGED vars
      BY <2>1 DEF vars
    <2>2. CASE ListenAndServe
      BY <2>2 DEF ListenAndServe
    <2>3. CASE StartServing \/ SelectDone \/ HookShutdown \/ Await \/ SelectServed \/ Return
      BY <2>3 DEF StartServing, SelectDone, HookShutdown, Await, SelectServed, Return
    <2>4. CASE ServeTransit \/ ServeHook
      BY <2>4 DEF ServeTransit, ServeHook
    <2>5. CASE \/ Build \/ HTTPServer \/ Cancel \/ Stop \/ ShutdownReturns \/ ShutdownTimeout
               \/ Crash \/ Listen \/ ServeClosed \/ ServeFails \/ Accept \/ Finish
               \/ CloseExplicitly
      BY <2>5 DEF Build, HTTPServer, Cancel, Stop, ShutdownReturns, ShutdownTimeout, Crash,
                  Listen, ServeClosed, ServeFails, Accept, Finish, CloseExplicitly
    <2> QED
      BY <2>1, <2>2, <2>3, <2>4, <2>5 DEF Next, Caller, Goroutine
  <1> QED
    BY <1>1, Inductive, PTL DEF Spec, ClosedIsLast
===============================================================================
