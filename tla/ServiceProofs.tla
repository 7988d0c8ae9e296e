--------------------------- MODULE ServiceProofs ----------------------------
(***************************************************************************)
(* Theorems about the life of the daemon: on a network that is never idle, *)
(* for any timeouts that leave the time to refresh and to acknowledge; and *)
(* about the requests and timeouts of its client, for any timeouts at all. *)
(***************************************************************************)
EXTENDS UsageService, FiniteSetTheorems, TLAPS

\* The timeouts of the code: the client waits longer than it takes to the next
\* refresh, and the daemon longer than it takes to start and to refresh once.
TimeEnough ==
  /\ DEFAULT_REFRESH_DELAY < NETWORK_ANALYZER_TIMEOUT
  /\ MaxStart + DEFAULT_REFRESH_DELAY < QUIT_TIMEOUT_DURATION

-----------------------------------------------------------------------------
(* The inductive invariant.                                                *)

\* TypeOK without the bounds on the requests, the crashes and the quit timeout.
Typed ==
  /\ daemon \in {"down", "starting", "owning", "running"}
  /\ quit \in Nat /\ refresh \in 0 .. DEFAULT_REFRESH_DELAY
  /\ traffic \in {"idle", "busy", "steady"}
  /\ signal \in {"none", "live", "dead"}
  /\ waiting \in BOOLEAN
  /\ asked \in Nat /\ awaited \in Nat /\ ready \in Nat
  /\ crashes \in Nat
  /\ current \subseteq Subscription /\ \A s, t \in current : s = t
  /\ watchdog \in [Subscription -> Off .. NETWORK_ANALYZER_TIMEOUT]

Requested == asked + awaited + ready = 1

\* There is one request for a proxy, or a timeout that watches the daemon, or neither.
\* The request is answered before the daemon sends anything.
OneRequest ==
  /\ Requested \/ asked + awaited + ready = 0
  /\ asked = 1 => daemon = "down"
  /\ awaited = 1 <=> daemon \in {"starting", "owning"}
  /\ Requested => /\ signal = "none" /\ ~ waiting
                  /\ Armed = {}
                  /\ daemon = "running" => refresh > 0
  /\ signal = "dead" => daemon = "down"
  /\ Armed \subseteq current

\* While the daemon runs, the timeout of the client is later than the next signal.
SignalBeforeTimeout ==
  \A s \in Armed :
    /\ daemon = "running" \/ signal # "none" => watchdog[s] > 0
    /\ daemon = "running" /\ signal = "none" => refresh < watchdog[s]

\* The quit timeout of the daemon is later than its next signal, which the client
\* acknowledges.
AcknowledgedBeforeQuit ==
  /\ daemon \in {"starting", "owning"} => quit >= QUIT_TIMEOUT_DURATION - MaxStart
  /\ daemon = "running" /\ (Requested \/ current # {}) =>
       /\ quit > 0
       /\ signal = "none" /\ ~ waiting => refresh < quit

SteadyInv ==
  Typed /\ (traffic = "steady" => /\ OneRequest
                                  /\ SignalBeforeTimeout
                                  /\ AcknowledgedBeforeQuit)

-----------------------------------------------------------------------------

LEMMA SteadyStart == TimeEnough /\ Init => SteadyInv
<1> SUFFICES ASSUME TimeEnough, Init PROVE SteadyInv
  OBVIOUS
<1>1. watchdog \in [Subscription -> Off .. NETWORK_ANALYZER_TIMEOUT] /\ Armed = {}
  BY ServiceAssumption DEF Init, Armed, Off
<1>2. Typed
  <2>1. quit \in Nat /\ refresh \in 0 .. DEFAULT_REFRESH_DELAY
    BY ServiceAssumption DEF Init
  <2> QED
    BY <1>1, <2>1 DEF Init, Typed
<1>3. OneRequest /\ SignalBeforeTimeout /\ AcknowledgedBeforeQuit
  BY <1>1 DEF Init, OneRequest, SignalBeforeTimeout, AcknowledgedBeforeQuit, Requested
<1> QED
  BY <1>2, <1>3 DEF SteadyInv

LEMMA TypedStep ==
  ASSUME Typed, [Next]_vars
  PROVE  Typed'
<1>0. /\ watchdog \in [Subscription -> Off .. NETWORK_ANALYZER_TIMEOUT]
      /\ NETWORK_ANALYZER_TIMEOUT \in Off .. NETWORK_ANALYZER_TIMEOUT
      /\ Off \in Off .. NETWORK_ANALYZER_TIMEOUT /\ NETWORK_ANALYZER_TIMEOUT \in Nat
  BY ServiceAssumption DEF Typed, Off
<1>a. ASSUME Gone, crashes' \in Nat PROVE Typed'
  <2>1. quit' \in Nat /\ refresh' \in 0 .. DEFAULT_REFRESH_DELAY /\ awaited' \in Nat
    BY <1>a, ServiceAssumption DEF Gone
  <2>2. signal' \in {"none", "live", "dead"}
    BY <1>a DEF Gone, Typed
  <2> QED
    BY <1>a, <2>1, <2>2 DEF Gone, Typed
<1>1. CASE StartServiceByName
  BY <1>1, ServiceAssumption DEF StartServiceByName, Typed, Off, daemonVars, busVars, clientVars
<1>2. CASE na_application_activate
  BY <1>2, ServiceAssumption DEF na_application_activate, Typed, Off, daemonVars, busVars, clientVars
<1>3. CASE on_name_acquired
  BY <1>3, ServiceAssumption DEF on_name_acquired, Typed, Off, daemonVars, busVars, clientVars
<1>4. CASE main_loop_cb
  BY <1>4, ServiceAssumption DEF main_loop_cb, Typed, Off, daemonVars, busVars, clientVars
<1>5. CASE quit_timeout_cb
  <2>1. crashes' \in Nat
    BY <1>5 DEF quit_timeout_cb, Typed
  <2> QED
    BY <1>5, <1>a, <2>1 DEF quit_timeout_cb
<1>6. CASE handle_method_call
  BY <1>6, ServiceAssumption DEF handle_method_call, Typed, Off, daemonVars, busVars, clientVars
<1>7. CASE Crash
  <2>1. crashes' \in Nat
    BY <1>7 DEF Crash, Typed
  <2> QED
    BY <1>7, <1>a, <2>1 DEF Crash
<1>8. CASE connect_network_analyzer_signal
  BY <1>8, ServiceAssumption DEF connect_network_analyzer_signal, Typed, Off, daemonVars, busVars, clientVars
<1>9. CASE usage_changed
  <2>1. watchdog' = [s \in Subscription |->
                       IF s \in current THEN NETWORK_ANALYZER_TIMEOUT ELSE watchdog[s]]
    BY <1>9 DEF usage_changed
  <2>2. watchdog' \in [Subscription -> Off .. NETWORK_ANALYZER_TIMEOUT]
    BY <1>0, <2>1
  <2> QED
    BY <1>9, <2>2 DEF usage_changed, Typed, daemonVars, busVars
<1>10. ASSUME NEW s \in Subscription, start_network_analyzer(s) PROVE Typed'
  <2>1. watchdog' \in [Subscription -> Off .. NETWORK_ANALYZER_TIMEOUT]
    BY <1>0, <1>10 DEF start_network_analyzer
  <2> QED
    BY <1>10, <2>1 DEF start_network_analyzer, Typed, daemonVars
<1>11. CASE Close
  <2>1. watchdog' = [s \in Subscription |-> Off]
    BY <1>11 DEF Close
  <2>2. watchdog' \in [Subscription -> Off .. NETWORK_ANALYZER_TIMEOUT]
    BY <1>0, <2>1
  <2> QED
    BY <1>11, <2>2 DEF Close, Typed, daemonVars, busVars
<1>12. CASE ChangeTraffic
  BY <1>12, ServiceAssumption DEF ChangeTraffic, Typed, Off, daemonVars, busVars, clientVars
<1>13. CASE Tick
  <2>1. watchdog' = [s \in Subscription |-> Less(watchdog[s])]
    BY <1>13 DEF Tick
  <2>2. \A n \in Off .. NETWORK_ANALYZER_TIMEOUT :
          Less(n) \in Off .. NETWORK_ANALYZER_TIMEOUT
    BY <1>0 DEF Less, Off
  <2>3. watchdog' \in [Subscription -> Off .. NETWORK_ANALYZER_TIMEOUT]
    BY <1>0, <2>1, <2>2
  <2>4. quit' \in Nat /\ refresh' \in 0 .. DEFAULT_REFRESH_DELAY
    BY <1>13, ServiceAssumption DEF Tick, Less, Typed
  <2> QED
    BY <1>13, <2>3, <2>4 DEF Tick, Typed, busVars
<1>14. CASE UNCHANGED vars
  BY <1>14 DEF Typed, vars, daemonVars, busVars, clientVars
<1> QED
  BY <1>1, <1>2, <1>3, <1>4, <1>5, <1>6, <1>7, <1>8, <1>9, <1>10, <1>11, <1>12, <1>13, <1>14 DEF Next

LEMMA SteadyStep ==
  ASSUME TimeEnough, SteadyInv, [Next]_vars
  PROVE  SteadyInv'
<1>0. Typed /\ Typed'
  BY TypedStep DEF SteadyInv
<1>s. traffic' = "steady" => traffic = "steady"
  BY <1>0 DEF Typed, Next, StartServiceByName, na_application_activate,
     on_name_acquired, main_loop_cb, quit_timeout_cb, handle_method_call, Crash, Gone,
     connect_network_analyzer_signal, usage_changed, start_network_analyzer, Close,
     ChangeTraffic, Tick, vars
<1> SUFFICES ASSUME traffic' = "steady", traffic = "steady"
             PROVE  OneRequest' /\ SignalBeforeTimeout' /\ AcknowledgedBeforeQuit'
  BY <1>0, <1>s DEF SteadyInv
<1>i. OneRequest /\ SignalBeforeTimeout /\ AcknowledgedBeforeQuit
  BY DEF SteadyInv
<1>t. /\ DEFAULT_REFRESH_DELAY \in Nat \ {0} /\ NETWORK_ANALYZER_TIMEOUT \in Nat
      /\ QUIT_TIMEOUT_DURATION \in Nat /\ MaxStart \in Nat
      /\ DEFAULT_REFRESH_DELAY < NETWORK_ANALYZER_TIMEOUT
      /\ MaxStart + DEFAULT_REFRESH_DELAY < QUIT_TIMEOUT_DURATION
  BY ServiceAssumption DEF TimeEnough
<1>w. \A s \in Subscription : watchdog[s] \in Off .. NETWORK_ANALYZER_TIMEOUT
  BY <1>0 DEF Typed
<1>1. CASE StartServiceByName
  <2>1. UNCHANGED watchdog /\ Armed' = Armed
    BY <1>1 DEF StartServiceByName, Armed, clientVars
  <2>2. asked = 1 /\ awaited = 0 /\ ready = 0
    BY <1>0, <1>i, <1>1 DEF StartServiceByName, Typed, OneRequest, Requested
  <2>3. Requested /\ daemon = "down"
    BY <1>i, <2>2 DEF OneRequest, Requested
  <2>4. /\ asked' = 0 /\ awaited' = 1 /\ ready' = 0
        /\ daemon' = "starting" /\ quit' = QUIT_TIMEOUT_DURATION
        /\ UNCHANGED <<signal, waiting, current>>
    BY <1>1, <2>2, <2>3 DEF StartServiceByName, clientVars
  <2>5. OneRequest'
    BY <1>i, <2>1, <2>3, <2>4 DEF OneRequest, Requested
  <2>6. SignalBeforeTimeout'
    BY <1>i, <2>1, <2>3, <2>4 DEF OneRequest, SignalBeforeTimeout
  <2>7. AcknowledgedBeforeQuit'
    BY <1>t, <2>4 DEF AcknowledgedBeforeQuit
  <2> QED
    BY <2>5, <2>6, <2>7
<1>2. CASE na_application_activate
  <2>1. UNCHANGED watchdog /\ Armed' = Armed
    BY <1>2 DEF na_application_activate, Armed, clientVars
  <2>2. OneRequest'
    BY <1>0, <1>i, <1>2, <1>t, <2>1
       DEF na_application_activate, Typed, OneRequest, Requested, SignalBeforeTimeout, daemonVars, busVars, clientVars
  <2>3. SignalBeforeTimeout'
    BY <1>0, <1>i, <1>2, <1>t, <1>w, <2>1
       DEF na_application_activate, Typed, OneRequest, Requested, SignalBeforeTimeout, daemonVars, busVars, clientVars, Armed
  <2>4. AcknowledgedBeforeQuit'
    BY <1>0, <1>i, <1>2, <1>t, <2>1
       DEF na_application_activate, Typed, OneRequest, Requested, AcknowledgedBeforeQuit, daemonVars, busVars, clientVars
  <2> QED
    BY <2>2, <2>3, <2>4
<1>3. CASE on_name_acquired
  <2>1. UNCHANGED watchdog /\ Armed' = Armed
    BY <1>3 DEF on_name_acquired, Armed, clientVars
  <2>2. OneRequest'
    BY <1>0, <1>i, <1>3, <1>t, <2>1
       DEF on_name_acquired, Typed, OneRequest, Requested, SignalBeforeTimeout, daemonVars, busVars, clientVars
  <2>3. SignalBeforeTimeout'
    BY <1>0, <1>i, <1>3, <1>t, <1>w, <2>1
       DEF on_name_acquired, Typed, OneRequest, Requested, SignalBeforeTimeout, daemonVars, busVars, clientVars, Armed
  <2>4. AcknowledgedBeforeQuit'
    BY <1>0, <1>i, <1>3, <1>t, <2>1
       DEF on_name_acquired, Typed, OneRequest, Requested, AcknowledgedBeforeQuit, daemonVars, busVars, clientVars
  <2> QED
    BY <2>2, <2>3, <2>4
<1>4. CASE main_loop_cb
  <2>1. UNCHANGED watchdog /\ Armed' = Armed
    BY <1>4 DEF main_loop_cb, Armed, clientVars
  <2>2. OneRequest'
    BY <1>0, <1>i, <1>4, <1>t, <2>1
       DEF main_loop_cb, Typed, OneRequest, Requested, SignalBeforeTimeout, daemonVars, busVars, clientVars
  <2>3. SignalBeforeTimeout'
    BY <1>0, <1>i, <1>4, <1>t, <1>w, <2>1
       DEF main_loop_cb, Typed, OneRequest, Requested, SignalBeforeTimeout, daemonVars, busVars, clientVars, Armed
  <2>4. AcknowledgedBeforeQuit'
    BY <1>0, <1>i, <1>4, <1>t, <2>1
       DEF main_loop_cb, Typed, OneRequest, Requested, AcknowledgedBeforeQuit, daemonVars, busVars, clientVars
  <2> QED
    BY <2>2, <2>3, <2>4
<1>5. CASE quit_timeout_cb
  <2>1. UNCHANGED watchdog /\ Armed' = Armed
    BY <1>5 DEF quit_timeout_cb, Gone, Armed, clientVars
  <2>2. OneRequest'
    BY <1>0, <1>i, <1>5, <1>t, <2>1
       DEF quit_timeout_cb, Gone, Typed, OneRequest, Requested, SignalBeforeTimeout, daemonVars, busVars, clientVars
  <2>3. SignalBeforeTimeout'
    BY <1>0, <1>i, <1>5, <1>t, <1>w, <2>1
       DEF quit_timeout_cb, Gone, Typed, OneRequest, Requested, SignalBeforeTimeout, daemonVars, busVars, clientVars, Armed
  <2>4. AcknowledgedBeforeQuit'
    BY <1>0, <1>i, <1>5, <1>t, <2>1
       DEF quit_timeout_cb, Gone, Typed, OneRequest, Requested, AcknowledgedBeforeQuit, daemonVars, busVars, clientVars
  <2> QED
    BY <2>2, <2>3, <2>4
<1>6. CASE handle_method_call
  <2>1. UNCHANGED watchdog /\ Armed' = Armed
    BY <1>6 DEF handle_method_call, Armed, clientVars
  <2>2. OneRequest'
    BY <1>0, <1>i, <1>6, <1>t, <2>1
       DEF handle_method_call, Typed, OneRequest, Requested, SignalBeforeTimeout, daemonVars, busVars, clientVars
  <2>3. SignalBeforeTimeout'
    BY <1>0, <1>i, <1>6, <1>t, <1>w, <2>1
       DEF handle_method_call, Typed, OneRequest, Requested, SignalBeforeTimeout, daemonVars, busVars, clientVars, Armed
  <2>4. AcknowledgedBeforeQuit'
    BY <1>0, <1>i, <1>6, <1>t, <2>1
       DEF handle_method_call, Typed, OneRequest, Requested, AcknowledgedBeforeQuit, daemonVars, busVars, clientVars
  <2> QED
    BY <2>2, <2>3, <2>4
<1>7. CASE Crash
  <2>1. UNCHANGED watchdog /\ Armed' = Armed
    BY <1>7 DEF Crash, Gone, Armed, clientVars
  <2>2. OneRequest'
    BY <1>0, <1>i, <1>7, <1>t, <2>1
       DEF Crash, Gone, Typed, OneRequest, Requested, SignalBeforeTimeout, daemonVars, busVars, clientVars
  <2>3. SignalBeforeTimeout'
    BY <1>0, <1>i, <1>7, <1>t, <1>w, <2>1
       DEF Crash, Gone, Typed, OneRequest, Requested, SignalBeforeTimeout, daemonVars, busVars, clientVars, Armed
  <2>4. AcknowledgedBeforeQuit'
    BY <1>0, <1>i, <1>7, <1>t, <2>1
       DEF Crash, Gone, Typed, OneRequest, Requested, AcknowledgedBeforeQuit, daemonVars, busVars, clientVars
  <2> QED
    BY <2>2, <2>3, <2>4
<1>8. CASE connect_network_analyzer_signal
  <2>1. UNCHANGED watchdog /\ Armed' = Armed
    BY <1>8 DEF connect_network_analyzer_signal, Armed, clientVars
  <2>2. OneRequest'
    BY <1>0, <1>i, <1>8, <1>t, <2>1
       DEF connect_network_analyzer_signal, Typed, OneRequest, Requested, SignalBeforeTimeout, daemonVars, busVars, clientVars
  <2>3. SignalBeforeTimeout'
    BY <1>0, <1>i, <1>8, <1>t, <1>w, <2>1
       DEF connect_network_analyzer_signal, Typed, OneRequest, Requested, SignalBeforeTimeout, daemonVars, busVars, clientVars, Armed
  <2>4. AcknowledgedBeforeQuit'
    BY <1>0, <1>i, <1>8, <1>t, <2>1
       DEF connect_network_analyzer_signal, Typed, OneRequest, Requested, AcknowledgedBeforeQuit, daemonVars, busVars, clientVars
  <2> QED
    BY <2>2, <2>3, <2>4
<1>9. CASE usage_changed
  <2>1. /\ watchdog' = [s \in Subscription |->
                         IF s \in current THEN NETWORK_ANALYZER_TIMEOUT ELSE watchdog[s]]
        /\ UNCHANGED <<daemonVars, busVars, current>>
        /\ signal # "none" /\ signal' = "none"
        /\ waiting' = (current # {} /\ signal = "live")
    BY <1>9 DEF usage_changed
  <2>2. /\ Armed' = current
        /\ \A s \in Armed' : watchdog'[s] = NETWORK_ANALYZER_TIMEOUT
    BY <1>0, <1>i, <1>t, <2>1 DEF Armed, Off, OneRequest, Typed
  <2>3. OneRequest'
    BY <1>0, <1>i, <2>1, <2>2 DEF OneRequest, Requested, Typed, daemonVars, busVars
  <2>4. SignalBeforeTimeout'
    BY <1>0, <1>t, <2>1, <2>2 DEF SignalBeforeTimeout, Typed, daemonVars
  <2>5. AcknowledgedBeforeQuit'
    BY <1>0, <1>i, <2>1
       DEF AcknowledgedBeforeQuit, OneRequest, Requested, Typed, daemonVars, busVars
  <2> QED
    BY <2>3, <2>4, <2>5
<1>10. ASSUME NEW s \in Subscription, start_network_analyzer(s)
       PROVE  OneRequest' /\ SignalBeforeTimeout' /\ AcknowledgedBeforeQuit'
  <2>1. /\ watchdog[s] = 0 /\ ~ waiting
        /\ watchdog' = [watchdog EXCEPT ![s] = Off]
        /\ asked' = asked + 1
        /\ UNCHANGED <<daemon, quit, refresh, signal, awaited, ready, current, waiting>>
    BY <1>10 DEF start_network_analyzer, daemonVars
  <2>2. s \in Armed
    BY <2>1 DEF Armed, Off
  <2>3. daemon = "down" /\ signal = "none" /\ asked = 0 /\ awaited = 0 /\ ready = 0
    BY <1>0, <1>i, <2>1, <2>2 DEF OneRequest, Requested, SignalBeforeTimeout, Typed
  <2>4. Armed' = {}
    <3>1. Armed' = Armed \ {s}
      BY <1>0, <2>1 DEF Armed, Typed
    <3>2. Armed \subseteq {s}
      BY <1>0, <1>i, <2>2 DEF OneRequest, Typed
    <3> QED
      BY <3>1, <3>2
  <2>5. OneRequest'
    BY <2>1, <2>3, <2>4 DEF OneRequest, Requested
  <2>6. SignalBeforeTimeout'
    BY <2>4 DEF SignalBeforeTimeout
  <2>7. AcknowledgedBeforeQuit'
    BY <2>1, <2>3 DEF AcknowledgedBeforeQuit
  <2> QED
    BY <2>5, <2>6, <2>7
<1>11. CASE Close
  <2>1. Armed' = {} /\ UNCHANGED <<daemonVars, busVars>>
        /\ signal' = "none" /\ waiting' = FALSE /\ current' = {}
    BY <1>11 DEF Close, Armed
  <2>2. OneRequest'
    BY <1>i, <2>1 DEF OneRequest, Requested, daemonVars, busVars
  <2>3. SignalBeforeTimeout'
    BY <2>1 DEF SignalBeforeTimeout
  <2>4. AcknowledgedBeforeQuit'
    BY <1>i, <2>1
       DEF AcknowledgedBeforeQuit, OneRequest, Requested, daemonVars, busVars
  <2> QED
    BY <2>2, <2>3, <2>4
<1>12. CASE ChangeTraffic
  BY <1>12 DEF ChangeTraffic
<1>13. CASE Tick
  <2>1. /\ signal = "none" /\ ~ waiting /\ \A s \in Subscription : watchdog[s] # 0
        /\ asked = 0 /\ ready = 0 /\ daemon # "owning"
        /\ daemon = "starting" => quit > QUIT_TIMEOUT_DURATION - MaxStart
        /\ daemon = "running" => quit > 0 /\ refresh > 0
        /\ quit' = Less(quit) /\ refresh' = Less(refresh)
        /\ watchdog' = [s \in Subscription |-> Less(watchdog[s])]
        /\ UNCHANGED <<daemon, signal, busVars, current, waiting>>
    BY <1>13 DEF Tick
  <2>2. Armed' = Armed /\ \A s \in Armed : watchdog'[s] = watchdog[s] - 1
    <3>1. \A s \in Subscription :
            /\ watchdog'[s] = IF watchdog[s] = Off THEN Off ELSE watchdog[s] - 1
            /\ watchdog[s] # Off => watchdog[s] > 0
      BY <1>w, <1>t, <2>1 DEF Less, Off
    <3> QED
      BY <1>w, <1>t, <3>1 DEF Armed, Off
  <2>3. OneRequest'
    BY <1>0, <1>i, <2>1, <2>2 DEF OneRequest, Requested, busVars, Typed
  <2>4. SignalBeforeTimeout'
    <3> SUFFICES ASSUME NEW s \in Armed, daemon = "running"
                 PROVE  watchdog'[s] > 0 /\ refresh' < watchdog'[s]
      BY <2>1, <2>2 DEF SignalBeforeTimeout
    <3>1. refresh < watchdog[s] /\ refresh' = refresh - 1 /\ refresh' \in Nat
      BY <1>0, <1>i, <2>1 DEF SignalBeforeTimeout, Less, Typed
    <3>2. watchdog[s] \in Int
      BY <1>w, <1>t DEF Armed, Off
    <3> QED
      BY <1>0, <2>2, <3>1, <3>2 DEF Typed
  <2>5. AcknowledgedBeforeQuit'
    BY <1>0, <1>i, <1>t, <2>1
       DEF AcknowledgedBeforeQuit, OneRequest, Requested, busVars, Less, Typed
  <2> QED
    BY <2>3, <2>4, <2>5
<1>14. CASE UNCHANGED vars
  BY <1>i, <1>14 DEF OneRequest, Requested, SignalBeforeTimeout, AcknowledgedBeforeQuit,
     Armed, vars, daemonVars, busVars, clientVars
<1> QED
  BY <1>1, <1>2, <1>3, <1>4, <1>5, <1>6, <1>7, <1>8, <1>9, <1>10, <1>11, <1>12,
     <1>13, <1>14 DEF Next

LEMMA SteadyInvariant ==
  ASSUME TimeEnough
  PROVE  Spec => []SteadyInv
<1>1. Init => SteadyInv
  BY SteadyStart
<1>2. SteadyInv /\ [Next]_vars => SteadyInv'
  BY SteadyStep
<1> QED
  BY <1>1, <1>2, PTL DEF Spec

-----------------------------------------------------------------------------

\* Only the handler of the proxy in use watches the daemon
\* (connect_network_analyzer_signal() in usage-network-view.vala): on a network that
\* is never idle no second daemon is asked for while one answers.
THEOREM WatchdogIsCurrent ==
  ASSUME TimeEnough
  PROVE  Spec => []OneWatchdog
<1>1. SteadyInv => OneWatchdog
  BY DEF SteadyInv, OneRequest, OneWatchdog
<1> QED
  BY <1>1, SteadyInvariant, PTL

\* On a network that is never idle the quit timeout never comes while a client that
\* has heard from the daemon runs (quit_timeout_cb() in na-application.c).
THEOREM DaemonStaysWithClient ==
  ASSUME TimeEnough
  PROVE  Spec => StaysWithClient
<1>1. ASSUME SteadyInv, [Next]_vars,
             traffic = "steady", daemon # "down", daemon' = "down", crashes' = crashes
      PROVE  Armed = {}
  <2>1. quit_timeout_cb
    <3>1. ~ Crash
      BY <1>1 DEF Crash, Typed, SteadyInv
    <3> QED
      BY <1>1, <3>1 DEF Next, StartServiceByName, na_application_activate,
         on_name_acquired, main_loop_cb, handle_method_call,
         connect_network_analyzer_signal, usage_changed, start_network_analyzer, Close,
         ChangeTraffic, Tick, vars, daemonVars
  <2> QED
    BY <1>1, <2>1, ServiceAssumption
       DEF quit_timeout_cb, SteadyInv, AcknowledgedBeforeQuit, OneRequest, TimeEnough
<1>2. SteadyInv /\ [Next]_vars =>
        [traffic = "steady" /\ daemon # "down" /\ daemon' = "down" /\ crashes' = crashes
           => Armed = {}]_vars
  BY <1>1
<1>3. Spec => [][Next]_vars
  BY DEF Spec
<1> QED
  BY <1>2, <1>3, SteadyInvariant, PTL DEF StaysWithClient

-----------------------------------------------------------------------------
(* Few requests, for any timeouts and any traffic.                         *)
(*                                                                         *)
(* A request or an armed timeout is a token: a timeout turns into a        *)
(* request, and a request into a handler, which is armed by the next       *)
(* signal.  Only a signal adds a token, when it arms the handler in use,   *)
(* and what follows shows that it never finds two others.                  *)

Requests == asked + awaited + ready

\* The tokens: two requests, or a request and a timeout, or two timeouts.
TwoTokens ==
  /\ Requests <= 2
  /\ Requests = 2 => Armed = {}
  /\ Requests = 1 => \A s, t \in Armed : s = t
  /\ \A s, t, u \in Armed : s = t \/ t = u \/ s = u

\* With two tokens the handler in use is armed already, unless both are requests.
NoThirdTimeout ==
  /\ Requests = 1 /\ Armed # {} => current \subseteq Armed
  /\ \A s, t \in Armed : s # t => current \subseteq Armed

\* No signal is on its way, and none is sent before time goes on.
Quiet == signal = "none" /\ (daemon = "running" => refresh > 0)

\* Two requests are answered before a signal arms anything: time does not go on
\* before they are.
QuietWithRequests == Requests = 2 /\ current # {} => Quiet

\* A request that is left when a timeout comes was waiting for the daemon to start.
QuietWhenDue == Requests > 0 /\ (\E s \in Armed : watchdog[s] = 0) => Quiet

\* The timeout of the handler in use is the last to come, and no two come at once.
OneAfterTheOther ==
  /\ \A s, t \in Armed : s # t => watchdog[s] # watchdog[t]
  /\ \A s \in current \cap Armed : \A t \in Armed : s # t => watchdog[t] < watchdog[s]

\* A timeout is not as late as one that the next signal arms.
BeforeTheNext == ~ Quiet => \A s \in Armed : watchdog[s] < NETWORK_ANALYZER_TIMEOUT

\* A signal is handled before the next one is due.
OneSignalAtATime == signal # "none" /\ daemon = "running" => refresh > 0

AwaitedWhileStarting == awaited > 0 => daemon \in {"starting", "owning"}

TokenInv ==
  /\ TwoTokens /\ NoThirdTimeout
  /\ QuietWithRequests /\ QuietWhenDue
  /\ OneAfterTheOther /\ BeforeTheNext
  /\ OneSignalAtATime /\ AwaitedWhileStarting

Bounded ==
  /\ quit <= QUIT_TIMEOUT_DURATION /\ crashes <= MaxCrashes
  /\ rows \in BOOLEAN /\ open \in BOOLEAN

RequestInv == Typed /\ Bounded /\ TokenInv

-----------------------------------------------------------------------------

LEMMA RequestStart == Init => RequestInv
<1> SUFFICES ASSUME Init PROVE RequestInv
  OBVIOUS
<1>1. watchdog \in [Subscription -> Off .. NETWORK_ANALYZER_TIMEOUT] /\ Armed = {}
  BY ServiceAssumption DEF Init, Armed, Off
<1>2. Typed
  <2>1. quit \in Nat /\ refresh \in 0 .. DEFAULT_REFRESH_DELAY
    BY ServiceAssumption DEF Init
  <2> QED
    BY <1>1, <2>1 DEF Init, Typed
<1>3. Bounded
  <2>1. quit <= QUIT_TIMEOUT_DURATION /\ crashes <= MaxCrashes
    BY ServiceAssumption DEF Init
  <2>2. rows \in BOOLEAN /\ open \in BOOLEAN
    BY DEF Init
  <2> QED
    BY <2>1, <2>2 DEF Bounded
<1>4. TokenInv
  BY <1>1 DEF Init, TokenInv, TwoTokens, NoThirdTimeout, QuietWithRequests,
     QuietWhenDue, OneAfterTheOther, BeforeTheNext, OneSignalAtATime,
     AwaitedWhileStarting, Requests
<1> QED
  BY <1>2, <1>3, <1>4 DEF RequestInv

LEMMA BoundedStep ==
  ASSUME Typed, Bounded, [Next]_vars
  PROVE  Bounded'
<1>0. /\ quit \in Nat /\ quit <= QUIT_TIMEOUT_DURATION /\ QUIT_TIMEOUT_DURATION \in Nat
      /\ crashes \in Nat /\ crashes <= MaxCrashes /\ MaxCrashes \in Nat
      /\ rows \in BOOLEAN /\ open \in BOOLEAN
  BY ServiceAssumption DEF Typed, Bounded
<1>1. rows' \in BOOLEAN
  <2>1. ASSUME rows' # rows PROVE main_loop_cb \/ Gone
    BY <2>1 DEF Next, StartServiceByName, na_application_activate, on_name_acquired,
       quit_timeout_cb, handle_method_call, Crash, connect_network_analyzer_signal,
       usage_changed, start_network_analyzer, Close, ChangeTraffic, Tick, vars, daemonVars
  <2> QED
    BY <1>0, <2>1 DEF main_loop_cb, Gone
<1>2. open' \in BOOLEAN
  BY <1>0 DEF Next, StartServiceByName, na_application_activate, on_name_acquired,
     main_loop_cb, quit_timeout_cb, handle_method_call, Crash, Gone,
     connect_network_analyzer_signal, usage_changed, start_network_analyzer, Close,
     ChangeTraffic, Tick, vars, clientVars
<1>3. quit' \in {quit, QUIT_TIMEOUT_DURATION, 0, Less(quit)}
  BY DEF Next, StartServiceByName, na_application_activate, on_name_acquired,
     main_loop_cb, quit_timeout_cb, handle_method_call, Crash, Gone,
     connect_network_analyzer_signal, usage_changed, start_network_analyzer, Close,
     ChangeTraffic, Tick, vars, daemonVars
<1>4. crashes' = crashes \/ (crashes' = crashes + 1 /\ crashes < MaxCrashes)
  BY DEF Next, StartServiceByName, na_application_activate, on_name_acquired,
     main_loop_cb, quit_timeout_cb, handle_method_call, Crash,
     connect_network_analyzer_signal, usage_changed, start_network_analyzer, Close,
     ChangeTraffic, Tick, vars, daemonVars
<1>5. quit' <= QUIT_TIMEOUT_DURATION /\ crashes' <= MaxCrashes
  BY <1>0, <1>3, <1>4 DEF Less
<1> QED
  BY <1>1, <1>2, <1>5 DEF Bounded

LEMMA SumOfThree == \A k, m, n \in Nat : k + m + n \in Nat
  OBVIOUS

LEMMA RequestsAreCounted ==
  ASSUME Typed, Typed'
  PROVE  Requests \in Nat /\ Requests' \in Nat
<1>1. Requests \in Nat
  BY SumOfThree DEF Typed, Requests
<1>2. Requests' \in Nat
  BY SumOfThree DEF Typed, Requests
<1> QED
  BY <1>1, <1>2

\* A step that leaves the handlers and their timeouts alone.
LEMMA TokensStay ==
  ASSUME Typed, Typed', TokenInv, UNCHANGED <<current, watchdog>>,
         Requests' <= Requests, Quiet => Quiet', OneSignalAtATime', AwaitedWhileStarting'
  PROVE  TokenInv'
<1>1. Armed' = Armed
  BY DEF Armed
<1>2. Requests \in Nat /\ Requests' \in Nat
  BY RequestsAreCounted
<1>3. TwoTokens' /\ NoThirdTimeout'
  BY <1>1, <1>2 DEF TokenInv, TwoTokens, NoThirdTimeout
<1>4. QuietWithRequests'
  BY <1>1, <1>2 DEF TokenInv, TwoTokens, QuietWithRequests
<1>5. QuietWhenDue' /\ BeforeTheNext' /\ OneAfterTheOther'
  BY <1>1, <1>2 DEF TokenInv, QuietWhenDue, BeforeTheNext, OneAfterTheOther
<1> QED
  BY <1>3, <1>4, <1>5 DEF TokenInv

LEMMA TokenStep ==
  ASSUME Typed, Typed', TokenInv, [Next]_vars
  PROVE  TokenInv'
<1>r. Requests \in Nat /\ Requests' \in Nat
  BY RequestsAreCounted
<1>w. /\ \A s \in Subscription : watchdog[s] \in Off .. NETWORK_ANALYZER_TIMEOUT
      /\ Off = -1 /\ NETWORK_ANALYZER_TIMEOUT \in Nat \ {0}
      /\ current \subseteq Subscription /\ Armed \subseteq Subscription
      /\ \A s \in Armed : watchdog[s] \in 0 .. NETWORK_ANALYZER_TIMEOUT
  BY ServiceAssumption DEF Typed, Armed, Off
<1>a. ASSUME Gone PROVE TokenInv'
  BY <1>a, TokensStay DEF Gone, Requests, Typed, Quiet, OneSignalAtATime, AwaitedWhileStarting
<1>1. CASE StartServiceByName
  <2>1. /\ UNCHANGED <<current, watchdog, signal, refresh>>
        /\ (daemon' = "running" => daemon = "running")
    BY <1>1 DEF StartServiceByName, clientVars
  <2>2. asked \in Nat /\ awaited \in Nat /\ ready \in Nat /\ asked' = asked - 1
    BY <1>1 DEF StartServiceByName, Typed
  <2>3. Requests' = Requests
    <3>1. CASE daemon = "running"
      <4>1. ready' = ready + 1 /\ awaited' = awaited
        BY <1>1, <3>1 DEF StartServiceByName
      <4> QED
        BY <2>2, <4>1 DEF Requests
    <3>2. CASE daemon # "running"
      <4>1. ready' = ready /\ awaited' = awaited + 1
        BY <1>1, <3>2 DEF StartServiceByName
      <4> QED
        BY <2>2, <4>1 DEF Requests
    <3> QED
      BY <3>1, <3>2
  <2>4. AwaitedWhileStarting'
    BY <1>1 DEF StartServiceByName, AwaitedWhileStarting, TokenInv, Typed
  <2> QED
    BY <2>1, <2>3, <2>4, TokensStay, <1>r DEF Quiet, OneSignalAtATime, TokenInv
<1>2. CASE na_application_activate
  BY <1>2, TokensStay, <1>r
     DEF na_application_activate, Requests, Quiet, OneSignalAtATime, AwaitedWhileStarting, TokenInv, busVars, clientVars
<1>3. CASE on_name_acquired
  BY <1>3, TokensStay, <1>r, ServiceAssumption
     DEF on_name_acquired, Requests, Quiet, OneSignalAtATime, AwaitedWhileStarting, Typed, clientVars
<1>4. CASE main_loop_cb
  <2>1. /\ UNCHANGED <<current, watchdog, asked, awaited, ready, daemon>>
        /\ refresh' = DEFAULT_REFRESH_DELAY /\ ~ Quiet
    BY <1>4 DEF main_loop_cb, Quiet, busVars, clientVars
  <2>2. Requests' = Requests
    BY <2>1 DEF Requests
  <2>3. OneSignalAtATime' /\ AwaitedWhileStarting'
    BY <2>1, ServiceAssumption DEF OneSignalAtATime, AwaitedWhileStarting, TokenInv
  <2> QED
    BY <1>r, <2>1, <2>2, <2>3, TokensStay
<1>5. CASE quit_timeout_cb
  BY <1>5, <1>a DEF quit_timeout_cb
<1>6. CASE handle_method_call
  BY <1>6, TokensStay, <1>r
     DEF handle_method_call, Requests, Quiet, OneSignalAtATime, AwaitedWhileStarting, TokenInv, busVars
<1>7. CASE Crash
  BY <1>7, <1>a DEF Crash
<1>8. CASE connect_network_analyzer_signal
  <2>1. /\ ready > 0 /\ ready' = ready - 1 /\ Requests' = Requests - 1
        /\ UNCHANGED <<watchdog, daemon, refresh, signal, asked, awaited>>
        /\ \A s \in current' : watchdog[s] = Off
    BY <1>8 DEF connect_network_analyzer_signal, Requests, Typed, daemonVars
  <2>2. Armed' = Armed /\ current' \cap Armed = {} /\ (Quiet' <=> Quiet)
    BY <2>1 DEF Armed, Quiet
  <2>3. TwoTokens' /\ NoThirdTimeout' /\ Requests' < 2
    BY <1>r, <2>1, <2>2 DEF TokenInv, TwoTokens, NoThirdTimeout
  <2>4. QuietWithRequests' /\ QuietWhenDue' /\ BeforeTheNext' /\ OneAfterTheOther'
    BY <1>r, <2>1, <2>2, <2>3
       DEF TokenInv, QuietWithRequests, QuietWhenDue, BeforeTheNext, OneAfterTheOther
  <2> QED
    BY <2>1, <2>3, <2>4 DEF TokenInv, OneSignalAtATime, AwaitedWhileStarting
<1>9. CASE usage_changed
  <2>1. /\ watchdog' = [s \in Subscription |->
                         IF s \in current THEN NETWORK_ANALYZER_TIMEOUT ELSE watchdog[s]]
        /\ signal # "none" /\ ~ Quiet
        /\ UNCHANGED <<daemon, refresh, asked, awaited, ready, current>>
        /\ Requests' = Requests
    BY <1>9 DEF usage_changed, Requests, Quiet, daemonVars, busVars
  <2>2. /\ Armed' = Armed \cup current
        /\ \A s \in current : watchdog'[s] = NETWORK_ANALYZER_TIMEOUT
        /\ \A s \in Armed \ current : watchdog'[s] = watchdog[s]
    BY <1>w, <2>1 DEF Armed
  <2>3. \A s \in Armed : watchdog[s] < NETWORK_ANALYZER_TIMEOUT
    BY <2>1 DEF TokenInv, BeforeTheNext
  <2>4. Requests = 2 => current = {}
    BY <2>1 DEF TokenInv, QuietWithRequests
  <2>5. TwoTokens'
    BY <1>r, <2>1, <2>2, <2>4 DEF TokenInv, TwoTokens, NoThirdTimeout, Typed
  <2>6. NoThirdTimeout' /\ QuietWithRequests'
    BY <2>1, <2>2, <2>4 DEF NoThirdTimeout, QuietWithRequests
  <2>7. QuietWhenDue'
    <3> SUFFICES ASSUME Requests > 0, NEW s \in Armed', watchdog'[s] = 0
                 PROVE  FALSE
      BY <2>1 DEF QuietWhenDue
    <3>1. s \in Armed /\ watchdog[s] = 0
      BY <1>w, <2>2
    <3> QED
      BY <2>1, <3>1 DEF TokenInv, QuietWhenDue
  <2>8. OneAfterTheOther'
    BY <1>w, <2>1, <2>2, <2>3 DEF TokenInv, OneAfterTheOther, Typed
  <2>9. Quiet' /\ OneSignalAtATime' /\ AwaitedWhileStarting'
    BY <1>9, <2>1
       DEF usage_changed, TokenInv, Quiet, OneSignalAtATime, AwaitedWhileStarting
  <2> QED
    BY <2>5, <2>6, <2>7, <2>8, <2>9 DEF TokenInv, BeforeTheNext
<1>10. ASSUME NEW s \in Subscription, start_network_analyzer(s) PROVE TokenInv'
  <2>1. /\ watchdog[s] = 0 /\ watchdog' = [watchdog EXCEPT ![s] = Off]
        /\ asked' = asked + 1
        /\ UNCHANGED <<daemon, refresh, signal, awaited, ready, current>>
    BY <1>10 DEF start_network_analyzer, daemonVars
  <2>2. Requests' = Requests + 1 /\ (Quiet' <=> Quiet)
    BY <2>1 DEF Requests, Quiet, Typed
  <2>3. /\ s \in Armed /\ Armed' = Armed \ {s}
        /\ \A t \in Armed' : watchdog'[t] = watchdog[t]
    BY <1>w, <2>1 DEF Armed, Typed
  <2>4. s \in current => Armed' = {}
    BY <1>w, <2>1, <2>3 DEF TokenInv, OneAfterTheOther
  <2>5. TwoTokens' /\ NoThirdTimeout'
    BY <1>r, <2>2, <2>3, <2>4, <2>1 DEF TokenInv, TwoTokens, NoThirdTimeout
  <2>6. QuietWithRequests'
    BY <1>r, <2>1, <2>2, <2>3
       DEF TokenInv, TwoTokens, NoThirdTimeout, QuietWithRequests, QuietWhenDue
  <2>7. QuietWhenDue' /\ OneAfterTheOther' /\ BeforeTheNext'
    BY <1>w, <2>1, <2>2, <2>3
       DEF TokenInv, QuietWhenDue, OneAfterTheOther, BeforeTheNext
  <2> QED
    BY <2>1, <2>5, <2>6, <2>7 DEF TokenInv, OneSignalAtATime, AwaitedWhileStarting
<1>11. CASE Close
  <2>1. /\ Armed' = {} /\ current' = {} /\ signal' = "none"
        /\ UNCHANGED <<daemon, refresh, asked, awaited, ready>>
    BY <1>11 DEF Close, Armed, daemonVars, busVars
  <2>2. Requests' = Requests
    BY <2>1 DEF Requests
  <2> QED
    BY <1>r, <2>1, <2>2
       DEF TokenInv, TwoTokens, NoThirdTimeout, QuietWithRequests, QuietWhenDue,
           OneAfterTheOther, BeforeTheNext, OneSignalAtATime, AwaitedWhileStarting
<1>12. CASE ChangeTraffic
  BY <1>12, TokensStay, <1>r
     DEF ChangeTraffic, Requests, Quiet, OneSignalAtATime, AwaitedWhileStarting,
         TokenInv, daemonVars, busVars, clientVars
<1>13. CASE Tick
  <2>1. /\ signal = "none" /\ \A s \in Subscription : watchdog[s] # 0
        /\ asked = 0 /\ ready = 0
        /\ watchdog' = [s \in Subscription |-> Less(watchdog[s])]
        /\ UNCHANGED <<daemon, signal, asked, awaited, ready, current>>
    BY <1>13 DEF Tick, busVars
  <2>2. Armed' = Armed /\ \A s \in Armed : watchdog'[s] = watchdog[s] - 1
    <3>1. \A s \in Subscription :
            /\ watchdog'[s] = IF watchdog[s] = Off THEN Off ELSE watchdog[s] - 1
            /\ watchdog[s] # Off => watchdog[s] > 0
      BY <1>w, <2>1 DEF Less
    <3> QED
      BY <1>w, <3>1 DEF Armed
  <2>3. Requests' = Requests
    BY <2>1 DEF Requests
  <2>4. Requests > 0 => Quiet'
    BY <2>1 DEF Requests, Quiet, TokenInv, AwaitedWhileStarting, Typed
  <2>5. TwoTokens' /\ NoThirdTimeout' /\ QuietWithRequests' /\ QuietWhenDue'
    BY <1>r, <2>1, <2>2, <2>3, <2>4
       DEF TokenInv, TwoTokens, NoThirdTimeout, QuietWithRequests, QuietWhenDue
  <2>6. OneAfterTheOther' /\ BeforeTheNext'
    BY <1>w, <2>1, <2>2 DEF TokenInv, OneAfterTheOther, BeforeTheNext
  <2> QED
    BY <2>1, <2>5, <2>6 DEF TokenInv, OneSignalAtATime, AwaitedWhileStarting
<1>14. CASE UNCHANGED vars
  BY <1>14, TokensStay, <1>r
     DEF vars, Requests, Quiet, OneSignalAtATime, AwaitedWhileStarting, TokenInv,
         daemonVars, busVars, clientVars
<1> QED
  BY <1>1, <1>2, <1>3, <1>4, <1>5, <1>6, <1>7, <1>8, <1>9, <1>10, <1>11, <1>12,
     <1>13, <1>14 DEF Next

LEMMA RequestInvariant == Spec => []RequestInv
<1>1. Init => RequestInv
  BY RequestStart
<1>2. RequestInv /\ [Next]_vars => RequestInv'
  BY TypedStep, BoundedStep, TokenStep DEF RequestInv
<1> QED
  BY <1>1, <1>2, PTL DEF Spec

LEMMA FewElements ==
  /\ Cardinality({}) = 0
  /\ \A s : Cardinality({s}) = 1
  /\ \A s, t : Cardinality({s, t}) \in {1, 2}
<1>1. Cardinality({}) = 0 /\ \A s : IsFiniteSet({s}) /\ Cardinality({s}) = 1
  BY FS_EmptySet, FS_Singleton
<1>2. ASSUME NEW s, NEW t PROVE Cardinality({s, t}) \in {1, 2}
  <2>1. {s, t} = {s} \cup {t}
    OBVIOUS
  <2>2. IsFiniteSet({s}) /\ Cardinality({s}) = 1
    BY <1>1
  <2>3. Cardinality({s} \cup {t}) =
          IF t \in {s} THEN Cardinality({s}) ELSE Cardinality({s}) + 1
    BY <2>2, FS_AddElement
  <2> QED
    BY <2>1, <2>2, <2>3
<1> QED
  BY <1>1, <1>2

\* The requests for a proxy and the armed timeouts are never more than two, although
\* the timeout of a dropped handler still asks for a proxy
\* (connect_network_analyzer_signal() in usage-network-view.vala): so it is for any
\* timeouts, on any network, and however often the daemon quits or is killed.
THEOREM RequestsAreFew == Spec => []FewRequests
<1>1. ASSUME RequestInv PROVE FewRequests
  <2>1. Requests \in 0 .. 2
    BY <1>1, SumOfThree DEF RequestInv, Typed, TokenInv, TwoTokens, Requests
  <2>2. CASE Armed = {}
    BY <2>1, <2>2, FewElements DEF FewRequests, Requests
  <2>3. ASSUME NEW s \in Armed, \A t \in Armed : s = t PROVE FewRequests
    <3>1. Armed = {s} /\ Requests < 2
      BY <1>1, <2>1, <2>3 DEF RequestInv, TokenInv, TwoTokens
    <3>2. Cardinality(Armed) = 1
      BY <3>1, FewElements
    <3> QED
      BY <2>1, <3>1, <3>2 DEF FewRequests, Requests
  <2>4. ASSUME NEW s \in Armed, NEW t \in Armed, s # t PROVE FewRequests
    <3>1. Armed = {s, t} /\ Requests = 0
      BY <1>1, <2>1, <2>4 DEF RequestInv, TokenInv, TwoTokens
    <3>2. Cardinality(Armed) \in {1, 2}
      BY <3>1, FewElements
    <3> QED
      BY <3>1, <3>2 DEF FewRequests, Requests
  <2> QED
    BY <2>2, <2>3, <2>4
<1> QED
  BY <1>1, RequestInvariant, PTL

\* Type correctness of the daemon and its client (na-application.c,
\* usage-network-view.vala), with the two requests that can be under way.
THEOREM ServiceTyped == Spec => []TypeOK
<1>1. ASSUME RequestInv PROVE TypeOK
  <2>1. Requests <= 2 /\ asked \in Nat /\ awaited \in Nat /\ ready \in Nat
    BY <1>1 DEF RequestInv, Typed, TokenInv, TwoTokens
  <2>2. {asked, awaited, ready} \subseteq 0 .. 2
    BY <2>1 DEF Requests
  <2>3. Cardinality(current) <= 1
    <3>1. CASE current = {}
      BY <3>1, FewElements
    <3>2. ASSUME NEW s \in current PROVE Cardinality(current) = 1
      <4>1. current = {s}
        BY <1>1 DEF RequestInv, Typed
      <4> QED
        BY <4>1, FewElements
    <3> QED
      BY <3>1, <3>2
  <2>4. quit \in 0 .. QUIT_TIMEOUT_DURATION /\ crashes \in 0 .. MaxCrashes
    BY <1>1, ServiceAssumption DEF RequestInv, Typed, Bounded
  <2>5. rows \in BOOLEAN /\ open \in BOOLEAN
    BY <1>1 DEF RequestInv, Bounded
  <2> QED
    BY <1>1, <2>2, <2>3, <2>4, <2>5 DEF TypeOK, RequestInv, Typed
<1> QED
  BY <1>1, RequestInvariant, PTL

\* Three handlers are as good as any number: a proxy that arrives always finds one
\* with no timeout, so that connect_network_analyzer_signal() never waits for one, as
\* it would in the model and not in the program.
THEOREM HandlerIsFree ==
  ASSUME NEW h \in Subscription, NEW i \in Subscription, NEW j \in Subscription,
         h # i, i # j, h # j
  PROVE  Spec => [](ready > 0 => \E s \in Subscription \ current : watchdog[s] = Off)
<1>1. ASSUME RequestInv, ready > 0
      PROVE  \E s \in Subscription \ current : watchdog[s] = Off
  <2>1. /\ Requests \in {1, 2}
        /\ \A s, t \in current : s = t
    BY <1>1 DEF RequestInv, Typed, TokenInv, TwoTokens, Requests
  <2>2. \A s, t \in Armed : s = t
    BY <1>1, <2>1 DEF RequestInv, TokenInv, TwoTokens
  <2>3. PICK s \in {h, i, j} : s \notin current /\ s \notin Armed
    BY <2>1, <2>2
  <2> QED
    BY <2>3 DEF Armed
<1> QED
  BY <1>1, RequestInvariant, PTL

=============================================================================
