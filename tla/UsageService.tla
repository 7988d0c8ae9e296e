---------------------------- MODULE UsageService ----------------------------
(***************************************************************************)
(* The life of the network analyzer daemon and of its client, the network  *)
(* view (network-analyzer/na-application.c, src/usage-network-view.vala).  *)
(*                                                                         *)
(* The daemon is started by the bus when a client asks for its name.  Each *)
(* second it sends UsageChanged, when it has anything to report, and it    *)
(* quits when no client has called Acknowledge for some seconds.  The      *)
(* client acknowledges each signal and, when none follows, asks for a new  *)
(* proxy, which starts the daemon again if it is gone.                     *)
(*                                                                         *)
(* Time goes by in whole seconds.  A timer holds the seconds it has left,  *)
(* and a second does not go by while a timer that is due, or a message,    *)
(* waits to be handled: the two main loops and the bus keep up.  Starting  *)
(* the daemon takes up to MaxStart seconds.                                *)
(***************************************************************************)
EXTENDS Integers, FiniteSets

CONSTANTS
  QUIT_TIMEOUT_DURATION, DEFAULT_REFRESH_DELAY, NETWORK_ANALYZER_TIMEOUT,
  Subscription,    \* the handlers connect_network_analyzer_signal() connects
  MaxStart,        \* the seconds that get_devices() may take
  MaxCrashes       \* bound: how often the daemon is killed

ASSUME ServiceAssumption ==
  /\ QUIT_TIMEOUT_DURATION \in Nat \ {0}
  /\ DEFAULT_REFRESH_DELAY \in Nat \ {0}
  /\ NETWORK_ANALYZER_TIMEOUT \in Nat \ {0}
  /\ MaxStart \in 0 .. QUIT_TIMEOUT_DURATION
  /\ MaxCrashes \in Nat

VARIABLES
  daemon,     \* "down", "starting" up to the main loop, "owning" while it waits
              \* for its name, or "running"
  quit,       \* seconds left of the quit timeout
  refresh,    \* seconds left to the next refresh
  rows,       \* the process list is not empty
  traffic,    \* packets of this host on the network: none ("idle"), some ("busy"),
              \* or always some ("steady")
  crashes,    \* how often the daemon was killed
  signal,     \* a UsageChanged on its way: "none", "live", or "dead" when the
              \* daemon that sent it is gone
  open,       \* the application runs
  asked,      \* calls of Bus.get_proxy the bus has not handled yet
  awaited,    \* those that wait for the daemon to own its name
  ready,      \* those that are answered, but have not returned in the client
  current,    \* the handler of the proxy in use, a set of at most one
  watchdog,   \* network_analyzer_timeout_id of each handler: seconds left, or Off
  waiting     \* the client waits for the reply to Acknowledge

daemonVars == <<daemon, quit, refresh, rows, crashes>>
busVars == <<asked, awaited, ready>>
clientVars == <<open, current, watchdog, waiting>>
vars == <<daemonVars, traffic, signal, busVars, clientVars>>

Off == -1

TypeOK ==
  /\ daemon \in {"down", "starting", "owning", "running"}
  /\ quit \in 0 .. QUIT_TIMEOUT_DURATION
  /\ refresh \in 0 .. DEFAULT_REFRESH_DELAY
  /\ rows \in BOOLEAN /\ crashes \in 0 .. MaxCrashes
  /\ traffic \in {"idle", "busy", "steady"}
  /\ signal \in {"none", "live", "dead"}
  /\ open \in BOOLEAN /\ waiting \in BOOLEAN
  /\ {asked, awaited, ready} \subseteq 0 .. 2
  /\ current \in SUBSET Subscription /\ Cardinality(current) <= 1
  /\ watchdog \in [Subscription -> Off .. NETWORK_ANALYZER_TIMEOUT]

Init ==
  /\ daemon = "down" /\ quit = 0 /\ refresh = 0 /\ rows = FALSE /\ crashes = 0
  /\ traffic \in {"idle", "busy", "steady"}
  /\ signal = "none"
  /\ open = TRUE /\ asked = 1 /\ awaited = 0 /\ ready = 0
  /\ current = {} /\ watchdog = [s \in Subscription |-> Off] /\ waiting = FALSE

-----------------------------------------------------------------------------
(* The daemon.                                                             *)

\* The bus starts the daemon for a client that asks for its name, unless it runs.
\* The quit timeout is armed first of all, in na_application_init().
StartServiceByName ==
  /\ asked > 0 /\ asked' = asked - 1
  /\ IF daemon = "running"
     THEN ready' = ready + 1 /\ UNCHANGED awaited
     ELSE awaited' = awaited + 1 /\ UNCHANGED ready
  /\ IF daemon = "down"
     THEN daemon' = "starting" /\ quit' = QUIT_TIMEOUT_DURATION
     ELSE UNCHANGED <<daemon, quit>>
  /\ UNCHANGED <<refresh, rows, crashes, traffic, signal, clientVars>>

\* get_devices() is done, g_bus_own_name() was called, the main loop starts.
na_application_activate ==
  /\ daemon = "starting"
  /\ daemon' = "owning"
  /\ UNCHANGED <<quit, refresh, rows, crashes, traffic, signal, busVars, clientVars>>

on_name_acquired ==
  /\ daemon = "owning"
  /\ daemon' = "running" /\ refresh' = DEFAULT_REFRESH_DELAY
  /\ ready' = ready + awaited /\ awaited' = 0
  /\ UNCHANGED <<quit, rows, crashes, traffic, signal, asked, clientVars>>

\* Mutation: each refresh puts the quit timeout off.
refresh_and_stay ==
  /\ daemon = "running" /\ refresh = 0 /\ signal = "none"
  /\ refresh' = DEFAULT_REFRESH_DELAY /\ quit' = QUIT_TIMEOUT_DURATION
  /\ rows' \in IF traffic = "idle" THEN {rows, FALSE} ELSE {TRUE}
  /\ signal' = IF rows' /\ current # {} THEN "live" ELSE "none"
  /\ UNCHANGED <<daemon, crashes, traffic, busVars, clientVars>>

\* main_loop_cb(): captured packets make rows, and the rows of an idle network
\* time out at some refresh.  Without rows do_refresh() sends no signal.
main_loop_cb ==
  /\ daemon = "running" /\ refresh = 0 /\ signal = "none"
  /\ refresh' = DEFAULT_REFRESH_DELAY
  /\ rows' \in IF traffic = "idle" THEN {rows, FALSE} ELSE {TRUE}
  /\ signal' = IF rows' /\ current # {} THEN "live" ELSE "none"
  /\ UNCHANGED <<daemon, quit, crashes, traffic, busVars, clientVars>>

\* The daemon is gone.  Who waits for a reply gets an error, and so does who waits
\* for a daemon that never came to own its name.
Gone ==
  /\ daemon' = "down" /\ quit' = 0 /\ refresh' = 0 /\ rows' = FALSE
  /\ signal' = IF signal = "live" THEN "dead" ELSE signal
  /\ waiting' = FALSE
  /\ awaited' = 0
  /\ UNCHANGED <<traffic, asked, ready, open, current, watchdog>>

quit_timeout_cb ==
  /\ daemon \in {"owning", "running"} /\ quit = 0
  /\ Gone
  /\ UNCHANGED crashes

\* Mutation: Acknowledge is answered, and the quit timeout stays as it was.
answer_only ==
  /\ daemon = "running" /\ waiting
  /\ waiting' = FALSE
  /\ UNCHANGED <<daemonVars, traffic, signal, busVars, open, current, watchdog>>

\* handle_method_call() of Acknowledge
handle_method_call ==
  /\ daemon = "running" /\ waiting
  /\ quit' = QUIT_TIMEOUT_DURATION
  /\ waiting' = FALSE
  /\ UNCHANGED <<daemon, refresh, rows, crashes, traffic, signal, busVars,
                 open, current, watchdog>>

Crash ==
  /\ daemon # "down" /\ crashes < MaxCrashes
  /\ crashes' = crashes + 1
  /\ Gone

-----------------------------------------------------------------------------
(* The client.                                                             *)

\* Bus.get_proxy returns: connect_network_analyzer_signal() connects a new handler,
\* with no timeout yet, and drops the proxy before it along with its handler.  A
\* timeout of the old handler that is armed remains so.  The daemon may be gone
\* again by now, and then there is a proxy no signal will come from.
connect_network_analyzer_signal ==
  /\ ready > 0 /\ ~ waiting
  /\ ready' = ready - 1
  /\ current' \in IF open
                  THEN {{s} : s \in {u \in Subscription \ current : watchdog[u] = Off}}
                  ELSE {{}}
  /\ UNCHANGED <<daemonVars, traffic, signal, asked, awaited, open, watchdog, waiting>>

\* The usage_changed handler: rearm the timeout, call Acknowledge and wait for the
\* reply.  The call fails at once when the daemon that sent the signal is gone.
usage_changed ==
  /\ signal # "none" /\ ~ waiting
  /\ signal' = "none"
  /\ watchdog' = [s \in Subscription |->
                    IF s \in current THEN NETWORK_ANALYZER_TIMEOUT ELSE watchdog[s]]
  /\ waiting' = (current # {} /\ signal = "live")
  /\ UNCHANGED <<daemonVars, traffic, busVars, open, current>>

\* Mutation: the timeout does not ask for a proxy.
timeout_ignored(s) ==
  /\ watchdog[s] = 0 /\ ~ waiting
  /\ watchdog' = [watchdog EXCEPT ![s] = Off]
  /\ UNCHANGED <<daemonVars, traffic, signal, busVars, open, current, waiting>>

\* Mutation: the timeout callback returns true, and is called again.
timeout_repeated(s) ==
  /\ watchdog[s] = 0 /\ ~ waiting
  /\ watchdog' = [watchdog EXCEPT ![s] = NETWORK_ANALYZER_TIMEOUT]
  /\ asked' = asked + 1
  /\ UNCHANGED <<daemonVars, traffic, signal, awaited, ready, open, current, waiting>>

\* The timeout of a handler, of the proxy in use or of one dropped since then.
start_network_analyzer(s) ==
  /\ watchdog[s] = 0 /\ ~ waiting
  /\ watchdog' = [watchdog EXCEPT ![s] = Off]
  /\ asked' = asked + 1
  /\ UNCHANGED <<daemonVars, traffic, signal, awaited, ready, open, current, waiting>>

Close ==
  /\ open /\ open' = FALSE
  /\ current' = {} /\ watchdog' = [s \in Subscription |-> Off]
  /\ signal' = "none" /\ waiting' = FALSE
  /\ UNCHANGED <<daemonVars, traffic, busVars>>

-----------------------------------------------------------------------------
(* The network and the time.                                               *)

ChangeTraffic ==
  /\ traffic # "steady"
  /\ traffic' \in {"idle", "busy"} \ {traffic}
  /\ UNCHANGED <<daemonVars, signal, busVars, clientVars>>

Less(seconds) == IF seconds > 0 THEN seconds - 1 ELSE seconds

Tick ==
  /\ signal = "none" /\ ~ waiting
  /\ \A s \in Subscription : watchdog[s] # 0
  /\ asked = 0 /\ ready = 0
  /\ daemon = "starting" => quit > QUIT_TIMEOUT_DURATION - MaxStart
  /\ daemon # "owning"
  /\ daemon = "running" => quit > 0 /\ refresh > 0
  /\ quit' = Less(quit)
  /\ refresh' = Less(refresh)
  /\ watchdog' = [s \in Subscription |-> Less(watchdog[s])]
  /\ UNCHANGED <<daemon, rows, crashes, traffic, signal, busVars, open, current, waiting>>

-----------------------------------------------------------------------------

Next ==
  \/ StartServiceByName
  \/ na_application_activate
  \/ on_name_acquired
  \/ main_loop_cb
  \/ quit_timeout_cb
  \/ handle_method_call
  \/ Crash
  \/ connect_network_analyzer_signal
  \/ usage_changed
  \/ \E s \in Subscription : start_network_analyzer(s)
  \/ Close
  \/ ChangeTraffic
  \/ Tick

\* The bus, the two main loops and the time go on; nothing makes the user close
\* the application, the network change or the daemon crash.
Fairness ==
  /\ WF_vars(StartServiceByName)
  /\ WF_vars(na_application_activate)
  /\ WF_vars(on_name_acquired)
  /\ WF_vars(main_loop_cb)
  /\ WF_vars(quit_timeout_cb)
  /\ WF_vars(handle_method_call)
  /\ WF_vars(connect_network_analyzer_signal)
  /\ WF_vars(usage_changed)
  /\ \A s \in Subscription : WF_vars(start_network_analyzer(s))
  /\ WF_vars(Tick)

Spec == Init /\ [][Next]_vars /\ Fairness

-----------------------------------------------------------------------------
(* Properties.                                                             *)

Armed == {s \in Subscription : watchdog[s] # Off}

\* Once the application is closed the daemon, which runs as root, quits and stays
\* away, even when the application asked for it just before.
QuitsWhenUnused == ~ open ~> [](daemon = "down")

\* A client that has heard from the daemon, on a network that is never idle, hears
\* from it again, although the daemon may be killed in between: the timeout brings
\* it back.
HearsAgain ==
  (traffic = "steady" /\ open /\ Armed # {} /\ ~ waiting) ~> (waiting \/ ~ open)

\* On a network that is never idle the daemon does not quit while there is a client
\* that has heard from it.
StaysWithClient ==
  [][traffic = "steady" /\ daemon # "down" /\ daemon' = "down" /\ crashes' = crashes
       => Armed = {}]_vars

\* One timeout at a time watches the daemon, when the network is never idle: no
\* proxy is asked for on behalf of a handler that is not in use any more.
OneWatchdog == traffic = "steady" => Armed \subseteq current

\* A handler dropped along with its proxy keeps its timeout, which asks for a proxy
\* once more, as does that of the handler in use: even so no more than two requests
\* and timeouts go round at a time, whatever the network does, and however often the
\* daemon goes and is started again.
FewRequests == asked + awaited + ready + Cardinality(Armed) <= 2

\* README: the application "can show the current resource usage of the system".
\* While packets keep coming, the view keeps being updated.
ViewKeepsUp == []<>(traffic = "idle") \/ []<>(~ open) \/ []<>waiting

=============================================================================
