---------------------------- MODULE NetworkUsage ----------------------------
(***************************************************************************)
(* From the packet to the list on the screen: the accounting of the        *)
(* network analyzer, the signal each refresh emits (do_refresh() in        *)
(* na-application.c), and the network view that shows it                   *)
(* (src/usage-network-view.vala).                                          *)
(*                                                                         *)
(* The daemon is up and the view is connected to it; how they get there    *)
(* and stay there is in UsageService.  The bus keeps signals in order.     *)
(***************************************************************************)
EXTENDS AnalyzerMeter, NetworkList, Sequences

CONSTANT MaxSignals   \* bound: the signals on their way to the view

ASSUME UsageAssumption == MaxSignals \in Nat \ {0}

VARIABLES
  signals,    \* UsageChanged signals emitted and not handled by the view yet
  rows        \* the rows of the list box, {} before the first signal

usageVars == <<vars, signals, rows>>

-----------------------------------------------------------------------------

\* Mutation: the signal carries the report made before.
refresh_late ==
  /\ do_refresh
  /\ Len(signals) < MaxSignals
  /\ signals' = IF report' = <<>> THEN signals ELSE Append(signals, report)
  /\ UNCHANGED rows

\* do_refresh(): a report without rows returns early, and no signal is sent.
RefreshAndEmit ==
  /\ do_refresh
  /\ Len(signals) < MaxSignals
  /\ signals' = IF report' = <<>> THEN signals ELSE Append(signals, report')
  /\ UNCHANGED rows

\* The handler of the signal makes the rows anew.
usage_changed ==
  /\ signals # <<>>
  /\ rows' = RowsOf(Head(signals))
  /\ signals' = Tail(signals)
  /\ UNCHANGED vars

-----------------------------------------------------------------------------

UsageInit == Init /\ signals = <<>> /\ rows = {}

UsageNext ==
  \/ (\E i \in Iface : Capture(i)) /\ UNCHANGED <<signals, rows>>
  \/ Tick /\ UNCHANGED <<signals, rows>>
  \/ push_packet /\ UNCHANGED <<signals, rows>>
  \/ DispatchDone /\ UNCHANGED <<signals, rows>>
  \/ RefreshAndEmit
  \/ usage_changed

UsageSpec == UsageInit /\ [][UsageNext]_usageVars

-----------------------------------------------------------------------------
(* Properties.                                                             *)

\* The list box shows the header first and the totals last, the row of nobody's
\* traffic before them, and the processes by what they receive: no difference of
\* two sort numbers is beyond the range of int, though the largest, from the
\* header to the totals, is at its end (usage-network-view.vala).
InOrder(list) ==
  \A a, b \in list :
    /\ a.kind = "header" /\ b # a => compare(a, b) < 0
    /\ b.kind = "total" /\ b # a => compare(a, b) < 0
    /\ a.kind = "process" /\ b.kind = "unknown" => compare(a, b) < 0
    /\ a.kind = "process" /\ b.kind = "process" /\ SortId(a.recv) > SortId(b.recv)
         => compare(a, b) < 0
RowsInOrder == InOrder(rows)

\* When every signal has been handled the list says what the traffic meter last
\* reported: for each owner the bytes of its row, or none and no row, and in the
\* totals those of all.  That is so too when the last report was empty and no
\* signal was sent for it (the early return of do_refresh()), because the report
\* before was already one of zeros.
ShownOf(o, d) ==
  SumFunction([r \in {x \in rows : x.pid = o /\ x.kind \in {"process", "unknown"}} |->
                 r[d]]) % U32
ListShowsTheReport ==
  signals = <<>> =>
    \A d \in Direction :
      /\ \A o \in Owner : ShownOf(o, d) = ReportedBytes(o, d)
      /\ \A r \in rows : r.kind = "total" =>
           r[d] % U32 = SumFunction([o \in Owner |-> ReportedBytes(o, d)]) % U32

=============================================================================
