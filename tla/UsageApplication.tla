--------------------------- MODULE UsageApplication --------------------------
(***************************************************************************)
(* The main loop of the application: the timeouts of the system monitor    *)
(* and of the CPU view (src/usage-system-monitor.vala,                     *)
(* src/usage-cpu-view.vala; the memory view is alike), and the clicks of   *)
(* the user on the storage view.  The loop handles one at a time, and the  *)
(* kernel goes on meanwhile.                                               *)
(*                                                                         *)
(* Time goes by in quarters of a second.  A timeout of whole seconds       *)
(* (g_timeout_add_seconds) is aligned with the others: the first one comes *)
(* between 0.75 and 1.75 seconds after it was added, the next ones each    *)
(* second.                                                                 *)
(***************************************************************************)
EXTENDS SystemMonitor, StorageList, SequencesExt

CONSTANTS
  UPDATE_INTERVAL,    \* that of the monitor, in quarters of a second
  StartTime,          \* the quarters from the monitor's making to the views'
  MAX_NUM_ELEMENTS,   \* the rows of a view
  SCALE,              \* the sort number of a load of one, 1000
  INT_MAX,            \* the largest int, 2^31 - 1
  OUT_OF_RANGE        \* what the build converts a double beyond it to

ASSUME ApplicationAssumption ==
  /\ UPDATE_INTERVAL \in Nat \ {0}
  /\ StartTime \in 0 .. UPDATE_INTERVAL
  /\ MAX_NUM_ELEMENTS \in Nat \ {0}
  /\ SCALE \in Nat /\ INT_MAX \in Nat
  /\ OUT_OF_RANGE \in - INT_MAX - 1 .. INT_MAX

VARIABLES
  monitorIn,   \* quarters left to the timeout of the monitor
  viewIn,      \* quarters left to the timeout of the CPU view
  proc_list,   \* the pids in the list of the CPU view
  crashed      \* a row was taken beyond the end of a list: the application ended

vars == <<systemVars, storageVars, monitorIn, viewIn, proc_list, crashed>>

TypeOK ==
  /\ MonitorTypeOK /\ StorageTypeOK
  /\ monitorIn \in 0 .. UPDATE_INTERVAL /\ viewIn \in 0 .. 6
  /\ proc_list \in Seq(Pid) /\ Len(proc_list) <= MAX_NUM_ELEMENTS
  /\ crashed \in BOOLEAN

\* What is left of the first interval of the monitor when the views are made.
FirstUpdate == UPDATE_INTERVAL - StartTime

Init ==
  /\ MonitorInit /\ StorageInit
  /\ monitorIn = FirstUpdate /\ viewIn \in 3 .. 6
  /\ proc_list = <<>> /\ crashed = FALSE

-----------------------------------------------------------------------------
(* The monitor.                                                            *)

BeginUpdate ==
  /\ ~ crashed /\ monitorIn = 0
  /\ get_proclist
  /\ UNCHANGED <<storageVars, monitorIn, viewIn, proc_list, crashed>>

ReadProcess ==
  /\ \E p \in Pid : AddRow(p) \/ UpdateRow(p)
  /\ UNCHANGED <<storageVars, monitorIn, viewIn, proc_list, crashed>>

EndUpdate ==
  /\ RemoveRows
  /\ monitorIn' = UPDATE_INTERVAL
  /\ UNCHANGED <<storageVars, viewIn, proc_list, crashed>>

-----------------------------------------------------------------------------
(* The CPU view.                                                           *)

\* Mutation: the load is made an int before it is multiplied.
SortIdOfWhole(load) == SCALE * (load \div total)

\* (int) (1000 * cpu_load): loads of the same thousandth are the same.  What the
\* conversion makes of a double out of range is not defined; x86 makes it the least
\* int, other processors the largest.
SortId(load) ==
  LET n == (SCALE * load) \div total
  IN  IF n > INT_MAX THEN OUT_OF_RANGE ELSE n

\* An int after a subtraction.
Int32(n) == ((n + INT_MAX + 1) % (2 * (INT_MAX + 1))) - (INT_MAX + 1)

compare(p, q) ==
  Int32(SortId(process_table[q].load) - SortId(process_table[p].load))

\* g_list_insert_sorted(): before the first that is not less.
insert_sorted(p, list) ==
  InsertAt(list, Min({i \in DOMAIN list : compare(p, list[i]) <= 0}
                     \cup {Len(list) + 1}), p)

\* The processes come out of the hash table in any order.
WidgetLists ==
  {FoldLeft(LAMBDA list, p : insert_sorted(p, list), <<>>, order) :
     order \in SetToSeqs(DOMAIN process_table)}

\* Mutation: all rows are taken.
show_all_rows ==
  /\ ~ crashed /\ ~ updating /\ monitorIn # 0 /\ viewIn = 0
  /\ viewIn' = 4
  /\ \E widgets \in WidgetLists : proc_list' = widgets
  /\ UNCHANGED <<systemVars, storageVars, monitorIn, crashed>>

\* Mutation: one row more is taken.
take_one_more ==
  /\ ~ crashed /\ ~ updating /\ monitorIn # 0 /\ viewIn = 0
  /\ viewIn' = 4
  /\ \E widgets \in WidgetLists :
       /\ proc_list' = SubSeq(widgets, 1, Min({MAX_NUM_ELEMENTS, Len(widgets)}))
       /\ crashed' = (Len(widgets) <= MAX_NUM_ELEMENTS)
  /\ UNCHANGED <<systemVars, storageVars, monitorIn>>

\* The first MAX_NUM_ELEMENTS rows are taken, there or not: data of the end of the
\* list, which is null, is no row.
update_cpu_view ==
  /\ ~ crashed /\ ~ updating /\ monitorIn # 0 /\ viewIn = 0
  /\ viewIn' = 4
  /\ \E widgets \in WidgetLists :
       /\ proc_list' = SubSeq(widgets, 1, Min({MAX_NUM_ELEMENTS, Len(widgets)}))
       /\ crashed' = (Len(widgets) < MAX_NUM_ELEMENTS)
  /\ UNCHANGED <<systemVars, storageVars, monitorIn>>

-----------------------------------------------------------------------------

\* The time goes by up to the next timeout.
Tick ==
  /\ ~ crashed /\ ~ updating
  /\ LET quarters == Min({monitorIn, viewIn})
     IN  /\ quarters > 0
         /\ monitorIn' = monitorIn - quarters /\ viewIn' = viewIn - quarters
  /\ UNCHANGED <<systemVars, storageVars, proc_list, crashed>>

Kernel == KernelNext /\ UNCHANGED <<storageVars, monitorIn, viewIn, proc_list, crashed>>

User ==
  /\ ~ crashed /\ ~ updating
  /\ StorageNext
  /\ UNCHANGED <<systemVars, monitorIn, viewIn, proc_list, crashed>>

\* The application has ended.
Ended == crashed /\ UNCHANGED vars

Next ==
  \/ Kernel
  \/ User
  \/ BeginUpdate \/ ReadProcess \/ EndUpdate
  \/ update_cpu_view
  \/ Tick
  \/ Ended

Spec == Init /\ [][Next]_vars

-----------------------------------------------------------------------------
(* Properties.                                                             *)

\* What the view shows is "the current resource usage of the system" (README:4): it
\* never takes a row that is not there, which ends the application.
RowsAreThere == ~ crashed

\* The view ends the application only before the monitor's first update, or when the
\* user had fewer processes than a view has rows when their list was read: a row of
\* the list is not lost while processes start and exit during the update, and the
\* table is whole when the view takes its rows.
RowsOfTheListAreThere == crashed => Cardinality(proclist) < MAX_NUM_ELEMENTS

\* The load of p is higher than that of q by more than a thousandth of the machine.
Busier(p, q) ==
  SCALE * process_table[p].load > SCALE * process_table[q].load + total

\* The view shows the busiest processes, the busiest first, as far as a thousandth
\* of the machine tells them apart, unless a load is of a process that was gone when
\* it was read and has wrapped round.
BusiestShown ==
  viewIn' > viewIn =>
    \/ \E p \in DOMAIN process_table : process_table[p].load > MaxJiffies
    \/ /\ \A i, j \in DOMAIN proc_list' :
            i < j => /\ proc_list'[i] # proc_list'[j]
                     /\ ~ Busier(proc_list'[j], proc_list'[i])
       /\ \A i \in DOMAIN proc_list', p \in DOMAIN process_table :
            Busier(p, proc_list'[i]) => p \in Range(proc_list')
CPUViewShowsTheBusiest == [][BusiestShown]_vars

=============================================================================
