-------------------------- MODULE ApplicationProofs --------------------------
(***************************************************************************)
(* Theorems about the application: its storage view, for any tree of rows; *)
(* its table of processes, for any number of processes that start and exit *)
(* while the table is brought up to date; and the list the CPU view sorts  *)
(* and takes its rows from.                                                *)
(***************************************************************************)
EXTENDS UsageApplication, FoldProofs

\* What the application does to the table of processes.
MonitorStep ==
  \/ KernelNext
  \/ get_proclist
  \/ \E p \in Pid : AddRow(p) \/ UpdateRow(p)
  \/ RemoveRows

\* The monitor and the storage view share nothing: a step of the application is a
\* step of each of them, or leaves it alone.
LEMMA StepIsStepOfEach ==
  ASSUME [Next]_vars
  PROVE  [MonitorStep]_systemVars /\ [StorageNext]_storageVars
  BY DEF Next, vars, Kernel, User, BeginUpdate, ReadProcess, EndUpdate,
         update_cpu_view, Tick, Ended, MonitorStep

-----------------------------------------------------------------------------
(* The storage view.                                                       *)

StorageInv == StorageTypeOK /\ ListShowsThePath /\ HeaderShowsThePath

LEMMA UpIsPath ==
  ASSUME NEW path \in Path
  PROVE  up(path) \in Path
  BY DEF up, Path

LEMMA StorageStart == StorageInit => StorageInv
<1> SUFFICES ASSUME StorageInit PROVE StorageInv
  OBVIOUS
<1>1. <<0>> \in Tree /\ <<0>> \in Path /\ Len(<<0>>) = 1 /\ <<>> \in Path
  BY StorageAssumption DEF Path
<1>2. ChildrenOf(<<0>>) \subseteq Tree
  BY DEF ChildrenOf
<1>3. /\ root_path = <<0>> /\ listed = ChildrenOf(<<0>>)
      /\ title = <<>> /\ back_button = FALSE /\ visible \in {"storage", "other"}
  BY DEF StorageInit
<1>4. StorageTypeOK
  BY <1>1, <1>2, <1>3 DEF StorageTypeOK
<1>5. ListShowsThePath
  BY <1>1, <1>3 DEF ListShowsThePath
<1>6. HeaderShowsThePath
  BY <1>1, <1>3 DEF HeaderShowsThePath
<1> QED
  BY <1>4, <1>5, <1>6 DEF StorageInv

LEMMA StorageStep ==
  ASSUME StorageInv, [StorageNext]_storageVars
  PROVE  StorageInv'
<1>0. /\ root_path \in Tree /\ root_path \in Path /\ listed = ChildrenOf(root_path)
      /\ \A path : ChildrenOf(path) \subseteq Tree
  BY DEF StorageInv, StorageTypeOK, ListShowsThePath, ChildrenOf
<1>a. ASSUME root_path' \in Tree, update, update_mode, visible = "storage",
             visible' = visible
      PROVE  StorageInv'
  <2>1. root_path' \in Path /\ <<>> \in Path /\ listed' = ChildrenOf(root_path')
    BY <1>a, StorageAssumption DEF update, Path
  <2> QED
    BY <1>0, <1>a, <2>1
       DEF update_mode, StorageInv, StorageTypeOK, ListShowsThePath, HeaderShowsThePath
<1>1. ASSUME NEW row \in listed, row_activated(row) PROVE StorageInv'
  BY <1>0, <1>a, <1>1 DEF row_activated
<1>2. CASE go_back
  <2>1. visible = "storage" /\ Len(root_path) > 1
    BY <1>2 DEF go_back, StorageInv, HeaderShowsThePath
  <2>2. up(root_path) \in Tree
    BY <1>0, <2>1, StorageAssumption
  <2> QED
    BY <1>a, <1>2, <2>1, <2>2 DEF go_back
<1>3. CASE SwitchView
  <2>1. ~ back_button
    <3>1. back_button => Len(root_path) > 1 /\ title = root_path
      BY DEF StorageInv, HeaderShowsThePath
    <3> QED
      BY <1>0, <1>3, <3>1 DEF SwitchView, Path
  <2> QED
    BY <1>3, <2>1 DEF SwitchView, StorageInv, StorageTypeOK, ListShowsThePath,
                      HeaderShowsThePath, ChildrenOf
<1>4. CASE UNCHANGED storageVars
  BY <1>4 DEF storageVars, StorageInv, StorageTypeOK, ListShowsThePath,
              HeaderShowsThePath, ChildrenOf
<1> QED
  BY <1>1, <1>2, <1>3, <1>4 DEF StorageNext

LEMMA StorageInvariant == Spec => []StorageInv
<1>1. Init => StorageInv
  BY StorageStart DEF Init
<1>2. StorageInv /\ [Next]_vars => StorageInv'
  BY StorageStep, StepIsStepOfEach
<1> QED
  BY <1>1, <1>2, PTL DEF Spec

\* However the user goes to and fro in a tree of any depth, the list shows the
\* children of a row of the tree (StorageList.update()).
THEOREM NavigationStaysInTree == Spec => []ListShowsThePath
  BY StorageInvariant, PTL DEF StorageInv

\* The header bar agrees with the list (update_mode() and the window).
THEOREM HeaderFollowsList == Spec => []HeaderShowsThePath
  BY StorageInvariant, PTL DEF StorageInv

-----------------------------------------------------------------------------
(* The table of processes: its type, and that of the history beside it.    *)

HistoryTypeOK ==
  /\ \A p \in DOMAIN running : running[p].number <= started /\ running[p].rtime <= used
  /\ base \in [DOMAIN process_table -> [number : Nat, rtime : Nat]]
  /\ \A p \in DOMAIN process_table : base[p].number <= started
  /\ counted \in [DOMAIN process_table -> Nat]

TableTypeOK == MonitorTypeOK /\ HistoryTypeOK

LEMMA TableTypeStart == MonitorInit => TableTypeOK
<1> SUFFICES ASSUME MonitorInit PROVE TableTypeOK
  OBVIOUS
<1>1. PICK P \in SUBSET Pid :
        running \in {f \in [P -> [number : 1 .. MinProcs, rtime : {0}]] :
                       \A p, q \in P : f[p] = f[q] => p = q}
  BY DEF MonitorInit
<1>2. running \in [P -> [number : 1 .. MinProcs, rtime : {0}]]
  BY <1>1
<1>3. DOMAIN running = P
      /\ \A p \in P : running[p] \in [number : 1 .. MinProcs, rtime : {0}]
  BY <1>2
<1>4. \A p \in P : /\ running[p] \in [number : 1 .. MaxStarts, rtime : 0 .. MaxJiffies]
                   /\ running[p].number <= started /\ running[p].rtime <= used
  BY <1>3, MonitorAssumption DEF MonitorInit
<1>5. running \in [DOMAIN running -> [number : 1 .. MaxStarts, rtime : 0 .. MaxJiffies]]
  BY <1>2, <1>3, <1>4
<1>6. DOMAIN process_table = {} /\ DOMAIN base = {} /\ DOMAIN counted = {}
  BY DEF MonitorInit
<1>7. MonitorTypeOK
  <2>1. started \in 0 .. MaxStarts /\ used \in 0 .. MaxJiffies
    BY MonitorAssumption DEF MonitorInit
  <2>2. process_table \in [DOMAIN process_table -> Row]
    BY DEF MonitorInit
  <2>3. updating \in BOOLEAN /\ pids \cup proclist \subseteq Pid /\ total \in Totals
    BY DEF MonitorInit
  <2> QED
    BY <1>3, <1>5, <1>6, <2>1, <2>2, <2>3 DEF MonitorTypeOK
<1>8. HistoryTypeOK
  BY <1>3, <1>4, <1>6 DEF MonitorInit, HistoryTypeOK
<1> QED
  BY <1>7, <1>8 DEF TableTypeOK

LEMMA RunningTypeStep ==
  ASSUME TableTypeOK, KernelNext
  PROVE  /\ DOMAIN running' \subseteq Pid
         /\ running' \in [DOMAIN running' -> [number : 1 .. MaxStarts, rtime : 0 .. MaxJiffies]]
         /\ started' \in 0 .. MaxStarts /\ used' \in 0 .. MaxJiffies
         /\ started <= started' /\ UNCHANGED monitorVars
         /\ \A p \in DOMAIN running' :
              running'[p].number <= started' /\ running'[p].rtime <= used'
<1> DEFINE R == [number : 1 .. MaxStarts, rtime : 0 .. MaxJiffies]
<1>0. /\ DOMAIN running \subseteq Pid /\ running \in [DOMAIN running -> R]
      /\ started \in 0 .. MaxStarts /\ used \in 0 .. MaxJiffies
      /\ \A p \in DOMAIN running : running[p].number <= started /\ running[p].rtime <= used
      /\ MaxStarts \in Nat /\ MaxJiffies \in Nat
  BY MonitorAssumption DEF TableTypeOK, MonitorTypeOK, HistoryTypeOK
<1>1. PICK p \in Pid : Start(p) \/ Exit(p) \/ Work(p)
  BY DEF KernelNext
<1>2. CASE Start(p)
  <2> DEFINE new == [number |-> started', rtime |-> 0]
  <2>1. /\ started' = started + 1 /\ started' \in 1 .. MaxStarts /\ used' = used
        /\ UNCHANGED monitorVars /\ running' = With(running, p, new)
    BY <1>0, <1>2 DEF Start
  <2>2. new \in R
    BY <1>0, <2>1
  <2>3. /\ DOMAIN running' = DOMAIN running \cup {p}
        /\ \A q \in DOMAIN running' :
             running'[q] = IF q = p THEN new ELSE running[q]
        /\ running' \in [DOMAIN running' -> R]
    BY <1>0, <2>1, <2>2 DEF With
  <2>4. \A q \in DOMAIN running' : running'[q].number <= started' /\ running'[q].rtime <= used'
    <3> SUFFICES ASSUME NEW q \in DOMAIN running'
                 PROVE  running'[q].number <= started' /\ running'[q].rtime <= used'
      OBVIOUS
    <3>1. CASE q = p
      BY <1>0, <2>1, <2>3, <3>1
    <3>2. CASE q # p
      <4>1. q \in DOMAIN running /\ running'[q] = running[q] /\ running[q] \in R
        BY <1>0, <2>3, <3>2
      <4> QED
        BY <1>0, <2>1, <4>1
    <3> QED
      BY <3>1, <3>2
  <2> QED
    BY <1>0, <2>1, <2>3, <2>4
<1>3. CASE Exit(p)
  BY <1>0, <1>3 DEF Exit
<1>4. CASE Work(p)
  <2>1. /\ used' = used + 1 /\ used' \in 0 .. MaxJiffies /\ started' = started
        /\ UNCHANGED monitorVars /\ p \in DOMAIN running
        /\ running' = [running EXCEPT ![p].rtime = @ + 1]
    BY <1>0, <1>4 DEF Work
  <2>2. running[p] \in R /\ running[p].rtime <= used
    BY <1>0, <2>1
  <2>3. running'[p] = [running[p] EXCEPT !.rtime = @ + 1]
    BY <1>0, <2>1
  <2>4. /\ running'[p] \in R /\ running'[p].rtime <= used'
        /\ running'[p].number = running[p].number
    BY <1>0, <2>1, <2>2, <2>3
  <2>5. /\ DOMAIN running' = DOMAIN running
        /\ \A q \in DOMAIN running : q # p => running'[q] = running[q]
        /\ running' = [q \in DOMAIN running |-> running'[q]]
    BY <1>0, <2>1
  <2>6. \A q \in DOMAIN running :
          /\ running'[q] \in R
          /\ running'[q].number <= started' /\ running'[q].rtime <= used'
    <3> SUFFICES ASSUME NEW q \in DOMAIN running
                 PROVE  /\ running'[q] \in R
                        /\ running'[q].number <= started' /\ running'[q].rtime <= used'
      OBVIOUS
    <3>1. CASE q = p
      BY <1>0, <2>1, <2>4, <3>1
    <3>2. CASE q # p
      <4>1. running[q] \in R /\ running[q].rtime <= used /\ running[q].number <= started
        BY <1>0
      <4> QED
        BY <1>0, <2>1, <2>5, <3>2, <4>1
    <3> QED
      BY <3>1, <3>2
  <2> QED
    BY <1>0, <2>1, <2>5, <2>6
<1> QED
  BY <1>1, <1>2, <1>3, <1>4

\* The time read for a process is a natural, not more than was used in all.
LEMMA ProcTime ==
  ASSUME TableTypeOK, NEW p \in Pid
  PROVE  get_proc_time(p) \in Nat /\ get_proc_time(p) <= used
<1>1. p \in DOMAIN running => running[p].rtime \in 0 .. MaxJiffies
  BY DEF TableTypeOK, MonitorTypeOK
<1> QED
  BY <1>1, MonitorAssumption DEF get_proc_time, TableTypeOK, MonitorTypeOK, HistoryTypeOK

\* The row, the base and the count a reading of one process leaves, and that it
\* leaves those of the others alone.
LEMMA ReadingOfOne ==
  ASSUME TableTypeOK, NEW p \in Pid, AddRow(p) \/ UpdateRow(p)
  PROVE  /\ UNCHANGED <<kernelVars, updating, total, proclist, throughout, ever>>
         /\ updating /\ p \in pids /\ pids' = pids \ {p}
         /\ DOMAIN process_table' = DOMAIN process_table \cup {p}
         /\ process_table' \in [DOMAIN process_table' -> Row]
         /\ base' \in [DOMAIN process_table' -> [number : Nat, rtime : Nat]]
         /\ counted' \in [DOMAIN process_table' -> Nat]
         /\ \A q \in DOMAIN process_table : q # p =>
              /\ process_table'[q] = process_table[q]
              /\ base'[q] = base[q] /\ counted'[q] = counted[q]
         /\ process_table'[p].alive
         /\ process_table'[p].cpu_last_used = get_proc_time(p)
         /\ base'[p].number <= started
         /\ IF p \in DOMAIN process_table
            THEN /\ base'[p] = base[p]
                 /\ counted'[p] = counted[p] +
                      ((get_proc_time(p) - process_table[p].cpu_last_used) % U64)
            ELSE base'[p].rtime = get_proc_time(p) /\ counted'[p] = 0
<1> DEFINE B == [number : Nat, rtime : Nat]
<1>0. /\ process_table \in [DOMAIN process_table -> Row]
      /\ base \in [DOMAIN process_table -> B]
      /\ counted \in [DOMAIN process_table -> Nat]
      /\ \A q \in DOMAIN process_table : base[q].number <= started
      /\ get_proc_time(p) \in Nat /\ started \in Nat /\ U64 \in Nat \ {0}
  BY ProcTime, MonitorAssumption DEF TableTypeOK, MonitorTypeOK, HistoryTypeOK
<1>1. CASE AddRow(p)
  <2> DEFINE row == [load |-> 0, cpu_last_used |-> get_proc_time(p), alive |-> TRUE]
             b   == [number |-> IF p \in DOMAIN running THEN running[p].number ELSE 0,
                     rtime  |-> get_proc_time(p)]
  <2>1. /\ UNCHANGED <<kernelVars, updating, total, proclist, throughout, ever>>
        /\ updating /\ p \in pids /\ p \notin DOMAIN process_table
        /\ pids' = pids \ {p}
        /\ process_table' = With(process_table, p, row)
        /\ base' = With(base, p, b) /\ counted' = With(counted, p, 0)
    BY <1>1 DEF AddRow
  <2>2. row \in Row
    BY <1>0 DEF Row
  <2>3. b \in B /\ b.number <= started
    <3>1. p \in DOMAIN running => /\ running[p].number \in Nat
                                   /\ running[p].number <= started
      <4>1. p \in DOMAIN running =>
              running[p] \in [number : 1 .. MaxStarts, rtime : 0 .. MaxJiffies]
        BY DEF TableTypeOK, MonitorTypeOK
      <4> QED
        BY <4>1, MonitorAssumption DEF TableTypeOK, HistoryTypeOK
    <3> QED
      BY <1>0, <3>1
  <2>4. /\ DOMAIN process_table' = DOMAIN process_table \cup {p}
        /\ process_table' \in [DOMAIN process_table' -> Row]
        /\ \A q \in DOMAIN process_table : q # p => process_table'[q] = process_table[q]
        /\ process_table'[p] = row
    BY <1>0, <2>1, <2>2 DEF With
  <2>5. /\ DOMAIN base = DOMAIN process_table /\ DOMAIN counted = DOMAIN process_table
    BY <1>0
  <2>6. /\ base' \in [DOMAIN process_table' -> B]
        /\ \A q \in DOMAIN process_table : q # p => base'[q] = base[q]
        /\ base'[p] = b
    BY <1>0, <2>1, <2>3, <2>4, <2>5 DEF With
  <2>7. /\ counted' \in [DOMAIN process_table' -> Nat]
        /\ \A q \in DOMAIN process_table : q # p => counted'[q] = counted[q]
        /\ counted'[p] = 0
    BY <1>0, <2>1, <2>4, <2>5 DEF With
  <2>8. /\ process_table'[p].alive
        /\ process_table'[p].cpu_last_used = get_proc_time(p)
        /\ base'[p].number <= started /\ base'[p].rtime = get_proc_time(p)
    BY <2>3, <2>4, <2>6
  <2> HIDE DEF row, b
  <2> QED
    BY <2>1, <2>4, <2>6, <2>7, <2>8, Zenon
<1>2. CASE UpdateRow(p)
  <2> DEFINE load == (get_proc_time(p) - process_table[p].cpu_last_used) % U64
             row  == [load |-> load, cpu_last_used |-> get_proc_time(p), alive |-> TRUE]
  <2>1. /\ UNCHANGED <<kernelVars, updating, total, proclist, throughout, ever, base>>
        /\ updating /\ p \in pids /\ p \in DOMAIN process_table
        /\ pids' = pids \ {p}
        /\ process_table' = [process_table EXCEPT ![p] = row]
        /\ counted' = [counted EXCEPT ![p] = @ + load]
    BY <1>2 DEF UpdateRow
  <2>2. load \in Nat
    <3>1. process_table[p] \in Row
      BY <1>0, <2>1
    <3> QED
      BY <1>0, <3>1 DEF Row
  <2>3. row \in Row
    BY <1>0, <2>2 DEF Row
  <2>4. /\ DOMAIN process_table' = DOMAIN process_table \cup {p}
        /\ process_table' \in [DOMAIN process_table' -> Row]
        /\ \A q \in DOMAIN process_table : q # p => process_table'[q] = process_table[q]
        /\ process_table'[p] = row
    BY <1>0, <2>1, <2>3
  <2>5. /\ counted' \in [DOMAIN process_table' -> Nat]
        /\ \A q \in DOMAIN process_table : q # p => counted'[q] = counted[q]
        /\ counted'[p] = counted[p] + load
    BY <1>0, <2>1, <2>2, <2>4
  <2>6. base' = base /\ base'[p].number <= started
        /\ base' \in [DOMAIN process_table' -> B]
    BY <1>0, <2>1, <2>4
  <2>7. /\ process_table'[p].alive
        /\ process_table'[p].cpu_last_used = get_proc_time(p)
        /\ counted'[p] = counted[p] +
              ((get_proc_time(p) - process_table[p].cpu_last_used) % U64)
    <3>1. row.alive /\ row.cpu_last_used = get_proc_time(p)
      OBVIOUS
    <3>2. process_table'[p] = row
      BY <2>4
    <3>3. process_table'[p].alive /\ process_table'[p].cpu_last_used = get_proc_time(p)
      <4> HIDE DEF row
      <4> QED
        BY <3>1, <3>2
    <3> QED
      BY <2>5, <3>3
  <2> HIDE DEF row, load
  <2> QED
    BY <2>1, <2>4, <2>5, <2>6, <2>7, Zenon
<1> QED
  BY <1>1, <1>2

LEMMA TableTypeStep ==
  ASSUME TableTypeOK, [MonitorStep]_systemVars
  PROVE  TableTypeOK'
<1>0. /\ process_table \in [DOMAIN process_table -> Row]
      /\ base \in [DOMAIN process_table -> [number : Nat, rtime : Nat]]
      /\ counted \in [DOMAIN process_table -> Nat]
      /\ \A q \in DOMAIN process_table : base[q].number <= started
      /\ started \in Nat /\ DOMAIN running \subseteq Pid
  BY MonitorAssumption DEF TableTypeOK, MonitorTypeOK, HistoryTypeOK
<1>1. CASE KernelNext
  <2>1. /\ started <= started' /\ started' \in Nat /\ UNCHANGED monitorVars
    BY <1>1, RunningTypeStep, MonitorAssumption
  <2>2. MonitorTypeOK'
    BY <1>1, <2>1, RunningTypeStep DEF TableTypeOK, MonitorTypeOK, monitorVars
  <2>3. \A p \in DOMAIN process_table : base[p].number <= started'
    <3>1. \A p \in DOMAIN process_table : base[p].number \in Nat
      <4>1. \A p \in DOMAIN process_table : base[p] \in [number : Nat, rtime : Nat]
        BY <1>0
      <4> QED
        BY <4>1
    <3> QED
      BY <1>0, <2>1, <3>1
  <2>4. HistoryTypeOK'
    BY <1>0, <1>1, <2>1, <2>3, RunningTypeStep DEF HistoryTypeOK, monitorVars
  <2> QED
    BY <2>2, <2>4 DEF TableTypeOK
<1>2. CASE get_proclist
  <2>1. /\ UNCHANGED <<kernelVars, base, counted>> /\ updating' = TRUE
        /\ pids' = DOMAIN running /\ proclist' = DOMAIN running /\ total' \in Totals
        /\ process_table' = [p \in DOMAIN process_table |->
                              [process_table[p] EXCEPT !.alive = FALSE]]
    BY <1>2 DEF get_proclist
  <2>2. DOMAIN process_table' = DOMAIN process_table
        /\ process_table' \in [DOMAIN process_table' -> Row]
    <3>1. \A p \in DOMAIN process_table :
            [process_table[p] EXCEPT !.alive = FALSE] \in Row
      <4>1. \A p \in DOMAIN process_table : process_table[p] \in Row
        BY <1>0
      <4> QED
        BY <4>1 DEF Row
    <3> QED
      BY <2>1, <3>1
  <2> QED
    BY <1>0, <2>1, <2>2 DEF TableTypeOK, MonitorTypeOK, HistoryTypeOK, kernelVars
<1>3. ASSUME NEW p \in Pid, AddRow(p) \/ UpdateRow(p) PROVE TableTypeOK'
  <2>1. MonitorTypeOK'
    BY <1>3, ReadingOfOne DEF TableTypeOK, MonitorTypeOK, kernelVars
  <2>2. \A q \in DOMAIN process_table' : base'[q].number <= started'
    <3> SUFFICES ASSUME NEW q \in DOMAIN process_table'
                 PROVE  base'[q].number <= started
      BY <1>3, ReadingOfOne DEF kernelVars
    <3>1. CASE q = p
      BY <1>3, <3>1, ReadingOfOne
    <3>2. CASE q # p
      <4>1. q \in DOMAIN process_table /\ base'[q] = base[q]
        BY <1>3, <3>2, ReadingOfOne
      <4> QED
        BY <1>0, <4>1
    <3> QED
      BY <3>1, <3>2
  <2>3. HistoryTypeOK'
    BY <1>3, <2>2, ReadingOfOne DEF TableTypeOK, HistoryTypeOK, kernelVars
  <2> QED
    BY <2>1, <2>3 DEF TableTypeOK
<1>4. CASE RemoveRows
  <2> DEFINE kept == {p \in DOMAIN process_table : process_table[p].alive}
  <2>1. /\ UNCHANGED <<kernelVars, pids, total, proclist>> /\ updating' = FALSE
        /\ process_table' = [p \in kept |-> process_table[p]]
        /\ base' = [p \in kept |-> base[p]]
        /\ counted' = [p \in kept |-> counted[p]]
    BY <1>4 DEF RemoveRows
  <2> QED
    BY <1>0, <2>1 DEF TableTypeOK, MonitorTypeOK, HistoryTypeOK, kernelVars
<1>5. CASE UNCHANGED systemVars
  BY <1>5 DEF TableTypeOK, MonitorTypeOK, HistoryTypeOK, systemVars, kernelVars,
              monitorVars
<1> QED
  BY <1>1, <1>2, <1>3, <1>4, <1>5 DEF MonitorStep

LEMMA TableTypeInvariant == Spec => []TableTypeOK
<1>1. Init => TableTypeOK
  BY TableTypeStart DEF Init
<1>2. TableTypeOK /\ [Next]_vars => TableTypeOK'
  BY TableTypeStep, StepIsStepOfEach
<1> QED
  BY <1>1, <1>2, PTL DEF Spec

-----------------------------------------------------------------------------
(* The table of processes: the rows it has.                                *)

Alive == {p \in DOMAIN process_table : process_table[p].alive}

\* Until the list of the pids is read to its end, who ran when it was read and has
\* not exited since is in the rest of the list or has a row that is marked.
TableInv ==
  /\ TableIsTheSystem
  /\ throughout \subseteq ever
  /\ updating => /\ pids \cup Alive \subseteq ever
                 /\ throughout \subseteq pids \cup Alive

LEMMA TableInvStep ==
  ASSUME TableTypeOK, TableInv, [MonitorStep]_systemVars
  PROVE  TableInv'
<1>1. CASE KernelNext
  BY <1>1 DEF KernelNext, Start, Exit, Work, TableInv, TableIsTheSystem, Alive,
              monitorVars
<1>2. CASE get_proclist
  <2>1. /\ updating' = TRUE /\ pids' = DOMAIN running
        /\ throughout' = DOMAIN running /\ ever' = DOMAIN running
        /\ process_table' = [p \in DOMAIN process_table |->
                              [process_table[p] EXCEPT !.alive = FALSE]]
    BY <1>2 DEF get_proclist
  <2>2. Alive' = {}
    <3>1. \A p \in DOMAIN process_table : ~ process_table'[p].alive
      <4>1. \A p \in DOMAIN process_table : process_table[p] \in Row
        BY DEF TableTypeOK, MonitorTypeOK
      <4> QED
        BY <2>1, <4>1 DEF Row
    <3> QED
      BY <2>1, <3>1 DEF Alive
  <2> QED
    BY <2>1, <2>2 DEF TableInv, TableIsTheSystem
<1>3. ASSUME NEW p \in Pid, AddRow(p) \/ UpdateRow(p) PROVE TableInv'
  <2>1. /\ updating /\ updating' = updating /\ UNCHANGED <<throughout, ever>>
        /\ p \in pids /\ pids' = pids \ {p}
    BY <1>3, ReadingOfOne
  <2>2. Alive' = Alive \cup {p}
    <3>1. /\ DOMAIN process_table' = DOMAIN process_table \cup {p}
          /\ process_table'[p].alive
          /\ \A q \in DOMAIN process_table : q # p => process_table'[q] = process_table[q]
      BY <1>3, ReadingOfOne
    <3> QED
      BY <3>1 DEF Alive
  <2> QED
    BY <2>1, <2>2 DEF TableInv, TableIsTheSystem
<1>4. CASE RemoveRows
  <2>1. /\ updating /\ pids = {} /\ updating' = FALSE /\ UNCHANGED <<throughout, ever>>
        /\ DOMAIN process_table' = Alive
    BY <1>4 DEF RemoveRows, Alive
  <2> QED
    BY <2>1 DEF TableInv, TableIsTheSystem
<1>5. CASE UNCHANGED systemVars
  BY <1>5 DEF TableInv, TableIsTheSystem, Alive, systemVars, kernelVars, monitorVars
<1> QED
  BY <1>1, <1>2, <1>3, <1>4, <1>5 DEF MonitorStep

\* Whatever starts and exits while process_data() goes through the list: afterwards
\* the table has every process that ran throughout, and none that was gone before.
THEOREM TableHasWhatRuns == Spec => []TableIsTheSystem
<1>1. Init => TableInv
  BY DEF Init, MonitorInit, TableInv, TableIsTheSystem
<1>2. TableTypeOK /\ TableInv /\ [Next]_vars => TableInv'
  BY TableInvStep, StepIsStepOfEach
<1>3. TableInv => TableIsTheSystem
  BY DEF TableInv
<1> QED
  BY <1>1, <1>2, <1>3, TableTypeInvariant, PTL DEF Spec

-----------------------------------------------------------------------------
(* The table of processes: the loads.                                      *)

\* A difference that is not negative and less than U64 does not wrap.
LEMMA NoWrap ==
  ASSUME NEW m \in Nat, NEW n \in Nat, m <= n, n < U64
  PROVE  (n - m) % U64 = n - m
  BY MonitorAssumption

LEMMA JiffyStep ==
  ASSUME MaxJiffies < U64, TableTypeOK, EveryJiffyOnce, [MonitorStep]_systemVars
  PROVE  EveryJiffyOnce'
<1> SUFFICES ASSUME NEW p \in DOMAIN process_table', SameProcess(p)'
             PROVE  /\ base'[p].rtime + counted'[p] = process_table'[p].cpu_last_used
                    /\ process_table'[p].cpu_last_used <= running'[p].rtime
  BY DEF EveryJiffyOnce
<1>0. /\ \A q \in DOMAIN running :
           /\ running[q].number \in Nat /\ running[q].rtime \in Nat
           /\ running[q].number <= started /\ running[q].rtime <= used
      /\ \A q \in DOMAIN process_table :
           /\ process_table[q].cpu_last_used \in Nat /\ counted[q] \in Nat
           /\ base[q].number \in Nat /\ base[q].rtime \in Nat
           /\ base[q].number <= started
      /\ started \in Nat /\ used \in Nat /\ used < U64
  <2>1. \A q \in DOMAIN running :
          /\ running[q].number \in Nat /\ running[q].rtime \in Nat
          /\ running[q].number <= started /\ running[q].rtime <= used
    <3>1. \A q \in DOMAIN running :
            running[q] \in [number : 1 .. MaxStarts, rtime : 0 .. MaxJiffies]
      BY DEF TableTypeOK, MonitorTypeOK
    <3> QED
      BY <3>1, MonitorAssumption DEF TableTypeOK, HistoryTypeOK
  <2>2. \A q \in DOMAIN process_table :
          /\ process_table[q].cpu_last_used \in Nat /\ counted[q] \in Nat
          /\ base[q].number \in Nat /\ base[q].rtime \in Nat
          /\ base[q].number <= started
    <3>1. \A q \in DOMAIN process_table :
            /\ process_table[q] \in Row /\ counted[q] \in Nat
            /\ base[q] \in [number : Nat, rtime : Nat]
      BY DEF TableTypeOK, MonitorTypeOK, HistoryTypeOK
    <3> QED
      BY <3>1 DEF Row, TableTypeOK, HistoryTypeOK
  <2>3. started \in Nat /\ used \in Nat /\ used < U64
    BY MonitorAssumption DEF TableTypeOK, MonitorTypeOK
  <2> QED
    BY <2>1, <2>2, <2>3
<1>a. ASSUME p \in DOMAIN process_table, SameProcess(p)
      PROVE  /\ base[p].rtime + counted[p] = process_table[p].cpu_last_used
             /\ process_table[p].cpu_last_used <= running[p].rtime
  BY <1>a DEF EveryJiffyOnce
<1>1. CASE KernelNext
  <2>0. UNCHANGED monitorVars
    BY <1>1, RunningTypeStep
  <2>1. PICK q \in Pid : Start(q) \/ Exit(q) \/ Work(q)
    BY <1>1 DEF KernelNext
  <2>2. CASE Start(q)
    <3>1. p # q
      <4>1. running'[q].number = started + 1
        BY <2>2 DEF Start, With
      <4> QED
        BY <1>0, <2>0, <4>1 DEF SameProcess, monitorVars
    <3>2. p \in DOMAIN running /\ running'[p] = running[p]
      BY <2>2, <3>1 DEF Start, With, SameProcess
    <3> QED
      BY <1>a, <2>0, <3>2 DEF SameProcess, monitorVars
  <2>3. CASE Exit(q)
    <3>1. p \in DOMAIN running /\ running'[p] = running[p]
      BY <2>3 DEF Exit, SameProcess
    <3> QED
      BY <1>a, <2>0, <3>1 DEF SameProcess, monitorVars
  <2>4. CASE Work(q)
    <3>1. /\ DOMAIN running' = DOMAIN running
          /\ running' = [running EXCEPT ![q].rtime = @ + 1]
      BY <2>4 DEF Work
    <3>2. p \in DOMAIN running
      BY <3>1 DEF SameProcess
    <3>3. running[p] \in [number : 1 .. MaxStarts, rtime : 0 .. MaxJiffies]
      BY <3>2 DEF TableTypeOK, MonitorTypeOK
    <3>4. running'[p] = IF p = q THEN [running[p] EXCEPT !.rtime = @ + 1] ELSE running[p]
      BY <3>1, <3>2
    <3>5. running'[p].number = running[p].number /\ running[p].rtime <= running'[p].rtime
          /\ running'[p].rtime \in Nat
      BY <1>0, <3>2, <3>3, <3>4
    <3>6. SameProcess(p) /\ p \in DOMAIN process_table
      BY <2>0, <3>2, <3>5 DEF SameProcess, monitorVars
    <3>7. UNCHANGED <<base, counted, process_table>>
      BY <2>0 DEF monitorVars
    <3> QED
      BY <1>0, <1>a, <3>2, <3>5, <3>6, <3>7
  <2> QED
    BY <2>1, <2>2, <2>3, <2>4
<1>2. CASE get_proclist
  <2>1. /\ UNCHANGED <<running, base, counted>>
        /\ process_table' = [q \in DOMAIN process_table |->
                              [process_table[q] EXCEPT !.alive = FALSE]]
    BY <1>2 DEF get_proclist, kernelVars
  <2>2. p \in DOMAIN process_table /\ SameProcess(p)
    BY <2>1 DEF SameProcess
  <2>3. process_table[p] \in Row
    BY <2>2 DEF TableTypeOK, MonitorTypeOK
  <2>4. process_table'[p].cpu_last_used = process_table[p].cpu_last_used
    BY <2>1, <2>2, <2>3 DEF Row
  <2> QED
    BY <1>a, <2>1, <2>2, <2>4
<1>3. ASSUME NEW q \in Pid, AddRow(q) \/ UpdateRow(q)
      PROVE  /\ base'[p].rtime + counted'[p] = process_table'[p].cpu_last_used
             /\ process_table'[p].cpu_last_used <= running'[p].rtime
  <2>1. running' = running /\ p \in DOMAIN running
    BY <1>3, ReadingOfOne DEF kernelVars, SameProcess
  <2>2. CASE p # q
    <3>1. /\ p \in DOMAIN process_table /\ process_table'[p] = process_table[p]
          /\ base'[p] = base[p] /\ counted'[p] = counted[p]
      BY <1>3, <2>2, ReadingOfOne
    <3> QED
      BY <1>a, <2>1, <3>1 DEF SameProcess
  <2>3. CASE p = q
    <3>1. /\ get_proc_time(p) = running[p].rtime
          /\ process_table'[p].cpu_last_used = running[p].rtime
      BY <1>3, <2>1, <2>3, ReadingOfOne DEF get_proc_time
    <3>2. CASE p \in DOMAIN process_table
      <4>1. /\ base'[p] = base[p]
            /\ counted'[p] = counted[p] +
                 ((running[p].rtime - process_table[p].cpu_last_used) % U64)
        BY <1>3, <2>3, <3>1, <3>2, ReadingOfOne
      <4>2. SameProcess(p)
        BY <2>1, <4>1 DEF SameProcess
      <4>3. (running[p].rtime - process_table[p].cpu_last_used) % U64
              = running[p].rtime - process_table[p].cpu_last_used
        <5>1. running[p].rtime < U64
          BY <1>0, <2>1, MonitorAssumption
        <5> QED
          BY <1>0, <1>a, <2>1, <3>2, <4>2, <5>1, NoWrap
      <4> QED
        BY <1>0, <1>a, <2>1, <3>1, <3>2, <4>1, <4>2, <4>3
    <3>3. CASE p \notin DOMAIN process_table
      <4>1. base'[p].rtime = running[p].rtime /\ counted'[p] = 0
        BY <1>3, <2>3, <3>1, <3>3, ReadingOfOne
      <4> QED
        BY <1>0, <2>1, <3>1, <4>1
    <3> QED
      BY <3>2, <3>3
  <2> QED
    BY <2>2, <2>3
<1>4. CASE RemoveRows
  <2>1. /\ running' = running /\ p \in DOMAIN process_table
        /\ process_table'[p] = process_table[p]
        /\ base'[p] = base[p] /\ counted'[p] = counted[p]
    BY <1>4 DEF RemoveRows, kernelVars
  <2> QED
    BY <1>a, <2>1 DEF SameProcess
<1>5. CASE UNCHANGED systemVars
  BY <1>5, <1>a DEF SameProcess, systemVars, kernelVars, monitorVars
<1> QED
  BY <1>1, <1>2, <1>3, <1>4, <1>5 DEF MonitorStep

\* As long as no process has used 2^64 jiffies, the loads of a row add up to what
\* its process has used since the row was made (process_data()).
THEOREM LoadsAddUp ==
  ASSUME MaxJiffies < U64
  PROVE  Spec => []EveryJiffyOnce
<1>1. Init => EveryJiffyOnce
  BY DEF Init, MonitorInit, EveryJiffyOnce
<1>2. TableTypeOK /\ EveryJiffyOnce /\ [Next]_vars => EveryJiffyOnce'
  BY JiffyStep, StepIsStepOfEach
<1> QED
  BY <1>1, <1>2, TableTypeInvariant, PTL DEF Spec

-----------------------------------------------------------------------------
(* The list the CPU view makes of the table: an insertion sort.            *)

\* The list u is the list with p at k.
Inserted(u, list, k, p) ==
  /\ k \in 1 .. Len(list) + 1 /\ Len(u) = Len(list) + 1
  /\ u[k] = p
  /\ \A i \in 1 .. k - 1 : u[i] = list[i]
  /\ \A i \in k + 1 .. Len(list) + 1 : u[i] = list[i - 1]

LEMMA InsertAtPlace ==
  ASSUME NEW S, NEW list, list \in Seq(S), NEW p \in S, NEW k, k \in 1 .. Len(list) + 1
  PROVE  InsertAt(list, k, p) \in Seq(S) /\ Inserted(InsertAt(list, k, p), list, k, p)
<1> DEFINE n == Len(list)
           a == SubSeq(list, 1, k - 1)
           b == <<p>>
           c == SubSeq(list, k, n)
           ab == a \o b
           u == ab \o c
<1>1. n \in Nat /\ k \in Nat
  OBVIOUS
<1>2. a \in Seq(S) /\ Len(a) = k - 1 /\ \A i \in 1 .. k - 1 : a[i] = list[i]
  OBVIOUS
<1>3. b \in Seq(S) /\ Len(b) = 1 /\ b[1] = p
  OBVIOUS
<1>4. c \in Seq(S) /\ Len(c) = n - k + 1 /\ \A i \in 1 .. n - k + 1 : c[i] = list[k - 1 + i]
  OBVIOUS
<1>5. InsertAt(list, k, p) = u
  BY DEF InsertAt
<1>6. k \in 1 .. n + 1
  OBVIOUS
<1> HIDE DEF n, a, b, c
<1>7. ab \in Seq(S) /\ Joined(ab, a, b)
  BY <1>2, <1>3, Concat
<1> HIDE DEF ab
<1>8. u \in Seq(S) /\ Joined(u, ab, c)
  BY <1>4, <1>7, Concat
<1> HIDE DEF u
<1>9. Len(ab) = k
  BY <1>1, <1>2, <1>3, <1>7 DEF Joined
<1>10. ab[k] = p
  <2>1. k \in Len(a) + 1 .. Len(a) + Len(b) /\ k - Len(a) = 1
    BY <1>1, <1>2, <1>3
  <2>2. ab[k] = b[k - Len(a)]
    BY <1>7, <2>1 DEF Joined
  <2> QED
    BY <1>3, <2>1, <2>2
<1>11. ASSUME NEW i \in 1 .. k - 1 PROVE ab[i] = list[i]
  <2>1. i \in 1 .. Len(a)
    BY <1>2
  <2>2. ab[i] = a[i]
    BY <1>7, <2>1 DEF Joined
  <2> QED
    BY <1>2, <2>2
<1>12. Len(u) = n + 1
  BY <1>1, <1>4, <1>8, <1>9 DEF Joined
<1>13. u[k] = p
  <2>1. k \in 1 .. Len(ab)
    BY <1>6, <1>9, <1>1
  <2>2. u[k] = ab[k]
    BY <1>8, <2>1 DEF Joined
  <2> QED
    BY <1>10, <2>2
<1>14. ASSUME NEW i \in 1 .. k - 1 PROVE u[i] = list[i]
  <2>1. i \in 1 .. Len(ab)
    BY <1>1, <1>9
  <2>2. u[i] = ab[i]
    BY <1>8, <2>1 DEF Joined
  <2> QED
    BY <1>11, <2>2
<1>15. ASSUME NEW i \in k + 1 .. n + 1 PROVE u[i] = list[i - 1]
  <2>1. i \in Len(ab) + 1 .. Len(ab) + Len(c) /\ i - Len(ab) = i - k
    BY <1>1, <1>4, <1>9
  <2>2. u[i] = c[i - Len(ab)]
    BY <1>8, <2>1 DEF Joined
  <2>3. i - k \in 1 .. n - k + 1 /\ k - 1 + (i - k) = i - 1
    BY <1>1, <1>6
  <2>4. c[i - k] = list[k - 1 + (i - k)]
    BY <1>4, <2>3
  <2> QED
    BY <2>1, <2>2, <2>3, <2>4
<1>16. Inserted(u, list, k, p)
  BY <1>6, <1>12, <1>13, <1>14, <1>15 DEF Inserted, n
<1> QED
  BY <1>5, <1>8, <1>16

\* The place of a process in a list: before the first that does not go before it.
Before(p, q) == compare(p, q) <= 0

IsPlace(k, p, list) ==
  /\ k \in 1 .. Len(list) + 1
  /\ \A i \in 1 .. k - 1 : ~ Before(p, list[i])
  /\ k <= Len(list) => Before(p, list[k])

LEMMA InsertedInPlace ==
  ASSUME NEW S, NEW list, list \in Seq(S), NEW p \in S
  PROVE  /\ insert_sorted(p, list) \in Seq(S)
         /\ \E k : IsPlace(k, p, list) /\ Inserted(insert_sorted(p, list), list, k, p)
<1> DEFINE n == Len(list)
           Places == {i \in DOMAIN list : compare(p, list[i]) <= 0} \cup {Len(list) + 1}
           k == Min(Places)
<1>1. n \in Nat /\ DOMAIN list = 1 .. n
  OBVIOUS
<1>2. Places \in SUBSET Nat /\ Places # {} /\ Places \subseteq 1 .. n + 1 /\ n + 1 \in Places
  BY <1>1
<1>3. \A i \in 1 .. n : i \in Places <=> Before(p, list[i])
  BY <1>1 DEF Before
<1>4. insert_sorted(p, list) = InsertAt(list, k, p)
  BY DEF insert_sorted
<1> HIDE DEF Places
<1>5. \E x \in Places : \A y \in Places : x <= y
  BY <1>2, LeastNumber
<1>6. k \in Places /\ \A y \in Places : k <= y
  BY <1>5 DEF Min
<1> HIDE DEF k
<1>7. k \in 1 .. n + 1
  BY <1>2, <1>6
<1>8. IsPlace(k, p, list)
  <2>1. ASSUME NEW i \in 1 .. k - 1 PROVE ~ Before(p, list[i])
    <3>1. i \in 1 .. n /\ i < k
      BY <1>1, <1>7
    <3>2. ~ (k <= i)
      BY <1>1, <1>7, <3>1
    <3>3. i \notin Places
      BY <1>6, <3>2
    <3> QED
      BY <1>3, <3>1, <3>3
  <2>2. k <= n => Before(p, list[k])
    BY <1>1, <1>3, <1>6, <1>7
  <2> QED
    BY <1>7, <2>1, <2>2 DEF IsPlace
<1>9. InsertAt(list, k, p) \in Seq(S) /\ Inserted(InsertAt(list, k, p), list, k, p)
  <2>1. k \in 1 .. Len(list) + 1
    BY <1>7
  <2> QED
    BY <2>1, InsertAtPlace
<1> QED
  BY <1>4, <1>8, <1>9

\* The list u has the processes of Q, each once.
ListOf(u, Q) ==
  /\ IsFiniteSet(Q) /\ u \in Seq(Q) /\ Len(u) = Cardinality(Q)
  /\ \A i, j \in 1 .. Len(u) : i # j => u[i] # u[j]
  /\ \A q \in Q : \E i \in 1 .. Len(u) : u[i] = q

LEMMA InsertedIsListed ==
  ASSUME NEW Q, NEW list, ListOf(list, Q), NEW p, p \notin Q,
         NEW u, u \in Seq(Q \cup {p}), NEW k, Inserted(u, list, k, p)
  PROVE  ListOf(u, Q \cup {p})
<1> DEFINE n == Len(list)
<1>1. /\ n \in Nat /\ Len(u) = n + 1 /\ k \in 1 .. n + 1 /\ u[k] = p
      /\ \A i \in 1 .. n : list[i] \in Q
  BY DEF Inserted, ListOf
<1>2. \A i \in 1 .. k - 1 : u[i] = list[i]
  BY DEF Inserted
<1>3. \A i \in k + 1 .. n + 1 : u[i] = list[i - 1]
  BY DEF Inserted
<1>4. /\ IsFiniteSet(Q) /\ n = Cardinality(Q)
      /\ \A i, j \in 1 .. n : i # j => list[i] # list[j]
      /\ \A q \in Q : \E i \in 1 .. n : list[i] = q
  BY DEF ListOf
<1> HIDE DEF n
<1>5. IsFiniteSet(Q \cup {p}) /\ Cardinality(Q \cup {p}) = n + 1
  BY <1>4, FS_AddElement
<1>6. ASSUME NEW i \in 1 .. n + 1, i # k
      PROVE  \E o \in 1 .. n : u[i] = list[o] /\ o = (IF i < k THEN i ELSE i - 1)
  <2>1. CASE i < k
    BY <1>1, <1>2, <2>1
  <2>2. CASE i > k
    BY <1>1, <1>3, <2>2
  <2> QED
    BY <1>1, <1>6, <2>1, <2>2
<1>7. ASSUME NEW i \in 1 .. n + 1, i # k PROVE u[i] # p
  BY <1>1, <1>6, <1>7
<1>8. ASSUME NEW i \in 1 .. n + 1, NEW j \in 1 .. n + 1, i # j PROVE u[i] # u[j]
  <2>1. CASE i = k \/ j = k
    BY <1>1, <1>7, <1>8, <2>1
  <2>2. CASE i # k /\ j # k
    <3>1. PICK a \in 1 .. n : u[i] = list[a] /\ a = (IF i < k THEN i ELSE i - 1)
      BY <1>6, <2>2
    <3>2. PICK b \in 1 .. n : u[j] = list[b] /\ b = (IF j < k THEN j ELSE j - 1)
      BY <1>6, <2>2
    <3>3. a # b
      BY <1>1, <1>8, <2>2, <3>1, <3>2
    <3> QED
      BY <1>4, <3>1, <3>2, <3>3
  <2> QED
    BY <2>1, <2>2
<1>9. ASSUME NEW q \in Q \cup {p} PROVE \E i \in 1 .. n + 1 : u[i] = q
  <2>1. CASE q = p
    BY <1>1, <2>1
  <2>2. CASE q \in Q
    <3>1. PICK o \in 1 .. n : list[o] = q
      BY <1>4, <2>2
    <3>2. CASE o < k
      <4>1. o \in 1 .. k - 1 /\ o \in 1 .. n + 1
        BY <1>1, <3>2
      <4> QED
        BY <1>2, <3>1, <4>1
    <3>3. CASE ~ (o < k)
      <4>1. o + 1 \in k + 1 .. n + 1 /\ o + 1 \in 1 .. n + 1 /\ (o + 1) - 1 = o
        BY <1>1, <3>3
      <4>2. u[o + 1] = list[(o + 1) - 1]
        BY <1>3, <4>1
      <4> QED
        BY <3>1, <4>1, <4>2
    <3> QED
      BY <3>2, <3>3
  <2> QED
    BY <2>1, <2>2
<1> QED
  BY <1>1, <1>5, <1>8, <1>9 DEF ListOf

\* The thousandths of the machine a row's process has used; none has wrapped round.
Load(p) == (SCALE * process_table[p].load) \div total

ExactLoads ==
  /\ total \in Totals
  /\ \A p \in DOMAIN process_table : process_table[p].load \in 0 .. MaxJiffies

Descending(u) == \A i, j \in 1 .. Len(u) : i < j => Load(u[i]) >= Load(u[j])

\* What the theorems about the order of the rows ask of the bounds.
LoadsAreInts == SCALE * MaxJiffies <= INT_MAX

\* A quotient is at most its numerator, and a greater numerator by the denominator
\* makes a greater quotient.
LEMMA Quotient ==
  ASSUME NEW a \in Nat, NEW n \in Nat \ {0}
  PROVE  a \div n \in Nat /\ a \div n <= a
OBVIOUS

LEMMA QuotientApart ==
  ASSUME NEW a \in Nat, NEW b \in Nat, NEW n \in Nat \ {0}, a > b + n
  PROVE  a \div n > b \div n
OBVIOUS

LEMMA ProductInOrder ==
  ASSUME NEW s \in Nat, NEW a \in Nat, NEW b \in Nat, a <= b
  PROVE  s * a \in Nat /\ s * b \in Nat /\ s * a <= s * b
OBVIOUS

LEMMA LoadInRange ==
  ASSUME LoadsAreInts, ExactLoads, NEW p \in DOMAIN process_table
  PROVE  Load(p) \in 0 .. INT_MAX /\ SortId(process_table[p].load) = Load(p)
<1> DEFINE l == process_table[p].load
<1>1. /\ l \in Nat /\ l <= MaxJiffies /\ total \in Nat \ {0}
      /\ MaxJiffies \in Nat /\ SCALE \in Nat /\ INT_MAX \in Nat
  BY MonitorAssumption, ApplicationAssumption DEF ExactLoads
<1>2. /\ SCALE * l \in Nat /\ SCALE * l <= SCALE * MaxJiffies
      /\ SCALE * MaxJiffies \in Nat /\ SCALE * MaxJiffies <= INT_MAX
  BY <1>1, ProductInOrder DEF LoadsAreInts
<1> DEFINE a == SCALE * l
           n == a \div total
<1> HIDE DEF l
<1>3. n \in Nat /\ n <= a
  <2> HIDE DEF a
  <2> QED
    BY <1>1, <1>2, Quotient DEF a
<1>4. n \in Nat /\ n <= INT_MAX
  <2> HIDE DEF n
  <2> QED
    BY <1>1, <1>2, <1>3
<1>5. Load(p) = n
  BY DEF Load, l
<1>6. SortId(l) = IF n > INT_MAX THEN OUT_OF_RANGE ELSE n
  BY DEF SortId
<1> HIDE DEF n
<1> QED
  BY <1>1, <1>4, <1>5, <1>6 DEF l

LEMMA BeforeIsBusier ==
  ASSUME LoadsAreInts, ExactLoads, NEW p \in DOMAIN process_table,
         NEW q \in DOMAIN process_table
  PROVE  Before(p, q) <=> Load(p) >= Load(q)
<1> DEFINE a == Load(p)
           b == Load(q)
           M == INT_MAX
<1>1. a \in Nat /\ b \in Nat /\ a <= M /\ b <= M /\ M \in Nat
  BY LoadInRange, ApplicationAssumption
<1>2. SortId(process_table[p].load) = a /\ SortId(process_table[q].load) = b
  BY LoadInRange
<1>3. compare(p, q) = Int32(b - a)
  BY <1>2 DEF compare
<1> HIDE DEF a, b, M
<1>4. Int32(b - a) = ((b - a + M + 1) % (2 * (M + 1))) - (M + 1)
  BY DEF Int32, M
<1>5. b - a + M + 1 \in Nat /\ b - a + M + 1 < 2 * (M + 1) /\ 2 * (M + 1) \in Nat \ {0}
  BY <1>1
<1>6. (b - a + M + 1) % (2 * (M + 1)) = b - a + M + 1
  <2> DEFINE x == b - a + M + 1
             y == 2 * (M + 1)
  <2>1. x \in Nat /\ x < y /\ y \in Nat \ {0}
    BY <1>5
  <2> HIDE DEF x, y
  <2>2. x % y = x
    BY <2>1
  <2> QED
    BY <2>2 DEF x, y
<1>7. compare(p, q) = b - a
  BY <1>1, <1>3, <1>4, <1>6
<1> QED
  BY <1>1, <1>7 DEF Before, a, b

LEMMA InsertedInOrder ==
  ASSUME LoadsAreInts, ExactLoads, NEW Q, Q \subseteq DOMAIN process_table,
         NEW list, list \in Seq(Q), Descending(list), NEW p \in DOMAIN process_table,
         NEW u, NEW k, IsPlace(k, p, list), Inserted(u, list, k, p)
  PROVE  Descending(u)
<1> DEFINE n == Len(list)
<1>1. /\ n \in Nat /\ Len(u) = n + 1 /\ k \in 1 .. n + 1 /\ u[k] = p
      /\ \A i \in 1 .. n : list[i] \in DOMAIN process_table
  BY DEF Inserted
<1>2. \A i \in 1 .. k - 1 : u[i] = list[i]
  BY DEF Inserted
<1>3. \A i \in k + 1 .. n + 1 : u[i] = list[i - 1]
  BY DEF Inserted
<1>4. \A i, j \in 1 .. n : i < j => Load(list[i]) >= Load(list[j])
  BY DEF Descending
<1>5. Load(p) \in Nat /\ \A i \in 1 .. n : Load(list[i]) \in Nat
  BY <1>1, LoadInRange
<1>6. /\ \A i \in 1 .. k - 1 : ~ Before(p, list[i])
      /\ k <= n => Before(p, list[k])
  BY DEF IsPlace
<1> HIDE DEF n
<1>7. ASSUME NEW i \in 1 .. k - 1 PROVE Load(list[i]) >= Load(p)
  <2>1. i \in 1 .. n
    BY <1>1
  <2>2. ~ (Load(p) >= Load(list[i]))
    BY <1>1, <1>6, <2>1, BeforeIsBusier
  <2> QED
    BY <1>5, <2>1, <2>2
<1>8. ASSUME NEW i \in k .. n PROVE Load(p) >= Load(list[i])
  <2>1. k \in 1 .. n /\ i \in 1 .. n
    BY <1>1
  <2>2. Load(p) >= Load(list[k])
    BY <1>1, <1>6, <2>1, BeforeIsBusier
  <2>3. CASE i = k
    BY <2>2, <2>3
  <2>4. CASE i # k
    BY <1>4, <1>5, <2>1, <2>2, <2>4
  <2> QED
    BY <2>3, <2>4
<1>9. ASSUME NEW i \in 1 .. n + 1, NEW j \in 1 .. n + 1, i < j
      PROVE  Load(u[i]) >= Load(u[j])
  <2>1. CASE j < k
    <3>1. i \in 1 .. k - 1 /\ j \in 1 .. k - 1 /\ i \in 1 .. n /\ j \in 1 .. n
      BY <1>1, <1>9, <2>1
    <3> QED
      BY <1>2, <1>4, <1>9, <3>1
  <2>2. CASE j = k
    <3>1. i \in 1 .. k - 1
      BY <1>1, <1>9, <2>2
    <3> QED
      BY <1>1, <1>2, <1>7, <2>2, <3>1
  <2>3. CASE j > k
    <3>1. j \in k + 1 .. n + 1 /\ j - 1 \in k .. n /\ j - 1 \in 1 .. n
      BY <1>1, <2>3
    <3>2. u[j] = list[j - 1]
      BY <1>3, <3>1
    <3>3. CASE i < k
      <4>1. i \in 1 .. k - 1 /\ i \in 1 .. n /\ i < j - 1
        BY <1>1, <2>3, <3>3
      <4>2. u[i] = list[i]
        BY <1>2, <4>1
      <4> QED
        BY <1>4, <3>1, <3>2, <4>1, <4>2
    <3>4. CASE i = k
      BY <1>1, <1>8, <3>1, <3>2, <3>4
    <3>5. CASE i > k
      <4>1. i \in k + 1 .. n + 1 /\ i - 1 \in 1 .. n /\ i - 1 < j - 1
        BY <1>1, <1>9, <3>5
      <4>2. u[i] = list[i - 1]
        BY <1>3, <4>1
      <4> QED
        BY <1>4, <3>1, <3>2, <4>1, <4>2
    <3> QED
      BY <1>1, <3>3, <3>4, <3>5
  <2> QED
    BY <1>1, <2>1, <2>2, <2>3
<1> QED
  BY <1>1, <1>9 DEF Descending

\* The processes that come out of the hash table at the places of s.
TakenAt(order, s) == {order[i] : i \in s}

\* FoldLeft() takes the place that is the greatest last.
WidgetsOf(order, iter) ==
  [s \in SUBSET (DOMAIN order) |->
     IF s = {} THEN <<>> ELSE insert_sorted(order[Max(s)], iter[s \ {Max(s)}])]

LEMMA GreatestPlace ==
  ASSUME NEW n \in Nat, NEW s \in SUBSET (1 .. n), s # {}
  PROVE  Max(s) \in s
BY GreatestNumber DEF Max

\* The recursive function FoldLeft() is defined by exists.
LEMMA WidgetsExist ==
  ASSUME NEW D, NEW n \in Nat, NEW order \in [1 .. n -> D]
  PROVE  \E iter : iter = WidgetsOf(order, iter)
<1> DEFINE N == 1 .. n
           V == Seq(D)
           choice == [s \in SUBSET N |-> Max(s)]
           step == [sv \in (SUBSET N) \X V |->
                      IF sv[1] = {} THEN <<>> ELSE insert_sorted(order[choice[sv[1]]], sv[2])]
<1>1. IsFiniteSet(N)
  BY FS_Interval
<1>2. \A s \in SUBSET N : s # {} => choice[s] \in s
  BY GreatestPlace
<1>3. step \in [(SUBSET N) \X V -> V]
  <2> SUFFICES ASSUME NEW s \in SUBSET N, NEW v \in V
               PROVE  (IF s = {} THEN <<>> ELSE insert_sorted(order[choice[s]], v)) \in V
    OBVIOUS
  <2>1. CASE s = {}
    BY <2>1
  <2>2. CASE s # {}
    <3>1. order[choice[s]] \in D
      BY <1>2, <2>2
    <3>2. insert_sorted(order[choice[s]], v) \in Seq(D)
      <4> HIDE DEF choice
      <4> QED
        BY <3>1, InsertedInPlace
    <3> QED
      BY <2>2, <3>2
  <2> QED
    BY <2>1, <2>2
<1>4. <<>> \in V
  OBVIOUS
<1>5. PICK iter : iter \in FoldsOf(N, V, <<>>, choice, step)
  <2> HIDE DEF N, V, choice, step
  <2>1. FoldsOf(N, V, <<>>, choice, step) # {}
    BY <1>1, <1>2, <1>3, <1>4, FoldExists
  <2> QED
    BY <2>1
<1>6. /\ iter \in [SUBSET N -> V]
      /\ \A s \in SUBSET N : iter[s] = FoldValue(<<>>, choice, step, iter, s)
  <2> HIDE DEF N, V, choice, step
  <2> QED
    BY <1>5 DEF FoldsOf
<1>7. ASSUME NEW s \in SUBSET N
      PROVE  iter[s] = IF s = {} THEN <<>> ELSE insert_sorted(order[Max(s)], iter[s \ {Max(s)}])
  <2>1. iter[s \ {Max(s)}] \in V /\ choice[s] = Max(s)
    BY <1>6
  <2>2. s # {} => step[<<s, iter[s \ {Max(s)}]>>]
                    = insert_sorted(order[Max(s)], iter[s \ {Max(s)}])
    <3> HIDE DEF choice
    <3> QED
      BY <2>1
  <2> HIDE DEF step, choice
  <2> QED
    BY <1>6, <2>1, <2>2 DEF FoldValue
<1>8. DOMAIN order = N
  OBVIOUS
<1>9. iter = WidgetsOf(order, iter)
  BY <1>6, <1>7, <1>8 DEF WidgetsOf
<1> QED
  BY <1>9

LEMMA WidgetsFolded ==
  ASSUME NEW D, NEW n \in Nat, NEW order \in [1 .. n -> D]
  PROVE  \E iter :
           /\ iter = WidgetsOf(order, iter)
           /\ FoldLeft(LAMBDA list, p : insert_sorted(p, list), <<>>, order) = iter[1 .. n]
<1> DEFINE iter == CHOOSE g : g = WidgetsOf(order, g)
<1>1. FoldLeft(LAMBDA list, p : insert_sorted(p, list), <<>>, order) = iter[DOMAIN order]
  BY DEF FoldLeft, MapThenFoldSet, WidgetsOf
<1>2. iter = WidgetsOf(order, iter)
  BY WidgetsExist
<1> HIDE DEF iter
<1>3. DOMAIN order = 1 .. n
  OBVIOUS
<1> QED
  BY <1>1, <1>2, <1>3

\* The list of the places of s, whatever the order they are filled in.
GoodWidgets(u, order, s) ==
  /\ ListOf(u, TakenAt(order, s)) /\ Len(u) = Cardinality(s)
  /\ LoadsAreInts /\ ExactLoads => Descending(u)

LEMMA WidgetsOfPlaces ==
  ASSUME NEW n \in Nat, NEW order \in [1 .. n -> DOMAIN process_table],
         \A i, j \in 1 .. n : i # j => order[i] # order[j],
         NEW iter, iter = WidgetsOf(order, iter)
  PROVE  \A s \in SUBSET (1 .. n) : GoodWidgets(iter[s], order, s)
<1> DEFINE N == 1 .. n
           Family == {s \in SUBSET N : GoodWidgets(iter[s], order, s)}
<1>1. IsFiniteSet(N) /\ DOMAIN order = N
  BY FS_Interval
<1>2. \A s \in SUBSET N :
        iter[s] = IF s = {} THEN <<>> ELSE insert_sorted(order[Max(s)], iter[s \ {Max(s)}])
  BY <1>1 DEF WidgetsOf
<1>3. ASSUME NEW s \in SUBSET N, \A t \in SUBSET s : t # s => t \in Family
      PROVE  s \in Family
  <2>1. CASE s = {}
    <3>1. iter[s] = <<>> /\ TakenAt(order, s) = {}
      BY <1>2, <2>1 DEF TakenAt
    <3>2. IsFiniteSet({}) /\ Cardinality({}) = 0
      BY FS_EmptySet
    <3>3. <<>> \in Seq({}) /\ Len(<<>>) = 0
      OBVIOUS
    <3>4. ListOf(<<>>, {})
      BY <3>2, <3>3 DEF ListOf
    <3>5. Descending(<<>>)
      BY <3>3 DEF Descending
    <3> QED
      BY <2>1, <3>1, <3>2, <3>3, <3>4, <3>5 DEF GoodWidgets
  <2>2. CASE s # {}
    <3> DEFINE m == Max(s)
               t == s \ {m}
               list == iter[t]
               p == order[m]
               Q == TakenAt(order, t)
    <3>1. m \in s /\ m \in N
      BY <2>2, GreatestPlace
    <3>2. t \in Family
      BY <1>3, <3>1
    <3>3. GoodWidgets(list, order, t)
      BY <3>2
    <3>4. iter[s] = insert_sorted(p, list)
      BY <1>2, <2>2
    <3>5. p \in DOMAIN process_table /\ Q \subseteq DOMAIN process_table
      BY <3>1 DEF TakenAt
    <3>6. p \notin Q /\ TakenAt(order, s) = Q \cup {p}
      BY <3>1 DEF TakenAt
    <3>7. Cardinality(s) = Cardinality(t) + 1
      <4>1. IsFiniteSet(t) /\ m \notin t /\ t \cup {m} = s
        BY <1>1, <3>1, FS_Subset
      <4> HIDE DEF t, m
      <4> QED
        BY <4>1, FS_AddElement
    <3> HIDE DEF m, t, list, p, Q
    <3>8. ListOf(list, Q) /\ Len(list) = Cardinality(t)
          /\ (LoadsAreInts /\ ExactLoads => Descending(list))
      BY <3>3 DEF GoodWidgets, Q
    <3>9. list \in Seq(Q) /\ list \in Seq(Q \cup {p})
      BY <3>8 DEF ListOf
    <3>10. insert_sorted(p, list) \in Seq(Q \cup {p})
           /\ \E k : IsPlace(k, p, list) /\ Inserted(insert_sorted(p, list), list, k, p)
      BY <3>9, InsertedInPlace
    <3>11. PICK k : IsPlace(k, p, list) /\ Inserted(insert_sorted(p, list), list, k, p)
      BY <3>10
    <3>12. ListOf(insert_sorted(p, list), Q \cup {p})
      BY <3>6, <3>8, <3>10, <3>11, InsertedIsListed
    <3>13. Len(insert_sorted(p, list)) = Cardinality(s)
      BY <3>7, <3>8, <3>11 DEF Inserted
    <3>14. ASSUME LoadsAreInts, ExactLoads PROVE Descending(insert_sorted(p, list))
      BY <3>5, <3>8, <3>9, <3>11, <3>14, InsertedInOrder
    <3> QED
      BY <3>4, <3>6, <3>12, <3>13, <3>14 DEF GoodWidgets
  <2> QED
    BY <2>1, <2>2
<1>4. \A s \in SUBSET N : s \in Family
  <2> HIDE DEF N, Family
  <2> QED
    BY <1>1, <1>3, SmallerSubsets
<1> QED
  BY <1>4

\* Whatever order the processes come out of the hash table in, each is in the list
\* once, and the busiest first unless a load has wrapped round.
LEMMA WidgetsAreListed ==
  ASSUME IsFiniteSet(DOMAIN process_table), NEW widgets \in WidgetLists
  PROVE  /\ ListOf(widgets, DOMAIN process_table)
         /\ LoadsAreInts /\ ExactLoads => Descending(widgets)
<1> DEFINE D == DOMAIN process_table
           n == Cardinality(D)
<1>1. n \in Nat
  BY FS_CardinalityType
<1>2. PICK order \in SetToSeqs(D) :
        widgets = FoldLeft(LAMBDA list, p : insert_sorted(p, list), <<>>, order)
  BY DEF WidgetLists
<1>3. order \in [1 .. n -> D] /\ \A i, j \in 1 .. n : i # j => order[i] # order[j]
  BY DEF SetToSeqs
<1>4. PICK iter : iter = WidgetsOf(order, iter) /\ widgets = iter[1 .. n]
  <2> HIDE DEF D, n
  <2> QED
    BY <1>1, <1>2, <1>3, WidgetsFolded
<1>5. GoodWidgets(widgets, order, 1 .. n)
  <2> HIDE DEF n
  <2>1. \A s \in SUBSET (1 .. n) : GoodWidgets(iter[s], order, s)
    BY <1>1, <1>3, <1>4, WidgetsOfPlaces
  <2> QED
    BY <1>4, <2>1
<1>6. TakenAt(order, 1 .. n) = D
  <2>1. TakenAt(order, 1 .. n) \subseteq D
    BY <1>3 DEF TakenAt
  <2>2. Cardinality(1 .. n) = n
    BY <1>1, FS_Interval
  <2>3. Cardinality(TakenAt(order, 1 .. n)) = n
    BY <1>5, <2>2 DEF GoodWidgets, ListOf
  <2> QED
    BY <2>1, <2>3, FS_Subset
<1> QED
  BY <1>5, <1>6 DEF GoodWidgets

-----------------------------------------------------------------------------
(* The timeouts and the list on the screen: their types.                   *)

ViewTypeOK ==
  /\ monitorIn \in 0 .. UPDATE_INTERVAL /\ viewIn \in 0 .. 6
  /\ proc_list \in Seq(Pid) /\ Len(proc_list) <= MAX_NUM_ELEMENTS
  /\ crashed \in BOOLEAN
  /\ IsFiniteSet(DOMAIN process_table)

\* What a step of the table does to the set of its rows.
LEMMA RowsStep ==
  ASSUME TableTypeOK, [MonitorStep]_systemVars
  PROVE  \E p : DOMAIN process_table' \subseteq DOMAIN process_table \cup {p}
<1>1. CASE UNCHANGED process_table
  BY <1>1
<1>2. CASE KernelNext
  BY <1>1, <1>2, RunningTypeStep DEF monitorVars
<1>3. CASE get_proclist
  BY <1>3 DEF get_proclist
<1>4. CASE \E p \in Pid : AddRow(p) \/ UpdateRow(p)
  BY <1>4, ReadingOfOne
<1>5. CASE RemoveRows
  BY <1>5 DEF RemoveRows
<1>6. CASE UNCHANGED systemVars
  BY <1>1, <1>6 DEF systemVars, monitorVars
<1> QED
  BY <1>2, <1>3, <1>4, <1>5, <1>6 DEF MonitorStep

\* The rows shown are the first of the list made.
LEMMA RowsShown ==
  ASSUME IsFiniteSet(DOMAIN process_table), update_cpu_view
  PROVE  \E widgets \in WidgetLists, m \in Nat :
           /\ ListOf(widgets, DOMAIN process_table)
           /\ LoadsAreInts /\ ExactLoads => Descending(widgets)
           /\ m <= Len(widgets) /\ m <= MAX_NUM_ELEMENTS
           /\ Len(widgets) > m => m = MAX_NUM_ELEMENTS
           /\ proc_list' = SubSeq(widgets, 1, m)
           /\ crashed' = (Len(widgets) < MAX_NUM_ELEMENTS)
<1>1. PICK widgets \in WidgetLists :
        /\ proc_list' = SubSeq(widgets, 1, Min({MAX_NUM_ELEMENTS, Len(widgets)}))
        /\ crashed' = (Len(widgets) < MAX_NUM_ELEMENTS)
  BY DEF update_cpu_view
<1>2. /\ ListOf(widgets, DOMAIN process_table)
      /\ LoadsAreInts /\ ExactLoads => Descending(widgets)
  BY WidgetsAreListed
<1>3. Len(widgets) \in Nat /\ MAX_NUM_ELEMENTS \in Nat
  BY <1>2, ApplicationAssumption DEF ListOf
<1> DEFINE m == Min({MAX_NUM_ELEMENTS, Len(widgets)})
<1>4. m \in {MAX_NUM_ELEMENTS, Len(widgets)} /\ m <= MAX_NUM_ELEMENTS /\ m <= Len(widgets)
  BY <1>3 DEF Min
<1> HIDE DEF m
<1>5. m \in Nat /\ (Len(widgets) > m => m = MAX_NUM_ELEMENTS)
  BY <1>3, <1>4
<1> QED
  BY <1>1, <1>2, <1>4, <1>5 DEF m

LEMMA PrefixShown ==
  ASSUME NEW S, NEW u, u \in Seq(S), NEW m \in Nat, m <= Len(u)
  PROVE  /\ SubSeq(u, 1, m) \in Seq(S) /\ Len(SubSeq(u, 1, m)) = m
         /\ DOMAIN SubSeq(u, 1, m) = 1 .. m
         /\ \A i \in 1 .. m : SubSeq(u, 1, m)[i] = u[i]
OBVIOUS

LEMMA TickOfBoth ==
  ASSUME ViewTypeOK, Tick
  PROVE  \E quarters \in Nat \ {0} :
           /\ quarters <= monitorIn /\ quarters <= viewIn
           /\ monitorIn' = monitorIn - quarters /\ viewIn' = viewIn - quarters
<1> DEFINE quarters == Min({monitorIn, viewIn})
<1>1. monitorIn \in Nat /\ viewIn \in Nat
  BY DEF ViewTypeOK
<1>2. quarters \in {monitorIn, viewIn} /\ quarters <= monitorIn /\ quarters <= viewIn
  BY <1>1 DEF Min
<1>3. quarters > 0 /\ monitorIn' = monitorIn - quarters /\ viewIn' = viewIn - quarters
  BY DEF Tick
<1> HIDE DEF quarters
<1>4. quarters \in Nat \ {0}
  BY <1>1, <1>2, <1>3
<1> QED
  BY <1>2, <1>3, <1>4

LEMMA ViewTypeStart ==
  ASSUME Init
  PROVE  ViewTypeOK
<1>1. monitorIn \in 0 .. UPDATE_INTERVAL /\ viewIn \in 0 .. 6
  BY ApplicationAssumption DEF Init, FirstUpdate
<1>2. DOMAIN process_table = {}
  BY DEF Init, MonitorInit
<1>3. IsFiniteSet(DOMAIN process_table)
  BY <1>2, FS_EmptySet
<1>4. proc_list \in Seq(Pid) /\ Len(proc_list) <= MAX_NUM_ELEMENTS /\ crashed \in BOOLEAN
  <2>1. <<>> \in Seq(Pid) /\ Len(<<>>) = 0 /\ 0 <= MAX_NUM_ELEMENTS
    BY ApplicationAssumption
  <2>2. proc_list = <<>> /\ crashed = FALSE
    BY DEF Init
  <2> QED
    BY <2>1, <2>2
<1> QED
  BY <1>1, <1>3, <1>4 DEF ViewTypeOK

LEMMA ViewTypeStep ==
  ASSUME TableTypeOK, ViewTypeOK, [Next]_vars
  PROVE  ViewTypeOK'
<1>1. IsFiniteSet(DOMAIN process_table)'
  <2>1. PICK p : DOMAIN process_table' \subseteq DOMAIN process_table \cup {p}
    BY RowsStep, StepIsStepOfEach
  <2>2. IsFiniteSet(DOMAIN process_table \cup {p})
    BY FS_AddElement DEF ViewTypeOK
  <2> QED
    BY <2>1, <2>2, FS_Subset
<1>2. ASSUME UNCHANGED <<monitorIn, viewIn, proc_list, crashed>> PROVE ViewTypeOK'
  BY <1>1, <1>2 DEF ViewTypeOK
<1>3. CASE Kernel \/ User \/ BeginUpdate \/ ReadProcess
  BY <1>2, <1>3 DEF Kernel, User, BeginUpdate, ReadProcess
<1>4. CASE EndUpdate
  <2>1. monitorIn' \in 0 .. UPDATE_INTERVAL
    BY <1>4, ApplicationAssumption DEF EndUpdate
  <2> QED
    BY <1>1, <1>4, <2>1 DEF EndUpdate, ViewTypeOK
<1>5. CASE update_cpu_view
  <2>1. PICK widgets \in WidgetLists, m \in Nat :
           /\ ListOf(widgets, DOMAIN process_table)
           /\ m <= Len(widgets) /\ m <= MAX_NUM_ELEMENTS
           /\ proc_list' = SubSeq(widgets, 1, m)
           /\ crashed' = (Len(widgets) < MAX_NUM_ELEMENTS)
    BY <1>5, RowsShown DEF ViewTypeOK
  <2>2. widgets \in Seq(DOMAIN process_table) /\ DOMAIN process_table \subseteq Pid
    BY <2>1 DEF ListOf, TableTypeOK, MonitorTypeOK
  <2>3. widgets \in Seq(Pid)
    BY <2>2
  <2>4. proc_list' \in Seq(Pid) /\ Len(proc_list') = m
    BY <2>1, <2>3, PrefixShown
  <2>5. monitorIn' = monitorIn /\ viewIn' = 4
    BY <1>5 DEF update_cpu_view
  <2> QED
    BY <1>1, <2>1, <2>4, <2>5 DEF ViewTypeOK
<1>6. CASE Tick
  <2>1. PICK quarters \in Nat \ {0} :
           /\ quarters <= monitorIn /\ quarters <= viewIn
           /\ monitorIn' = monitorIn - quarters /\ viewIn' = viewIn - quarters
    BY <1>6, TickOfBoth
  <2>2. monitorIn' \in 0 .. UPDATE_INTERVAL /\ viewIn' \in 0 .. 6
    BY <2>1, ApplicationAssumption DEF ViewTypeOK
  <2> QED
    BY <1>1, <1>6, <2>2 DEF Tick, ViewTypeOK
<1>7. CASE UNCHANGED vars
  BY <1>2, <1>7 DEF vars
<1> QED
  BY <1>3, <1>4, <1>5, <1>6, <1>7 DEF Next, Ended

LEMMA ViewTypeInvariant == Spec => [](TableTypeOK /\ ViewTypeOK)
<1>1. Init => ViewTypeOK
  BY ViewTypeStart
<1>2. TableTypeOK /\ ViewTypeOK /\ [Next]_vars => ViewTypeOK'
  BY ViewTypeStep
<1> QED
  BY <1>1, <1>2, TableTypeInvariant, PTL DEF Spec

\* The monitor, the storage view, the timeouts and the list of the CPU view keep
\* their types, for any processes and any tree: above all, no more rows are shown
\* than MAX_NUM_ELEMENTS (usage-cpu-view.vala).
THEOREM ApplicationTyped == Spec => []TypeOK
<1>1. TableTypeOK /\ ViewTypeOK /\ StorageInv => TypeOK
  BY DEF TableTypeOK, ViewTypeOK, StorageInv, TypeOK
<1> QED
  BY <1>1, ViewTypeInvariant, StorageInvariant, PTL

-----------------------------------------------------------------------------
(* The rows the CPU view takes.                                            *)

\* While the table is brought up to date, the pids still to be read and the rows that
\* have been are those of the list; between two updates the rows are.
ListInv ==
  /\ updating => pids \cup Alive = proclist
  /\ ~ updating => DOMAIN process_table = proclist
  /\ RowsOfTheListAreThere

LEMMA ListInvStep ==
  ASSUME TableTypeOK, ViewTypeOK, ListInv, [Next]_vars
  PROVE  ListInv'
<1>1. CASE Kernel
  <2>1. UNCHANGED <<monitorVars, crashed>>
    BY <1>1, RunningTypeStep DEF Kernel
  <2> QED
    BY <2>1 DEF ListInv, RowsOfTheListAreThere, monitorVars, Alive
<1>2. CASE User
  BY <1>2 DEF User, ListInv, RowsOfTheListAreThere, systemVars, monitorVars, Alive
<1>3. CASE BeginUpdate
  <2>1. /\ updating' = TRUE /\ pids' = DOMAIN running /\ proclist' = DOMAIN running
        /\ process_table' = [p \in DOMAIN process_table |->
                               [process_table[p] EXCEPT !.alive = FALSE]]
        /\ ~ crashed /\ crashed' = crashed
    BY <1>3 DEF BeginUpdate, get_proclist
  <2>2. Alive' = {}
    <3>1. \A p \in DOMAIN process_table : process_table[p] \in Row
      BY DEF TableTypeOK, MonitorTypeOK
    <3>2. \A p \in DOMAIN process_table' : ~ process_table'[p].alive
      BY <2>1, <3>1 DEF Row
    <3> QED
      BY <3>2 DEF Alive
  <2> QED
    BY <2>1, <2>2 DEF ListInv, RowsOfTheListAreThere
<1>4. CASE ReadProcess
  <2>1. PICK p \in Pid : AddRow(p) \/ UpdateRow(p)
    BY <1>4 DEF ReadProcess
  <2>2. /\ updating' = updating /\ updating /\ proclist' = proclist
        /\ p \in pids /\ pids' = pids \ {p}
        /\ DOMAIN process_table' = DOMAIN process_table \cup {p}
        /\ \A q \in DOMAIN process_table : q # p => process_table'[q] = process_table[q]
        /\ process_table'[p].alive
    BY <2>1, ReadingOfOne
  <2>3. (pids \cup Alive)' = pids \cup Alive
    BY <2>2 DEF Alive
  <2>4. crashed' = crashed
    BY <1>4 DEF ReadProcess
  <2> QED
    BY <2>2, <2>3, <2>4 DEF ListInv, RowsOfTheListAreThere
<1>5. CASE EndUpdate
  <2>1. /\ updating /\ updating' = FALSE /\ pids = {} /\ proclist' = proclist
        /\ DOMAIN process_table' = Alive /\ crashed' = crashed
    BY <1>5 DEF EndUpdate, RemoveRows, Alive
  <2> QED
    BY <2>1 DEF ListInv, RowsOfTheListAreThere
<1>6. CASE update_cpu_view
  <2>1. ~ updating /\ UNCHANGED systemVars
    BY <1>6 DEF update_cpu_view
  <2>2. /\ updating' = updating /\ proclist' = proclist
        /\ process_table' = process_table
    BY <2>1 DEF systemVars, monitorVars
  <2>3. PICK widgets \in WidgetLists :
          /\ ListOf(widgets, DOMAIN process_table)
          /\ crashed' = (Len(widgets) < MAX_NUM_ELEMENTS)
    BY <1>6, RowsShown DEF ViewTypeOK
  <2>4. Len(widgets) = Cardinality(proclist)
    BY <2>1, <2>3 DEF ListOf, ListInv
  <2>5. crashed' => Cardinality(proclist) < MAX_NUM_ELEMENTS
    <3>1. crashed' => Len(widgets) < MAX_NUM_ELEMENTS
      BY <2>3, Zenon
    <3> QED
      BY <2>4, <3>1
  <2> QED
    BY <2>1, <2>2, <2>5 DEF ListInv, RowsOfTheListAreThere
<1>7. CASE Tick
  BY <1>7 DEF Tick, ListInv, RowsOfTheListAreThere, systemVars, monitorVars, Alive
<1>8. CASE UNCHANGED vars
  BY <1>8 DEF vars, ListInv, RowsOfTheListAreThere, systemVars, monitorVars, Alive
<1> QED
  BY <1>1, <1>2, <1>3, <1>4, <1>5, <1>6, <1>7, <1>8 DEF Next, Ended

\* The CPU view (usage-cpu-view.vala) ends the application only before the first update
\* of the monitor, or when the list of the user's processes was shorter than its own:
\* for any processes, whatever starts and exits while the table is brought up to date,
\* and whenever the timeouts come.
THEOREM RowsAreTaken == Spec => []RowsOfTheListAreThere
<1>1. Init => ListInv
  BY DEF Init, MonitorInit, ListInv, RowsOfTheListAreThere
<1>2. TableTypeOK /\ ViewTypeOK /\ ListInv /\ [Next]_vars => ListInv'
  BY ListInvStep
<1>3. ListInv => RowsOfTheListAreThere
  BY DEF ListInv
<1> QED
  BY <1>1, <1>2, <1>3, ViewTypeInvariant, PTL DEF Spec

\* As long as the sort numbers are in the range of int, the CPU view shows the busiest
\* processes, the busiest first and each once, as far as a thousandth of the machine
\* tells them apart and in whatever order they come out of the hash table, unless a
\* load has wrapped round (usage-cpu-view.vala).
THEOREM BusiestFirst ==
  ASSUME LoadsAreInts
  PROVE  Spec => CPUViewShowsTheBusiest
<1>1. ASSUME TableTypeOK, ViewTypeOK, [Next]_vars PROVE [BusiestShown]_vars
  <2> SUFFICES ASSUME viewIn' > viewIn,
                      \A p \in DOMAIN process_table : ~ (process_table[p].load > MaxJiffies)
               PROVE  /\ \A i, j \in DOMAIN proc_list' :
                           i < j => /\ proc_list'[i] # proc_list'[j]
                                    /\ ~ Busier(proc_list'[j], proc_list'[i])
                      /\ \A i \in DOMAIN proc_list', p \in DOMAIN process_table :
                           Busier(p, proc_list'[i]) => p \in Range(proc_list')
    BY DEF BusiestShown
  <2>1. update_cpu_view
    <3>1. viewIn \in Nat
      BY <1>1 DEF ViewTypeOK
    <3>2. ~ (viewIn' = viewIn)
      BY <3>1
    <3>3. ~ Tick
      BY <1>1, <3>1, TickOfBoth DEF ViewTypeOK
    <3> QED
      BY <1>1, <3>2, <3>3
      DEF Next, vars, Kernel, User, BeginUpdate, ReadProcess, EndUpdate, Ended
  <2>2. ExactLoads
    <3>1. \A p \in DOMAIN process_table : process_table[p].load \in Nat
      BY <1>1 DEF TableTypeOK, MonitorTypeOK, Row
    <3>2. total \in Totals
      BY <1>1 DEF TableTypeOK, MonitorTypeOK
    <3> QED
      BY <3>1, <3>2, MonitorAssumption DEF ExactLoads
  <2>3. PICK widgets \in WidgetLists, m \in Nat :
           /\ ListOf(widgets, DOMAIN process_table)
           /\ Descending(widgets)
           /\ m <= Len(widgets)
           /\ proc_list' = SubSeq(widgets, 1, m)
    BY <1>1, <2>1, <2>2, RowsShown DEF ViewTypeOK
  <2>4. /\ widgets \in Seq(DOMAIN process_table) /\ Len(widgets) \in Nat
        /\ \A i, j \in 1 .. Len(widgets) : i # j => widgets[i] # widgets[j]
        /\ \A q \in DOMAIN process_table : \E i \in 1 .. Len(widgets) : widgets[i] = q
        /\ \A i, j \in 1 .. Len(widgets) : i < j => Load(widgets[i]) >= Load(widgets[j])
        /\ \A i \in 1 .. Len(widgets) : widgets[i] \in DOMAIN process_table
    BY <2>3 DEF ListOf, Descending
  <2>5. DOMAIN proc_list' = 1 .. m /\ \A i \in 1 .. m : proc_list'[i] = widgets[i]
    BY <2>3, <2>4, PrefixShown
  <2>6. 1 .. m \subseteq 1 .. Len(widgets)
    BY <2>3, <2>4
  <2>7. ASSUME NEW p \in DOMAIN process_table, NEW q \in DOMAIN process_table, Busier(p, q)
        PROVE  Load(p) \in Nat /\ Load(q) \in Nat /\ Load(p) > Load(q)
    <3> DEFINE a == SCALE * process_table[p].load
               b == SCALE * process_table[q].load
    <3>1. a \in Nat /\ b \in Nat /\ total \in Nat \ {0}
      <4>1. /\ process_table[p].load \in Nat /\ process_table[q].load \in Nat
            /\ total \in Nat \ {0} /\ SCALE \in Nat
        BY <2>2, MonitorAssumption, ApplicationAssumption DEF ExactLoads
      <4> QED
        BY <4>1, ProductInOrder
    <3>2. a > b + total
      BY <2>7 DEF Busier
    <3>3. Load(p) = a \div total /\ Load(q) = b \div total
      BY DEF Load
    <3> HIDE DEF a, b
    <3>4. a \div total \in Nat /\ b \div total \in Nat
      BY <3>1, Quotient
    <3>5. a \div total > b \div total
      BY <3>1, <3>2, QuotientApart
    <3> QED
      BY <3>3, <3>4, <3>5
  <2>8. ASSUME NEW i \in 1 .. m, NEW j \in 1 .. m, i < j
        PROVE  proc_list'[i] # proc_list'[j] /\ ~ Busier(proc_list'[j], proc_list'[i])
    <3>1. /\ i \in 1 .. Len(widgets) /\ j \in 1 .. Len(widgets) /\ i # j
          /\ proc_list'[i] = widgets[i] /\ proc_list'[j] = widgets[j]
      BY <2>5, <2>6, <2>8
    <3>2. widgets[i] # widgets[j] /\ Load(widgets[i]) >= Load(widgets[j])
      BY <2>4, <2>8, <3>1
    <3>3. ~ Busier(widgets[j], widgets[i])
      <4> SUFFICES ASSUME Busier(widgets[j], widgets[i])
                   PROVE  FALSE
        OBVIOUS
      <4>1. /\ Load(widgets[j]) \in Nat /\ Load(widgets[i]) \in Nat
            /\ Load(widgets[j]) > Load(widgets[i])
        BY <2>4, <2>7, <3>1
      <4> QED
        BY <3>2, <4>1
    <3> QED
      BY <3>1, <3>2, <3>3
  <2>9. ASSUME NEW i \in 1 .. m, NEW p \in DOMAIN process_table, Busier(p, proc_list'[i])
        PROVE  p \in Range(proc_list')
    <3>1. PICK j \in 1 .. Len(widgets) : widgets[j] = p
      BY <2>4
    <3>2. /\ i \in 1 .. Len(widgets) /\ Busier(widgets[j], widgets[i])
          /\ widgets[i] \in DOMAIN process_table
      BY <2>4, <2>5, <2>6, <2>9, <3>1
    <3>3. /\ Load(widgets[j]) \in Nat /\ Load(widgets[i]) \in Nat
          /\ Load(widgets[j]) > Load(widgets[i])
      BY <2>7, <3>1, <3>2
    <3>4. j <= i
      BY <2>4, <3>2, <3>3
    <3>5. j \in 1 .. m
      BY <3>4
    <3>6. proc_list'[j] = p
      BY <2>5, <3>1, <3>5
    <3> QED
      BY <2>5, <3>5, <3>6 DEF Range
  <2> QED
    BY <2>5, <2>8, <2>9
<1> QED
  BY <1>1, ViewTypeInvariant, PTL DEF Spec, CPUViewShowsTheBusiest

=============================================================================
