---------------------------- MODULE SystemMonitor ----------------------------
(***************************************************************************)
(* The system monitor of the application (src/usage-system-monitor.vala):  *)
(* its table of the processes of the user, against the processes the       *)
(* kernel runs, which start, compute and exit while the table is brought   *)
(* up to date.                                                             *)
(*                                                                         *)
(* Times are jiffies.  A load, a fraction of what all the processors of    *)
(* the machine count between two readings, is kept as its numerator; the   *)
(* denominator is the same for all the rows.  Names, memory and the other  *)
(* figures of the whole machine, which are read and shown and steer        *)
(* nothing, are left out.                                                  *)
(***************************************************************************)
EXTENDS Integers, FiniteSets

CONSTANTS
  Pid,
  U64,         \* 2^64, the modulus of guint64
  Totals,      \* the jiffies the processors may count between two updates
  MinProcs,    \* the processes the user has at any time, the desktop's own
  MaxStarts,   \* bound: the processes started in all
  MaxJiffies   \* bound: the jiffies used in all

ASSUME MonitorAssumption ==
  /\ U64 \in Nat \ {0}
  /\ Totals \subseteq Nat \ {0}
  /\ MinProcs \in Nat /\ MaxStarts \in Nat /\ MinProcs <= MaxStarts
  /\ MaxJiffies \in Nat

VARIABLES
  running,       \* the processes of the user by pid: their number and their time
  started,       \* processes started so far
  used,          \* jiffies used so far
  updating,      \* the timeout of the monitor is being handled
  pids,          \* the pids of the list that are still to be read
  total,         \* cpu_data.total - cpu_last_total, at the last update
  process_table  \* the rows, by pid

\* History variables, which no action reads.
VARIABLES
  proclist,        \* the pids of the last list, none before the first
  throughout,    \* pids of the processes that have run since the list was read
  ever,          \* pids of those that have run at any time since then
  base,          \* the process a row was made for, and its time when it was
  counted        \* the sum of the loads of a row

kernelVars  == <<running, started, used>>
monitorVars == <<updating, pids, total, process_table, proclist, base, counted>>
systemVars  == <<kernelVars, monitorVars, throughout, ever>>

-----------------------------------------------------------------------------

Row == [load : Nat, cpu_last_used : Nat, alive : BOOLEAN]

\* The table f with x mapped to y, x being new to f or not.
With(f, x, y) == [z \in DOMAIN f \cup {x} |-> IF z = x THEN y ELSE f[z]]

MonitorTypeOK ==
  /\ DOMAIN running \subseteq Pid
  /\ running \in [DOMAIN running -> [number : 1 .. MaxStarts, rtime : 0 .. MaxJiffies]]
  /\ started \in 0 .. MaxStarts /\ used \in 0 .. MaxJiffies
  /\ updating \in BOOLEAN
  /\ pids \cup proclist \subseteq Pid
  /\ total \in Totals
  /\ DOMAIN process_table \subseteq Pid
  /\ process_table \in [DOMAIN process_table -> Row]

MonitorInit ==
  /\ \E P \in SUBSET Pid :
       /\ Cardinality(P) = MinProcs
       /\ running \in {f \in [P -> [number : 1 .. MinProcs, rtime : {0}]] :
                         \A p, q \in P : f[p] = f[q] => p = q}
  /\ started = MinProcs /\ used = 0
  /\ updating = FALSE /\ pids = {} /\ total \in Totals /\ process_table = <<>>
  /\ proclist = {} /\ throughout = {} /\ ever = {} /\ base = <<>> /\ counted = <<>>

-----------------------------------------------------------------------------
(* The kernel.                                                             *)

Start(p) ==
  /\ p \notin DOMAIN running
  /\ started < MaxStarts /\ started' = started + 1
  /\ running' = With(running, p, [number |-> started', rtime |-> 0])
  /\ ever' = ever \cup {p}
  /\ UNCHANGED <<used, throughout, monitorVars>>

Exit(p) ==
  /\ p \in DOMAIN running /\ Cardinality(DOMAIN running) > MinProcs
  /\ running' = [q \in DOMAIN running \ {p} |-> running[q]]
  /\ throughout' = throughout \ {p}
  /\ UNCHANGED <<started, used, ever, monitorVars>>

Work(p) ==
  /\ p \in DOMAIN running
  /\ used < MaxJiffies /\ used' = used + 1
  /\ running' = [running EXCEPT ![p].rtime = @ + 1]
  /\ UNCHANGED <<started, throughout, ever, monitorVars>>

-----------------------------------------------------------------------------
(* The timeout of the monitor, one reading of the kernel at a time.        *)

\* The jiffies of the machine are read, the rows are marked, and the list of the
\* pids is read.
get_proclist ==
  /\ ~ updating /\ updating' = TRUE
  /\ process_table' = [p \in DOMAIN process_table |->
                         [process_table[p] EXCEPT !.alive = FALSE]]
  /\ total' \in Totals
  /\ pids' = DOMAIN running /\ proclist' = DOMAIN running
  /\ throughout' = DOMAIN running /\ ever' = DOMAIN running
  /\ UNCHANGED <<kernelVars, base, counted>>

\* glibtop leaves zero for a process that is gone.
get_proc_time(p) == IF p \in DOMAIN running THEN running[p].rtime ELSE 0

AddRow(p) ==
  /\ updating /\ p \in pids \ DOMAIN process_table
  /\ pids' = pids \ {p}
  /\ process_table' =
       With(process_table, p,
            [load |-> 0, cpu_last_used |-> get_proc_time(p), alive |-> TRUE])
  /\ base' = With(base, p, [number |-> IF p \in DOMAIN running
                                       THEN running[p].number ELSE 0,
                            rtime  |-> get_proc_time(p)])
  /\ counted' = With(counted, p, 0)
  /\ UNCHANGED <<kernelVars, updating, total, proclist, throughout, ever>>

\* Mutation: the time at the last reading is not kept.
UpdateLoadOnly(p) ==
  /\ updating /\ p \in pids \cap DOMAIN process_table
  /\ pids' = pids \ {p}
  /\ LET load == (get_proc_time(p) - process_table[p].cpu_last_used) % U64
     IN  /\ process_table' = [process_table EXCEPT ![p].load = load, ![p].alive = TRUE]
         /\ counted' = [counted EXCEPT ![p] = @ + load]
  /\ UNCHANGED <<kernelVars, updating, total, proclist, base, throughout, ever>>

\* The difference is unsigned: a time that is less than the last wraps round.
UpdateRow(p) ==
  /\ updating /\ p \in pids \cap DOMAIN process_table
  /\ pids' = pids \ {p}
  /\ LET load == (get_proc_time(p) - process_table[p].cpu_last_used) % U64
     IN  /\ process_table' =
              [process_table EXCEPT
                 ![p] = [load |-> load, cpu_last_used |-> get_proc_time(p),
                         alive |-> TRUE]]
         /\ counted' = [counted EXCEPT ![p] = @ + load]
  /\ UNCHANGED <<kernelVars, updating, total, proclist, base, throughout, ever>>

\* Mutation: the rows that are not alive stay.
KeepRows ==
  /\ updating /\ pids = {}
  /\ updating' = FALSE
  /\ UNCHANGED <<kernelVars, pids, total, process_table, proclist, base, counted, throughout,
                 ever>>

\* The rows that were not in the list go.
RemoveRows ==
  /\ updating /\ pids = {}
  /\ updating' = FALSE
  /\ LET kept == {p \in DOMAIN process_table : process_table[p].alive}
     IN  /\ process_table' = [p \in kept |-> process_table[p]]
         /\ base' = [p \in kept |-> base[p]]
         /\ counted' = [p \in kept |-> counted[p]]
  /\ UNCHANGED <<kernelVars, pids, total, proclist, throughout, ever>>

KernelNext == \E p \in Pid : Start(p) \/ Exit(p) \/ Work(p)

-----------------------------------------------------------------------------
(* Properties.                                                             *)

\* Between two updates the table has every process that has run since the list was
\* read, and none that was gone by then.
TableIsTheSystem ==
  ~ updating => throughout \subseteq DOMAIN process_table
                /\ DOMAIN process_table \subseteq ever

\* A row of the process it was made for: the pid is not that of another by now.
SameProcess(p) == p \in DOMAIN running /\ running[p].number = base[p].number

\* Every jiffy of a process that goes on running is in one load of its row, from the
\* reading that made the row to the last: none is counted twice, none is lost, and
\* no load has wrapped round.
EveryJiffyOnce ==
  \A p \in DOMAIN process_table :
    SameProcess(p) =>
      /\ base[p].rtime + counted[p] = process_table[p].cpu_last_used
      /\ process_table[p].cpu_last_used <= running[p].rtime

=============================================================================
