---------------------------- MODULE NAProcTables ----------------------------
(***************************************************************************)
(* Which process a connection belongs to: the two tables the network       *)
(* analyzer fills from /proc (network-analyzer/na-conninode.c and          *)
(* na-inodeproc.c), and the search through them by                         *)
(* na_process_find_from_connection() (na-process.c).                       *)
(*                                                                         *)
(* The tables are never emptied.  conninode maps the end points of a       *)
(* connection to the inode of its socket, inodeproc an inode to a process. *)
(* They are refreshed when something is not in them, and conninode with    *)
(* each report as well, by reading /proc bit by bit while the processes of *)
(* the system go on starting, exiting, opening, sharing and closing        *)
(* sockets.                                                                *)
(*                                                                         *)
(* The kernel is external.  It gives a new inode to each socket, lists the *)
(* processes in the order of their pids, and lists what is there all the   *)
(* time of a listing; what comes during it may be listed or not.           *)
(***************************************************************************)
EXTENDS NAPacket

CONSTANTS
  Pid, Inode,     \* sets of positive numbers
  Name,           \* command lines
  NULL,           \* the name of a process that is not there
  V4Mapped,       \* the IPv4 address in each IPv6 address ::ffff:a.b.c.d
  Rows,           \* the sockets that may be opened, rows of /proc/net
  Wire,           \* the reference packets of the connections
  ReuseKey,       \* whether the end points of a closed socket are used again
  ReusePid        \* whether the pid of an exited process is used again

\* /proc/net/tcp, tcp6, udp and udp6, in the order they are read.
File == 1 .. 4

ASSUME TablesAssumption ==
  /\ Pid \subseteq Nat \ {0} /\ Inode \subseteq Nat \ {0}
  /\ NULL \notin Name
  /\ DOMAIN V4Mapped \subseteq Address6
  /\ \A a \in DOMAIN V4Mapped : V4Mapped[a] \in Address4
  /\ Rows \subseteq [header : Header, file : File]
  /\ \A r \in Rows : r.header.src \in DOMAIN V4Mapped <=> r.header.dst \in DOMAIN V4Mapped
  /\ Wire \subseteq Header
  /\ ReuseKey \in BOOLEAN /\ ReusePid \in BOOLEAN

VARIABLES
  program,    \* the kernel: the name of each process, NULL when there is none
  started,    \*   the pids used so far
  socket,     \*   the sockets there are or were, with the processes that hold them
  conninode,  \* the two tables
  inodeproc,
  processes,  \* the process list: the name of each process that has a pid
  pc,         \* where na_process_find_from_connection() is, or the report
  key,        \*   hashstring, NULL when there is none
  again,      \*   the refresh is that of na_inodeproc_table_find_pid()
  pids,       \*   the processes there were when the listing of /proc began
  visiting,   \*   the process whose fd directory is read
  file,       \*   the file of /proc/net that is read
  entries,    \*   the inodes there were when its reading began
  read,       \*   those that were read, and more
  link,       \*   the inode read last
  result      \* the pid of the process it found, 0 for a process without

kernel == <<program, started, socket>>
tables == <<conninode, inodeproc>>
walk == <<pids, visiting, file, entries, read, link>>
vars == <<kernel, tables, processes, pc, key, again, walk, result>>

-----------------------------------------------------------------------------

With(f, x, y) == [z \in DOMAIN f \cup {x} |-> IF z = x THEN y ELSE f[z]]

Key     == HeaderOf(Address4 \cup Address6)
Socket  == [header : {r.header : r \in Rows}, file : File, holders : SUBSET Pid]
Program == [pid : Pid, name : Name \cup {NULL}]

Running == {p \in Pid : program[p] # NULL}
Held(p) == {i \in DOMAIN socket : p \in socket[i].holders}
Open    == {i \in DOMAIN socket : socket[i].holders # {}}
InFile(f) == {i \in Open : socket[i].file = f}

TypeOK ==
  /\ program \in [Pid -> Name \cup {NULL}] /\ started \subseteq Pid
  /\ DOMAIN socket \subseteq Inode /\ \A i \in DOMAIN socket : socket[i] \in Socket
  /\ DOMAIN conninode \subseteq Key /\ \A k \in DOMAIN conninode : conninode[k] \in Inode
  /\ DOMAIN inodeproc \subseteq Inode
  /\ \A i \in DOMAIN inodeproc : inodeproc[i] \in Program
  /\ DOMAIN processes \subseteq Pid
  /\ \A p \in DOMAIN processes : processes[p] \in Name \cup {NULL}
  /\ pc \in {"idle", "proc", "fd", "cmdline", "net", "inode", "report", "timeout"}
  /\ key \in Header \cup {NULL} /\ again \in BOOLEAN
  /\ pids \subseteq Pid /\ visiting \in Pid \cup {0} /\ file \in File \cup {0}
  /\ entries \cup read \subseteq Inode /\ link \in Inode \cup {0}
  /\ (pc \in {"fd", "cmdline"} => visiting # 0) /\ (pc = "cmdline" => link # 0)
  /\ result \in Pid \cup {0}

Init ==
  /\ program = [p \in Pid |-> NULL] /\ started = {} /\ socket = <<>>
  /\ conninode = <<>> /\ inodeproc = <<>> /\ processes = <<>>
  /\ pc = "idle" /\ key = NULL /\ again = FALSE /\ result = 0
  /\ pids = {} /\ visiting = 0 /\ file = 0 /\ entries = {} /\ read = {} /\ link = 0

-----------------------------------------------------------------------------
(* The system.  Nothing here waits for the network analyzer.               *)

analyzer == <<tables, processes, pc, key, again, walk, result>>

StartProgram(p, name) ==
  /\ program[p] = NULL /\ (ReusePid \/ p \notin started)
  /\ program' = [program EXCEPT ![p] = name]
  /\ started' = started \cup {p}
  /\ UNCHANGED <<socket, analyzer>>

Exit(p) ==
  /\ program[p] # NULL
  /\ program' = [program EXCEPT ![p] = NULL]
  /\ socket' = [i \in DOMAIN socket |-> [socket[i] EXCEPT !.holders = @ \ {p}]]
  /\ UNCHANGED <<started, analyzer>>

\* No two open sockets have the same end points.
OpenSocket(p, row) ==
  /\ program[p] # NULL
  /\ \A i \in DOMAIN socket :
       socket[i].header = row.header => ReuseKey /\ i \notin Open
  /\ \E i \in Inode \ DOMAIN socket :
       /\ \A j \in Inode \ DOMAIN socket : i <= j
       /\ socket' = With(socket, i, [header |-> row.header, file |-> row.file,
                                     holders |-> {p}])
  /\ UNCHANGED <<program, started, analyzer>>

\* A process inherits a socket, or is passed one.
ShareSocket(p, i) ==
  /\ program[p] # NULL /\ i \in Open \ Held(p)
  /\ socket' = [socket EXCEPT ![i].holders = @ \cup {p}]
  /\ UNCHANGED <<program, started, analyzer>>

\* A socket nobody holds has no row in /proc/net, or one with inode 0 (TIME_WAIT),
\* which addtoconninode() passes over.
CloseSocket(p, i) ==
  /\ i \in Held(p)
  /\ socket' = [socket EXCEPT ![i].holders = @ \ {p}]
  /\ UNCHANGED <<program, started, analyzer>>

Kernel ==
  \/ \E p \in Pid, name \in Name : StartProgram(p, name)
  \/ \E p \in Pid : Exit(p)
  \/ \E p \in Pid, row \in Rows : OpenSocket(p, row)
  \/ \E p \in Pid, i \in Inode : ShareSocket(p, i)
  \/ \E p \in Pid, i \in Inode : CloseSocket(p, i)

-----------------------------------------------------------------------------
(* na_inodeproc_table_refresh(): all processes, all their open files.      *)

\* opendir ("/proc")
BeginProc ==
  /\ pids' = Running /\ visiting' = 0
  /\ UNCHANGED <<file, entries, read, link>>

ProcWalk == <<kernel, conninode, processes, key, again, file, result>>

\* The processes there were all the time and were not visited.
ToVisit == {q \in pids \cap Running : q > visiting}

\* get_info_for_pid().  When opendir() fails the process is passed over.
get_info_for_pid(p) ==
  /\ pc = "proc"
  /\ p \in Running /\ p > visiting /\ \A q \in ToVisit : p <= q
  /\ pc' = "fd" /\ visiting' = p /\ entries' = Held(p) /\ read' = {}
  /\ UNCHANGED <<ProcWalk, inodeproc, pids, link>>

\* The link names a socket.
ReadLink(i) ==
  /\ pc = "fd"
  /\ i \in Held(visiting) \ read
  /\ pc' = "cmdline" /\ read' = read \cup {i} /\ link' = i
  /\ UNCHANGED <<ProcWalk, inodeproc, pids, visiting, entries>>

\* Mutation: the names are read into the same buffer.
share_buffer ==
  /\ pc = "cmdline"
  /\ inodeproc' = [i \in DOMAIN inodeproc \cup {link} |->
                     [pid  |-> IF i = link THEN visiting ELSE inodeproc[i].pid,
                      name |-> program[visiting]]]
  /\ pc' = "fd" /\ link' = 0
  /\ UNCHANGED <<ProcWalk, pids, visiting, entries, read>>

\* The rest of get_info_by_linkname(): getprogname() finds no cmdline when the
\* process has exited since then.
get_info_by_linkname ==
  /\ pc = "cmdline"
  /\ inodeproc' = With(inodeproc, link, [pid |-> visiting, name |-> program[visiting]])
  /\ pc' = "fd" /\ link' = 0
  /\ UNCHANGED <<ProcWalk, pids, visiting, entries, read>>

CloseFd ==
  /\ pc = "fd"
  /\ entries \cap Held(visiting) \subseteq read
  /\ pc' = "proc" /\ entries' = {} /\ read' = {}
  /\ UNCHANGED <<ProcWalk, inodeproc, pids, visiting, link>>

-----------------------------------------------------------------------------
(* na_conninode_table_refresh(): the four files, one after the other.      *)

\* addprocinfo (table, filename)
BeginFile(f) == file' = f /\ entries' = InFile(f) /\ read' = {}

CloseProc ==
  /\ pc = "proc"
  /\ ToVisit = {}
  /\ pids' = {} /\ visiting' = 0
  /\ IF again
     THEN pc' = "inode" /\ UNCHANGED <<file, entries, read>>
     ELSE pc' = "net" /\ BeginFile(1)
  /\ UNCHANGED <<kernel, tables, processes, key, again, link, result>>

\* A socket of an IPv6 file whose address is an IPv4 one in disguise gets the key
\* of an IPv4 connection.
RowKey(header) ==
  IF header.src \in DOMAIN V4Mapped
  THEN [header EXCEPT !.src = V4Mapped[@], !.dst = V4Mapped[@]]
  ELSE header

\* Each row is entered for its own local address and for every other one of this
\* host.
RowKeys(header) ==
  {RowKey(header)} \cup {[RowKey(header) EXCEPT !.src = a] : a \in LocalAddress}

addtoconninode(i) ==
  /\ pc \in {"net", "report"}
  /\ i \in InFile(file) \ read
  /\ conninode' = [k \in DOMAIN conninode \cup RowKeys(socket[i].header) |->
                     IF k \in RowKeys(socket[i].header) THEN i ELSE conninode[k]]
  /\ read' = read \cup {i}
  /\ UNCHANGED <<kernel, inodeproc, processes, pc, key, again, pids, visiting, file,
                 entries, link, result>>

\* Mutation: the loop goes on beyond the last file.
CloseFileLate ==
  /\ pc \in {"net", "report"}
  /\ entries \cap Open \subseteq read
  /\ IF file <= 4
     THEN BeginFile(file + 1) /\ UNCHANGED pc
     ELSE /\ pc' = IF pc = "net" THEN "inode" ELSE "timeout"
          /\ file' = 0 /\ entries' = {} /\ read' = {}
  /\ UNCHANGED <<kernel, tables, processes, key, again, pids, visiting, link, result>>

CloseFile ==
  /\ pc \in {"net", "report"}
  /\ entries \cap Open \subseteq read
  /\ IF file < 4
     THEN BeginFile(file + 1) /\ UNCHANGED pc
     ELSE /\ pc' = IF pc = "net" THEN "inode" ELSE "timeout"
          /\ file' = 0 /\ entries' = {} /\ read' = {}
  /\ UNCHANGED <<kernel, tables, processes, key, again, pids, visiting, link, result>>

-----------------------------------------------------------------------------
(* na_process_find_from_connection()                                       *)

\* The key of a reference packet that is not outgoing is that of its inverse.
na_packet_get_hashstring(packet) ==
  IF na_packet_is_outgoing(packet) THEN packet ELSE na_packet_new_inverted(packet)

\* A new connection: its key is looked up, and when it is not there both tables
\* are refreshed.
FindFromConnection(refpacket) ==
  /\ pc = "idle"
  /\ key' = na_packet_get_hashstring(refpacket) /\ again' = FALSE
  /\ IF key' \in DOMAIN conninode
     THEN pc' = "inode" /\ UNCHANGED walk
     ELSE pc' = "proc" /\ BeginProc
  /\ UNCHANGED <<kernel, tables, processes, result>>

InodeKnown == key \in DOMAIN conninode
PidKnown == InodeKnown /\ conninode[key] \in DOMAIN inodeproc

\* Mutation: the process is looked up once only.
FindPidOnce ==
  /\ pc = "inode"
  /\ InodeKnown /\ ~ PidKnown /\ ~ again
  /\ again' = TRUE
  /\ UNCHANGED <<kernel, tables, processes, pc, key, walk, result>>

\* na_inodeproc_table_find_pid() does not find the inode, refreshes, and tries again.
FindPidAgain ==
  /\ pc = "inode"
  /\ InodeKnown /\ ~ PidKnown /\ ~ again
  /\ pc' = "proc" /\ again' = TRUE /\ BeginProc
  /\ UNCHANGED <<kernel, tables, processes, key, result>>

\* A process that is in the list keeps the name it came with.
find_process_from_program(node) ==
  IF node.pid \in DOMAIN processes THEN processes
  ELSE With(processes, node.pid, node.name)

\* Mutation: any process that has a socket will do.
get_any_process ==
  /\ pc = "inode"
  /\ PidKnown
  /\ pc' = "idle"
  /\ \E i \in DOMAIN inodeproc :
       /\ result' = inodeproc[i].pid
       /\ processes' = find_process_from_program(inodeproc[i])
  /\ key' = NULL /\ again' = FALSE
  /\ UNCHANGED <<kernel, tables, walk>>

get_process_from_inode ==
  /\ pc = "inode"
  /\ PidKnown
  /\ pc' = "idle"
  /\ LET node == inodeproc[conninode[key]]
     IN  /\ result' = node.pid
         /\ processes' = find_process_from_program(node)
  /\ key' = NULL /\ again' = FALSE
  /\ UNCHANGED <<kernel, tables, walk>>

\* na_process_new (hashstring), a process without a pid.
NoProcess ==
  /\ pc = "inode"
  /\ ~ InodeKnown \/ (~ PidKnown /\ again)
  /\ pc' = "idle" /\ result' = 0 /\ key' = NULL /\ again' = FALSE
  /\ UNCHANGED <<kernel, tables, processes, walk>>

-----------------------------------------------------------------------------
(* na_process_info_get_all()                                               *)

\* It refreshes the first table, to which it comes between two searches.
BeginReport ==
  /\ pc = "idle"
  /\ pc' = "report" /\ BeginFile(1)
  /\ UNCHANGED <<kernel, tables, processes, key, again, pids, visiting, link, result>>

\* Then it removes the processes that have timed out, some of those in the list.
RemoveTimedOut ==
  /\ pc = "timeout"
  /\ pc' = "idle"
  /\ \E kept \in SUBSET DOMAIN processes : processes' = [p \in kept |-> processes[p]]
  /\ UNCHANGED <<kernel, tables, key, again, walk, result>>

-----------------------------------------------------------------------------

Next ==
  \/ Kernel
  \/ \E p \in Pid : get_info_for_pid(p)
  \/ \E i \in Inode : ReadLink(i)
  \/ get_info_by_linkname
  \/ CloseFd
  \/ CloseProc
  \/ \E i \in Inode : addtoconninode(i)
  \/ CloseFile
  \/ \E h \in Wire : FindFromConnection(h)
  \/ FindPidAgain
  \/ get_process_from_inode
  \/ NoProcess
  \/ BeginReport
  \/ RemoveTimedOut

Spec == Init /\ [][Next]_vars

-----------------------------------------------------------------------------
(* Properties.                                                             *)

\* Only a process that has exited is in the list without a name: its link was read
\* before that, its command line no more (getprogname(), na-inodeproc.c).  The signal
\* is declared with the argument a(sidd) (na-application.c), in which s is never NULL,
\* but such a row is sent like any other.
NamelessAreGone ==
  \A p \in DOMAIN processes : processes[p] = NULL => program[p] = NULL

=============================================================================
