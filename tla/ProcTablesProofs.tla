-------------------------- MODULE ProcTablesProofs --------------------------
(***************************************************************************)
(* Proofs about the search for the process of a connection, for any number *)
(* of processes, sockets and addresses: its type invariant; that a process *)
(* found has held the socket, whatever is used again; that the process of  *)
(* an open socket is found when no end points are used again; and that it  *)
(* has its own name when no pid is.                                        *)
(***************************************************************************)
EXTENDS ProcTablesHistory, TLAPS

\* The keys a socket is entered for.
LEMMA RowKeysType ==
  ASSUME NEW header \in {r.header : r \in Rows}
  PROVE  RowKeys(header) \subseteq Key
<1>1. header \in Header
  BY TablesAssumption
<1>2. header \in Key
  BY <1>1 DEF Header, HeaderOf, Key
<1>3. RowKey(header) \in Key
  <2>1. CASE header.src \in DOMAIN V4Mapped
    <3>1. header.dst \in DOMAIN V4Mapped
      BY <2>1, TablesAssumption
    <3>2. V4Mapped[header.src] \in Address4 /\ V4Mapped[header.dst] \in Address4
      BY <2>1, <3>1, TablesAssumption
    <3> QED BY <1>2, <2>1, <3>2 DEF RowKey, Key, HeaderOf
  <2>2. CASE header.src \notin DOMAIN V4Mapped
    BY <1>2, <2>2 DEF RowKey
  <2> QED BY <2>1, <2>2
<1> QED BY <1>3, PacketAssumption DEF RowKeys, Key, HeaderOf

\* The hash string of a reference packet.
LEMMA HashStringType ==
  ASSUME NEW packet \in Header
  PROVE  na_packet_get_hashstring(packet) \in Header
<1>1. na_packet_new_inverted(packet) \in Header
  BY DEF na_packet_new_inverted, Header, HeaderOf
<1> QED BY <1>1 DEF na_packet_get_hashstring

-----------------------------------------------------------------------------

LEMMA TypeInit == Init => TypeOK
<1> SUFFICES ASSUME Init PROVE TypeOK
  OBVIOUS
<1>1. DOMAIN socket = {} /\ DOMAIN conninode = {} /\ DOMAIN inodeproc = {}
      /\ DOMAIN processes = {}
  BY DEF Init
<1>2. program \in [Pid -> Name \cup {NULL}]
  BY DEF Init
<1> QED BY <1>1, <1>2 DEF Init, TypeOK

LEMMA KernelType == TypeOK /\ Kernel => TypeOK'
<1> SUFFICES ASSUME TypeOK, Kernel PROVE TypeOK'
  OBVIOUS
<1> USE DEF TypeOK
<1>1. ASSUME NEW p \in Pid, NEW name \in Name, StartProgram(p, name) PROVE TypeOK'
  BY <1>1 DEF StartProgram, analyzer, tables, walk
<1>2. ASSUME NEW p \in Pid, Exit(p) PROVE TypeOK'
  <2>1. /\ DOMAIN socket' = DOMAIN socket
        /\ \A i \in DOMAIN socket : socket'[i] \in Socket
    BY <1>2 DEF Exit, Socket
  <2> QED BY <1>2, <2>1 DEF Exit, analyzer, tables, walk
<1>3. ASSUME NEW p \in Pid, NEW row \in Rows, OpenSocket(p, row) PROVE TypeOK'
  <2>1. PICK i \in Inode \ DOMAIN socket :
          socket' = With(socket, i, [header |-> row.header, file |-> row.file,
                                     holders |-> {p}])
    BY <1>3 DEF OpenSocket
  <2>2. [header |-> row.header, file |-> row.file, holders |-> {p}] \in Socket
    BY TablesAssumption DEF Socket
  <2>3. DOMAIN socket' \subseteq Inode /\ \A j \in DOMAIN socket' : socket'[j] \in Socket
    BY <2>1, <2>2 DEF With
  <2> QED BY <1>3, <2>3 DEF OpenSocket, analyzer, tables, walk
<1>4. ASSUME NEW p \in Pid, NEW i \in Inode, ShareSocket(p, i) PROVE TypeOK'
  <2>1. /\ DOMAIN socket' = DOMAIN socket
        /\ \A j \in DOMAIN socket : socket'[j] \in Socket
    BY <1>4 DEF ShareSocket, Socket
  <2> QED BY <1>4, <2>1 DEF ShareSocket, analyzer, tables, walk
<1>5. ASSUME NEW p \in Pid, NEW i \in Inode, CloseSocket(p, i) PROVE TypeOK'
  <2>1. /\ DOMAIN socket' = DOMAIN socket
        /\ \A j \in DOMAIN socket : socket'[j] \in Socket
    BY <1>5 DEF CloseSocket, Socket
  <2> QED BY <1>5, <2>1 DEF CloseSocket, analyzer, tables, walk
<1> QED BY <1>1, <1>2, <1>3, <1>4, <1>5 DEF Kernel

LEMMA WalkType ==
  ASSUME TypeOK,
         \/ \E p \in Pid : get_info_for_pid(p)
         \/ \E i \in Inode : ReadLink(i)
         \/ get_info_by_linkname
         \/ CloseFd
         \/ CloseProc
         \/ \E i \in Inode : addtoconninode(i)
         \/ CloseFile
  PROVE  TypeOK'
<1> USE DEF TypeOK
<1>0. /\ \A p \in Pid : Held(p) \subseteq Inode
      /\ \A f \in File : InFile(f) \subseteq Inode
  BY DEF Held, InFile, Open
<1>1. ASSUME NEW p \in Pid, get_info_for_pid(p) PROVE TypeOK'
  BY <1>0, <1>1, TablesAssumption DEF get_info_for_pid, ProcWalk, kernel
<1>2. ASSUME NEW i \in Inode, ReadLink(i) PROVE TypeOK'
  BY <1>2, TablesAssumption DEF ReadLink, ProcWalk, kernel
<1>3. ASSUME get_info_by_linkname PROVE TypeOK'
  <2>1. link \in Inode /\ visiting \in Pid
    BY <1>3 DEF get_info_by_linkname
  <2>2. [pid |-> visiting, name |-> program[visiting]] \in Program
    BY <2>1 DEF Program
  <2>3. /\ DOMAIN inodeproc' \subseteq Inode
        /\ \A i \in DOMAIN inodeproc' : inodeproc'[i] \in Program
    BY <1>3, <2>1, <2>2 DEF get_info_by_linkname, With
  <2> QED BY <1>3, <2>3 DEF get_info_by_linkname, ProcWalk, kernel
<1>4. CASE CloseFd
  BY <1>4 DEF CloseFd, ProcWalk, kernel
<1>5. CASE CloseProc
  BY <1>0, <1>5 DEF CloseProc, BeginFile, File, kernel, tables
<1>6. ASSUME NEW i \in Inode, addtoconninode(i) PROVE TypeOK'
  <2>1. i \in DOMAIN socket /\ socket[i] \in Socket
    BY <1>6 DEF addtoconninode, InFile, Open
  <2>2. RowKeys(socket[i].header) \subseteq Key
    BY <2>1, RowKeysType DEF Socket
  <2>3. /\ DOMAIN conninode' \subseteq Key
        /\ \A k \in DOMAIN conninode' : conninode'[k] \in Inode
    BY <1>6, <2>2 DEF addtoconninode
  <2> QED BY <1>6, <2>3 DEF addtoconninode, kernel
<1>7. CASE CloseFile
  BY <1>0, <1>7 DEF CloseFile, BeginFile, File, kernel, tables
<1> QED BY <1>1, <1>2, <1>3, <1>4, <1>5, <1>6, <1>7

LEMMA SearchType ==
  ASSUME TypeOK,
         \/ \E h \in Wire : FindFromConnection(h)
         \/ FindPidAgain
         \/ get_process_from_inode
         \/ NoProcess
         \/ BeginReport
         \/ RemoveTimedOut
  PROVE  TypeOK'
<1> USE DEF TypeOK
<1>0. InFile(1) \subseteq Inode /\ Running \subseteq Pid
  BY DEF InFile, Open, Running
<1>1. ASSUME NEW h \in Wire, FindFromConnection(h) PROVE TypeOK'
  <2>1. na_packet_get_hashstring(h) \in Header
    BY HashStringType, TablesAssumption
  <2>2. CASE na_packet_get_hashstring(h) \in DOMAIN conninode
    BY <1>1, <2>1, <2>2 DEF FindFromConnection, walk, kernel, tables
  <2>3. CASE na_packet_get_hashstring(h) \notin DOMAIN conninode
    BY <1>0, <1>1, <2>1, <2>3 DEF FindFromConnection, BeginProc, kernel, tables
  <2> QED BY <2>2, <2>3
<1>2. CASE FindPidAgain
  BY <1>0, <1>2 DEF FindPidAgain, BeginProc, kernel, tables
<1>3. CASE get_process_from_inode
  <2> DEFINE node == inodeproc[conninode[key]]
  <2>1. node.pid \in Pid /\ node.name \in Name \cup {NULL}
    BY <1>3 DEF get_process_from_inode, PidKnown, Program
  <2>2. /\ DOMAIN find_process_from_program(node) \subseteq Pid
        /\ \A p \in DOMAIN find_process_from_program(node) :
             find_process_from_program(node)[p] \in Name \cup {NULL}
    BY <2>1 DEF find_process_from_program, With
  <2>3. processes' = find_process_from_program(node) /\ result' = node.pid
    BY <1>3 DEF get_process_from_inode
  <2> HIDE DEF node
  <2> QED BY <1>3, <2>1, <2>2, <2>3 DEF get_process_from_inode, kernel, tables, walk
<1>4. CASE NoProcess
  BY <1>4 DEF NoProcess, kernel, tables, walk
<1>5. CASE BeginReport
  BY <1>0, <1>5 DEF BeginReport, BeginFile, File, kernel, tables
<1>6. CASE RemoveTimedOut
  <2>1. PICK kept \in SUBSET DOMAIN processes : processes' = [p \in kept |-> processes[p]]
    BY <1>6 DEF RemoveTimedOut
  <2>2. /\ DOMAIN processes' \subseteq Pid
        /\ \A p \in DOMAIN processes' : processes'[p] \in Name \cup {NULL}
    BY <2>1
  <2> QED BY <1>6, <2>2 DEF RemoveTimedOut, kernel, tables, walk
<1> QED BY <1>1, <1>2, <1>3, <1>4, <1>5, <1>6

LEMMA TypeStep == TypeOK /\ [Next]_vars => TypeOK'
<1> SUFFICES ASSUME TypeOK, [Next]_vars PROVE TypeOK'
  OBVIOUS
<1>1. CASE Next
  BY <1>1, KernelType, WalkType, SearchType DEF Next
<1>2. CASE UNCHANGED vars
  BY <1>2 DEF TypeOK, vars, kernel, tables, walk
<1> QED BY <1>1, <1>2

\* The tables, the list and the state of the search keep their types, whatever the
\* kernel does between two steps.
THEOREM TablesTypeCorrect == Spec => []TypeOK
  BY TypeInit, TypeStep, PTL DEF Spec

-----------------------------------------------------------------------------
(* Who is found has held the socket.                                       *)

\* Each entry of a table goes back to something that was true once, and each
\* socket there ever was keeps its end points.
KeysOfSockets ==
  \A k \in DOMAIN conninode :
    conninode[k] \in DOMAIN socket /\ k \in RowKeys(socket[conninode[k]].header)
InodesOfHolders ==
  \A i \in DOMAIN inodeproc : <<inodeproc[i].pid, i>> \in ever
OwnerInv ==
  /\ TypeOK
  /\ KeysOfSockets
  /\ InodesOfHolders
  /\ Holders \subseteq ever
  /\ pc = "cmdline" => <<visiting, link>> \in ever

LEMMA HeldIsEver ==
  ASSUME NEW p, NEW i \in DOMAIN socket, p \in socket[i].holders, Holders \subseteq ever
  PROVE  <<p, i>> \in ever
<1>1. <<p, i>> \in socket[i].holders \X {i}
  OBVIOUS
<1> QED BY <1>1 DEF Holders

\* A step makes no socket another one.
LEMMA SocketsStay ==
  ASSUME TypeOK, [Next]_vars
  PROVE  /\ DOMAIN socket \subseteq DOMAIN socket'
         /\ \A i \in DOMAIN socket : socket'[i].header = socket[i].header
<1>1. ASSUME NEW p \in Pid, Exit(p) PROVE
        /\ DOMAIN socket \subseteq DOMAIN socket'
        /\ \A i \in DOMAIN socket : socket'[i].header = socket[i].header
  BY <1>1 DEF Exit, TypeOK, Socket
<1>2. ASSUME NEW p \in Pid, NEW row \in Rows, OpenSocket(p, row) PROVE
        /\ DOMAIN socket \subseteq DOMAIN socket'
        /\ \A i \in DOMAIN socket : socket'[i].header = socket[i].header
  BY <1>2 DEF OpenSocket, With
<1>3. ASSUME NEW p \in Pid, NEW i \in Inode, ShareSocket(p, i) \/ CloseSocket(p, i) PROVE
        /\ DOMAIN socket \subseteq DOMAIN socket'
        /\ \A j \in DOMAIN socket : socket'[j].header = socket[j].header
  BY <1>3 DEF ShareSocket, CloseSocket, TypeOK, Socket
<1>4. CASE UNCHANGED socket
  BY <1>4
<1>5. [Next]_vars => \/ \E p \in Pid : Exit(p)
                     \/ \E p \in Pid, row \in Rows : OpenSocket(p, row)
                     \/ \E p \in Pid, i \in Inode : ShareSocket(p, i) \/ CloseSocket(p, i)
                     \/ UNCHANGED socket
  BY DEF Next, Kernel, vars, kernel, StartProgram, get_info_for_pid, ReadLink,
     get_info_by_linkname, CloseFd, ProcWalk, CloseProc, addtoconninode, CloseFile,
     FindFromConnection, FindPidAgain, get_process_from_inode, NoProcess, BeginReport,
     RemoveTimedOut
<1> QED BY <1>1, <1>2, <1>3, <1>4, <1>5

\* Only addtoconninode() writes the first table, and enters keys of the socket.
LEMMA KeysStep ==
  ASSUME TypeOK, KeysOfSockets, [Next]_vars
  PROVE  KeysOfSockets'
<1>1. CASE \E i \in Inode : addtoconninode(i)
  <2>1. PICK i \in Inode : addtoconninode(i)
    BY <1>1
  <2>2. i \in DOMAIN socket /\ socket' = socket
    BY <2>1 DEF addtoconninode, InFile, Open, kernel
  <2>3. ASSUME NEW k \in DOMAIN conninode'
        PROVE  conninode'[k] \in DOMAIN socket /\ k \in RowKeys(socket[conninode'[k]].header)
    <3>1. CASE k \in RowKeys(socket[i].header)
      BY <2>1, <2>2, <3>1 DEF addtoconninode
    <3>2. CASE k \notin RowKeys(socket[i].header)
      BY <2>1, <3>2 DEF addtoconninode, KeysOfSockets
    <3> QED BY <3>1, <3>2
  <2> QED BY <2>2, <2>3 DEF KeysOfSockets, RowKeys, RowKey
<1>2. CASE conninode' = conninode
  <2> SUFFICES ASSUME NEW k \in DOMAIN conninode
               PROVE  conninode[k] \in DOMAIN socket' /\ k \in RowKeys(socket'[conninode[k]].header)
    BY <1>2 DEF KeysOfSockets, RowKeys, RowKey
  <2>1. conninode[k] \in DOMAIN socket /\ k \in RowKeys(socket[conninode[k]].header)
    BY DEF KeysOfSockets
  <2> QED BY <2>1, SocketsStay
<1>3. [Next]_vars => (\E i \in Inode : addtoconninode(i)) \/ conninode' = conninode
  BY DEF Next, Kernel, vars, tables, analyzer, StartProgram, Exit, OpenSocket, ShareSocket,
     CloseSocket, get_info_for_pid, ReadLink, get_info_by_linkname, CloseFd, ProcWalk,
     CloseProc, CloseFile, FindFromConnection, FindPidAgain, get_process_from_inode,
     NoProcess, BeginReport, RemoveTimedOut
<1> QED BY <1>1, <1>2, <1>3

\* Only get_info_by_linkname() writes the second table.
LEMMA InodesStep ==
  ASSUME OwnerInv, [NextSeen]_<<vars, through, ever>>
  PROVE  InodesOfHolders'
<1>1. [Next]_vars /\ ever \subseteq ever'
  BY DEF NextSeen
<1>2. CASE get_info_by_linkname
  <2>1. <<visiting, link>> \in ever
    BY <1>2 DEF OwnerInv, get_info_by_linkname
  <2>2. \A i \in DOMAIN inodeproc' :
          <<inodeproc'[i].pid, i>> \in ever
    BY <1>2, <2>1 DEF get_info_by_linkname, With, OwnerInv, InodesOfHolders
  <2> QED BY <1>1, <2>2 DEF InodesOfHolders
<1>3. CASE inodeproc' = inodeproc
  BY <1>1, <1>3 DEF OwnerInv, InodesOfHolders
<1>4. [Next]_vars => get_info_by_linkname \/ inodeproc' = inodeproc
  BY DEF Next, Kernel, vars, tables, analyzer, StartProgram, Exit, OpenSocket, ShareSocket,
     CloseSocket, get_info_for_pid, ReadLink, CloseFd, ProcWalk, CloseProc, addtoconninode,
     CloseFile, FindFromConnection, FindPidAgain, get_process_from_inode,
     NoProcess, BeginReport, RemoveTimedOut
<1> QED BY <1>1, <1>2, <1>3, <1>4

\* A link is read while the process holds the socket.
LEMMA LinkStep ==
  ASSUME OwnerInv, [NextSeen]_<<vars, through, ever>>, pc' = "cmdline"
  PROVE  <<visiting', link'>> \in ever'
<1>1. [Next]_vars /\ ever \subseteq ever'
  BY DEF NextSeen
<1>2. CASE \E i \in Inode : ReadLink(i)
  <2>1. PICK i \in Inode : ReadLink(i)
    BY <1>2
  <2>2. i \in DOMAIN socket /\ visiting \in socket[i].holders
    BY <2>1 DEF ReadLink, Held
  <2>3. <<visiting, i>> \in ever
    BY <2>2, HeldIsEver DEF OwnerInv
  <2> QED BY <1>1, <2>1, <2>3 DEF ReadLink
<1>3. CASE pc = "cmdline" /\ UNCHANGED <<visiting, link>>
  BY <1>1, <1>3 DEF OwnerInv
<1>4. \/ \E i \in Inode : ReadLink(i)
      \/ pc = "cmdline" /\ UNCHANGED <<visiting, link>>
  BY <1>1 DEF Next, Kernel, vars, walk, analyzer, StartProgram, Exit, OpenSocket, ShareSocket,
     CloseSocket, get_info_for_pid, get_info_by_linkname, CloseFd, CloseProc, addtoconninode,
     CloseFile, FindFromConnection, FindPidAgain, get_process_from_inode,
     NoProcess, BeginReport, RemoveTimedOut
<1> QED BY <1>2, <1>3, <1>4

LEMMA OwnerStep == OwnerInv /\ [NextSeen]_<<vars, through, ever>> => OwnerInv'
<1> SUFFICES ASSUME OwnerInv, [NextSeen]_<<vars, through, ever>> PROVE OwnerInv'
  OBVIOUS
<1>1. [Next]_vars
  BY DEF NextSeen
<1>2. TypeOK' /\ KeysOfSockets'
  BY <1>1, TypeStep, KeysStep DEF OwnerInv
<1>3. Holders' \subseteq ever'
  BY DEF OwnerInv, NextSeen, Holders, vars, kernel
<1> QED BY <1>2, <1>3, InodesStep, LinkStep DEF OwnerInv

LEMMA OwnerInit == InitSeen => OwnerInv
<1> SUFFICES ASSUME InitSeen PROVE OwnerInv
  OBVIOUS
<1>1. TypeOK
  BY TypeInit DEF InitSeen
<1>2. DOMAIN socket = {} /\ DOMAIN conninode = {} /\ DOMAIN inodeproc = {}
  BY DEF InitSeen, Init
<1> QED
  BY <1>1, <1>2 DEF InitSeen, Init, OwnerInv, KeysOfSockets, InodesOfHolders, Holders

LEMMA OwnerFound ==
  OwnerInv /\ [NextSeen]_<<vars, through, ever>>
    => [Finding /\ result' # 0 => OwnsKey(result')]_<<vars, through, ever>>
<1> SUFFICES ASSUME OwnerInv, NextSeen, Finding, result' # 0 PROVE OwnsKey(result')
  OBVIOUS
<1>1. CASE get_process_from_inode
  <2>1. /\ conninode[key] \in DOMAIN inodeproc /\ key \in DOMAIN conninode
        /\ result' = inodeproc[conninode[key]].pid
    BY <1>1 DEF get_process_from_inode, PidKnown, InodeKnown
  <2>2. <<result', conninode[key]>> \in ever
    BY <2>1 DEF OwnerInv, InodesOfHolders
  <2> QED BY <2>1, <2>2 DEF OwnerInv, KeysOfSockets, OwnsKey
<1>2. CASE NoProcess
  BY <1>2 DEF NoProcess
<1>3. get_process_from_inode \/ NoProcess
  BY DEF NextSeen, Finding, Next, Kernel, analyzer, StartProgram, Exit, OpenSocket,
     ShareSocket, CloseSocket, get_info_for_pid, ReadLink, get_info_by_linkname, CloseFd,
     CloseProc, addtoconninode, CloseFile, FindFromConnection, FindPidAgain,
     BeginReport, RemoveTimedOut
<1> QED BY <1>1, <1>2, <1>3

\* A process that is found has held a socket with the end points of the connection,
\* even if end points and pids are used again: what can go wrong then is that it
\* is not the one that holds them now.
THEOREM FoundHasOwned == SpecSeen => FoundOwner
  BY OwnerInit, OwnerStep, OwnerFound, PTL DEF SpecSeen, FoundOwner

-----------------------------------------------------------------------------
(* An open socket is found.                                                *)
(*                                                                         *)
(* For a socket held all through the search: the walk through /proc does   *)
(* not pass its holder without entering the inode, nor the reading of      *)
(* /proc/net its row without entering the key.                             *)

\* No two rows have a key in common: addtoconninode() enters a row for each local
\* address, and of two sockets with the same ports and the same peer at two local
\* addresses the one read later takes the keys of the other.
KeysApart ==
  \A r, s \in Rows :
    RowKeys(r.header) \cap RowKeys(s.header) # {} => r.header = s.header

HoldersRun == \A h \in Holders : program[h[1]] # NULL
OneSocketPerRow ==
  \A i, j \in DOMAIN socket : socket[i].header = socket[j].header => i = j

\* The inode of the socket is entered when the walk has passed its holder.
Visited(h) ==
  /\ pc \in {"proc", "fd", "cmdline"} => h[1] \in pids
  /\ pc = "proc" /\ visiting >= h[1] => h[2] \in DOMAIN inodeproc
  /\ pc \in {"fd", "cmdline"} =>
       /\ visiting > h[1] => h[2] \in DOMAIN inodeproc
       /\ visiting = h[1] =>
            /\ h[2] \in entries
            /\ h[2] \in read =>
                 h[2] \in DOMAIN inodeproc \/ (pc = "cmdline" /\ link = h[2])
  /\ pc = "net" \/ (pc = "inode" /\ again) => h[2] \in DOMAIN inodeproc

\* Its key is entered when the reading has passed its row.
Entered(h) ==
  /\ pc = "net" =>
       /\ file > socket[h[2]].file => InodeKnown
       /\ file = socket[h[2]].file => h[2] \in entries /\ (h[2] \in read => InodeKnown)
  /\ pc = "inode" => InodeKnown

SearchInv ==
  /\ TypeOK
  /\ HoldersRun
  /\ through \subseteq KeyHolders
  /\ again => InodeKnown
  /\ \A h \in through : Visited(h) /\ Entered(h)

-----------------------------------------------------------------------------

\* What a holder is, in terms of its socket.
LEMMA HolderOf ==
  ASSUME TypeOK, NEW h
  PROVE  /\ h \in Holders <=> /\ h = <<h[1], h[2]>>
                              /\ h[2] \in DOMAIN socket
                              /\ h[1] \in socket[h[2]].holders
         /\ h \in Holders => /\ h[1] \in Pid /\ h[2] \in Inode
                             /\ h[2] \in Held(h[1])
                             /\ h[2] \in InFile(socket[h[2]].file)
                             /\ socket[h[2]].file \in File
<1>1. h \in Holders <=> \E i \in DOMAIN socket : h \in socket[i].holders \X {i}
  BY DEF Holders
<1>2. ASSUME h = <<h[1], h[2]>>, h[2] \in DOMAIN socket, h[1] \in socket[h[2]].holders
      PROVE  h \in Holders
  BY <1>1, <1>2
<1>3. ASSUME h \in Holders
      PROVE  h = <<h[1], h[2]>> /\ h[2] \in DOMAIN socket /\ h[1] \in socket[h[2]].holders
  BY <1>1, <1>3
<1>4. ASSUME h \in Holders
      PROVE  /\ h[1] \in Pid /\ h[2] \in Inode
             /\ h[2] \in Held(h[1]) /\ h[2] \in InFile(socket[h[2]].file)
             /\ socket[h[2]].file \in File
  <2>1. h[2] \in DOMAIN socket /\ h[1] \in socket[h[2]].holders
    BY <1>3, <1>4
  <2>2. socket[h[2]] \in Socket /\ h[2] \in Inode
    BY <2>1 DEF TypeOK
  <2> QED
    BY <2>1, <2>2 DEF Socket, Held, InFile, Open
<1> QED
  BY <1>2, <1>3, <1>4

\* A socket is held by processes that run.
LEMMA HoldersRunStep ==
  ASSUME TypeOK, TypeOK', HoldersRun, [Next]_vars
  PROVE  HoldersRun'
<1> SUFFICES ASSUME NEW h, h \in Holders' PROVE program'[h[1]] # NULL
  BY DEF HoldersRun
<1>1. h[2] \in DOMAIN socket' /\ h[1] \in socket'[h[2]].holders /\ h[1] \in Pid
  <2>1. \E i \in DOMAIN socket' : h \in socket'[i].holders \X {i}
    BY DEF Holders
  <2>2. PICK i \in DOMAIN socket' : h \in socket'[i].holders \X {i}
    BY <2>1
  <2>3. socket'[i] \in Socket
    BY DEF TypeOK
  <2> QED
    BY <2>2, <2>3 DEF Socket
<1>2. ASSUME h[2] \in DOMAIN socket, h[1] \in socket[h[2]].holders
      PROVE  program[h[1]] # NULL
  <2>1. <<h[1], h[2]>> \in Holders
    BY <1>2, HolderOf
  <2> QED
    BY <2>1 DEF HoldersRun
<1>3. ASSUME NEW p \in Pid, NEW name \in Name, StartProgram(p, name) PROVE program'[h[1]] # NULL
  BY <1>1, <1>2, <1>3, TablesAssumption DEF StartProgram, TypeOK
<1>4. ASSUME NEW p \in Pid, Exit(p) PROVE program'[h[1]] # NULL
  BY <1>1, <1>2, <1>4 DEF Exit, TypeOK, Socket
<1>5. ASSUME NEW p \in Pid, NEW row \in Rows, OpenSocket(p, row)
      PROVE  program'[h[1]] # NULL
  BY <1>1, <1>2, <1>5 DEF OpenSocket, With
<1>6. ASSUME NEW p \in Pid, NEW i \in Inode, ShareSocket(p, i)
      PROVE  program'[h[1]] # NULL
  BY <1>1, <1>2, <1>6 DEF ShareSocket, TypeOK, Socket
<1>7. ASSUME NEW p \in Pid, NEW i \in Inode, CloseSocket(p, i)
      PROVE  program'[h[1]] # NULL
  BY <1>1, <1>2, <1>7 DEF CloseSocket, TypeOK, Socket
<1>8. CASE UNCHANGED <<program, socket>>
  BY <1>1, <1>2, <1>8
<1>9. Kernel \/ UNCHANGED <<program, socket>>
  BY DEF Next, vars, kernel, get_info_for_pid, ReadLink,
     get_info_by_linkname, CloseFd, ProcWalk, CloseProc, addtoconninode, CloseFile,
     FindFromConnection, FindPidAgain, get_process_from_inode, NoProcess, BeginReport,
     RemoveTimedOut
<1> QED
  BY <1>3, <1>4, <1>5, <1>6, <1>7, <1>8, <1>9 DEF Kernel

\* No two sockets have the same row when no end points are used again.
LEMMA OneSocketPerRowStep ==
  ASSUME TypeOK, ~ ReuseKey, OneSocketPerRow, [Next]_vars
  PROVE  OneSocketPerRow'
<1>1. ASSUME NEW p \in Pid, NEW row \in Rows, OpenSocket(p, row) PROVE OneSocketPerRow'
  BY <1>1 DEF OpenSocket, With, OneSocketPerRow
<1>2. CASE DOMAIN socket' = DOMAIN socket
  BY <1>2, SocketsStay DEF OneSocketPerRow
<1>3. ASSUME ~ \E p \in Pid, row \in Rows : OpenSocket(p, row)
      PROVE  DOMAIN socket' = DOMAIN socket
  BY <1>3 DEF Next, Kernel, vars, kernel, StartProgram, Exit, ShareSocket, CloseSocket,
     get_info_for_pid, ReadLink,
     get_info_by_linkname, CloseFd, ProcWalk, CloseProc, addtoconninode, CloseFile,
     FindFromConnection, FindPidAgain, get_process_from_inode, NoProcess, BeginReport,
     RemoveTimedOut
<1> QED
  BY <1>1, <1>2, <1>3

-----------------------------------------------------------------------------

LEMMA SearchStart == InitSeen => SearchInv
<1> SUFFICES ASSUME InitSeen PROVE SearchInv
  OBVIOUS
<1>1. TypeOK
  BY TypeInit DEF InitSeen
<1>2. Holders = {} /\ through = {} /\ again = FALSE
  BY DEF InitSeen, Init, Holders
<1> QED
  BY <1>1, <1>2 DEF SearchInv, HoldersRun

\* Only the beginning of a search adds holders, and they hold a socket with the key.
LEMMA ThroughStays ==
  ASSUME NextSeen
  PROVE  /\ through \subseteq KeyHolders => through' \subseteq KeyHolders'
         /\ key' = key \/ key' = NULL => through' \subseteq through
  BY DEF NextSeen

\* The file of a socket is that of its row.
LEMMA FilesStay ==
  ASSUME TypeOK, [Next]_vars, NEW i \in DOMAIN socket
  PROVE  socket'[i].file = socket[i].file
<1>1. ASSUME NEW p \in Pid, Exit(p) PROVE socket'[i].file = socket[i].file
  BY <1>1 DEF Exit, TypeOK, Socket
<1>2. ASSUME NEW p \in Pid, NEW row \in Rows, OpenSocket(p, row)
      PROVE  socket'[i].file = socket[i].file
  BY <1>2 DEF OpenSocket, With
<1>3. ASSUME NEW p \in Pid, NEW j \in Inode, ShareSocket(p, j) \/ CloseSocket(p, j)
      PROVE  socket'[i].file = socket[i].file
  BY <1>3 DEF ShareSocket, CloseSocket, TypeOK, Socket
<1>4. \/ \E p \in Pid : Exit(p)
      \/ \E p \in Pid, row \in Rows : OpenSocket(p, row)
      \/ \E p \in Pid, j \in Inode : ShareSocket(p, j) \/ CloseSocket(p, j)
      \/ UNCHANGED socket
  BY DEF Next, Kernel, vars, kernel, StartProgram, get_info_for_pid, ReadLink,
     get_info_by_linkname, CloseFd, ProcWalk, CloseProc, addtoconninode, CloseFile,
     FindFromConnection, FindPidAgain, get_process_from_inode, NoProcess, BeginReport,
     RemoveTimedOut
<1> QED
  BY <1>1, <1>2, <1>3, <1>4

\* What is known of a holder before the step.
LEMMA ThroughHolder ==
  ASSUME SearchInv, NEW h \in through
  PROVE  /\ h[1] \in Pid /\ h[1] \in Nat \ {0} /\ h[1] \in Running
         /\ h[2] \in Inode /\ h[2] \in DOMAIN socket
         /\ h[2] \in Held(h[1]) /\ h[2] \in Open
         /\ h[2] \in InFile(socket[h[2]].file) /\ socket[h[2]].file \in File
         /\ key \in RowKeys(socket[h[2]].header)
         /\ Visited(h) /\ Entered(h)
<1>1. h \in Holders /\ h[2] \in KeySockets
  BY DEF SearchInv, KeyHolders
<1>2. program[h[1]] # NULL
  BY <1>1 DEF SearchInv, HoldersRun
<1>3. /\ h[1] \in Pid /\ h[2] \in Inode /\ h[2] \in DOMAIN socket /\ h[2] \in Held(h[1])
      /\ h[2] \in InFile(socket[h[2]].file) /\ socket[h[2]].file \in File
  BY <1>1, HolderOf DEF SearchInv
<1>4. key \in RowKeys(socket[h[2]].header)
  BY <1>1 DEF KeySockets, RowKeys
<1>5. Visited(h) /\ Entered(h)
  BY DEF SearchInv
<1> QED
  BY <1>2, <1>3, <1>4, <1>5, TablesAssumption DEF Running, InFile

\* The walk through the processes.
LEMMA ProcStep ==
  ASSUME SearchInv, TypeOK', NextSeen, NEW h \in through,
         \/ \E p \in Pid : get_info_for_pid(p)
         \/ \E i \in Inode : ReadLink(i)
         \/ get_info_by_linkname
         \/ CloseFd
         \/ CloseProc
  PROVE  Visited(h)' /\ Entered(h)'
<1> DEFINE p == h[1]
           i == h[2]
<1>h. /\ p \in Pid /\ p \in Nat \ {0} /\ p \in Running
      /\ i \in DOMAIN socket /\ i \in Held(p) /\ i \in Open
      /\ i \in InFile(socket[i].file) /\ socket[i].file \in File
      /\ Visited(h) /\ Entered(h)
  BY ThroughHolder
<1>v. visiting \in Nat /\ file \in Nat /\ socket[i].file \in Nat
  BY <1>h, TablesAssumption DEF SearchInv, TypeOK, File
<1>1. ASSUME NEW q \in Pid, get_info_for_pid(q) PROVE Visited(h)' /\ Entered(h)'
  <2>1. /\ pc = "proc" /\ q > visiting /\ \A r \in ToVisit : q <= r
        /\ pc' = "fd" /\ visiting' = q /\ entries' = Held(q) /\ read' = {}
        /\ UNCHANGED <<inodeproc, pids, socket>>
    BY <1>1 DEF get_info_for_pid, ProcWalk, kernel
  <2>2. p \in pids /\ (visiting >= p => i \in DOMAIN inodeproc)
    BY <1>h, <2>1 DEF Visited
  <2>3. q \in Nat
    BY TablesAssumption
  <2>4. CASE visiting >= p
    BY <1>h, <1>v, <2>1, <2>2, <2>3, <2>4 DEF Visited, Entered
  <2>5. CASE visiting < p
    <3>1. p \in ToVisit
      BY <1>h, <1>v, <2>2, <2>5 DEF ToVisit
    <3>2. q <= p
      BY <2>1, <3>1
    <3> QED
      BY <1>h, <1>v, <2>1, <2>2, <2>3, <3>2 DEF Visited, Entered
  <2> QED
    BY <1>h, <1>v, <2>4, <2>5
<1>2. ASSUME NEW j \in Inode, ReadLink(j) PROVE Visited(h)' /\ Entered(h)'
  BY <1>h, <1>v, <1>2 DEF ReadLink, ProcWalk, kernel, Visited, Entered
<1>3. CASE get_info_by_linkname
  <2>1. /\ pc = "cmdline" /\ pc' = "fd"
        /\ DOMAIN inodeproc' = DOMAIN inodeproc \cup {link}
        /\ UNCHANGED <<pids, visiting, entries, read, socket>>
    BY <1>3 DEF get_info_by_linkname, With, ProcWalk, kernel
  <2> QED
    BY <1>h, <1>v, <2>1 DEF Visited, Entered
<1>4. CASE CloseFd
  BY <1>h, <1>v, <1>4 DEF CloseFd, ProcWalk, kernel, Visited, Entered
<1>5. CASE CloseProc
  <2>1. /\ pc = "proc" /\ ToVisit = {}
        /\ UNCHANGED <<inodeproc, conninode, key, again, socket>>
    BY <1>5 DEF CloseProc, kernel, tables
  <2>2. i \in DOMAIN inodeproc
    BY <1>h, <1>v, <2>1 DEF Visited, ToVisit
  <2>3. CASE again
    <3>1. pc' = "inode" /\ InodeKnown
      BY <1>5, <2>3 DEF CloseProc, SearchInv
    <3> QED
      BY <2>1, <2>2, <3>1 DEF Visited, Entered, InodeKnown
  <2>4. CASE ~ again
    <3>1. pc' = "net" /\ file' = 1 /\ entries' = InFile(1) /\ read' = {}
      BY <1>5, <2>4 DEF CloseProc, BeginFile
    <3>2. ~ (1 > socket[i].file)
      BY <1>h DEF File
    <3> QED
      BY <1>h, <2>1, <2>2, <3>1, <3>2 DEF Visited, Entered
  <2> QED
    BY <2>3, <2>4
<1> QED
  BY <1>1, <1>2, <1>3, <1>4, <1>5

\* The reading of /proc/net.
LEMMA NetStep ==
  ASSUME SearchInv, TypeOK', NextSeen, NEW h \in through,
         (\E j \in Inode : addtoconninode(j)) \/ CloseFile
  PROVE  Visited(h)' /\ Entered(h)'
<1> DEFINE i == h[2]
<1>h. /\ i \in DOMAIN socket /\ i \in Open
      /\ i \in InFile(socket[i].file) /\ socket[i].file \in File
      /\ key \in RowKeys(socket[i].header)
      /\ Visited(h) /\ Entered(h)
  BY ThroughHolder
<1>v. file \in Nat /\ socket[i].file \in 1 .. 4
  BY <1>h DEF SearchInv, TypeOK, File
<1>1. ASSUME NEW j \in Inode, addtoconninode(j) PROVE Visited(h)' /\ Entered(h)'
  <2>1. /\ pc \in {"net", "report"}
        /\ DOMAIN conninode' = DOMAIN conninode \cup RowKeys(socket[j].header)
        /\ read' = read \cup {j}
        /\ UNCHANGED <<inodeproc, pc, key, again, file, entries, socket>>
    BY <1>1 DEF addtoconninode, kernel
  <2>2. i = j => InodeKnown'
    BY <1>h, <2>1 DEF InodeKnown
  <2>3. InodeKnown => InodeKnown'
    BY <2>1 DEF InodeKnown
  <2> QED
    BY <1>h, <2>1, <2>2, <2>3 DEF Visited, Entered
<1>2. CASE CloseFile
  <2>1. /\ pc \in {"net", "report"} /\ entries \cap Open \subseteq read
        /\ UNCHANGED <<inodeproc, conninode, key, again, socket>>
        /\ InodeKnown' = InodeKnown
    BY <1>2 DEF CloseFile, kernel, tables, InodeKnown
  <2>2. CASE file < 4
    <3>1. /\ pc' = pc /\ file' = file + 1 /\ entries' = InFile(file + 1) /\ read' = {}
      BY <1>2, <2>2 DEF CloseFile, BeginFile
    <3>2. pc = "net" /\ file >= socket[i].file => InodeKnown
      BY <1>h, <1>v, <2>1 DEF Entered
    <3> QED
      BY <1>h, <1>v, <2>1, <3>1, <3>2 DEF Visited, Entered
  <2>3. CASE ~ file < 4
    <3>1. pc' = IF pc = "net" THEN "inode" ELSE "timeout"
      BY <1>2, <2>3 DEF CloseFile
    <3>2. pc = "net" => InodeKnown
      BY <1>h, <1>v, <2>1, <2>3 DEF Entered
    <3> QED
      BY <1>h, <2>1, <3>1, <3>2 DEF Visited, Entered
  <2> QED
    BY <2>2, <2>3
<1> QED
  BY <1>1, <1>2

\* The beginning of a search, and its second refresh.
LEMMA FindStep ==
  ASSUME SearchInv, TypeOK', NextSeen, NEW h \in through',
         (\E c \in Wire : FindFromConnection(c)) \/ FindPidAgain
  PROVE  Visited(h)' /\ Entered(h)'
<1>1. ASSUME BeginProc, pc' = "proc", UNCHANGED kernel
      PROVE  Visited(h)' /\ Entered(h)'
  <2>1. h \in Holders
    BY <1>1, ThroughStays DEF SearchInv, KeyHolders, Holders, KeySockets, kernel
  <2>2. h[1] \in Running /\ h[1] \in Nat \ {0}
    BY <2>1, HolderOf, TablesAssumption DEF SearchInv, HoldersRun, Running
  <2> QED
    BY <1>1, <2>2 DEF BeginProc, Visited, Entered
<1>2. ASSUME NEW c \in Wire, FindFromConnection(c), ~ (BeginProc /\ pc' = "proc")
      PROVE  Visited(h)' /\ Entered(h)'
  <2>1. pc' = "inode" /\ again' = FALSE /\ key' \in DOMAIN conninode'
    BY <1>2 DEF FindFromConnection, tables
  <2> QED
    BY <2>1 DEF Visited, Entered, InodeKnown
<1>3. ASSUME NEW c \in Wire, FindFromConnection(c) PROVE UNCHANGED kernel
  BY <1>3 DEF FindFromConnection
<1>4. FindPidAgain => BeginProc /\ pc' = "proc" /\ UNCHANGED kernel
  BY DEF FindPidAgain
<1> QED
  BY <1>1, <1>2, <1>3, <1>4

\* The rest: the processes of the system, the end of a search, the report.
LEMMA OtherStep ==
  ASSUME SearchInv, TypeOK', NextSeen, NEW h \in through, key' # NULL,
         Kernel \/ get_process_from_inode \/ NoProcess \/ BeginReport \/ RemoveTimedOut
  PROVE  Visited(h)' /\ Entered(h)'
<1>h. h[2] \in DOMAIN socket /\ Visited(h) /\ Entered(h)
  BY ThroughHolder
<1>1. CASE Kernel
  <2>1. UNCHANGED analyzer
    BY <1>1 DEF Kernel, StartProgram, Exit, OpenSocket, ShareSocket, CloseSocket
  <2>2. socket'[h[2]].file = socket[h[2]].file
    BY <1>h, FilesStay DEF SearchInv, NextSeen
  <2> QED
    BY <1>h, <2>1, <2>2 DEF analyzer, tables, walk, Visited, Entered, InodeKnown
<1>2. CASE get_process_from_inode \/ NoProcess
  BY <1>2 DEF get_process_from_inode, NoProcess
<1>3. CASE BeginReport
  BY <1>3 DEF BeginReport, Visited, Entered
<1>4. CASE RemoveTimedOut
  BY <1>4 DEF RemoveTimedOut, Visited, Entered
<1> QED
  BY <1>1, <1>2, <1>3, <1>4

\* The second refresh is that of an inode without a process.
LEMMA AgainStep ==
  ASSUME TypeOK, again => InodeKnown, [Next]_vars, again'
  PROVE  InodeKnown'
<1>1. again \/ FindPidAgain
  BY DEF Next, Kernel, vars, analyzer, StartProgram, Exit, OpenSocket, ShareSocket,
     CloseSocket, get_info_for_pid, ReadLink, get_info_by_linkname, CloseFd, ProcWalk,
     CloseProc, addtoconninode, CloseFile, FindFromConnection, get_process_from_inode,
     NoProcess, BeginReport, RemoveTimedOut
<1>2. InodeKnown
  BY <1>1 DEF FindPidAgain
<1>3. DOMAIN conninode \subseteq DOMAIN conninode'
  <2>1. (\E i \in Inode : addtoconninode(i)) \/ conninode' = conninode
    BY DEF Next, Kernel, vars, tables, analyzer, StartProgram, Exit, OpenSocket,
       ShareSocket, CloseSocket, get_info_for_pid, ReadLink, get_info_by_linkname, CloseFd,
       ProcWalk, CloseProc, CloseFile, FindFromConnection, FindPidAgain,
       get_process_from_inode, NoProcess, BeginReport, RemoveTimedOut
  <2> QED
    BY <2>1 DEF addtoconninode
<1>4. key' = key
  BY DEF Next, Kernel, vars, tables, analyzer, StartProgram, Exit, OpenSocket,
     ShareSocket, CloseSocket, get_info_for_pid, ReadLink, get_info_by_linkname, CloseFd,
     ProcWalk, CloseProc, addtoconninode, CloseFile, FindFromConnection, FindPidAgain,
     get_process_from_inode, NoProcess, BeginReport, RemoveTimedOut
<1> QED
  BY <1>2, <1>3, <1>4 DEF InodeKnown

LEMMA SearchStep == SearchInv /\ [NextSeen]_<<vars, through, ever>> => SearchInv'
<1> SUFFICES ASSUME SearchInv, [NextSeen]_<<vars, through, ever>> PROVE SearchInv'
  OBVIOUS
<1>1. CASE UNCHANGED <<vars, through, ever>>
  <2>1. TypeOK'
    BY <1>1, TypeStep DEF SearchInv
  <2>2. Holders' = Holders /\ KeyHolders' = KeyHolders /\ InodeKnown' = InodeKnown
    BY <1>1 DEF vars, kernel, tables, Holders, KeyHolders, KeySockets, InodeKnown
  <2>3. ASSUME NEW h PROVE Visited(h)' = Visited(h) /\ Entered(h)' = Entered(h)
    BY <1>1, <2>2 DEF vars, kernel, tables, walk, Visited, Entered
  <2> QED
    BY <1>1, <2>1, <2>2, <2>3 DEF SearchInv, HoldersRun, vars, kernel
<1>2. CASE NextSeen
  <2>1. TypeOK' /\ HoldersRun'
    BY <1>2, TypeStep, HoldersRunStep DEF NextSeen, SearchInv
  <2>2. through' \subseteq KeyHolders'
    BY <1>2, ThroughStays DEF SearchInv
  <2>3. again' => InodeKnown'
    BY <1>2, AgainStep DEF NextSeen, SearchInv
  <2>4. ASSUME NEW h \in through' PROVE Visited(h)' /\ Entered(h)'
    <3>1. CASE (\E c \in Wire : FindFromConnection(c)) \/ FindPidAgain
      BY <1>2, <2>1, <3>1, FindStep
    <3>2. CASE ~ ((\E c \in Wire : FindFromConnection(c)) \/ FindPidAgain)
      <4>1. key' = key \/ key' = NULL
        BY <1>2, <3>2 DEF NextSeen, Next, Kernel, analyzer, StartProgram, Exit, OpenSocket,
           ShareSocket, CloseSocket, get_info_for_pid, ReadLink, get_info_by_linkname,
           CloseFd, ProcWalk, CloseProc, addtoconninode, CloseFile,
           get_process_from_inode, NoProcess, BeginReport, RemoveTimedOut
      <4>2. h \in through /\ key' # NULL
        BY <1>2, <4>1, ThroughStays DEF NextSeen
      <4> QED
        BY <1>2, <2>1, <3>2, <4>2, ProcStep, NetStep, OtherStep DEF NextSeen, Next
    <3> QED
      BY <3>1, <3>2
  <2> QED
    BY <2>1, <2>2, <2>3, <2>4 DEF SearchInv
<1> QED
  BY <1>1, <1>2

LEMMA SearchInvariant == SpecSeen => []SearchInv
  BY SearchStart, SearchStep, PTL DEF SpecSeen

LEMMA RowsInvariant ==
  ASSUME ~ ReuseKey
  PROVE  SpecSeen => []OneSocketPerRow
<1>1. InitSeen => OneSocketPerRow
  BY DEF InitSeen, Init, OneSocketPerRow
<1>2. SearchInv /\ OneSocketPerRow /\ [NextSeen]_<<vars, through, ever>> => OneSocketPerRow'
  BY OneSocketPerRowStep DEF SearchInv, NextSeen, vars, kernel, OneSocketPerRow
<1> QED
  BY <1>1, <1>2, SearchInvariant, PTL DEF SpecSeen

LEMMA OpenIsFound ==
  ASSUME KeysApart, SearchInv, OneSocketPerRow, OwnerInv, NextSeen, Finding,
         NEW h \in through
  PROVE  <<result', h[2]>> \in ever
<1>h. /\ h[2] \in DOMAIN socket /\ key \in RowKeys(socket[h[2]].header)
      /\ Visited(h) /\ Entered(h) /\ pc = "inode"
  BY ThroughHolder DEF Finding
<1>1. InodeKnown
  BY <1>h DEF Entered
<1>2. conninode[key] = h[2]
  <2>1. /\ conninode[key] \in DOMAIN socket
        /\ key \in RowKeys(socket[conninode[key]].header)
    BY <1>1 DEF InodeKnown, OwnerInv, KeysOfSockets
  <2>2. socket[conninode[key]] \in Socket /\ socket[h[2]] \in Socket
    BY <1>h, <2>1 DEF SearchInv, TypeOK
  <2>3. PICK r \in Rows : r.header = socket[conninode[key]].header
    BY <2>2 DEF Socket
  <2>4. PICK s \in Rows : s.header = socket[h[2]].header
    BY <2>2 DEF Socket
  <2>5. r.header = s.header
    BY <1>h, <2>1, <2>3, <2>4 DEF KeysApart
  <2> QED
    BY <1>h, <2>1, <2>3, <2>4, <2>5 DEF OneSocketPerRow
<1>3. CASE get_process_from_inode
  <2>1. h[2] \in DOMAIN inodeproc /\ result' = inodeproc[h[2]].pid
    BY <1>2, <1>3 DEF get_process_from_inode, PidKnown
  <2> QED
    BY <2>1 DEF OwnerInv, InodesOfHolders
<1>4. CASE NoProcess
  <2>1. again /\ h[2] \notin DOMAIN inodeproc
    BY <1>1, <1>2, <1>4 DEF NoProcess, PidKnown
  <2> QED
    BY <1>h, <2>1 DEF Visited
<1>5. get_process_from_inode \/ NoProcess
  BY DEF NextSeen, Finding, Next, Kernel, analyzer, StartProgram, Exit, OpenSocket,
     ShareSocket, CloseSocket, get_info_for_pid, ReadLink, get_info_by_linkname, CloseFd,
     CloseProc, addtoconninode, CloseFile, FindFromConnection, FindPidAgain,
     BeginReport, RemoveTimedOut
<1> QED
  BY <1>3, <1>4, <1>5

\* A socket that is open from the lookup of its key to the end of the search is
\* found, whatever else goes on in /proc meanwhile, when the end points of a closed
\* socket are not used again and no two sockets have a key in common
\* (na_process_find_from_connection()); pids may be used again.
THEOREM OpenIsAlwaysFound ==
  ASSUME ~ ReuseKey, KeysApart
  PROVE  SpecSeen => OpenSocketIsFound
<1>1. SearchInv /\ OneSocketPerRow /\ OwnerInv /\ [NextSeen]_<<vars, through, ever>>
        => [Finding => \A h \in through : <<result', h[2]>> \in ever]_<<vars, through, ever>>
  BY OpenIsFound
<1>2. SpecSeen => []OwnerInv
  BY OwnerInit, OwnerStep, PTL DEF SpecSeen
<1> QED
  BY <1>1, <1>2, SearchInvariant, RowsInvariant, PTL DEF SpecSeen, OpenSocketIsFound

-----------------------------------------------------------------------------
(* A process is named as it is.                                            *)

\* A name that was noted for a pid is that of the process that has it, if any.
NameOf(p, name) == p \in started /\ (program[p] # NULL => name = program[p])

NamesInv ==
  /\ \A p \in Running : p \in started
  /\ pc \in {"fd", "cmdline"} => visiting \in started
  /\ \A i \in DOMAIN inodeproc : NameOf(inodeproc[i].pid, inodeproc[i].name)
  /\ \A p \in DOMAIN processes : NameOf(p, processes[p])

\* When no pid is used again the process that has one is the one that had it.
LEMMA NamesStay ==
  ASSUME TypeOK, ~ ReusePid, [Next]_vars, \A p \in Running : p \in started
  PROVE  /\ started \subseteq started'
         /\ \A p \in Running' : p \in started'
         /\ \A p \in started \cap Running' : program'[p] = program[p]
<1>1. ASSUME NEW q \in Pid, NEW n \in Name, StartProgram(q, n)
      PROVE  /\ started \subseteq started'
             /\ \A p \in Running' : p \in started'
             /\ \A p \in started \cap Running' : program'[p] = program[p]
  BY <1>1 DEF StartProgram, TypeOK, Running
<1>2. ASSUME NEW q \in Pid, Exit(q)
      PROVE  /\ started \subseteq started'
             /\ \A p \in Running' : p \in started'
             /\ \A p \in started \cap Running' : program'[p] = program[p]
  BY <1>2 DEF Exit, TypeOK, Running
<1>3. CASE UNCHANGED <<program, started>>
  BY <1>3 DEF Running
<1>4. \/ \E q \in Pid, n \in Name : StartProgram(q, n)
      \/ \E q \in Pid : Exit(q)
      \/ UNCHANGED <<program, started>>
  BY DEF Next, Kernel, vars, kernel, OpenSocket, ShareSocket, CloseSocket,
     get_info_for_pid, ReadLink, get_info_by_linkname, CloseFd, ProcWalk, CloseProc,
     addtoconninode, CloseFile, FindFromConnection, FindPidAgain,
     get_process_from_inode, NoProcess, BeginReport, RemoveTimedOut
<1> QED
  BY <1>1, <1>2, <1>3, <1>4

LEMMA NamesStep ==
  ASSUME TypeOK, ~ ReusePid, NamesInv, [Next]_vars
  PROVE  NamesInv'
<1>1. /\ started \subseteq started'
      /\ \A p \in Running' : p \in started'
      /\ \A p \in started \cap Running' : program'[p] = program[p]
  BY NamesStay DEF NamesInv
<1>2. pc' \in {"fd", "cmdline"} => visiting' \in started'
  <2>1. ASSUME NEW p \in Pid, get_info_for_pid(p) PROVE visiting' \in started'
    BY <1>1, <2>1 DEF get_info_for_pid, NamesInv
  <2>2. ASSUME pc' \in {"fd", "cmdline"}, ~ \E p \in Pid : get_info_for_pid(p)
        PROVE  pc \in {"fd", "cmdline"} /\ visiting' = visiting
    BY <2>2 DEF Next, Kernel, vars, walk, analyzer, StartProgram, Exit, OpenSocket,
       ShareSocket, CloseSocket, ReadLink, get_info_by_linkname, CloseFd, CloseProc,
       addtoconninode, CloseFile, FindFromConnection, FindPidAgain,
       get_process_from_inode, NoProcess, BeginReport, RemoveTimedOut
  <2> QED
    BY <1>1, <2>1, <2>2 DEF NamesInv
<1>r. \A p \in Pid : program'[p] # NULL <=> p \in Running'
  BY DEF Running
<1>3. ASSUME NEW i \in DOMAIN inodeproc'
      PROVE  /\ inodeproc'[i].pid \in started'
             /\ program'[inodeproc'[i].pid] # NULL
                  => inodeproc'[i].name = program'[inodeproc'[i].pid]
  <2>1. ASSUME i \in DOMAIN inodeproc, inodeproc'[i] = inodeproc[i]
        PROVE  /\ inodeproc'[i].pid \in started'
               /\ program'[inodeproc'[i].pid] # NULL
                    => inodeproc'[i].name = program'[inodeproc'[i].pid]
    <3>1. inodeproc[i].pid \in Pid
      BY <2>1 DEF TypeOK, Program
    <3>2. NameOf(inodeproc[i].pid, inodeproc[i].name)
      BY <2>1 DEF NamesInv
    <3>3. program'[inodeproc[i].pid] # NULL
            => program'[inodeproc[i].pid] = program[inodeproc[i].pid]
      BY <1>1, <1>r, <3>1, <3>2 DEF NameOf
    <3> QED
      BY <1>1, <2>1, <3>2, <3>3 DEF NameOf
  <2>2. CASE get_info_by_linkname
    <3>1. CASE i = link
      <4>1. inodeproc'[i] = [pid |-> visiting, name |-> program[visiting]]
        BY <2>2, <3>1 DEF get_info_by_linkname, With
      <4>2. visiting \in started' /\ program' = program
        BY <1>1, <2>2 DEF get_info_by_linkname, NamesInv, ProcWalk, kernel
      <4> QED
        BY <4>1, <4>2
    <3>2. CASE i # link
      BY <2>1, <2>2, <3>2 DEF get_info_by_linkname, With
    <3> QED
      BY <3>1, <3>2
  <2>3. get_info_by_linkname \/ inodeproc' = inodeproc
    BY DEF Next, Kernel, vars, tables, analyzer, StartProgram, Exit, OpenSocket,
       ShareSocket, CloseSocket, get_info_for_pid, ReadLink, CloseFd, ProcWalk, CloseProc,
       addtoconninode, CloseFile, FindFromConnection, FindPidAgain,
       get_process_from_inode, NoProcess, BeginReport, RemoveTimedOut
  <2> QED
    BY <2>1, <2>2, <2>3
<1>4. ASSUME NEW p \in DOMAIN processes'
      PROVE  p \in started' /\ (program'[p] # NULL => processes'[p] = program'[p])
  <2>1. ASSUME p \in DOMAIN processes, processes'[p] = processes[p]
        PROVE  p \in started' /\ (program'[p] # NULL => processes'[p] = program'[p])
    <3>1. p \in Pid /\ NameOf(p, processes[p])
      BY <2>1 DEF TypeOK, NamesInv
    <3>2. program'[p] # NULL => program'[p] = program[p]
      BY <1>1, <1>r, <3>1 DEF NameOf
    <3> QED
      BY <1>1, <2>1, <3>1, <3>2 DEF NameOf
  <2>2. CASE get_process_from_inode
    <3> DEFINE node == inodeproc[conninode[key]]
    <3>1. /\ NameOf(node.pid, node.name)
          /\ processes' = find_process_from_program(node)
          /\ UNCHANGED <<program, started>>
      BY <2>2 DEF get_process_from_inode, PidKnown, NamesInv, kernel
    <3>2. \/ p \in DOMAIN processes /\ processes'[p] = processes[p]
          \/ p = node.pid /\ processes'[p] = node.name
      BY <3>1 DEF find_process_from_program, With
    <3> HIDE DEF node
    <3> QED
      BY <2>1, <3>1, <3>2 DEF NameOf
  <2>3. CASE RemoveTimedOut
    BY <2>1, <2>3 DEF RemoveTimedOut
  <2>4. get_process_from_inode \/ RemoveTimedOut \/ processes' = processes
    BY DEF Next, Kernel, vars, analyzer, StartProgram, Exit, OpenSocket,
       ShareSocket, CloseSocket, get_info_for_pid, ReadLink, get_info_by_linkname, CloseFd,
       ProcWalk, CloseProc, addtoconninode, CloseFile, FindFromConnection, FindPidAgain,
       NoProcess, BeginReport
  <2> QED
    BY <2>1, <2>2, <2>3, <2>4
<1> QED
  BY <1>1, <1>2, <1>3, <1>4 DEF NamesInv, NameOf

LEMMA NamedRight ==
  ASSUME SearchInv, NamesInv, NextSeen, Finding,
         NEW h \in through, h[1] = result'
  PROVE  processes'[result'] = program[result']
<1>1. result' \in Pid /\ result' # 0 /\ program[result'] # NULL
  BY ThroughHolder DEF Running
<1>2. get_process_from_inode
  BY <1>1 DEF NextSeen, Finding, Next, Kernel, analyzer, StartProgram, Exit, OpenSocket,
     ShareSocket, CloseSocket, get_info_for_pid, ReadLink, get_info_by_linkname, CloseFd,
     CloseProc, addtoconninode, CloseFile, FindFromConnection, FindPidAgain, NoProcess,
     BeginReport, RemoveTimedOut
<1> DEFINE node == inodeproc[conninode[key]]
<1>3. /\ NameOf(node.pid, node.name) /\ result' = node.pid
      /\ processes' = find_process_from_program(node)
  BY <1>2 DEF get_process_from_inode, PidKnown, NamesInv
<1>4. result' \in DOMAIN processes => NameOf(result', processes[result'])
  BY DEF NamesInv
<1> HIDE DEF node
<1> QED
  BY <1>1, <1>3, <1>4 DEF NameOf, find_process_from_program, With

LEMMA NamesInvariant ==
  ASSUME ~ ReusePid
  PROVE  SpecSeen => []NamesInv
<1>1. InitSeen => NamesInv
  BY DEF InitSeen, Init, NamesInv, Running
<1>2. SearchInv /\ NamesInv /\ [NextSeen]_<<vars, through, ever>> => NamesInv'
  <2> SUFFICES ASSUME SearchInv, NamesInv, [NextSeen]_<<vars, through, ever>>
               PROVE  NamesInv'
    OBVIOUS
  <2>1. TypeOK /\ [Next]_vars
    BY DEF SearchInv, NextSeen
  <2> QED
    BY <2>1, NamesStep
<1> QED
  BY <1>1, <1>2, SearchInvariant, PTL DEF SpecSeen

\* A process that is found, and has held the socket all through the search, has a row
\* with its own name (na_process_find_from_connection()), when no pid is used again;
\* end points may be.
THEOREM NamesAreRight ==
  ASSUME ~ ReusePid
  PROVE  SpecSeen => RightName
<1>1. SearchInv /\ NamesInv /\ [NextSeen]_<<vars, through, ever>>
        => [Finding /\ (\E h \in through : h[1] = result')
              => processes'[result'] = program[result']]_<<vars, through, ever>>
  BY NamedRight
<1> QED
  BY <1>1, NamesInvariant, SearchInvariant, PTL DEF SpecSeen, RightName

\* A row without a name (getprogname(), na-inodeproc.c) is of a process that has exited,
\* when no pid is used again: for any processes, sockets and interleavings with them.
THEOREM NamelessHaveExited ==
  ASSUME ~ ReusePid
  PROVE  SpecSeen => []NamelessAreGone
<1>1. NamesInv => NamelessAreGone
  BY DEF NamesInv, NameOf, NamelessAreGone
<1> QED
  BY <1>1, NamesInvariant, PTL

=============================================================================
