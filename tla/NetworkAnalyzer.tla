-------------------------- MODULE NetworkAnalyzer ---------------------------
(***************************************************************************)
(* The accounting of the network analyzer: network-analyzer/na-process.c,  *)
(* and the main loop of na-application.c and na-pcap.c that drives it.     *)
(*                                                                         *)
(* The kernel appends the packets of each interface to a capture buffer.   *)
(* Once a second, or later when the process does not get to run, the main  *)
(* loop dispatches the interfaces in turn, handing the packets of each to  *)
(* push_packet() one by one, and then refreshes: it drops what has timed   *)
(* out and reports the bytes of each process in the last PERIOD seconds.   *)
(*                                                                         *)
(* Allocated structures are known by their address (ConnId, ProcId), so    *)
(* that an address freed can be handed out again and a reference to a      *)
(* freed structure would show.  Which process owns a new connection is     *)
(* decided by the /proc tables, a component of their own: any of Pid here, *)
(* or none.                                                                *)
(***************************************************************************)
EXTENDS NAConnection

CONSTANTS
  NIface,          \* interfaces opened by get_devices(), in the order 1..NIface
  Wire,            \* the addressing of the packets that may be captured
  PacketLen,       \* their lengths
  Pid,             \* process ids found in /proc
  ConnId, ProcId,  \* addresses malloc() may return for an NAConnection, NAProcess
  CONNTIMEOUT, PROCESSTIMEOUT,
  Epoch,           \* the time at which the daemon starts, seconds since 1970
  MaxTime,         \* bound: the last second explored
  MaxPackets,      \* bound: the packets captured in all
  MaxBuf,          \* bound: packets in a capture buffer
  MaxGap,          \* the seconds a refresh may come after the one before it
  MaxLag,          \* the seconds a packet may wait in its capture buffer
  MaxBack          \* the seconds the clock may be set back at a time

ASSUME AnalyzerAssumption ==
  /\ NIface \in Nat \ {0}
  /\ Wire \subseteq Header
  /\ PacketLen \subseteq Nat
  /\ Pid \subseteq Nat \ {0}
  /\ CONNTIMEOUT \in Nat \ {0}
  /\ PROCESSTIMEOUT \in Nat \ {0}
  /\ Epoch \in Nat /\ Epoch >= PROCESSTIMEOUT
  /\ MaxTime \in Nat
  /\ MaxPackets \in Nat
  /\ MaxBuf \in Nat
  /\ MaxGap \in Nat \ {0}
  /\ MaxLag \in Nat
  /\ MaxBack \in Nat

VARIABLES
  now,          \* gettimeofday(), in seconds
  captured,     \* packets captured so far, for the bound only
  buffer,       \* the packets the kernel holds for each interface
  at,           \* the interface being dispatched, NIface + 1 in do_refresh()
  connections,  \* the connections that are allocated, all of them in the
                \* global list of na-connection.c
  processes,    \* the processes that are allocated, all of them in the global
                \* list of na-process.c
  report,       \* the result of the last na_process_info_get_all()
  lastRefresh   \* when that was, on the clock as it is set now

vars == <<now, captured, buffer, at, connections, processes, report, lastRefresh>>

-----------------------------------------------------------------------------

Iface   == 1 .. NIface
Owner   == Pid \cup {0}
Process == [pid : Owner, conns : SUBSET ConnId]

TypeOK ==
  /\ now \in Nat
  /\ captured \in Nat
  /\ buffer \in [Iface -> Seq(Packet)]
  /\ at \in 1 .. NIface + 1
  /\ DOMAIN connections \subseteq ConnId
  /\ connections \in [DOMAIN connections -> Connection]
  /\ DOMAIN processes \subseteq ProcId
  /\ processes \in [DOMAIN processes -> Process]
  /\ lastRefresh \in Int

Init ==
  /\ now = Epoch
  /\ captured = 0
  /\ buffer = [i \in Iface |-> <<>>]
  /\ at = 1
  /\ connections = <<>>
  /\ processes = <<>>
  /\ report = <<>>
  /\ lastRefresh = Epoch

-----------------------------------------------------------------------------
(* The environment: the kernel captures a packet, a second goes by, the    *)
(* clock is set.                                                           *)

Capture(i) ==
  /\ captured < MaxPackets /\ captured' = captured + 1
  /\ Len(buffer[i]) < MaxBuf
  /\ \E h \in Wire, n \in PacketLen :
       buffer' = [buffer EXCEPT ![i] =
                    Append(@, [header |-> h, time |-> now, len |-> n])]
  /\ UNCHANGED <<now, at, connections, processes, report, lastRefresh>>

Tick ==
  /\ now < MaxTime
  /\ now < lastRefresh + MaxGap
  /\ \A i \in Iface : \A k \in DOMAIN buffer[i] : now < buffer[i][k].time + MaxLag
  /\ now' = now + 1
  /\ UNCHANGED <<captured, buffer, at, connections, processes, report, lastRefresh>>

\* The clock is set back, though never before Epoch.  What was stamped before is
\* now in the future; the time since the last refresh is what it was.
SetBack ==
  /\ \E n \in 1 .. MaxBack :
       /\ Epoch <= now - n
       /\ now' = now - n
       /\ lastRefresh' = lastRefresh - n
  /\ UNCHANGED <<captured, buffer, at, connections, processes, report>>

-----------------------------------------------------------------------------
(* push_packet(): the packet at the head of the buffer that is dispatched. *)

packet == Head(buffer[at])

Found == na_connection_find_from_packet(packet, connections)

\* The table f with x mapped to y, x being new to f or not.
With(f, x, y) == [z \in DOMAIN f \cup {x} |-> IF z = x THEN y ELSE f[z]]

\* Mutation: a new process for every connection.
find_no_process(o) == ProcId \ DOMAIN processes

\* Mutation: a connection no process is found for is added to the unknown process.
find_unknown(o) ==
  LET known == {p \in DOMAIN processes : processes[p].pid = o}
  IN  IF known # {} THEN known ELSE ProcId \ DOMAIN processes

\* The processes a connection owned by pid o can be added to: the one that has
\* this pid, or else a new one.  A connection no process is found for (o = 0)
\* gets a new process, whose pid is 0, each time.
na_process_find_from_connection(o) ==
  LET known == {p \in DOMAIN processes : o # 0 /\ processes[p].pid = o}
  IN  IF known # {} THEN known ELSE ProcId \ DOMAIN processes

AddToProcess(p, o, c) ==
  IF p \in DOMAIN processes
  THEN [processes EXCEPT ![p].conns = @ \cup {c}]
  ELSE With(processes, p, [pid |-> o, conns |-> {c}])

PushKnown ==
  /\ at \in Iface /\ buffer[at] # <<>>
  /\ \E c \in Found :
       connections' =
         [connections EXCEPT ![c] = na_connection_add_packet(@, packet)]
  /\ buffer' = [buffer EXCEPT ![at] = Tail(@)]
  /\ UNCHANGED <<now, captured, at, processes, report, lastRefresh>>

PushNew ==
  /\ at \in Iface /\ buffer[at] # <<>>
  /\ Found = {}
  /\ \E c \in ConnId \ DOMAIN connections, o \in Owner :
       /\ connections' = With(connections, c, na_connection_new(packet))
       /\ \E p \in na_process_find_from_connection(o) :
            processes' = AddToProcess(p, o, c)
  /\ buffer' = [buffer EXCEPT ![at] = Tail(@)]
  /\ UNCHANGED <<now, captured, at, report, lastRefresh>>

push_packet == PushKnown \/ PushNew

\* Mutation: the loop goes on beyond the last interface.
DispatchOn ==
  /\ buffer = [i \in Iface |-> <<>>]
  /\ at' = at + 1
  /\ UNCHANGED <<now, captured, buffer, connections, processes, report, lastRefresh>>

\* na_pcap_dispatch() returns: the part of the buffer the kernel had handed over
\* is processed, or an error ended it early.  Either way the loop moves on.
DispatchDone ==
  /\ at \in Iface
  /\ at' = at + 1
  /\ UNCHANGED <<now, captured, buffer, connections, processes, report, lastRefresh>>

-----------------------------------------------------------------------------
(* do_refresh()                                                            *)

\* Mutation: the timeout of the connections is used for the process.
TimedOutEarly(p) ==
  /\ CONNTIMEOUT <= now
  /\ \A c \in processes[p].conns : connections[c].last + CONNTIMEOUT <= now

\* Mutation: a process without connections is not removed.
TimedOutUnlessEmpty(p) ==
  /\ processes[p].conns # {}
  /\ \A c \in processes[p].conns :
       connections[c].last + PROCESSTIMEOUT <= now

\* na_process_get_last_packet_time(p) + PROCESSTIMEOUT <= t.  The last packet
\* time of a process is the largest of its connections', 0 when it has none.
TimedOut(p) ==
  /\ PROCESSTIMEOUT <= now
  /\ \A c \in processes[p].conns :
       connections[c].last + PROCESSTIMEOUT <= now

\* Mutation: the comparison is strict.
StalledLate(c) == connections[c].last < now - CONNTIMEOUT

\* A connection na_process_sum_connections() removes.
Stalled(c) == connections[c].last <= now - CONNTIMEOUT

na_process_sum_connections(p, d) ==
  SumFunction([c \in {x \in processes[p].conns : ~ Stalled(x)} |->
                 na_connection_sum_packets(connections[c], d, now)]) % U32

\* The packet lists after na_packet_list_sum_packets() went over them.
Trimmed(connection) ==
  [connection EXCEPT !.packets =
     [d \in Direction |-> na_packet_list_kept(connection.packets[d], now)]]

\* A timed-out process is freed without a look at its connections.  Every other
\* process frees its stalled connections and reports the others.
\* The refresh of the /proc tables it begins with is in NAProcTables.
na_process_info_get_all ==
  LET kept  == {p \in DOMAIN processes : ~ TimedOut(p)}
      freed == {c \in UNION {processes[p].conns : p \in kept} : Stalled(c)}
  IN  /\ report' = [p \in kept |->
                      [pid  |-> processes[p].pid,
                       sent |-> na_process_sum_connections(p, "sent"),
                       recv |-> na_process_sum_connections(p, "recv")]]
      /\ processes' = [p \in kept |->
                         [processes[p] EXCEPT !.conns = @ \ freed]]
      /\ connections' =
           [c \in DOMAIN connections \ freed |->
              IF \E p \in kept : c \in processes[p].conns
              THEN Trimmed(connections[c])
              ELSE connections[c]]

do_refresh ==
  /\ at = NIface + 1
  /\ na_process_info_get_all
  /\ at' = 1
  /\ lastRefresh' = now
  /\ UNCHANGED <<now, captured, buffer>>

-----------------------------------------------------------------------------

Next ==
  \/ \E i \in Iface : Capture(i)
  \/ Tick
  \/ SetBack
  \/ push_packet
  \/ DispatchDone
  \/ do_refresh

Spec == Init /\ [][Next]_vars

-----------------------------------------------------------------------------
(* Properties.                                                             *)

\* The timing under which nothing is lost: refreshes are not too far apart and
\* packets do not wait too long for the timeouts.  With the values of the code
\* the gap between two refreshes may be up to 25 seconds.
Timely ==
  /\ MaxGap + CONNTIMEOUT <= PROCESSTIMEOUT
  /\ MaxGap + MaxLag < PROCESSTIMEOUT

\* No two live connections answer to the same packet: whatever way the packets
\* of a flow go, push_packet() (na-pcap.c) finds the one connection that was
\* made for the first of them, and makes no second one.
OneConnectionPerFlow ==
  \A c, d \in DOMAIN connections :
    LET inverted == na_packet_new_inverted(connections[d].ref)
    IN  \/ na_packet_match(connections[c].ref, connections[d].ref)
        \/ na_packet_match(connections[c].ref, inverted)
        => c = d

\* Every live connection is in the list of exactly one process, and every
\* connection in such a list is live: none is leaked, which would swallow the
\* packets of its flow for ever after, none is counted twice, and no process
\* keeps a reference to one that was freed.
EveryConnectionOwned ==
  /\ \A c \in DOMAIN connections :
       \E p \in DOMAIN processes : c \in processes[p].conns
  /\ \A p, q \in DOMAIN processes :
       processes[p].conns \cap processes[q].conns # {} => p = q
  /\ \A p \in DOMAIN processes : processes[p].conns \subseteq DOMAIN connections

\* A process of the system has one entry in the process list, so that the report
\* has one row for it.
OneProcessPerPid ==
  \A p, q \in DOMAIN processes :
    processes[p].pid = processes[q].pid /\ processes[p].pid # 0 => p = q

\* The entries of a packet list are of different seconds, the latest first: what
\* na_packet_list_sum_packets() cuts off is all that is too old and no more.
PacketListsNewestFirst ==
  \A c \in DOMAIN connections, d \in Direction :
    LET list == connections[c].packets[d]
    IN  \A i, j \in DOMAIN list : i < j => list[i].time > list[j].time

\* The comment in na_connection_find_from_packet() (na-connection.c): "the
\* reference packet is always *outgoing*".  It is, unless neither end of the flow is
\* one of the addresses get_devices() found: of a packet that is forwarded, or was
\* sent to a multicast address, the reference is the inverse, incoming as well.
RefPacketOutgoing ==
  \A c \in DOMAIN connections :
    LET ref == connections[c].ref
    IN  ~ na_packet_is_outgoing(ref) => {ref.src, ref.dst} \cap LocalAddress = {}

\* A packet is counted in a connection of its own flow.
CountedInItsFlow ==
  \A c \in DOMAIN connections \cap DOMAIN connections' :
    buffer' # buffer /\ connections'[c] # connections[c]
      => SameFlow(packet.header, connections[c].ref)
PacketCountedInItsFlow == [][CountedInItsFlow]_vars

\* A connection is removed only when it has been idle for CONNTIMEOUT, and a
\* refresh leaves none that has (na-process.h).
IdleFor(c, seconds) == connections[c].last + seconds <= now
RemovedWhenIdle ==
  /\ \A c \in DOMAIN connections \ DOMAIN connections' : IdleFor(c, CONNTIMEOUT)
  /\ at' < at => \A c \in DOMAIN connections' : ~ IdleFor(c, CONNTIMEOUT)
ConnectionRemovedWhenIdle == [][RemovedWhenIdle]_vars

\* A report, and the signal made of it, has no more rows than there are connections
\* (na-process.c).  The comments have it otherwise: a process would be removed "the
\* amount of time after the last packet was recieved" that PROCESSTIMEOUT is
\* (na-process.h), but one that has lost its last connection is removed at the next
\* refresh, its last packet time being 0 then, however recent its packets.
RowsBounded ==
  at' < at => Cardinality(DOMAIN report') <= Cardinality(DOMAIN connections)
NoMoreRowsThanConnections == [][RowsBounded]_vars

\* No process stands for more than one connection nobody owns.  The comment of
\* na_process_find_from_connection() (na-process.c) has it otherwise: "If no process
\* can be found even then, it's added to the 'unknown' process."  There is no such
\* process, and a host nobody owns many connections of gets as many rows.
NobodysAreApart ==
  \A p \in DOMAIN processes :
    processes[p].pid = 0 => \A c, d \in processes[p].conns : c = d

=============================================================================
