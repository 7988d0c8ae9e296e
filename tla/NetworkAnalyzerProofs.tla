----------------------- MODULE NetworkAnalyzerProofs ------------------------
(***************************************************************************)
(* Theorems about the accounting of the network analyzer, for any number   *)
(* of interfaces, flows, connections and processes, and any timeouts.      *)
(***************************************************************************)
EXTENDS NetworkAnalyzer, SequenceTheorems, FiniteSetTheorems, WellFoundedInduction,
        TLAPS

-----------------------------------------------------------------------------
(* Packets.                                                                *)

\* Inverting a packet gives a packet, and twice gives the packet back
\* (na_packet_new_inverted).
LEMMA InvertedTwice ==
  ASSUME NEW h \in Header
  PROVE  /\ na_packet_new_inverted(h) \in Header
         /\ na_packet_new_inverted(na_packet_new_inverted(h)) = h
  BY DEF Header, HeaderOf, na_packet_new_inverted

\* A packet matches another exactly when their inverses match.
LEMMA MatchInverted ==
  ASSUME NEW g \in Header, NEW h \in Header
  PROVE  na_packet_match(na_packet_new_inverted(g), na_packet_new_inverted(h))
           <=> na_packet_match(g, h)
  BY DEF na_packet_match, na_packet_new_inverted

\* The same with one of them inverted twice.
LEMMA MatchMoved ==
  ASSUME NEW g \in Header, NEW h \in Header
  PROVE  na_packet_match(na_packet_new_inverted(g), h)
           <=> na_packet_match(g, na_packet_new_inverted(h))
  BY DEF na_packet_match, na_packet_new_inverted

\* na_packet_match compares four fields, so that it is an equivalence.
LEMMA MatchSymmetric ==
  ASSUME NEW g, NEW h, na_packet_match(g, h)
  PROVE  na_packet_match(h, g)
  BY DEF na_packet_match

-----------------------------------------------------------------------------
(* Packet lists.                                                           *)

\* A set of naturals that is not empty has a least element, the one Min chooses.
LEMMA LeastOfNat ==
  ASSUME NEW S \in SUBSET Nat, S # {}
  PROVE  Min(S) \in S /\ \A i \in S : Min(S) <= i
<1>1. PICK x \in S : \A y \in S : <<y, x>> \notin OpToRel(<, Nat)
  BY NatLessThanWellFounded, WFMin, Zenon
<1>2. \A y \in S : ~ (y < x)
  BY <1>1, Zenon DEF OpToRel
<1>3. \A y \in S : x <= y
  BY <1>2
<1> QED
  BY <1>3 DEF Min

\* The entries na_packet_list_sum_packets() keeps are a packet list.
LEMMA KeptType ==
  ASSUME NEW list \in PacketList, NEW t
  PROVE  na_packet_list_kept(list, t) \in PacketList
<1> DEFINE E == Expired(list, t)
<1>1. CASE E = {}
  BY <1>1 DEF na_packet_list_kept
<1>2. CASE E # {}
  <2>1. E \in SUBSET Nat /\ E \subseteq 1 .. Len(list)
    BY DEF Expired, PacketList
  <2>2. Min(E) \in 1 .. Len(list)
    BY <1>2, <2>1, LeastOfNat
  <2>3. SubSeq(list, 1, Min(E) - 1) \in PacketList
    BY <2>2 DEF PacketList
  <2> QED
    BY <1>2, <2>3 DEF na_packet_list_kept
<1> QED
  BY <1>1, <1>2

\* Adding a packet to a packet list gives a packet list.
LEMMA AddPacketType ==
  ASSUME NEW list \in PacketList, NEW p \in Packet
  PROVE  na_packet_list_add_packet(list, p) \in PacketList
<1>0. U32 \in Nat \ {0} /\ p.len \in Nat /\ p.time \in Nat
  BY ConnectionAssumption DEF Packet
<1>1. CASE list # <<>> /\ Head(list).time = p.time
  <2>1. 1 \in 1 .. Len(list) /\ list[1] \in ListEntry
    BY <1>1 DEF PacketList
  <2>2. [list[1] EXCEPT !.len = (@ + p.len) % U32] \in ListEntry
    BY <1>0, <2>1 DEF ListEntry
  <2>3. [list EXCEPT ![1].len = (@ + p.len) % U32] \in PacketList
    BY <2>1, <2>2 DEF PacketList
  <2> QED
    BY <1>1, <2>3 DEF na_packet_list_add_packet
<1>2. CASE ~ (list # <<>> /\ Head(list).time = p.time)
  <2>1. [time |-> p.time, len |-> p.len] \in ListEntry
    BY <1>0 DEF ListEntry
  <2>2. <<[time |-> p.time, len |-> p.len]>> \in PacketList
    BY <2>1 DEF PacketList
  <2>3. <<[time |-> p.time, len |-> p.len]>> \o list \in PacketList
    BY <2>2 DEF PacketList
  <2> QED
    BY <1>2, <2>3 DEF na_packet_list_add_packet
<1> QED
  BY <1>1, <1>2

-----------------------------------------------------------------------------
(* Connections.                                                            *)

\* A connection made for a packet is a connection (na_connection_new).
LEMMA NewConnectionType ==
  ASSUME NEW p \in Packet
  PROVE  na_connection_new(p) \in Connection
<1>1. p.header \in Header /\ p.time \in Nat
  BY DEF Packet
<1>2. na_packet_new_inverted(p.header) \in Header
  BY <1>1, InvertedTwice
<1>3. <<>> \in PacketList
  BY DEF PacketList
<1>4. na_packet_list_add_packet(<<>>, p) \in PacketList
  BY <1>3, AddPacketType
<1> QED
  BY <1>1, <1>2, <1>3, <1>4 DEF na_connection_new, Connection

\* Adding a packet to a connection gives a connection with the same reference
\* packet (na_connection_add_packet).
LEMMA AddToConnection ==
  ASSUME NEW conn \in Connection, NEW p \in Packet
  PROVE  /\ na_connection_add_packet(conn, p) \in Connection
         /\ na_connection_add_packet(conn, p).ref = conn.ref
         /\ na_connection_add_packet(conn, p).last = p.time
<1>1. p.time \in Nat
  BY DEF Packet
<1>2. DirectionOf(p) \in Direction
  BY DEF DirectionOf, Direction
<1>3. conn.packets[DirectionOf(p)] \in PacketList
  BY <1>2 DEF Connection
<1>4. na_packet_list_add_packet(conn.packets[DirectionOf(p)], p) \in PacketList
  BY <1>3, AddPacketType
<1> QED
  BY <1>1, <1>2, <1>4 DEF na_connection_add_packet, Connection

\* What a refresh leaves of a connection is a connection with the same reference
\* packet and the same last packet time (na_connection_sum_packets).
LEMMA TrimmedConnection ==
  ASSUME NEW conn \in Connection
  PROVE  /\ Trimmed(conn) \in Connection
         /\ Trimmed(conn).ref = conn.ref
         /\ Trimmed(conn).last = conn.last
<1>1. \A d \in Direction : na_packet_list_kept(conn.packets[d], now) \in PacketList
  BY KeptType DEF Connection
<1> QED
  BY <1>1 DEF Trimmed, Connection

\* A connection push_packet() finds is one that is allocated, and its reference
\* packet matches the packet or its inverse; it finds none when there is none.
LEMMA FoundConnections ==
  ASSUME NEW p, NEW conns
  PROVE  LET F == na_connection_find_from_packet(p, conns)
             Answers(c) ==
               \/ na_packet_match(p.header, conns[c].ref)
               \/ na_packet_match(na_packet_new_inverted(p.header), conns[c].ref)
         IN  /\ \A c \in F : c \in DOMAIN conns /\ Answers(c)
             /\ F = {} => \A c \in DOMAIN conns : ~ Answers(c)
  BY DEF na_connection_find_from_packet

-----------------------------------------------------------------------------
(* Type correctness.                                                       *)

\* The packet that push_packet() is given.
LEMMA HeadOfBuffer ==
  ASSUME TypeOK, at \in Iface, buffer[at] # <<>>
  PROVE  /\ packet \in Packet
         /\ packet = buffer[at][1] /\ 1 \in DOMAIN buffer[at]
         /\ Tail(buffer[at]) \in Seq(Packet)
         /\ \A k \in DOMAIN Tail(buffer[at]) :
              k + 1 \in DOMAIN buffer[at] /\ Tail(buffer[at])[k] = buffer[at][k + 1]
<1>1. buffer[at] \in Seq(Packet)
  BY DEF TypeOK
<1>2. DOMAIN buffer[at] = 1 .. Len(buffer[at]) /\ Len(buffer[at]) \in Nat
  BY <1>1
<1>3. /\ Tail(buffer[at]) \in Seq(Packet)
      /\ DOMAIN Tail(buffer[at]) = 1 .. Len(buffer[at]) - 1
      /\ \A k \in 1 .. Len(buffer[at]) - 1 : Tail(buffer[at])[k] = buffer[at][k + 1]
  BY <1>1, HeadTailProperties
<1> QED
  BY <1>1, <1>2, <1>3 DEF packet

LEMMA TypeInit == Init => TypeOK
<1> SUFFICES ASSUME Init PROVE TypeOK
  OBVIOUS
<1>1. DOMAIN connections = {} /\ DOMAIN processes = {}
  BY DEF Init
<1>2. connections \in [DOMAIN connections -> Connection]
  BY DEF Init
<1>3. processes \in [DOMAIN processes -> Process]
  BY DEF Init
<1> QED
  BY <1>1, <1>2, <1>3, AnalyzerAssumption DEF Init, TypeOK, Iface

\* The process list after push_packet() added a connection to a process.
LEMMA AddToProcessType ==
  ASSUME TypeOK, NEW o \in Owner, NEW c \in ConnId,
         NEW p \in na_process_find_from_connection(o)
  PROVE  /\ DOMAIN AddToProcess(p, o, c) \subseteq ProcId
         /\ AddToProcess(p, o, c) \in [DOMAIN AddToProcess(p, o, c) -> Process]
<1>1. p \in ProcId
  BY DEF na_process_find_from_connection, TypeOK
<1>2. CASE p \in DOMAIN processes
  <2>1. [processes[p] EXCEPT !.conns = @ \cup {c}] \in Process
    BY <1>2 DEF TypeOK, Process
  <2> QED
    BY <1>2, <2>1 DEF AddToProcess, TypeOK
<1>3. CASE p \notin DOMAIN processes
  <2>1. [pid |-> o, conns |-> {c}] \in Process
    BY DEF Process
  <2> QED
    BY <1>1, <1>3, <2>1 DEF AddToProcess, With, TypeOK
<1> QED
  BY <1>2, <1>3

LEMMA TypeStep == TypeOK /\ [Next]_vars => TypeOK'
<1> SUFFICES ASSUME TypeOK, [Next]_vars PROVE TypeOK'
  OBVIOUS
<1> USE DEF TypeOK
<1>1. ASSUME NEW i \in Iface, Capture(i) PROVE TypeOK'
  <2>1. PICK h \in Wire, n \in PacketLen :
          buffer' = [buffer EXCEPT ![i] =
                       Append(@, [header |-> h, time |-> now, len |-> n])]
    BY <1>1 DEF Capture
  <2>2. [header |-> h, time |-> now, len |-> n] \in Packet
    BY AnalyzerAssumption DEF Packet
  <2>3. buffer' \in [Iface -> Seq(Packet)]
    BY <2>1, <2>2
  <2> QED
    BY <1>1, <2>3 DEF Capture
<1>2. CASE Tick
  BY <1>2 DEF Tick
<1>8. CASE SetBack
  <2>1. PICK n \in 1 .. MaxBack :
          Epoch <= now - n /\ now' = now - n /\ lastRefresh' = lastRefresh - n
    BY <1>8 DEF SetBack
  <2>2. n \in Nat /\ Epoch \in Nat
    BY AnalyzerAssumption
  <2>3. now' \in Nat /\ lastRefresh' \in Int
    BY <2>1, <2>2
  <2> QED
    BY <1>8, <2>3 DEF SetBack
<1>3. CASE PushKnown
  <2>1. packet \in Packet /\ buffer' \in [Iface -> Seq(Packet)]
    BY <1>3, HeadOfBuffer DEF PushKnown
  <2>2. PICK c \in Found :
          connections' = [connections EXCEPT ![c] = na_connection_add_packet(@, packet)]
    BY <1>3 DEF PushKnown
  <2>3. c \in DOMAIN connections
    BY FoundConnections DEF Found
  <2>4. na_connection_add_packet(connections[c], packet) \in Connection
    BY <2>1, <2>3, AddToConnection
  <2> QED
    BY <1>3, <2>1, <2>2, <2>3, <2>4 DEF PushKnown
<1>4. CASE PushNew
  <2>1. packet \in Packet /\ buffer' \in [Iface -> Seq(Packet)]
    BY <1>4, HeadOfBuffer DEF PushNew
  <2>2. PICK c \in ConnId \ DOMAIN connections, o \in Owner :
          /\ connections' = With(connections, c, na_connection_new(packet))
          /\ \E p \in na_process_find_from_connection(o) :
               processes' = AddToProcess(p, o, c)
    BY <1>4 DEF PushNew
  <2>3. PICK p \in na_process_find_from_connection(o) :
          processes' = AddToProcess(p, o, c)
    BY <2>2
  <2>4. /\ DOMAIN connections' \subseteq ConnId
        /\ connections' \in [DOMAIN connections' -> Connection]
    BY <2>1, <2>2, NewConnectionType DEF With
  <2>5. /\ DOMAIN processes' \subseteq ProcId
        /\ processes' \in [DOMAIN processes' -> Process]
    BY <2>3, AddToProcessType
  <2> QED
    BY <1>4, <2>1, <2>4, <2>5 DEF PushNew
<1>5. CASE DispatchDone
  BY <1>5, AnalyzerAssumption DEF DispatchDone, Iface
<1>6. CASE do_refresh
  <2>1. /\ DOMAIN connections' \subseteq ConnId
        /\ connections' \in [DOMAIN connections' -> Connection]
    BY <1>6, TrimmedConnection DEF do_refresh, na_process_info_get_all
  <2>2. /\ DOMAIN processes' \subseteq ProcId
        /\ processes' \in [DOMAIN processes' -> Process]
    BY <1>6 DEF do_refresh, na_process_info_get_all, Process
  <2> QED
    BY <1>6, <2>1, <2>2, AnalyzerAssumption DEF do_refresh
<1>7. CASE UNCHANGED vars
  BY <1>7 DEF vars
<1> QED
  BY <1>1, <1>2, <1>3, <1>4, <1>5, <1>6, <1>7, <1>8 DEF Next, push_packet

\* Every value the accounting computes is of its type: in particular the packet
\* lists that na_packet_list_sum_packets() cuts stay packet lists.
THEOREM TypeCorrect == Spec => []TypeOK
  BY TypeInit, TypeStep, PTL DEF Spec

-----------------------------------------------------------------------------
(* One connection for each flow.                                           *)

\* What a step does to the table of connections: it allocates none, and keeps the
\* reference packets of those it does not free, unless it is PushNew.
LEMMA StepKeepsReferences ==
  ASSUME TypeOK, [Next]_vars, ~ PushNew
  PROVE  /\ DOMAIN connections' \subseteq DOMAIN connections
         /\ \A c \in DOMAIN connections' : connections'[c].ref = connections[c].ref
<1>1. CASE PushKnown
  <2>1. packet \in Packet
    BY <1>1, HeadOfBuffer DEF PushKnown
  <2>2. PICK c \in Found :
          connections' = [connections EXCEPT ![c] = na_connection_add_packet(@, packet)]
    BY <1>1 DEF PushKnown
  <2>3. c \in DOMAIN connections /\ connections[c] \in Connection
    BY FoundConnections DEF Found, TypeOK
  <2>4. na_connection_add_packet(connections[c], packet).ref = connections[c].ref
    BY <2>1, <2>3, AddToConnection
  <2> QED
    BY <2>2, <2>3, <2>4 DEF TypeOK
<1>2. CASE do_refresh
  BY <1>2, TrimmedConnection DEF TypeOK, do_refresh, na_process_info_get_all
<1>3. CASE connections' = connections
  BY <1>3
<1> QED
  BY <1>1, <1>2, <1>3 DEF Next, push_packet, Capture, Tick, SetBack, DispatchDone, vars

LEMMA FlowStep ==
  TypeOK /\ OneConnectionPerFlow /\ [Next]_vars => OneConnectionPerFlow'
<1> SUFFICES ASSUME TypeOK, OneConnectionPerFlow, [Next]_vars
             PROVE  OneConnectionPerFlow'
  OBVIOUS
<1>1. CASE PushNew
  <2>1. packet \in Packet /\ packet.header \in Header
    BY <1>1, HeadOfBuffer DEF PushNew, Packet
  <2>2. PICK c \in ConnId \ DOMAIN connections :
          connections' = With(connections, c, na_connection_new(packet))
    BY <1>1 DEF PushNew
  <2> DEFINE r == na_connection_new(packet).ref
             q == packet.header
             inv(h) == na_packet_new_inverted(h)
  <2>3. r = q \/ r = inv(q)
    BY DEF na_connection_new
  <2>4. r \in Header /\ inv(r) \in Header /\ inv(inv(q)) = q
    BY <2>1, <2>3, InvertedTwice
  <2>5. \A d \in DOMAIN connections : connections[d].ref \in Header
    BY DEF TypeOK, Connection
  <2>6. \A d \in DOMAIN connections :
          /\ ~ na_packet_match(r, connections[d].ref)
          /\ ~ na_packet_match(inv(r), connections[d].ref)
    <3>1. \A d \in DOMAIN connections :
            /\ ~ na_packet_match(q, connections[d].ref)
            /\ ~ na_packet_match(inv(q), connections[d].ref)
      BY <1>1, FoundConnections DEF PushNew, Found
    <3> QED
      BY <2>3, <2>4, <3>1
  <2>7. \A d \in DOMAIN connections :
          /\ ~ na_packet_match(r, inv(connections[d].ref))
          /\ ~ na_packet_match(connections[d].ref, r)
          /\ ~ na_packet_match(connections[d].ref, inv(r))
    BY <2>4, <2>5, <2>6, MatchMoved, MatchSymmetric
  <2>8. /\ DOMAIN connections' = DOMAIN connections \cup {c}
        /\ connections'[c].ref = r
        /\ \A d \in DOMAIN connections : connections'[d] = connections[d]
    BY <2>2 DEF With
  <2> HIDE DEF r, inv
  <2>9. ASSUME NEW d \in DOMAIN connections', NEW e \in DOMAIN connections',
               \/ na_packet_match(connections'[d].ref, connections'[e].ref)
               \/ na_packet_match(connections'[d].ref, inv(connections'[e].ref))
        PROVE  d = e
    <3>1. CASE d \in DOMAIN connections /\ e \in DOMAIN connections
      BY <2>8, <2>9, <3>1 DEF OneConnectionPerFlow, inv
    <3>2. CASE d = c /\ e \in DOMAIN connections
      BY <2>6, <2>7, <2>8, <2>9, <3>2
    <3>3. CASE d \in DOMAIN connections /\ e = c
      BY <2>6, <2>7, <2>8, <2>9, <3>3
    <3> QED
      BY <2>8, <3>1, <3>2, <3>3
  <2> QED
    BY <2>9 DEF OneConnectionPerFlow, inv
<1>2. CASE ~ PushNew
  <2>1. /\ DOMAIN connections' \subseteq DOMAIN connections
        /\ \A c \in DOMAIN connections' : connections'[c].ref = connections[c].ref
    BY <1>2, StepKeepsReferences
  <2> QED
    BY <2>1 DEF OneConnectionPerFlow
<1> QED
  BY <1>1, <1>2

\* At any time, of all live connections at most one answers to a packet: the two
\* searches of na_connection_find_from_packet() have no choice to make, in
\* whatever order the interfaces deliver the packets of both directions.
THEOREM FlowsAreKeptApart == Spec => []OneConnectionPerFlow
<1>1. Init => OneConnectionPerFlow
  BY DEF Init, OneConnectionPerFlow
<1> QED
  BY <1>1, FlowStep, TypeCorrect, PTL DEF Spec

-----------------------------------------------------------------------------
(* No connection is leaked.                                                *)

\* Nothing has waited longer than the bounds say, and no connection is so old that
\* the next refresh could time out the process that holds it.
InTime ==
  /\ lastRefresh <= now /\ now <= lastRefresh + MaxGap
  /\ \A i \in Iface : \A k \in DOMAIN buffer[i] :
       now <= buffer[i][k].time + MaxLag
  /\ \A c \in DOMAIN connections :
       lastRefresh + MaxGap < connections[c].last + PROCESSTIMEOUT

OwnedInv == TypeOK /\ InTime /\ EveryConnectionOwned

\* Under Timely, a process that a refresh removes has no connections.
LEMMA TimedOutIsEmpty ==
  ASSUME OwnedInv, NEW p \in DOMAIN processes, TimedOut(p)
  PROVE  processes[p].conns = {}
<1> SUFFICES ASSUME NEW c \in processes[p].conns PROVE FALSE
  OBVIOUS
<1>1. c \in DOMAIN connections /\ connections[c].last \in Nat
  BY DEF OwnedInv, EveryConnectionOwned, TypeOK, Connection
<1>2. connections[c].last + PROCESSTIMEOUT <= now
  BY DEF TimedOut
<1>3. lastRefresh + MaxGap < connections[c].last + PROCESSTIMEOUT /\ now <= lastRefresh + MaxGap
  BY <1>1 DEF OwnedInv, InTime
<1> QED
  BY <1>1, <1>2, <1>3, AnalyzerAssumption DEF OwnedInv, TypeOK

\* The packet that is pushed is recent enough to keep a process alive until the
\* next refresh.
LEMMA PacketInTime ==
  ASSUME Timely, OwnedInv, at \in Iface, buffer[at] # <<>>
  PROVE  lastRefresh + MaxGap < packet.time + PROCESSTIMEOUT
<1>1. packet \in Packet /\ packet = buffer[at][1] /\ 1 \in DOMAIN buffer[at]
  BY HeadOfBuffer DEF OwnedInv
<1>2. now <= packet.time + MaxLag /\ lastRefresh <= now /\ packet.time \in Nat
  BY <1>1 DEF OwnedInv, InTime, Packet
<1>3. now \in Nat /\ lastRefresh \in Int
  BY DEF OwnedInv, TypeOK
<1>4. /\ MaxGap \in Nat /\ MaxLag \in Nat /\ PROCESSTIMEOUT \in Nat
      /\ MaxGap + MaxLag < PROCESSTIMEOUT
  BY AnalyzerAssumption DEF Timely
<1> QED
  BY <1>2, <1>3, <1>4

\* Taking the packet at the head away leaves the buffer in time.
LEMMA BufferStaysInTime ==
  ASSUME OwnedInv, at \in Iface, buffer[at] # <<>>,
         buffer' = [buffer EXCEPT ![at] = Tail(@)]
  PROVE  \A i \in Iface : \A k \in DOMAIN buffer'[i] :
           now <= buffer'[i][k].time + MaxLag
<1>1. \A k \in DOMAIN Tail(buffer[at]) :
        k + 1 \in DOMAIN buffer[at] /\ Tail(buffer[at])[k] = buffer[at][k + 1]
  BY HeadOfBuffer DEF OwnedInv
<1>2. \A i \in Iface : buffer'[i] = IF i = at THEN Tail(buffer[at]) ELSE buffer[i]
  BY DEF OwnedInv, TypeOK
<1> QED
  BY <1>1, <1>2 DEF OwnedInv, InTime

LEMMA OwnedInit == Init => OwnedInv
<1> SUFFICES ASSUME Init PROVE OwnedInv
  OBVIOUS
<1>1. InTime
  BY AnalyzerAssumption DEF Init, InTime
<1>2. EveryConnectionOwned
  BY DEF Init, EveryConnectionOwned
<1> QED
  BY <1>1, <1>2, TypeInit DEF OwnedInv

\* A packet of a known connection.
LEMMA OwnedPushKnown ==
  ASSUME Timely, OwnedInv, PushKnown
  PROVE  InTime' /\ EveryConnectionOwned'
<1>1. packet \in Packet
  BY HeadOfBuffer DEF PushKnown, OwnedInv
<1>2. PICK c \in Found :
        connections' = [connections EXCEPT ![c] = na_connection_add_packet(@, packet)]
  BY DEF PushKnown
<1>3. c \in DOMAIN connections /\ connections[c] \in Connection
  BY FoundConnections DEF Found, OwnedInv, TypeOK
<1>4. /\ DOMAIN connections' = DOMAIN connections
      /\ connections'[c].last = packet.time
      /\ \A d \in DOMAIN connections : d # c => connections'[d] = connections[d]
  BY <1>1, <1>2, <1>3, AddToConnection DEF OwnedInv, TypeOK
<1>5. \A d \in DOMAIN connections' :
        lastRefresh + MaxGap < connections'[d].last + PROCESSTIMEOUT
  BY <1>4, PacketInTime DEF PushKnown, OwnedInv, InTime
<1>6. InTime'
  BY <1>5, BufferStaysInTime DEF PushKnown, OwnedInv, InTime
<1>7. EveryConnectionOwned'
  BY <1>4 DEF PushKnown, OwnedInv, EveryConnectionOwned
<1> QED
  BY <1>6, <1>7

\* The first packet of a connection.
LEMMA OwnedPushNew ==
  ASSUME Timely, OwnedInv, PushNew
  PROVE  InTime' /\ EveryConnectionOwned'
<1>1. PICK c \in ConnId \ DOMAIN connections, o \in Owner :
        /\ connections' = With(connections, c, na_connection_new(packet))
        /\ \E p \in na_process_find_from_connection(o) :
             processes' = AddToProcess(p, o, c)
  BY DEF PushNew
<1>2. PICK p \in na_process_find_from_connection(o) :
        processes' = AddToProcess(p, o, c)
  BY <1>1
<1>3. /\ DOMAIN connections' = DOMAIN connections \cup {c}
      /\ connections'[c].last = packet.time
      /\ \A d \in DOMAIN connections : connections'[d] = connections[d]
  BY <1>1 DEF With, na_connection_new
<1>4. \A d \in DOMAIN connections' :
        lastRefresh + MaxGap < connections'[d].last + PROCESSTIMEOUT
  BY <1>3, PacketInTime DEF PushNew, OwnedInv, InTime
<1>5. InTime'
  BY <1>4, BufferStaysInTime DEF PushNew, OwnedInv, InTime
<1>6. /\ DOMAIN processes' = DOMAIN processes \cup {p}
      /\ processes'[p].conns =
           IF p \in DOMAIN processes THEN processes[p].conns \cup {c} ELSE {c}
      /\ \A q \in DOMAIN processes : q # p => processes'[q] = processes[q]
  BY <1>2 DEF AddToProcess, With, OwnedInv, TypeOK, Process
<1>7. \A q \in DOMAIN processes : c \notin processes[q].conns
  BY <1>1 DEF OwnedInv, EveryConnectionOwned
<1>8. EveryConnectionOwned'
  BY <1>3, <1>6, <1>7 DEF OwnedInv, EveryConnectionOwned
<1> QED
  BY <1>5, <1>8

\* A refresh.
LEMMA OwnedRefresh ==
  ASSUME Timely, OwnedInv, do_refresh
  PROVE  InTime' /\ EveryConnectionOwned'
<1> DEFINE kept  == {p \in DOMAIN processes : ~ TimedOut(p)}
           freed == {c \in UNION {processes[p].conns : p \in kept} : Stalled(c)}
<1>1. /\ DOMAIN processes' = kept
      /\ \A p \in kept : processes'[p].conns = processes[p].conns \ freed
  BY DEF do_refresh, na_process_info_get_all, OwnedInv, TypeOK, Process
<1>2. DOMAIN connections' = DOMAIN connections \ freed
  BY DEF do_refresh, na_process_info_get_all
<1>3. \A c \in DOMAIN connections : \E p \in kept : c \in processes[p].conns
  BY TimedOutIsEmpty DEF OwnedInv, EveryConnectionOwned
<1>4. \A c \in DOMAIN connections' : connections'[c].last = connections[c].last
  BY TrimmedConnection DEF do_refresh, na_process_info_get_all, OwnedInv, TypeOK
<1> HIDE DEF kept
<1>5. ASSUME NEW c \in DOMAIN connections'
      PROVE  now + MaxGap < connections'[c].last + PROCESSTIMEOUT
  <2>1. c \in DOMAIN connections /\ ~ Stalled(c)
    BY <1>2, <1>3
  <2>2. connections[c].last > now - CONNTIMEOUT
    BY <2>1, AnalyzerAssumption DEF Stalled, OwnedInv, TypeOK, Connection
  <2>3. connections[c].last \in Nat /\ now \in Nat
    BY <2>1 DEF OwnedInv, TypeOK, Connection
  <2>4. /\ MaxGap \in Nat /\ CONNTIMEOUT \in Nat /\ PROCESSTIMEOUT \in Nat
        /\ MaxGap + CONNTIMEOUT <= PROCESSTIMEOUT
    BY AnalyzerAssumption DEF Timely
  <2> QED
    BY <1>4, <2>2, <2>3, <2>4
<1>6. InTime'
  <2>1. now' = now /\ lastRefresh' = now /\ buffer' = buffer
    BY DEF do_refresh
  <2>2. now \in Nat /\ MaxGap \in Nat
    BY AnalyzerAssumption DEF OwnedInv, TypeOK
  <2> QED
    BY <1>5, <2>1, <2>2 DEF OwnedInv, InTime
<1>7. EveryConnectionOwned'
  <2>1. kept \subseteq DOMAIN processes
    BY DEF kept
  <2>2. \A c \in DOMAIN connections' : \E p \in DOMAIN processes' : c \in processes'[p].conns
    BY <1>1, <1>2, <1>3
  <2>3. \A p, q \in DOMAIN processes' :
          processes'[p].conns \cap processes'[q].conns # {} => p = q
    BY <1>1, <2>1 DEF OwnedInv, EveryConnectionOwned
  <2>4. \A p \in DOMAIN processes' : processes'[p].conns \subseteq DOMAIN connections'
    BY <1>1, <1>2, <2>1 DEF OwnedInv, EveryConnectionOwned
  <2> QED
    BY <2>2, <2>3, <2>4 DEF EveryConnectionOwned
<1> QED
  BY <1>6, <1>7

LEMMA OwnedStep ==
  ASSUME Timely, OwnedInv, [Next]_vars
  PROVE  OwnedInv'
<1> SUFFICES InTime' /\ EveryConnectionOwned'
  BY TypeStep DEF OwnedInv
<1>1. ASSUME NEW i \in Iface, Capture(i) PROVE InTime' /\ EveryConnectionOwned'
  <2>1. PICK h \in Wire, n \in PacketLen :
          buffer' = [buffer EXCEPT ![i] =
                       Append(@, [header |-> h, time |-> now, len |-> n])]
    BY <1>1 DEF Capture
  <2>2. buffer[i] \in Seq(Packet) /\ now \in Nat /\ MaxLag \in Nat
    BY AnalyzerAssumption DEF OwnedInv, TypeOK
  <2>3. buffer'[i] = Append(buffer[i], [header |-> h, time |-> now, len |-> n])
    BY <2>1 DEF OwnedInv, TypeOK
  <2>4. \A k \in DOMAIN buffer'[i] :
          \/ k \in DOMAIN buffer[i] /\ buffer'[i][k] = buffer[i][k]
          \/ buffer'[i][k].time = now
    BY <2>2, <2>3, AppendProperties
  <2>5. \A j \in Iface : j # i => buffer'[j] = buffer[j]
    BY <2>1 DEF OwnedInv, TypeOK
  <2>6. \A j \in Iface : \A k \in DOMAIN buffer'[j] :
          now <= buffer'[j][k].time + MaxLag
    BY <2>2, <2>4, <2>5 DEF OwnedInv, InTime
  <2> QED
    BY <1>1, <2>6 DEF Capture, OwnedInv, InTime, EveryConnectionOwned
<1>2. CASE Tick
  <2>1. now \in Nat /\ lastRefresh \in Int /\ MaxGap \in Nat /\ MaxLag \in Nat
    BY AnalyzerAssumption DEF OwnedInv, TypeOK
  <2>2. ASSUME NEW i \in Iface, NEW k \in DOMAIN buffer[i]
        PROVE  buffer[i][k].time \in Nat
    <3>1. buffer[i] \in Seq(Packet)
      BY DEF OwnedInv, TypeOK
    <3>2. buffer[i][k] \in Packet
      BY <3>1
    <3> QED
      BY <3>2 DEF Packet
  <2>3. /\ now < lastRefresh + MaxGap
        /\ \A i \in Iface : \A k \in DOMAIN buffer[i] : now < buffer[i][k].time + MaxLag
        /\ now' = now + 1
        /\ UNCHANGED <<buffer, connections, lastRefresh>>
    BY <1>2 DEF Tick
  <2>4. \A i \in Iface : \A k \in DOMAIN buffer[i] :
          now + 1 <= buffer[i][k].time + MaxLag
    BY <2>1, <2>2, <2>3 DEF OwnedInv, InTime
  <2>5. lastRefresh <= now + 1 /\ now + 1 <= lastRefresh + MaxGap
    BY <2>1, <2>3 DEF OwnedInv, InTime
  <2>6. InTime'
    BY <2>3, <2>4, <2>5 DEF OwnedInv, InTime
  <2> QED
    BY <1>2, <2>6 DEF Tick, OwnedInv, EveryConnectionOwned
<1>8. CASE SetBack
  <2>1. PICK n \in 1 .. MaxBack : now' = now - n /\ lastRefresh' = lastRefresh - n
    BY <1>8 DEF SetBack
  <2>2. /\ n \in Nat /\ now \in Nat /\ lastRefresh \in Int /\ MaxGap \in Nat
        /\ MaxLag \in Nat /\ PROCESSTIMEOUT \in Nat
    BY AnalyzerAssumption DEF OwnedInv, TypeOK
  <2>3. UNCHANGED <<buffer, connections, processes>>
    BY <1>8 DEF SetBack
  <2>4. ASSUME NEW i \in Iface, NEW k \in DOMAIN buffer[i]
        PROVE  now' <= buffer[i][k].time + MaxLag
    <3>1. buffer[i] \in Seq(Packet)
      BY DEF OwnedInv, TypeOK
    <3>2. buffer[i][k] \in Packet
      BY <3>1
    <3>3. buffer[i][k].time \in Nat
      BY <3>2 DEF Packet
    <3>4. now <= buffer[i][k].time + MaxLag
      BY DEF OwnedInv, InTime
    <3> QED
      BY <2>1, <2>2, <3>3, <3>4
  <2>5. ASSUME NEW c \in DOMAIN connections
        PROVE  lastRefresh' + MaxGap < connections[c].last + PROCESSTIMEOUT
    <3>1. connections[c].last \in Nat
      BY DEF OwnedInv, TypeOK, Connection
    <3> QED
      BY <2>1, <2>2, <3>1 DEF OwnedInv, InTime
  <2>6. InTime'
    BY <2>1, <2>2, <2>3, <2>4, <2>5 DEF OwnedInv, InTime
  <2> QED
    BY <2>3, <2>6 DEF OwnedInv, EveryConnectionOwned
<1>3. CASE PushKnown
  BY <1>3, OwnedPushKnown
<1>4. CASE PushNew
  BY <1>4, OwnedPushNew
<1>5. CASE DispatchDone
  BY <1>5 DEF DispatchDone, OwnedInv, InTime, EveryConnectionOwned
<1>6. CASE do_refresh
  BY <1>6, OwnedRefresh
<1>7. CASE UNCHANGED vars
  BY <1>7 DEF vars, OwnedInv, InTime, EveryConnectionOwned
<1> QED
  BY <1>1, <1>2, <1>3, <1>4, <1>5, <1>6, <1>7, <1>8 DEF Next, push_packet

\* As long as refreshes come within PROCESSTIMEOUT - CONNTIMEOUT seconds of each
\* other and packets do not wait too long, na_process_free() is never called on
\* a process that still holds connections: none is leaked, shared or dangling.
THEOREM NoConnectionLeaks ==
  ASSUME Timely
  PROVE  Spec => []EveryConnectionOwned
<1>1. Init => OwnedInv
  BY OwnedInit
<1>2. OwnedInv /\ [Next]_vars => OwnedInv'
  BY OwnedStep
<1>3. OwnedInv => EveryConnectionOwned
  BY DEF OwnedInv
<1> QED
  BY <1>1, <1>2, <1>3, PTL DEF Spec

\* Under the same timing every refresh removes exactly the connections that have
\* been idle for CONNTIMEOUT, and no other step removes any.
THEOREM IdleConnectionsAreRemoved ==
  ASSUME Timely
  PROVE  Spec => ConnectionRemovedWhenIdle
<1>1. ASSUME OwnedInv, [Next]_vars PROVE RemovedWhenIdle
  <2>0. TypeOK
    BY <1>1 DEF OwnedInv
  <2>1. CASE do_refresh
    <3> DEFINE kept  == {p \in DOMAIN processes : ~ TimedOut(p)}
               freed == {c \in UNION {processes[p].conns : p \in kept} : Stalled(c)}
    <3>1. DOMAIN connections' = DOMAIN connections \ freed
      BY <2>1 DEF do_refresh, na_process_info_get_all
    <3>2. \A c \in DOMAIN connections : \E p \in kept : c \in processes[p].conns
      BY <1>1, TimedOutIsEmpty DEF OwnedInv, EveryConnectionOwned
    <3>3. \A c \in DOMAIN connections : Stalled(c) <=> IdleFor(c, CONNTIMEOUT)
      <4>1. \A c \in DOMAIN connections : connections[c].last \in Nat
        BY <2>0 DEF TypeOK, Connection
      <4> QED
        BY <2>0, <4>1, AnalyzerAssumption DEF Stalled, IdleFor, TypeOK
    <3>4. \A c \in DOMAIN connections \ DOMAIN connections' : IdleFor(c, CONNTIMEOUT)
      BY <3>1, <3>3
    <3>5. \A c \in DOMAIN connections' : ~ Stalled(c) /\ c \in DOMAIN connections
      BY <3>1, <3>2
    <3>6. \A c \in DOMAIN connections' : ~ IdleFor(c, CONNTIMEOUT)
      BY <3>3, <3>5
    <3> QED
      BY <3>4, <3>6 DEF RemovedWhenIdle
  <2>2. CASE ~ do_refresh
    <3>1. DOMAIN connections \subseteq DOMAIN connections'
      <4>1. CASE PushKnown
        BY <2>0, <4>1 DEF PushKnown, TypeOK
      <4>2. CASE PushNew
        BY <4>2 DEF PushNew, With
      <4>3. CASE connections' = connections
        BY <4>3
      <4> QED
        BY <1>1, <2>2, <4>1, <4>2, <4>3
           DEF Next, push_packet, Capture, Tick, SetBack, DispatchDone, vars
    <3>2. ~ (at' < at)
      BY <1>1, <2>0, <2>2, AnalyzerAssumption
         DEF Next, push_packet, Capture, Tick, SetBack, PushKnown, PushNew, DispatchDone, vars, TypeOK
    <3> QED
      BY <3>1, <3>2 DEF RemovedWhenIdle
  <2> QED
    BY <2>1, <2>2
<1> QED
  BY <1>1, OwnedInit, OwnedStep, PTL DEF Spec, ConnectionRemovedWhenIdle

-----------------------------------------------------------------------------
(* The process list.                                                       *)

LEMMA ProcessStep ==
  TypeOK /\ OneProcessPerPid /\ [Next]_vars => OneProcessPerPid'
<1> SUFFICES ASSUME TypeOK, OneProcessPerPid, [Next]_vars
             PROVE  OneProcessPerPid'
  OBVIOUS
<1>1. CASE PushNew
  <2>0. PICK o \in Owner, c \in ConnId :
          \E p \in na_process_find_from_connection(o) : processes' = AddToProcess(p, o, c)
    BY <1>1 DEF PushNew
  <2>1. PICK p \in na_process_find_from_connection(o) : processes' = AddToProcess(p, o, c)
    BY <2>0
  <2>2. CASE p \in DOMAIN processes
    BY <2>1, <2>2 DEF AddToProcess, OneProcessPerPid, TypeOK, Process
  <2>3. CASE p \notin DOMAIN processes
    <3>1. o # 0 => \A q \in DOMAIN processes : processes[q].pid # o
      BY <2>1, <2>3 DEF na_process_find_from_connection
    <3>2. /\ DOMAIN processes' = DOMAIN processes \cup {p}
          /\ processes'[p].pid = o
          /\ \A q \in DOMAIN processes : processes'[q] = processes[q]
      BY <2>1, <2>3 DEF AddToProcess, With
    <3> QED
      BY <3>1, <3>2 DEF OneProcessPerPid
  <2> QED
    BY <2>2, <2>3
<1>2. CASE do_refresh
  BY <1>2 DEF do_refresh, na_process_info_get_all, OneProcessPerPid, TypeOK, Process
<1>3. CASE processes' = processes
  BY <1>3 DEF OneProcessPerPid
<1> QED
  BY <1>1, <1>2, <1>3 DEF Next, push_packet, Capture, Tick, SetBack, PushKnown, DispatchDone, vars

\* Every process of the system is one row of the report, however its connections
\* come and go: find_process_from_program() finds the entry as long as there is one.
THEOREM ProcessesAreKeptApart == Spec => []OneProcessPerPid
<1>1. Init => OneProcessPerPid
  BY DEF Init, OneProcessPerPid
<1> QED
  BY <1>1, ProcessStep, TypeCorrect, PTL DEF Spec

LEMMA NobodysStep ==
  TypeOK /\ NobodysAreApart /\ [Next]_vars => NobodysAreApart'
<1> SUFFICES ASSUME TypeOK, NobodysAreApart, [Next]_vars
             PROVE  NobodysAreApart'
  OBVIOUS
<1>1. CASE PushNew
  <2>0. PICK o \in Owner, c \in ConnId :
          \E p \in na_process_find_from_connection(o) : processes' = AddToProcess(p, o, c)
    BY <1>1 DEF PushNew
  <2>1. PICK p \in na_process_find_from_connection(o) : processes' = AddToProcess(p, o, c)
    BY <2>0
  <2>2. CASE p \in DOMAIN processes
    <3>1. processes[p].pid # 0
      BY <2>2 DEF na_process_find_from_connection
    <3>2. /\ DOMAIN processes' = DOMAIN processes
          /\ processes'[p].pid = processes[p].pid
          /\ \A q \in DOMAIN processes : q # p => processes'[q] = processes[q]
      BY <2>1, <2>2 DEF AddToProcess, TypeOK, Process
    <3> QED
      BY <3>1, <3>2 DEF NobodysAreApart
  <2>3. CASE p \notin DOMAIN processes
    <3>1. /\ DOMAIN processes' = DOMAIN processes \cup {p}
          /\ processes'[p].conns = {c}
          /\ \A q \in DOMAIN processes : processes'[q] = processes[q]
      BY <2>1, <2>3 DEF AddToProcess, With
    <3> QED
      BY <3>1 DEF NobodysAreApart
  <2> QED
    BY <2>2, <2>3
<1>2. CASE do_refresh
  BY <1>2 DEF do_refresh, na_process_info_get_all, NobodysAreApart, TypeOK, Process
<1>3. CASE processes' = processes
  BY <1>3 DEF NobodysAreApart
<1> QED
  BY <1>1, <1>2, <1>3 DEF Next, push_packet, Capture, Tick, SetBack, PushKnown, DispatchDone, vars

\* Each connection no process is found for makes a process, which gets no other
\* connection ever: there is no 'unknown' process for them (na-process.c).
THEOREM NobodysStayApart == Spec => []NobodysAreApart
<1>1. Init => NobodysAreApart
  BY DEF Init, NobodysAreApart
<1> QED
  BY <1>1, NobodysStep, TypeCorrect, PTL DEF Spec

-----------------------------------------------------------------------------
(* The rows of a report.                                                   *)

\* What holds whatever the timeouts: no connection has two owners, and no owner has
\* one that was freed.
OwnersApart ==
  /\ \A p, q \in DOMAIN processes :
       processes[p].conns \cap processes[q].conns # {} => p = q
  /\ \A p \in DOMAIN processes : processes[p].conns \subseteq DOMAIN connections

\* The clock is past the first PROCESSTIMEOUT seconds of 1970, so that a process
\* without connections, whose last packet is of second 0, has timed out.
RowsInv ==
  /\ TypeOK
  /\ now >= Epoch
  /\ IsFiniteSet(DOMAIN connections)
  /\ OwnersApart

LEMMA RowsPushNew ==
  ASSUME RowsInv, PushNew
  PROVE  IsFiniteSet(DOMAIN connections') /\ OwnersApart'
<1>1. PICK c \in ConnId \ DOMAIN connections, o \in Owner :
        /\ connections' = With(connections, c, na_connection_new(packet))
        /\ \E p \in na_process_find_from_connection(o) :
             processes' = AddToProcess(p, o, c)
  BY DEF PushNew
<1>2. PICK p \in na_process_find_from_connection(o) :
        processes' = AddToProcess(p, o, c)
  BY <1>1
<1>3. DOMAIN connections' = DOMAIN connections \cup {c}
  BY <1>1 DEF With
<1>4. IsFiniteSet(DOMAIN connections')
  BY <1>3, FS_AddElement DEF RowsInv
<1>5. /\ DOMAIN processes' = DOMAIN processes \cup {p}
      /\ processes'[p].conns =
           IF p \in DOMAIN processes THEN processes[p].conns \cup {c} ELSE {c}
      /\ \A q \in DOMAIN processes : q # p => processes'[q] = processes[q]
  BY <1>2 DEF AddToProcess, With, RowsInv, TypeOK, Process
<1>6. \A q \in DOMAIN processes : c \notin processes[q].conns
  BY <1>1 DEF RowsInv, OwnersApart
<1>7. OwnersApart'
  BY <1>3, <1>5, <1>6 DEF RowsInv, OwnersApart
<1> QED
  BY <1>4, <1>7

\* A process that is freed takes its connections out of reach, where they leak if it
\* had any; the others lose just what is freed.
LEMMA RowsRefresh ==
  ASSUME RowsInv, do_refresh
  PROVE  IsFiniteSet(DOMAIN connections') /\ OwnersApart'
<1> DEFINE kept  == {p \in DOMAIN processes : ~ TimedOut(p)}
           freed == {c \in UNION {processes[p].conns : p \in kept} : Stalled(c)}
<1>1. /\ DOMAIN processes' = kept
      /\ \A p \in kept : processes'[p].conns = processes[p].conns \ freed
  BY DEF do_refresh, na_process_info_get_all, RowsInv, TypeOK, Process
<1>2. DOMAIN connections' = DOMAIN connections \ freed
  BY DEF do_refresh, na_process_info_get_all
<1>3. IsFiniteSet(DOMAIN connections')
  BY <1>2, FS_Subset DEF RowsInv
<1>4. kept \subseteq DOMAIN processes
  OBVIOUS
<1> HIDE DEF kept, freed
<1>5. OwnersApart'
  BY <1>1, <1>2, <1>4 DEF RowsInv, OwnersApart
<1> QED
  BY <1>3, <1>5

LEMMA RowsStep ==
  ASSUME RowsInv, [Next]_vars
  PROVE  RowsInv'
<1>1. TypeOK'
  BY TypeStep DEF RowsInv
<1>2. now' >= Epoch
  <2>1. now \in Nat /\ Epoch \in Nat /\ now >= Epoch /\ MaxBack \in Nat
    BY AnalyzerAssumption DEF RowsInv, TypeOK
  <2>2. CASE SetBack
    BY <2>1, <2>2 DEF SetBack
  <2>3. CASE now' = now \/ now' = now + 1
    BY <2>1, <2>3
  <2> QED
    BY <2>2, <2>3 DEF Next, Capture, Tick, push_packet, PushKnown, PushNew,
                       DispatchDone, do_refresh, vars
<1>3. IsFiniteSet(DOMAIN connections') /\ OwnersApart'
  <2>1. CASE PushNew
    BY <2>1, RowsPushNew
  <2>2. CASE do_refresh
    BY <2>2, RowsRefresh
  <2>3. CASE PushKnown
    <3>1. DOMAIN connections' = DOMAIN connections /\ processes' = processes
      BY <2>3 DEF PushKnown, RowsInv, TypeOK
    <3> QED
      BY <3>1 DEF RowsInv, OwnersApart
  <2>4. CASE UNCHANGED <<connections, processes>>
    BY <2>4 DEF RowsInv, OwnersApart
  <2> QED
    BY <2>1, <2>2, <2>3, <2>4
       DEF Next, Capture, Tick, SetBack, push_packet, DispatchDone, vars
<1> QED
  BY <1>1, <1>2, <1>3 DEF RowsInv

\* A process that a refresh keeps has a connection, so that choosing one for each row
\* tells the rows apart.
LEMMA RowsOfReport ==
  ASSUME RowsInv, do_refresh
  PROVE  Cardinality(DOMAIN report') <= Cardinality(DOMAIN connections)
<1> DEFINE kept == {p \in DOMAIN processes : ~ TimedOut(p)}
           f == [p \in kept |-> CHOOSE c \in processes[p].conns : TRUE]
<1>1. DOMAIN report' = kept
  BY DEF do_refresh, na_process_info_get_all
<1>2. ASSUME NEW p \in kept PROVE f[p] \in processes[p].conns
  <2>1. PROCESSTIMEOUT <= now
    BY AnalyzerAssumption DEF RowsInv, TypeOK
  <2>2. processes[p].conns # {}
    BY <2>1 DEF TimedOut
  <2> QED
    BY <2>2
<1>3. \A p \in kept : f[p] \in DOMAIN connections
  BY <1>2 DEF RowsInv, OwnersApart
<1>4. \A p, q \in kept : f[p] = f[q] => p = q
  BY <1>2 DEF RowsInv, OwnersApart
<1>5. DOMAIN f = kept /\ f = [p \in kept |-> f[p]]
  OBVIOUS
<1> HIDE DEF f, kept
<1>6. f \in Injection(kept, DOMAIN connections)
  BY <1>3, <1>4, <1>5 DEF Injection, IsInjective
<1> QED
  BY <1>1, <1>6, FS_Injection DEF RowsInv

LEMMA RowsInvariant == Spec => []RowsInv
<1>1. Init => RowsInv
  <2> SUFFICES ASSUME Init PROVE RowsInv
    OBVIOUS
  <2>1. DOMAIN connections = {} /\ DOMAIN processes = {} /\ now = Epoch
    BY DEF Init
  <2>2. IsFiniteSet(DOMAIN connections)
    BY <2>1, FS_EmptySet
  <2>3. now >= Epoch
    BY <2>1, AnalyzerAssumption
  <2> QED
    BY <2>1, <2>2, <2>3, TypeInit DEF RowsInv, OwnersApart
<1> QED
  BY <1>1, RowsStep, PTL DEF Spec

\* Whatever the timeouts and the clock, and even where connections leak, a report has
\* no more rows than there are connections: na_process_info_get_all() drops, at the
\* next refresh, a process that has lost its last one.
THEOREM RowsAreBounded == Spec => NoMoreRowsThanConnections
<1>1. ASSUME RowsInv, [Next]_vars PROVE RowsBounded
  <2>1. CASE do_refresh
    BY <1>1, <2>1, RowsOfReport DEF RowsBounded
  <2>2. CASE ~ do_refresh
    <3>1. at \in Int /\ (at' = at \/ at' = at + 1)
      BY <1>1, <2>2, AnalyzerAssumption
         DEF Next, Capture, Tick, SetBack, push_packet, PushKnown, PushNew, DispatchDone,
             vars, RowsInv, TypeOK
    <3> QED
      BY <3>1 DEF RowsBounded
  <2> QED
    BY <2>1, <2>2
<1> QED
  BY <1>1, RowsInvariant, PTL DEF Spec, NoMoreRowsThanConnections

=============================================================================
