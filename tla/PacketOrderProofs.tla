------------------------- MODULE PacketOrderProofs --------------------------
(***************************************************************************)
(* Theorems about which packets meet in a connection, and in which order   *)
(* they are in its packet lists.                                           *)
(***************************************************************************)
EXTENDS NetworkAnalyzerProofs

-----------------------------------------------------------------------------
(* Where the packets come from.                                            *)

\* Every packet in a capture buffer has been on the wire.
BuffersHoldWire ==
  \A i \in Iface : \A k \in DOMAIN buffer[i] :
    buffer[i][k].header \in Wire /\ buffer[i][k].len \in PacketLen

\* What a step does to a buffer: it appends a packet that was on the wire now, or
\* takes the first packet out.
LEMMA BufferStep ==
  ASSUME TypeOK, [Next]_vars, NEW i \in Iface
  PROVE  \/ buffer'[i] = buffer[i]
         \/ \E p \in Packet : /\ p.header \in Wire /\ p.len \in PacketLen /\ p.time = now
                              /\ buffer'[i] = Append(buffer[i], p)
                              /\ now' = now /\ connections' = connections
         \/ /\ i = at /\ buffer[i] # <<>> /\ buffer'[i] = Tail(buffer[i])
            /\ PushKnown \/ PushNew
<1>1. ASSUME NEW j \in Iface, Capture(j) PROVE \/ buffer'[i] = buffer[i]
         \/ \E p \in Packet : /\ p.header \in Wire /\ p.len \in PacketLen /\ p.time = now
                              /\ buffer'[i] = Append(buffer[i], p)
                              /\ now' = now /\ connections' = connections
  <2>1. PICK h \in Wire, n \in PacketLen :
          buffer' = [buffer EXCEPT ![j] =
                       Append(@, [header |-> h, time |-> now, len |-> n])]
    BY <1>1 DEF Capture
  <2>2. [header |-> h, time |-> now, len |-> n] \in Packet
    BY AnalyzerAssumption DEF Packet, TypeOK
  <2>3. CASE i = j
    <3>1. buffer'[i] = Append(buffer[i], [header |-> h, time |-> now, len |-> n])
      BY <2>1, <2>3 DEF TypeOK
    <3> QED
      BY <1>1, <2>2, <3>1 DEF Capture
  <2>4. CASE i # j
    BY <2>1, <2>4 DEF TypeOK
  <2> QED
    BY <2>3, <2>4
<1>2. CASE PushKnown \/ PushNew
  <2>1. at \in Iface /\ buffer[at] # <<>> /\ buffer' = [buffer EXCEPT ![at] = Tail(@)]
    BY <1>2 DEF PushKnown, PushNew
  <2> QED
    BY <1>2, <2>1 DEF TypeOK
<1>3. CASE UNCHANGED buffer
  BY <1>3
<1> QED
  BY <1>1, <1>2, <1>3
     DEF Next, push_packet, Tick, SetBack, DispatchDone, do_refresh, vars

LEMMA WireInit == Init => BuffersHoldWire
  BY DEF Init, BuffersHoldWire

LEMMA WireStep ==
  ASSUME TypeOK, BuffersHoldWire, [Next]_vars
  PROVE  BuffersHoldWire'
<1> SUFFICES ASSUME NEW i \in Iface, NEW k \in DOMAIN buffer'[i]
             PROVE  buffer'[i][k].header \in Wire /\ buffer'[i][k].len \in PacketLen
  BY DEF BuffersHoldWire, Iface
<1>0. buffer[i] \in Seq(Packet)
  BY DEF TypeOK
<1>1. CASE buffer'[i] = buffer[i]
  BY <1>1 DEF BuffersHoldWire
<1>2. ASSUME NEW p \in Packet, p.header \in Wire, p.len \in PacketLen,
             buffer'[i] = Append(buffer[i], p)
      PROVE  buffer'[i][k].header \in Wire /\ buffer'[i][k].len \in PacketLen
  <2>1. k \in 1 .. Len(buffer[i]) + 1
    BY <1>0, <1>2
  <2>2. CASE k \in 1 .. Len(buffer[i])
    BY <1>0, <1>2, <2>2 DEF BuffersHoldWire
  <2>3. CASE k = Len(buffer[i]) + 1
    BY <1>0, <1>2, <2>3
  <2> QED
    BY <1>0, <2>1, <2>2, <2>3
<1>3. CASE i = at /\ buffer[i] # <<>> /\ buffer'[i] = Tail(buffer[i])
  BY <1>3, HeadOfBuffer DEF BuffersHoldWire
<1> QED
  BY <1>1, <1>2, <1>3, BufferStep

LEMMA WireInvariant == Spec => [](TypeOK /\ BuffersHoldWire)
<1>1. Init => TypeOK /\ BuffersHoldWire
  BY TypeInit, WireInit
<1>2. TypeOK /\ BuffersHoldWire /\ [Next]_vars => (TypeOK /\ BuffersHoldWire)'
  BY TypeStep, WireStep
<1> QED
  BY <1>1, <1>2, PTL DEF Spec

\* The reference packet PushNew makes is that of a packet that was on the wire.
LEMMA NewReference ==
  ASSUME TypeOK, BuffersHoldWire, PushNew
  PROVE  \E h \in Wire, x \in ConnId :
           /\ DOMAIN connections' = DOMAIN connections \cup {x}
           /\ connections'[x].ref = IF na_packet_is_outgoing(h)
                                    THEN h ELSE na_packet_new_inverted(h)
           /\ \A c \in DOMAIN connections : c # x => connections'[c] = connections[c]
<1>1. packet.header \in Wire
  BY HeadOfBuffer DEF PushNew, BuffersHoldWire
<1>2. PICK c \in ConnId \ DOMAIN connections :
        connections' = With(connections, c, na_connection_new(packet))
  BY DEF PushNew
<1>3. na_connection_new(packet).ref = IF na_packet_is_outgoing(packet.header)
                                      THEN packet.header
                                      ELSE na_packet_new_inverted(packet.header)
  BY DEF na_connection_new
<1> QED
  BY <1>1, <1>2, <1>3 DEF With

-----------------------------------------------------------------------------
(* The direction of the reference packet.                                  *)

LEMMA OutgoingStep ==
  ASSUME TypeOK, BuffersHoldWire, RefPacketOutgoing, [Next]_vars
  PROVE  RefPacketOutgoing'
<1>1. CASE PushNew
  <2>1. PICK h \in Wire, x \in ConnId :
           /\ DOMAIN connections' = DOMAIN connections \cup {x}
           /\ connections'[x].ref = IF na_packet_is_outgoing(h)
                                    THEN h ELSE na_packet_new_inverted(h)
           /\ \A c \in DOMAIN connections : c # x => connections'[c] = connections[c]
    BY <1>1, NewReference
  <2> DEFINE r == connections'[x].ref
  <2>2. ~ na_packet_is_outgoing(r) => {r.src, r.dst} \cap LocalAddress = {}
    BY <2>1 DEF na_packet_is_outgoing, na_packet_new_inverted
  <2> QED
    BY <2>1, <2>2 DEF RefPacketOutgoing, na_packet_is_outgoing
<1>2. CASE ~ PushNew
  BY <1>2, StepKeepsReferences DEF RefPacketOutgoing, na_packet_is_outgoing
<1> QED
  BY <1>1, <1>2

\* Whatever packets an interface captures, the comment of
\* na_connection_find_from_packet() (na-connection.c) is right of every connection that
\* has a local end, the reference packet being outgoing, and of no other.
THEOREM ReferencesAreOutgoing == Spec => []RefPacketOutgoing
<1>1. Init => RefPacketOutgoing
  BY DEF Init, RefPacketOutgoing
<1>2. TypeOK /\ BuffersHoldWire /\ RefPacketOutgoing /\ [Next]_vars
        => RefPacketOutgoing'
  BY OutgoingStep
<1> QED
  BY <1>1, <1>2, WireInvariant, PTL DEF Spec

-----------------------------------------------------------------------------
(* The flow of a connection.                                               *)

\* Every reference packet has IPv4 addresses.
ReferencesAre4 ==
  \A c \in DOMAIN connections : connections[c].ref \in HeaderOf(Address4)

\* Two IPv4 packets match only if they are between the same end points.
LEMMA MatchIsExact4 ==
  ASSUME NEW g \in HeaderOf(Address4), NEW h \in HeaderOf(Address4),
         na_packet_match(g, h)
  PROVE  g = h
  BY DEF na_packet_match, s_addr, HeaderOf

LEMMA Inverted4 ==
  ASSUME NEW h \in HeaderOf(Address4)
  PROVE  /\ na_packet_new_inverted(h) \in HeaderOf(Address4)
         /\ na_packet_new_inverted(na_packet_new_inverted(h)) = h
  BY DEF HeaderOf, na_packet_new_inverted

LEMMA References4Step ==
  ASSUME Wire \subseteq HeaderOf(Address4),
         TypeOK, BuffersHoldWire, ReferencesAre4, [Next]_vars
  PROVE  ReferencesAre4'
<1>1. CASE PushNew
  <2>1. PICK h \in Wire, x \in ConnId :
           /\ DOMAIN connections' = DOMAIN connections \cup {x}
           /\ connections'[x].ref = IF na_packet_is_outgoing(h)
                                    THEN h ELSE na_packet_new_inverted(h)
           /\ \A c \in DOMAIN connections : c # x => connections'[c] = connections[c]
    BY <1>1, NewReference
  <2>2. connections'[x].ref \in HeaderOf(Address4)
    BY <2>1, Inverted4
  <2> QED
    BY <2>1, <2>2 DEF ReferencesAre4
<1>2. CASE ~ PushNew
  BY <1>2, StepKeepsReferences DEF ReferencesAre4
<1> QED
  BY <1>1, <1>2

\* With IPv4 alone every packet is counted in a connection of its own flow.  (The
\* IPv6 packets break it: na_packet_match() does not see their addresses.)
THEOREM CountedInTheirFlow ==
  ASSUME Wire \subseteq HeaderOf(Address4)
  PROVE  Spec => PacketCountedInItsFlow
<1>1. Init => ReferencesAre4
  BY DEF Init, ReferencesAre4
<1>2. TypeOK /\ BuffersHoldWire /\ ReferencesAre4 /\ [Next]_vars
        => ReferencesAre4'
  BY References4Step
<1>3. ASSUME TypeOK, BuffersHoldWire, ReferencesAre4, [Next]_vars
      PROVE  [CountedInItsFlow]_vars
  <2> SUFFICES ASSUME NEW c \in DOMAIN connections \cap DOMAIN connections',
                      buffer' # buffer, connections'[c] # connections[c]
               PROVE  SameFlow(packet.header, connections[c].ref)
    BY DEF CountedInItsFlow
  <2>1. CASE PushKnown
    <3>1. PICK d \in Found :
            connections' =
              [connections EXCEPT ![d] = na_connection_add_packet(@, packet)]
      BY <2>1 DEF PushKnown
    <3>2. c = d
      BY <3>1
    <3>3. \/ na_packet_match(packet.header, connections[c].ref)
          \/ na_packet_match(na_packet_new_inverted(packet.header), connections[c].ref)
      BY <3>2, FoundConnections DEF Found
    <3>4. packet.header \in HeaderOf(Address4)
      BY <2>1, HeadOfBuffer, <1>3 DEF PushKnown, BuffersHoldWire
    <3>5. connections[c].ref \in HeaderOf(Address4)
      BY <1>3 DEF ReferencesAre4
    <3>6. \/ packet.header = connections[c].ref
          \/ na_packet_new_inverted(packet.header) = connections[c].ref
      BY <3>3, <3>4, <3>5, MatchIsExact4, Inverted4
    <3> QED
      BY <3>4, <3>6, Inverted4 DEF SameFlow
  <2>2. CASE PushNew
    <3>1. PICK d \in ConnId \ DOMAIN connections :
            connections' = With(connections, d, na_connection_new(packet))
      BY <2>2 DEF PushNew
    <3> QED
      BY <3>1 DEF With
  <2>3. CASE connections' = connections
    BY <2>3
  <2>4. CASE buffer' = buffer
    BY <2>4
  <2> QED
    BY <2>1, <2>2, <2>3, <2>4, <1>3
       DEF Next, push_packet, Capture, Tick, SetBack, DispatchDone, do_refresh, vars
<1>4. Spec => [](TypeOK /\ BuffersHoldWire /\ ReferencesAre4)
  BY <1>1, <1>2, WireInvariant, PTL DEF Spec
<1> QED
  BY <1>3, <1>4, PTL DEF Spec, PacketCountedInItsFlow

-----------------------------------------------------------------------------
(* The order of the packet lists.                                          *)

NewestFirst(list) ==
  \A i, j \in DOMAIN list : i < j => list[i].time > list[j].time

NotAfter(list, t) == \A i \in DOMAIN list : list[i].time <= t

\* A packet that is not older than what a list holds keeps it in order
\* (na_packet_list_add_packet).
LEMMA AddKeepsOrder ==
  ASSUME NEW list \in PacketList, NEW p \in Packet,
         NewestFirst(list), NotAfter(list, p.time)
  PROVE  /\ NewestFirst(na_packet_list_add_packet(list, p))
         /\ NotAfter(na_packet_list_add_packet(list, p), p.time)
<1> DEFINE new == na_packet_list_add_packet(list, p)
<1>0. p.time \in Nat /\ list \in Seq(ListEntry)
  BY DEF Packet, PacketList
<1>a. \A i \in DOMAIN list : list[i].time \in Nat
  <2>1. \A i \in DOMAIN list : list[i] \in ListEntry
    BY <1>0
  <2> QED
    BY <2>1 DEF ListEntry
<1>1. CASE list # <<>> /\ Head(list).time = p.time
  <2>1. DOMAIN new = DOMAIN list
    BY <1>0, <1>1 DEF na_packet_list_add_packet
  <2>2. \A i \in DOMAIN list : new[i].time = list[i].time
    BY <1>0, <1>1 DEF na_packet_list_add_packet, ListEntry
  <2> QED
    BY <2>1, <2>2 DEF NewestFirst, NotAfter
<1>2. CASE ~ (list # <<>> /\ Head(list).time = p.time)
  <2> DEFINE e == [time |-> p.time, len |-> p.len]
  <2>0. e \in ListEntry
    BY <1>0 DEF ListEntry, Packet
  <2>1. new = <<e>> \o list
    BY <1>2 DEF na_packet_list_add_packet
  <2>2. /\ DOMAIN new = 1 .. Len(list) + 1
        /\ new[1].time = p.time
        /\ \A i \in 2 .. Len(list) + 1 : i - 1 \in DOMAIN list /\ new[i] = list[i - 1]
    BY <1>0, <2>0, <2>1
  <2>3. \A i \in DOMAIN list : list[i].time < p.time
    <3> SUFFICES ASSUME NEW i \in DOMAIN list PROVE list[i].time < p.time
      OBVIOUS
    <3>1. list # <<>> /\ 1 \in DOMAIN list /\ i \in 1 .. Len(list)
      BY <1>0
    <3>2. list[1].time < p.time
      BY <1>0, <1>a, <1>2, <3>1 DEF NotAfter
    <3>3. i = 1 \/ list[1].time > list[i].time
      BY <3>1 DEF NewestFirst
    <3> QED
      BY <1>0, <1>a, <3>1, <3>2, <3>3
  <2>4. \A i \in 2 .. Len(list) + 1 : new[i].time < p.time
    BY <2>2, <2>3
  <2>5. NotAfter(new, p.time)
    BY <1>0, <1>a, <2>2, <2>4 DEF NotAfter
  <2>6. ASSUME NEW i \in DOMAIN new, NEW j \in DOMAIN new, i < j
        PROVE  new[i].time > new[j].time
    <3>1. j \in 2 .. Len(list) + 1
      BY <1>0, <2>2, <2>6
    <3>2. CASE i = 1
      BY <1>0, <1>a, <2>2, <2>4, <3>1, <3>2
    <3>3. CASE i # 1
      <4>1. i \in 2 .. Len(list) + 1 /\ i - 1 < j - 1
        BY <1>0, <2>2, <2>6, <3>3
      <4> QED
        BY <2>2, <3>1, <4>1 DEF NewestFirst
    <3> QED
      BY <3>2, <3>3
  <2> QED
    BY <2>5, <2>6 DEF NewestFirst
<1> QED
  BY <1>1, <1>2

\* What a refresh keeps of a list is the beginning of it (na_packet_list_kept).
LEMMA KeptIsBeginning ==
  ASSUME NEW list \in PacketList, NEW t
  PROVE  LET kept == na_packet_list_kept(list, t)
         IN  /\ DOMAIN kept \subseteq DOMAIN list
             /\ \A i \in DOMAIN kept : kept[i] = list[i]
<1> DEFINE E == Expired(list, t)
<1>1. CASE E = {}
  BY <1>1 DEF na_packet_list_kept
<1>2. CASE E # {}
  <2>1. E \in SUBSET Nat /\ E \subseteq 1 .. Len(list)
    BY DEF Expired, PacketList
  <2>2. Min(E) \in 1 .. Len(list)
    BY <1>2, <2>1, LeastOfNat
  <2>3. na_packet_list_kept(list, t) = SubSeq(list, 1, Min(E) - 1)
    BY <1>2 DEF na_packet_list_kept
  <2> QED
    BY <2>2, <2>3 DEF PacketList
<1> QED
  BY <1>1, <1>2

LEMMA KeptKeepsOrder ==
  ASSUME NEW list \in PacketList, NEW t, NEW s
  PROVE  /\ NewestFirst(list) => NewestFirst(na_packet_list_kept(list, t))
         /\ NotAfter(list, s) => NotAfter(na_packet_list_kept(list, t), s)
  BY KeptIsBeginning DEF NewestFirst, NotAfter

\* What a step does to a packet list.
LEMMA ListStep ==
  ASSUME TypeOK, [Next]_vars,
         NEW c \in DOMAIN connections', NEW d \in Direction
  PROVE  \E old \in PacketList :
           /\ old = IF c \in DOMAIN connections
                    THEN connections[c].packets[d] ELSE <<>>
           /\ \/ connections'[c].packets[d] = old
              \/ /\ push_packet
                 /\ connections'[c].packets[d] = na_packet_list_add_packet(old, packet)
              \/ /\ do_refresh
                 /\ connections'[c].packets[d] = na_packet_list_kept(old, now)
<1> DEFINE new == connections'[c].packets[d]
           old == IF c \in DOMAIN connections THEN connections[c].packets[d] ELSE <<>>
<1>0. old \in PacketList
  BY DEF TypeOK, Connection, PacketList
<1> SUFFICES \/ new = old
             \/ push_packet /\ new = na_packet_list_add_packet(old, packet)
             \/ do_refresh /\ new = na_packet_list_kept(old, now)
  BY <1>0
<1>1. CASE PushKnown
  <2>1. PICK x \in Found :
          connections' = [connections EXCEPT ![x] = na_connection_add_packet(@, packet)]
    BY <1>1 DEF PushKnown
  <2>2. c \in DOMAIN connections
    BY <2>1
  <2>3. CASE c # x
    BY <2>1, <2>2, <2>3
  <2>4. CASE c = x
    <3>1. connections'[c] = na_connection_add_packet(connections[c], packet)
      BY <2>1, <2>2, <2>4
    <3>2. connections[c] \in Connection
      BY <2>2 DEF TypeOK
    <3>3. new = IF d = DirectionOf(packet)
                THEN na_packet_list_add_packet(old, packet) ELSE old
      BY <2>2, <3>1, <3>2 DEF na_connection_add_packet, Connection
    <3> QED
      BY <1>1, <3>3 DEF push_packet
  <2> QED
    BY <1>0, <2>3, <2>4
<1>2. CASE PushNew
  <2>1. PICK x \in ConnId \ DOMAIN connections :
          connections' = With(connections, x, na_connection_new(packet))
    BY <1>2 DEF PushNew
  <2>2. CASE c # x
    BY <2>1, <2>2 DEF With
  <2>3. CASE c = x
    <3>1. connections'[c] = na_connection_new(packet) /\ old = <<>>
      BY <2>1, <2>3 DEF With
    <3>2. new = IF d = DirectionOf(packet)
                THEN na_packet_list_add_packet(<<>>, packet) ELSE <<>>
      BY <3>1 DEF na_connection_new
    <3> QED
      BY <1>2, <3>1, <3>2 DEF push_packet
  <2> QED
    BY <1>0, <2>2, <2>3
<1>3. CASE do_refresh
  <2>1. /\ c \in DOMAIN connections
        /\ connections'[c] = Trimmed(connections[c]) \/ connections'[c] = connections[c]
    BY <1>3 DEF do_refresh, na_process_info_get_all
  <2>2. connections[c] \in Connection
    BY <2>1 DEF TypeOK
  <2>3. Trimmed(connections[c]).packets[d] = na_packet_list_kept(old, now)
    BY <2>1, <2>2 DEF Trimmed, Connection
  <2> QED
    BY <1>0, <1>3, <2>1, <2>3
<1>4. CASE UNCHANGED connections
  BY <1>0, <1>4
<1> QED
  BY <1>1, <1>2, <1>3, <1>4
     DEF Next, push_packet, Capture, Tick, SetBack, DispatchDone, vars

\* With one device and a clock that is never set back: the packets wait in the
\* order in which they came, none of them in the future, and none older than what
\* the packet lists already hold.
BufferInOrder ==
  \A i \in Iface : \A j, k \in DOMAIN buffer[i] :
    /\ buffer[i][k].time <= now
    /\ j <= k => buffer[i][j].time <= buffer[i][k].time

ListsBehindBuffer ==
  \A c \in DOMAIN connections, d \in Direction :
    LET list == connections[c].packets[d]
    IN  /\ NotAfter(list, now)
        /\ \A i \in Iface : \A k \in DOMAIN buffer[i] :
             NotAfter(list, buffer[i][k].time)

OrderInv == TypeOK /\ BufferInOrder /\ ListsBehindBuffer /\ PacketListsNewestFirst

\* A clock that is never set back does not go back.
LEMMA NowGrows ==
  ASSUME MaxBack = 0, TypeOK, [Next]_vars
  PROVE  now <= now'
  BY DEF TypeOK, Next, push_packet, PushKnown, PushNew, Capture, Tick, SetBack,
         DispatchDone, do_refresh, vars

LEMMA BufferOrderStep ==
  ASSUME MaxBack = 0, OrderInv, [Next]_vars
  PROVE  BufferInOrder'
<1> SUFFICES ASSUME NEW i \in Iface, NEW j \in DOMAIN buffer'[i],
                    NEW k \in DOMAIN buffer'[i]
             PROVE  /\ buffer'[i][k].time <= now'
                    /\ j <= k => buffer'[i][j].time <= buffer'[i][k].time
  BY DEF BufferInOrder, Iface
<1>0. /\ TypeOK /\ buffer[i] \in Seq(Packet) /\ now \in Nat /\ now' \in Nat
      /\ now <= now'
  BY TypeStep, NowGrows DEF OrderInv, TypeOK
<1>a. \A m \in DOMAIN buffer[i] : buffer[i][m].time \in Nat
  <2>1. \A m \in DOMAIN buffer[i] : buffer[i][m] \in Packet
    BY <1>0
  <2> QED
    BY <2>1 DEF Packet
<1>1. CASE buffer'[i] = buffer[i]
  <2>1. /\ buffer[i][k].time <= now
        /\ j <= k => buffer[i][j].time <= buffer[i][k].time
    BY <1>1 DEF OrderInv, BufferInOrder
  <2> QED
    BY <1>0, <1>a, <1>1, <2>1
<1>2. ASSUME NEW p \in Packet, p.time = now, buffer'[i] = Append(buffer[i], p)
      PROVE  /\ buffer'[i][k].time <= now'
             /\ j <= k => buffer'[i][j].time <= buffer'[i][k].time
  <2>1. /\ j \in 1 .. Len(buffer[i]) + 1 /\ k \in 1 .. Len(buffer[i]) + 1
        /\ buffer'[i][Len(buffer[i]) + 1] = p
        /\ \A m \in 1 .. Len(buffer[i]) : buffer'[i][m] = buffer[i][m]
    BY <1>0, <1>2
  <2>2. \A m, n \in 1 .. Len(buffer[i]) :
          /\ buffer[i][n].time <= now
          /\ m <= n => buffer[i][m].time <= buffer[i][n].time
    BY <1>0 DEF OrderInv, BufferInOrder
  <2>3. CASE k \in 1 .. Len(buffer[i])
    <3>1. buffer'[i][k] = buffer[i][k] /\ buffer[i][k].time <= now
      BY <2>1, <2>2, <2>3
    <3>2. ASSUME j <= k
          PROVE  buffer'[i][j] = buffer[i][j] /\ buffer[i][j].time <= buffer[i][k].time
      BY <1>0, <2>1, <2>2, <2>3, <3>2
    <3> QED
      BY <1>0, <1>a, <2>3, <3>1, <3>2
  <2>4. CASE k = Len(buffer[i]) + 1
    <3>1. buffer'[i][k].time = now
      BY <1>2, <2>1, <2>4
    <3>2. buffer'[i][j].time <= now
      BY <1>0, <1>2, <2>1, <2>2
    <3> QED
      BY <1>0, <3>1, <3>2
  <2> QED
    BY <1>0, <2>1, <2>3, <2>4
<1>3. CASE i = at /\ buffer[i] # <<>> /\ buffer'[i] = Tail(buffer[i])
  <2>1. /\ k + 1 \in DOMAIN buffer[i] /\ buffer'[i][k] = buffer[i][k + 1]
        /\ j + 1 \in DOMAIN buffer[i] /\ buffer'[i][j] = buffer[i][j + 1]
    BY <1>0, <1>3, HeadOfBuffer
  <2>2. j \in Nat /\ k \in Nat
    BY <1>0, <1>3
  <2>3. /\ buffer[i][k + 1].time <= now
        /\ j + 1 <= k + 1 => buffer[i][j + 1].time <= buffer[i][k + 1].time
    BY <2>1 DEF OrderInv, BufferInOrder
  <2> QED
    BY <1>0, <1>a, <2>1, <2>2, <2>3
<1> QED
  BY <1>0, <1>1, <1>2, <1>3, BufferStep

LEMMA NotAfterLater ==
  ASSUME NEW list \in PacketList, NEW s \in Nat, NEW t \in Nat,
         NotAfter(list, s), s <= t
  PROVE  NotAfter(list, t)
<1>1. \A i \in DOMAIN list : list[i] \in ListEntry
  BY DEF PacketList
<1> QED
  BY <1>1 DEF NotAfter, ListEntry

LEMMA ListOrderStep ==
  ASSUME MaxBack = 0, NIface = 1, OrderInv, [Next]_vars,
         NEW c \in DOMAIN connections', NEW d \in Direction
  PROVE  /\ NewestFirst(connections'[c].packets[d])
         /\ NotAfter(connections'[c].packets[d], now')
         /\ \A k \in DOMAIN buffer'[1] :
              NotAfter(connections'[c].packets[d], buffer'[1][k].time)
<1> DEFINE new == connections'[c].packets[d]
<1>0. /\ TypeOK /\ buffer[1] \in Seq(Packet) /\ now \in Nat /\ now' \in Nat
      /\ now <= now' /\ 1 \in Iface
  BY TypeStep, NowGrows DEF OrderInv, TypeOK, Iface
<1>1. PICK old \in PacketList :
        /\ old = IF c \in DOMAIN connections
                 THEN connections[c].packets[d] ELSE <<>>
        /\ \/ new = old
           \/ push_packet /\ new = na_packet_list_add_packet(old, packet)
           \/ do_refresh /\ new = na_packet_list_kept(old, now)
  BY <1>0, ListStep
<1>2. /\ NewestFirst(old) /\ NotAfter(old, now)
      /\ \A k \in DOMAIN buffer[1] : NotAfter(old, buffer[1][k].time)
  <2>1. CASE c \in DOMAIN connections
    BY <1>0, <1>1, <2>1
       DEF OrderInv, ListsBehindBuffer, PacketListsNewestFirst, NewestFirst
  <2>2. CASE c \notin DOMAIN connections
    BY <1>1, <2>2 DEF NewestFirst, NotAfter
  <2> QED
    BY <2>1, <2>2
<1>3. CASE new = old
  <2>1. NotAfter(old, now')
    BY <1>0, <1>2, NotAfterLater
  <2>2. ASSUME NEW k \in DOMAIN buffer'[1] PROVE NotAfter(old, buffer'[1][k].time)
    <3>1. CASE buffer'[1] = buffer[1]
      BY <1>2, <3>1
    <3>2. ASSUME NEW p \in Packet, p.time = now, buffer'[1] = Append(buffer[1], p)
          PROVE  NotAfter(old, buffer'[1][k].time)
      <4>1. \/ k \in DOMAIN buffer[1] /\ buffer'[1][k] = buffer[1][k]
            \/ buffer'[1][k] = p
        BY <1>0, <3>2
      <4> QED
        BY <1>2, <3>2, <4>1
    <3>3. CASE 1 = at /\ buffer[1] # <<>> /\ buffer'[1] = Tail(buffer[1])
      <4>1. k + 1 \in DOMAIN buffer[1] /\ buffer'[1][k] = buffer[1][k + 1]
        BY <1>0, <3>3, HeadOfBuffer
      <4> QED
        BY <1>2, <4>1
    <3> QED
      BY <1>0, <3>1, <3>2, <3>3, BufferStep
  <2> QED
    BY <1>2, <1>3, <2>1, <2>2
<1>4. CASE push_packet /\ new = na_packet_list_add_packet(old, packet)
  <2>1. /\ at = 1 /\ buffer[1] # <<>> /\ now' = now
        /\ buffer'[1] = Tail(buffer[1])
    BY <1>0, <1>4 DEF push_packet, PushKnown, PushNew, Iface, TypeOK
  <2>2. /\ packet \in Packet /\ packet = buffer[1][1] /\ 1 \in DOMAIN buffer[1]
        /\ \A k \in DOMAIN buffer'[1] :
             k + 1 \in DOMAIN buffer[1] /\ buffer'[1][k] = buffer[1][k + 1]
    BY <1>0, <2>1, HeadOfBuffer
  <2>3. NewestFirst(new) /\ NotAfter(new, packet.time) /\ new \in PacketList
    BY <1>2, <1>4, <2>2, AddKeepsOrder, AddPacketType
  <2>4. packet.time \in Nat /\ packet.time <= now
    BY <1>0, <2>2 DEF OrderInv, BufferInOrder, Packet
  <2>5. ASSUME NEW k \in DOMAIN buffer'[1]
        PROVE  NotAfter(new, buffer'[1][k].time)
    <3>1. k \in Nat
      BY <1>0, <2>1
    <3>2. packet.time <= buffer[1][k + 1].time
      BY <1>0, <2>2, <3>1 DEF OrderInv, BufferInOrder
    <3>3. buffer[1][k + 1].time \in Nat
      <4>1. buffer[1][k + 1] \in Packet
        BY <1>0, <2>2
      <4> QED
        BY <4>1 DEF Packet
    <3> QED
      BY <2>2, <2>3, <2>4, <3>2, <3>3, NotAfterLater
  <2> QED
    BY <1>0, <2>1, <2>3, <2>4, <2>5, NotAfterLater
<1>5. CASE do_refresh /\ new = na_packet_list_kept(old, now)
  <2>1. now' = now /\ buffer' = buffer
    BY <1>5 DEF do_refresh
  <2> QED
    BY <1>2, <1>5, <2>1, KeptKeepsOrder
<1> QED
  BY <1>1, <1>3, <1>4, <1>5

LEMMA OrderStep ==
  ASSUME MaxBack = 0, NIface = 1, OrderInv, [Next]_vars
  PROVE  OrderInv'
<1>1. TypeOK' /\ BufferInOrder'
  BY TypeStep, BufferOrderStep DEF OrderInv
<1>2. ListsBehindBuffer'
  BY ListOrderStep DEF ListsBehindBuffer, Iface
<1>3. PacketListsNewestFirst'
  BY ListOrderStep DEF PacketListsNewestFirst, NewestFirst
<1> QED
  BY <1>1, <1>2, <1>3 DEF OrderInv

\* With one device and a clock that is never set back the entries of every packet
\* list are of different seconds, the newest first, so that what
\* na_packet_list_sum_packets() cuts off is exactly what is too old.  (A second
\* device or a clock set back breaks the order.)
THEOREM ListsStayInOrder ==
  ASSUME MaxBack = 0, NIface = 1
  PROVE  Spec => []PacketListsNewestFirst
<1>1. Init => OrderInv
  BY TypeInit DEF Init, OrderInv, BufferInOrder, ListsBehindBuffer, PacketListsNewestFirst
<1>2. OrderInv /\ [Next]_vars => OrderInv'
  BY OrderStep
<1>3. OrderInv => PacketListsNewestFirst
  BY DEF OrderInv
<1> QED
  BY <1>1, <1>2, <1>3, PTL DEF Spec

=============================================================================
