---------------------------- MODULE NAConnection ----------------------------
(***************************************************************************)
(* The connection of the network analyzer (network-analyzer/               *)
(* na-connection.c): a reference packet, the time of the last packet, and  *)
(* for each direction the list of the bytes seen in each second.           *)
(*                                                                         *)
(* A packet list is a sequence of [time, len] entries, the head being the  *)
(* one added last.  Times are whole seconds (tv_sec): the code never reads *)
(* tv_usec.  Lengths are guint32, so sums of them are taken modulo U32.    *)
(* total_sent and total_received are left out: nothing reads them.         *)
(***************************************************************************)
EXTENDS NAPacket, Sequences, FiniteSetsExt

CONSTANTS
  PERIOD,   \* seconds a packet is counted for
  U32       \* 2^32, the modulus of guint32

ASSUME ConnectionAssumption ==
  /\ PERIOD \in Nat \ {0}
  /\ U32 \in Nat \ {0}

-----------------------------------------------------------------------------

Direction  == {"sent", "recv"}
ListEntry  == [time : Nat, len : Nat]
PacketList == Seq(ListEntry)
Packet     == [header : Header, time : Nat, len : Nat]
Connection == [ref : Header, last : Nat, packets : [Direction -> PacketList]]

\* Mutation: a packet always gets an entry of its own.
add_entry(list, packet) == <<[time |-> packet.time, len |-> packet.len]>> \o list

\* All the bytes of one second share an entry, as long as they come in a row.
na_packet_list_add_packet(list, packet) ==
  IF list # <<>> /\ Head(list).time = packet.time
  THEN [list EXCEPT ![1].len = (@ + packet.len) % U32]
  ELSE <<[time |-> packet.time, len |-> packet.len]>> \o list

\* na_packet_list_sum_packets() walks the list up to the first entry of PERIOD
\* seconds ago or earlier, and frees that entry and all those behind it.
Expired(list, t) == {i \in DOMAIN list : list[i].time <= t - PERIOD}

na_packet_list_kept(list, t) ==
  IF Expired(list, t) = {} THEN list
  ELSE SubSeq(list, 1, Min(Expired(list, t)) - 1)

na_packet_list_sum_packets(list, t) ==
  LET kept == na_packet_list_kept(list, t)
  IN  SumFunction([i \in DOMAIN kept |-> kept[i].len]) % U32

-----------------------------------------------------------------------------

DirectionOf(packet) ==
  IF na_packet_is_outgoing(packet.header) THEN "sent" ELSE "recv"

\* Mutation: the direction is that of the reference packet.
add_as_reference(connection, packet) ==
  [connection EXCEPT
     !.last = packet.time,
     !.packets[DirectionOf([header |-> connection.ref])] =
        na_packet_list_add_packet(@, packet)]

na_connection_add_packet(connection, packet) ==
  [connection EXCEPT
     !.last = packet.time,
     !.packets[DirectionOf(packet)] = na_packet_list_add_packet(@, packet)]

\* Mutation: the reference packet is the first packet, whatever its direction.
new_without_inversion(packet) ==
  [ref     |-> packet.header,
   last    |-> packet.time,
   packets |-> [d \in Direction |->
                  IF d = DirectionOf(packet)
                  THEN na_packet_list_add_packet(<<>>, packet)
                  ELSE <<>>]]

\* The reference packet is the first packet, or its inverse if that one came in.
na_connection_new(packet) ==
  [ref     |-> IF na_packet_is_outgoing(packet.header)
               THEN packet.header
               ELSE na_packet_new_inverted(packet.header),
   last    |-> packet.time,
   packets |-> [d \in Direction |->
                  IF d = DirectionOf(packet)
                  THEN na_packet_list_add_packet(<<>>, packet)
                  ELSE <<>>]]

na_connection_sum_packets(connection, d, t) ==
  na_packet_list_sum_packets(connection.packets[d], t)

\* Mutation: there is no second search.
find_as_it_is(packet, connections) ==
  {c \in DOMAIN connections : na_packet_match(packet.header, connections[c].ref)}

\* The list of connections is searched for the packet as it is, and only then
\* for the packet inverted.  The result is the set of connections that the
\* search may return, empty for NULL.
na_connection_find_from_packet(packet, connections) ==
  LET Matching(header) ==
        {c \in DOMAIN connections : na_packet_match(header, connections[c].ref)}
  IN  IF Matching(packet.header) # {}
      THEN Matching(packet.header)
      ELSE Matching(na_packet_new_inverted(packet.header))

=============================================================================
