------------------------------ MODULE NAPacket ------------------------------
(***************************************************************************)
(* The packet of the network analyzer (network-analyzer/na-packet.c and    *)
(* na-local-addresses.c): its addressing fields, the test that decides     *)
(* whether two packets belong to the same connection, the test that        *)
(* decides which way a packet went, and inversion.                         *)
(*                                                                         *)
(* Only the fields those functions read are kept: both addresses and both  *)
(* ports.  The family of a packet is that of its addresses.  Times and     *)
(* lengths belong to NAConnection, which counts them.                      *)
(***************************************************************************)
EXTENDS Integers

CONSTANTS
  Address4,       \* IPv4 addresses
  Address6,       \* IPv6 addresses
  AnyAddress,     \* the IPv4 address 0.0.0.0
  Port,           \* TCP and UDP ports
  LocalAddress    \* the addresses get_devices() found when the daemon started

ASSUME PacketAssumption ==
  /\ AnyAddress \in Address4
  /\ Address4 \cap Address6 = {}
  /\ LocalAddress \subseteq Address4 \cup Address6

-----------------------------------------------------------------------------

\* The addressing fields of struct _NAPacket.
HeaderOf(Address) == [src : Address, sport : Port, dst : Address, dport : Port]
Header == HeaderOf(Address4) \cup HeaderOf(Address6)

\* What the s_ip and d_ip fields hold: na_packet_new_from_ip6() fills s_ip6 and
\* d_ip6 instead, and leaves s_ip and d_ip as g_new0() made them, all zero.
s_addr(a) == IF a \in Address4 THEN a ELSE AnyAddress

\* Mutation: the source address is not compared.
match_any_src(packet, other) ==
  /\ packet.sport = other.sport
  /\ packet.dport = other.dport
  /\ s_addr(packet.dst) = s_addr(other.dst)

na_packet_match(packet, other) ==
  /\ packet.sport = other.sport
  /\ packet.dport = other.dport
  /\ s_addr(packet.src) = s_addr(other.src)
  /\ s_addr(packet.dst) = s_addr(other.dst)

\* A packet is outgoing when its source is one of the local addresses, whatever
\* its destination; every other packet counts as incoming.
na_packet_is_outgoing(packet) == packet.src \in LocalAddress

na_packet_new_inverted(packet) ==
  [src |-> packet.dst, sport |-> packet.dport,
   dst |-> packet.src, dport |-> packet.sport]

-----------------------------------------------------------------------------

\* What a connection is on the network, for the properties: two packets belong
\* to the same flow when they have the same end points, in either direction.
SameFlow(packet, other) ==
  \/ packet = other
  \/ packet = na_packet_new_inverted(other)

=============================================================================
