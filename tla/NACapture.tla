------------------------------ MODULE NACapture ------------------------------
(***************************************************************************)
(* From the wire to push_packet(): the devices the daemon opens when it    *)
(* starts (get_devices() in network-analyzer/na-application.c), the main   *)
(* loop that dispatches them in turn, and the parsing of their frames      *)
(* (network-analyzer/na-pcap.c).  What becomes of the packets pushed is in *)
(* NetworkAnalyzer.                                                        *)
(*                                                                         *)
(* A frame on the wire is a sequence of 16-bit words, and the parsers read *)
(* it at fixed offsets, as the code does.  A word is a pair <<x, k>>, the  *)
(* kth word of a field whose contents are x.                               *)
(***************************************************************************)
EXTENDS Integers, Sequences, FiniteSets, Functions

CONSTANTS
  Address4, Address6, Port,
  NDevice,     \* the devices NetworkManager knows
  Machine,     \* what they may be, in the order it lists them
  Traffic,     \* for each link type, the frames the kernel may capture on it
  MaxFrames    \* bound: the frames captured in all

Transport == {"tcp", "udp", "icmp"}
Link      == {"EN10MB", "PPP", "LINUX_SLL", "RAW", "NULL", "IEEE802_11"}
Address   == Address4 \cup Address6
Device    == [active : BOOLEAN, addresses : SUBSET Address, opens : BOOLEAN, link : Link]
Frame     == [net : {"ip", "ip6", "arp"}, transport : Transport, options : Nat,
              src : Address, sport : Port, dst : Address, dport : Port]

ASSUME CaptureAssumption ==
  /\ Address4 \cap Address6 = {}
  /\ NDevice \in Nat
  /\ Machine \subseteq [1 .. NDevice -> Device]
  /\ Traffic \in [Link -> SUBSET Frame]
  /\ MaxFrames \in Nat

Dev == 1 .. NDevice

VARIABLES
  devices,     \* the one of Machine at hand
  next,        \* the device get_devices() looks at next
  local,       \* the list of local addresses
  handles,     \* iface_handles, the devices opened, in order
  at,          \* the handle being dispatched, Len(handles) + 1 in do_refresh()
  taken,       \* this dispatch has handled a frame
  down,        \* the devices that went down since they were opened
  seen,        \* the frames captured on each device so far
  handed,      \* how many of them the parser was called for
  pushed       \* the packets push_packet() was called with, by device

vars == <<devices, next, local, handles, at, taken, down, seen, handed, pushed>>

-----------------------------------------------------------------------------
(* The frames on the wire.                                                 *)

Field(x, words) == [k \in 1 .. words |-> <<x, k>>]

AddressWords(x) == Field(x, IF x \in Address4 THEN 2 ELSE 8)

\* The header of TCP and of UDP begins with the ports.
Segment(f) == Field(f.sport, 1) \o Field(f.dport, 1) \o Field("data", 2)

\* Options lie between the IPv4 header of 20 bytes and its payload.
IpPacket(f) ==
  IF f.net = "ip6"
  THEN Field("version", 3) \o Field(f.transport, 1)
         \o AddressWords(f.src) \o AddressWords(f.dst) \o Segment(f)
  ELSE Field("version", 4) \o Field(f.transport, 1) \o Field("checksum", 1)
         \o AddressWords(f.src) \o AddressWords(f.dst)
         \o Field("option", f.options) \o Segment(f)

LinkHeader(f) ==
  [EN10MB     |-> Field("mac", 6) \o Field(f.net, 1),
   PPP        |-> Field("control", 1) \o Field(f.net, 1),
   LINUX_SLL  |-> Field("sll", 7) \o Field(f.net, 1),
   RAW        |-> <<>>,
   NULL       |-> Field("family", 2),
   IEEE802_11 |-> Field("mac", 12)]

OnWire(f, link) == LinkHeader(f)[link] \o IpPacket(f)

-----------------------------------------------------------------------------
(* na-pcap.c: parsing.  A parser yields the packets that are pushed, one   *)
(* or none, as a sequence; or rather the set of the sequences that may be. *)

\* The pointer p advanced by a header.
After(p, words) == SubSeq(p, words + 1, Len(p))

\* The byte of a word that is taken for the transport protocol, which may be any
\* when the word is of another field.
ProtocolIn(word) == IF word[1] \in Transport THEN {word[1]} ELSE Transport

parse_transport(protocol, src, dst, payload) ==
  IF protocol \in {"tcp", "udp"}
  THEN <<[src |-> src, sport |-> payload[1], dst |-> dst, dport |-> payload[2]]>>
  ELSE <<>>

\* sizeof (struct ip) is 20 bytes, whatever the length the header says.
parse_ip(p) ==
  {parse_transport(protocol, SubSeq(p, 7, 8), SubSeq(p, 9, 10), After(p, 10)) :
     protocol \in ProtocolIn(p[5])}

\* sizeof (struct ip6_hdr) is 40 bytes, whatever headers follow.
parse_ip6(p) ==
  {parse_transport(protocol, SubSeq(p, 5, 12), SubSeq(p, 13, 20), After(p, 20)) :
     protocol \in ProtocolIn(p[4])}

\* The switch of the three link layers that have a protocol number.
parse_network(protocol, payload) ==
  CASE protocol = <<"ip", 1>>  -> parse_ip(payload)
    [] protocol = <<"ip6", 1>> -> parse_ip6(payload)
    [] OTHER                   -> {<<>>}

parse_ethernet(p)     == parse_network(p[7], After(p, 7))
parse_ppp(p)          == parse_network(p[2], After(p, 2))
parse_linux_cooked(p) == parse_network(p[8], After(p, 8))

pcap_dispatch_cb(link, p) ==
  CASE link = "EN10MB"          -> parse_ethernet(p)
    [] link = "PPP"             -> parse_ppp(p)
    [] link = "LINUX_SLL"       -> parse_linux_cooked(p)
    [] link \in {"RAW", "NULL"} -> parse_ip(p)
    [] OTHER                    -> {<<>>}

-----------------------------------------------------------------------------
(* na-application.c: the start.                                            *)

Init ==
  /\ devices \in Machine
  /\ next = 1 /\ local = {} /\ handles = <<>>
  /\ at = 1 /\ taken = FALSE /\ down = {}
  /\ seen = [i \in Dev |-> <<>>]
  /\ handed = [i \in Dev |-> 0]
  /\ pushed = [i \in Dev |-> <<>>]

Started == next > NDevice

\* Mutation: a device that cannot be opened does not have its addresses added.
addresses_if_opened ==
  /\ ~ Started
  /\ LET device == devices[next]
         opened == device.active /\ device.opens
     IN  /\ local' = IF opened THEN local \cup device.addresses ELSE local
         /\ handles' = IF opened THEN Append(handles, next) ELSE handles
  /\ next' = next + 1
  /\ UNCHANGED <<devices, at, taken, down, seen, handed, pushed>>

\* get_devices(), one device of its loop at a time.  The addresses of an activated
\* device count as local whether it can be opened or not.
get_devices ==
  /\ ~ Started
  /\ LET device == devices[next]
     IN  /\ local' = IF device.active THEN local \cup device.addresses ELSE local
         /\ handles' = IF device.active /\ device.opens
                       THEN Append(handles, next) ELSE handles
  /\ next' = next + 1
  /\ UNCHANGED <<devices, at, taken, down, seen, handed, pushed>>

-----------------------------------------------------------------------------
(* The kernel.  It captures on a device as soon as it is opened.           *)

Opened == {handles[k] : k \in DOMAIN handles}

Capture(i) ==
  /\ i \in Opened \ down
  /\ SumFunction([k \in Dev |-> Len(seen[k])]) < MaxFrames
  /\ \E f \in Traffic[devices[i].link] : seen' = [seen EXCEPT ![i] = Append(@, f)]
  /\ UNCHANGED <<devices, next, local, handles, at, taken, down, handed, pushed>>

GoDown(i) ==
  /\ i \in Opened \ down
  /\ down' = down \cup {i}
  /\ UNCHANGED <<devices, next, local, handles, at, taken, seen, handed, pushed>>

-----------------------------------------------------------------------------
(* main_loop_cb()                                                          *)

Dispatching(i) == Started /\ at \in DOMAIN handles /\ i = handles[at]

Waiting(i) == handed[i] < Len(seen[i])

\* The callback is called for the next frame of the buffer.
dispatch_frame(i) ==
  /\ Dispatching(i) /\ Waiting(i)
  /\ \E packets \in pcap_dispatch_cb(devices[i].link,
                                     OnWire(seen[i][handed[i] + 1], devices[i].link)) :
       pushed' = [pushed EXCEPT ![i] = @ \o
         [k \in DOMAIN packets |->
            [header   |-> packets[k],
             outgoing |-> packets[k].src \in {AddressWords(x) : x \in local}]]]
  /\ handed' = [handed EXCEPT ![i] = @ + 1]
  /\ taken' = TRUE
  /\ UNCHANGED <<devices, next, local, handles, at, down, seen>>

\* Mutation: the first error ends the loop over the devices.
stop_at_error(i) ==
  /\ Dispatching(i)
  /\ i \in down \/ taken \/ ~ Waiting(i)
  /\ at' = (IF i \in down THEN Len(handles) ELSE at) + 1 /\ taken' = FALSE
  /\ UNCHANGED <<devices, next, local, handles, down, seen, handed, pushed>>

\* pcap_dispatch() returns: with the frames it had, after its timeout without any,
\* or with the error of a device that went down, at once.  The loop goes on.
na_pcap_dispatch(i) ==
  /\ Dispatching(i)
  /\ i \in down \/ taken \/ ~ Waiting(i)
  /\ at' = at + 1 /\ taken' = FALSE
  /\ UNCHANGED <<devices, next, local, handles, down, seen, handed, pushed>>

\* Mutation: the loop starts again at the second device.
refresh_skips_first ==
  /\ Started /\ at = Len(handles) + 1
  /\ at' = 2
  /\ UNCHANGED <<devices, next, local, handles, taken, down, seen, handed, pushed>>

do_refresh ==
  /\ Started /\ at = Len(handles) + 1
  /\ at' = 1
  /\ UNCHANGED <<devices, next, local, handles, taken, down, seen, handed, pushed>>

-----------------------------------------------------------------------------

Next ==
  \/ get_devices
  \/ \E i \in Dev :
       Capture(i) \/ GoDown(i) \/ dispatch_frame(i) \/ na_pcap_dispatch(i)
  \/ do_refresh

\* The start comes to an end and the main loop goes on: above all, pcap_dispatch()
\* returns from a device without traffic.
Spec ==
  /\ Init /\ [][Next]_vars
  /\ WF_vars(get_devices) /\ WF_vars(do_refresh)
  /\ WF_vars(\E i \in Dev : dispatch_frame(i) \/ na_pcap_dispatch(i))

-----------------------------------------------------------------------------
(* Properties.                                                             *)

TypeOK ==
  /\ devices \in Machine
  /\ next \in 1 .. NDevice + 1
  /\ local \subseteq Address
  /\ Opened \subseteq 1 .. next - 1
  /\ at \in 1 .. Len(handles) + 1
  /\ down \subseteq Opened
  /\ \A i \in Dev :
       /\ seen[i] \in Seq(Frame)
       /\ handed[i] \in 0 .. Len(seen[i])

CarriesPorts(f) == f.net # "arp" /\ f.transport \in {"tcp", "udp"}

\* The packet pushed is that of the frame.  Its ports are what the parser found
\* behind the fixed part of the header, so they are right without options only.
IsOf(packet, f) ==
  /\ packet.header.src = AddressWords(f.src)
  /\ packet.header.dst = AddressWords(f.dst)
  /\ f.options = 0 => /\ packet.header.sport = <<f.sport, 1>>
                      /\ packet.header.dport = <<f.dport, 1>>
  /\ packet.outgoing <=>
       \E k \in Dev : devices[k].active /\ f.src \in devices[k].addresses

\* The comment "we need to know the source and destination ports, which are stored
\* in the TCP header" (na-pcap.c): of each device the packets pushed are those of
\* the TCP and UDP frames dispatched, each once and in their order; and they are
\* outgoing just when an active device, opened or not, earlier or later in the
\* list, has their source address.
PushedAsCaptured ==
  \A i \in Dev :
    LET carrying == {n \in 1 .. handed[i] : CarriesPorts(seen[i][n])}
        Place(n) == Cardinality({m \in carrying : m <= n})
    IN  /\ Len(pushed[i]) = Cardinality(carrying)
        /\ \A n \in carrying : IsOf(pushed[i][Place(n)], seen[i][n])

\* Whatever devices go down, the frames captured on one that is up are dispatched
\* (main_loop_cb() in na-application.c).
FramesAreDispatched ==
  \A i \in Dev : Waiting(i) ~> (i \in down \/ ~ Waiting(i))

=============================================================================
