------------------------------ MODULE MCCapture ------------------------------
(***************************************************************************)
(* Small instances of the capture: two devices of any link types, with the *)
(* traffic the parsers are written for, and IPv4 options.                  *)
(***************************************************************************)
EXTENDS NACapture

CONSTANTS Here4, Here6, There4, There6, a, b

Plain(net, transport, src, dst) ==
  [net |-> net, transport |-> transport, options |-> 0,
   src |-> src, sport |-> a, dst |-> dst, dport |-> b]

Ip4Frames ==
  {Plain("ip", "tcp", Here4, There4), Plain("ip", "udp", There4, Here4),
   Plain("ip", "icmp", Here4, There4),
   [Plain("ip", "tcp", There4, Here4) EXCEPT !.options = 2]}

Ip6Frames == {Plain("ip6", "tcp", There6, Here6), Plain("ip6", "icmp", Here6, There6)}

\* Both kinds of IP where the link header tells them apart, with ARP on the two
\* that carry it; IPv4 only on a raw link, no traffic on the links not understood.
PlainTraffic ==
  [EN10MB     |-> Ip4Frames \cup Ip6Frames \cup {Plain("arp", "tcp", Here4, There4)},
   PPP        |-> Ip4Frames \cup Ip6Frames,
   LINUX_SLL  |-> Ip4Frames \cup Ip6Frames \cup {Plain("arp", "udp", Here4, There4)},
   RAW        |-> Ip4Frames,
   NULL       |-> {},
   IEEE802_11 |-> {}]

\* The second device has the IPv6 address; either may be inactive or not open.
TwoDevices ==
  {<<[active |-> on1, addresses |-> {Here4}, opens |-> open1, link |-> link1],
     [active |-> on2, addresses |-> {Here6}, opens |-> open2, link |-> link2]>> :
     on1, on2, open1, open2 \in BOOLEAN,
     link1 \in {"EN10MB", "LINUX_SLL", "IEEE802_11"}, link2 \in {"PPP", "RAW", "EN10MB"}}

=============================================================================
