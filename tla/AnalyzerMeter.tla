--------------------------- MODULE AnalyzerMeter ----------------------------
(***************************************************************************)
(* The accounting of the network analyzer implements the traffic meter:    *)
(* the packets that wait are those in the capture buffers, the bytes of a  *)
(* flow and its owner are those in the packet lists of the connections     *)
(* that the processes with that pid have for it, and what is reported of   *)
(* an owner is the sum of its rows (one, or those of all without a pid).   *)
(***************************************************************************)
EXTENDS NetworkAnalyzer

BytesAged(list, age) ==
  SumFunction([i \in {j \in DOMAIN list : list[j].time = now - age} |-> list[i].len])

FlowOf(h) == {h, na_packet_new_inverted(h)}
Flows == {FlowOf(h) : h \in Wire}
Account == Owner \X Flows

ConnectionsOf(o) ==
  UNION {processes[p].conns : p \in {q \in DOMAIN processes : processes[q].pid = o}}

\* Those of an account <<owner, flow>>.
ConnectionsIn(a) == {c \in ConnectionsOf(a[1]) : FlowOf(connections[c].ref) = a[2]}

CountedBytes(a, d, age) ==
  SumFunction([c \in ConnectionsIn(a) |-> BytesAged(connections[c].packets[d], age)]) % U32

ReportedBytes(o, d) ==
  SumFunction([p \in {q \in DOMAIN report : report[q].pid = o} |-> report[p][d]]) % U32

Meter == INSTANCE TrafficMeter WITH
  waiting  <- buffer,
  window   <- [a \in Account |-> [d \in Direction |->
                [age \in 0 .. PERIOD - 1 |-> CountedBytes(a, d, age)]]],
  reported <- [o \in Owner |-> [d \in Direction |-> ReportedBytes(o, d)]]

\* Every step of na-pcap.c, na-connection.c and na-process.c is one of the meter or one
\* it does not see.  push_packet() counts each packet it takes from an interface, once,
\* in its flow, its direction and its second, for one owner; no connection or process
\* that goes takes bytes of the last PERIOD seconds with it; and each refresh reports
\* those bytes, of each owner, all of them and no others, modulo the width of a counter.
ReportIsTheWindow == Meter!Meter

=============================================================================
