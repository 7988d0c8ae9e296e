------------------------- MODULE MCNetworkAnalyzer --------------------------
(***************************************************************************)
(* Small instances of the accounting.  The timeouts keep the order of the  *)
(* code's (PERIOD 5 <= CONNTIMEOUT 25, PROCESSTIMEOUT 50 the double), on a *)
(* shorter scale.                                                          *)
(***************************************************************************)
EXTENDS AnalyzerMeter, TLC

CONSTANTS
  Zero,           \* 0.0.0.0
  Here,           \* an address of this host
  There, Else,    \* addresses of other hosts
  a, b, c         \* ports

Symmetric == Permutations(ConnId) \cup Permutations(ProcId)

Flow(src, sport, dst, dport) ==
  [src |-> src, sport |-> sport, dst |-> dst, dport |-> dport]

\* A conversation both ways, and packets from the same port to another port.
HostTraffic ==
  {Flow(Here, a, There, b), Flow(There, b, Here, a), Flow(Here, a, There, c)}

\* A conversation both ways, and a packet of it that is forwarded.
ForwardedTraffic ==
  {Flow(Here, a, There, b), Flow(There, b, Here, a), Flow(There, b, Else, a)}

\* Two conversations that use the same ports with different hosts.
SharedPorts == {Flow(Here, a, There, b), Flow(Here, a, Else, b)}

=============================================================================
