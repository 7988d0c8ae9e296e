---------------------------- MODULE MCProcTables ----------------------------
(***************************************************************************)
(* Small instances of the search for the process of a connection.          *)
(***************************************************************************)
EXTENDS ProcTablesHistory, TLC

CONSTANTS
  Zero, Here, Here2, There,     \* IPv4 addresses, Here2 unknown to get_devices()
  Mapped, MappedThere, There6,  \* IPv6 addresses, the first two ::ffff:...
  a, b                          \* ports

Flow(src, sport, dst, dport) ==
  [src |-> src, sport |-> sport, dst |-> dst, dport |-> dport]

V4 == [x \in {Mapped, MappedThere} |-> IF x = Mapped THEN Here2 ELSE There]

\* A socket in /proc/net/tcp, and one in tcp6 at an address that came up after
\* get_devices().
TwoSockets ==
  {[header |-> Flow(Here, a, There, b), file |-> 1],
   [header |-> Flow(Mapped, b, MappedThere, b), file |-> 2]}

\* One socket.
OneSocket == {[header |-> Flow(Here, a, There, b), file |-> 1]}

OneFlow == {Flow(Here, a, There, b)}

\* A reference packet that is outgoing, without a socket but for the workaround in
\* addtoconninode(), and one that is not: a packet sent from Here2 is taken for one
\* received, and inverted.
TwoFlows == {Flow(Here, b, There, b), Flow(There, b, Here2, b)}

\* Nothing tells one name from another.
Symmetric == Permutations(Name)

=============================================================================
