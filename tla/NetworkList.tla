----------------------------- MODULE NetworkList -----------------------------
(***************************************************************************)
(* The list of the network view (src/usage-network-view.vala): the rows it *)
(* makes of a UsageChanged signal, and the function a GtkListBox sorts     *)
(* them with, which subtracts 32-bit sort numbers.                         *)
(*                                                                         *)
(* Speeds are kept as bytes in the window, from which the daemon computes  *)
(* them in kilobytes a second (tokbps() in na-application.c); the texts of *)
(* the rows are left out.  The numbers are exact here, floats there.       *)
(***************************************************************************)
EXTENDS Integers, Functions

CONSTANTS
  KBPS,       \* the bytes of a window at one kilobyte a second, PERIOD * 1024
  CENT,       \* 100, the parts of a kilobyte a second that are shown
  INT_MAX     \* the largest int, 2^31 - 1

ASSUME ListAssumption ==
  /\ KBPS \in Nat \ {0} /\ CENT \in Nat \ {0}
  /\ INT_MAX \in Nat /\ INT_MAX > 2

-----------------------------------------------------------------------------

\* An int after a subtraction.
Int32(n) == ((n + INT_MAX + 1) % (2 * (INT_MAX + 1))) - (INT_MAX + 1)

\* The sort function of the list box: negative when a comes before b.
compare(a, b) == Int32(b.sort_id - a.sort_id)

NetworkListRow(kind, pid, recv, sent, sort_id) ==
  [kind |-> kind, pid |-> pid, recv |-> recv, sent |-> sent, sort_id |-> sort_id]

\* Mutation: the header has the largest number there is.
HeaderAtMax == NetworkListRow("header", 0, 0, 0, INT_MAX)

HeaderRow == NetworkListRow("header", 0, 0, 0, INT_MAX - 2)

\* (int) (info.received * 100), info.received being tokbps (recv).
SortId(recv) == (CENT * recv) \div KBPS

ProcessRow(info) ==
  NetworkListRow("process", info.pid, info.recv, info.sent, SortId(info.recv))

\* The infos of a signal: a function from what tells them apart to [pid, recv, sent].
Unknown(infos) == {p \in DOMAIN infos : infos[p].pid = 0}

SumOf(infos, S, d) == SumFunction([p \in S |-> infos[p][d]])

UnknownRow(infos) ==
  NetworkListRow("unknown", 0, SumOf(infos, Unknown(infos), "recv"),
                 SumOf(infos, Unknown(infos), "sent"), -1)

TotalRow(infos) ==
  NetworkListRow("total", 0, SumOf(infos, DOMAIN infos, "recv"),
                 SumOf(infos, DOMAIN infos, "sent"), -2)

\* Mutation: only what was received makes a row for the traffic of nobody.
RowsOfReceived(infos) ==
  {HeaderRow, TotalRow(infos)}
  \cup {ProcessRow(infos[p]) : p \in DOMAIN infos \ Unknown(infos)}
  \cup {r \in {UnknownRow(infos)} : r.recv > 0}

\* The traffic of no known process has one row, if there is any.
RowsOf(infos) ==
  {HeaderRow, TotalRow(infos)}
  \cup {ProcessRow(infos[p]) : p \in DOMAIN infos \ Unknown(infos)}
  \cup {r \in {UnknownRow(infos)} : r.recv > 0 \/ r.sent > 0}

=============================================================================
