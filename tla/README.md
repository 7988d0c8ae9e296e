# GNOME Usage: a verification development

GNOME Usage shows what uses the processor, the memory, the storage, the network
and the battery of a computer. It is two programs: the application
(`src/`, Vala and GTK+), which runs as the user, and the network analyzer
(`network-analyzer/`, C), a daemon on the system bus that listens to all
interfaces, works out which process each packet belongs to, and sends the
traffic of each process to the application once a second.

This directory holds TLA+ models of the parts where something can go wrong that
a test would hardly reach, TLC configurations that check them on small
instances, and TLAPS proofs of the main results for instances of any size.
Names in the modules are those of the source, wherever an operator or an action
stands for a function; `PROJECT.json` maps each definition to its lines.

## The system

| Part | Source | State | Operations | What makes it hard |
|---|---|---|---|---|
| Packets | `na-packet.c`, `na-local-addresses.c` | the local addresses, read once | match, direction, inversion, hash string | IPv6 next to IPv4; addresses that change later |
| Connections | `na-connection.c` | the list of connections: reference packet, time of the last packet, a list of (second, bytes) for each direction | add a packet, find the connection of a packet, sum up the last 5 seconds | both directions of a flow are one connection; the list is assumed to be in order; 32-bit sums |
| Process accounting | `na-process.c` | the list of processes, each with its connections | find or make the process of a connection, remove what has timed out, report | two timeouts, two lists, references between them |
| Capture | `na-pcap.c`, `get_devices()` | the open handles, the buffer of each device (in the kernel) | open, dispatch, parse headers, push packets | fixed offsets; addresses added while devices capture; devices that fail or are quiet |
| Socket tables | `na-conninode.c`, `na-inodeproc.c` | end points to inode, inode to process | refresh from `/proc`, look up | the system goes on while `/proc` is read; nothing is ever forgotten |
| Daemon | `na-application.c` | quit timeout, refresh timeout, bus name | start, refresh, Acknowledge, quit | races of its timeouts with the client's |
| Network view | `usage-network-view.vala` | proxy, its timeout, rows | connect, show, acknowledge, reconnect | asynchronous calls, a daemon that goes away; 32-bit sort numbers |
| System monitor | `usage-system-monitor.vala` | table of processes, last processor times | an update a second | processes start and exit during the update; unsigned differences |
| CPU and memory views | `usage-cpu-view.vala`, `usage-memory-view.vala` | rows | an update a second | they take a fixed number of rows, whatever the table has |
| Storage view | `usage-storage-view.vala`, `usage-storage-list.vala` | the path shown, the list, the header bar | activate a row, go back, switch views | going back beyond the root; the order of two handlers |
| Graph, battery, window | the other files of `src/` | points, properties | push, draw, refresh | otherwise widgets |

The parts meet in six places. `na_pcap_dispatch()` hands the packets of one
device to `push_packet()` one at a time; this finds or makes the connection
(`na-connection.c`), and for a new one the process (`na-process.c`), which asks
the socket tables. `do_refresh()` makes `na-process.c` remove and report.
The report goes over the bus to the network view as the signal `UsageChanged`,
and the call `Acknowledge` comes back and puts off the end of the daemon. The
daemon is one thread, so a refresh, a dispatch and a call are handled one after
the other. What runs next to it are the kernel (packets, processes, sockets),
the bus, and the application. In the application one main loop runs the timeout
of the monitor, those of the views that read the monitor's table, and the clicks
of the user, next to a kernel that starts and ends processes at any time.

What would make the parts correct, in short. Capture: each TCP or UDP packet is
handed on once, in order, with its end points and its direction, and no device
keeps another waiting. Packets and connections: a packet is counted in its own
flow, and a flow has one connection. Accounting: no connection is lost or
counted twice, no reference to a freed one stays, each is removed when it has
been idle long enough and only then, and a report is the traffic of the last
five seconds. Tables: the process found has the socket. Daemon and view: the
daemon stays while somebody looks, goes when nobody does, and comes back after a
crash; the list on the screen is the last report, in order. Monitor and views:
the table is the system's, every jiffy is in one load, the rows shown are there
and are the busiest. Storage: the list, the title and the way back agree, and
none of them leaves the tree.

## Modules

    NAPacket -- NAConnection -- NetworkAnalyzer -- AnalyzerMeter ----- NetworkUsage
                                                   (TrafficMeter)     /
                                                   NetworkList ------
    NAPacket -- NAProcTables -- ProcTablesHistory
    NACapture          UsageService
    SystemMonitor, StorageList -- UsageApplication

**NAPacket** has the addressing of a packet and the three functions on it.
Ports and addresses are model values. The two quirks of the code are in it: a
packet is outgoing if its source is local, and anything else is incoming; the
match compares the IPv4 fields, which an IPv6 packet leaves zero (`s_addr`).

**NAConnection** has the connection as a record and the packet list as a
sequence, head first, as in the C list. `na_packet_list_sum_packets()` of the C
code both sums and frees the old tail; here `na_packet_list_kept` is what stays
and `na_packet_list_sum_packets` the sum of that, both applied in the same
step. Lengths are added modulo `U32`. `na_connection_find_from_packet` gives
the set of connections that match. The order in which `g_list_prepend` and
`g_list_append` put them is abstracted: `OneConnectionPerFlow` says that there
is never more than one to choose from.

**NetworkAnalyzer** is the state machine of the daemon's accounting.
`buffer[i]` is what the kernel holds for an interface, `at` the interface that
`main_loop_cb()` dispatches, `connections` and `processes` the two global lists
as functions from addresses to records. An address that was freed may be handed
out again. `Capture`, `Tick` and `SetBack` (somebody sets the clock back, by up
to `MaxBack` seconds and not before `Epoch`) are the environment, `PushKnown` and
`PushNew` the two branches of `push_packet()`, `DispatchDone` the return of
`na_pcap_dispatch()`, early or not, and `do_refresh` the whole of
`na_process_info_get_all()`: every process, every connection, the sums, the
trimmed lists, and everything freed, in one step. The owner of a new
connection is any pid or none.

**TrafficMeter** is what the accounting promises. Packets wait at the interfaces;
`Count` takes the first one and adds its length to one counter: that of its flow,
of the direction its source tells, of the second it was stamped with. The counters
of a flow are kept for an owner, and all that counts of a flow at a time is for the
same one; which one it is, the socket tables decide. A second shifts the counters,
which hold `PERIOD` seconds and are as wide as those of the code; a report is, for
each owner, the sum over its flows. There is nothing in it of connections, lists,
processes and timeouts. A packet that is taken and not counted, or counted twice,
or for another flow, direction or second, is not a step of it.
**AnalyzerMeter** is the refinement mapping: the capture buffers are what waits, the
counters of an owner and a flow are sums over the connections that the processes
with that pid have for that flow, and the report is the sum of the owner's rows.

**NetworkList** has the rows the network view makes of a signal and the sort
function of its list box, with the 32-bit subtraction. **NetworkUsage** composes
the two programs along the path of the data: the accounting, the signal each
refresh with rows emits (`RefreshAndEmit`), the bus as a queue, and the handler
that replaces the rows. Its property `ListShowsTheReport` relates the rows on the
screen to the abstract meter, including the case the code leaves out: a report
without rows sends no signal, and the list stays as it was.

**NACapture** is the way from the wire to `push_packet()`. `get_devices` looks
at one device of NetworkManager at a time: addresses are added and the device is
opened, while the devices before capture already. A frame is laid out in 16-bit
words, link header, IP header, options and ports, by `OnWire`; the parsers,
one operator for each of the code's, take them at the fixed offsets of
the code. That makes the property `PushedAsCaptured` one about offsets, link
types and protocol numbers and not about records. `na_pcap_dispatch` is the
return of the dispatch of a device, with an error at once when it went down.

**NAProcTables** fills the gap NetworkAnalyzer leaves: which process. The state
of the kernel (`program`, `socket`) changes at any moment between two steps of
the daemon, and the daemon's steps are as small as its system calls: the list
of `/proc`, the `fd` directory of a process, a link, a command line, a row of
`/proc/net/tcp`. There are two handlers: the search for the process of a new
connection (`FindFromConnection` to `get_process_from_inode` or `NoProcess`),
and the report, which reads the four files of `/proc/net` again and then
removes processes from the list (`BeginReport` to `RemoveTimedOut`; which ones,
NetworkAnalyzer decides). Closed sockets stay in `socket` without holders, for the
properties and so that no inode is given twice. TIME_WAIT rows, which
`addtoconninode()` passes over, are the same as no row. **ProcTablesHistory** adds
two history variables to it, who ever held which socket and who has held one with
the key all through the search, and states the properties that need them.

**UsageService** is the life of the daemon and of its client. The bus is two
counters of requests and one signal on its way. A `get_proxy` may be waiting for
the bus (`asked`), for the daemon to own its name (`awaited`) or for the client
to come to it (`ready`). `watchdog[s]` is the timeout of the closure of one
connected handler: the variable `network_analyzer_timeout_id` is local to
`connect_network_analyzer_signal()`, so each proxy has its own, and the timeout
of a dropped proxy is not removed with it. While the client waits for the reply
to `Acknowledge` (a synchronous call) it handles nothing else.

**SystemMonitor** is the monitor's table against the processes of the system. An
update reads the list of the pids (`get_proclist`), then each process with a
call of its own (`AddRow`, `UpdateRow`), then drops the rows that were not in
the list (`RemoveRows`); between any two of these calls a process may start, use
a jiffy or exit. A load, a fraction in the code, is kept as its numerator, jiffies
modulo `U64`; the denominator `total`, what the machine counted between two updates,
is the same for all rows.
**StorageList** is the navigation of the storage view: a path, the list, the mode
with the title and the back button of the window, over a constant tree.
**UsageApplication** composes them in the main loop of the application and adds the
timeout of the CPU view: the loads truncated to `int` sort numbers, `(int)(1000 * load)`
with ties between close loads and `OUT_OF_RANGE` for what an `int` cannot hold, the
comparison by a subtraction that may overflow, insertion, and the first
`MAX_NUM_ELEMENTS` rows, there or not: a row that is not there ends the application
(`crashed`). Time is in quarters of a second here,
because timeouts of whole seconds are aligned and come 0.75 to 1.75 seconds after
they were added, and the monitor's, added with a millisecond interval, is exact.

**MCNetworkAnalyzer**, **MCNetworkUsage**, **MCProcTables**, **MCCapture** and
**MCApplication** instantiate the models for TLC. The proofs are in modules of
their own, each extending the module it is about:

    NetworkAnalyzer -- NetworkAnalyzerProofs -- PacketOrderProofs --.
    NetworkUsage ---------------------------------------------------- NetworkUsageProofs
    FoldProofs -----------------------------------------------------'
    NACapture, FoldProofs -- CaptureProofs
    ProcTablesHistory -- ProcTablesProofs
    UsageService -- ServiceProofs
    UsageApplication, FoldProofs -- ApplicationProofs

## Runs

| Run | Question | Result |
|---|---|---|
| `accounting` | Are the lists consistent, flows told apart, idle connections removed in time, reports bounded? Two interfaces, three packets, one of them forwarded perhaps, a clock that is set back. | holds; two of the properties are against comments of the code |
| `network_usage` | One interface: is each packet counted once, in the right flow, direction and second, is the report the traffic of the last seconds, even where counters wrap, and does the list on the screen show it, in order? | holds |
| `capture` | Is each TCP and UDP frame of two devices handed on once, in order, with its end points and direction, whatever the devices are and whichever fails? | holds |
| `proc_tables` | Is the process with the socket found, under its own name? Who has a row without a name? | holds while end points and pids are not used again; processes that exited at the wrong moment have none, and are sent |
| `service` | Any traffic, one crash: does the daemon go when the application has gone? And on a busy network, does it stay, come back, with one timeout at a time? | holds |
| `application` | While processes come and go: is the table right, is every jiffy in one load, does the view find the rows of the monitor's list, and show the busiest? Do list, title and back button of the storage view agree? | holds |
| `suspend` | Are idle connections removed when a refresh comes late? | a process is freed before its connections, which stay for ever |
| `two_interfaces` | Is the report right with two interfaces? | recent bytes are dropped |
| `shared_ports` | Is an IPv6 packet counted in its flow? | two flows with equal ports are one connection |
| `stale_key` | Is the process with the socket found when end points are used again? | the connection goes to the process of the old socket |
| `no_rows` | Is there a row for each line of the view? | not when its first timeout comes before the monitor's: the application ends |
| `service_idle` | Does the view keep up with the network? | a daemon started on an idle network quits, and nothing starts it again |

The disagreements between the code and its own comments, declarations and README are
listed under "findings" in `PROJECT.json`, each with the line it contradicts. Six are
the violated runs. Three are shown by properties that hold, because the code does
something definite that is not what is written:

* `NoMoreRowsThanConnections`: a process goes at the refresh after its last connection,
  25 seconds after its last packet, where `na-process.h:37` says 50
  (`PROCESSTIMEOUT`): `na_process_get_last_packet_time()` gives 0 without connections.
  The mutant that keeps such a process, as the comment has it, violates the property.
* `NobodysAreApart`: no process has two connections nobody owns, where `na-process.c:264`
  adds them all to 'the unknown process'. That one unknown process is the mutant.
* `NamelessAreGone`: a row without a name is of a process that has exited between the
  reading of its link and of its command line. Such rows exist, and `do_refresh()` sends
  them as an `s` of `a(sidd)` (`na-application.c:42`, `:92`), which is never NULL.

### Bounds

The accounting is explored with `PERIOD` 2, `CONNTIMEOUT` 2 and
`PROCESSTIMEOUT` 4 in place of 5, 25 and 50: what matters is that
`PERIOD <= CONNTIMEOUT` and that `PROCESSTIMEOUT` is the double. `MaxTime` is
three seconds after the start, so that a connection made in the first second can
time out, its process after it, and another packet of the same flow can come
in the same second; the clock may be set back by a second at any point, again and again.
Three packets are enough for a flow with both directions and another one, or for
an entry with two packets and one behind it; they are of a conversation of this host, in
either direction, or forwarded by it between two others, on the same ports
(`network_usage` has two conversations of this host on different ports). `MaxGap` is the time between two
refreshes, `MaxLag` the time a packet may wait. With 2 and 1, and these timeouts,
the instance is on the edge of `Timely`; with a gap of 3 (`suspend`) it is
beyond. `two_interfaces` has the longer timeouts so that only the order of the
packets is at fault. The addresses of connections and processes are symmetric.

`network_usage` has counters that hold two and wrap at three (`U32 = 3`), so that
the three packets it has can wrap one: in an entry, in the sum of a connection, in
that of a process and in that of several rows of nobody. It has one interface and
no `SetBack`, because with either of them the report is not the window
(`two_interfaces`; a clock set back lets entries stay for as much longer, which is
what the properties of `accounting` are proved to survive). One signal at a time
is on its way; the view handles a signal well within a second. `INT_MAX` is 7 there,
and the sort numbers reach both ends of the range: the difference from the header
to the totals is `INT_MAX` itself.

`capture` has two devices, each active or not and opening or not, over five link
types, one of them not understood, and two frames in all: two on one device show
their order, one on each that no device waits for the other. The traffic is TCP, UDP
and ICMP over IPv4 and IPv6, IPv4 with options, and ARP.

The tables are explored with two processes with names of their own and two sockets, one in `tcp` with a
local address the daemon knows, one in `tcp6` in the IPv4-mapped form with an
address that came up later. The packets are of the second, received, or sent from the
address the daemon knows on the same ports, which has no socket of its own but is
entered for that one by the workaround in `addtoconninode()`. Two processes are what it takes to pass a socket on
or to find the wrong one. The timing of the lists of `/proc` is not bounded.

The daemon is explored with its own timeouts (5, 1 and 2 seconds), any traffic,
one crash, and four handlers, of which two at a time can have a timeout left; three
would do for any timeouts (`HandlerIsFree`). `FewRequests` says that requests and armed
timeouts are two at most: a timeout of a dropped handler asks for a proxy as well, and
each proxy gets a handler with a timeout of its own, so nothing in the code says that
they do not become more and more.
`MaxStart`, the time to open the devices, is 3: with 4, the quit timeout can come
at the same second as the first `Acknowledge`.

The application is explored with three pids, of which the user has one in use or more,
three processes in all, two jiffies, and views of two rows. Two starts beyond the
first process are what it takes for a pid to be used again, and for a process too few.
The views are made in the same quarter of a second as the monitor (`StartTime` 0), so
that their first timeout may come before the monitor's or after it. Between two updates
the machine counts two jiffies or three, and a load of one is a sort number of two
(`SCALE`, 1000 in the code): of three jiffies none and one are the same number, of two
they are not. `U64` is 16 and `INT_MAX` 7, so that the load of a process that is gone,
one jiffy less than nothing, wraps to 15 and is beyond `int`; the conversion then gives
the least `int`, as an x86 build does. `no_rows` has the same instance with two
processes at all times, so that only the order of the timeouts is at fault. The tree has three levels, the least with
which one can go down twice and back twice.

### Assumptions of the runs

* `Timely`, the timing of the daemon, for what is said to hold in `accounting`.
* `application` assumes nothing of the order of the timeouts and of the number of
  processes. `RowsOfTheListAreThere` says when the view ends the application: only when
  the list the monitor has read, or not read yet, was too short.
* `CPUViewShowsTheBusiest` leaves out the updates in which a load has wrapped round: then
  the process that is gone may be shown first, or with the least `int` for its sort number
  an idle one before a busy one, until the next update removes it. Loads that differ by
  less than a thousandth of the machine may come in any order.
* `PushedAsCaptured` says of IPv4 frames with options that the addresses are right, and
  nothing of the ports, which are whatever lies 20 bytes behind the IP header's start,
  though the comment on the snapshot length (`na-pcap.c:38-44`) allows for a header of 60.
* A frame captured is as long as its headers say (the parsers never look at `caplen`), and
  has no VLAN tag, no extension header and is no later fragment.
  A raw link carries IPv4 only: the code takes every raw packet for IPv4.

### Fairness

UsageService and NACapture have liveness properties. In UsageService weak fairness
is assumed for what the GLib main loops and the bus do by themselves: a timeout
that is due is dispatched, a message is delivered, a started daemon comes to its
main loop, and time goes by. A second does not go by while one of these is due,
which is what "the process gets to run" means. None is assumed for the user, for
crashes and for the network. In particular there is no fairness on `ChangeTraffic`
and `Close`: the counterexample of `service_idle` is a run in which the traffic
stays and everything that can happen happens. In NACapture weak fairness is assumed
for the daemon's steps together: one of them is always possible, so it says that
`pcap_dispatch()` returns, from a quiet device as well. The code sets a read timeout
of 100 ms for that; libpcap promises it on Linux, not everywhere.

## Proofs

Eight modules hold theorems. They are about the specifications themselves, for every
value of the constants that satisfies the assumptions the modules state about them
(timeouts positive, `Epoch >= PROCESSTIMEOUT`: the clock is long past 1970). A theorem
that needs more names it as an ASSUME of its own. Every property of the passing runs
that is not a liveness property is the statement of one of the theorems.

The accounting (NetworkAnalyzerProofs), for any number of interfaces, addresses,
packets and seconds, and a clock that may be set back:

* `TypeCorrect`: `TypeOK` is inductive as it stands. The lemmas below it say that
  the operators on packet lists give packet lists; `LeastOfNat` is there because
  `na_packet_list_kept` cuts a sequence at the least index of a set.
* `FlowsAreKeptApart` (`OneConnectionPerFlow`): inductive with `TypeOK`. A
  connection's reference packet never changes (`StepKeepsReferences`), so only
  `PushNew` can break it, and there the second search has failed for both the
  packet and its inverse. The lemmas `InvertedTwice`, `MatchMoved` and
  `MatchSymmetric` carry that over to the reference packet, inverted or not.
  The match is not equality of addresses, so this holds for IPv6 as well.
* `NoConnectionLeaks` (`EveryConnectionOwned`), under `Timely`: not inductive by
  itself, as a process with a recent connection could be freed. The invariant is
  `OwnedInv == TypeOK /\ InTime /\ EveryConnectionOwned`, where `InTime` bounds
  how long ago a connection that lives, or a packet that waits, can be from the
  last refresh. The step that matters is `TimedOutIsEmpty`: a process that
  `do_refresh` frees has no connections left, because a refresh within
  `PROCESSTIMEOUT - CONNTIMEOUT` removed them before. Setting the clock back only
  makes what lives look more recent, so it does no harm here. The run `suspend` is
  what happens without `Timely`.
* `IdleConnectionsAreRemoved` (`ConnectionRemovedWhenIdle`): an action property
  from the same invariant.
* `ProcessesAreKeptApart` (`OneProcessPerPid`) and `NobodysStayApart` (`NobodysAreApart`):
  with `TypeOK`.
* `RowsAreBounded` (`NoMoreRowsThanConnections`), without `Timely`: the invariant
  `RowsInv` keeps the half of `EveryConnectionOwned` that holds even where connections
  leak (`OwnersApart`: no connection has two owners, no owner a connection that was
  freed), and that the clock is past `PROCESSTIMEOUT`. A process that a refresh keeps
  then has a connection, so that choosing one for each row is an injection.

Conditions under which the rest of it holds (PacketOrderProofs), each the exact
counterpart of a violation or of a hazard:

* `ReferencesAreOutgoing` (`RefPacketOutgoing`), whatever is captured: the property says
  of a reference packet that it is outgoing or that its flow has no local end, as that of
  a forwarded or multicast packet, for which the comment at `na-connection.c:207` is wrong.
* `CountedInTheirFlow` (`PacketCountedInItsFlow`), when all packets are IPv4:
  matching is then equality (`MatchIsExact4`), and the references come from the
  wire (`WireInvariant`). `shared_ports` is IPv6.
* `ListsStayInOrder` (`PacketListsNewestFirst`), with one device and a clock that
  is never set back. The invariant adds that the packets wait in the order of time
  and that no list holds anything younger than a packet that waits; `ListStep`
  reduces every step to one of three operations on a list, and `AddKeepsOrder` and
  `KeptKeepsOrder` are about those. `two_interfaces` is what a second device does.

The composition with the view (NetworkUsageProofs), for any number of processes,
connections and packets:

* `AnalyzerIsAMeter` (`ReportIsTheWindow`), under `MeterConditions`: `Timely`, one
  device, a clock that is never set back, `PERIOD <= CONNTIMEOUT`, and IPv4 packets of
  finitely many kinds. The accounting implements the meter: initial states map to
  initial states, and each step to one of the meter or a stutter (`MeterStarts`;
  `CaptureIsArrive`, `PushIsCount`, `TickIsSecond`, `RefreshIsPublish`). A push is always
  a `Count` of the packet pushed, never a stutter. The invariant `MeterInv` puts together
  what was proved before: owned connections, ordered lists, packets from the wire, that
  every flow has one connection and so one owner (`FlowInv`; this is where IPv4 is
  needed), and that no entry is newer than the last packet of its connection, so that a
  connection that is freed holds nothing of the last `PERIOD` seconds. The bytes of an
  owner in one second are a sum over flows of a sum over connections of a sum over
  entries, all modulo `U32`, in another order than that of the code, which sums the
  seconds first and the connections then; the lemmas on sums are in FoldProofs.
  `two_interfaces` shows that one device is needed, `shared_ports` that IPv4 is.
* `AnyReportIsInOrder`, for any report whose bytes are 32-bit counters, from
  `SortIdsFit`, which says that a sort number is below that of the header; with the
  values of the code it is below 84 million. `ListStaysInOrder` (`RowsInOrder`) is the
  invariant that goes with it, whatever the timing: the signals on their way and the
  rows come from reports with such counters (`CountersInv`).
* `ListShowsWhatIsReported` (`ListShowsTheReport`), under `Timely` and with finitely
  many pids. The signal sent last, or the list when there is none, says what the last
  report says; a report without rows, for which no signal is sent, comes after one whose
  bytes were zero (`NothingToReport`), because a process that goes has lost its
  connections a report before (`ReportInv`). Without `Timely` a process would go with
  its speed still on the screen.
* `ViewOnlyWatches`: a step of the composition is a step of the accounting or leaves it
  alone, so what is proved of the accounting holds with the view beside it.

The capture (CaptureProofs), for any number of devices and any traffic:

* `CaptureTyped` (`TypeOK`): inductive with `CaptureInv`, which says what the local
  addresses are while the devices are opened one by one, and that the frames handed on
  are a beginning of those captured.
* `PacketsAreTheFrames` (`PushedAsCaptured`), when `ParsersFit`: addresses of the family
  the frame has, IPv4 only on raw links, no frames on a NULL link (which the code takes
  for a raw one), and none with ports on a link type the code does not parse. First the words of a frame are found at the offsets the parsers use
  (`Ip4Words`, `Ip6Words`, `BehindHeader`), so that parsing gives the end points
  (`ParsedRight`). Then `PushedInv` relates the packets of a device to its frames by
  rank: the packet number `Rank(n)` is that of the frame n, which says of a selected
  subsequence, without recursion, that nothing is left out, doubled or moved. IPv4 frames
  with options are in it: their packets have the right addresses.

The tables (ProcTablesProofs), for any processes and sockets, and a system that goes on
between any two steps of the daemon:

* `TablesTypeCorrect`: `TypeOK` of the tables is inductive.
* `FoundHasOwned` (`FoundOwner`): the invariant `OwnerInv` follows an entry back to
  where it came from. Each entry of the first table is the inode of a socket
  that has, or had, that key; each of the second a process that has, or had,
  that inode; and between the reading of a link and of a command line the
  process had the socket. It needs nothing about reuse: what `stale_key` shows is
  that the process found may be one of the past, and the theorem that it is
  never one that had nothing to do with the end points.
* `OpenIsAlwaysFound` (`OpenSocketIsFound`), when no end points are used again and
  `KeysApart`; pids may be used again. `SearchInv` follows a socket that is held all
  through the search: the walk through `/proc` has its holder still before it or has
  entered the inode (`Visited`), and the reading of `/proc/net` its row before it or has
  entered the key (`Entered`), and a search that gives up has done both. `KeysApart` says
  that no two rows have a key in common; the instance of `proc_tables` is like that. It is
  necessary: a row is entered for each local address (`na-conninode.c:138`), so two
  sockets with the same ports and the same peer at two addresses of the computer
  overwrite each other, and TLC finds the search that goes wrong as soon as such rows are
  added.
* `NamesAreRight` (`RightName`), when no pid is used again; end points may be.
  `NamesInv`: every name noted for a pid is that of the process that has it, if any.
  `NamelessHaveExited` (`NamelessAreGone`) follows from the same invariant.

The life of the daemon (ServiceProofs). On a network that is never idle, for any
number of crashes and any timeouts with `TimeEnough`: the next refresh comes before
the timeout of the client, and the daemon can start and refresh once before it quits.
`WatchdogIsCurrent` (`OneWatchdog`) and `DaemonStaysWithClient` (`StaysWithClient`)
follow from one invariant, `SteadyInv`. Its parts: there is one request for a proxy,
or a timeout that watches the daemon, or neither (`OneRequest`); the next signal
comes before the timeout of the client (`SignalBeforeTimeout`); and before the quit
timeout (`AcknowledgedBeforeQuit`). None of the three is inductive without the others.

On any network, and for any timeouts at all: `RequestsAreFew` (`FewRequests`). A request
or an armed timeout is a token, and the invariant `TokenInv` says why there are never
three. Only a signal makes a token, by arming the handler in use; a request left over from
before the daemon came is answered before the next signal (`QuietWithRequests`,
`QuietWhenDue`), and the timeouts of dropped handlers come before that of the one in use
(`OneAfterTheOther`, `BeforeTheNext`). `ServiceTyped` is `TypeOK` with the bound on the
requests, and `HandlerIsFree` that three handlers are as good as any number.

The application (ApplicationProofs): a step of the application is one of the
monitor and one of the storage view, or leaves them alone (`StepIsStepOfEach`).

* `NavigationStaysInTree`, `HeaderFollowsList`: for any tree that has the parents of
  its rows; the two properties are inductive only together, as the hidden back
  button is what keeps the path from leaving the tree.
* `TableHasWhatRuns` (`TableIsTheSystem`), for any number of processes: during an
  update, who has run throughout is in the rest of the list or has a marked row.
* `LoadsAddUp` (`EveryJiffyOnce`), as long as no more than 2^64 jiffies are used:
  with it the difference of two readings of one process never wraps.
* `ApplicationTyped` (`TypeOK`).
* `RowsAreTaken` (`RowsOfTheListAreThere`), for any processes and timing: while the table
  is brought up to date the pids still to be read and the rows that have been are those
  of the monitor's list (`ListInv`), and between two updates the rows are. So a row is
  missing only when the list had fewer pids than the view has rows, as before the first
  update, when it has none.
* `BusiestFirst` (`CPUViewShowsTheBusiest`), when no sort number is beyond the range of
  `int` (`LoadsAreInts`): a load that is more than a thousandth of the machine above
  another has the greater sort number, truncated as it is, and the insertion sort puts
  each row at its place (`InsertedInPlace`), for any order in which the hash table gives
  them. As in the run, updates with a load that wrapped round are left out.

FoldProofs has what the others need about data: sums over finite sets, one by one,
by parts, in another order and modulo a number; folds; least and greatest numbers; the
places of a concatenation. The provers cannot be given a predicate, so that the induction
theorems of the library cannot be used. `LeastSubset` is made of the one that needs none
(a well-founded order has least elements), and `OneByOne` is induction over the members
of a family of sets instead of over a predicate: a family that has the empty set, and
with a set the set and one more element, has every finite one.

With the timeouts of the code, `Timely` says that refreshes are at most 25
seconds apart and that gap and waiting time together are below 50 seconds, and
`TimeEnough` that the devices are opened in less than four seconds.

Model-checked only: liveness, which is out of reach of the prover (`HearsAgain` and
`QuitsWhenUnused` in `service`, `FramesAreDispatched` in `capture`).

## Not modelled

* The battery view and its service (UPower): it shows properties and keeps no state.
* Drawing, texts, icons and the points of the graph, which are one append and one
  removal in the same function; the totals `total_sent` and `total_received`, the uid
  and `find_process()`, which nothing reads or calls.
* The figures of the whole machine and the memory of a process in the monitor, which
  are read, divided and shown and steer nothing; the memory view, which has the code of
  the CPU view with another figure.
* The properties of the daemon's GObject: `refresh-delay` is never set after the
  construction. A name lost on the bus: the daemon does not allow a replacement, and when
  the bus itself goes GIO ends the process.
* NetworkManager, except that it names the devices in some order; a packet that is
  captured both on a bridge and on its port.
* NetworkAnalyzer and NAProcTables are separate: the first leaves open what the second
  works out, so everything proved of the first holds with the second in its place.

Known from the code, without a run of their own: the row of a pid used again keeps its
old name (`ReusePid`); two sockets that differ in the local address only overwrite each
other's key; the ports of an IPv4 packet with options are wrong; a load that wrapped
round spoils the order of the CPU view for a second. Each is an entry of "hazards" in
`PROJECT.json`, with the reason why no property covers it.

What is left to do: NetworkAnalyzer and NAProcTables are composed in words only; a module
that runs the search of the second inside `push_packet()` of the first, with a theorem
that it implements NetworkAnalyzer, would replace the words. Of the liveness properties
the safety part could be proved: that after each second the daemon is at most so many
steps from the next signal.
