------------------------- MODULE NetworkUsageProofs -------------------------
(***************************************************************************)
(* The accounting implements the traffic meter, step by step, and the list *)
(* of the network view is in order and shows what was reported last.       *)
(***************************************************************************)
EXTENDS NetworkUsage, PacketOrderProofs, FoldProofs

-----------------------------------------------------------------------------
(* The bytes of one second.                                                *)

\* The sum of a function over its domain, or of the function it is restricted from.
LEMMA SumRestricted ==
  ASSUME NEW D, IsFiniteSet(D), NEW f, \A x \in D : f[x] \in Int
  PROVE  SumFunction([x \in D |-> f[x]]) = SumFunctionOnSet(f, D)
<1> DEFINE h == [x \in D |-> f[x]]
<1>1. DOMAIN h = D /\ \A x \in D : h[x] = f[x]
  OBVIOUS
<1>2. SumFunction(h) = SumFunctionOnSet(h, D)
  BY <1>1 DEF SumFunction
<1> HIDE DEF h
<1>3. SumFunctionOnSet(h, D) = SumFunctionOnSet(f, D)
  BY <1>1, SumSame
<1> QED
  BY <1>2, <1>3 DEF h

\* The entries of a list that are of the second t, and their bytes.
EntriesOf(list, t) == {i \in DOMAIN list : list[i].time = t}

BytesOf(list, t) == SumFunction([i \in EntriesOf(list, t) |-> list[i].len])

LEMMA BytesAgedIs ==
  ASSUME NEW list, NEW age
  PROVE  BytesAged(list, age) = BytesOf(list, now - age)
  BY DEF BytesAged, BytesOf, EntriesOf

LEMMA EntryTypes ==
  ASSUME NEW list \in PacketList
  PROVE  /\ DOMAIN list = 1 .. Len(list) /\ Len(list) \in Nat /\ IsFiniteSet(DOMAIN list)
         /\ \A i \in DOMAIN list : list[i].time \in Nat /\ list[i].len \in Nat
<1>1. list \in Seq(ListEntry)
  BY DEF PacketList
<1>2. DOMAIN list = 1 .. Len(list) /\ Len(list) \in Nat /\ \A i \in DOMAIN list : list[i] \in ListEntry
  BY <1>1
<1>3. IsFiniteSet(1 .. Len(list))
  BY <1>2, FS_Interval
<1> QED
  BY <1>2, <1>3 DEF ListEntry

LEMMA NoEntry ==
  ASSUME NEW list, NEW t, \A i \in DOMAIN list : list[i].time # t
  PROVE  BytesOf(list, t) = 0
<1> DEFINE h == [i \in EntriesOf(list, t) |-> list[i].len]
<1>1. DOMAIN h = {}
  BY DEF EntriesOf
<1> HIDE DEF h
<1>2. SumFunctionOnSet(h, {}) = 0
  BY SumBasics, FS_EmptySet
<1> QED
  BY <1>1, <1>2 DEF BytesOf, SumFunction, h

LEMMA OneEntry ==
  ASSUME NEW list \in PacketList, NewestFirst(list), NEW i \in DOMAIN list
  PROVE  BytesOf(list, list[i].time) = list[i].len
<1> DEFINE t == list[i].time
           h == [j \in EntriesOf(list, t) |-> list[j].len]
<1>1. EntriesOf(list, t) = {i}
  <2> SUFFICES ASSUME NEW j \in DOMAIN list, list[j].time = list[i].time PROVE j = i
    BY DEF EntriesOf
  <2>1. ~ (i < j) /\ ~ (j < i)
    BY EntryTypes DEF NewestFirst
  <2> QED
    BY <2>1, EntryTypes
<1>2. DOMAIN h = {i} /\ h[i] = list[i].len /\ list[i].len \in Int
  BY <1>1, EntryTypes
<1>3. SumFunction(h) = SumFunctionOnSet(h, {i})
  BY <1>2 DEF SumFunction
<1> HIDE DEF h
<1>4. SumFunctionOnSet(h, {i}) = h[i]
  <2>1. IsFiniteSet({i}) /\ {i} \ {i} = {}
    BY FS_Singleton
  <2>2. SumFunctionOnSet(h, {i}) = h[i] + SumFunctionOnSet(h, {i} \ {i})
    BY <1>2, <2>1, SumBasics
  <2>3. SumFunctionOnSet(h, {}) = 0
    BY <1>2, <2>1, SumBasics
  <2>4. SumFunctionOnSet(h, {i} \ {i}) = 0
    BY <2>1, <2>3, Zenon
  <2>5. h[i] \in Int
    BY <1>2
  <2> QED
    BY <2>2, <2>4, <2>5
<1> QED
  BY <1>2, <1>3, <1>4 DEF BytesOf, h

LEMMA BytesType ==
  ASSUME NEW list \in PacketList, NewestFirst(list), NEW t
  PROVE  BytesOf(list, t) \in Nat
<1>1. CASE \E i \in DOMAIN list : list[i].time = t
  BY <1>1, OneEntry, EntryTypes
<1>2. CASE ~ \E i \in DOMAIN list : list[i].time = t
  BY <1>2, NoEntry
<1> QED
  BY <1>1, <1>2

\* A packet adds its length to the bytes of its second, and to no other's
\* (na_packet_list_add_packet).
LEMMA AddBytes ==
  ASSUME NEW list \in PacketList, NEW p \in Packet,
         NewestFirst(list), NotAfter(list, p.time), NEW t \in Int
  PROVE  LET new == na_packet_list_add_packet(list, p)
         IN  /\ t # p.time => BytesOf(new, t) = BytesOf(list, t)
             /\ t = p.time => BytesOf(new, t) % U32 = (BytesOf(list, t) + p.len) % U32
<1> DEFINE new == na_packet_list_add_packet(list, p)
<1>0. /\ new \in PacketList /\ NewestFirst(new) /\ p.time \in Nat /\ p.len \in Nat
      /\ list \in Seq(ListEntry) /\ U32 \in Nat \ {0}
  BY AddPacketType, AddKeepsOrder, ConnectionAssumption DEF Packet, PacketList
<1>1. CASE list # <<>> /\ Head(list).time = p.time
  <2>1. /\ DOMAIN new = DOMAIN list /\ 1 \in DOMAIN list /\ list[1].time = p.time
        /\ new[1].len = (list[1].len + p.len) % U32
        /\ \A i \in DOMAIN list : new[i].time = list[i].time
        /\ \A i \in DOMAIN list : i # 1 => new[i].len = list[i].len
    BY <1>0, <1>1 DEF na_packet_list_add_packet, ListEntry
  <2>2. CASE t = p.time
    <3>1. BytesOf(list, t) = list[1].len /\ BytesOf(new, t) = new[1].len
      BY <1>0, <2>1, <2>2, OneEntry
    <3>2. list[1].len \in Nat
      BY <2>1, EntryTypes
    <3> DEFINE n == list[1].len + p.len
    <3>3. n \in Int
      BY <1>0, <3>2
    <3> HIDE DEF new, n
    <3>4. (n % U32) % U32 = n % U32
      BY <1>0, <3>3, ModTwice
    <3> QED
      BY <2>1, <2>2, <3>1, <3>4 DEF new, n
  <2>3. ASSUME t # p.time PROVE BytesOf(new, t) = BytesOf(list, t)
    <3>1. CASE \E i \in DOMAIN list : list[i].time = t
      <4>1. PICK i \in DOMAIN list : list[i].time = t
        BY <3>1
      <4>2. new[i].time = t /\ i \in DOMAIN new /\ new[i].len = list[i].len
        BY <2>1, <2>3, <4>1
      <4>3. BytesOf(list, t) = list[i].len
        BY <4>1, OneEntry
      <4> HIDE DEF new
      <4>4. BytesOf(new, t) = new[i].len
        BY <1>0, <4>2, OneEntry
      <4> QED
        BY <4>2, <4>3, <4>4
    <3>2. CASE ~ \E i \in DOMAIN list : list[i].time = t
      BY <2>1, <3>2, NoEntry
    <3> QED
      BY <3>1, <3>2
  <2> QED
    BY <2>2, <2>3
<1>2. CASE ~ (list # <<>> /\ Head(list).time = p.time)
  <2> DEFINE e == [time |-> p.time, len |-> p.len]
  <2>0. e \in ListEntry
    BY <1>0 DEF ListEntry
  <2>1. new = <<e>> \o list
    BY <1>2 DEF na_packet_list_add_packet
  <2>2. /\ DOMAIN new = 1 .. Len(list) + 1 /\ Len(list) \in Nat
        /\ new[1].time = p.time /\ new[1].len = p.len
        /\ \A i \in DOMAIN list : i + 1 \in DOMAIN new /\ new[i + 1] = list[i]
        /\ \A i \in DOMAIN new : i # 1 => i - 1 \in DOMAIN list /\ new[i] = list[i - 1]
    BY <1>0, <2>0, <2>1
  <2>3. \A i \in DOMAIN list : list[i].time # p.time
    <3> SUFFICES ASSUME NEW i \in DOMAIN list PROVE list[i].time # p.time
      OBVIOUS
    <3>1. list # <<>> /\ 1 \in DOMAIN list /\ i \in 1 .. Len(list)
      BY <1>0
    <3>2. list[1].time < p.time /\ list[1].time \in Nat /\ list[i].time \in Nat
      BY <1>0, <1>2, <3>1, EntryTypes DEF NotAfter
    <3>3. i = 1 \/ list[1].time > list[i].time
      BY <3>1 DEF NewestFirst
    <3> QED
      BY <1>0, <3>2, <3>3
  <2>4. CASE t = p.time
    <3>1. BytesOf(list, t) = 0
      BY <2>3, <2>4, NoEntry
    <3>2. 1 \in DOMAIN new
      BY <2>2
    <3> HIDE DEF new
    <3>3. BytesOf(new, t) = p.len
      BY <1>0, <2>2, <2>4, <3>2, OneEntry
    <3> QED
      BY <1>0, <2>4, <3>1, <3>3 DEF new
  <2>5. ASSUME t # p.time PROVE BytesOf(new, t) = BytesOf(list, t)
    <3>1. CASE \E i \in DOMAIN list : list[i].time = t
      <4>1. PICK i \in DOMAIN list : list[i].time = t
        BY <3>1
      <4>2. i + 1 \in DOMAIN new /\ new[i + 1] = list[i]
        BY <2>2
      <4>3. BytesOf(list, t) = list[i].len
        BY <4>1, OneEntry
      <4> HIDE DEF new
      <4>4. BytesOf(new, t) = new[i + 1].len
        BY <1>0, <4>1, <4>2, OneEntry
      <4> QED
        BY <4>2, <4>3, <4>4
    <3>2. CASE ~ \E i \in DOMAIN list : list[i].time = t
      <4>1. \A i \in DOMAIN new : new[i].time # t
        BY <2>2, <2>5, <3>2
      <4> QED
        BY <3>2, <4>1, NoEntry
    <3> QED
      BY <3>1, <3>2
  <2> QED
    BY <2>4, <2>5
<1> QED
  BY <1>1, <1>2

\* What a refresh keeps is exactly what is less than PERIOD seconds old.
LEMMA KeptIsRecent ==
  ASSUME NEW list \in PacketList, NewestFirst(list), NEW t \in Int, NEW i \in DOMAIN list
  PROVE  i \in DOMAIN na_packet_list_kept(list, t) <=> list[i].time > t - PERIOD
<1> DEFINE E == Expired(list, t)
<1>0. PERIOD \in Nat /\ list[i].time \in Nat /\ i \in 1 .. Len(list) /\ Len(list) \in Nat
  BY ConnectionAssumption, EntryTypes
<1>1. CASE E = {}
  BY <1>0, <1>1 DEF na_packet_list_kept, Expired
<1>2. CASE E # {}
  <2>1. E \in SUBSET Nat /\ E \subseteq 1 .. Len(list)
    BY EntryTypes DEF Expired
  <2>2. Min(E) \in E /\ \A j \in E : Min(E) <= j
    BY <1>2, <2>1, LeastOfNat
  <2>3. na_packet_list_kept(list, t) = SubSeq(list, 1, Min(E) - 1)
    BY <1>2 DEF na_packet_list_kept
  <2>4. DOMAIN na_packet_list_kept(list, t) = 1 .. Min(E) - 1
    BY <2>1, <2>2, <2>3 DEF PacketList
  <2>5. CASE i < Min(E)
    <3>1. i \notin E
      BY <1>0, <2>1, <2>2, <2>5
    <3> QED
      BY <1>0, <2>1, <2>2, <2>4, <2>5, <3>1 DEF Expired
  <2>6. CASE ~ (i < Min(E))
    <3> DEFINE m == Min(E)
    <3>1. m \in DOMAIN list /\ list[m].time <= t - PERIOD /\ list[m].time \in Nat
      BY <2>2, EntryTypes DEF Expired
    <3>2. m \in Nat /\ (m = i \/ m < i)
      BY <1>0, <2>1, <2>2, <2>6
    <3>3. list[i].time <= list[m].time
      BY <1>0, <3>1, <3>2 DEF NewestFirst
    <3>4. ~ (list[i].time > t - PERIOD)
      BY <1>0, <3>1, <3>3
    <3>5. i \notin DOMAIN na_packet_list_kept(list, t)
      BY <1>0, <2>1, <2>2, <2>4, <2>6
    <3> QED
      BY <3>4, <3>5
  <2> QED
    BY <2>5, <2>6
<1> QED
  BY <1>1, <1>2

LEMMA KeptBytes ==
  ASSUME NEW list \in PacketList, NewestFirst(list), NEW t \in Int,
         NEW s \in Int, s > t - PERIOD
  PROVE  BytesOf(na_packet_list_kept(list, t), s) = BytesOf(list, s)
<1> DEFINE kept == na_packet_list_kept(list, t)
<1>1. /\ DOMAIN kept \subseteq DOMAIN list
      /\ \A i \in DOMAIN kept : kept[i] = list[i]
  BY KeptIsBeginning
<1>2. \A i \in DOMAIN list : list[i].time = s => i \in DOMAIN kept
  BY KeptIsRecent
<1> HIDE DEF kept
<1>3. EntriesOf(kept, s) = EntriesOf(list, s)
  BY <1>1, <1>2 DEF EntriesOf
<1>4. [i \in EntriesOf(kept, s) |-> kept[i].len] = [i \in EntriesOf(list, s) |-> list[i].len]
  BY <1>1, <1>3 DEF EntriesOf
<1> QED
  BY <1>4 DEF BytesOf, kept

\* A refresh sums up the bytes of each of the last PERIOD seconds
\* (na_packet_list_sum_packets).
LEMMA SumOfSeconds ==
  ASSUME NEW list \in PacketList, NewestFirst(list), NEW t \in Int, NotAfter(list, t),
         NEW f, \A a \in 0 .. PERIOD - 1 : f[a] = BytesOf(list, t - a)
  PROVE  /\ na_packet_list_sum_packets(list, t) \in 0 .. U32 - 1
         /\ na_packet_list_sum_packets(list, t)
              = SumFunctionOnSet(f, 0 .. PERIOD - 1) % U32
<1> DEFINE kept == na_packet_list_kept(list, t)
           K == 0 .. PERIOD - 1
           part == [a \in K |-> EntriesOf(kept, t - a)]
           len == [i \in DOMAIN kept |-> kept[i].len]
<1>0. PERIOD \in Nat /\ U32 \in Nat \ {0} /\ IsFiniteSet(K)
  BY ConnectionAssumption, FS_Interval
<1>1. kept \in PacketList /\ NewestFirst(kept)
  BY KeptType, KeptKeepsOrder
<1>2. /\ DOMAIN kept \subseteq DOMAIN list
      /\ \A i \in DOMAIN kept : kept[i] = list[i]
  BY KeptIsBeginning
<1>3. /\ IsFiniteSet(DOMAIN kept)
      /\ \A i \in DOMAIN kept : kept[i].time \in Nat /\ kept[i].len \in Nat
  BY <1>1, EntryTypes
<1>4. ASSUME NEW i \in DOMAIN kept PROVE t - kept[i].time \in K
  <2>1. i \in DOMAIN list /\ kept[i] = list[i] /\ list[i].time \in Nat
    BY <1>2, <1>3
  <2>2. list[i].time > t - PERIOD
    BY <2>1, KeptIsRecent
  <2>3. list[i].time <= t
    BY <2>1 DEF NotAfter
  <2> QED
    BY <1>0, <2>1, <2>2, <2>3
<1> HIDE DEF kept
<1>5. UNION {part[a] : a \in K} = DOMAIN kept
  <2>1. \A i \in DOMAIN kept : i \in part[t - kept[i].time]
    BY <1>3, <1>4 DEF EntriesOf
  <2>2. \A a \in K : part[a] \subseteq DOMAIN kept
    BY DEF EntriesOf
  <2> HIDE DEF part
  <2> QED
    BY <1>4, <2>1, <2>2
<1>6. /\ \A a \in K : IsFiniteSet(part[a])
      /\ \A a, b \in K : part[a] \cap part[b] # {} => a = b
  <2>1. ASSUME NEW a \in K PROVE IsFiniteSet(part[a])
    BY <1>3, FS_Subset DEF EntriesOf
  <2>2. ASSUME NEW a \in K, NEW b \in K, part[a] \cap part[b] # {} PROVE a = b
    <3>1. PICK i \in DOMAIN kept : kept[i].time = t - a /\ kept[i].time = t - b
      BY <2>2 DEF EntriesOf
    <3> QED
      BY <1>0, <3>1
  <2> HIDE DEF part
  <2> QED
    BY <2>1, <2>2
<1>7. ASSUME NEW a \in K PROVE f[a] = SumFunctionOnSet(len, part[a])
  <2>1. BytesOf(kept, t - a) = BytesOf(list, t - a)
    <3>1. t - a \in Int /\ t - a > t - PERIOD
      BY <1>0
    <3> QED
      BY <3>1, KeptBytes DEF kept
  <2> DEFINE D == EntriesOf(kept, t - a)
  <2>2. IsFiniteSet(D) /\ \A x \in D : len[x] \in Int /\ len[x] = kept[x].len
    BY <1>3, <1>6 DEF EntriesOf
  <2>3. [x \in D |-> kept[x].len] = [x \in D |-> len[x]]
    <3> HIDE DEF D, len
    <3> QED
      BY <2>2
  <2>4. SumFunction([x \in D |-> len[x]]) = SumFunctionOnSet(len, D)
    <3> HIDE DEF D, len
    <3> QED
      BY <2>2, SumRestricted
  <2>5. BytesOf(kept, t - a) = SumFunctionOnSet(len, D)
    BY <2>3, <2>4 DEF BytesOf
  <2> QED
    BY <2>1, <2>5
<1>8. SumFunctionOnSet(f, K) = SumFunctionOnSet(len, DOMAIN kept)
  <2>1. \A a \in K : \A x \in part[a] : len[x] \in Int
    BY <1>3 DEF EntriesOf
  <2> HIDE DEF part, K, len
  <2>2. SumFunctionOnSet(f, K) = SumFunctionOnSet(len, UNION {part[a] : a \in K})
    BY <1>0, <1>6, <1>7, <2>1, SumParts
  <2> QED
    BY <1>5, <2>2
<1>9. SumFunctionOnSet(len, DOMAIN kept) \in Int
  <2>1. \A i \in DOMAIN kept : len[i] \in Int
    BY <1>3
  <2> HIDE DEF len
  <2> QED
    BY <1>3, <2>1, SumBasics
<1>10. na_packet_list_sum_packets(list, t) = SumFunctionOnSet(len, DOMAIN kept) % U32
  BY DEF na_packet_list_sum_packets, SumFunction, kept
<1> HIDE DEF len
<1> QED
  BY <1>0, <1>8, <1>9, <1>10, DivMod

-----------------------------------------------------------------------------
(* What the steps do to connections and to their owners.                   *)

\* No entry of a connection is newer than its last packet.
NoNewerThanLast ==
  \A c \in DOMAIN connections, d \in Direction :
    NotAfter(connections[c].packets[d], connections[c].last)

FinitelyMany == IsFiniteSet(DOMAIN connections) /\ IsFiniteSet(DOMAIN processes)

\* Every connection is of a flow on the wire, and the only one of its flow.
FlowInv ==
  /\ OneConnectionPerFlow /\ ReferencesAre4
  /\ \A c \in DOMAIN connections : FlowOf(connections[c].ref) \in Flows

MeterInv ==
  OwnedInv /\ OrderInv /\ BuffersHoldWire /\ NoNewerThanLast /\ FinitelyMany /\ FlowInv

\* The bytes of the second t in a list of the connection c, which may not be yet.
ListOf(c, d) == IF c \in DOMAIN connections THEN connections[c].packets[d] ELSE <<>>

LEMMA ListOfType ==
  ASSUME MeterInv, NEW c, NEW d \in Direction
  PROVE  /\ ListOf(c, d) \in PacketList /\ NewestFirst(ListOf(c, d))
         /\ NotAfter(ListOf(c, d), now)
         /\ \A k \in DOMAIN buffer[1] : NotAfter(ListOf(c, d), buffer[1][k].time)
<1>0. 1 \in Iface
  BY AnalyzerAssumption DEF Iface
<1>1. CASE c \in DOMAIN connections
  <2>1. connections[c] \in Connection
    BY <1>1 DEF MeterInv, OwnedInv, TypeOK
  <2>2. connections[c].packets[d] \in PacketList
    BY <2>1 DEF Connection
  <2> QED
    BY <1>0, <1>1, <2>2
       DEF ListOf, MeterInv, OrderInv, ListsBehindBuffer, PacketListsNewestFirst, NewestFirst
<1>2. CASE c \notin DOMAIN connections
  BY <1>2 DEF ListOf, PacketList, NewestFirst, NotAfter
<1> QED
  BY <1>1, <1>2

LEMMA InConnectionsOf ==
  ASSUME NEW o, NEW c
  PROVE  /\ c \in ConnectionsOf(o)
              <=> \E p \in DOMAIN processes : processes[p].pid = o /\ c \in processes[p].conns
         /\ c \in ConnectionsOf(o)'
              <=> \E p \in DOMAIN processes' : processes'[p].pid = o /\ c \in processes'[p].conns
  BY DEF ConnectionsOf

\* push_packet() adds the packet to one list of one connection, which belongs to one
\* owner, old connection or new.
PushedTo(c, o) ==
  /\ c \in DOMAIN connections'
  /\ DOMAIN connections' = DOMAIN connections \cup {c}
  /\ connections'[c].last = packet.time
  /\ \A d \in Direction :
       connections'[c].packets[d] = IF d = DirectionOf(packet)
                                    THEN na_packet_list_add_packet(ListOf(c, d), packet)
                                    ELSE ListOf(c, d)
  /\ \A x \in DOMAIN connections : x # c => connections'[x] = connections[x]
  /\ \E p \in ProcId : DOMAIN processes' = DOMAIN processes \cup {p}
  /\ ConnectionsOf(o)' = ConnectionsOf(o) \cup {c}
  /\ c \in DOMAIN connections <=> c \in ConnectionsOf(o)
  /\ \A q \in Owner \ {o} : c \notin ConnectionsOf(q) /\ ConnectionsOf(q)' = ConnectionsOf(q)
  /\ c \in DOMAIN connections => connections'[c].ref = connections[c].ref
  /\ FlowOf(connections'[c].ref) = FlowOf(packet.header)
  /\ \A x \in DOMAIN connections : x # c => FlowOf(connections[x].ref) # FlowOf(packet.header)

\* Two IPv4 packets are of the same flow only if one of the searches matches them.
LEMMA SameFlowIs ==
  ASSUME NEW g \in HeaderOf(Address4), NEW h \in HeaderOf(Address4)
  PROVE  FlowOf(g) = FlowOf(h) <=> g = h \/ na_packet_new_inverted(g) = h
<1>1. /\ na_packet_new_inverted(na_packet_new_inverted(g)) = g
      /\ na_packet_new_inverted(na_packet_new_inverted(h)) = h
  BY Inverted4
<1>2. ASSUME FlowOf(g) = FlowOf(h) PROVE g = h \/ na_packet_new_inverted(g) = h
  <2>1. h \in {g, na_packet_new_inverted(g)}
    BY <1>2 DEF FlowOf
  <2> QED
    BY <2>1
<1>3. ASSUME na_packet_new_inverted(g) = h PROVE FlowOf(g) = FlowOf(h)
  <2>1. FlowOf(g) = {g, h} /\ FlowOf(h) = {h, g}
    BY <1>1, <1>3 DEF FlowOf
  <2> QED
    BY <2>1
<1> QED
  BY <1>2, <1>3

\* push_packet() finds the connection of the flow of its packet.
LEMMA FoundIsOfFlow ==
  ASSUME TypeOK, ReferencesAre4, packet.header \in HeaderOf(Address4),
         NEW c \in DOMAIN connections
  PROVE  /\ c \in Found => FlowOf(connections[c].ref) = FlowOf(packet.header)
         /\ Found = {} => FlowOf(connections[c].ref) # FlowOf(packet.header)
<1> DEFINE h == packet.header
           r == connections[c].ref
<1>1. r \in HeaderOf(Address4) /\ na_packet_new_inverted(h) \in HeaderOf(Address4)
  BY Inverted4 DEF ReferencesAre4
<1>2. ASSUME c \in Found PROVE h = r \/ na_packet_new_inverted(h) = r
  <2>1. na_packet_match(h, r) \/ na_packet_match(na_packet_new_inverted(h), r)
    BY <1>2, FoundConnections DEF Found
  <2> HIDE DEF h, r
  <2> QED
    BY <1>1, <2>1, MatchIsExact4 DEF h
<1>3. ASSUME h = r \/ na_packet_new_inverted(h) = r PROVE Found # {}
  <2>1. na_packet_match(h, r) \/ na_packet_match(na_packet_new_inverted(h), r)
    BY <1>3 DEF na_packet_match
  <2> HIDE DEF h, r
  <2> QED
    BY <2>1, FoundConnections DEF Found, h, r
<1>4. FlowOf(h) = FlowOf(r) <=> h = r \/ na_packet_new_inverted(h) = r
  BY <1>1, SameFlowIs
<1> QED
  BY <1>2, <1>3, <1>4

LEMMA HeaderOfPacket ==
  ASSUME TypeOK, BuffersHoldWire, at \in Iface, buffer[at] # <<>>
  PROVE  /\ packet \in Packet /\ packet.header \in Wire
         /\ Wire \subseteq HeaderOf(Address4) => packet.header \in HeaderOf(Address4)
  BY HeadOfBuffer DEF BuffersHoldWire

LEMMA FlowsApart ==
  ASSUME FlowInv, NEW c \in DOMAIN connections, NEW x \in DOMAIN connections,
         FlowOf(connections[c].ref) = FlowOf(connections[x].ref)
  PROVE  c = x
<1> DEFINE g == connections[c].ref
           h == connections[x].ref
<1>1. g \in HeaderOf(Address4) /\ h \in HeaderOf(Address4)
  BY DEF FlowInv, ReferencesAre4
<1>2. g = h \/ na_packet_new_inverted(g) = h
  BY <1>1, SameFlowIs
<1>3. g = h \/ g = na_packet_new_inverted(h)
  BY <1>1, <1>2, Inverted4
<1>4. na_packet_match(g, h) \/ na_packet_match(g, na_packet_new_inverted(h))
  BY <1>3 DEF na_packet_match
<1> QED
  BY <1>4 DEF FlowInv, OneConnectionPerFlow

LEMMA KnownIsPushedTo ==
  ASSUME OwnedInv, FlowInv, BuffersHoldWire, Wire \subseteq HeaderOf(Address4), PushKnown
  PROVE  \E c \in ConnId, o \in Owner : PushedTo(c, o)
<1>1. packet \in Packet
  BY HeadOfBuffer DEF PushKnown, OwnedInv
<1>2. PICK c \in Found :
        connections' = [connections EXCEPT ![c] = na_connection_add_packet(@, packet)]
  BY DEF PushKnown
<1>3. c \in DOMAIN connections /\ connections[c] \in Connection /\ c \in ConnId
  BY FoundConnections DEF Found, OwnedInv, TypeOK
<1>4. /\ DOMAIN connections' = DOMAIN connections
      /\ connections'[c] = na_connection_add_packet(connections[c], packet)
      /\ \A x \in DOMAIN connections : x # c => connections'[x] = connections[x]
  BY <1>2, <1>3
<1>5. /\ connections'[c].last = packet.time
      /\ \A d \in Direction :
           connections'[c].packets[d] = IF d = DirectionOf(packet)
                                        THEN na_packet_list_add_packet(ListOf(c, d), packet)
                                        ELSE ListOf(c, d)
  BY <1>3, <1>4 DEF na_connection_add_packet, Connection, ListOf
<1>6. PICK p \in DOMAIN processes : c \in processes[p].conns
  BY <1>3 DEF OwnedInv, EveryConnectionOwned
<1> DEFINE o == processes[p].pid
<1>7. /\ o \in Owner /\ c \in ConnectionsOf(o)
      /\ \A q \in Owner \ {o} : c \notin ConnectionsOf(q)
  <2>1. o \in Owner
    BY <1>6 DEF OwnedInv, TypeOK, Process
  <2>2. \A q \in DOMAIN processes : c \in processes[q].conns => q = p
    BY <1>6 DEF OwnedInv, EveryConnectionOwned
  <2> QED
    BY <1>6, <2>1, <2>2 DEF ConnectionsOf
<1>8. processes' = processes /\ \A q : ConnectionsOf(q)' = ConnectionsOf(q)
  BY DEF PushKnown, ConnectionsOf
<1>9. DOMAIN processes' = DOMAIN processes \cup {p} /\ p \in ProcId
  BY <1>6, <1>8 DEF OwnedInv, TypeOK
<1>10. connections'[c].ref = connections[c].ref
  BY <1>1, <1>3, <1>4, AddToConnection
<1>11. FlowOf(connections[c].ref) = FlowOf(packet.header)
  BY <1>2, <1>3, HeaderOfPacket, FoundIsOfFlow DEF PushKnown, FlowInv, OwnedInv
<1>12. \A x \in DOMAIN connections : x # c => FlowOf(connections[x].ref) # FlowOf(packet.header)
  BY <1>3, <1>11, FlowsApart
<1>13. PushedTo(c, o)
  BY <1>3, <1>4, <1>5, <1>7, <1>8, <1>9, <1>10, <1>11, <1>12 DEF PushedTo
<1> QED
  BY <1>3, <1>7, <1>13

LEMMA NewIsPushedTo ==
  ASSUME OwnedInv, FlowInv, BuffersHoldWire, Wire \subseteq HeaderOf(Address4), PushNew
  PROVE  \E c \in ConnId, o \in Owner : PushedTo(c, o)
<1>1. PICK c \in ConnId \ DOMAIN connections, o \in Owner :
        /\ connections' = With(connections, c, na_connection_new(packet))
        /\ \E p \in na_process_find_from_connection(o) :
             processes' = AddToProcess(p, o, c)
  BY DEF PushNew
<1>2. PICK p \in na_process_find_from_connection(o) :
        processes' = AddToProcess(p, o, c)
  BY <1>1
<1>3. /\ DOMAIN connections' = DOMAIN connections \cup {c}
      /\ connections'[c] = na_connection_new(packet)
      /\ \A x \in DOMAIN connections : connections'[x] = connections[x]
  BY <1>1 DEF With
<1>4. /\ connections'[c].last = packet.time
      /\ \A d \in Direction :
           connections'[c].packets[d] = IF d = DirectionOf(packet)
                                        THEN na_packet_list_add_packet(ListOf(c, d), packet)
                                        ELSE ListOf(c, d)
  BY <1>1, <1>3 DEF na_connection_new, ListOf
<1>5. /\ p \in ProcId /\ DOMAIN processes' = DOMAIN processes \cup {p}
      /\ processes'[p].pid = o
      /\ processes'[p].conns =
           (IF p \in DOMAIN processes THEN processes[p].conns ELSE {}) \cup {c}
      /\ p \in DOMAIN processes => processes[p].pid = o
      /\ \A q \in DOMAIN processes : q # p => processes'[q] = processes[q]
  <2>1. p \in DOMAIN processes => processes[p].pid = o
    BY <1>2 DEF na_process_find_from_connection
  <2>2. p \in ProcId
    BY <1>2 DEF na_process_find_from_connection, OwnedInv, TypeOK
  <2>3. CASE p \in DOMAIN processes
    BY <1>2, <2>1, <2>2, <2>3 DEF AddToProcess, OwnedInv, TypeOK, Process
  <2>4. CASE p \notin DOMAIN processes
    BY <1>2, <2>2, <2>4 DEF AddToProcess, With
  <2> QED
    BY <2>3, <2>4
<1>6. \A q : c \notin ConnectionsOf(q)
  BY <1>1 DEF ConnectionsOf, OwnedInv, EveryConnectionOwned
<1>7. ConnectionsOf(o)' = ConnectionsOf(o) \cup {c}
  <2>1. \A x : x \in ConnectionsOf(o)' <=> x \in ConnectionsOf(o) \/ x = c
    BY <1>5, InConnectionsOf
  <2> QED
    BY <2>1
<1>8. ASSUME NEW q \in Owner \ {o} PROVE ConnectionsOf(q)' = ConnectionsOf(q)
  <2>1. \A x : x \in ConnectionsOf(q)' <=> x \in ConnectionsOf(q)
    BY <1>5, InConnectionsOf
  <2> QED
    BY <2>1
<1>9. FlowOf(connections'[c].ref) = FlowOf(packet.header)
  <2> DEFINE h == packet.header
  <2>1. connections'[c].ref = h \/ connections'[c].ref = na_packet_new_inverted(h)
    BY <1>3 DEF na_connection_new
  <2>2. h \in HeaderOf(Address4)
    BY HeaderOfPacket DEF PushNew, OwnedInv
  <2>3. FlowOf(na_packet_new_inverted(h)) = FlowOf(h)
    BY <2>2, SameFlowIs, Inverted4
  <2> QED
    BY <2>1, <2>3
<1>10. \A x \in DOMAIN connections : FlowOf(connections[x].ref) # FlowOf(packet.header)
  <2>1. Found = {}
    BY DEF PushNew
  <2> QED
    BY <2>1, HeaderOfPacket, FoundIsOfFlow DEF PushNew, FlowInv, OwnedInv
<1>11. PushedTo(c, o)
  BY <1>1, <1>3, <1>4, <1>5, <1>6, <1>7, <1>8, <1>9, <1>10 DEF PushedTo
<1> QED
  BY <1>1, <1>11

\* For the accounts that is: the connection is in one of them, that of its owner and of
\* the flow of the packet, and no other owner has an account of this flow that is not empty.
PushedInto(c, a) ==
  /\ ConnectionsIn(a)' = ConnectionsIn(a) \cup {c}
  /\ c \in DOMAIN connections <=> c \in ConnectionsIn(a)
  /\ \A b \in Account \ {a} : c \notin ConnectionsIn(b) /\ ConnectionsIn(b)' = ConnectionsIn(b)
  /\ \A q \in Owner \ {a[1]} : ConnectionsIn(<<q, a[2]>>) = {}

LEMMA ConnectionsExist ==
  ASSUME OwnedInv, NEW o
  PROVE  ConnectionsOf(o) \subseteq DOMAIN connections
  BY DEF ConnectionsOf, OwnedInv, EveryConnectionOwned

LEMMA PushedToIsPushedInto ==
  ASSUME OwnedInv, NEW c, NEW o \in Owner, PushedTo(c, o),
         NEW f, f = FlowOf(packet.header)
  PROVE  PushedInto(c, <<o, f>>)
<1> DEFINE flow(x) == FlowOf(connections[x].ref)
           later(x) == FlowOf(connections'[x].ref)
<1>1. \A q, g : /\ ConnectionsIn(<<q, g>>) = {x \in ConnectionsOf(q) : flow(x) = g}
               /\ ConnectionsIn(<<q, g>>)' = {x \in ConnectionsOf(q)' : later(x) = g}
  BY DEF ConnectionsIn
<1>2. /\ later(c) = f
      /\ c \in DOMAIN connections => flow(c) = f
      /\ \A x \in DOMAIN connections : x # c => later(x) = flow(x) /\ flow(x) # f
      /\ ConnectionsOf(o)' = ConnectionsOf(o) \cup {c}
      /\ c \in DOMAIN connections <=> c \in ConnectionsOf(o)
      /\ \A q \in Owner \ {o} : c \notin ConnectionsOf(q) /\ ConnectionsOf(q)' = ConnectionsOf(q)
  BY DEF PushedTo
<1>3. \A q : ConnectionsOf(q) \subseteq DOMAIN connections
  BY ConnectionsExist
<1> HIDE DEF flow, later
<1>4. /\ ConnectionsIn(<<o, f>>)' = ConnectionsIn(<<o, f>>) \cup {c}
      /\ c \in DOMAIN connections <=> c \in ConnectionsIn(<<o, f>>)
  <2>1. \A x : x \in ConnectionsIn(<<o, f>>)' <=> x \in ConnectionsOf(o)' /\ later(x) = f
    BY <1>1
  <2>2. \A x : x \in ConnectionsIn(<<o, f>>) <=> x \in ConnectionsOf(o) /\ flow(x) = f
    BY <1>1
  <2>3. \A x : x \in ConnectionsIn(<<o, f>>)' <=> x \in ConnectionsIn(<<o, f>>) \/ x = c
    BY <1>2, <1>3, <2>1, <2>2
  <2> QED
    BY <1>2, <1>3, <2>2, <2>3
<1>5. ASSUME NEW q \in Owner, NEW g, q # o \/ g # f
      PROVE  c \notin ConnectionsIn(<<q, g>>) /\ ConnectionsIn(<<q, g>>)' = ConnectionsIn(<<q, g>>)
  <2>1. CASE q # o
    BY <1>1, <1>2, <1>3, <2>1
  <2>2. CASE q = o /\ g # f
    BY <1>1, <1>2, <1>3, <2>2
  <2> QED
    BY <1>5, <2>1, <2>2
<1>6. \A q \in Owner \ {o} : ConnectionsIn(<<q, f>>) = {}
  BY <1>1, <1>2, <1>3
<1>7. \A b \in Account \ {<<o, f>>} : \E q \in Owner : \E g : b = <<q, g>> /\ (q # o \/ g # f)
  BY DEF Account
<1>8. \A b \in Account \ {<<o, f>>} : c \notin ConnectionsIn(b) /\ ConnectionsIn(b)' = ConnectionsIn(b)
  BY <1>5, <1>7
<1> QED
  BY <1>4, <1>6, <1>8 DEF PushedInto

\* A refresh keeps the owner of every connection that is not stalled, and all that is
\* recent of its lists.
LEMMA RefreshKeeps ==
  ASSUME OwnedInv, do_refresh
  PROVE  /\ DOMAIN connections' \subseteq DOMAIN connections
         /\ DOMAIN processes' \subseteq DOMAIN processes
         /\ \A c \in DOMAIN connections' :
              /\ connections'[c].last = connections[c].last
              /\ connections'[c].ref = connections[c].ref
              /\ \A d \in Direction :
                   connections'[c].packets[d] = na_packet_list_kept(connections[c].packets[d], now)
         /\ \A o : /\ ConnectionsOf(o)' \subseteq ConnectionsOf(o)
                   /\ \A c \in ConnectionsOf(o) \ ConnectionsOf(o)' : Stalled(c)
<1> DEFINE kept  == {p \in DOMAIN processes : ~ TimedOut(p)}
           freed == {c \in UNION {processes[p].conns : p \in kept} : Stalled(c)}
<1>1. /\ DOMAIN processes' = kept
      /\ \A p \in kept : /\ processes'[p].conns = processes[p].conns \ freed
                         /\ processes'[p].pid = processes[p].pid
  BY DEF do_refresh, na_process_info_get_all, OwnedInv, TypeOK, Process
<1>2. \A p \in DOMAIN processes \ kept : processes[p].conns = {}
  BY TimedOutIsEmpty
<1>3. /\ DOMAIN connections' = DOMAIN connections \ freed
      /\ \A c \in DOMAIN connections' : connections'[c] = Trimmed(connections[c])
  <2>1. \A c \in DOMAIN connections : \E p \in kept : c \in processes[p].conns
    BY <1>2 DEF OwnedInv, EveryConnectionOwned
  <2> QED
    BY <2>1 DEF do_refresh, na_process_info_get_all
<1>4. \A c \in DOMAIN connections' :
        /\ connections'[c].last = connections[c].last
        /\ connections'[c].ref = connections[c].ref
        /\ \A d \in Direction :
             connections'[c].packets[d] = na_packet_list_kept(connections[c].packets[d], now)
  <2>1. \A c \in DOMAIN connections : connections[c] \in Connection
    BY DEF OwnedInv, TypeOK
  <2> QED
    BY <1>3, <2>1 DEF Trimmed, Connection
<1>5. \A c \in freed : Stalled(c)
  OBVIOUS
<1> HIDE DEF freed
<1>6. kept \subseteq DOMAIN processes
  OBVIOUS
<1> HIDE DEF kept
<1>7. ASSUME NEW o PROVE ConnectionsOf(o)' = ConnectionsOf(o) \ freed
  BY <1>1, <1>2, <1>6 DEF ConnectionsOf
<1> QED
  BY <1>1, <1>3, <1>4, <1>5, <1>6, <1>7

\* The conditions: Timely, one device, a clock that is never set back, connections that
\* are kept for as long as their bytes are counted, and IPv4 packets of finitely many
\* kinds.  (With two devices or a clock set back the lists are not in order, and IPv6
\* packets are not told apart.)
MeterConditions ==
  /\ Timely /\ NIface = 1 /\ MaxBack = 0 /\ PERIOD <= CONNTIMEOUT
  /\ Wire \subseteq HeaderOf(Address4) /\ IsFiniteSet(Wire)

LEMMA MeterStepUnchanged ==
  [Next]_vars /\ ~ push_packet /\ ~ do_refresh => UNCHANGED <<connections, processes, report>>
  BY DEF Next, Capture, Tick, SetBack, DispatchDone, vars

LEMMA NoNewerStep ==
  ASSUME MeterConditions, MeterInv, [Next]_vars
  PROVE  NoNewerThanLast'
<1> SUFFICES ASSUME NEW c \in DOMAIN connections', NEW d \in Direction
             PROVE  NotAfter(connections'[c].packets[d], connections'[c].last)
  BY DEF NoNewerThanLast
<1>1. CASE push_packet
  <2>1. PICK x \in ConnId, o \in Owner : PushedTo(x, o)
    BY <1>1, KnownIsPushedTo, NewIsPushedTo DEF push_packet, MeterInv, MeterConditions
  <2>2. CASE c = x
    <3>1. /\ at = 1 /\ buffer[at] # <<>> /\ TypeOK
      BY <1>1 DEF push_packet, PushKnown, PushNew, Iface, MeterInv, OwnedInv, MeterConditions
    <3>2. packet \in Packet /\ packet = buffer[1][1] /\ 1 \in DOMAIN buffer[1]
      BY <3>1, HeadOfBuffer, AnalyzerAssumption DEF Iface
    <3>3. /\ ListOf(c, d) \in PacketList /\ NewestFirst(ListOf(c, d))
          /\ NotAfter(ListOf(c, d), packet.time)
      BY <3>2, ListOfType
    <3>4. NotAfter(na_packet_list_add_packet(ListOf(c, d), packet), packet.time)
      BY <3>2, <3>3, AddKeepsOrder
    <3> QED
      BY <2>1, <2>2, <3>3, <3>4 DEF PushedTo
  <2>3. CASE c # x
    BY <2>1, <2>3 DEF PushedTo, MeterInv, NoNewerThanLast
  <2> QED
    BY <2>2, <2>3
<1>2. CASE do_refresh
  <2>1. /\ c \in DOMAIN connections
        /\ connections'[c].last = connections[c].last
        /\ connections'[c].packets[d] = na_packet_list_kept(connections[c].packets[d], now)
    BY <1>2, RefreshKeeps DEF MeterInv
  <2>2. connections[c].packets[d] \in PacketList
    BY <2>1, ListOfType DEF ListOf
  <2>3. NotAfter(connections[c].packets[d], connections[c].last)
    BY <2>1 DEF MeterInv, NoNewerThanLast
  <2> QED
    BY <2>1, <2>2, <2>3, KeptKeepsOrder
<1>3. CASE ~ push_packet /\ ~ do_refresh
  BY <1>3, MeterStepUnchanged DEF MeterInv, NoNewerThanLast
<1> QED
  BY <1>1, <1>2, <1>3

LEMMA FiniteStep ==
  ASSUME OwnedInv, FinitelyMany, [Next]_vars
  PROVE  FinitelyMany'
<1>0. IsFiniteSet(DOMAIN connections) /\ IsFiniteSet(DOMAIN processes)
  BY DEF FinitelyMany
<1>1. CASE PushKnown
  <2>1. DOMAIN connections' = DOMAIN connections /\ processes' = processes
    BY <1>1 DEF PushKnown
  <2> QED
    BY <1>0, <2>1 DEF FinitelyMany
<1>2. CASE PushNew
  <2>1. PICK c \in ConnId, o \in Owner :
          /\ connections' = With(connections, c, na_connection_new(packet))
          /\ \E p \in na_process_find_from_connection(o) :
               processes' = AddToProcess(p, o, c)
    BY <1>2 DEF PushNew
  <2>2. DOMAIN connections' = DOMAIN connections \cup {c}
    BY <2>1 DEF With
  <2>3. PICK p \in na_process_find_from_connection(o) : processes' = AddToProcess(p, o, c)
    BY <2>1
  <2>4. DOMAIN processes' = DOMAIN processes \cup {p}
    BY <2>3 DEF AddToProcess, With
  <2> QED
    BY <1>0, <2>2, <2>4, FS_AddElement DEF FinitelyMany
<1>3. CASE do_refresh
  BY <1>0, <1>3, RefreshKeeps, FS_Subset DEF FinitelyMany
<1>4. CASE ~ push_packet /\ ~ do_refresh
  BY <1>0, <1>4, MeterStepUnchanged DEF FinitelyMany
<1> QED
  BY <1>1, <1>2, <1>3, <1>4 DEF push_packet

LEMMA FlowInvStep ==
  ASSUME MeterConditions, MeterInv, [Next]_vars
  PROVE  FlowInv'
<1>1. OneConnectionPerFlow'
  BY FlowStep DEF MeterInv, OwnedInv, FlowInv
<1>2. ReferencesAre4'
  BY References4Step DEF MeterInv, OwnedInv, FlowInv, MeterConditions
<1>3. ASSUME NEW c \in DOMAIN connections' PROVE FlowOf(connections'[c].ref) \in Flows
  <2>1. CASE PushNew
    <3>1. PICK h \in Wire, x \in ConnId :
            /\ DOMAIN connections' = DOMAIN connections \cup {x}
            /\ connections'[x].ref = IF na_packet_is_outgoing(h)
                                     THEN h ELSE na_packet_new_inverted(h)
            /\ \A d \in DOMAIN connections : d # x => connections'[d] = connections[d]
      BY <2>1, NewReference DEF MeterInv, OwnedInv
    <3>2. h \in HeaderOf(Address4)
      BY DEF MeterConditions
    <3>3. FlowOf(na_packet_new_inverted(h)) = FlowOf(h)
      BY <3>2, SameFlowIs, Inverted4
    <3>4. FlowOf(connections'[x].ref) \in Flows
      BY <3>1, <3>3 DEF Flows
    <3> QED
      BY <3>1, <3>4 DEF MeterInv, FlowInv
  <2>2. CASE ~ PushNew
    BY <2>2, StepKeepsReferences DEF MeterInv, OwnedInv, FlowInv
  <2> QED
    BY <2>1, <2>2
<1> QED
  BY <1>1, <1>2, <1>3 DEF FlowInv

LEMMA MeterInvariant ==
  ASSUME MeterConditions
  PROVE  Spec => []MeterInv
<1>1. Init => MeterInv
  <2> SUFFICES ASSUME Init PROVE MeterInv
    OBVIOUS
  <2>1. OrderInv
    BY TypeInit DEF Init, OrderInv, BufferInOrder, ListsBehindBuffer, PacketListsNewestFirst
  <2>2. NoNewerThanLast
    BY DEF Init, NoNewerThanLast
  <2>3. FinitelyMany
    BY FS_EmptySet DEF Init, FinitelyMany
  <2>4. FlowInv
    BY DEF Init, FlowInv, OneConnectionPerFlow, ReferencesAre4
  <2> QED
    BY <2>1, <2>2, <2>3, <2>4, OwnedInit, WireInit DEF MeterInv
<1>2. MeterInv /\ [Next]_vars => MeterInv'
  <2> SUFFICES ASSUME MeterInv, [Next]_vars PROVE MeterInv'
    OBVIOUS
  <2>1. OwnedInv'
    BY OwnedStep DEF MeterInv, MeterConditions
  <2>2. OrderInv'
    BY OrderStep DEF MeterInv, MeterConditions
  <2>3. BuffersHoldWire'
    BY WireStep DEF MeterInv, OwnedInv
  <2>4. NoNewerThanLast' /\ FinitelyMany' /\ FlowInv'
    BY NoNewerStep, FiniteStep, FlowInvStep DEF MeterInv
  <2> QED
    BY <2>1, <2>2, <2>3, <2>4 DEF MeterInv
<1> QED
  BY <1>1, <1>2, PTL DEF Spec

-----------------------------------------------------------------------------
(* The counters of the meter.                                              *)

\* The function f gives for each connection in C the bytes of the second t in its list.
BytesInLists(f, C, list, t) ==
  /\ DOMAIN f = C
  /\ \A c \in C : /\ list[c] \in PacketList /\ NewestFirst(list[c])
                   /\ f[c] = BytesOf(list[c], t)

LEMMA SumOfLists ==
  ASSUME NEW C, IsFiniteSet(C), NEW list, NEW t, NEW f, BytesInLists(f, C, list, t)
  PROVE  /\ SumFunction(f) = SumFunctionOnSet(f, C)
         /\ SumFunctionOnSet(f, C) \in Int
         /\ \A c \in C : f[c] \in Nat
<1>1. \A c \in C : f[c] \in Nat
  BY BytesType DEF BytesInLists
<1>2. SumFunction(f) = SumFunctionOnSet(f, C)
  BY DEF SumFunction, BytesInLists
<1>3. SumFunctionOnSet(f, C) \in Int
  BY <1>1, SumBasics
<1> QED
  BY <1>1, <1>2, <1>3

\* The bytes of one list, which may be a new one, grow by n, those of the others in C
\* do not.
OneGrows(f, h, C, c, old, new, t, n) ==
  /\ IsFiniteSet(C) /\ n \in Int
  /\ BytesInLists(f, C, old, t) /\ BytesInLists(h, C \cup {c}, new, t)
  /\ \A x \in C : x # c => new[x] = old[x]
  /\ old[c] \in PacketList /\ NewestFirst(old[c]) /\ (c \notin C => old[c] = <<>>)
  /\ BytesOf(new[c], t) % U32 = (BytesOf(old[c], t) + n) % U32

\* Then the sum does.
LEMMA SumGrows ==
  ASSUME NEW f, NEW h, NEW C, NEW c, NEW old, NEW new, NEW t, NEW n,
         OneGrows(f, h, C, c, old, new, t, n)
  PROVE  SumFunction(h) % U32 = ((SumFunction(f) % U32) + n) % U32
<1> USE DEF OneGrows
<1> DEFINE D == C \cup {c}
           g == [x \in D |-> BytesOf(old[x], t)]
<1>0. IsFiniteSet(D) /\ U32 \in Nat \ {0}
  BY FS_AddElement, ConnectionAssumption
<1>1. /\ \A x \in D : h[x] = BytesOf(new[x], t) /\ g[x] = BytesOf(old[x], t)
      /\ \A x \in D : x # c => h[x] = g[x]
      /\ \A x \in C : f[x] = g[x]
      /\ h[c] % U32 = (g[c] + n) % U32
      /\ c \notin C => g[c] = 0
  <2>1. c \notin C => BytesOf(old[c], t) = 0
    BY NoEntry
  <2> QED
    BY <2>1 DEF BytesInLists
<1>2. \A x \in D : g[x] \in Int /\ h[x] \in Int
  BY BytesType DEF BytesInLists
<1>3. SumFunction(h) = SumFunctionOnSet(h, D) /\ SumFunction(f) = SumFunctionOnSet(f, C)
  BY DEF SumFunction, BytesInLists
<1> HIDE DEF g
<1>4. SumFunctionOnSet(f, C) = SumFunctionOnSet(g, C) /\ SumFunctionOnSet(g, C) \in Int
  <2>1. \A x \in C : f[x] = g[x] /\ g[x] \in Int
    BY <1>1, <1>2
  <2> QED
    BY <2>1, SumSame, SumBasics
<1>5. SumFunctionOnSet(g, D) = SumFunctionOnSet(g, C)
  <2>1. \A x \in D \ C : g[x] = 0
    BY <1>1
  <2>2. C \in SUBSET D
    OBVIOUS
  <2> HIDE DEF D
  <2> QED
    BY <1>0, <1>2, <2>1, <2>2, SumDropZeros
<1>6. SumFunctionOnSet(h, D) = SumFunctionOnSet(g, D) + (h[c] - g[c])
  <2>1. c \in D
    OBVIOUS
  <2> HIDE DEF D
  <2> QED
    BY <1>0, <1>1, <1>2, <2>1, SumUpdate
<1> DEFINE s == SumFunctionOnSet(g, C)
           hc == h[c]
           gc == g[c]
           r == s - gc
           m == gc + n
<1>9. s \in Int /\ hc \in Int /\ gc \in Int /\ hc % U32 = m % U32
  BY <1>1, <1>2, <1>4
<1>7. /\ s \in Int /\ hc \in Int /\ r \in Int /\ m \in Int /\ hc % U32 = m % U32
      /\ hc + r = s + (hc - gc) /\ m + r = s + n
  <2> HIDE DEF s, hc, gc
  <2> QED
    BY <1>9
<1>8. (s + (hc - gc)) % U32 = ((s % U32) + n) % U32
  <2> HIDE DEF s, hc, gc, r, m
  <2>1. (hc + r) % U32 = ((hc % U32) + r) % U32 /\ (m + r) % U32 = ((m % U32) + r) % U32
    BY <1>0, <1>7, ModSum
  <2>2. (s + n) % U32 = ((s % U32) + n) % U32
    BY <1>0, <1>7, ModSum
  <2> QED
    BY <1>7, <2>1, <2>2
<1> QED
  BY <1>3, <1>4, <1>5, <1>6, <1>8

LEMMA EmptyCounter ==
  ASSUME NEW a, ConnectionsIn(a) = {}, NEW d, NEW age
  PROVE  CountedBytes(a, d, age) = 0
<1> DEFINE f == [c \in ConnectionsIn(a) |-> BytesAged(connections[c].packets[d], age)]
<1>1. DOMAIN f = {}
  OBVIOUS
<1>2. CountedBytes(a, d, age) = SumFunction(f) % U32
  BY DEF CountedBytes
<1> HIDE DEF f
<1>3. SumFunction(f) = 0
  BY <1>1, SumBasics, FS_EmptySet DEF SumFunction
<1>4. 0 % U32 = 0
  BY ConnectionAssumption
<1> QED
  BY <1>2, <1>3, <1>4

\* A packet adds its length to one counter, if it is recent enough to have one: that of
\* its flow, its direction and its second, for one owner, the only one the flow counts for.
LEMMA PushCounts ==
  ASSUME MeterConditions, MeterInv, MeterInv', push_packet
  PROVE  \E o \in Owner, f \in Flows :
           /\ f = FlowOf(packet.header)
           /\ \A q \in Owner \ {o}, d \in Direction, age \in 0 .. PERIOD - 1 :
                CountedBytes(<<q, f>>, d, age) = 0
           /\ \A b \in Account, d \in Direction, age \in 0 .. PERIOD - 1 :
                CountedBytes(b, d, age)' =
                  IF b = <<o, f>> /\ d = DirectionOf(packet) /\ age = now - packet.time
                  THEN (CountedBytes(b, d, age) + packet.len) % U32
                  ELSE CountedBytes(b, d, age)
<1>1. PICK c \in ConnId, o \in Owner : PushedTo(c, o)
  BY KnownIsPushedTo, NewIsPushedTo DEF push_packet, MeterInv, MeterConditions
<1>10. PICK f \in Flows : f = FlowOf(packet.header)
  <2>1. packet.header \in Wire
    BY HeaderOfPacket DEF push_packet, PushKnown, PushNew, MeterInv, OwnedInv
  <2> QED
    BY <2>1 DEF Flows
<1> DEFINE a == <<o, f>>
<1>11. a \in Account /\ PushedInto(c, a)
  BY <1>1, <1>10, PushedToIsPushedInto DEF Account, MeterInv
<1>12. ASSUME NEW q \in Owner \ {o}, NEW d \in Direction, NEW age \in 0 .. PERIOD - 1
       PROVE  CountedBytes(<<q, f>>, d, age) = 0
  <2>1. ConnectionsIn(<<q, f>>) = {}
    BY <1>11 DEF PushedInto
  <2> QED
    BY <2>1, EmptyCounter
<1> HIDE DEF a
<1>2. /\ at = 1 /\ buffer[at] # <<>> /\ TypeOK /\ now' = now /\ now \in Nat
      /\ U32 \in Nat \ {0} /\ PERIOD \in Nat /\ 1 \in Iface
  BY ConnectionAssumption, AnalyzerAssumption
     DEF push_packet, PushKnown, PushNew, Iface, MeterInv, OwnedInv, MeterConditions, TypeOK
<1>3. packet \in Packet /\ packet = buffer[1][1] /\ 1 \in DOMAIN buffer[1]
  BY <1>2, HeadOfBuffer
<1>4. /\ packet.len \in PacketLen /\ packet.len \in Nat
      /\ packet.time \in Nat /\ packet.time <= now
  BY <1>2, <1>3 DEF MeterInv, OrderInv, BuffersHoldWire, BufferInOrder, Packet
<1> DEFINE late == now - packet.time
<1>5. late \in Nat
  BY <1>2, <1>4
<1>6. ASSUME NEW q \in Account, NEW d \in Direction, NEW age \in 0 .. PERIOD - 1
      PROVE  CountedBytes(q, d, age)' =
               IF q = a /\ d = DirectionOf(packet) /\ age = late
               THEN (CountedBytes(q, d, age) + packet.len) % U32
               ELSE CountedBytes(q, d, age)
  <2> DEFINE t == now - age
             C == ConnectionsIn(q)
             k == [x \in C |-> BytesOf(connections[x].packets[d], t)]
             h == [x \in ConnectionsIn(q)' |-> BytesOf(connections'[x].packets[d], t)]
  <2>1. CountedBytes(q, d, age) = SumFunction(k) % U32 /\ CountedBytes(q, d, age)' = SumFunction(h) % U32
    <3>1. CountedBytes(q, d, age) = SumFunction(k) % U32
      BY DEF CountedBytes, BytesAged, BytesOf, EntriesOf
    <3>2. CountedBytes(q, d, age)'
            = SumFunction([x \in ConnectionsIn(q)' |->
                            BytesOf(connections'[x].packets[d], now' - age)]) % U32
      BY DEF CountedBytes, BytesAged, BytesOf, EntriesOf
    <3>3. [x \in ConnectionsIn(q)' |-> BytesOf(connections'[x].packets[d], now' - age)] = h
      BY <1>2
    <3> HIDE DEF h
    <3>4. CountedBytes(q, d, age)' = SumFunction(h) % U32
      BY <3>2, <3>3
    <3> QED
      BY <3>1, <3>4
  <2>2. C \subseteq DOMAIN connections /\ IsFiniteSet(C)
    <3>1. C \subseteq DOMAIN connections
      BY ConnectionsExist DEF ConnectionsIn, MeterInv
    <3> QED
      BY <3>1, FS_Subset DEF MeterInv, FinitelyMany
  <2>3. CASE q # a
    <3>1. ConnectionsIn(q)' = C /\ \A x \in C : connections'[x] = connections[x]
      BY <1>1, <1>11, <2>2, <2>3 DEF PushedTo, PushedInto
    <3>2. h = k
      BY <3>1
    <3> QED
      BY <2>1, <2>3, <3>2
  <2>4. CASE q = a
    <3> DEFINE D == C \cup {c}
               old == [x \in D |-> ListOf(x, d)]
               new == [x \in D |-> connections'[x].packets[d]]
               n == IF d = DirectionOf(packet) /\ age = late THEN packet.len ELSE 0
    <3>1. /\ ConnectionsIn(q)' = D /\ D \subseteq DOMAIN connections'
          /\ c \notin C => c \notin DOMAIN connections
      BY <1>1, <1>11, <2>2, <2>4 DEF PushedTo, PushedInto
    <3>2. \A x \in D : old[x] \in PacketList /\ NewestFirst(old[x])
      BY ListOfType
    <3>3. ASSUME NEW x \in D PROVE new[x] \in PacketList /\ NewestFirst(new[x])
      <4>1. x \in DOMAIN connections' /\ connections'[x] \in Connection
        BY <3>1 DEF MeterInv, OwnedInv, TypeOK
      <4> QED
        BY <4>1 DEF Connection, MeterInv, OrderInv, PacketListsNewestFirst, NewestFirst
    <3>4. \A x \in C : x # c => new[x] = old[x]
      BY <1>1, <2>2 DEF PushedTo, ListOf
    <3>5. c \notin C => old[c] = <<>>
      BY <3>1 DEF ListOf
    <3>6. n \in Int /\ t \in Int
      BY <1>2, <1>4
    <3>7. BytesOf(new[c], t) % U32 = (BytesOf(old[c], t) + n) % U32
      <4>1. old[c] = ListOf(c, d) /\ new[c] = connections'[c].packets[d] /\ BytesOf(old[c], t) \in Nat
        BY <3>2, BytesType
      <4>2. CASE d = DirectionOf(packet)
        <5>1. new[c] = na_packet_list_add_packet(ListOf(c, d), packet)
          BY <1>1, <4>1, <4>2 DEF PushedTo
        <5>2. /\ ListOf(c, d) \in PacketList /\ NewestFirst(ListOf(c, d))
              /\ NotAfter(ListOf(c, d), packet.time)
          BY <1>3, ListOfType
        <5> DEFINE bytes == BytesOf(ListOf(c, d), t)
        <5>3. /\ t # packet.time => BytesOf(new[c], t) = bytes
              /\ t = packet.time => BytesOf(new[c], t) % U32 = (bytes + packet.len) % U32
          BY <1>3, <3>6, <5>1, <5>2, AddBytes
        <5>4. t = packet.time <=> age = late
          BY <1>2, <1>4
        <5>5. bytes \in Nat
          BY <4>1
        <5> HIDE DEF old, new, late, t
        <5> QED
          BY <4>1, <4>2, <5>3, <5>4, <5>5
      <4>3. CASE d # DirectionOf(packet)
        <5>1. new[c] = ListOf(c, d) /\ n = 0
          BY <1>1, <4>1, <4>3 DEF PushedTo
        <5> HIDE DEF old, new, late, t, n
        <5> QED
          BY <4>1, <5>1
      <4> QED
        BY <4>2, <4>3
    <3>8. BytesInLists(k, C, old, t)
      <4>1. \A x \in C : k[x] = BytesOf(old[x], t)
        BY <2>2 DEF ListOf
      <4>2. DOMAIN k = C
        OBVIOUS
      <4> HIDE DEF k, old
      <4> QED
        BY <3>2, <4>1, <4>2 DEF BytesInLists
    <3>9. BytesInLists(h, C \cup {c}, new, t)
      <4>1. \A x \in D : h[x] = BytesOf(new[x], t)
        BY <3>1
      <4>2. DOMAIN h = D
        BY <3>1
      <4> HIDE DEF h, new
      <4> QED
        BY <3>3, <4>1, <4>2 DEF BytesInLists
    <3>10. SumFunction(h) % U32 = ((SumFunction(k) % U32) + n) % U32
      <4>1. old[c] \in PacketList /\ NewestFirst(old[c])
        BY <3>2
      <4> HIDE DEF old, new, t, n, C, k, h
      <4>2. OneGrows(k, h, C, c, old, new, t, n)
        BY <2>2, <3>4, <3>5, <3>6, <3>7, <3>8, <3>9, <4>1 DEF OneGrows
      <4> QED
        BY <4>2, SumGrows
    <3>11. CASE n = 0
      <4>1. SumFunction(k) \in Int
        <5> HIDE DEF old, t, C, k
        <5> QED
          BY <2>2, <3>8, SumOfLists
      <4> DEFINE s == SumFunction(k)
                 u == SumFunction(h)
      <4>2. s \in Int /\ u % U32 = ((s % U32) + n) % U32
        BY <3>10, <4>1
      <4>3. CountedBytes(q, d, age) = s % U32 /\ CountedBytes(q, d, age)' = u % U32
        BY <2>1
      <4> HIDE DEF s, u, n
      <4>4. s % U32 \in 0 .. U32 - 1
        BY <1>2, <4>2, DivMod
      <4>5. (s % U32) % U32 = s % U32
        BY <1>2, <4>2, ModTwice
      <4>6. CountedBytes(q, d, age)' = CountedBytes(q, d, age)
        BY <3>11, <4>2, <4>3, <4>4, <4>5
      <4>7. (CountedBytes(q, d, age) + 0) % U32 = CountedBytes(q, d, age)
        BY <4>3, <4>4, <4>5
      <4> QED
        BY <1>4, <2>4, <3>11, <4>6, <4>7 DEF n
    <3>12. CASE n # 0
      <4> HIDE DEF k, h
      <4> QED
        BY <2>1, <2>4, <3>10, <3>12
    <3> QED
      BY <3>11, <3>12
  <2> QED
    BY <2>3, <2>4
<1> QED
  BY <1>6, <1>10, <1>12 DEF a

LEMMA ListsOfOwner ==
  ASSUME MeterInv, NEW o, NEW d \in Direction
  PROVE  /\ ConnectionsOf(o) \subseteq DOMAIN connections /\ IsFiniteSet(ConnectionsOf(o))
         /\ \A c \in ConnectionsOf(o) : /\ connections[c].packets[d] \in PacketList
                                        /\ NewestFirst(connections[c].packets[d])
                                        /\ NotAfter(connections[c].packets[d], now)
<1>1. ConnectionsOf(o) \subseteq DOMAIN connections
  BY DEF ConnectionsOf, MeterInv, OwnedInv, EveryConnectionOwned
<1>2. IsFiniteSet(ConnectionsOf(o))
  BY <1>1, FS_Subset DEF MeterInv, FinitelyMany
<1> QED
  BY <1>1, <1>2, ListOfType DEF ListOf

LEMMA ListsOfAccount ==
  ASSUME MeterInv, NEW a, NEW d \in Direction
  PROVE  /\ ConnectionsIn(a) \subseteq DOMAIN connections /\ IsFiniteSet(ConnectionsIn(a))
         /\ \A c \in ConnectionsIn(a) : /\ connections[c].packets[d] \in PacketList
                                        /\ NewestFirst(connections[c].packets[d])
                                        /\ NotAfter(connections[c].packets[d], now)
<1> DEFINE o == a[1]
<1>1. ConnectionsIn(a) \subseteq ConnectionsOf(o)
  BY DEF ConnectionsIn
<1>2. IsFiniteSet(ConnectionsIn(a))
  BY <1>1, ListsOfOwner, FS_Subset
<1> HIDE DEF o
<1> QED
  BY <1>1, <1>2, ListsOfOwner

\* A connection that is stalled has nothing that still counts.
LEMMA StalledIsSilent ==
  ASSUME MeterConditions, MeterInv, NEW c \in DOMAIN connections, Stalled(c),
         NEW d \in Direction, NEW t \in Int, t > now - PERIOD
  PROVE  BytesOf(connections[c].packets[d], t) = 0
<1>1. /\ connections[c].last \in Nat /\ now \in Nat /\ PERIOD \in Nat /\ CONNTIMEOUT \in Nat
      /\ connections[c].packets[d] \in PacketList
  BY ConnectionAssumption, AnalyzerAssumption DEF MeterInv, OwnedInv, TypeOK, Connection
<1>2. connections[c].last < t
  BY <1>1 DEF Stalled, MeterConditions
<1>3. \A i \in DOMAIN connections[c].packets[d] : connections[c].packets[d][i].time # t
  BY <1>1, <1>2, EntryTypes DEF MeterInv, NoNewerThanLast, NotAfter
<1> QED
  BY <1>3, NoEntry

\* A refresh leaves the counters as they are: what it removes does not count.
LEMMA RefreshKeepsCounters ==
  ASSUME MeterConditions, MeterInv, MeterInv', do_refresh,
         NEW q \in Account, NEW d \in Direction, NEW age \in 0 .. PERIOD - 1
  PROVE  CountedBytes(q, d, age)' = CountedBytes(q, d, age)
<1> DEFINE t == now - age
           C == ConnectionsIn(q)
           E == ConnectionsIn(q)'
           old == [x \in C |-> connections[x].packets[d]]
           new == [x \in E |-> connections'[x].packets[d]]
           f == [x \in C |-> BytesOf(connections[x].packets[d], t)]
           h == [x \in E |-> BytesOf(connections'[x].packets[d], t)]
<1>0. now \in Nat /\ PERIOD \in Nat /\ t \in Int /\ t > now - PERIOD /\ now' = now
  BY ConnectionAssumption DEF do_refresh, MeterInv, OwnedInv, TypeOK
<1>1. CountedBytes(q, d, age) = SumFunction(f) % U32
  BY DEF CountedBytes, BytesAged, BytesOf, EntriesOf
<1>2. CountedBytes(q, d, age)' = SumFunction(h) % U32
  <2>1. CountedBytes(q, d, age)'
          = SumFunction([x \in E |-> BytesOf(connections'[x].packets[d], now' - age)]) % U32
    BY DEF CountedBytes, BytesAged, BytesOf, EntriesOf
  <2>2. [x \in E |-> BytesOf(connections'[x].packets[d], now' - age)] = h
    BY <1>0
  <2> HIDE DEF h
  <2> QED
    BY <2>1, <2>2
<1>3. /\ C \subseteq DOMAIN connections /\ IsFiniteSet(C) /\ E \in SUBSET C
      /\ E \subseteq DOMAIN connections'
      /\ \A x \in C \ E : Stalled(x)
  <2>1. C \subseteq DOMAIN connections /\ IsFiniteSet(C)
    BY ListsOfAccount
  <2>2. ConnectionsOf(q[1])' \subseteq DOMAIN connections'
    BY DEF MeterInv, OwnedInv, EveryConnectionOwned, ConnectionsOf
  <2>3. /\ E \subseteq DOMAIN connections' /\ E \in SUBSET C
        /\ \A x \in C \ E : Stalled(x)
    <3> DEFINE flow(x) == FlowOf(connections[x].ref)
               later(x) == FlowOf(connections'[x].ref)
    <3>1. /\ C = {x \in ConnectionsOf(q[1]) : flow(x) = q[2]}
          /\ E = {x \in ConnectionsOf(q[1])' : later(x) = q[2]}
      BY DEF ConnectionsIn
    <3>2. /\ ConnectionsOf(q[1])' \subseteq ConnectionsOf(q[1])
          /\ \A x \in ConnectionsOf(q[1]) \ ConnectionsOf(q[1])' : Stalled(x)
          /\ \A x \in DOMAIN connections' : later(x) = flow(x)
      BY RefreshKeeps DEF MeterInv
    <3> HIDE DEF C, E, flow, later
    <3> QED
      BY <2>2, <3>1, <3>2
  <2> QED
    BY <2>1, <2>3
<1>4. BytesInLists(f, C, old, t)
  <2>1. \A x \in C : /\ old[x] \in PacketList /\ NewestFirst(old[x])
                     /\ f[x] = BytesOf(old[x], t)
    BY ListsOfAccount
  <2>2. DOMAIN f = C
    OBVIOUS
  <2> HIDE DEF f, old
  <2> QED
    BY <2>1, <2>2 DEF BytesInLists
<1>5. \A x \in E : h[x] = f[x]
  <2> SUFFICES ASSUME NEW x \in E
               PROVE  BytesOf(connections'[x].packets[d], t) = BytesOf(connections[x].packets[d], t)
    BY <1>3
  <2>1. connections'[x].packets[d] = na_packet_list_kept(connections[x].packets[d], now)
    BY <1>3, RefreshKeeps DEF MeterInv
  <2>2. connections[x].packets[d] \in PacketList /\ NewestFirst(connections[x].packets[d])
    BY <1>3, ListsOfAccount
  <2> QED
    BY <1>0, <2>1, <2>2, KeptBytes
<1>6. \A x \in C \ E : f[x] = 0
  BY <1>0, <1>3, StalledIsSilent
<1>7. DOMAIN h = E
  OBVIOUS
<1> HIDE DEF f, h, C, E, old, t
<1>8. SumFunction(f) = SumFunctionOnSet(f, C) /\ \A x \in C : f[x] \in Int
  BY <1>3, <1>4, SumOfLists
<1>9. SumFunctionOnSet(f, C) = SumFunctionOnSet(f, E)
  BY <1>3, <1>6, <1>8, SumDropZeros
<1>10. SumFunctionOnSet(h, E) = SumFunctionOnSet(f, E)
  <2>1. IsFiniteSet(E) /\ \A x \in E : f[x] \in Int
    BY <1>3, <1>8, FS_Subset
  <2> QED
    BY <1>5, <2>1, SumSame
<1>11. SumFunction(h) = SumFunctionOnSet(h, E)
  BY <1>7 DEF SumFunction
<1> QED
  BY <1>1, <1>2, <1>8, <1>9, <1>10, <1>11

-----------------------------------------------------------------------------
(* The report.                                                             *)

\* The bytes of each connection in the last PERIOD seconds, and what of them is how
\* many seconds old.
ByAge(d) == [c \in DOMAIN connections |-> [age \in 0 .. PERIOD - 1 |->
              BytesOf(connections[c].packets[d], now - age)]]

Total(d) == [c \in DOMAIN connections |-> SumFunctionOnSet(ByAge(d)[c], 0 .. PERIOD - 1)]

LEMMA AgesAreFinite ==
  IsFiniteSet(0 .. PERIOD - 1) /\ PERIOD \in Nat /\ U32 \in Nat \ {0}
<1>1. PERIOD \in Nat /\ U32 \in Nat \ {0} /\ 0 \in Int /\ PERIOD - 1 \in Int
  BY ConnectionAssumption
<1>2. IsFiniteSet(0 .. PERIOD - 1)
  BY <1>1, FS_Interval
<1> QED
  BY <1>1, <1>2

LEMMA TotalIs ==
  ASSUME MeterConditions, MeterInv, NEW d \in Direction, NEW c \in DOMAIN connections
  PROVE  /\ \A age \in 0 .. PERIOD - 1 : ByAge(d)[c][age] \in Int
         /\ Total(d)[c] \in Int
         /\ na_connection_sum_packets(connections[c], d, now) = Total(d)[c] % U32
         /\ Stalled(c) => Total(d)[c] = 0
<1> DEFINE list == connections[c].packets[d]
           K == 0 .. PERIOD - 1
           f == ByAge(d)[c]
<1>0. /\ now \in Int /\ IsFiniteSet(K) /\ U32 \in Nat \ {0} /\ PERIOD \in Nat
  BY AgesAreFinite DEF MeterInv, OwnedInv, TypeOK
<1>1. list \in PacketList /\ NewestFirst(list) /\ NotAfter(list, now)
  BY ListOfType DEF ListOf
<1>2. \A age \in K : f[age] = BytesOf(list, now - age)
  BY DEF ByAge
<1>3. Total(d)[c] = SumFunctionOnSet(f, K)
  BY DEF Total
<1>4. Stalled(c) => \A age \in K : f[age] = 0
  <2> SUFFICES ASSUME Stalled(c), NEW age \in K PROVE BytesOf(list, now - age) = 0
    BY <1>2
  <2>1. now - age \in Int /\ now - age > now - PERIOD
    BY <1>0
  <2> QED
    BY <2>1, StalledIsSilent
<1> HIDE DEF f, list
<1>5. \A age \in K : f[age] \in Int
  BY <1>1, <1>2, BytesType
<1>6. na_packet_list_sum_packets(list, now) = SumFunctionOnSet(f, K) % U32
  BY <1>0, <1>1, <1>2, SumOfSeconds
<1>7. SumFunctionOnSet(f, K) \in Int
  BY <1>0, <1>5, SumBasics
<1>8. Stalled(c) => SumFunctionOnSet(f, K) = 0
  BY <1>0, <1>4, SumZero
<1>9. na_connection_sum_packets(connections[c], d, now) = na_packet_list_sum_packets(list, now)
  BY DEF na_connection_sum_packets, list
<1> QED
  BY <1>3, <1>5, <1>6, <1>7, <1>8, <1>9 DEF f

LEMMA ConnsOfProcess ==
  ASSUME OwnedInv, FinitelyMany, NEW p \in DOMAIN processes
  PROVE  processes[p].conns \in SUBSET DOMAIN connections /\ IsFiniteSet(processes[p].conns)
<1>1. processes[p].conns \subseteq DOMAIN connections
  BY DEF OwnedInv, EveryConnectionOwned
<1> QED
  BY <1>1, FS_Subset DEF FinitelyMany

\* The row of a process says what its connections had, the stalled ones nothing
\* (na_process_sum_connections).
LEMMA RowOfProcess ==
  ASSUME MeterConditions, MeterInv, NEW d \in Direction, NEW p \in DOMAIN processes
  PROVE  /\ SumFunctionOnSet(Total(d), processes[p].conns) \in Int
         /\ na_process_sum_connections(p, d) \in Int
         /\ na_process_sum_connections(p, d)
              = SumFunctionOnSet(Total(d), processes[p].conns) % U32
<1> DEFINE D == processes[p].conns
           live == {x \in D : ~ Stalled(x)}
           f == [c \in live |-> na_connection_sum_packets(connections[c], d, now)]
           g == Total(d)
<1>0. U32 \in Nat \ {0} /\ D \subseteq DOMAIN connections /\ IsFiniteSet(D)
  BY ConnectionAssumption, ConnsOfProcess DEF MeterInv
<1>1. \A c \in D : g[c] \in Int /\ (Stalled(c) => g[c] = 0)
  BY <1>0, TotalIs
<1>2. ASSUME NEW c \in live PROVE f[c] = g[c] % U32
  BY <1>0, <1>2, TotalIs
<1>3. na_process_sum_connections(p, d) = SumFunctionOnSet(f, live) % U32
  BY DEF na_process_sum_connections, SumFunction
<1>4. live \in SUBSET D /\ \A c \in D \ live : Stalled(c)
  OBVIOUS
<1> HIDE DEF f, g, live, D
<1>5. IsFiniteSet(live)
  BY <1>0, <1>4, FS_Subset
<1>6. \A c \in live : g[c] \in Int /\ f[c] \in Int /\ f[c] % U32 = g[c] % U32
  <2> SUFFICES ASSUME NEW c \in live
               PROVE  g[c] \in Int /\ g[c] % U32 \in Int /\ (g[c] % U32) % U32 = g[c] % U32
    BY <1>2
  <2> DEFINE n == g[c]
  <2>1. n \in Int
    BY <1>1, <1>4
  <2> HIDE DEF n
  <2>2. n % U32 \in 0 .. U32 - 1
    BY <1>0, <2>1, DivMod
  <2>3. (n % U32) % U32 = n % U32
    BY <1>0, <2>1, ModTwice
  <2> QED
    BY <2>1, <2>2, <2>3 DEF n
<1>7. SumFunctionOnSet(f, live) % U32 = SumFunctionOnSet(g, live) % U32
  BY <1>0, <1>5, <1>6, SumModulo
<1>8. SumFunctionOnSet(g, D) = SumFunctionOnSet(g, live)
  <2>1. \A c \in D \ live : g[c] = 0
    BY <1>1, <1>4
  <2>2. \A c \in D : g[c] \in Int
    BY <1>1
  <2> QED
    BY <1>0, <1>4, <2>1, <2>2, SumDropZeros
<1>9. SumFunctionOnSet(g, D) \in Int
  BY <1>0, <1>1, SumBasics
<1> DEFINE s == SumFunctionOnSet(g, D)
<1>10. na_process_sum_connections(p, d) = s % U32 /\ s \in Int
  BY <1>3, <1>7, <1>8, <1>9
<1> HIDE DEF s
<1>11. s % U32 \in 0 .. U32 - 1
  BY <1>0, <1>10, DivMod
<1> QED
  BY <1>10, <1>11 DEF s, g, D

\* The counters of an account add up to what its connections had in the last PERIOD
\* seconds.
LEMMA AccountTotal ==
  ASSUME MeterConditions, MeterInv, NEW a, NEW d \in Direction,
         NEW w, \A age \in 0 .. PERIOD - 1 : w[age] = CountedBytes(a, d, age)
  PROVE  /\ SumFunctionOnSet(w, 0 .. PERIOD - 1) \in Int
         /\ SumFunctionOnSet(Total(d), ConnectionsIn(a)) \in Int
         /\ SumFunctionOnSet(w, 0 .. PERIOD - 1) % U32
              = SumFunctionOnSet(Total(d), ConnectionsIn(a)) % U32
<1> DEFINE K == 0 .. PERIOD - 1
           C == ConnectionsIn(a)
           g == Total(d)
           m == ByAge(d)
           across == [age \in K |-> [c \in C |-> m[c][age]]]
           col == [age \in K |-> SumFunctionOnSet(across[age], C)]
<1>0. /\ U32 \in Nat \ {0} /\ IsFiniteSet(K) /\ now \in Int
      /\ C \subseteq DOMAIN connections /\ IsFiniteSet(C)
  BY AgesAreFinite, ListsOfAccount DEF MeterInv, OwnedInv, TypeOK
<1>8. /\ \A c \in C : g[c] = SumFunctionOnSet(m[c], K) /\ g[c] \in Int
      /\ \A c \in C, age \in K : m[c][age] \in Int
  <2>1. \A c \in C : g[c] = SumFunctionOnSet(m[c], K)
    BY <1>0 DEF Total
  <2>2. \A c \in C : g[c] \in Int /\ \A age \in K : m[c][age] \in Int
    BY <1>0, TotalIs
  <2> QED
    BY <2>1, <2>2
<1>9. \A age \in K : col[age] \in Int /\ w[age] \in Int /\ w[age] % U32 = col[age] % U32
  <2> SUFFICES ASSUME NEW age \in K
               PROVE  col[age] \in Int /\ w[age] \in Int /\ w[age] % U32 = col[age] % U32
    OBVIOUS
  <2> DEFINE h == [c \in C |-> BytesOf(connections[c].packets[d], now - age)]
             k == [c \in C |-> m[c][age]]
  <2>1. CountedBytes(a, d, age) = SumFunction(h) % U32
    BY DEF CountedBytes, BytesAged, BytesOf, EntriesOf
  <2>2. h = k
    BY <1>0 DEF ByAge
  <2>3. SumFunction(k) = SumFunctionOnSet(k, C)
    BY DEF SumFunction
  <2>4. col[age] = SumFunctionOnSet(k, C)
    OBVIOUS
  <2>5. \A c \in C : k[c] \in Int
    BY <1>8
  <2> DEFINE n == SumFunctionOnSet(k, C)
  <2> HIDE DEF h, k, col
  <2>6. n \in Int /\ w[age] = n % U32 /\ col[age] = n
    BY <1>0, <2>1, <2>2, <2>3, <2>4, <2>5, SumBasics
  <2> HIDE DEF n
  <2>7. n % U32 \in 0 .. U32 - 1
    BY <1>0, <2>6, DivMod
  <2>8. (n % U32) % U32 = n % U32
    BY <1>0, <2>6, ModTwice
  <2> QED
    BY <2>6, <2>7, <2>8
<1>10. /\ \A age \in K : col[age] = SumFunctionOnSet(across[age], C)
       /\ \A c \in C, age \in K : across[age][c] = m[c][age]
  OBVIOUS
<1> HIDE DEF K, C, g, m, across, col
<1>11. SumFunctionOnSet(g, C) = SumFunctionOnSet(col, K) /\ SumFunctionOnSet(g, C) \in Int
  <2>1. Transposed(across, m, C, K) /\ RowSums(g, m, C, K) /\ RowSums(col, across, K, C)
    BY <1>8, <1>10 DEF Transposed, RowSums
  <2> QED
    BY <1>0, <1>8, <2>1, SumSwap, SumBasics
<1>12. SumFunctionOnSet(w, K) % U32 = SumFunctionOnSet(col, K) % U32
  BY <1>0, <1>9, SumModulo
<1>13. SumFunctionOnSet(w, K) \in Int
  BY <1>0, <1>9, SumBasics
<1> QED
  BY <1>11, <1>12, <1>13 DEF K, C, g

\* A refresh reports for each owner the sum of the counters of its accounts.
LEMMA RefreshReports ==
  ASSUME MeterConditions, MeterInv, do_refresh, NEW o \in Owner, NEW d \in Direction,
         NEW w, \A f \in Flows, age \in 0 .. PERIOD - 1 : w[f][age] = CountedBytes(<<o, f>>, d, age),
         NEW sums, \A f \in Flows : sums[f] = SumFunctionOnSet(w[f], 0 .. PERIOD - 1)
  PROVE  ReportedBytes(o, d)' = SumFunctionOnSet(sums, Flows) % U32
<1> DEFINE P == {p \in DOMAIN processes : processes[p].pid = o}
           Q == {p \in P : ~ TimedOut(p)}
           C == ConnectionsOf(o)
           g == Total(d)
           conns == [p \in P |-> processes[p].conns]
           S == [p \in P |-> SumFunctionOnSet(g, processes[p].conns)]
           r == [p \in Q |-> na_process_sum_connections(p, d)]
           part == [f \in Flows |-> ConnectionsIn(<<o, f>>)]
           S2 == [f \in Flows |-> SumFunctionOnSet(g, ConnectionsIn(<<o, f>>))]
<1>0. /\ U32 \in Nat \ {0} /\ C \subseteq DOMAIN connections /\ IsFiniteSet(C)
  BY AgesAreFinite, ListsOfOwner
<1>1. IsFiniteSet(P) /\ IsFiniteSet(Q) /\ Q \in SUBSET P
  BY FS_Subset DEF MeterInv, FinitelyMany
<1>2. ReportedBytes(o, d)' = SumFunctionOnSet(r, Q) % U32
  <2>1. DOMAIN report' = {p \in DOMAIN processes : ~ TimedOut(p)}
    BY DEF do_refresh, na_process_info_get_all
  <2>2. \A p \in DOMAIN report' : /\ report'[p].pid = processes[p].pid
                                  /\ report'[p][d] = na_process_sum_connections(p, d)
    <3>1. d = "sent" \/ d = "recv"
      BY DEF Direction
    <3> QED
      BY <3>1 DEF do_refresh, na_process_info_get_all
  <2>3. {q \in DOMAIN report' : report'[q].pid = o} = Q
    BY <2>1, <2>2
  <2>4. [p \in {q \in DOMAIN report' : report'[q].pid = o} |-> report'[p][d]] = r
    <3> HIDE DEF Q
    <3>1. \A p \in Q : report'[p][d] = na_process_sum_connections(p, d)
      BY <2>2, <2>3
    <3> QED
      BY <2>3, <3>1
  <2>5. ReportedBytes(o, d)'
          = SumFunction([p \in {q \in DOMAIN report' : report'[q].pid = o} |-> report'[p][d]]) % U32
    BY DEF ReportedBytes
  <2>6. SumFunction(r) = SumFunctionOnSet(r, Q)
    BY DEF SumFunction
  <2> HIDE DEF r
  <2> QED
    BY <2>4, <2>5, <2>6
<1>3. \A p \in P : S[p] \in Int /\ S[p] = SumFunctionOnSet(g, conns[p])
  BY RowOfProcess
<1>4. \A p \in Q : r[p] = S[p] % U32 /\ r[p] \in Int
  BY RowOfProcess
<1>5. \A p \in P \ Q : S[p] = 0
  <2> SUFFICES ASSUME NEW p \in P \ Q PROVE SumFunctionOnSet(g, processes[p].conns) = 0
    OBVIOUS
  <2>1. processes[p].conns = {}
    BY TimedOutIsEmpty DEF MeterInv
  <2>2. SumFunctionOnSet(g, {}) = 0
    BY SumBasics, FS_EmptySet
  <2> HIDE DEF g
  <2> QED
    BY <2>1, <2>2
<1>6. /\ \A p \in P : IsFiniteSet(conns[p]) /\ \A c \in conns[p] : g[c] \in Int
      /\ \A p, q \in P : conns[p] \cap conns[q] # {} => p = q
  <2>1. \A p \in P : IsFiniteSet(conns[p]) /\ conns[p] \subseteq DOMAIN connections
    BY ConnsOfProcess DEF MeterInv
  <2>2. \A c \in DOMAIN connections : g[c] \in Int
    BY TotalIs
  <2>3. \A p, q \in P : conns[p] \cap conns[q] # {} => p = q
    BY DEF MeterInv, OwnedInv, EveryConnectionOwned
  <2> QED
    BY <2>1, <2>2, <2>3
<1>7. UNION {conns[p] : p \in P} = C
  BY DEF ConnectionsOf
<1>8. /\ IsFiniteSet(Flows)
      /\ \A f \in Flows : IsFiniteSet(part[f]) /\ \A c \in part[f] : g[c] \in Int
      /\ \A f, h \in Flows : part[f] \cap part[h] # {} => f = h
      /\ UNION {part[f] : f \in Flows} = C
  <2>1. IsFiniteSet(Flows)
    <3> DEFINE fn == [h \in Wire |-> FlowOf(h)]
    <3>1. fn \in Surjection(Wire, Flows)
      BY DEF Flows, Surjection
    <3>2. IsFiniteSet(Wire)
      BY DEF MeterConditions
    <3> HIDE DEF fn
    <3> QED
      BY <3>1, <3>2, FS_Surjection
  <2>2. \A f \in Flows : part[f] \subseteq DOMAIN connections /\ IsFiniteSet(part[f])
    BY ListsOfAccount DEF Direction
  <2>3. \A c \in DOMAIN connections : g[c] \in Int
    BY TotalIs
  <2>4. \A f \in Flows : part[f] = {c \in C : FlowOf(connections[c].ref) = f}
    BY DEF ConnectionsIn
  <2>5. \A c \in C : FlowOf(connections[c].ref) \in Flows
    BY <1>0 DEF MeterInv, FlowInv
  <2> HIDE DEF part, C, g
  <2>6. UNION {part[f] : f \in Flows} = C
    BY <2>4, <2>5
  <2> QED
    BY <2>1, <2>2, <2>3, <2>4, <2>6
<1>9. \A f \in Flows : S2[f] = SumFunctionOnSet(g, part[f])
  OBVIOUS
<1>10. \A f \in Flows : /\ sums[f] \in Int /\ S2[f] \in Int
                       /\ sums[f] % U32 = S2[f] % U32
  <2> SUFFICES ASSUME NEW f \in Flows
               PROVE  /\ sums[f] \in Int /\ S2[f] \in Int
                      /\ sums[f] % U32 = S2[f] % U32
    OBVIOUS
  <2> DEFINE v == w[f]
             a == <<o, f>>
  <2>1. \A age \in 0 .. PERIOD - 1 : v[age] = CountedBytes(a, d, age)
    OBVIOUS
  <2>2. sums[f] = SumFunctionOnSet(v, 0 .. PERIOD - 1) /\ S2[f] = SumFunctionOnSet(g, ConnectionsIn(a))
    OBVIOUS
  <2> HIDE DEF v, a, S2
  <2>3. /\ SumFunctionOnSet(v, 0 .. PERIOD - 1) \in Int
        /\ SumFunctionOnSet(g, ConnectionsIn(a)) \in Int
        /\ SumFunctionOnSet(v, 0 .. PERIOD - 1) % U32 = SumFunctionOnSet(g, ConnectionsIn(a)) % U32
    BY <2>1, AccountTotal
  <2> QED
    BY <2>2, <2>3
<1> HIDE DEF P, Q, C, g, conns, S, r, part, S2
<1>11. SumFunctionOnSet(r, Q) % U32 = SumFunctionOnSet(S, Q) % U32
  <2>1. \A p \in Q : S[p] \in Int /\ r[p] \in Int /\ r[p] % U32 = S[p] % U32
    <3> SUFFICES ASSUME NEW p \in Q PROVE S[p] \in Int /\ r[p] \in Int /\ r[p] % U32 = S[p] % U32
      OBVIOUS
    <3> DEFINE n == S[p]
    <3>1. n \in Int /\ r[p] = n % U32 /\ r[p] \in Int
      BY <1>1, <1>3, <1>4
    <3> HIDE DEF n
    <3>2. (n % U32) % U32 = n % U32
      BY <1>0, <3>1, ModTwice
    <3> QED
      BY <3>1, <3>2 DEF n
  <2> QED
    BY <1>0, <1>1, <2>1, SumModulo
<1>12. SumFunctionOnSet(S, P) = SumFunctionOnSet(S, Q)
  BY <1>1, <1>3, <1>5, SumDropZeros
<1>13. SumFunctionOnSet(S, P) = SumFunctionOnSet(g, C)
  BY <1>1, <1>3, <1>6, <1>7, SumParts, SMTT(60)
<1>14. SumFunctionOnSet(g, C) = SumFunctionOnSet(S2, Flows)
  BY <1>8, <1>9, SumParts, SMTT(60)
<1>15. SumFunctionOnSet(sums, Flows) % U32 = SumFunctionOnSet(S2, Flows) % U32
  BY <1>0, <1>8, <1>10, SumModulo
<1> QED
  BY <1>2, <1>11, <1>12, <1>13, <1>14, <1>15

-----------------------------------------------------------------------------
(* The refinement.                                                         *)

\* A table of numbers for an account, a direction and an age.
Table(f, A, B, C) == f = [x \in A |-> [y \in B |-> [z \in C |-> f[x][y][z]]]]

SameTable(f, g, A, B, C) == \A x \in A, y \in B, z \in C : g[x][y][z] = f[x][y][z]

SameButRow(f, g, A, B, C, o, d, row) ==
  \A x \in A, y \in B, z \in C :
    g[x][y][z] = IF x = o /\ y = d THEN row[z] ELSE f[x][y][z]

LEMMA TablesAgree ==
  ASSUME NEW A, NEW B, NEW C, NEW f, Table(f, A, B, C), NEW g, Table(g, A, B, C),
         SameTable(f, g, A, B, C)
  PROVE  g = f
<1> DEFINE t(h) == [x \in A |-> [y \in B |-> [z \in C |-> h[x][y][z]]]]
<1>1. f = t(f) /\ g = t(g)
  BY DEF Table
<1>2. \A x \in A, y \in B :
        [z \in C |-> g[x][y][z]] = [z \in C |-> f[x][y][z]]
  BY DEF SameTable
<1>3. \A x \in A :
        [y \in B |-> [z \in C |-> g[x][y][z]]] = [y \in B |-> [z \in C |-> f[x][y][z]]]
  BY <1>2
<1>4. t(g) = t(f)
  BY <1>3
<1> HIDE DEF t
<1> QED
  BY <1>1, <1>4

LEMMA OneRow ==
  ASSUME NEW A, NEW B, NEW C, NEW f, Table(f, A, B, C), NEW g, Table(g, A, B, C),
         NEW o \in A, NEW d \in B, NEW row, row = [z \in C |-> row[z]],
         SameButRow(f, g, A, B, C, o, d, row)
  PROVE  g = [f EXCEPT ![o][d] = row]
<1> DEFINE h == [f EXCEPT ![o][d] = row]
<1>1. /\ DOMAIN f = A
      /\ \A x \in A : DOMAIN f[x] = B
      /\ \A x \in A, y \in B : DOMAIN f[x][y] = C
  <2> DEFINE r(x) == [y \in B |-> [z \in C |-> f[x][y][z]]]
  <2>1. f = [x \in A |-> r(x)]
    BY DEF Table
  <2>2. \A x \in A : f[x] = r(x)
    <3> HIDE DEF r
    <3> QED
      BY <2>1
  <2>3. \A x \in A : DOMAIN r(x) = B /\ \A y \in B : DOMAIN r(x)[y] = C
    OBVIOUS
  <2> HIDE DEF r
  <2> QED
    BY <2>1, <2>2, <2>3
<1>2. h = [f EXCEPT ![o] = [f[o] EXCEPT ![d] = row]]
  OBVIOUS
<1>3. \A x \in A, y \in B, z \in C : h[x][y][z] = IF x = o /\ y = d THEN row[z] ELSE f[x][y][z]
  BY <1>1, <1>2
<1>4. Table(h, A, B, C)
  <2> DEFINE r(x) == [y \in B |-> [z \in C |-> h[x][y][z]]]
  <2>1. ASSUME NEW x \in A, NEW y \in B PROVE h[x][y] = [z \in C |-> h[x][y][z]]
    <3>1. CASE x = o /\ y = d
      <4>1. h[x][y] = row
        BY <1>1, <1>2, <3>1
      <4> HIDE DEF h
      <4>2. \A z \in C : h[x][y][z] = row[z]
        BY <4>1
      <4>3. [z \in C |-> h[x][y][z]] = [z \in C |-> row[z]]
        BY <4>2
      <4> QED
        BY <4>1, <4>3
    <3>2. CASE ~ (x = o /\ y = d)
      <4>1. h[x][y] = f[x][y]
        BY <1>1, <1>2, <3>2
      <4>2. f[x][y] = [z \in C |-> f[x][y][z]]
        <5>1. f = [u \in A |-> [w \in B |-> [z \in C |-> f[u][w][z]]]]
          BY DEF Table
        <5>2. f[x] = [w \in B |-> [z \in C |-> f[x][w][z]]]
          BY <5>1
        <5> QED
          BY <5>2
      <4> HIDE DEF h
      <4> QED
        BY <4>1, <4>2
    <3> QED
      BY <3>1, <3>2
  <2>2. ASSUME NEW x \in A PROVE h[x] = r(x)
    <3>1. h[x] = [y \in B |-> h[x][y]]
      <4>1. h[x] = IF x = o THEN [f[o] EXCEPT ![d] = row] ELSE f[x]
        BY <1>1, <1>2
      <4>2. f[x] = [y \in B |-> f[x][y]] /\ f[o] = [y \in B |-> f[o][y]]
        <5> DEFINE l(u) == [w \in B |-> [z \in C |-> f[u][w][z]]]
        <5>1. f = [u \in A |-> l(u)]
          BY DEF Table
        <5>2. f[x] = l(x) /\ f[o] = l(o)
          <6> HIDE DEF l
          <6> QED
            BY <5>1
        <5> QED
          BY <5>2
      <4> HIDE DEF h
      <4> QED
        BY <4>1, <4>2
    <3> HIDE DEF h
    <3> QED
      BY <2>1, <3>1
  <2>3. h = [x \in A |-> h[x]]
    <3>1. DOMAIN h = A /\ h = [x \in DOMAIN f |-> h[x]]
      BY <1>1, <1>2
    <3> HIDE DEF h
    <3> QED
      BY <1>1, <3>1
  <2> HIDE DEF h
  <2>4. h = [x \in A |-> r(x)]
    <3> HIDE DEF r
    <3>1. \A x \in A : h[x] = r(x)
      BY <2>2
    <3> QED
      BY <2>3, <3>1
  <2> QED
    BY <2>4 DEF Table
<1> HIDE DEF h
<1>5. SameTable(h, g, A, B, C)
  BY <1>3 DEF SameButRow, SameTable
<1> QED
  BY <1>4, <1>5, TablesAgree DEF h

Window == [a \in Account |-> [d \in Direction |->
            [age \in 0 .. PERIOD - 1 |-> CountedBytes(a, d, age)]]]

Reports == [o \in Owner |-> [d \in Direction |-> ReportedBytes(o, d)]]

LEMMA WindowTable ==
  /\ Table(Window, Account, Direction, 0 .. PERIOD - 1)
  /\ Table(Window', Account, Direction, 0 .. PERIOD - 1)
  /\ \A a \in Account, d \in Direction, age \in 0 .. PERIOD - 1 :
       /\ Window[a][d][age] = CountedBytes(a, d, age)
       /\ Window'[a][d][age] = CountedBytes(a, d, age)'
<1>1. \A a \in Account, d \in Direction, age \in 0 .. PERIOD - 1 :
        /\ Window[a][d][age] = CountedBytes(a, d, age)
        /\ Window'[a][d][age] = CountedBytes(a, d, age)'
  BY DEF Window
<1>2. Table(Window, Account, Direction, 0 .. PERIOD - 1)
  BY <1>1 DEF Table, Window
<1>3. Table(Window', Account, Direction, 0 .. PERIOD - 1)
  BY <1>1 DEF Table, Window
<1> QED
  BY <1>1, <1>2, <1>3

\* The names of the meter that do not depend on its state.
LEMMA MeterNames ==
  /\ Meter!Direction = Direction /\ Meter!Age = 0 .. PERIOD - 1
  /\ Meter!Flows = Flows /\ Meter!Account = Account
  /\ \A h : Meter!FlowOf(h) = FlowOf(h)
  /\ \A p : Meter!DirectionOf(p) = DirectionOf(p)
<1>1. Meter!Direction = Direction /\ Meter!Age = 0 .. PERIOD - 1
  BY DEF Meter!Direction, Direction, Meter!Age
<1>2. \A h : Meter!FlowOf(h) = FlowOf(h)
  BY DEF Meter!FlowOf, FlowOf, na_packet_new_inverted
<1>3. Meter!Flows = Flows /\ Meter!Account = Account
  BY <1>2 DEF Meter!Flows, Flows, Meter!Account, Account
<1>4. \A p : Meter!DirectionOf(p) = DirectionOf(p)
  BY DEF Meter!DirectionOf, DirectionOf, na_packet_is_outgoing
<1> QED
  BY <1>1, <1>2, <1>3, <1>4

LEMMA MeterStarts == Init => Meter!MeterInit
<1> SUFFICES ASSUME Init PROVE Meter!MeterInit
  OBVIOUS
<1>1. /\ DOMAIN processes = {} /\ DOMAIN report = {}
      /\ now = Epoch /\ buffer = [i \in Iface |-> <<>>]
  BY DEF Init
<1>2. ASSUME NEW a, NEW d \in Direction, NEW age \in 0 .. PERIOD - 1
      PROVE  CountedBytes(a, d, age) = 0
  <2>1. ConnectionsIn(a) = {}
    BY <1>1 DEF ConnectionsIn, ConnectionsOf
  <2> QED
    BY <2>1, EmptyCounter
<1>3. ASSUME NEW o \in Owner, NEW d \in Direction
      PROVE  ReportedBytes(o, d) = 0
  <2> DEFINE f == [p \in {q \in DOMAIN report : report[q].pid = o} |-> report[p][d]]
  <2>1. DOMAIN f = {} /\ ReportedBytes(o, d) = SumFunction(f) % U32
    BY <1>1 DEF ReportedBytes
  <2> HIDE DEF f
  <2>2. SumFunction(f) = 0
    BY <2>1, SumBasics, FS_EmptySet DEF SumFunction
  <2>3. 0 % U32 = 0
    BY ConnectionAssumption
  <2> QED
    BY <2>1, <2>2, <2>3
<1>4. Reports = [o \in Owner |-> [d \in Direction |-> 0]]
  BY <1>3 DEF Reports
<1>5. Window = [a \in Account |-> [d \in Direction |-> [age \in 0 .. PERIOD - 1 |-> 0]]]
  BY <1>2 DEF Window
<1> QED
  BY <1>1, <1>4, <1>5, MeterNames DEF Meter!MeterInit, Window, Reports

\* A packet that is captured arrives at the meter.
LEMMA CaptureIsArrive ==
  ASSUME NEW i \in Iface, Capture(i)
  PROVE  Meter!Arrive(i)
<1>1. /\ \E h \in Wire, n \in PacketLen :
           buffer' = [buffer EXCEPT ![i] =
                        Append(@, [header |-> h, time |-> now, len |-> n])]
      /\ UNCHANGED <<now, connections, processes, report>>
  BY DEF Capture
<1>2. Window' = Window /\ Reports' = Reports
  BY <1>1 DEF Window, Reports, CountedBytes, ReportedBytes, ConnectionsIn, ConnectionsOf,
              BytesAged
<1> QED
  BY <1>1, <1>2 DEF Meter!Arrive, Window, Reports

LEMMA PushIsCount ==
  ASSUME MeterConditions, MeterInv, MeterInv', push_packet
  PROVE  Meter!Count(1)
<1>1. PICK o \in Owner, f \in Flows :
        /\ f = FlowOf(packet.header)
        /\ \A q \in Owner \ {o}, d \in Direction, age \in 0 .. PERIOD - 1 :
             CountedBytes(<<q, f>>, d, age) = 0
        /\ \A b \in Account, d \in Direction, age \in 0 .. PERIOD - 1 :
             CountedBytes(b, d, age)' =
               IF b = <<o, f>> /\ d = DirectionOf(packet) /\ age = now - packet.time
               THEN (CountedBytes(b, d, age) + packet.len) % U32
               ELSE CountedBytes(b, d, age)
  BY PushCounts
<1>2. /\ at = 1 /\ packet = Head(buffer[1]) /\ buffer[1] # <<>>
      /\ buffer' = [buffer EXCEPT ![1] = Tail(@)]
      /\ now' = now /\ report' = report
  <2>1. at = 1
    BY DEF push_packet, PushKnown, PushNew, Iface, MeterConditions
  <2> QED
    BY <2>1 DEF push_packet, PushKnown, PushNew, packet
<1>3. Reports' = Reports
  BY <1>2 DEF Reports, ReportedBytes
<1> DEFINE A == Account
           B == Direction
           C == 0 .. PERIOD - 1
           d0 == DirectionOf(packet)
           a == <<o, f>>
           row == [age \in C |-> IF age = now - packet.time
                                 THEN (Window[a][d0][age] + packet.len) % U32
                                 ELSE Window[a][d0][age]]
<1>4. a \in A /\ d0 \in B
  BY DEF DirectionOf, Direction, Account
<1>5. Table(Window, A, B, C) /\ Table(Window', A, B, C)
  BY WindowTable
<1>6. row = [age \in C |-> row[age]]
  OBVIOUS
<1>7. \A age \in C : row[age] = IF age = now - packet.time
                                THEN (Window[a][d0][age] + packet.len) % U32
                                ELSE Window[a][d0][age]
  OBVIOUS
<1>8. SameButRow(Window, Window', A, B, C, a, d0, row)
  <2> HIDE DEF row
  <2> SUFFICES ASSUME NEW x \in A, NEW y \in B, NEW z \in C
               PROVE  Window'[x][y][z] = IF x = a /\ y = d0 THEN row[z] ELSE Window[x][y][z]
    BY DEF SameButRow
  <2>1. /\ Window[x][y][z] = CountedBytes(x, y, z)
        /\ Window'[x][y][z] = CountedBytes(x, y, z)'
    BY WindowTable
  <2>2. CountedBytes(x, y, z)' = IF x = a /\ y = d0 /\ z = now - packet.time
                                 THEN (CountedBytes(x, y, z) + packet.len) % U32
                                 ELSE CountedBytes(x, y, z)
    BY <1>1
  <2> HIDE DEF a, d0
  <2> QED
    BY <1>7, <2>1, <2>2
<1>9. Window' = [Window EXCEPT ![a][d0] = row]
  <2> HIDE DEF A, B, C, a, d0, row
  <2> QED
    BY <1>4, <1>5, <1>6, <1>8, OneRow
<1>10. row = Meter!Added(Window[a][d0], packet)
  BY MeterNames DEF Meter!Added
<1>11. ASSUME NEW q \in Owner \ {o}
       PROVE  ~ Meter!Counting(<<q, f>>)
  <2>1. \A d \in B, age \in C : Window[<<q, f>>][d][age] = 0
    <3>1. <<q, f>> \in Account
      BY DEF Account
    <3> QED
      BY <1>1, <3>1, WindowTable
  <2> QED
    BY <2>1, MeterNames DEF Meter!Counting, Window
<1>12. Window' = [Window EXCEPT ![a][d0] = Meter!Added(@, packet)]
  BY <1>9, <1>10
<1>13. /\ f = Meter!FlowOf(packet.header) /\ d0 = Meter!DirectionOf(packet)
       /\ packet = Head(buffer[1])
  BY <1>1, <1>2, MeterNames
<1> HIDE DEF row
<1> QED
  BY <1>2, <1>3, <1>11, <1>12, <1>13 DEF Meter!Count, Window, Reports, a

LEMMA TickIsSecond ==
  ASSUME MeterConditions, MeterInv, Tick
  PROVE  Meter!Second
<1>1. /\ now \in Nat /\ now' = now + 1 /\ PERIOD \in Nat
      /\ UNCHANGED <<buffer, connections, processes, report>>
  BY ConnectionAssumption DEF Tick, MeterInv, OwnedInv, TypeOK
<1>2. Reports' = Reports
  BY <1>1 DEF Reports, ReportedBytes
<1>3. ASSUME NEW a \in Account, NEW d \in Direction, NEW age \in 0 .. PERIOD - 1
      PROVE  CountedBytes(a, d, age)'
               = IF age = 0 THEN 0 ELSE CountedBytes(a, d, age - 1)
  <2> DEFINE C == ConnectionsIn(a)
             h == [c \in C |-> BytesOf(connections[c].packets[d], now + 1 - age)]
  <2>1. ConnectionsIn(a)' = C
    BY <1>1 DEF ConnectionsIn, ConnectionsOf
  <2>2. CountedBytes(a, d, age)' = SumFunction(h) % U32
    <3>1. CountedBytes(a, d, age)'
            = SumFunction([c \in ConnectionsIn(a)' |->
                             BytesOf(connections'[c].packets[d], now' - age)]) % U32
      BY DEF CountedBytes, BytesAged, BytesOf, EntriesOf
    <3>2. [c \in ConnectionsIn(a)' |-> BytesOf(connections'[c].packets[d], now' - age)] = h
      BY <1>1, <2>1
    <3> HIDE DEF h
    <3> QED
      BY <3>1, <3>2
  <2>3. CASE age = 0
    <3>1. ASSUME NEW c \in C PROVE h[c] = 0
      <4> DEFINE list == connections[c].packets[d]
      <4>1. list \in PacketList /\ NotAfter(list, now)
        BY ListsOfAccount
      <4> HIDE DEF list
      <4>2. \A i \in DOMAIN list : list[i].time \in Nat
        BY <4>1, EntryTypes
      <4>3. \A i \in DOMAIN list : list[i].time # now + 1 - age
        BY <1>1, <2>3, <4>1, <4>2 DEF NotAfter
      <4>4. BytesOf(list, now + 1 - age) = 0
        BY <4>3, NoEntry
      <4> QED
        BY <4>4 DEF list
    <3>2. DOMAIN h = C /\ IsFiniteSet(C)
      BY ListsOfAccount
    <3> HIDE DEF h, C
    <3>3. SumFunction(h) = 0
      BY <3>1, <3>2, SumZero DEF SumFunction
    <3>4. 0 % U32 = 0
      BY ConnectionAssumption
    <3> QED
      BY <2>2, <2>3, <3>3, <3>4
  <2>4. CASE age # 0
    <3>1. now + 1 - age = now - (age - 1)
      BY <1>1
    <3>2. CountedBytes(a, d, age - 1) = SumFunction(h) % U32
      BY <3>1 DEF CountedBytes, BytesAged, BytesOf, EntriesOf
    <3> HIDE DEF h
    <3> QED
      BY <2>2, <2>4, <3>2
  <2> QED
    BY <2>3, <2>4
<1> DEFINE A == Account
           B == Direction
           K == 0 .. PERIOD - 1
           X == [a \in A |-> [d \in B |->
                  [age \in K |-> IF age = 0 THEN 0 ELSE Window[a][d][age - 1]]]]
<1>4. \A a \in A, d \in B, age \in K :
        X[a][d][age] = IF age = 0 THEN 0 ELSE Window[a][d][age - 1]
  OBVIOUS
<1>5. Table(X, A, B, K) /\ Table(Window', A, B, K)
  BY WindowTable DEF Table
<1>6. SameTable(X, Window', A, B, K)
  <2> SUFFICES ASSUME NEW a \in A, NEW d \in B, NEW age \in K
               PROVE  Window'[a][d][age] = X[a][d][age]
    BY DEF SameTable
  <2> HIDE DEF X
  <2>1. Window'[a][d][age] = IF age = 0 THEN 0 ELSE CountedBytes(a, d, age - 1)
    BY <1>3, WindowTable
  <2>2. CASE age # 0
    <3>1. age - 1 \in K
      BY <1>1, <2>2
    <3>2. Window[a][d][age - 1] = CountedBytes(a, d, age - 1)
      BY <3>1, WindowTable
    <3> QED
      BY <1>4, <2>1, <2>2, <3>2
  <2>3. CASE age = 0
    BY <1>4, <2>1, <2>3
  <2> QED
    BY <2>2, <2>3
<1> HIDE DEF X, A, B, K
<1>7. Window' = X
  BY <1>5, <1>6, TablesAgree
<1> QED
  BY <1>1, <1>2, <1>7, MeterNames DEF Meter!Second, Window, Reports, X, A, B, K

\* The meter's sum is the one of the analyzer.
LEMMA MeterSums ==
  ASSUME NEW f
  PROVE  Meter!SumFunction(f) = SumFunction(f)
BY DEF SumFunction, SumFunctionOnSet, FoldFunctionOnSet, MapThenFoldSet, Meter!SumFunction,
       Meter!SumFunctionOnSet, Meter!FoldFunctionOnSet, Meter!MapThenFoldSet

LEMMA RefreshIsPublish ==
  ASSUME MeterConditions, MeterInv, MeterInv', do_refresh
  PROVE  Meter!Publish
<1> DEFINE A == Account
           B == Direction
           K == 0 .. PERIOD - 1
           counted(o, d) == [f \in Flows |-> Window[<<o, f>>][d]]
           sums(o, d) == [f \in Flows |-> Meter!SumFunction(Window[<<o, f>>][d])]
<1>1. SameTable(Window, Window', A, B, K)
  BY RefreshKeepsCounters, WindowTable DEF SameTable
<1>2. Window' = Window
  <2> HIDE DEF A, B, K
  <2>1. Table(Window, A, B, K) /\ Table(Window', A, B, K)
    BY WindowTable DEF A, B, K
  <2> QED
    BY <1>1, <2>1, TablesAgree
<1>3. ASSUME NEW o \in Owner, NEW d \in Direction
      PROVE  ReportedBytes(o, d)' = Meter!SumFunction(sums(o, d)) % U32
  <2> DEFINE w == counted(o, d)
             s == sums(o, d)
  <2>1. ASSUME NEW f \in Flows
        PROVE  /\ w[f] = Window[<<o, f>>][d] /\ DOMAIN w[f] = K
               /\ \A age \in K : w[f][age] = CountedBytes(<<o, f>>, d, age)
               /\ s[f] = Meter!SumFunction(w[f])
    <3>1. <<o, f>> \in Account
      BY DEF Account
    <3>2. w[f] = Window[<<o, f>>][d]
      OBVIOUS
    <3>3. DOMAIN Window[<<o, f>>][d] = K
      BY <3>1 DEF Window
    <3>4. \A age \in K : Window[<<o, f>>][d][age] = CountedBytes(<<o, f>>, d, age)
      BY <3>1, WindowTable
    <3>5. s[f] = Meter!SumFunction(Window[<<o, f>>][d])
      OBVIOUS
    <3> HIDE DEF w, s, K
    <3> QED
      BY <3>2, <3>3, <3>4, <3>5
  <2>2. DOMAIN s = Flows
    OBVIOUS
  <2> HIDE DEF w, s, K
  <2>3. \A f \in Flows : s[f] = SumFunctionOnSet(w[f], K)
    BY <2>1, MeterSums DEF SumFunction
  <2>4. ReportedBytes(o, d)' = SumFunctionOnSet(s, Flows) % U32
    <3>1. \A f \in Flows, age \in 0 .. PERIOD - 1 : w[f][age] = CountedBytes(<<o, f>>, d, age)
      BY <2>1 DEF K
    <3>2. \A f \in Flows : s[f] = SumFunctionOnSet(w[f], 0 .. PERIOD - 1)
      BY <2>3 DEF K
    <3> QED
      BY <3>1, <3>2, RefreshReports
  <2>5. Meter!SumFunction(s) = SumFunctionOnSet(s, Flows)
    BY <2>2, MeterSums DEF SumFunction
  <2> QED
    BY <2>4, <2>5 DEF s
<1>4. Reports' = [o \in Owner |-> [d \in Direction |-> Meter!SumFunction(sums(o, d)) % U32]]
  <2>1. Reports' = [o \in Owner |-> [d \in Direction |-> ReportedBytes(o, d)']]
    BY DEF Reports
  <2> HIDE DEF sums
  <2>2. \A o \in Owner :
          [d \in Direction |-> ReportedBytes(o, d)']
            = [d \in Direction |-> Meter!SumFunction(sums(o, d)) % U32]
    BY <1>3
  <2>3. [o \in Owner |-> [d \in Direction |-> ReportedBytes(o, d)']]
          = [o \in Owner |-> [d \in Direction |-> Meter!SumFunction(sums(o, d)) % U32]]
    BY <2>2
  <2> QED
    BY <2>1, <2>3
<1>5. now' = now /\ buffer' = buffer
  BY DEF do_refresh
<1> QED
  BY <1>2, <1>4, <1>5, MeterNames DEF Meter!Publish, Window, Reports

\* Each step of the accounting is one of the meter, or one the meter does not see.
LEMMA MeterStep ==
  ASSUME MeterConditions, MeterInv, MeterInv', [Next]_vars
  PROVE  Meter!MeterNext \/ UNCHANGED <<now, buffer, Window, Reports>>
<1>1. CASE push_packet
  <2>1. 1 \in Iface
    BY AnalyzerAssumption DEF Iface
  <2> QED
    BY <1>1, <2>1, PushIsCount DEF Meter!MeterNext
<1>2. CASE Tick
  BY <1>2, TickIsSecond DEF Meter!MeterNext
<1>3. CASE do_refresh
  BY <1>3, RefreshIsPublish DEF Meter!MeterNext
<1>4. CASE SetBack
  <2>1. MaxBack = 0
    BY DEF MeterConditions
  <2>2. 1 .. MaxBack = {}
    BY <2>1
  <2> QED
    BY <1>4, <2>2 DEF SetBack
<1>5. CASE UNCHANGED <<now, buffer, connections, processes, report>>
  BY <1>5 DEF Window, Reports, CountedBytes, ReportedBytes, ConnectionsIn, ConnectionsOf,
              BytesAged
<1>6. CASE \E i \in Iface : Capture(i)
  BY <1>6, CaptureIsArrive DEF Meter!MeterNext
<1>7. CASE DispatchDone
  BY <1>5, <1>7 DEF DispatchDone
<1>8. CASE UNCHANGED vars
  BY <1>5, <1>8 DEF vars
<1> QED
  BY <1>1, <1>2, <1>3, <1>4, <1>6, <1>7, <1>8 DEF Next

\* With one device, a clock that is not set back and IPv4 packets, the analyzer does
\* what the traffic meter promises: push_packet() takes each captured packet once and
\* counts it in its flow, its direction and its second, for the one owner the flow
\* counts for; and each refresh reports, modulo the width of the counters, the bytes of
\* the last PERIOD seconds, whatever connections and processes come and go
\* (na-connection.c, na-process.c, na-pcap.c).
THEOREM AnalyzerIsAMeter ==
  ASSUME MeterConditions
  PROVE  Spec => ReportIsTheWindow
<1>1. Init => Meter!MeterInit
  BY MeterStarts
<1>2. MeterInv /\ MeterInv' /\ [Next]_vars
        => Meter!MeterNext \/ UNCHANGED <<now, buffer, Window, Reports>>
  BY MeterStep
<1>3. MeterInv /\ MeterInv' /\ [Next]_vars => [Meter!MeterNext]_(Meter!meter)
  BY <1>2 DEF Meter!meter, Window, Reports
<1>4. Spec => []MeterInv
  BY MeterInvariant
<1> QED
  BY <1>1, <1>3, <1>4, PTL DEF Spec, ReportIsTheWindow, Meter!Meter

\* The view does nothing to the analyzer: with it the analyzer does what it does alone,
\* so every theorem about Spec is one about UsageSpec.
THEOREM ViewOnlyWatches == UsageSpec => Spec
<1>1. UsageInit => Init
  BY DEF UsageInit
<1>2. [UsageNext]_usageVars => [Next]_vars
  BY DEF UsageNext, Next, usageVars, RefreshAndEmit, usage_changed
<1> QED
  BY <1>1, <1>2, PTL DEF UsageSpec, Spec

-----------------------------------------------------------------------------
(* The order of the list, for any report whose bytes are 32-bit counters.   *)

\* The sort numbers of processes stay below that of the header, whatever a counter
\* holds.  With the values of the code they are below 84 million.
SortIdsFit == \A recv \in 0 .. U32 - 1 : SortId(recv) \in 0 .. INT_MAX - 3

\* An int that is in range stays as it is.
LEMMA Int32Exact ==
  ASSUME NEW n \in - INT_MAX - 1 .. INT_MAX
  PROVE  Int32(n) = n
<1>1. /\ INT_MAX \in Nat /\ n + INT_MAX + 1 \in Nat
      /\ n + INT_MAX + 1 < 2 * (INT_MAX + 1)
  BY ListAssumption
<1>2. (n + INT_MAX + 1) % (2 * (INT_MAX + 1)) = n + INT_MAX + 1
  BY <1>1
<1> QED
  BY <1>1, <1>2 DEF Int32

\* The sort numbers of each kind of row.
LEMMA SortIdsOf ==
  ASSUME SortIdsFit, NEW infos,
         \A p \in DOMAIN infos : infos[p].recv \in 0 .. U32 - 1,
         NEW r \in RowsOf(infos)
  PROVE  \/ r = HeaderRow /\ r.kind = "header" /\ r.sort_id = INT_MAX - 2
         \/ r = TotalRow(infos) /\ r.kind = "total" /\ r.sort_id = -2
         \/ r = UnknownRow(infos) /\ r.kind = "unknown" /\ r.sort_id = -1
         \/ /\ r.kind = "process" /\ r.sort_id \in 0 .. INT_MAX - 3
            /\ r.sort_id = SortId(r.recv)
<1>1. CASE r = HeaderRow
  BY <1>1 DEF HeaderRow, NetworkListRow
<1>2. CASE r = TotalRow(infos)
  BY <1>2 DEF TotalRow, NetworkListRow
<1>3. CASE r = UnknownRow(infos)
  BY <1>3 DEF UnknownRow, NetworkListRow
<1>4. ASSUME NEW p \in DOMAIN infos, r = ProcessRow(infos[p])
      PROVE  /\ r.kind = "process" /\ r.sort_id \in 0 .. INT_MAX - 3
             /\ r.sort_id = SortId(r.recv)
  <2>1. r.kind = "process" /\ r.sort_id = SortId(infos[p].recv) /\ r.recv = infos[p].recv
    BY <1>4 DEF ProcessRow, NetworkListRow
  <2> QED
    BY <1>4, <2>1 DEF SortIdsFit
<1> QED
  BY <1>1, <1>2, <1>3, <1>4 DEF RowsOf

\* Whatever a signal of the daemon says, the list made of it is in order: the 32-bit
\* difference of the sort numbers never wraps (the sort function of the list box in
\* usage-network-view.vala).
THEOREM AnyReportIsInOrder ==
  ASSUME SortIdsFit, NEW infos,
         \A p \in DOMAIN infos : infos[p].recv \in 0 .. U32 - 1
  PROVE  InOrder(RowsOf(infos))
<1> SUFFICES ASSUME NEW a \in RowsOf(infos), NEW b \in RowsOf(infos)
             PROVE  /\ a.kind = "header" /\ b # a => compare(a, b) < 0
                    /\ b.kind = "total" /\ b # a => compare(a, b) < 0
                    /\ a.kind = "process" /\ b.kind = "unknown" => compare(a, b) < 0
                    /\ a.kind = "process" /\ b.kind = "process"
                       /\ SortId(a.recv) > SortId(b.recv) => compare(a, b) < 0
  BY DEF InOrder
<1> DEFINE kindOf(r) ==
      \/ r = HeaderRow /\ r.kind = "header" /\ r.sort_id = INT_MAX - 2
      \/ r = TotalRow(infos) /\ r.kind = "total" /\ r.sort_id = -2
      \/ r = UnknownRow(infos) /\ r.kind = "unknown" /\ r.sort_id = -1
      \/ /\ r.kind = "process" /\ r.sort_id \in 0 .. INT_MAX - 3
         /\ r.sort_id = SortId(r.recv)
<1>1. kindOf(a) /\ kindOf(b)
  BY SortIdsOf
<1>2. a.sort_id \in - 2 .. INT_MAX - 2 /\ b.sort_id \in - 2 .. INT_MAX - 2
  BY <1>1, ListAssumption
<1>3. b.sort_id - a.sort_id \in - INT_MAX - 1 .. INT_MAX
  BY <1>2, ListAssumption
<1>4. compare(a, b) = b.sort_id - a.sort_id
  BY <1>3, Int32Exact DEF compare
<1> QED
  BY <1>1, <1>2, <1>4, ListAssumption

-----------------------------------------------------------------------------
(* The rows of the last report.                                            *)

\* The reports: the rows of finitely many processes, of different pids, with 32-bit
\* counters.
ReportRow == [pid : Owner, sent : 0 .. U32 - 1, recv : 0 .. U32 - 1]

Reported ==
  {infos \in UNION {[D -> ReportRow] : D \in SUBSET ProcId} :
     /\ IsFiniteSet(DOMAIN infos)
     /\ \A p, q \in DOMAIN infos : infos[p].pid = infos[q].pid /\ infos[p].pid # 0 => p = q}

\* What was reported of the processes that are still there: one that has no connections
\* since then had no bytes.
ReportIsOfProcesses ==
  /\ report \in Reported
  /\ \A p \in DOMAIN report :
       /\ p \in DOMAIN processes /\ processes[p].pid = report[p].pid
       /\ processes[p].conns = {} => report[p].sent = 0 /\ report[p].recv = 0
  /\ \A p \in DOMAIN processes : processes[p].conns = {} => p \in DOMAIN report

ReportInv == OwnedInv /\ FinitelyMany /\ OneProcessPerPid /\ ReportIsOfProcesses

LEMMA ReportedType ==
  ASSUME NEW infos \in Reported
  PROVE  /\ DOMAIN infos \subseteq ProcId /\ IsFiniteSet(DOMAIN infos)
         /\ \A p \in DOMAIN infos :
              infos[p].pid \in Owner /\ \A d \in Direction : infos[p][d] \in 0 .. U32 - 1
         /\ \A p, q \in DOMAIN infos : infos[p].pid = infos[q].pid /\ infos[p].pid # 0 => p = q
<1>1. PICK D \in SUBSET ProcId : infos \in [D -> ReportRow]
  BY DEF Reported
<1>2. \A p \in DOMAIN infos : infos[p] \in ReportRow /\ p \in ProcId
  BY <1>1
<1> QED
  BY <1>2 DEF Reported, ReportRow, Direction

\* The sum of the lengths in a list is a counter.
LEMMA SumFits ==
  ASSUME NEW list \in PacketList, NEW t
  PROVE  na_packet_list_sum_packets(list, t) \in 0 .. U32 - 1
<1> DEFINE kept == na_packet_list_kept(list, t)
           f == [i \in DOMAIN kept |-> kept[i].len]
           n == SumFunction(f)
<1>1. kept \in PacketList
  BY KeptType
<1>2. IsFiniteSet(DOMAIN kept) /\ \A i \in DOMAIN kept : kept[i].len \in Nat
  <2> HIDE DEF kept
  <2> QED
    BY <1>1, EntryTypes
<1>3. DOMAIN f = DOMAIN kept /\ \A i \in DOMAIN f : f[i] \in Int
  BY <1>2
<1>4. na_packet_list_sum_packets(list, t) = n % U32
  BY DEF na_packet_list_sum_packets
<1> HIDE DEF f
<1>5. n \in Int
  BY <1>2, <1>3, SumBasics DEF SumFunction
<1> HIDE DEF n
<1> QED
  BY <1>4, <1>5, AgesAreFinite, DivMod

\* So is what a process reports, and it is zero when no connection of it stays.
LEMMA RowFits ==
  ASSUME TypeOK, OwnersApart, IsFiniteSet(DOMAIN connections),
         NEW d \in Direction, NEW p \in DOMAIN processes
  PROVE  /\ na_process_sum_connections(p, d) \in 0 .. U32 - 1
         /\ (\A c \in processes[p].conns : Stalled(c)) => na_process_sum_connections(p, d) = 0
<1> DEFINE live == {x \in processes[p].conns : ~ Stalled(x)}
           f == [c \in live |-> na_connection_sum_packets(connections[c], d, now)]
           n == SumFunction(f)
<1>1. processes[p].conns \in SUBSET DOMAIN connections /\ IsFiniteSet(processes[p].conns)
  BY FS_Subset DEF OwnersApart
<1>2. IsFiniteSet(live)
  BY <1>1, FS_Subset
<1>3. ASSUME NEW c \in live PROVE f[c] \in Int
  <2>1. connections[c].packets[d] \in PacketList
    BY <1>1 DEF TypeOK, Connection
  <2>2. na_packet_list_sum_packets(connections[c].packets[d], now) \in 0 .. U32 - 1
    BY <2>1, SumFits
  <2> QED
    BY <2>2, AgesAreFinite DEF na_connection_sum_packets
<1>4. DOMAIN f = live
  OBVIOUS
<1>5. na_process_sum_connections(p, d) = n % U32
  BY DEF na_process_sum_connections
<1>6. (\A c \in processes[p].conns : Stalled(c)) => live = {}
  OBVIOUS
<1> HIDE DEF f, live
<1>7. n \in Int /\ (live = {} => n = 0)
  BY <1>2, <1>3, <1>4, SumBasics DEF SumFunction
<1> HIDE DEF n
<1>8. n % U32 \in 0 .. U32 - 1 /\ 0 % U32 = 0
  BY <1>7, AgesAreFinite, DivMod
<1> QED
  BY <1>5, <1>6, <1>7, <1>8

LEMMA ReportInit == Init => ReportInv
<1> SUFFICES ASSUME Init PROVE ReportInv
  OBVIOUS
<1>1. FinitelyMany
  BY FS_EmptySet DEF Init, FinitelyMany
<1>2. OneProcessPerPid
  BY DEF Init, OneProcessPerPid
<1>3. report \in Reported
  <2>1. report \in [{} -> ReportRow] /\ DOMAIN report = {}
    BY DEF Init
  <2> QED
    BY <2>1, FS_EmptySet DEF Reported
<1>4. ReportIsOfProcesses
  BY <1>3 DEF Init, ReportIsOfProcesses
<1> QED
  BY <1>1, <1>2, <1>4, OwnedInit DEF ReportInv

LEMMA RefreshedReport ==
  ASSUME ReportInv, do_refresh
  PROVE  ReportIsOfProcesses'
<1> DEFINE kept  == {p \in DOMAIN processes : ~ TimedOut(p)}
           freed == {c \in UNION {processes[p].conns : p \in kept} : Stalled(c)}
           row(p) == [pid  |-> processes[p].pid,
                      sent |-> na_process_sum_connections(p, "sent"),
                      recv |-> na_process_sum_connections(p, "recv")]
<1>1. /\ report' = [p \in kept |-> row(p)]
      /\ DOMAIN processes' = kept
      /\ \A p \in kept : /\ processes'[p].conns = processes[p].conns \ freed
                         /\ processes'[p].pid = processes[p].pid
  BY DEF do_refresh, na_process_info_get_all, ReportInv, OwnedInv, TypeOK, Process
<1>2. \A c \in freed : Stalled(c)
  OBVIOUS
<1>3. kept \in SUBSET DOMAIN processes /\ kept \in SUBSET ProcId /\ IsFiniteSet(kept)
  <2>1. kept \in SUBSET DOMAIN processes /\ kept \in SUBSET ProcId
    BY DEF ReportInv, OwnedInv, TypeOK
  <2> QED
    BY <2>1, FS_Subset DEF ReportInv, FinitelyMany
<1> HIDE DEF kept, freed
<1>4. \A p \in kept : /\ row(p) \in ReportRow /\ row(p).pid = processes[p].pid
                      /\ processes'[p].conns = {} => row(p).sent = 0 /\ row(p).recv = 0
  <2> SUFFICES ASSUME NEW p \in kept
               PROVE  /\ row(p) \in ReportRow /\ row(p).pid = processes[p].pid
                      /\ processes'[p].conns = {} => row(p).sent = 0 /\ row(p).recv = 0
    OBVIOUS
  <2>1. p \in DOMAIN processes /\ processes[p].pid \in Owner
    BY <1>3 DEF ReportInv, OwnedInv, TypeOK, Process
  <2>2. processes'[p].conns = {} => \A c \in processes[p].conns : Stalled(c)
    BY <1>1, <1>2
  <2>3. "sent" \in Direction /\ "recv" \in Direction
    BY DEF Direction
  <2>4. /\ row(p).sent \in 0 .. U32 - 1 /\ row(p).recv \in 0 .. U32 - 1
        /\ processes'[p].conns = {} => row(p).sent = 0 /\ row(p).recv = 0
    BY <2>1, <2>2, <2>3, RowFits
       DEF ReportInv, OwnedInv, FinitelyMany, EveryConnectionOwned, OwnersApart
  <2> QED
    BY <2>1, <2>4 DEF ReportRow
<1> DEFINE r == [p \in kept |-> row(p)]
<1>5. /\ DOMAIN r = kept
      /\ \A p \in kept : r[p] = row(p)
  OBVIOUS
<1> HIDE DEF row
<1>6. r \in [kept -> ReportRow]
  BY <1>4
<1> HIDE DEF r
<1>7. \A p, q \in kept : r[p].pid = r[q].pid /\ r[p].pid # 0 => p = q
  <2>1. \A p \in kept : r[p].pid = processes[p].pid
    BY <1>4, <1>5
  <2> QED
    BY <1>3, <2>1 DEF ReportInv, OneProcessPerPid
<1>8. r \in Reported
  BY <1>3, <1>5, <1>6, <1>7 DEF Reported
<1>9. report' = r
  BY <1>1 DEF r
<1>10. /\ \A p \in DOMAIN r :
            /\ p \in DOMAIN processes' /\ processes'[p].pid = r[p].pid
            /\ processes'[p].conns = {} => r[p].sent = 0 /\ r[p].recv = 0
       /\ DOMAIN processes' = DOMAIN r
  BY <1>1, <1>4, <1>5
<1> QED
  BY <1>8, <1>9, <1>10 DEF ReportIsOfProcesses

LEMMA ReportStep ==
  ASSUME Timely, ReportInv, [Next]_vars
  PROVE  ReportInv'
<1>1. OwnedInv' /\ FinitelyMany' /\ OneProcessPerPid'
  <2>1. OneProcessPerPid'
    BY ProcessStep DEF ReportInv, OwnedInv
  <2> QED
    BY <2>1, OwnedStep, FiniteStep DEF ReportInv
<1>2. ReportIsOfProcesses'
  <2>1. CASE do_refresh
    BY <2>1, RefreshedReport
  <2>2. CASE PushNew
    <3>0. PICK o \in Owner, c \in ConnId :
            \E p \in na_process_find_from_connection(o) : processes' = AddToProcess(p, o, c)
      BY <2>2 DEF PushNew
    <3>1. PICK p \in na_process_find_from_connection(o) : processes' = AddToProcess(p, o, c)
      BY <3>0
    <3>2. /\ DOMAIN processes' = DOMAIN processes \cup {p} /\ processes'[p].conns # {}
          /\ p \in DOMAIN processes => processes'[p].pid = processes[p].pid
          /\ \A q \in DOMAIN processes : q # p => processes'[q] = processes[q]
      <4>1. CASE p \in DOMAIN processes
        BY <3>1, <4>1 DEF AddToProcess, ReportInv, OwnedInv, TypeOK, Process
      <4>2. CASE p \notin DOMAIN processes
        BY <3>1, <4>2 DEF AddToProcess, With
      <4> QED
        BY <4>1, <4>2
    <3>3. report' = report
      BY <2>2 DEF PushNew
    <3> QED
      BY <3>2, <3>3 DEF ReportInv, ReportIsOfProcesses
  <2>3. CASE UNCHANGED <<processes, report>>
    BY <2>3 DEF ReportInv, ReportIsOfProcesses
  <2>4. CASE PushKnown
    BY <2>3, <2>4 DEF PushKnown
  <2>5. CASE ~ push_packet /\ ~ do_refresh
    BY <2>3, <2>5, MeterStepUnchanged
  <2> QED
    BY <2>1, <2>2, <2>4, <2>5 DEF push_packet
<1> QED
  BY <1>1, <1>2 DEF ReportInv

-----------------------------------------------------------------------------
(* What the list shows.                                                    *)

\* What a report says of an owner, and what a list shows for one.
RowsFor(infos, o) == {q \in DOMAIN infos : infos[q].pid = o}

BytesFor(infos, d) == [p \in DOMAIN infos |-> infos[p][d]]

SaysOf(infos, o, d) == SumOf(infos, RowsFor(infos, o), d) % U32

ShownFor(list, o) == {x \in list : x.pid = o /\ x.kind \in {"process", "unknown"}}

ShownIn(list, o, d) == SumFunction([r \in ShownFor(list, o) |-> r[d]]) % U32

LEMMA NothingSaid ==
  ASSUME NEW f, DOMAIN f = {}
  PROVE  SumFunction(f) % U32 = 0
<1>1. SumFunction(f) = 0
  BY SumBasics, FS_EmptySet DEF SumFunction
<1>2. 0 % U32 = 0
  BY ConnectionAssumption
<1> QED
  BY <1>1, <1>2

LEMMA OneSaid ==
  ASSUME NEW f, NEW x, DOMAIN f = {x}, f[x] \in Int
  PROVE  SumFunction(f) = f[x]
<1>1. IsFiniteSet({x})
  BY FS_Singleton
<1>2. SumFunctionOnSet(f, {x}) = f[x] + SumFunctionOnSet(f, {x} \ {x}) /\ SumFunctionOnSet(f, {}) = 0
  BY <1>1, SumBasics
<1>3. {x} \ {x} = {}
  OBVIOUS
<1> QED
  BY <1>2, <1>3 DEF SumFunction

LEMMA SaysType ==
  ASSUME NEW infos \in Reported, NEW o, NEW d \in Direction
  PROVE  /\ SumOf(infos, RowsFor(infos, o), d) \in Nat
         /\ SumOf(infos, RowsFor(infos, o), d)
              = SumFunctionOnSet(BytesFor(infos, d), RowsFor(infos, o))
         /\ IsFiniteSet(RowsFor(infos, o)) /\ RowsFor(infos, o) \subseteq DOMAIN infos
         /\ \A p \in DOMAIN infos : infos[p][d] \in Nat
<1> DEFINE S == RowsFor(infos, o)
           f == BytesFor(infos, d)
           h == [p \in S |-> infos[p][d]]
<1>1. S \subseteq DOMAIN infos /\ IsFiniteSet(S)
  BY ReportedType, FS_Subset DEF RowsFor
<1>2. \A p \in DOMAIN infos : infos[p][d] \in Nat
  BY ReportedType, AgesAreFinite
<1>3. DOMAIN h = S /\ \A p \in S : h[p] \in Nat /\ f[p] \in Int /\ h[p] = f[p]
  BY <1>1, <1>2 DEF BytesFor
<1> HIDE DEF f, h, S
<1>4. SumFunctionOnSet(h, S) \in Nat
  BY <1>1, <1>3, SumNat
<1>5. SumFunctionOnSet(h, S) = SumFunctionOnSet(f, S)
  BY <1>1, <1>3, SumSame
<1>6. SumFunction(h) = SumFunctionOnSet(h, S)
  BY <1>3 DEF SumFunction
<1> QED
  BY <1>1, <1>2, <1>4, <1>5, <1>6 DEF f, h, S, SumOf

LEMMA RowFields ==
  ASSUME NEW infos
  PROVE  /\ HeaderRow.kind = "header"
         /\ TotalRow(infos).kind = "total"
         /\ UnknownRow(infos).kind = "unknown" /\ UnknownRow(infos).pid = 0
         /\ \A d \in Direction :
              /\ UnknownRow(infos)[d] = SumOf(infos, RowsFor(infos, 0), d)
              /\ TotalRow(infos)[d] = SumOf(infos, DOMAIN infos, d)
         /\ \A p \in DOMAIN infos :
              LET r == ProcessRow(infos[p])
              IN  r.kind = "process" /\ r.pid = infos[p].pid
                  /\ \A d \in Direction : r[d] = infos[p][d]
<1>1. HeaderRow.kind = "header"
  BY DEF HeaderRow, NetworkListRow
<1>2. TotalRow(infos).kind = "total"
  BY DEF TotalRow, NetworkListRow
<1>3. UnknownRow(infos).kind = "unknown" /\ UnknownRow(infos).pid = 0
  BY DEF UnknownRow, NetworkListRow
<1>4. ASSUME NEW d \in Direction
      PROVE  /\ UnknownRow(infos)[d] = SumOf(infos, RowsFor(infos, 0), d)
             /\ TotalRow(infos)[d] = SumOf(infos, DOMAIN infos, d)
  <2>1. UnknownRow(infos)[d] = SumOf(infos, Unknown(infos), d)
    BY DEF UnknownRow, NetworkListRow, Direction
  <2>2. TotalRow(infos)[d] = SumOf(infos, DOMAIN infos, d)
    BY DEF TotalRow, NetworkListRow, Direction
  <2> QED
    BY <2>1, <2>2 DEF Unknown, RowsFor
<1>5. ASSUME NEW p \in DOMAIN infos
      PROVE  LET r == ProcessRow(infos[p])
             IN  r.kind = "process" /\ r.pid = infos[p].pid
                 /\ \A d \in Direction : r[d] = infos[p][d]
  BY DEF ProcessRow, NetworkListRow, Direction
<1> QED
  BY <1>1, <1>2, <1>3, <1>4, <1>5

\* The list made of a report shows for each owner what the report says of it.
LEMMA RowsSay ==
  ASSUME NEW infos \in Reported, NEW o \in Owner, NEW d \in Direction
  PROVE  ShownIn(RowsOf(infos), o, d) = SaysOf(infos, o, d)
<1> DEFINE S == RowsFor(infos, o)
           F == ShownFor(RowsOf(infos), o)
           f == [p \in S |-> infos[p][d]]
           h == [r \in F |-> r[d]]
<1>0. DOMAIN f = S /\ DOMAIN h = F
  OBVIOUS
<1>3. /\ HeaderRow.kind = "header" /\ HeaderRow.pid = 0 /\ TotalRow(infos).kind = "total"
      /\ UnknownRow(infos).kind = "unknown" /\ UnknownRow(infos).pid = 0
      /\ \A e \in Direction : UnknownRow(infos)[e] = SumOf(infos, RowsFor(infos, 0), e)
      /\ \A p \in DOMAIN infos :
           /\ ProcessRow(infos[p]).kind = "process" /\ ProcessRow(infos[p]).pid = infos[p].pid
           /\ \A e \in Direction : ProcessRow(infos[p])[e] = infos[p][e]
  BY RowFields DEF HeaderRow, NetworkListRow
<1>1. CASE o # 0
  <2>1. F = {ProcessRow(infos[p]) : p \in S}
    <3>1. \A x \in F : \E p \in S : x = ProcessRow(infos[p])
      BY <1>1, <1>3 DEF ShownFor, RowsOf, RowsFor
    <3>2. \A p \in S : ProcessRow(infos[p]) \in F
      BY <1>1, <1>3 DEF ShownFor, RowsOf, RowsFor, Unknown
    <3> QED
      BY <3>1, <3>2
  <2>2. CASE S = {}
    <3>1. F = {}
      BY <2>1, <2>2
    <3> HIDE DEF f, h, S, F
    <3>2. SumFunction(f) % U32 = 0 /\ SumFunction(h) % U32 = 0
      BY <1>0, <2>2, <3>1, NothingSaid
    <3> QED
      BY <3>2 DEF f, h, S, F, ShownIn, SaysOf, SumOf
  <2>3. CASE S # {}
    <3>1. PICK p \in S : TRUE
      BY <2>3
    <3>2. S = {p} /\ p \in DOMAIN infos
      BY <1>1, <3>1, ReportedType DEF RowsFor
    <3> DEFINE r == ProcessRow(infos[p])
    <3>3. F = {r}
      BY <2>1, <3>2
    <3>4. f[p] \in Int /\ f[p] = infos[p][d]
      BY <3>1, <3>2, SaysType
    <3>5. h[r] = infos[p][d]
      BY <3>2, <3>3, <1>3
    <3> HIDE DEF f, h, r, S, F
    <3>6. SumFunction(f) = f[p] /\ SumFunction(h) = h[r]
      BY <1>0, <3>2, <3>3, <3>4, <3>5, OneSaid
    <3> QED
      BY <3>4, <3>5, <3>6 DEF f, h, S, F, ShownIn, SaysOf, SumOf
  <2> QED
    BY <2>2, <2>3
<1>2. CASE o = 0
  <2> DEFINE u == UnknownRow(infos)
             n == SumOf(infos, S, d)
  <2>1. F = {r \in {u} : r.recv > 0 \/ r.sent > 0}
    <3>1. \A x \in F : x = u /\ (x.recv > 0 \/ x.sent > 0)
      <4> SUFFICES ASSUME NEW x \in F PROVE x = u /\ (x.recv > 0 \/ x.sent > 0)
        OBVIOUS
      <4>1. x \in RowsOf(infos) /\ x.pid = 0 /\ x.kind \in {"process", "unknown"}
        BY <1>2 DEF ShownFor
      <4>2. ~ \E p \in DOMAIN infos \ Unknown(infos) : x = ProcessRow(infos[p])
        BY <4>1, <1>3 DEF Unknown
      <4>3. x # HeaderRow /\ x # TotalRow(infos)
        BY <4>1, <1>3
      <4> QED
        BY <4>1, <4>2, <4>3 DEF RowsOf
    <3>2. u.recv > 0 \/ u.sent > 0 => u \in F
      BY <1>2, <1>3 DEF ShownFor, RowsOf
    <3> HIDE DEF F, u
    <3> QED
      BY <3>1, <3>2
  <2>2. \A e \in Direction : u[e] \in Nat
    BY <1>3, SaysType
  <2>3. u[d] = n
    BY <1>2, <1>3
  <2>4. n \in Nat
    BY SaysType
  <2>5. CASE F = {}
    <3>1. "recv" \in Direction /\ "sent" \in Direction /\ u.recv = 0 /\ u.sent = 0
      <4> HIDE DEF F, u
      <4>1. "recv" \in Direction /\ "sent" \in Direction
        BY DEF Direction
      <4>2. u.recv \in Nat /\ u.sent \in Nat
        BY <2>2, <4>1
      <4> QED
        BY <2>1, <2>5, <4>1, <4>2
    <3>2. u[d] = 0
      BY <3>1 DEF Direction
    <3> HIDE DEF f, h, S, F, u, n
    <3>3. SumFunction(h) % U32 = 0
      BY <1>0, <2>5, NothingSaid
    <3>4. n % U32 = 0
      BY <2>3, <3>2, ConnectionAssumption
    <3> QED
      BY <3>3, <3>4 DEF f, h, S, F, n, ShownIn, SaysOf
  <2>6. CASE F # {}
    <3>1. F = {u}
      <4> HIDE DEF F, u
      <4> QED
        BY <2>1, <2>6
    <3>2. h[u] = u[d]
      BY <3>1
    <3> HIDE DEF f, h, S, F, u, n
    <3>3. SumFunction(h) = n
      BY <1>0, <2>3, <2>4, <3>1, <3>2, OneSaid
    <3> QED
      BY <3>3 DEF f, h, S, F, n, ShownIn, SaysOf
  <2> QED
    BY <2>5, <2>6
<1> QED
  BY <1>1, <1>2

\* And in its last row the sum of all that.
LEMMA TotalSays ==
  ASSUME NEW infos \in Reported, IsFiniteSet(Owner), NEW d \in Direction,
         NEW r \in RowsOf(infos), r.kind = "total"
  PROVE  r[d] % U32 = SumFunction([o \in Owner |-> SaysOf(infos, o, d)]) % U32
<1> DEFINE f == BytesFor(infos, d)
           part == [o \in Owner |-> RowsFor(infos, o)]
           sums == [o \in Owner |-> SumFunctionOnSet(f, RowsFor(infos, o))]
           says == [o \in Owner |-> SaysOf(infos, o, d)]
<1>1. r[d] = SumFunctionOnSet(f, DOMAIN infos)
  <2>1. r = TotalRow(infos)
    BY RowFields DEF RowsOf
  <2>2. r[d] = SumFunction(f)
    BY <2>1, RowFields DEF SumOf, BytesFor
  <2> QED
    BY <2>2 DEF SumFunction, BytesFor
<1>2. \A o \in Owner : /\ IsFiniteSet(part[o]) /\ part[o] = RowsFor(infos, o)
                       /\ \A p \in part[o] : f[p] \in Int
                       /\ sums[o] = SumFunctionOnSet(f, part[o])
                       /\ sums[o] \in Nat /\ says[o] = sums[o] % U32
  BY SaysType DEF SaysOf, BytesFor
<1>3. \A o, q \in Owner : part[o] \cap part[q] # {} => o = q
  BY DEF RowsFor
<1>4. UNION {part[o] : o \in Owner} = DOMAIN infos
  <2>1. \A p \in DOMAIN infos : infos[p].pid \in Owner
    BY ReportedType
  <2> QED
    BY <2>1 DEF RowsFor
<1>5. DOMAIN says = Owner
  OBVIOUS
<1> HIDE DEF f, part, sums, says
<1>6. SumFunctionOnSet(sums, Owner) = SumFunctionOnSet(f, DOMAIN infos)
  BY <1>2, <1>3, <1>4, SumParts
<1>7. ASSUME NEW o \in Owner
      PROVE  sums[o] \in Int /\ says[o] \in Int /\ says[o] % U32 = sums[o] % U32
  <2> DEFINE n == sums[o]
  <2>1. n \in Int /\ says[o] = n % U32
    BY <1>2
  <2> HIDE DEF n
  <2>2. n % U32 \in 0 .. U32 - 1 /\ (n % U32) % U32 = n % U32
    BY <2>1, AgesAreFinite, DivMod, ModTwice
  <2> QED
    BY <2>1, <2>2, AgesAreFinite DEF n
<1>8. SumFunctionOnSet(says, Owner) % U32 = SumFunctionOnSet(sums, Owner) % U32
  BY <1>7, AgesAreFinite, SumModulo
<1>9. SumFunction(says) = SumFunctionOnSet(says, Owner)
  BY <1>5 DEF SumFunction
<1> QED
  BY <1>1, <1>6, <1>8, <1>9 DEF says

LEMMA ReportSays ==
  \A o, d : /\ ReportedBytes(o, d) = SaysOf(report, o, d)
            /\ ReportedBytes(o, d)' = SaysOf(report', o, d)
BY DEF ReportedBytes, SaysOf, SumOf, RowsFor

LEMMA AllZero ==
  ASSUME NEW infos \in Reported, NEW o, NEW d \in Direction,
         \A p \in DOMAIN infos : infos[p][d] = 0
  PROVE  SaysOf(infos, o, d) = 0
<1> DEFINE f == BytesFor(infos, d)
           S == RowsFor(infos, o)
<1>1. IsFiniteSet(S) /\ \A p \in S : f[p] = 0
  BY SaysType DEF BytesFor
<1> HIDE DEF f, S
<1>2. SumFunctionOnSet(f, S) = 0
  BY <1>1, SumZero
<1>3. SumOf(infos, S, d) = 0
  BY <1>2, SaysType DEF f, S
<1>4. 0 % U32 = 0
  BY ConnectionAssumption
<1> QED
  BY <1>3, <1>4 DEF SaysOf, S

\* A report without rows, for which no signal is sent, comes after one of zeros.
LEMMA NothingToReport ==
  ASSUME ReportInv, do_refresh, DOMAIN report' = {}, NEW o, NEW d \in Direction
  PROVE  ReportedBytes(o, d) = 0 /\ ReportedBytes(o, d)' = 0
<1>1. \A p \in DOMAIN processes : TimedOut(p)
  BY DEF do_refresh, na_process_info_get_all
<1>2. \A p \in DOMAIN processes : processes[p].conns = {}
  BY <1>1, TimedOutIsEmpty DEF ReportInv
<1>3. \A p \in DOMAIN report : report[p][d] = 0
  BY <1>2 DEF ReportInv, ReportIsOfProcesses, Direction
<1>4. SaysOf(report, o, d) = 0
  BY <1>3, AllZero DEF ReportInv, ReportIsOfProcesses
<1> DEFINE f == [p \in RowsFor(report', o) |-> report'[p][d]]
<1>5. DOMAIN f = {}
  BY DEF RowsFor
<1> HIDE DEF f
<1>6. SumFunction(f) % U32 = 0
  BY <1>5, NothingSaid
<1> QED
  BY <1>4, <1>6, ReportSays DEF SaysOf, SumOf, f

-----------------------------------------------------------------------------
(* The signals and the list.                                               *)

\* The report infos says what the last one says, which may be without rows.
Shows(infos) ==
  \A o \in Owner, d \in Direction : SaysOf(infos, o, d) = ReportedBytes(o, d)

\* The signal sent last, or the list if all were handled, shows the last report.
LastIsShown ==
  IF signals # <<>> THEN Shows(signals[Len(signals)])
  ELSE IF rows = {} THEN \A o \in Owner, d \in Direction : ReportedBytes(o, d) = 0
  ELSE \E infos \in Reported : rows = RowsOf(infos) /\ Shows(infos)

ListInv ==
  /\ ReportInv
  /\ signals \in Seq(Reported)
  /\ rows = {} \/ \E infos \in Reported : rows = RowsOf(infos)
  /\ LastIsShown

LEMMA ListInit == UsageInit => ListInv
<1> SUFFICES ASSUME UsageInit PROVE ListInv
  OBVIOUS
<1>1. report = <<>> /\ signals = <<>> /\ rows = {} /\ ReportInv
  BY ReportInit DEF UsageInit, Init
<1>2. ASSUME NEW o \in Owner, NEW d \in Direction PROVE ReportedBytes(o, d) = 0
  <2>1. \A p \in DOMAIN report : report[p][d] = 0
    BY <1>1
  <2> QED
    BY <1>1, <2>1, AllZero, ReportSays DEF ReportInv, ReportIsOfProcesses
<1> QED
  BY <1>1, <1>2 DEF ListInv, LastIsShown

\* The parts of a sequence of signals.
LEMMA SignalParts ==
  ASSUME NEW S, NEW s \in Seq(S), s # <<>>
  PROVE  /\ Head(s) \in S /\ Tail(s) \in Seq(S) /\ Len(s) \in Nat
         /\ Tail(s) = <<>> => Head(s) = s[Len(s)]
         /\ Tail(s) # <<>> => Tail(s)[Len(Tail(s))] = s[Len(s)]
<1>1. Len(s) \in Nat \ {0} /\ Len(Tail(s)) = Len(s) - 1 /\ Tail(s) \in Seq(S) /\ Head(s) = s[1]
  OBVIOUS
<1>2. \A k \in 1 .. Len(s) - 1 : Tail(s)[k] = s[k + 1]
  BY <1>1
<1>3. Tail(s) = <<>> => Len(s) = 1
  <2>1. Len(<<>>) = 0
    OBVIOUS
  <2> SUFFICES ASSUME Tail(s) = <<>> PROVE Len(s) = 1
    OBVIOUS
  <2>2. Len(Tail(s)) = 0
    BY <2>1
  <2> QED
    BY <1>1, <2>2
<1>4. Tail(s) # <<>> => Len(Tail(s)) \in 1 .. Len(s) - 1
  BY <1>1
<1>5. Head(s) \in S
  BY <1>1
<1> QED
  BY <1>1, <1>2, <1>3, <1>4, <1>5

LEMMA EmitStep ==
  ASSUME ListInv, ReportInv', RefreshAndEmit
  PROVE  ListInv'
<1>1. do_refresh /\ rows' = rows /\ ReportInv /\ report' \in Reported
  BY DEF RefreshAndEmit, ListInv, ReportInv, ReportIsOfProcesses
<1>2. CASE report' = <<>>
  <2>1. signals' = signals
    BY <1>2 DEF RefreshAndEmit
  <2>2. \A o \in Owner, d \in Direction : ReportedBytes(o, d)' = ReportedBytes(o, d)
    <3>1. DOMAIN report' = {}
      BY <1>2
    <3> QED
      BY <1>1, <3>1, NothingToReport
  <2>3. LastIsShown'
    BY <1>1, <2>1, <2>2 DEF ListInv, LastIsShown, Shows
  <2> QED
    BY <1>1, <2>1, <2>3 DEF ListInv
<1>3. CASE report' # <<>>
  <2>1. signals' = Append(signals, report') /\ signals \in Seq(Reported)
    BY <1>3 DEF RefreshAndEmit, ListInv
  <2>2. /\ signals' \in Seq(Reported) /\ signals' # <<>>
        /\ signals'[Len(signals')] = report'
    BY <1>1, <2>1
  <2>3. LastIsShown'
    BY <2>2, ReportSays DEF LastIsShown, Shows
  <2> QED
    BY <1>1, <2>2, <2>3 DEF ListInv
<1> QED
  BY <1>2, <1>3

LEMMA HandleStep ==
  ASSUME ListInv, ReportInv', usage_changed
  PROVE  ListInv'
<1> DEFINE infos == Head(signals)
<1>1. /\ signals # <<>> /\ signals \in Seq(Reported) /\ Shows(signals[Len(signals)])
      /\ rows' = RowsOf(infos) /\ signals' = Tail(signals) /\ report' = report
  BY DEF usage_changed, ListInv, LastIsShown, vars
<1>2. /\ infos \in Reported /\ signals' \in Seq(Reported)
      /\ signals' = <<>> => Shows(infos)
      /\ signals' # <<>> => Shows(signals'[Len(signals')])
  BY <1>1, SignalParts
<1>3. \A i : Shows(i)' <=> Shows(i)
  BY <1>1 DEF Shows, ReportedBytes
<1>4. rows' # {}
  BY <1>1 DEF RowsOf
<1>5. LastIsShown'
  <2>1. CASE signals' = <<>>
    <3>1. \E i \in Reported : rows' = RowsOf(i) /\ Shows(i)'
      BY <1>1, <1>2, <1>3, <2>1
    <3> QED
      BY <1>4, <2>1, <3>1 DEF LastIsShown, Shows
  <2>2. CASE signals' # <<>>
    <3>1. \A o \in Owner, d \in Direction :
            SaysOf(signals'[Len(signals')], o, d) = ReportedBytes(o, d)'
      BY <1>1, <1>2, <2>2 DEF Shows, ReportedBytes
    <3> QED
      BY <2>2, <3>1 DEF LastIsShown, Shows
  <2> QED
    BY <2>1, <2>2
<1> QED
  BY <1>1, <1>2, <1>5 DEF ListInv

LEMMA ListStepAny ==
  ASSUME Timely, ListInv, [UsageNext]_usageVars
  PROVE  ListInv'
<1>1. [Next]_vars
  BY DEF UsageNext, Next, usageVars, RefreshAndEmit, usage_changed
<1>2. ReportInv'
  BY <1>1, ReportStep DEF ListInv
<1>3. CASE RefreshAndEmit
  BY <1>2, <1>3, EmitStep
<1>4. CASE usage_changed
  BY <1>2, <1>4, HandleStep
<1>5. CASE UNCHANGED <<report, signals, rows>>
  <2>1. LastIsShown'
    BY <1>5 DEF ListInv, LastIsShown, Shows, ReportedBytes
  <2> QED
    BY <1>2, <1>5, <2>1 DEF ListInv
<1> QED
  BY <1>3, <1>4, <1>5
     DEF UsageNext, usageVars, vars, Capture, Tick, push_packet, PushKnown, PushNew, DispatchDone

LEMMA ListInvariant ==
  ASSUME Timely
  PROVE  UsageSpec => []ListInv
<1>1. ListInv /\ [UsageNext]_usageVars => ListInv'
  BY ListStepAny
<1> QED
  BY <1>1, ListInit, PTL DEF UsageSpec

\* For the order of the list it is enough that each report has 32-bit counters.
Counted == UNION {[D -> ReportRow] : D \in SUBSET ProcId}

CountersInv ==
  /\ signals \in Seq(Counted)
  /\ rows = {} \/ \E infos \in Counted : rows = RowsOf(infos)

\* Whatever the timing, a refresh reports 32-bit counters (na_process_sum_connections).
LEMMA RefreshedCounters ==
  ASSUME RowsInv, do_refresh
  PROVE  report' \in Counted
<1> DEFINE kept   == {p \in DOMAIN processes : ~ TimedOut(p)}
           row(p) == [pid  |-> processes[p].pid,
                      sent |-> na_process_sum_connections(p, "sent"),
                      recv |-> na_process_sum_connections(p, "recv")]
<1>1. report' = [p \in kept |-> row(p)]
  BY DEF do_refresh, na_process_info_get_all
<1>2. kept \in SUBSET DOMAIN processes /\ kept \in SUBSET ProcId
  BY DEF RowsInv, TypeOK
<1>3. ASSUME NEW p \in kept PROVE row(p) \in ReportRow
  <2>1. p \in DOMAIN processes /\ processes[p].pid \in Owner
    BY <1>2 DEF RowsInv, TypeOK, Process
  <2>2. "sent" \in Direction /\ "recv" \in Direction
    BY DEF Direction
  <2>3. row(p).sent \in 0 .. U32 - 1 /\ row(p).recv \in 0 .. U32 - 1
    BY <2>1, <2>2, RowFits DEF RowsInv
  <2> QED
    BY <2>1, <2>3 DEF ReportRow
<1> HIDE DEF kept, row
<1> QED
  BY <1>1, <1>2, <1>3 DEF Counted

LEMMA CountersStep ==
  ASSUME RowsInv, CountersInv, [UsageNext]_usageVars
  PROVE  CountersInv'
<1>1. CASE RefreshAndEmit
  <2>1. report' \in Counted /\ signals \in Seq(Counted) /\ rows' = rows
    BY <1>1, RefreshedCounters DEF RefreshAndEmit, CountersInv
  <2>2. signals' = signals \/ signals' = Append(signals, report')
    BY <1>1 DEF RefreshAndEmit
  <2>3. signals' \in Seq(Counted)
    BY <2>1, <2>2
  <2> QED
    BY <2>1, <2>3 DEF CountersInv
<1>2. CASE usage_changed
  <2>1. /\ signals # <<>> /\ signals \in Seq(Counted)
        /\ rows' = RowsOf(Head(signals)) /\ signals' = Tail(signals)
    BY <1>2 DEF usage_changed, CountersInv
  <2>2. Head(signals) \in Counted /\ signals' \in Seq(Counted)
    BY <2>1, SignalParts
  <2> QED
    BY <2>1, <2>2 DEF CountersInv
<1>3. CASE UNCHANGED <<signals, rows>>
  BY <1>3 DEF CountersInv
<1> QED
  BY <1>1, <1>2, <1>3
     DEF UsageNext, usageVars, Capture, Tick, push_packet, PushKnown, PushNew, DispatchDone

\* The list box is in order at any time, whatever the traffic and however late the
\* refreshes come (the sort function in usage-network-view.vala).
THEOREM ListStaysInOrder ==
  ASSUME SortIdsFit
  PROVE  UsageSpec => []RowsInOrder
<1>1. UsageInit => CountersInv
  BY DEF UsageInit, CountersInv
<1>2. CountersInv => RowsInOrder
  <2> SUFFICES ASSUME CountersInv PROVE InOrder(rows)
    BY DEF RowsInOrder
  <2>1. CASE rows = {}
    BY <2>1 DEF InOrder
  <2>2. ASSUME NEW infos \in Counted, rows = RowsOf(infos) PROVE InOrder(rows)
    <3>1. \A p \in DOMAIN infos : infos[p] \in ReportRow
      BY DEF Counted
    <3>2. \A p \in DOMAIN infos : infos[p].recv \in 0 .. U32 - 1
      BY <3>1 DEF ReportRow
    <3> QED
      BY <2>2, <3>2, AnyReportIsInOrder
  <2> QED
    BY <2>1, <2>2 DEF CountersInv
<1>3. UsageSpec => []RowsInv
  BY ViewOnlyWatches, RowsInvariant, PTL
<1> QED
  BY <1>1, <1>2, <1>3, CountersStep, PTL DEF UsageSpec

\* When the view has handled every signal it shows what was reported last: the bytes of
\* each process in its row, those of nobody in theirs, all of them in the totals, even
\* though do_refresh() sends no signal for a report without rows (na-application.c,
\* usage-network-view.vala).
THEOREM ListShowsWhatIsReported ==
  ASSUME Timely, IsFiniteSet(Pid)
  PROVE  UsageSpec => []ListShowsTheReport
<1>1. IsFiniteSet(Owner)
  BY FS_AddElement DEF Owner
<1>2. ListInv => ListShowsTheReport
  <2> SUFFICES ASSUME ListInv, signals = <<>>, NEW d \in Direction
               PROVE  /\ \A o \in Owner : ShownOf(o, d) = ReportedBytes(o, d)
                      /\ \A r \in rows : r.kind = "total" =>
                           r[d] % U32 = SumFunction([o \in Owner |-> ReportedBytes(o, d)]) % U32
    BY DEF ListShowsTheReport
  <2>1. \A o : ShownOf(o, d) = ShownIn(rows, o, d)
    BY DEF ShownOf, ShownIn, ShownFor
  <2>2. CASE rows = {}
    <3> SUFFICES ASSUME NEW o \in Owner PROVE ShownIn({}, o, d) = 0
      BY <2>1, <2>2 DEF ListInv, LastIsShown
    <3> DEFINE h == [r \in ShownFor({}, o) |-> r[d]]
    <3>1. DOMAIN h = {}
      BY DEF ShownFor
    <3> HIDE DEF h
    <3>2. SumFunction(h) % U32 = 0
      BY <3>1, NothingSaid
    <3> QED
      BY <3>2 DEF h, ShownIn
  <2>3. CASE rows # {}
    <3>1. PICK infos \in Reported : rows = RowsOf(infos) /\ Shows(infos)
      BY <2>3 DEF ListInv, LastIsShown
    <3>2. \A o \in Owner : SaysOf(infos, o, d) = ReportedBytes(o, d)
      BY <3>1 DEF Shows
    <3>3. \A o \in Owner : ShownOf(o, d) = ReportedBytes(o, d)
      BY <2>1, <3>1, <3>2, RowsSay
    <3>4. ASSUME NEW r \in rows, r.kind = "total"
          PROVE  r[d] % U32 = SumFunction([o \in Owner |-> ReportedBytes(o, d)]) % U32
      <4>1. r[d] % U32 = SumFunction([o \in Owner |-> SaysOf(infos, o, d)]) % U32
        BY <1>1, <3>1, <3>4, TotalSays
      <4>2. [o \in Owner |-> SaysOf(infos, o, d)] = [o \in Owner |-> ReportedBytes(o, d)]
        BY <3>2
      <4> QED
        BY <4>1, <4>2
    <3> QED
      BY <3>3, <3>4
  <2> QED
    BY <2>2, <2>3
<1> QED
  BY <1>2, ListInvariant, PTL

=============================================================================
