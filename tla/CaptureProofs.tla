---------------------------- MODULE CaptureProofs ----------------------------
(***************************************************************************)
(* The packets pushed are those of the frames captured, for any number of  *)
(* devices and any traffic the parsers are written for.                    *)
(***************************************************************************)
EXTENDS NACapture, FoldProofs

\* The traffic the parsers are written for: IPv4 or IPv6 according to the addresses,
\* IPv4 only on a raw link, none on a loopback link, and only what carries no ports on
\* a link that is not understood.
ParsersFit ==
  \A link \in Link : \A f \in Traffic[link] :
    /\ f.net = "ip" => f.src \in Address4 /\ f.dst \in Address4
    /\ f.net = "ip6" => f.src \in Address6 /\ f.dst \in Address6
    /\ link = "RAW" => f.net = "ip"
    /\ link # "NULL"
    /\ link = "IEEE802_11" => ~ CarriesPorts(f)

-----------------------------------------------------------------------------
(* The words of a frame.                                                   *)

Contents(f) ==
  {"data", "version", "checksum", "option", "mac", "control", "sll", "family"}
    \cup {f.net, f.transport, f.src, f.dst, f.sport, f.dport}

Word(f) == Contents(f) \X Nat

LEMMA FieldWords ==
  ASSUME NEW X, NEW x \in X, NEW n \in Nat
  PROVE  /\ Field(x, n) \in Seq(X \X Nat) /\ Len(Field(x, n)) = n
         /\ \A k \in 1 .. n : Field(x, n)[k] = <<x, k>>
BY DEF Field

\* What is behind a header.
LEMMA Payload ==
  ASSUME NEW S, NEW s, s \in Seq(S), NEW t, t \in Seq(S)
  PROVE  After(s \o t, Len(s)) = t
<1> DEFINE u == s \o t
           v == After(u, Len(s))
<1>1. /\ u \in Seq(S) /\ Len(u) = Len(s) + Len(t) /\ Len(s) \in Nat /\ Len(t) \in Nat
      /\ \A k \in 1 .. Len(t) : u[Len(s) + k] = t[k]
  OBVIOUS
<1> HIDE DEF u
<1>2. /\ v \in Seq(S) /\ Len(v) = Len(t)
      /\ \A k \in 1 .. Len(t) : v[k] = u[Len(s) + k]
  BY <1>1 DEF After
<1> HIDE DEF v
<1>3. v = t
  BY <1>1, <1>2
<1> QED
  BY <1>3 DEF v, u

LEMMA AddressField ==
  ASSUME NEW x
  PROVE  /\ x \in Address4 => AddressWords(x) = Field(x, 2)
         /\ x \in Address6 => AddressWords(x) = Field(x, 8)
         /\ \A y : AddressWords(x) = AddressWords(y) => x = y
<1>1. x \in Address6 => x \notin Address4
  BY CaptureAssumption
<1>2. ASSUME NEW y PROVE AddressWords(y)[1] = <<y, 1>>
  BY DEF AddressWords, Field
<1>3. ASSUME NEW y, AddressWords(x) = AddressWords(y) PROVE x = y
  <2>1. <<x, 1>> = <<y, 1>>
    BY <1>2, <1>3
  <2> QED
    BY <2>1
<1> QED
  BY <1>1, <1>3 DEF AddressWords

LEMMA SegmentWords ==
  ASSUME NEW f
  PROVE  /\ Segment(f) \in Seq(Word(f)) /\ Len(Segment(f)) = 4
         /\ Segment(f)[1] = <<f.sport, 1>> /\ Segment(f)[2] = <<f.dport, 1>>
<1> DEFINE S == Word(f)
           s == Field(f.sport, 1)
           d == Field(f.dport, 1)
           e == Field("data", 2)
           sd == s \o d
           q == sd \o e
<1>1. f.sport \in Contents(f) /\ f.dport \in Contents(f) /\ "data" \in Contents(f)
  BY DEF Contents
<1>2. /\ s \in Seq(S) /\ Len(s) = 1 /\ s[1] = <<f.sport, 1>>
      /\ d \in Seq(S) /\ Len(d) = 1 /\ d[1] = <<f.dport, 1>>
      /\ e \in Seq(S) /\ Len(e) = 2
  BY <1>1 DEF Field, Word
<1>3. Segment(f) = q
  BY DEF Segment
<1> HIDE DEF S, s, d, e
<1>4. sd \in Seq(S) /\ Joined(sd, s, d)
  BY <1>2, Concat
<1> HIDE DEF sd
<1>5. q \in Seq(S) /\ Joined(q, sd, e)
  BY <1>2, <1>4, Concat
<1> HIDE DEF q
<1>6. Len(sd) = 2 /\ sd[1] = s[1] /\ sd[2] = d[1]
  BY <1>2, <1>4 DEF Joined
<1>7. Len(q) = 4 /\ q[1] = sd[1] /\ q[2] = sd[2]
  BY <1>2, <1>5, <1>6 DEF Joined
<1> QED
  BY <1>2, <1>3, <1>5, <1>6, <1>7 DEF S

\* The words i to j of q are those of a field of n words.
FieldIn(q, i, j, x, n) ==
  /\ i \in Nat \ {0} /\ j \in Nat /\ j <= Len(q) /\ n \in Nat /\ n = j - i + 1
  /\ \A k \in i .. j : q[k] = <<x, k - i + 1>>

Words(q, i, j) == SubSeq(q, i, j)

LEMMA FieldAt ==
  ASSUME NEW S, NEW q \in Seq(S), NEW i, NEW j, NEW x, NEW n, FieldIn(q, i, j, x, n)
  PROVE  Words(q, i, j) = Field(x, n)
<1> DEFINE v == SubSeq(q, i, j)
           w == Field(x, n)
           T == S \cup ({x} \X Nat)
<1>1. /\ v \in Seq(S) /\ Len(v) = n /\ \A k \in 1 .. n : v[k] = <<x, k>>
  <2>1. /\ v \in Seq(S) /\ Len(v) = n /\ \A k \in 1 .. n : v[k] = q[i - 1 + k]
    BY DEF FieldIn
  <2> HIDE DEF v
  <2>2. ASSUME NEW k \in 1 .. n PROVE v[k] = <<x, k>>
    <3>1. i - 1 + k \in i .. j /\ (i - 1 + k) - i + 1 = k
      BY DEF FieldIn
    <3>2. q[i - 1 + k] = <<x, (i - 1 + k) - i + 1>>
      BY <3>1 DEF FieldIn
    <3> QED
      BY <2>1, <3>1, <3>2
  <2> QED
    BY <2>1, <2>2
<1>2. /\ w \in Seq({x} \X Nat) /\ Len(w) = n /\ \A k \in 1 .. n : w[k] = <<x, k>>
  BY DEF Field, FieldIn
<1>3. v \in Seq(T) /\ w \in Seq(T)
  BY <1>1, <1>2
<1> HIDE DEF v, w, T
<1>4. v = w
  <2>1. n \in Nat
    BY DEF FieldIn
  <2>2. Len(v) = Len(w) /\ \A k \in 1 .. Len(v) : v[k] = w[k]
    BY <1>1, <1>2, <2>1
  <2> HIDE <1>1, <1>2
  <2> QED
    BY <1>3, <2>2
<1> QED
  BY <1>4 DEF v, w, Words

LEMMA Ip4Words ==
  ASSUME NEW f \in Frame, f.net = "ip", f.src \in Address4, f.dst \in Address4
  PROVE  LET q == IpPacket(f)
         IN  /\ q \in Seq(Word(f)) /\ Len(q) = 14 + f.options /\ f.options \in Nat
             /\ q[5] = <<f.transport, 1>>
             /\ FieldIn(q, 7, 8, f.src, 2) /\ FieldIn(q, 9, 10, f.dst, 2)
             /\ f.options = 0 => q[11] = <<f.sport, 1>> /\ q[12] = <<f.dport, 1>>
<1> DEFINE S == Word(f)
           a == Field("version", 4)
           b == Field(f.transport, 1)
           c == Field("checksum", 1)
           d == Field(f.src, 2)
           e == Field(f.dst, 2)
           o == Field("option", f.options)
           g == Segment(f)
           ab == a \o b
           abc == ab \o c
           abcd == abc \o d
           abcde == abcd \o e
           head == abcde \o o
           q == head \o g
<1>1. f.options \in Nat
  BY DEF Frame
<1>2. /\ "version" \in Contents(f) /\ f.transport \in Contents(f) /\ "checksum" \in Contents(f)
      /\ f.src \in Contents(f) /\ f.dst \in Contents(f) /\ "option" \in Contents(f)
  BY DEF Contents
<1>3. /\ a \in Seq(S) /\ Len(a) = 4
      /\ b \in Seq(S) /\ Len(b) = 1 /\ b[1] = <<f.transport, 1>>
      /\ c \in Seq(S) /\ Len(c) = 1
  BY <1>2 DEF Field, Word
<1>4. /\ d \in Seq(S) /\ Len(d) = 2 /\ \A k \in 1 .. 2 : d[k] = <<f.src, k>>
      /\ e \in Seq(S) /\ Len(e) = 2 /\ \A k \in 1 .. 2 : e[k] = <<f.dst, k>>
      /\ o \in Seq(S) /\ Len(o) = f.options
  BY <1>1, <1>2 DEF Field, Word
<1>5. /\ g \in Seq(S) /\ Len(g) = 4
      /\ g[1] = <<f.sport, 1>> /\ g[2] = <<f.dport, 1>>
  BY SegmentWords
<1>6. IpPacket(f) = q
  BY AddressField DEF IpPacket
<1> HIDE DEF a, b, c, d, e, o, g, S
<1>7. ab \in Seq(S) /\ Joined(ab, a, b)
  BY <1>3, Concat
<1> HIDE DEF ab
<1>8. abc \in Seq(S) /\ Joined(abc, ab, c)
  BY <1>3, <1>7, Concat
<1> HIDE DEF abc
<1>9. abcd \in Seq(S) /\ Joined(abcd, abc, d)
  BY <1>4, <1>8, Concat
<1> HIDE DEF abcd
<1>10. abcde \in Seq(S) /\ Joined(abcde, abcd, e)
  BY <1>4, <1>9, Concat
<1> HIDE DEF abcde
<1>11. head \in Seq(S) /\ Joined(head, abcde, o)
  BY <1>4, <1>10, Concat
<1> HIDE DEF head
<1>12. q \in Seq(S) /\ Joined(q, head, g)
  BY <1>5, <1>11, Concat
<1> HIDE DEF q
<1>13. Len(ab) = 5 /\ ab[5] = b[1]
  BY <1>3, <1>7 DEF Joined
<1>14. Len(abc) = 6 /\ abc[5] = ab[5]
  BY <1>3, <1>8, <1>13 DEF Joined
<1>15. Len(abcd) = 8 /\ abcd[5] = abc[5] /\ abcd[7] = d[1] /\ abcd[8] = d[2]
  BY <1>4, <1>9, <1>14 DEF Joined
<1>16. /\ Len(abcde) = 10 /\ \A k \in 1 .. 8 : abcde[k] = abcd[k]
       /\ abcde[9] = e[1] /\ abcde[10] = e[2]
  BY <1>4, <1>10, <1>15 DEF Joined
<1>17. Len(head) = 10 + f.options /\ \A k \in 1 .. 10 : head[k] = abcde[k]
  BY <1>1, <1>4, <1>11, <1>16 DEF Joined
<1>18. Len(q) = 14 + f.options /\ \A k \in 1 .. 10 : q[k] = abcde[k]
  <2>1. Len(q) = 14 + f.options
    BY <1>1, <1>5, <1>12, <1>17 DEF Joined
  <2>2. ASSUME NEW k \in 1 .. 10 PROVE q[k] = abcde[k]
    <3>1. k \in 1 .. Len(head)
      BY <1>1, <1>17
    <3>2. q[k] = head[k]
      BY <3>1, <1>12 DEF Joined
    <3> QED
      BY <3>2, <1>17
  <2> QED
    BY <2>1, <2>2
<1>19. q[5] = <<f.transport, 1>>
  <2>1. q[5] = abcde[5] /\ abcde[5] = abcd[5]
    BY <1>16, <1>18
  <2> QED
    BY <2>1, <1>3, <1>13, <1>14, <1>15
<1>20. /\ q[7] = <<f.src, 1>> /\ q[8] = <<f.src, 2>>
       /\ q[9] = <<f.dst, 1>> /\ q[10] = <<f.dst, 2>>
  <2>1. q[7] = abcde[7] /\ q[8] = abcde[8] /\ q[9] = abcde[9] /\ q[10] = abcde[10]
    BY <1>18
  <2>2. abcde[7] = abcd[7] /\ abcde[8] = abcd[8]
    BY <1>16
  <2> QED
    BY <2>1, <2>2, <1>4, <1>15, <1>16
<1>21. f.options = 0 => q[11] = <<f.sport, 1>> /\ q[12] = <<f.dport, 1>>
  <2> SUFFICES ASSUME f.options = 0 PROVE q[11] = g[1] /\ q[12] = g[2]
    BY <1>5
  <2>1. Len(head) = 10
    BY <1>17
  <2>2. \A k \in 11 .. 14 : q[k] = g[k - 10]
    BY <2>1, <1>5, <1>12 DEF Joined
  <2>3. q[11] = g[11 - 10] /\ q[12] = g[12 - 10]
    BY <2>2
  <2> QED
    BY <2>3
<1>22. FieldIn(q, 7, 8, f.src, 2) /\ FieldIn(q, 9, 10, f.dst, 2)
  <2>1. ASSUME NEW k \in 7 .. 8 PROVE q[k] = <<f.src, k - 7 + 1>>
    <3>1. k = 7 \/ k = 8
      OBVIOUS
    <3> QED
      BY <3>1, <1>20
  <2>2. ASSUME NEW k \in 9 .. 10 PROVE q[k] = <<f.dst, k - 9 + 1>>
    <3>1. k = 9 \/ k = 10
      OBVIOUS
    <3> QED
      BY <3>1, <1>20
  <2>3. 8 <= Len(q) /\ 10 <= Len(q)
    BY <1>1, <1>18
  <2>4. FieldIn(q, 7, 8, f.src, 2)
    BY <2>1, <2>3 DEF FieldIn
  <2>5. FieldIn(q, 9, 10, f.dst, 2)
    BY <2>2, <2>3 DEF FieldIn
  <2> QED
    BY <2>4, <2>5
<1> QED
  BY <1>1, <1>6, <1>12, <1>18, <1>19, <1>21, <1>22 DEF S

LEMMA Ip6Words ==
  ASSUME NEW f \in Frame, f.net = "ip6", f.src \in Address6, f.dst \in Address6
  PROVE  LET q == IpPacket(f)
         IN  /\ q \in Seq(Word(f)) /\ Len(q) = 24
             /\ q[4] = <<f.transport, 1>>
             /\ FieldIn(q, 5, 12, f.src, 8) /\ FieldIn(q, 13, 20, f.dst, 8)
             /\ q[21] = <<f.sport, 1>> /\ q[22] = <<f.dport, 1>>
<1> DEFINE S == Word(f)
           a == Field("version", 3)
           b == Field(f.transport, 1)
           d == Field(f.src, 8)
           e == Field(f.dst, 8)
           g == Segment(f)
           ab == a \o b
           abd == ab \o d
           head == abd \o e
           q == head \o g
<1>2. /\ "version" \in Contents(f) /\ f.transport \in Contents(f)
      /\ f.src \in Contents(f) /\ f.dst \in Contents(f)
  BY DEF Contents
<1>3. /\ a \in Seq(S) /\ Len(a) = 3
      /\ b \in Seq(S) /\ Len(b) = 1 /\ b[1] = <<f.transport, 1>>
  BY <1>2 DEF Field, Word
<1>4. /\ d \in Seq(S) /\ Len(d) = 8 /\ \A k \in 1 .. 8 : d[k] = <<f.src, k>>
      /\ e \in Seq(S) /\ Len(e) = 8 /\ \A k \in 1 .. 8 : e[k] = <<f.dst, k>>
  BY <1>2 DEF Field, Word
<1>5. /\ g \in Seq(S) /\ Len(g) = 4
      /\ g[1] = <<f.sport, 1>> /\ g[2] = <<f.dport, 1>>
  BY SegmentWords
<1>6. IpPacket(f) = q
  BY AddressField DEF IpPacket
<1> HIDE DEF a, b, d, e, g, S
<1>7. ab \in Seq(S) /\ Joined(ab, a, b)
  BY <1>3, Concat
<1> HIDE DEF ab
<1>8. abd \in Seq(S) /\ Joined(abd, ab, d)
  BY <1>4, <1>7, Concat
<1> HIDE DEF abd
<1>9. head \in Seq(S) /\ Joined(head, abd, e)
  BY <1>4, <1>8, Concat
<1> HIDE DEF head
<1>10. q \in Seq(S) /\ Joined(q, head, g)
  BY <1>5, <1>9, Concat
<1> HIDE DEF q
<1>11. Len(ab) = 4 /\ ab[4] = b[1]
  BY <1>3, <1>7 DEF Joined
<1>12. Len(abd) = 12 /\ abd[4] = ab[4] /\ \A k \in 5 .. 12 : abd[k] = d[k - 4]
  BY <1>4, <1>8, <1>11 DEF Joined
<1>13. /\ Len(head) = 20 /\ \A k \in 1 .. 12 : head[k] = abd[k]
       /\ \A k \in 13 .. 20 : head[k] = e[k - 12]
  BY <1>4, <1>9, <1>12 DEF Joined
<1>14. Len(q) = 24 /\ (\A k \in 1 .. 20 : q[k] = head[k]) /\ q[21] = g[1] /\ q[22] = g[2]
  BY <1>5, <1>10, <1>13 DEF Joined
<1>15. q[4] = <<f.transport, 1>>
  BY <1>3, <1>11, <1>12, <1>13, <1>14
<1>16. ASSUME NEW k \in 5 .. 12 PROVE q[k] = <<f.src, k - 5 + 1>>
  <2>1. q[k] = head[k] /\ head[k] = abd[k] /\ abd[k] = d[k - 4] /\ k - 4 \in 1 .. 8
    BY <1>12, <1>13, <1>14
  <2>2. d[k - 4] = <<f.src, k - 4>>
    BY <2>1, <1>4
  <2> QED
    BY <2>1, <2>2
<1>17. ASSUME NEW k \in 13 .. 20 PROVE q[k] = <<f.dst, k - 13 + 1>>
  <2>1. q[k] = head[k] /\ head[k] = e[k - 12] /\ k - 12 \in 1 .. 8
    BY <1>13, <1>14
  <2>2. e[k - 12] = <<f.dst, k - 12>>
    BY <2>1, <1>4
  <2> QED
    BY <2>1, <2>2
<1>18. FieldIn(q, 5, 12, f.src, 8) /\ FieldIn(q, 13, 20, f.dst, 8)
  BY <1>14, <1>16, <1>17 DEF FieldIn
<1> QED
  BY <1>5, <1>6, <1>10, <1>14, <1>15, <1>18 DEF S

-----------------------------------------------------------------------------
(* What the parsers make of a frame.                                       *)

HeaderOf(r, f) ==
  /\ r.src = AddressWords(f.src) /\ r.dst = AddressWords(f.dst)
  /\ f.options = 0 => r.sport = <<f.sport, 1>> /\ r.dport = <<f.dport, 1>>

ParsedFrom(packets, f) ==
  IF CarriesPorts(f) THEN \E r : packets = <<r>> /\ HeaderOf(r, f) ELSE packets = <<>>

LEMMA ParsedTransport ==
  ASSUME NEW f \in Frame, f.net # "arp", NEW payload,
         f.options = 0 => payload[1] = <<f.sport, 1>> /\ payload[2] = <<f.dport, 1>>
  PROVE  ParsedFrom(parse_transport(f.transport, AddressWords(f.src), AddressWords(f.dst),
                                    payload), f)
<1> DEFINE r == [src |-> AddressWords(f.src), sport |-> payload[1],
                 dst |-> AddressWords(f.dst), dport |-> payload[2]]
<1>1. HeaderOf(r, f)
  BY DEF HeaderOf
<1>2. CarriesPorts(f) <=> f.transport \in {"tcp", "udp"}
  BY DEF CarriesPorts
<1>3. ASSUME CarriesPorts(f)
      PROVE parse_transport(f.transport, AddressWords(f.src), AddressWords(f.dst), payload) = <<r>>
  BY <1>2, <1>3 DEF parse_transport
<1>4. ASSUME ~ CarriesPorts(f)
      PROVE parse_transport(f.transport, AddressWords(f.src), AddressWords(f.dst), payload) = <<>>
  BY <1>2, <1>4 DEF parse_transport
<1> QED
  BY <1>1, <1>3, <1>4 DEF ParsedFrom

LEMMA ParsedIp4 ==
  ASSUME NEW f \in Frame, f.net = "ip", f.src \in Address4, f.dst \in Address4,
         NEW packets \in parse_ip(IpPacket(f))
  PROVE  ParsedFrom(packets, f)
<1> DEFINE q == IpPacket(f)
<1>1. /\ q \in Seq(Word(f)) /\ Len(q) = 14 + f.options /\ f.options \in Nat
      /\ q[5] = <<f.transport, 1>>
      /\ FieldIn(q, 7, 8, f.src, 2) /\ FieldIn(q, 9, 10, f.dst, 2)
      /\ f.options = 0 => q[11] = <<f.sport, 1>> /\ q[12] = <<f.dport, 1>>
  BY Ip4Words
<1>2. PICK protocol \in ProtocolIn(q[5]) :
        packets = parse_transport(protocol, SubSeq(q, 7, 8), SubSeq(q, 9, 10), After(q, 10))
  BY DEF parse_ip
<1> HIDE DEF q
<1>3. protocol = f.transport
  <2>1. f.transport \in Transport
    BY DEF Frame
  <2>2. q[5][1] = f.transport
    BY <1>1
  <2> QED
    BY <1>2, <2>1, <2>2 DEF ProtocolIn
<1>4. SubSeq(q, 7, 8) = Field(f.src, 2)
  <2>1. Words(q, 7, 8) = Field(f.src, 2)
    BY <1>1, FieldAt
  <2> QED
    BY <2>1 DEF Words
<1>5. SubSeq(q, 9, 10) = Field(f.dst, 2)
  <2>1. Words(q, 9, 10) = Field(f.dst, 2)
    BY <1>1, FieldAt
  <2> QED
    BY <2>1 DEF Words
<1>6. SubSeq(q, 7, 8) = AddressWords(f.src) /\ SubSeq(q, 9, 10) = AddressWords(f.dst)
  BY <1>4, <1>5, AddressField
<1>7. After(q, 10)[1] = q[11] /\ After(q, 10)[2] = q[12]
  BY <1>1 DEF After
<1>8. packets = parse_transport(f.transport, AddressWords(f.src), AddressWords(f.dst), After(q, 10))
  BY <1>2, <1>3, <1>6
<1> QED
  BY <1>1, <1>7, <1>8, ParsedTransport

LEMMA ParsedIp6 ==
  ASSUME NEW f \in Frame, f.net = "ip6", f.src \in Address6, f.dst \in Address6,
         NEW packets \in parse_ip6(IpPacket(f))
  PROVE  ParsedFrom(packets, f)
<1> DEFINE q == IpPacket(f)
<1>1. /\ q \in Seq(Word(f)) /\ Len(q) = 24
      /\ q[4] = <<f.transport, 1>>
      /\ FieldIn(q, 5, 12, f.src, 8) /\ FieldIn(q, 13, 20, f.dst, 8)
      /\ q[21] = <<f.sport, 1>> /\ q[22] = <<f.dport, 1>>
  BY Ip6Words
<1>2. PICK protocol \in ProtocolIn(q[4]) :
        packets = parse_transport(protocol, SubSeq(q, 5, 12), SubSeq(q, 13, 20), After(q, 20))
  BY DEF parse_ip6
<1> HIDE DEF q
<1>3. protocol = f.transport
  <2>1. f.transport \in Transport
    BY DEF Frame
  <2>2. q[4][1] = f.transport
    BY <1>1
  <2> QED
    BY <1>2, <2>1, <2>2 DEF ProtocolIn
<1>4. SubSeq(q, 5, 12) = Field(f.src, 8)
  <2>1. Words(q, 5, 12) = Field(f.src, 8)
    BY <1>1, FieldAt
  <2> QED
    BY <2>1 DEF Words
<1>5. SubSeq(q, 13, 20) = Field(f.dst, 8)
  <2>1. Words(q, 13, 20) = Field(f.dst, 8)
    BY <1>1, FieldAt
  <2> QED
    BY <2>1 DEF Words
<1>6. SubSeq(q, 5, 12) = AddressWords(f.src) /\ SubSeq(q, 13, 20) = AddressWords(f.dst)
  BY <1>4, <1>5, AddressField
<1>7. After(q, 20)[1] = q[21] /\ After(q, 20)[2] = q[22]
  BY <1>1 DEF After
<1>8. packets = parse_transport(f.transport, AddressWords(f.src), AddressWords(f.dst), After(q, 20))
  BY <1>2, <1>3, <1>6
<1> QED
  BY <1>1, <1>7, <1>8, ParsedTransport

\* A frame behind a link header of n words, the last of which says what follows.
Headed(p, c, n, f) == n \in Nat /\ p = (Field(c, n) \o Field(f.net, 1)) \o IpPacket(f)

Behind(p, n, f) == After(p, n + 1) = IpPacket(f) /\ p[n + 1] = <<f.net, 1>>

LEMMA BehindHeader ==
  ASSUME NEW f, NEW c \in Contents(f), NEW n, IpPacket(f) \in Seq(Word(f)),
         NEW frame, Headed(frame, c, n, f)
  PROVE  Behind(frame, n, f)
<1> DEFINE S == Word(f)
           d == Field(c, n)
           e == Field(f.net, 1)
           g == IpPacket(f)
           h == d \o e
           p == h \o g
<1>1. f.net \in Contents(f) /\ n \in Nat /\ frame = p
  BY DEF Contents, Headed
<1>2. /\ d \in Seq(S) /\ Len(d) = n
      /\ e \in Seq(S) /\ Len(e) = 1 /\ e[1] = <<f.net, 1>>
      /\ g \in Seq(S)
  BY <1>1 DEF Field, Word
<1> HIDE DEF S, d, e, g
<1>3. h \in Seq(S) /\ Joined(h, d, e)
  BY <1>2, Concat
<1> HIDE DEF h
<1>4. Joined(p, h, g) /\ After(p, Len(h)) = g
  BY <1>2, <1>3, Concat, Payload
<1> HIDE DEF p
<1>5. Len(h) = n + 1 /\ h[n + 1] = e[1]
  <2>1. Len(h) = n + 1
    BY <1>2, <1>3 DEF Joined
  <2>2. n + 1 \in Len(d) + 1 .. Len(d) + Len(e) /\ (n + 1) - Len(d) = 1
    BY <1>2
  <2> QED
    BY <2>1, <2>2, <1>3 DEF Joined
<1>6. n + 1 \in 1 .. Len(h)
  BY <1>1, <1>5
<1>7. p[n + 1] = h[n + 1]
  BY <1>4, <1>6 DEF Joined
<1>8. After(p, n + 1) = g /\ p[n + 1] = <<f.net, 1>>
  <2>1. p[n + 1] = e[1]
    BY <1>5, <1>7
  <2> QED
    BY <2>1, <1>2, <1>4, <1>5
<1> QED
  BY <1>1, <1>8 DEF Behind, g

LEMMA IpPacketWords ==
  ASSUME NEW f \in Frame
  PROVE  IpPacket(f) \in Seq(Word(f))
<1> DEFINE S == Word(f)
<1>1. /\ "version" \in Contents(f) /\ f.transport \in Contents(f) /\ "checksum" \in Contents(f)
      /\ f.src \in Contents(f) /\ f.dst \in Contents(f) /\ "option" \in Contents(f)
      /\ f.options \in Nat
  BY DEF Contents, Frame
<1>2. /\ Field("version", 3) \in Seq(S) /\ Field("version", 4) \in Seq(S)
      /\ Field(f.transport, 1) \in Seq(S) /\ Field("checksum", 1) \in Seq(S)
      /\ Field("option", f.options) \in Seq(S)
  BY <1>1, FieldWords DEF Word
<1>3. ASSUME NEW x \in Contents(f) PROVE AddressWords(x) \in Seq(S)
  BY FieldWords DEF AddressWords, Word
<1>4. AddressWords(f.src) \in Seq(S) /\ AddressWords(f.dst) \in Seq(S)
  BY <1>1, <1>3
<1>5. Segment(f) \in Seq(S)
  BY SegmentWords
<1>6. CASE f.net = "ip6"
  <2> DEFINE a == Field("version", 3)
             b == Field(f.transport, 1)
             c == AddressWords(f.src)
             d == AddressWords(f.dst)
             e == Segment(f)
  <2>1. IpPacket(f) = a \o b \o c \o d \o e
    BY <1>6 DEF IpPacket
  <2>2. a \in Seq(S) /\ b \in Seq(S) /\ c \in Seq(S) /\ d \in Seq(S) /\ e \in Seq(S)
    BY <1>2, <1>4, <1>5
  <2> HIDE DEF S, a, b, c, d, e
  <2>3. a \o b \o c \o d \o e \in Seq(S)
    BY <2>2
  <2> QED
    BY <2>1, <2>3 DEF S
<1>7. CASE f.net # "ip6"
  <2> DEFINE a == Field("version", 4)
             b == Field(f.transport, 1)
             c == Field("checksum", 1)
             d == AddressWords(f.src)
             e == AddressWords(f.dst)
             o == Field("option", f.options)
             g == Segment(f)
  <2>1. IpPacket(f) = a \o b \o c \o d \o e \o o \o g
    BY <1>7 DEF IpPacket
  <2>2. /\ a \in Seq(S) /\ b \in Seq(S) /\ c \in Seq(S) /\ d \in Seq(S)
        /\ e \in Seq(S) /\ o \in Seq(S) /\ g \in Seq(S)
    BY <1>2, <1>4, <1>5
  <2> HIDE DEF S, a, b, c, d, e, o, g
  <2>3. a \o b \o c \o d \o e \o o \o g \in Seq(S)
    BY <2>2
  <2> QED
    BY <2>1, <2>3 DEF S
<1> QED
  BY <1>6, <1>7

LEMMA ParsedNetwork ==
  ASSUME NEW f \in Frame,
         f.net = "ip" => f.src \in Address4 /\ f.dst \in Address4,
         f.net = "ip6" => f.src \in Address6 /\ f.dst \in Address6,
         NEW packets \in parse_network(<<f.net, 1>>, IpPacket(f))
  PROVE  ParsedFrom(packets, f)
<1>1. f.net \in {"ip", "ip6", "arp"}
  BY DEF Frame
<1>2. <<f.net, 1>>[1] = f.net /\ <<"ip", 1>>[1] = "ip" /\ <<"ip6", 1>>[1] = "ip6"
  OBVIOUS
<1>3. CASE f.net = "ip"
  <2>1. packets \in parse_ip(IpPacket(f))
    BY <1>3 DEF parse_network
  <2> QED
    BY <1>3, <2>1, ParsedIp4
<1>4. CASE f.net = "ip6"
  <2>1. <<f.net, 1>> # <<"ip", 1>>
    BY <1>2, <1>4
  <2>2. packets \in parse_ip6(IpPacket(f))
    BY <1>4, <2>1 DEF parse_network
  <2> QED
    BY <1>4, <2>2, ParsedIp6
<1>5. CASE f.net = "arp"
  <2>1. <<f.net, 1>> # <<"ip", 1>> /\ <<f.net, 1>> # <<"ip6", 1>>
    BY <1>2, <1>5
  <2>2. packets = <<>>
    BY <2>1 DEF parse_network
  <2> QED
    BY <1>5, <2>2 DEF ParsedFrom, CarriesPorts
<1> QED
  BY <1>1, <1>3, <1>4, <1>5

\* On every link the parsers make of a frame the packet it carries, or none.
LEMMA ParsedRight ==
  ASSUME ParsersFit, NEW link \in Link, NEW f \in Traffic[link],
         NEW packets \in pcap_dispatch_cb(link, OnWire(f, link))
  PROVE  ParsedFrom(packets, f)
<1>1. f \in Frame
  BY CaptureAssumption
<1>2. IpPacket(f) \in Seq(Word(f))
  BY <1>1, IpPacketWords
<1>3. /\ f.net = "ip" => f.src \in Address4 /\ f.dst \in Address4
      /\ f.net = "ip6" => f.src \in Address6 /\ f.dst \in Address6
      /\ link = "RAW" => f.net = "ip"
      /\ link # "NULL"
      /\ link = "IEEE802_11" => ~ CarriesPorts(f)
  BY DEF ParsersFit
<1>4. "mac" \in Contents(f) /\ "control" \in Contents(f) /\ "sll" \in Contents(f)
  BY DEF Contents
<1> DEFINE p == OnWire(f, link)
<1>5. CASE link = "EN10MB"
  <2>1. Headed(p, "mac", 6, f)
    BY <1>5 DEF OnWire, LinkHeader, Headed
  <2>2. Behind(p, 6, f)
    BY <1>2, <1>4, <2>1, BehindHeader
  <2>3. packets \in parse_network(p[7], After(p, 7))
    BY <1>5 DEF pcap_dispatch_cb, parse_ethernet
  <2>4. packets \in parse_network(<<f.net, 1>>, IpPacket(f))
    BY <2>2, <2>3 DEF Behind
  <2> QED
    BY <1>1, <1>3, <2>4, ParsedNetwork
<1>6. CASE link = "PPP"
  <2>1. Headed(p, "control", 1, f)
    BY <1>6 DEF OnWire, LinkHeader, Headed
  <2>2. Behind(p, 1, f)
    BY <1>2, <1>4, <2>1, BehindHeader
  <2>3. packets \in parse_network(p[2], After(p, 2))
    BY <1>6 DEF pcap_dispatch_cb, parse_ppp
  <2>4. packets \in parse_network(<<f.net, 1>>, IpPacket(f))
    BY <2>2, <2>3 DEF Behind
  <2> QED
    BY <1>1, <1>3, <2>4, ParsedNetwork
<1>7. CASE link = "LINUX_SLL"
  <2>1. Headed(p, "sll", 7, f)
    BY <1>7 DEF OnWire, LinkHeader, Headed
  <2>2. Behind(p, 7, f)
    BY <1>2, <1>4, <2>1, BehindHeader
  <2>3. packets \in parse_network(p[8], After(p, 8))
    BY <1>7 DEF pcap_dispatch_cb, parse_linux_cooked
  <2>4. packets \in parse_network(<<f.net, 1>>, IpPacket(f))
    BY <2>2, <2>3 DEF Behind
  <2> QED
    BY <1>1, <1>3, <2>4, ParsedNetwork
<1>8. CASE link = "RAW"
  <2>1. p = <<>> \o IpPacket(f)
    BY <1>8 DEF OnWire, LinkHeader
  <2>2. <<>> \o IpPacket(f) = IpPacket(f)
    BY <1>2
  <2>3. packets \in parse_ip(p)
    BY <1>8 DEF pcap_dispatch_cb
  <2> QED
    BY <1>1, <1>3, <1>8, <2>1, <2>2, <2>3, ParsedIp4
<1>9. CASE link = "IEEE802_11"
  <2>1. packets = <<>>
    BY <1>9 DEF pcap_dispatch_cb
  <2> QED
    BY <1>3, <1>9, <2>1 DEF ParsedFrom
<1> QED
  BY <1>3, <1>5, <1>6, <1>7, <1>8, <1>9 DEF Link

-----------------------------------------------------------------------------
(* The devices opened and the frames captured on them.                     *)

LocalOf(d, n) == {x \in Address : \E k \in 1 .. n - 1 : d[k].active /\ x \in d[k].addresses}

FramesOf(d) ==
  /\ seen \in [Dev -> Seq(Frame)]
  /\ \A i \in Dev : \A n \in 1 .. Len(seen[i]) : seen[i][n] \in Traffic[d[i].link]

HandedOf ==
  /\ handed \in [Dev -> Nat]
  /\ \A i \in Dev : handed[i] <= Len(seen[i])

\* The inductive invariant behind TypeOK.
CaptureInv ==
  /\ devices \in Machine
  /\ next \in 1 .. NDevice + 1
  /\ local = LocalOf(devices, next)
  /\ handles \in Seq(1 .. next - 1)
  /\ at \in 1 .. Len(handles) + 1
  /\ down \subseteq Opened
  /\ FramesOf(devices)
  /\ HandedOf

LEMMA TheDevices ==
  ASSUME CaptureInv
  PROVE  /\ devices \in [Dev -> Device]
         /\ \A i \in Dev : devices[i].link \in Link /\ devices[i].addresses \subseteq Address
         /\ Opened \subseteq 1 .. next - 1 /\ Opened \subseteq Dev
<1>1. devices \in [Dev -> Device]
  BY CaptureAssumption DEF CaptureInv, Dev
<1>2. \A i \in Dev : devices[i].link \in Link /\ devices[i].addresses \subseteq Address
  BY <1>1 DEF Device
<1>3. Opened \subseteq 1 .. next - 1
  BY DEF CaptureInv, Opened
<1>4. 1 .. next - 1 \subseteq Dev
  BY CaptureAssumption DEF CaptureInv, Dev
<1> QED
  BY <1>1, <1>2, <1>3, <1>4

LEMMA CaptureIsTyped ==
  ASSUME CaptureInv
  PROVE  TypeOK
<1>1. local \subseteq Address
  BY DEF CaptureInv, LocalOf
<1>2. \A i \in Dev : seen[i] \in Seq(Frame) /\ handed[i] \in 0 .. Len(seen[i])
  BY DEF CaptureInv, FramesOf, HandedOf
<1> QED
  BY <1>1, <1>2, TheDevices DEF CaptureInv, TypeOK

LEMMA CaptureInit ==
  ASSUME Init
  PROVE  CaptureInv
<1>1. next \in 1 .. NDevice + 1 /\ at \in 1 .. Len(handles) + 1
  BY CaptureAssumption DEF Init
<1>2. local = LocalOf(devices, next)
  BY DEF Init, LocalOf
<1>3. handles \in Seq(1 .. next - 1) /\ down \subseteq Opened
  BY DEF Init
<1>4. FramesOf(devices) /\ HandedOf
  BY DEF Init, FramesOf, HandedOf
<1> QED
  BY <1>1, <1>2, <1>3, <1>4 DEF Init, CaptureInv

LEMMA OpeningStep ==
  ASSUME CaptureInv, get_devices
  PROVE  CaptureInv'
<1> USE DEF get_devices
<1>1. next \in Dev /\ next' = next + 1 /\ next' \in 1 .. NDevice + 1
  BY CaptureAssumption DEF CaptureInv, Started, Dev
<1>2. local' = LocalOf(devices', next')
  <2>1. devices[next].addresses \subseteq Address
    BY <1>1, TheDevices
  <2>2. \A k : k \in 1 .. next' - 1 <=> k \in 1 .. next - 1 \/ k = next
    BY <1>1 DEF CaptureInv
  <2> QED
    BY <2>1, <2>2 DEF CaptureInv, LocalOf
<1>3. /\ handles' \in Seq(1 .. next' - 1) /\ Len(handles) <= Len(handles')
      /\ \A k \in DOMAIN handles : k \in DOMAIN handles' /\ handles'[k] = handles[k]
  <2>1. handles \in Seq(1 .. next' - 1)
    BY <1>1 DEF CaptureInv
  <2>2. next \in 1 .. next' - 1
    BY <1>1 DEF CaptureInv
  <2>3. CASE handles' = handles
    BY <2>1, <2>3
  <2>4. CASE handles' = Append(handles, next)
    <3>1. handles' \in Seq(1 .. next' - 1) /\ Len(handles') = Len(handles) + 1
      <4> DEFINE T == 1 .. next' - 1
      <4>1. handles \in Seq(T) /\ next \in T
        BY <2>1, <2>2
      <4> HIDE DEF T
      <4>2. handles' \in Seq(T) /\ Len(handles') = Len(handles) + 1
        BY <2>4, <4>1
      <4> QED
        BY <4>2 DEF T
    <3>2. DOMAIN handles = 1 .. Len(handles) /\ DOMAIN handles' = 1 .. Len(handles')
      BY <2>1, <3>1
    <3>3. \A k \in 1 .. Len(handles) : handles'[k] = handles[k]
      BY <2>1, <2>2, <2>4
    <3>4. Len(handles) \in Nat
      BY <2>1
    <3> QED
      BY <3>1, <3>2, <3>3, <3>4
  <2> QED
    BY <2>3, <2>4
<1>4. at' \in 1 .. Len(handles') + 1
  BY <1>3 DEF CaptureInv
<1>5. down' \subseteq Opened'
  BY <1>3 DEF CaptureInv, Opened
<1>6. FramesOf(devices)' /\ HandedOf'
  BY DEF CaptureInv, FramesOf, HandedOf
<1> QED
  BY <1>1, <1>2, <1>3, <1>4, <1>5, <1>6 DEF CaptureInv

LEMMA CapturedStep ==
  ASSUME CaptureInv, NEW i \in Dev, Capture(i)
  PROVE  CaptureInv'
<1> USE DEF Capture
<1>1. PICK f \in Traffic[devices[i].link] : seen' = [seen EXCEPT ![i] = Append(@, f)]
  OBVIOUS
<1>2. f \in Frame
  BY TheDevices, CaptureAssumption
<1>3. seen[i] \in Seq(Frame)
  BY DEF CaptureInv, FramesOf
<1>4. /\ Append(seen[i], f) \in Seq(Frame) /\ Len(Append(seen[i], f)) = Len(seen[i]) + 1
      /\ \A n \in 1 .. Len(seen[i]) + 1 :
           Append(seen[i], f)[n] = IF n = Len(seen[i]) + 1 THEN f ELSE seen[i][n]
  BY <1>2, <1>3
<1>5. seen' \in [Dev -> Seq(Frame)] /\ seen'[i] = Append(seen[i], f)
      /\ \A j \in Dev \ {i} : seen'[j] = seen[j]
  BY <1>1, <1>4 DEF CaptureInv, FramesOf
<1>6. ASSUME NEW j \in Dev, NEW n \in 1 .. Len(seen'[j])
      PROVE  seen'[j][n] \in Traffic[devices'[j].link]
  BY <1>3, <1>4, <1>5, <1>6 DEF CaptureInv, FramesOf
<1>7. FramesOf(devices)'
  BY <1>5, <1>6 DEF FramesOf
<1>8. \A j \in Dev : handed'[j] <= Len(seen'[j])
  <2>1. \A j \in Dev : handed[j] \in Nat /\ handed[j] <= Len(seen[j])
    BY DEF CaptureInv, HandedOf
  <2> QED
    BY <1>3, <1>4, <1>5, <2>1
<1>9. HandedOf'
  BY <1>8 DEF CaptureInv, HandedOf
<1>10. Opened' = Opened
  BY DEF Opened
<1> QED
  BY <1>7, <1>9, <1>10 DEF CaptureInv

LEMMA HandedStep ==
  ASSUME CaptureInv, NEW i \in Dev, dispatch_frame(i)
  PROVE  CaptureInv'
<1> USE DEF dispatch_frame
<1>1. handed' = [handed EXCEPT ![i] = @ + 1] /\ Waiting(i)
  OBVIOUS
<1>2. HandedOf'
  <2>1. handed[i] \in Nat /\ handed[i] + 1 <= Len(seen[i])
    BY <1>1 DEF CaptureInv, HandedOf, FramesOf, Waiting
  <2> QED
    BY <1>1, <2>1 DEF CaptureInv, HandedOf
<1>3. FramesOf(devices)' /\ Opened' = Opened
  BY DEF CaptureInv, FramesOf, Opened
<1> QED
  BY <1>2, <1>3 DEF CaptureInv

LEMMA CaptureStep ==
  ASSUME CaptureInv, [Next]_vars
  PROVE  CaptureInv'
<1>1. CASE get_devices
  BY <1>1, OpeningStep
<1>2. CASE \E i \in Dev : Capture(i)
  BY <1>2, CapturedStep
<1>3. CASE \E i \in Dev : GoDown(i)
  BY <1>3 DEF GoDown, CaptureInv, FramesOf, HandedOf, Opened
<1>4. CASE \E i \in Dev : dispatch_frame(i)
  BY <1>4, HandedStep
<1>5. CASE \E i \in Dev : na_pcap_dispatch(i)
  <2>1. at' \in 1 .. Len(handles') + 1
    BY <1>5 DEF na_pcap_dispatch, Dispatching, CaptureInv
  <2> QED
    BY <1>5, <2>1 DEF na_pcap_dispatch, CaptureInv, FramesOf, HandedOf, Opened
<1>6. CASE do_refresh
  <2>1. at' \in 1 .. Len(handles') + 1
    BY <1>6 DEF do_refresh, CaptureInv
  <2> QED
    BY <1>6, <2>1 DEF do_refresh, CaptureInv, FramesOf, HandedOf, Opened
<1>7. CASE UNCHANGED vars
  BY <1>7 DEF vars, CaptureInv, FramesOf, HandedOf, Opened
<1> QED
  BY <1>1, <1>2, <1>3, <1>4, <1>5, <1>6, <1>7 DEF Next

LEMMA CaptureInvariant == Spec => []CaptureInv
<1>1. Init => CaptureInv
  BY CaptureInit
<1>2. CaptureInv /\ [Next]_vars => CaptureInv'
  BY CaptureStep
<1> QED
  BY <1>1, <1>2, PTL DEF Spec

\* The devices, the local addresses, the handles and the buffers of captured frames
\* keep their types, for any number of devices and any traffic: a device is opened
\* only when get_devices() has looked at it, only devices opened go down, and the
\* callback is called for captured frames only (na-application.c, na-pcap.c).
THEOREM CaptureTyped == Spec => []TypeOK
<1>1. CaptureInv => TypeOK
  BY CaptureIsTyped
<1> QED
  BY <1>1, CaptureInvariant, PTL

-----------------------------------------------------------------------------
(* The packets pushed.                                                     *)

\* IsOf() of the devices d.
OfDevices(packet, f, d) ==
  /\ packet.header.src = AddressWords(f.src)
  /\ packet.header.dst = AddressWords(f.dst)
  /\ f.options = 0 => /\ packet.header.sport = <<f.sport, 1>>
                      /\ packet.header.dport = <<f.dport, 1>>
  /\ packet.outgoing <=> \E k \in Dev : d[k].active /\ f.src \in d[k].addresses

\* The frames among the first h of s that make a packet, and the place of the packet.
Carrying(s, h) == {n \in 1 .. h : CarriesPorts(s[n])}

Rank(s, h, n) == Cardinality({m \in Carrying(s, h) : m <= n})

\* The packets are those of the first h frames of s.
Matching(packets, s, h, d) ==
  /\ \E S : packets \in Seq(S)
  /\ Len(packets) = Cardinality(Carrying(s, h))
  /\ \A n \in Carrying(s, h) : OfDevices(packets[Rank(s, h, n)], s[n], d)

LEMMA RankIsAPlace ==
  ASSUME NEW s, NEW h \in Nat
  PROVE  /\ IsFiniteSet(Carrying(s, h))
         /\ Cardinality(Carrying(s, h)) \in Nat
         /\ \A n \in Carrying(s, h) : Rank(s, h, n) \in 1 .. Cardinality(Carrying(s, h))
<1>1. IsFiniteSet(1 .. h)
  BY FS_Interval
<1>2. IsFiniteSet(Carrying(s, h))
  BY <1>1, FS_Subset DEF Carrying
<1>3. ASSUME NEW n \in Carrying(s, h)
      PROVE Rank(s, h, n) \in 1 .. Cardinality(Carrying(s, h))
  <2> DEFINE M == {m \in Carrying(s, h) : m <= n}
  <2>1. M \subseteq Carrying(s, h) /\ n \in M
    BY DEF Carrying
  <2>2. IsFiniteSet(M) /\ Cardinality(M) <= Cardinality(Carrying(s, h))
    BY <1>2, <2>1, FS_Subset
  <2>3. Cardinality(M) \in Nat /\ Cardinality(M) # 0
    BY <2>1, <2>2, FS_CardinalityType, FS_EmptySet
  <2>4. Cardinality(Carrying(s, h)) \in Nat
    BY <1>2, FS_CardinalityType
  <2> HIDE DEF M
  <2>5. Cardinality(M) \in 1 .. Cardinality(Carrying(s, h))
    BY <2>2, <2>3, <2>4
  <2> QED
    BY <2>5 DEF Rank, M
<1> QED
  BY <1>2, <1>3, FS_CardinalityType

\* A frame that makes no packet.
LEMMA PassedOver ==
  ASSUME NEW packets, NEW s, NEW h \in Nat, NEW d, Matching(packets, s, h, d),
         ~ CarriesPorts(s[h + 1])
  PROVE  Matching(packets, s, h + 1, d)
<1>1. Carrying(s, h + 1) = Carrying(s, h)
  BY DEF Carrying
<1>2. \A n : Rank(s, h + 1, n) = Rank(s, h, n)
  BY <1>1 DEF Rank
<1> QED
  BY <1>1, <1>2 DEF Matching

Single(s, r) == s = <<r>>

\* A frame whose packet is the last one pushed.
LEMMA PushedNext ==
  ASSUME NEW packets, NEW s, NEW h \in Nat, NEW d, Matching(packets, s, h, d),
         CarriesPorts(s[h + 1]), NEW r, OfDevices(r, s[h + 1], d),
         NEW more, Single(more, r)
  PROVE  Matching(packets \o more, s, h + 1, d)
<1> DEFINE C == Carrying(s, h)
           D == Carrying(s, h + 1)
           u == packets \o more
<1>1. PICK S : packets \in Seq(S)
  BY DEF Matching
<1>2. packets \in Seq(S \cup {r}) /\ more \in Seq(S \cup {r})
  BY <1>1 DEF Single
<1>3. u \in Seq(S \cup {r}) /\ Joined(u, packets, more)
  BY <1>2, Concat
<1> HIDE DEF u
<1>4. Len(packets) \in Nat /\ Len(more) = 1 /\ more[1] = r
  BY <1>1 DEF Single
<1>5. D = C \cup {h + 1} /\ h + 1 \notin C
  BY DEF Carrying
<1>6. IsFiniteSet(C) /\ Cardinality(C) \in Nat
      /\ \A n \in C : Rank(s, h, n) \in 1 .. Cardinality(C)
  BY RankIsAPlace
<1>7. Cardinality(D) = Cardinality(C) + 1
  BY <1>5, <1>6, FS_AddElement
<1>8. ASSUME NEW n \in C PROVE Rank(s, h + 1, n) = Rank(s, h, n)
  <2>1. {m \in D : m <= n} = {m \in C : m <= n}
    BY <1>5 DEF Carrying
  <2> QED
    BY <2>1 DEF Rank
<1>9. Rank(s, h + 1, h + 1) = Cardinality(D)
  <2>1. {m \in D : m <= h + 1} = D
    BY DEF Carrying
  <2> QED
    BY <2>1 DEF Rank
<1>10. Len(packets) = Cardinality(C) /\ \A n \in C : OfDevices(packets[Rank(s, h, n)], s[n], d)
  BY DEF Matching
<1> HIDE DEF C, D
<1>11. Len(u) = Cardinality(D)
  BY <1>3, <1>4, <1>7, <1>10 DEF Joined
<1>12. ASSUME NEW n \in C PROVE OfDevices(u[Rank(s, h + 1, n)], s[n], d)
  <2>1. Rank(s, h, n) \in 1 .. Len(packets)
    BY <1>6, <1>10
  <2>2. u[Rank(s, h, n)] = packets[Rank(s, h, n)]
    BY <1>3, <2>1 DEF Joined
  <2> QED
    BY <1>8, <1>10, <2>2
<1>13. OfDevices(u[Rank(s, h + 1, h + 1)], s[h + 1], d)
  <2>1. Rank(s, h + 1, h + 1) = Len(packets) + 1
    BY <1>7, <1>9, <1>10
  <2>2. Len(packets) + 1 \in Len(packets) + 1 .. Len(packets) + Len(more)
        /\ (Len(packets) + 1) - Len(packets) = 1
    BY <1>4
  <2>3. u[Len(packets) + 1] = more[1]
    BY <1>3, <2>2 DEF Joined
  <2> QED
    BY <1>4, <2>1, <2>3
<1>14. \A n \in D : OfDevices(u[Rank(s, h + 1, n)], s[n], d)
  BY <1>5, <1>12, <1>13
<1> QED
  BY <1>3, <1>11, <1>14 DEF Matching, u, D

\* Frames captured later change nothing.
LEMMA CapturedLater ==
  ASSUME NEW packets, NEW s \in Seq(Frame), NEW t \in Seq(Frame), NEW h \in Nat, NEW d,
         Matching(packets, s, h, d), h <= Len(s),
         \A n \in 1 .. Len(s) : t[n] = s[n]
  PROVE  Matching(packets, t, h, d)
<1>1. Carrying(t, h) = Carrying(s, h)
  BY DEF Carrying
<1>2. \A n : Rank(t, h, n) = Rank(s, h, n)
  BY <1>1 DEF Rank
<1>3. \A n \in Carrying(s, h) : t[n] = s[n]
  BY DEF Carrying
<1> QED
  BY <1>1, <1>2, <1>3 DEF Matching

\* The inductive invariant behind PushedAsCaptured.
PushedInv ==
  /\ CaptureInv
  /\ pushed = [i \in Dev |-> pushed[i]]
  /\ \A i \in Dev : Matching(pushed[i], seen[i], handed[i], devices)

LEMMA PushedIsMatching ==
  ASSUME PushedInv
  PROVE  PushedAsCaptured
<1>1. \A packet, f : OfDevices(packet, f, devices) <=> IsOf(packet, f)
  BY DEF OfDevices, IsOf
<1> QED
  BY <1>1 DEF PushedInv, Matching, Carrying, Rank, PushedAsCaptured

LEMMA PushedInit ==
  ASSUME Init
  PROVE  PushedInv
<1>1. ASSUME NEW i \in Dev PROVE Matching(pushed[i], seen[i], handed[i], devices)
  <2>1. pushed[i] = <<>> /\ handed[i] = 0
    BY DEF Init
  <2>2. Carrying(seen[i], 0) = {}
    BY DEF Carrying
  <2>3. Cardinality({}) = 0
    BY FS_EmptySet
  <2>4. <<>> \in Seq({}) /\ Len(<<>>) = 0
    OBVIOUS
  <2> QED
    BY <2>1, <2>2, <2>3, <2>4 DEF Matching
<1>2. pushed = [i \in Dev |-> pushed[i]]
  BY DEF Init
<1> QED
  BY <1>1, <1>2, CaptureInit DEF PushedInv

\* Once get_devices() is through, an address is local just when an active device has it.
LEMMA OutgoingFromHere ==
  ASSUME CaptureInv, Started, NEW x \in Address
  PROVE  AddressWords(x) \in {AddressWords(y) : y \in local}
           <=> \E k \in Dev : devices[k].active /\ x \in devices[k].addresses
<1>1. next - 1 = NDevice
  BY CaptureAssumption DEF CaptureInv, Started
<1>2. x \in local <=> \E k \in Dev : devices[k].active /\ x \in devices[k].addresses
  BY <1>1 DEF CaptureInv, LocalOf, Dev
<1>3. AddressWords(x) \in {AddressWords(y) : y \in local} <=> x \in local
  BY AddressField
<1> QED
  BY <1>2, <1>3

LEMMA PushedAtDispatch ==
  ASSUME ParsersFit, PushedInv, NEW i \in Dev, dispatch_frame(i)
  PROVE  PushedInv'
<1> DEFINE link == devices[i].link
           h == handed[i]
           f == seen[i][h + 1]
           outgoing(p) == p.src \in {AddressWords(x) : x \in local}
           made(packets) == [k \in DOMAIN packets |->
                               [header |-> packets[k], outgoing |-> outgoing(packets[k])]]
<1>1. PICK packets \in pcap_dispatch_cb(link, OnWire(f, link)) :
        pushed' = [pushed EXCEPT ![i] = @ \o made(packets)]
  BY DEF dispatch_frame
<1>2. /\ handed' = [handed EXCEPT ![i] = @ + 1] /\ seen' = seen /\ devices' = devices
      /\ Started /\ Waiting(i)
  BY DEF dispatch_frame, Dispatching
<1>3. CaptureInv /\ CaptureInv'
  BY HandedStep DEF PushedInv
<1>4. h \in Nat /\ h + 1 \in 1 .. Len(seen[i]) /\ handed \in [Dev -> Nat]
  BY <1>2, <1>3 DEF CaptureInv, HandedOf, FramesOf, Waiting
<1>5. f \in Traffic[link] /\ link \in Link
  BY <1>3, <1>4, TheDevices DEF CaptureInv, FramesOf
<1>6. f \in Frame
  BY <1>5, CaptureAssumption
<1>7. ParsedFrom(packets, f)
  BY <1>1, <1>5, ParsedRight
<1>8. Matching(pushed[i], seen[i], h, devices)
  BY DEF PushedInv
<1>9. pushed'[i] = pushed[i] \o made(packets) /\ handed'[i] = h + 1
      /\ pushed' = [j \in Dev |-> pushed'[j]]
      /\ \A j \in Dev \ {i} : pushed'[j] = pushed[j] /\ handed'[j] = handed[j]
  <2>1. pushed = [j \in Dev |-> pushed[j]]
    BY DEF PushedInv
  <2> HIDE DEF made
  <2> QED
    BY <1>1, <1>2, <1>4, <2>1
<1>10. Matching(pushed'[i], seen[i], h + 1, devices)
  <2>1. CASE CarriesPorts(f)
    <3>1. PICK r : packets = <<r>> /\ HeaderOf(r, f)
      BY <1>7, <2>1 DEF ParsedFrom
    <3> DEFINE packet == [header |-> r, outgoing |-> outgoing(r)]
    <3>2. made(packets) = <<packet>>
      BY <3>1
    <3>3. r.src = AddressWords(f.src) /\ f.src \in Address
      BY <1>6, <3>1 DEF HeaderOf, Frame
    <3>4. outgoing(r) <=> \E k \in Dev : devices[k].active /\ f.src \in devices[k].addresses
      BY <1>2, <1>3, <3>3, OutgoingFromHere
    <3> HIDE DEF outgoing, made
    <3>5. packet.header = r /\ packet.outgoing = outgoing(r)
      OBVIOUS
    <3> HIDE DEF packet
    <3>6. OfDevices(packet, f, devices)
      BY <3>1, <3>4, <3>5 DEF OfDevices, HeaderOf
    <3>7. Single(made(packets), packet)
      BY <3>2 DEF Single
    <3>8. Matching(pushed[i] \o made(packets), seen[i], h + 1, devices)
      BY <1>4, <1>8, <2>1, <3>6, <3>7, PushedNext
    <3> QED
      BY <1>9, <3>8
  <2>2. CASE ~ CarriesPorts(f)
    <3>1. packets = <<>>
      BY <1>7, <2>2 DEF ParsedFrom
    <3>2. made(packets) = <<>>
      BY <3>1
    <3>3. pushed[i] \o <<>> = pushed[i]
      <4>1. PICK S : pushed[i] \in Seq(S)
        BY <1>8 DEF Matching
      <4> QED
        BY <4>1
    <3> QED
      BY <1>4, <1>8, <1>9, <2>2, <3>2, <3>3, PassedOver
  <2> QED
    BY <2>1, <2>2
<1>11. ASSUME NEW j \in Dev PROVE Matching(pushed'[j], seen'[j], handed'[j], devices')
  BY <1>2, <1>9, <1>10 DEF PushedInv
<1> QED
  BY <1>3, <1>9, <1>11 DEF PushedInv

LEMMA PushedAtCapture ==
  ASSUME PushedInv, NEW i \in Dev, Capture(i)
  PROVE  PushedInv'
<1>1. CaptureInv /\ CaptureInv'
  BY CapturedStep DEF PushedInv
<1>2. /\ devices' = devices /\ handed' = handed /\ pushed' = pushed
      /\ \E f \in Traffic[devices[i].link] : seen' = [seen EXCEPT ![i] = Append(@, f)]
  BY DEF Capture
<1>3. PICK f \in Traffic[devices[i].link] : seen' = [seen EXCEPT ![i] = Append(@, f)]
  BY <1>2
<1>4. seen \in [Dev -> Seq(Frame)] /\ seen' \in [Dev -> Seq(Frame)]
      /\ \A j \in Dev : handed[j] \in Nat /\ handed[j] <= Len(seen[j])
  BY <1>1 DEF CaptureInv, FramesOf, HandedOf
<1>5. f \in Frame
  BY <1>1, TheDevices, CaptureAssumption
<1>6. ASSUME NEW j \in Dev, NEW n \in 1 .. Len(seen[j]) PROVE seen'[j][n] = seen[j][n]
  BY <1>3, <1>4, <1>5
<1>7. ASSUME NEW j \in Dev PROVE Matching(pushed'[j], seen'[j], handed'[j], devices')
  <2>1. Matching(pushed[j], seen[j], handed[j], devices)
    BY DEF PushedInv
  <2>2. seen[j] \in Seq(Frame) /\ seen'[j] \in Seq(Frame)
    BY <1>4
  <2>3. Matching(pushed[j], seen'[j], handed[j], devices)
    BY <1>4, <1>6, <2>1, <2>2, CapturedLater
  <2> QED
    BY <1>2, <2>3
<1> QED
  BY <1>1, <1>2, <1>7 DEF PushedInv

LEMMA PushedStep ==
  ASSUME ParsersFit, PushedInv, [Next]_vars
  PROVE  PushedInv'
<1>1. CASE \E i \in Dev : Capture(i)
  BY <1>1, PushedAtCapture
<1>2. CASE \E i \in Dev : dispatch_frame(i)
  BY <1>2, PushedAtDispatch
<1>3. ASSUME UNCHANGED <<devices, seen, handed, pushed>> PROVE PushedInv'
  BY <1>3, CaptureStep DEF PushedInv
<1>4. CASE get_devices
  BY <1>3, <1>4 DEF get_devices
<1>5. CASE \E i \in Dev : GoDown(i) \/ na_pcap_dispatch(i)
  BY <1>3, <1>5 DEF GoDown, na_pcap_dispatch
<1>6. CASE do_refresh
  BY <1>3, <1>6 DEF do_refresh
<1>7. CASE UNCHANGED vars
  BY <1>3, <1>7 DEF vars
<1> QED
  BY <1>1, <1>2, <1>4, <1>5, <1>6, <1>7 DEF Next

\* With traffic the parsers are written for, whatever the devices and however they go
\* down: of each device the packets pushed are those of the TCP and UDP frames that
\* were dispatched, each once and in order, with the addresses of the frame, its ports
\* unless there are IPv4 options, and outgoing just when an active device has the
\* source address (na-pcap.c, na-packet.c, get_devices() in na-application.c).
THEOREM PacketsAreTheFrames ==
  ASSUME ParsersFit
  PROVE  Spec => []PushedAsCaptured
<1>1. Init => PushedInv
  BY PushedInit
<1>2. PushedInv /\ [Next]_vars => PushedInv'
  BY PushedStep
<1>3. PushedInv => PushedAsCaptured
  BY PushedIsMatching
<1> QED
  BY <1>1, <1>2, <1>3, PTL DEF Spec

=============================================================================
