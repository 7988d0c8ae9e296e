---------------------------- MODULE TrafficMeter ----------------------------
(***************************************************************************)
(* What the accounting of the network analyzer promises, whatever its      *)
(* connections, processes and timeouts.  A packet that waits at an         *)
(* interface is taken once, and with that adds its length to one counter:  *)
(* that of its flow, of the direction its source tells, of the second it   *)
(* was stamped with.  It counts until it is PERIOD seconds old, for one    *)
(* owner, the same as the other packets of its flow that count then.  A    *)
(* report says for each owner the bytes of all its flows that count.       *)
(* ("The average speed over the last 5 seconds", na-connection.h, is that  *)
(* sum divided by PERIOD.)                                                 *)
(*                                                                         *)
(* Which process owns a flow is for the socket tables to say: any here.    *)
(* The counters are of U32 values, and start again at zero.                *)
(***************************************************************************)
EXTENDS Integers, Sequences, Functions

CONSTANTS Iface, Wire, LocalAddress, PacketLen, Owner, PERIOD, U32, Epoch

VARIABLES
  now,
  waiting,    \* the packets at each interface
  window,     \* the bytes of a flow and its owner, by direction and age
  reported    \* what the last report said of each owner

Direction == {"sent", "recv"}
Age == 0 .. PERIOD - 1

\* The packets between two end points, in either direction.
FlowOf(h) ==
  {h, [src |-> h.dst, sport |-> h.dport, dst |-> h.src, dport |-> h.sport]}
Flows == {FlowOf(h) : h \in Wire}
Account == Owner \X Flows

MeterInit ==
  /\ now = Epoch
  /\ waiting = [i \in Iface |-> <<>>]
  /\ window = [a \in Account |-> [d \in Direction |-> [age \in Age |-> 0]]]
  /\ reported = [o \in Owner |-> [d \in Direction |-> 0]]

Arrive(i) ==
  /\ \E h \in Wire, n \in PacketLen :
       waiting' = [waiting EXCEPT ![i] =
                     Append(@, [header |-> h, time |-> now, len |-> n])]
  /\ UNCHANGED <<now, window, reported>>

DirectionOf(p) == IF p.header.src \in LocalAddress THEN "sent" ELSE "recv"

Counting(a) == \E d \in Direction, age \in Age : window[a][d][age] # 0

\* The counters of a direction with a packet added, unless it is too old.
Added(counters, p) ==
  [age \in Age |-> IF age = now - p.time
                   THEN (counters[age] + p.len) % U32
                   ELSE counters[age]]

Count(i) ==
  /\ waiting[i] # <<>>
  /\ waiting' = [waiting EXCEPT ![i] = Tail(@)]
  /\ LET p == Head(waiting[i])
     IN  \E o \in Owner :
           /\ \A q \in Owner \ {o} : ~ Counting(<<q, FlowOf(p.header)>>)
           /\ window' = [window EXCEPT ![<<o, FlowOf(p.header)>>][DirectionOf(p)] =
                           Added(@, p)]
  /\ UNCHANGED <<now, reported>>

Second ==
  /\ now' = now + 1
  /\ window' = [a \in Account |-> [d \in Direction |->
                 [age \in Age |-> IF age = 0 THEN 0 ELSE window[a][d][age - 1]]]]
  /\ UNCHANGED <<waiting, reported>>

Publish ==
  /\ reported' = [o \in Owner |-> [d \in Direction |->
                   SumFunction([f \in Flows |-> SumFunction(window[<<o, f>>][d])]) % U32]]
  /\ UNCHANGED <<now, waiting, window>>

MeterNext ==
  \/ \E i \in Iface : Arrive(i) \/ Count(i)
  \/ Second
  \/ Publish

meter == <<now, waiting, window, reported>>

Meter == MeterInit /\ [][MeterNext]_meter

=============================================================================
