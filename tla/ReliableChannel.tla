-------------------------- MODULE ReliableChannel --------------------------
(***************************************************************************)
(* The reliability layer under OpenVPN's TLS control channel (reliable.c)  *)
(* as tls_process and tls_pre_decrypt of ssl.c drive it, for the first key *)
(* of a session: two peers, a datagram network that loses, duplicates and  *)
(* reorders, a send window, a receive buffer and acknowledgements that     *)
(* ride on data or travel alone.                                           *)
(*                                                                         *)
(* A packet is its number n in the sender's stream; the wire carries       *)
(* pid(n). Packet 0 is the hard reset, an empty buffer. The TLS object is  *)
(* external: it hands out ciphertext when it likes.                        *)
(***************************************************************************)
EXTENDS Integers, Sequences, FiniteSets, SequencesExt

CONSTANTS
  Peer,              \* the two ends
  HoldPeers,         \* those that start with xmit_hold (a TCP server)
  SendBuffers,       \* TLS_RELIABLE_N_SEND_BUFFERS, 4 in the code
  RecBuffers,        \* TLS_RELIABLE_N_REC_BUFFERS, 8 in the code
  AckSize,           \* RELIABLE_ACK_SIZE, 8 in the code
  SendAckMax,        \* CONTROL_SEND_ACK_MAX, 4 in the code
  PidMod,            \* packet ids are numbers modulo this, 2^32 in the code
  MaxPackets,        \* bound: MaxPackets[p] packets are written by p
  WireBound          \* bound: WireBound[p] datagrams in flight to p

ASSUME ChannelAssumption ==
  /\ IsFiniteSet(Peer) /\ Cardinality(Peer) = 2
  /\ HoldPeers \subseteq Peer
  /\ SendBuffers \in Nat \ {0} /\ RecBuffers \in Nat \ {0}
  /\ SendBuffers <= RecBuffers
  /\ AckSize \in Nat \ {0} /\ SendAckMax \in Nat \ {0}
  /\ PidMod \in Nat /\ PidMod > 4 * RecBuffers
  /\ MaxPackets \in [Peer -> Nat]
  /\ WireBound \in [Peer -> Nat \ {0}]

Other(p) == CHOOSE q \in Peer : q # p
Half == PidMod \div 2                \* 0x80000000

\* The ids of one key do not come round: a key lives for an hour, so its control
\* channel stays far below 2^31 packets.
ASSUME NoWrapAssumption == \A p \in Peer : MaxPackets[p] <= Half

pid(n) == n % PidMod
Pid == 0..(PidMod - 1)

VARIABLES
  state,       \* ks->state: "INITIAL", "PRE_START" or "START" (and beyond)
  remote,      \* session_id_remote is defined
  hold,        \* send_reliable->hold
  next,        \* packets written; send_reliable->packet_id is pid(next)
  active,      \* packets in the send buffer
  due,         \* those of them with next_try <= now
  rec,         \* packets in the receive buffer
  recPid,      \* rec_reliable->packet_id
  acks,        \* rec_ack, in the order of arrival
  wire,        \* datagrams on their way to a peer
  delivered    \* history: what the TLS object has been given

vars == <<state, remote, hold, next, active, due, rec, recPid, acks, wire, delivered>>

Packet == [op : {"CONTROL", "ACK"}, n : Nat, acks : Seq(Pid)]

(***************************************************************************)
(* Packet ids, on unsigned numbers that wrap.                              *)
(***************************************************************************)
Plus(a, b) == (a + b) % PidMod
Minus(a, b) == (a - b + PidMod) % PidMod

\* test - base < extent: both branches of the code subtract modulo 2^32.
reliable_pid_in_range1(test, base, extent) == Minus(test, base) < extent

\* test < base + extent; the wrap of base + extent is allowed for, and no other.
reliable_pid_in_range2(test, base, extent) ==
  IF Plus(base, extent) >= base
    THEN test < Plus(base, extent)
    ELSE Plus(test, Half) < Plus(Plus(base, Half), extent)

reliable_pid_min(p1, p2) == ~reliable_pid_in_range1(p1, p2, Half)

(***************************************************************************)
(* The send buffer.                                                        *)
(***************************************************************************)
LowestOf(S) == CHOOSE n \in S : \A m \in S : m = n \/ reliable_pid_min(pid(n), pid(m))

\* reliable_get_buf_output_sequenced finds a buffer.
WindowOpen(act, nxt) ==
  act # {} => reliable_pid_in_range1(pid(nxt), pid(LowestOf(act)), SendBuffers)

reliable_can_send(p) == due[p] # {} /\ ~hold[p]

\* FULL_SYNC: nothing to be acknowledged in either direction.
FULL_SYNC(p) == active[p] = {} /\ acks[p] = <<>>

(***************************************************************************)
(* The receive buffer.                                                     *)
(***************************************************************************)
reliable_can_get(p) == Cardinality(rec[p]) < RecBuffers

reliable_wont_break_sequentiality(p, id) == reliable_pid_in_range2(id, recPid[p], RecBuffers)

OldIsNew(p, id) == \A m \in rec[p] : pid(m) # id       \* mutant
reliable_not_replay(p, id) ==
  /\ ~reliable_pid_min(id, recPid[p])
  /\ \A m \in rec[p] : pid(m) # id

\* The active buffer with the packet id that is i rounds ahead, if there is one.
LowestActive(p, i) == {n \in rec[p] : Cardinality({m \in rec[p] : m < n}) = i}       \* mutant
reliable_get_buf_sequenced(p, i) == {n \in rec[p] : pid(n) = Plus(recPid[p], i)}

\* How many rounds of the loop find one.
Sequenced(p) ==
  Cardinality({k \in 1..Cardinality(rec[p]) :
                 \A i \in 0..(k - 1) : reliable_get_buf_sequenced(p, i) # {}})

\* The packets handed to TLS by k rounds, in order.
HandedOver(p, k) ==
  [i \in 1..k |-> CHOOSE n \in reliable_get_buf_sequenced(p, i - 1) : TRUE]

\* reliable_mark_deleted(.., inc_pid) after each of them.
Deliver(p, k) ==
  LET h == HandedOver(p, k) IN
    /\ delivered' = [delivered EXCEPT ![p] = @ \o h]
    /\ rec' = [rec EXCEPT ![p] = @ \ {h[i] : i \in 1..k}]
    /\ recPid' = [recPid EXCEPT ![p] = Plus(@, k)]

(***************************************************************************)
(* Acknowledgements.                                                       *)
(***************************************************************************)
AckNoLimit(a, id) == IF Contains(a, id) THEN a ELSE Append(a, id)       \* mutant
reliable_ack_acknowledge_packet_id(a, id) ==
  IF Contains(a, id) \/ Len(a) >= AckSize THEN a ELSE Append(a, id)

FirstAcks(a, max) == SubSeq(a, 1, IF Len(a) > max THEN max ELSE Len(a))
LaterAcks(a, max) == SubSeq(a, 1 + (IF Len(a) > max THEN max ELSE Len(a)), Len(a))

\* reliable_send_purge: the rest of the send buffer.
NotAcked(S, ids) == {n \in S : ~Contains(ids, pid(n))}

(***************************************************************************)
(* The network (external): a datagram may push another one out.            *)
(***************************************************************************)
Transmit(p, m) ==
  LET q == Other(p) IN
  \E kept \in SUBSET wire[q] :
     /\ IF Cardinality(wire[q] \ {m}) < WireBound[q]
          THEN kept = wire[q]
          ELSE Cardinality(wire[q] \ kept) = 1
     /\ wire' = [wire EXCEPT ![q] = kept \cup {m}]

(***************************************************************************)
(* tls_process: one call, to_link being free.                              *)
(***************************************************************************)
\* The state after the first part of the loop: the hard reset is written, and
\* full synchronisation starts TLS.
StateNow(p) == CASE state[p] = "INITIAL" -> "PRE_START"
                 [] state[p] = "PRE_START" /\ FULL_SYNC(p) -> "START"
                 [] OTHER -> state[p]
Opening(p) == IF state[p] = "INITIAL" THEN {0} ELSE {}

\* reliable_send and write_control_auth with the acknowledgements that fit.
SendOne(p, ready, act) ==
  LET n == LowestOf(ready) IN
    /\ active' = [active EXCEPT ![p] = act]
    /\ due' = [due EXCEPT ![p] = ready \ {n}]
    /\ acks' = [acks EXCEPT ![p] = LaterAcks(@, SendAckMax)]
    /\ Transmit(p, [op |-> "CONTROL", n |-> n, acks |-> FirstAcks(acks[p], SendAckMax)])

\* A packet is due: it is sent, the loop is left at once.
ProcessSend(p) ==
  /\ due[p] \cup Opening(p) # {} /\ ~hold[p]
  /\ state' = [state EXCEPT ![p] = StateNow(p)]
  /\ next' = [next EXCEPT ![p] = @ + Cardinality(Opening(p))]
  /\ SendOne(p, due[p] \cup Opening(p), active[p] \cup Opening(p))
  /\ UNCHANGED <<remote, hold, rec, recPid, delivered>>

\* Nothing is due: packets go up to TLS, TLS writes one, and it is sent.
ProcessWrite(p) ==
  /\ ~reliable_can_send(p) /\ state[p] # "INITIAL"
  /\ StateNow(p) = "START"
  /\ next[p] < MaxPackets[p]
  /\ WindowOpen(active[p], next[p])
  /\ \E k \in 0..Sequenced(p) :
       /\ k = 0 => Sequenced(p) = 0
       /\ Deliver(p, k)
  /\ state' = [state EXCEPT ![p] = "START"]
  /\ next' = [next EXCEPT ![p] = @ + 1]
  /\ SendOne(p, {next[p]}, active[p] \cup {next[p]})
  /\ UNCHANGED <<remote, hold>>

\* Nothing is due and TLS writes nothing: packets go up, acknowledgements are
\* sent in a packet of their own.
ProcessIdle(p) ==
  /\ IF state[p] = "INITIAL" THEN hold[p] ELSE ~reliable_can_send(p)
  /\ state' = [state EXCEPT ![p] = StateNow(p)]
  /\ next' = [next EXCEPT ![p] = @ + Cardinality(Opening(p))]
  /\ active' = [active EXCEPT ![p] = @ \cup Opening(p)]
  /\ due' = [due EXCEPT ![p] = @ \cup Opening(p)]
  /\ Deliver(p, Sequenced(p))
  /\ IF acks[p] = <<>>
       THEN UNCHANGED <<acks, wire>>
       ELSE /\ acks' = [acks EXCEPT ![p] = LaterAcks(@, AckSize)]
            /\ Transmit(p, [op |-> "ACK", n |-> 0, acks |-> FirstAcks(acks[p], AckSize)])
  /\ UNCHANGED <<remote, hold>>

tls_process(p) == ProcessSend(p) \/ ProcessWrite(p) \/ ProcessIdle(p)

\* The retransmission timeout of a packet passes.
Expire(p, n) ==
  /\ n \in active[p] \ due[p]
  /\ due' = [due EXCEPT ![p] = @ \cup {n}]
  /\ UNCHANGED <<state, remote, hold, next, active, rec, recPid, acks, wire, delivered>>

(***************************************************************************)
(* tls_pre_decrypt: a control packet arrives.                              *)
(***************************************************************************)
IsReset(m) == m.op = "CONTROL" /\ m.n = 0

AcksAll(p, m) ==       \* mutant: acknowledged before the tests
  /\ rec' = IF /\ m.op # "ACK" /\ reliable_can_get(p)
               /\ reliable_wont_break_sequentiality(p, pid(m.n)) /\ reliable_not_replay(p, pid(m.n))
              THEN [rec EXCEPT ![p] = @ \cup {m.n}] ELSE rec
  /\ acks' = IF m.op = "ACK" THEN acks
              ELSE [acks EXCEPT ![p] = reliable_ack_acknowledge_packet_id(@, pid(m.n))]
AcksNewOnly(p, m) ==       \* mutant: a replay is not acknowledged
  IF /\ m.op # "ACK" /\ reliable_can_get(p)
     /\ reliable_wont_break_sequentiality(p, pid(m.n)) /\ reliable_not_replay(p, pid(m.n))
    THEN /\ rec' = [rec EXCEPT ![p] = @ \cup {m.n}]
         /\ acks' = [acks EXCEPT ![p] = reliable_ack_acknowledge_packet_id(@, pid(m.n))]
    ELSE UNCHANGED <<rec, acks>>
\* The packet is stored unless it is a replay, and acknowledged in both cases.
Store(p, m) ==
  IF /\ m.op # "ACK" /\ reliable_can_get(p)
     /\ reliable_wont_break_sequentiality(p, pid(m.n))
    THEN /\ rec' = IF reliable_not_replay(p, pid(m.n))
                     THEN [rec EXCEPT ![p] = @ \cup {m.n}]
                     ELSE rec
         /\ acks' = [acks EXCEPT ![p] = reliable_ack_acknowledge_packet_id(@, pid(m.n))]
    ELSE UNCHANGED <<rec, acks>>

\* reliable_schedule_now for the packet that opens the session, else no change.
tls_pre_decrypt(p, m) ==
  /\ IF remote[p] \/ IsReset(m)
       THEN /\ remote' = [remote EXCEPT ![p] = TRUE]
            /\ hold' = [hold EXCEPT ![p] = @ /\ remote[p]]
            /\ active' = [active EXCEPT ![p] = NotAcked(@, m.acks)]
            /\ due' = [due EXCEPT ![p] = NotAcked(IF remote[p] THEN @ ELSE active[p], m.acks)]
            /\ Store(p, m)
       ELSE UNCHANGED <<remote, hold, active, due, rec, acks>>      \* unroutable
  /\ UNCHANGED <<state, next, recPid, delivered>>

\* A datagram arrives, and may arrive again.
Arrive(p, m) ==
  /\ m \in wire[p]
  /\ tls_pre_decrypt(p, m)
  /\ \/ wire' = [wire EXCEPT ![p] = @ \ {m}]
     \/ UNCHANGED wire

Lose(p) ==
  /\ \E m \in wire[p] : wire' = [wire EXCEPT ![p] = @ \ {m}]
  /\ UNCHANGED <<state, remote, hold, next, active, due, rec, recPid, acks, delivered>>

-----------------------------------------------------------------------------
Init ==
  /\ state = [p \in Peer |-> "INITIAL"]
  /\ remote = [p \in Peer |-> FALSE]
  /\ hold = [p \in Peer |-> p \in HoldPeers]
  /\ next = [p \in Peer |-> 0]
  /\ active = [p \in Peer |-> {}] /\ due = [p \in Peer |-> {}]
  /\ rec = [p \in Peer |-> {}] /\ recPid = [p \in Peer |-> 0]
  /\ acks = [p \in Peer |-> <<>>]
  /\ wire = [p \in Peer |-> {}]
  /\ delivered = [p \in Peer |-> <<>>]

Next ==
  \E p \in Peer : \/ tls_process(p) \/ Lose(p)
                  \/ \E n \in active[p] : Expire(p, n)
                  \/ \E m \in wire[p] : Arrive(p, m)

Spec == Init /\ [][Next]_vars

\* The event loop runs, timeouts pass, and what is sent again and again arrives:
\* a packet, and an acknowledgement of a packet.
Fairness ==
  \A p \in Peer :
    /\ WF_vars(tls_process(p))
    /\ \A n \in 0..(MaxPackets[p] - 1) : WF_vars(Expire(p, n))
    /\ \A n \in 0..(MaxPackets[Other(p)] - 1) :
         SF_vars(\E m \in wire[p] : m.op = "CONTROL" /\ m.n = n /\ Arrive(p, m))
    /\ \A n \in 0..(MaxPackets[p] - 1) :
         SF_vars(\E m \in wire[p] : Contains(m.acks, pid(n)) /\ Arrive(p, m))

FairSpec == Spec /\ Fairness

-----------------------------------------------------------------------------
(***************************************************************************)
(* Properties                                                              *)
(***************************************************************************)
TypeOK ==
  /\ state \in [Peer -> {"INITIAL", "PRE_START", "START"}]
  /\ remote \in [Peer -> BOOLEAN] /\ hold \in [Peer -> BOOLEAN]
  /\ next \in [Peer -> Nat]
  /\ \A p \in Peer : /\ active[p] \subseteq 0..(next[p] - 1) /\ due[p] \subseteq active[p]
                     /\ rec[p] \subseteq 0..(next[Other(p)] - 1)
                     /\ Cardinality(active[p]) <= SendBuffers
                     /\ Cardinality(rec[p]) <= RecBuffers
  /\ recPid \in [Peer -> Pid]
  /\ \A p \in Peer : acks[p] \in Seq(Pid) /\ Len(acks[p]) <= AckSize
  /\ \A p \in Peer : wire[p] \subseteq Packet

\* A packet leaves the send buffer only when the peer has it: an acknowledgement
\* is never taken for that of another packet. FULL_SYNC rests on this.
PurgedHasArrived ==
  \A p \in Peer : \A n \in 0..(next[p] - 1) :
     n \in active[p] \/ n \in rec[Other(p)] \/ n < Len(delivered[Other(p)])

\* A full receive buffer holds the packet that TLS waits for ("Avoid deadlock by
\* rejecting packet that would de-sequentialize receive buffer").
NoReceiveDeadlock ==
  \A p \in Peer : Cardinality(rec[p]) = RecBuffers => \E n \in rec[p] : pid(n) = recPid[p]

\* The channel is a pair of FIFO streams, whatever the network does.
Fifo == INSTANCE FifoChannel WITH written <- next, readBy <- delivered
IsFifo == Fifo!Spec

\* Every packet written is read at last, and its sender learns of it: the channel
\* comes to rest (MaxPackets bounds what is written).
AllArrive ==
  []<>(\A p \in Peer : Len(delivered[Other(p)]) = next[p] /\ active[p] = {})
=============================================================================
