----------------------- MODULE ReliableChannelProofs -----------------------
(***************************************************************************)
(* The control channel for any sizes of its buffers, any number of packets *)
(* below the wrap of the ids and any number of datagrams in flight: the    *)
(* safety properties of ReliableChannel, and that it implements            *)
(* FifoChannel.                                                            *)
(***************************************************************************)
EXTENDS ReliableChannel, FiniteSetTheorems, SequenceTheorems, TLAPS

\* A peer with receive buffer r whose TLS has read d has received packet n.
Got(r, d, n) == n \in r \/ n < Len(d)
Has(p, n) == Got(rec[p], delivered[p], n)
HasNow(p, n) == Got(rec'[p], delivered'[p], n)

Types ==
  /\ state \in [Peer -> {"INITIAL", "PRE_START", "START"}]
  /\ remote \in [Peer -> BOOLEAN] /\ hold \in [Peer -> BOOLEAN]
  /\ next \in [Peer -> 0..Half]
  /\ active \in [Peer -> SUBSET Nat] /\ due \in [Peer -> SUBSET Nat]
  /\ rec \in [Peer -> SUBSET Nat] /\ recPid \in [Peer -> Nat]
  /\ acks \in [Peer -> Seq(Pid)]
  /\ wire \in [Peer -> SUBSET Packet]
  /\ delivered \in [Peer -> Seq(Nat)]

\* What waits for an acknowledgement has been written and lies in one window.
SendWindow ==
  \A p \in Peer :
    /\ state[p] = "INITIAL" => next[p] = 0
    /\ due[p] \subseteq active[p]
    /\ \A n \in active[p] : n < next[p]
    /\ \A m, n \in active[p] : m - n < SendBuffers

\* What waits for TLS has been written, and lies in the window at the packet
\* that TLS reads next.
RecWindow ==
  \A p \in Peer :
    /\ recPid[p] = Len(delivered[p]) /\ recPid[p] <= next[Other(p)]
    /\ \A n \in rec[p] : recPid[p] <= n /\ n < recPid[p] + RecBuffers /\ n < next[Other(p)]

\* TLS has read a first part of the stream.
InOrder == \A p \in Peer : \A i \in 1..Len(delivered[p]) : delivered[p][i] = i - 1

\* Only what was received is acknowledged.
AcksHave ==
  \A p \in Peer : /\ Len(acks[p]) <= AckSize
                  /\ \A i \in 1..Len(acks[p]) : Has(p, acks[p][i])

\* A datagram brings a packet that was written and acknowledges packets that were
\* received.
WireHas ==
  \A p \in Peer : \A m \in wire[p] :
    /\ m.op = "CONTROL" => m.n < next[Other(p)]
    /\ \A i \in 1..Len(m.acks) : Has(Other(p), m.acks[i])

IInv == Types /\ SendWindow /\ RecWindow /\ InOrder /\ AcksHave /\ WireHas /\ PurgedHasArrived

-----------------------------------------------------------------------------
(***************************************************************************)
(* The two peers, and arithmetic below the wrap.                           *)
(***************************************************************************)
\* The other one of two peers is a peer, and its other one is the first.
LEMMA Others ==
  ASSUME NEW p \in Peer
  PROVE  /\ Other(p) \in Peer /\ Other(p) # p /\ Other(Other(p)) = p
         /\ \A q \in Peer : q = p \/ q = Other(p)
<1>1. IsFiniteSet(Peer \ {p}) /\ Cardinality(Peer \ {p}) = 1
  BY ChannelAssumption, FS_RemoveElement DEF ChannelAssumption
<1>2. PICK q : Peer \ {p} = {q}
  BY <1>1, FS_Singleton
<1>3. Other(p) = q
  BY <1>2 DEF Other
<1>4. Other(q) = p
  BY <1>2 DEF Other
<1>5. QED
  BY <1>2, <1>3, <1>4

\* The sizes, and what Half is.
LEMMA Sizes ==
  /\ PidMod \in Nat /\ Half \in Nat /\ RecBuffers \in Nat \ {0} /\ SendBuffers \in Nat \ {0}
  /\ AckSize \in Nat \ {0} /\ SendAckMax \in Nat \ {0}
  /\ 2 * Half <= PidMod /\ PidMod <= 2 * Half + 1 /\ Half >= 2
  /\ Half + RecBuffers < PidMod /\ RecBuffers < Half
  /\ SendBuffers < Half
BY ChannelAssumption DEF ChannelAssumption, Half

\* Numbers below the modulus are their own remainders ...
LEMMA ModSmall ==
  ASSUME NEW a \in Nat, a < PidMod
  PROVE  a % PidMod = a
BY Sizes

\* ... and numbers below twice the modulus lose it once.
LEMMA ModOnce ==
  ASSUME NEW a \in Nat, a < PidMod
  PROVE  (a + PidMod) % PidMod = a
BY Sizes

\* Packets below the wrap are named by their numbers.
LEMMA PidIsNumber ==
  ASSUME NEW n \in 0..Half
  PROVE  pid(n) = n /\ pid(n) \in Pid
<1>1. n \in Nat /\ n < PidMod
  BY Sizes
<1>2. QED
  BY <1>1, ModSmall, Sizes DEF pid, Pid

\* reliable_pid_min is the order of the numbers.
LEMMA PidMinIsLess ==
  ASSUME NEW n \in 0..(Half - 1), NEW m \in 0..Half
  PROVE  reliable_pid_min(n, m) <=> n < m
<1>1. CASE n >= m
  <2>1. (n - m) \in Nat /\ n - m < PidMod
    BY <1>1, Sizes
  <2>2. Minus(n, m) = n - m
    BY <2>1, ModOnce DEF Minus
  <2>3. QED
    BY <1>1, <2>2, Sizes DEF reliable_pid_min, reliable_pid_in_range1
<1>2. CASE n < m
  <2>1. (n - m + PidMod) \in Nat /\ n - m + PidMod < PidMod
    BY <1>2, Sizes
  <2>2. Minus(n, m) = n - m + PidMod
    BY <2>1, ModSmall DEF Minus
  <2>3. n - m + PidMod >= Half
    BY <1>2, Sizes
  <2>4. QED
    BY <1>2, <2>2, <2>3, Sizes DEF reliable_pid_min, reliable_pid_in_range1
<1>3. QED
  BY <1>1, <1>2

\* reliable_pid_in_range2 is the test for a number below the end of the window.
LEMMA RangeIsBelow ==
  ASSUME NEW n \in 0..Half, NEW b \in 0..Half
  PROVE  reliable_pid_in_range2(n, b, RecBuffers) <=> n < b + RecBuffers
<1>1. b + RecBuffers \in Nat /\ b + RecBuffers < PidMod
  BY Sizes
<1>2. Plus(b, RecBuffers) = b + RecBuffers
  BY <1>1, ModSmall DEF Plus
<1>3. Plus(b, RecBuffers) >= b
  BY <1>2, Sizes
<1>4. QED
  BY <1>2, <1>3 DEF reliable_pid_in_range2

\* A set of numbers has a least one.
LEMMA Minimum ==
  ASSUME NEW S \in SUBSET Nat, S # {}
  PROVE  \E n \in S : \A m \in S : n <= m
<1>1. PICK n \in S : \A m \in S : ~(<<m, n>> \in OpToRel(<, Nat))
  BY NatLessThanWellFounded, WFMin
<1>2. \A m \in S : ~(m < n)
  BY <1>1 DEF OpToRel
<1>3. QED
  BY <1>2

\* reliable_get_buf_output_sequenced and reliable_send pick the least number.
LEMMA LowestIsMinimum ==
  ASSUME NEW S \in SUBSET (0..(Half - 1)), S # {}
  PROVE  LowestOf(S) \in S /\ \A m \in S : LowestOf(S) <= m
<1>0. Half \in Nat /\ S \in SUBSET Nat
  BY Sizes
<1>1. PICK n \in S : \A m \in S : n <= m
  BY <1>0, Minimum
<1>2. \A a, b \in S : reliable_pid_min(pid(a), pid(b)) <=> a < b
  <2> SUFFICES ASSUME NEW a \in S, NEW b \in S
               PROVE  reliable_pid_min(pid(a), pid(b)) <=> a < b
    OBVIOUS
  <2>1. a \in 0..(Half - 1) /\ b \in 0..Half /\ a \in 0..Half
    BY <1>0
  <2>2. pid(a) = a /\ pid(b) = b
    BY <2>1, PidIsNumber
  <2>3. QED
    BY <2>1, <2>2, PidMinIsLess
<1>3. \A m \in S : m = n \/ reliable_pid_min(pid(n), pid(m))
  BY <1>0, <1>1, <1>2
<1> DEFINE l == LowestOf(S)
<1>4. l \in S /\ \A m \in S : m = l \/ reliable_pid_min(pid(l), pid(m))
  BY <1>3 DEF LowestOf
<1> HIDE DEF l
<1>5. \A m \in S : m = l \/ l < m
  BY <1>2, <1>4
<1>6. \A m \in S : l <= m
  BY <1>0, <1>4, <1>5
<1>7. QED
  BY <1>4, <1>6 DEF l

\* An open window leaves room for the next packet.
LEMMA OpenWindow ==
  ASSUME NEW nxt \in 0..Half, NEW S \in SUBSET (0..(Half - 1)),
         \A m \in S : m < nxt, WindowOpen(S, nxt)
  PROVE  \A m \in S : nxt - m < SendBuffers
<1> SUFFICES ASSUME S # {}
             PROVE  \A m \in S : nxt - m < SendBuffers
  OBVIOUS
<1> DEFINE l == LowestOf(S)
<1>1. l \in S /\ \A m \in S : l <= m
  BY LowestIsMinimum
<1> HIDE DEF l
<1>2. l \in 0..Half /\ l < nxt /\ Half \in Nat
  BY <1>1, Sizes
<1>3. pid(nxt) = nxt /\ pid(l) = l
  BY <1>2, PidIsNumber
<1>4. Minus(nxt, l) < SendBuffers
  BY <1>3 DEF WindowOpen, reliable_pid_in_range1, l
<1>5. nxt - l \in Nat /\ nxt - l < PidMod
  BY <1>2, Sizes
<1>6. Minus(nxt, l) = nxt - l
  BY <1>5, ModOnce DEF Minus
<1>7. QED
  BY <1>1, <1>2, <1>4, <1>6, Sizes

-----------------------------------------------------------------------------
(***************************************************************************)
(* The receive buffer and the packets that go up to TLS.                   *)
(***************************************************************************)
\* The receive buffer is finite and its packets are in their window.
LEMMA RecSet ==
  ASSUME Types, RecWindow, NEW p \in Peer
  PROVE  /\ recPid[p] \in 0..Half /\ rec[p] \subseteq 0..(Half - 1)
         /\ rec[p] \subseteq recPid[p]..(recPid[p] + RecBuffers - 1)
         /\ IsFiniteSet(rec[p]) /\ Cardinality(rec[p]) \in Nat
         /\ Cardinality(rec[p]) <= RecBuffers
         /\ Cardinality(rec[p]) = RecBuffers => recPid[p] \in rec[p]
<1> DEFINE W == recPid[p]..(recPid[p] + RecBuffers - 1)
<1>1. Other(p) \in Peer /\ next[Other(p)] \in 0..Half /\ recPid[p] \in Nat /\ rec[p] \subseteq Nat
  BY Others DEF Types
<1>2. recPid[p] <= next[Other(p)]
  BY DEF RecWindow
<1>3. recPid[p] \in 0..Half
  BY <1>1, <1>2, Sizes
<1>4. \A n \in rec[p] : recPid[p] <= n /\ n < recPid[p] + RecBuffers /\ n < next[Other(p)]
  BY DEF RecWindow
<1>5. rec[p] \subseteq 0..(Half - 1) /\ rec[p] \subseteq W
  BY <1>1, <1>4, Sizes
<1>6. IsFiniteSet(W) /\ Cardinality(W) = RecBuffers
  <2>1. recPid[p] \in Int /\ recPid[p] + RecBuffers - 1 \in Int /\ recPid[p] <= recPid[p] + RecBuffers - 1
    BY <1>1, Sizes
  <2>2. QED
    BY <2>1, FS_Interval, Sizes
<1>7. recPid[p] \in W
  BY <1>1, Sizes
<1> HIDE DEF W
<1>8. IsFiniteSet(rec[p]) /\ Cardinality(rec[p]) <= RecBuffers /\ (Cardinality(rec[p]) = RecBuffers => rec[p] = W)
  BY <1>5, <1>6, FS_Subset
<1>9. Cardinality(rec[p]) \in Nat
  BY <1>8, FS_CardinalityType
<1>10. QED
  BY <1>3, <1>5, <1>7, <1>8, <1>9 DEF W

\* The rounds that find a packet are the first ones.
LEMMA SequencedRounds ==
  ASSUME Types, RecWindow, NEW p \in Peer
  PROVE  /\ Sequenced(p) \in Nat /\ Sequenced(p) <= Cardinality(rec[p])
         /\ \A i \in 0..(Sequenced(p) - 1) : reliable_get_buf_sequenced(p, i) # {}
<1> DEFINE C == Cardinality(rec[p])
           Found(i) == reliable_get_buf_sequenced(p, i) # {}
           S == {k \in 1..C : \A i \in 0..(k - 1) : Found(i)}
           K == Cardinality(S)
<1>0. C \in Nat
  BY RecSet
<1>00. Sequenced(p) = K
  BY DEF Sequenced
<1> HIDE DEF C, Found
<1>1. IsFiniteSet(1..C) /\ Cardinality(1..C) = C
  BY <1>0, FS_Interval
<1>2. IsFiniteSet(S) /\ K <= C
  BY <1>1, FS_Subset
<1>3. K \in Nat
  BY <1>2, FS_CardinalityType
<1>4. ASSUME K > 0 PROVE K \in S
  <2> SUFFICES ASSUME K \notin S PROVE FALSE
    OBVIOUS
  <2>1. \A k \in S : k < K
    <3> SUFFICES ASSUME NEW k \in S, k >= K PROVE K \in S
      BY <1>0, <1>3
    <3> HIDE DEF K
    <3>1. K \in 1..C /\ \A i \in 0..(K - 1) : i \in 0..(k - 1)
      BY <1>0, <1>2, <1>3, <1>4
    <3>2. QED
      BY <3>1
  <2> DEFINE L == K
  <2>2. L \in Nat /\ L > 0 /\ S \subseteq 1..(L - 1)
    BY <2>1, <1>0, <1>3, <1>4
  <2> HIDE DEF L, S
  <2>3. IsFiniteSet(1..(L - 1)) /\ Cardinality(1..(L - 1)) = L - 1
    BY <2>2, FS_Interval
  <2>4. K <= L - 1
    BY <2>2, <2>3, FS_Subset
  <2>5. QED
    BY <2>2, <2>4 DEF L
<1>5. \A i \in 0..(K - 1) : Found(i)
  <2>1. CASE K > 0
    BY <2>1, <1>4
  <2>2. CASE K = 0
    BY <2>2
  <2>3. QED
    BY <2>1, <2>2, <1>3
<1>6. QED
  BY <1>00, <1>2, <1>3, <1>5 DEF Found, C

\* A round that finds a packet finds the one with the number it looks for.
LEMMA RoundFindsNext ==
  ASSUME Types, RecWindow, NEW p \in Peer, NEW i \in 0..(Sequenced(p) - 1)
  PROVE  /\ recPid[p] + i \in rec[p]
         /\ (CHOOSE n \in reliable_get_buf_sequenced(p, i) : TRUE) = recPid[p] + i
<1>1. /\ recPid[p] \in 0..Half /\ rec[p] \subseteq 0..(Half - 1)
      /\ Cardinality(rec[p]) \in Nat /\ Cardinality(rec[p]) <= RecBuffers
  BY RecSet
<1>2. Sequenced(p) \in Nat /\ Sequenced(p) <= Cardinality(rec[p])
  BY SequencedRounds
<1>3. reliable_get_buf_sequenced(p, i) # {}
  BY SequencedRounds
<1>4. recPid[p] + i \in Nat /\ recPid[p] + i < PidMod
  BY <1>1, <1>2, Sizes
<1>5. Plus(recPid[p], i) = recPid[p] + i
  BY <1>4, ModSmall DEF Plus
<1>6. \A n \in rec[p] : pid(n) = n
  BY <1>1, PidIsNumber, Sizes
<1>7. \A n \in reliable_get_buf_sequenced(p, i) : n \in rec[p] /\ n = recPid[p] + i
  BY <1>5, <1>6 DEF reliable_get_buf_sequenced
<1>8. QED
  BY <1>3, <1>7

\* k packets go up: the next k ones, in order.
LEMMA DeliverNext ==
  ASSUME Types, RecWindow, InOrder, NEW p \in Peer, NEW k \in 0..Sequenced(p), Deliver(p, k)
  PROVE  /\ delivered' \in [Peer -> Seq(Nat)] /\ rec' \in [Peer -> SUBSET Nat]
         /\ recPid' \in [Peer -> Nat]
         /\ \A q \in Peer : q # p => /\ delivered'[q] = delivered[q] /\ rec'[q] = rec[q]
                                     /\ recPid'[q] = recPid[q]
         /\ recPid'[p] = recPid[p] + k /\ recPid'[p] <= next[Other(p)]
         /\ Len(delivered'[p]) = Len(delivered[p]) + k
         /\ \A i \in 1..Len(delivered'[p]) : delivered'[p][i] = i - 1
         /\ \A i \in 0..(k - 1) : recPid[p] + i \in rec[p]
         /\ rec'[p] = {n \in rec[p] : n >= recPid[p] + k}
<1> DEFINE h == HandedOver(p, k)
           b == recPid[p]
           d == delivered[p]
<1>1. /\ b \in 0..Half /\ rec[p] \subseteq 0..(Half - 1)
      /\ Cardinality(rec[p]) \in Nat /\ Cardinality(rec[p]) <= RecBuffers
  BY RecSet
<1>2. k \in Nat /\ k <= Cardinality(rec[p]) /\ k <= Sequenced(p) /\ Sequenced(p) \in Nat
  <2>1. Sequenced(p) \in Nat /\ Sequenced(p) <= Cardinality(rec[p])
    BY SequencedRounds
  <2>2. QED
    BY <1>1, <2>1
<1>3. \A i \in 0..(k - 1) : /\ b + i \in rec[p]
                            /\ (CHOOSE n \in reliable_get_buf_sequenced(p, i) : TRUE) = b + i
  BY <1>2, RoundFindsNext
<1>4. h = [i \in 1..k |-> b + i - 1]
  <2>1. \A i \in 1..k : (CHOOSE n \in reliable_get_buf_sequenced(p, i - 1) : TRUE) = b + i - 1
    BY <1>1, <1>2, <1>3
  <2>2. QED
    BY <2>1 DEF HandedOver
<1>5. h \in Seq(Nat) /\ Len(h) = k /\ \A i \in 1..k : h[i] = b + i - 1
  <2>1. [i \in 1..k |-> b + i - 1] \in [1..k -> Nat]
    BY <1>1, <1>2
  <2>2. QED
    BY <1>2, <1>4, <2>1
<1>6. d \in Seq(Nat) /\ Len(d) = b /\ \A i \in 1..Len(d) : d[i] = i - 1
  BY DEF Types, RecWindow, InOrder
<1>7. /\ delivered' = [delivered EXCEPT ![p] = d \o h]
      /\ rec' = [rec EXCEPT ![p] = rec[p] \ {h[i] : i \in 1..k}]
      /\ recPid' = [recPid EXCEPT ![p] = Plus(b, k)]
  BY DEF Deliver
<1>0. b \in Nat /\ \A n \in rec[p] : n \in Nat /\ n >= b
  BY <1>1, Sizes DEF RecWindow
<1> HIDE DEF h, b, d
<1>8. Plus(b, k) = b + k
  <2>1. b + k \in Nat /\ b + k < PidMod
    BY <1>1, <1>2, Sizes
  <2>2. QED
    BY <2>1, ModSmall DEF Plus
<1>9. /\ d \o h \in Seq(Nat) /\ Len(d \o h) = b + k
      /\ \A i \in 1..(b + k) : (d \o h)[i] = IF i <= b THEN d[i] ELSE h[i - b]
  BY <1>0, <1>2, <1>5, <1>6, ConcatProperties
<1>10. \A i \in 1..(b + k) : (d \o h)[i] = i - 1
  BY <1>0, <1>2, <1>5, <1>6, <1>9
<1>11. rec[p] \ {h[i] : i \in 1..k} = {n \in rec[p] : n >= b + k}
  <2>1. \A n \in rec[p] : n < b + k => n - b + 1 \in 1..k /\ h[n - b + 1] = n
    BY <1>0, <1>2, <1>5
  <2>2. \A i \in 1..k : h[i] < b + k
    BY <1>0, <1>2, <1>5
  <2>3. \A n \in rec[p] : (n \in {h[i] : i \in 1..k}) <=> n < b + k
    BY <2>1, <2>2
  <2>4. QED
    BY <1>0, <1>2, <2>3
<1>12. b + k <= next[Other(p)]
  <2>1. Other(p) \in Peer /\ next[Other(p)] \in Nat /\ b <= next[Other(p)]
    BY Others, Sizes DEF Types, RecWindow, b
  <2>2. CASE k = 0
    BY <2>1, <2>2, <1>0
  <2>3. CASE k > 0
    <3>1. b + (k - 1) \in rec[p]
      BY <1>2, <1>3, <2>3
    <3>2. b + (k - 1) < next[Other(p)]
      BY <3>1 DEF RecWindow, b
    <3>3. QED
      BY <1>0, <1>2, <2>1, <3>2
  <2>4. QED
    BY <2>2, <2>3, <1>2
<1>13. /\ delivered \in [Peer -> Seq(Nat)] /\ rec \in [Peer -> SUBSET Nat]
       /\ recPid \in [Peer -> Nat]
  BY DEF Types
<1>14. /\ delivered' \in [Peer -> Seq(Nat)] /\ delivered'[p] = d \o h
       /\ \A q \in Peer : q # p => delivered'[q] = delivered[q]
  BY <1>7, <1>9, <1>13
<1>15. /\ rec' \in [Peer -> SUBSET Nat] /\ rec'[p] = {n \in rec[p] : n >= b + k}
       /\ \A q \in Peer : q # p => rec'[q] = rec[q]
  BY <1>7, <1>11, <1>13
<1>16. /\ recPid' \in [Peer -> Nat] /\ recPid'[p] = b + k
       /\ \A q \in Peer : q # p => recPid'[q] = recPid[q]
  BY <1>0, <1>2, <1>7, <1>8, <1>13
<1>17. QED
  BY <1>3, <1>6, <1>9, <1>10, <1>12, <1>14, <1>15, <1>16 DEF b, d

-----------------------------------------------------------------------------
(***************************************************************************)
(* Acknowledgements and datagrams.                                         *)
(***************************************************************************)
\* Acknowledgements that leave the list, and those that stay, were in it.
LEMMA AcksSplit ==
  ASSUME NEW a \in Seq(Pid), NEW max \in Nat \ {0}
  PROVE  /\ FirstAcks(a, max) \in Seq(Pid) /\ LaterAcks(a, max) \in Seq(Pid)
         /\ Len(LaterAcks(a, max)) <= Len(a)
         /\ \A i \in 1..Len(FirstAcks(a, max)) :
              \E j \in 1..Len(a) : FirstAcks(a, max)[i] = a[j]
         /\ \A i \in 1..Len(LaterAcks(a, max)) :
              \E j \in 1..Len(a) : LaterAcks(a, max)[i] = a[j]
<1> DEFINE c == IF Len(a) > max THEN max ELSE Len(a)
           l == Len(a)
<1>1. c \in 0..l /\ l \in Nat /\ \A i \in 1..l : a[i] \in Pid
  OBVIOUS
<1>2. FirstAcks(a, max) = SubSeq(a, 1, c) /\ LaterAcks(a, max) = SubSeq(a, 1 + c, l)
  BY DEF FirstAcks, LaterAcks
<1> HIDE DEF c, l
<1>3. /\ SubSeq(a, 1, c) \in Seq(Pid) /\ Len(SubSeq(a, 1, c)) = c
      /\ \A i \in 1..c : SubSeq(a, 1, c)[i] = a[i]
  <2>1. 1 \in Int /\ c \in Int /\ \A i \in 1..c : a[i] \in Pid
    BY <1>1
  <2>2. /\ SubSeq(a, 1, c) \in Seq(Pid)
        /\ Len(SubSeq(a, 1, c)) = IF 1 <= c THEN c - 1 + 1 ELSE 0
        /\ \A i \in 1..(c - 1 + 1) : SubSeq(a, 1, c)[i] = a[1 + i - 1]
    BY <2>1, SubSeqProperties
  <2>3. QED
    BY <1>1, <2>2
<1>4. /\ SubSeq(a, 1 + c, l) \in Seq(Pid) /\ Len(SubSeq(a, 1 + c, l)) = l - c
      /\ \A i \in 1..(l - c) : SubSeq(a, 1 + c, l)[i] = a[c + i]
  <2>1. 1 + c \in Int /\ l \in Int /\ \A i \in (1 + c)..l : a[i] \in Pid
    BY <1>1
  <2>2. /\ SubSeq(a, 1 + c, l) \in Seq(Pid)
        /\ Len(SubSeq(a, 1 + c, l)) = IF 1 + c <= l THEN l - (1 + c) + 1 ELSE 0
        /\ \A i \in 1..(l - (1 + c) + 1) : SubSeq(a, 1 + c, l)[i] = a[(1 + c) + i - 1]
    BY <2>1, SubSeqProperties
  <2>3. QED
    BY <1>1, <2>2
<1>5. \A i \in 1..(l - c) : c + i \in 1..l
  BY <1>1
<1>6. \A i \in 1..c : i \in 1..l
  BY <1>1
<1> DEFINE first == SubSeq(a, 1, c)
           later == SubSeq(a, 1 + c, l)
<1> HIDE DEF first, later
<1>7. /\ first \in Seq(Pid) /\ Len(first) = c /\ \A i \in 1..c : first[i] = a[i]
      /\ later \in Seq(Pid) /\ Len(later) = l - c /\ \A i \in 1..(l - c) : later[i] = a[c + i]
      /\ FirstAcks(a, max) = first /\ LaterAcks(a, max) = later
  BY <1>2, <1>3, <1>4 DEF first, later
<1>8. \A i \in 1..Len(first) : \E j \in 1..l : first[i] = a[j]
  BY <1>6, <1>7
<1>9. \A i \in 1..Len(later) : \E j \in 1..l : later[i] = a[j]
  BY <1>5, <1>7
<1>10. Len(later) <= l
  BY <1>1, <1>7
<1>11. QED
  BY <1>7, <1>8, <1>9, <1>10 DEF l

\* An acknowledgement is added at most once and within the limit.
LEMMA AckAdded ==
  ASSUME NEW a \in Seq(Pid), NEW id \in Pid, Len(a) <= AckSize
  PROVE  LET b == reliable_ack_acknowledge_packet_id(a, id) IN
           /\ b \in Seq(Pid) /\ Len(b) <= AckSize
           /\ \A i \in 1..Len(b) : b[i] = id \/ \E j \in 1..Len(a) : b[i] = a[j]
<1> DEFINE b == reliable_ack_acknowledge_packet_id(a, id)
<1>1. CASE Contains(a, id) \/ Len(a) >= AckSize
  <2>1. b = a
    BY <1>1 DEF reliable_ack_acknowledge_packet_id
  <2>2. QED
    BY <2>1
<1>2. CASE ~(Contains(a, id) \/ Len(a) >= AckSize)
  <2>1. b = Append(a, id)
    BY <1>2 DEF reliable_ack_acknowledge_packet_id
  <2> HIDE DEF b
  <2>2. /\ Append(a, id) \in Seq(Pid) /\ Len(Append(a, id)) = Len(a) + 1
        /\ \A i \in 1..Len(a) : Append(a, id)[i] = a[i]
        /\ Append(a, id)[Len(a) + 1] = id
    BY AppendProperties
  <2>3. b \in Seq(Pid) /\ Len(b) <= AckSize
    BY <1>2, <2>1, <2>2, Sizes
  <2>4. \A i \in 1..Len(b) : b[i] = id \/ \E j \in 1..Len(a) : b[i] = a[j]
    BY <2>1, <2>2
  <2>5. QED
    BY <2>3, <2>4 DEF b
<1>3. QED
  BY <1>1, <1>2

\* The network adds the datagram and invents none.
LEMMA TransmitAdds ==
  ASSUME Types, NEW p \in Peer, NEW m \in Packet, Transmit(p, m)
  PROVE  /\ wire' \in [Peer -> SUBSET Packet]
         /\ \A q \in Peer : \A x \in wire'[q] : x \in wire[q] \/ (x = m /\ q = Other(p))
<1>1. Other(p) \in Peer /\ wire \in [Peer -> SUBSET Packet]
  BY Others DEF Types
<1>2. PICK kept \in SUBSET wire[Other(p)] :
        wire' = [wire EXCEPT ![Other(p)] = kept \cup {m}]
  BY DEF Transmit
<1>3. QED
  BY <1>1, <1>2

-----------------------------------------------------------------------------
(***************************************************************************)
(* What a step keeps when it loses nothing that was received or written.   *)
(***************************************************************************)
Grows ==
  /\ \A q \in Peer : next[q] <= next'[q]
  /\ \A q \in Peer : \A n \in Nat : Has(q, n) => HasNow(q, n)

\* Ids are numbers.
LEMMA PidIsNat == Pid \subseteq Nat
BY Sizes DEF Pid

\* The acknowledgements of a peer remain those of packets it has.
LEMMA AcksKept ==
  ASSUME Types, AcksHave, Grows,
         \A q \in Peer : /\ Len(acks'[q]) <= AckSize
                         /\ \A i \in 1..Len(acks'[q]) :
                               \/ \E j \in 1..Len(acks[q]) : acks'[q][i] = acks[q][j]
                               \/ HasNow(q, acks'[q][i])
  PROVE  AcksHave'
<1>1. \A q \in Peer : \A j \in 1..Len(acks[q]) : HasNow(q, acks[q][j])
  <2> SUFFICES ASSUME NEW q \in Peer, NEW j \in 1..Len(acks[q])
               PROVE  HasNow(q, acks[q][j])
    OBVIOUS
  <2>1. acks[q] \in Seq(Pid)
    BY DEF Types
  <2>2. acks[q][j] \in Nat
    BY <2>1, ElementOfSeq, PidIsNat
  <2>3. Has(q, acks[q][j])
    BY DEF AcksHave
  <2>4. QED
    BY <2>2, <2>3 DEF Grows
<1>2. \A q \in Peer : \A i \in 1..Len(acks'[q]) : HasNow(q, acks'[q][i])
  BY <1>1
<1>3. QED
  BY <1>2 DEF AcksHave, Has, HasNow

\* The datagrams in flight remain good, and so are those added.
LEMMA WireKept ==
  ASSUME Types, WireHas, Grows, next' \in [Peer -> 0..Half],
         \A q \in Peer : \A m \in wire'[q] :
           \/ m \in wire[q]
           \/ /\ m.op = "CONTROL" => m.n < next'[Other(q)]
              /\ \A i \in 1..Len(m.acks) : HasNow(Other(q), m.acks[i])
  PROVE  WireHas'
<1>1. ASSUME NEW q \in Peer, NEW m \in wire[q]
      PROVE  /\ m.op = "CONTROL" => m.n < next'[Other(q)]
             /\ \A i \in 1..Len(m.acks) : HasNow(Other(q), m.acks[i])
  <2>1. Other(q) \in Peer
    BY Others
  <2>2. m.n \in Nat /\ m.acks \in Seq(Pid)
    BY DEF Types, Packet
  <2>3. \A i \in 1..Len(m.acks) : m.acks[i] \in Nat
    BY <2>2, ElementOfSeq, PidIsNat
  <2>4. \A i \in 1..Len(m.acks) : Has(Other(q), m.acks[i])
    BY DEF WireHas
  <2>5. \A i \in 1..Len(m.acks) : HasNow(Other(q), m.acks[i])
    BY <2>1, <2>3, <2>4 DEF Grows
  <2>6. m.op = "CONTROL" => m.n < next'[Other(q)]
    <3>1. m.op = "CONTROL" => m.n < next[Other(q)]
      BY DEF WireHas
    <3>2. next[Other(q)] <= next'[Other(q)] /\ next[Other(q)] \in Nat /\ next'[Other(q)] \in Nat
      BY <2>1, Sizes DEF Grows, Types
    <3>3. QED
      BY <2>2, <3>1, <3>2
  <2>7. QED
    BY <2>5, <2>6
<1>2. \A q \in Peer : \A m \in wire'[q] :
           /\ m.op = "CONTROL" => m.n < next'[Other(q)]
           /\ \A i \in 1..Len(m.acks) : HasNow(Other(q), m.acks[i])
  BY <1>1
<1>3. QED
  BY <1>2 DEF WireHas, Has, HasNow

\* Nothing received is lost when k packets go up to TLS.
LEMMA DeliverGrows ==
  ASSUME Types, RecWindow, InOrder, NEW p \in Peer, NEW k \in 0..Sequenced(p), Deliver(p, k)
  PROVE  \A q \in Peer : \A n \in Nat : Has(q, n) => HasNow(q, n)
<1> SUFFICES ASSUME NEW q \in Peer, NEW n \in Nat, Has(q, n) PROVE HasNow(q, n)
  OBVIOUS
<1>1. CASE q # p
  <2>1. rec'[q] = rec[q] /\ delivered'[q] = delivered[q]
    BY <1>1, DeliverNext
  <2>2. QED
    BY <2>1 DEF Has, HasNow
<1>2. CASE q = p
  <2>1. Len(delivered'[p]) = recPid[p] + k /\ rec'[p] = {x \in rec[p] : x >= recPid[p] + k}
    BY DeliverNext DEF RecWindow
  <2>2. k \in Nat /\ recPid[p] \in Nat /\ Len(delivered[p]) = recPid[p]
    BY SequencedRounds DEF Types, RecWindow
  <2>3. QED
    BY <1>2, <2>1, <2>2 DEF Has, HasNow, Got
<1>3. QED
  BY <1>1, <1>2

\* The windows and the stream after k packets went up and the peers wrote more.
LEMMA DeliverKept ==
  ASSUME Types, RecWindow, InOrder, NEW p \in Peer, NEW k \in 0..Sequenced(p), Deliver(p, k),
         next' \in [Peer -> 0..Half], \A q \in Peer : next[q] <= next'[q]
  PROVE  RecWindow' /\ InOrder'
<1>1. ASSUME NEW q \in Peer, q # p
      PROVE  rec'[q] = rec[q] /\ delivered'[q] = delivered[q] /\ recPid'[q] = recPid[q]
  BY <1>1, DeliverNext
<1>2. /\ recPid'[p] = recPid[p] + k /\ recPid'[p] <= next[Other(p)]
      /\ Len(delivered'[p]) = Len(delivered[p]) + k
      /\ \A i \in 1..Len(delivered'[p]) : delivered'[p][i] = i - 1
      /\ rec'[p] = {n \in rec[p] : n >= recPid[p] + k}
  BY DeliverNext
<1>3. InOrder'
  BY <1>1, <1>2 DEF InOrder
<1>4. k \in Nat
  BY SequencedRounds
<1>5. RecWindow'
  <2> SUFFICES ASSUME NEW q \in Peer
               PROVE  /\ recPid'[q] = Len(delivered'[q]) /\ recPid'[q] <= next'[Other(q)]
                      /\ \A n \in rec'[q] : /\ recPid'[q] <= n /\ n < recPid'[q] + RecBuffers
                                            /\ n < next'[Other(q)]
    BY DEF RecWindow
  <2>1. /\ Other(q) \in Peer /\ recPid[q] \in Nat /\ rec[q] \subseteq Nat
        /\ next[Other(q)] \in Nat /\ next'[Other(q)] \in Nat
        /\ next[Other(q)] <= next'[Other(q)]
    BY Others, Sizes DEF Types
  <2>2. /\ recPid[q] = Len(delivered[q]) /\ recPid[q] <= next[Other(q)]
        /\ \A n \in rec[q] : /\ recPid[q] <= n /\ n < recPid[q] + RecBuffers
                             /\ n < next[Other(q)]
    BY DEF RecWindow
  <2>3. CASE q # p
    BY <2>1, <2>2, <2>3, <1>1
  <2>4. CASE q = p
    <3>1. recPid'[q] = Len(delivered'[q]) /\ recPid'[q] <= next'[Other(q)] /\ recPid'[q] \in Nat
      BY <2>1, <2>2, <2>4, <1>2, <1>4
    <3>2. \A n \in rec'[q] : n \in rec[q] /\ n \in Nat /\ recPid'[q] <= n
      BY <2>1, <2>4, <1>2
    <3>3. recPid[q] <= recPid'[q]
      BY <2>1, <2>4, <1>2, <1>4
    <3>4. \A n \in rec'[q] : n < recPid'[q] + RecBuffers /\ n < next'[Other(q)]
      BY <2>1, <2>2, <3>1, <3>2, <3>3, Sizes
    <3>5. QED
      BY <3>1, <3>2, <3>4
  <2>5. QED
    BY <2>3, <2>4
<1>6. QED
  BY <1>3, <1>5

\* Writing the hard reset, when the session has not begun.
LEMMA OpeningWrites ==
  ASSUME Types, SendWindow, NEW p \in Peer
  PROVE  /\ Cardinality(Opening(p)) \in {0, 1} /\ next[p] + Cardinality(Opening(p)) \in 0..Half
         /\ Opening(p) \subseteq {0}
         /\ \A n \in active[p] \cup Opening(p) : n < next[p] + Cardinality(Opening(p))
         /\ \A m, n \in active[p] \cup Opening(p) : m - n < SendBuffers
         /\ \A n \in 0..(next[p] + Cardinality(Opening(p)) - 1) :
               n \in 0..(next[p] - 1) \/ n \in Opening(p)
         /\ StateNow(p) \in {"PRE_START", "START"}
         /\ state[p] = "INITIAL" <=> Opening(p) # {}
<1>1. next[p] \in 0..Half /\ active[p] \subseteq Nat /\ state[p] \in {"INITIAL", "PRE_START", "START"}
  BY DEF Types
<1>2. \A n \in active[p] : n < next[p]
  BY DEF SendWindow
<1>3. \A m, n \in active[p] : m - n < SendBuffers
  BY DEF SendWindow
<1>4. StateNow(p) \in {"PRE_START", "START"}
  BY <1>1 DEF StateNow
<1>5. CASE state[p] = "INITIAL"
  <2>1. Opening(p) = {0} /\ next[p] = 0
    BY <1>5 DEF Opening, SendWindow
  <2>2. Cardinality(Opening(p)) = 1
    BY <2>1, FS_Singleton
  <2>3. active[p] = {}
    BY <1>1, <1>2, <2>1
  <2>4. QED
    BY <1>4, <1>5, <2>1, <2>2, <2>3, Sizes
<1>6. CASE state[p] # "INITIAL"
  <2>1. Opening(p) = {}
    BY <1>6 DEF Opening
  <2>2. Cardinality(Opening(p)) = 0
    BY <2>1, FS_EmptySet
  <2>3. QED
    BY <1>1, <1>2, <1>3, <1>4, <1>6, <2>1, <2>2
<1>7. QED
  BY <1>5, <1>6

\* What sending one of the packets in ready changes: its acknowledgements are among
\* the pending ones.
SentOne(p, ready, act) ==
  /\ active' = [active EXCEPT ![p] = act]
  /\ due' \in [Peer -> SUBSET Nat] /\ due'[p] \subseteq ready
  /\ \A q \in Peer : q # p => due'[q] = due[q]
  /\ acks' \in [Peer -> Seq(Pid)]
  /\ \A q \in Peer :
       /\ Len(acks'[q]) <= AckSize
       /\ \A i \in 1..Len(acks'[q]) : \E j \in 1..Len(acks[q]) : acks'[q][i] = acks[q][j]
  /\ wire' \in [Peer -> SUBSET Packet]
  /\ \A q \in Peer : \A m \in wire'[q] :
       \/ m \in wire[q]
       \/ /\ q = Other(p) /\ m.n \in ready
          /\ \A i \in 1..Len(m.acks) : \E j \in 1..Len(acks[p]) : m.acks[i] = acks[p][j]

\* One packet is sent with some of the acknowledgements.
LEMMA SendOneAdds ==
  ASSUME Types, AcksHave, NEW p \in Peer, NEW act \in SUBSET Nat,
         NEW ready \in SUBSET (0..(Half - 1)), ready # {}, SendOne(p, ready, act)
  PROVE  SentOne(p, ready, act)
<1> DEFINE n0 == LowestOf(ready)
           fa == FirstAcks(acks[p], SendAckMax)
           la == LaterAcks(acks[p], SendAckMax)
           m0 == [op |-> "CONTROL", n |-> n0, acks |-> fa]
<1>1. n0 \in ready
  BY LowestIsMinimum
<1>2. acks[p] \in Seq(Pid) /\ SendAckMax \in Nat \ {0} /\ AckSize \in Nat
  BY Sizes DEF Types
<1>3. /\ fa \in Seq(Pid) /\ la \in Seq(Pid) /\ Len(la) <= Len(acks[p])
      /\ \A i \in 1..Len(fa) : \E j \in 1..Len(acks[p]) : fa[i] = acks[p][j]
      /\ \A i \in 1..Len(la) : \E j \in 1..Len(acks[p]) : la[i] = acks[p][j]
  BY <1>2, AcksSplit
<1>4. /\ active' = [active EXCEPT ![p] = act]
      /\ due' = [due EXCEPT ![p] = ready \ {n0}]
      /\ acks' = [acks EXCEPT ![p] = la]
      /\ Transmit(p, m0)
  BY DEF SendOne
<1> HIDE DEF n0, fa, la
<1>5. m0 \in Packet
  BY <1>1, <1>3, Sizes DEF Packet
<1>6. m0.n = n0 /\ m0.acks = fa
  OBVIOUS
<1> HIDE DEF m0
<1>7. /\ wire' \in [Peer -> SUBSET Packet]
      /\ \A q \in Peer : \A x \in wire'[q] : x \in wire[q] \/ (x = m0 /\ q = Other(p))
  BY <1>4, <1>5, TransmitAdds
<1>8. due' \in [Peer -> SUBSET Nat] /\ due'[p] \subseteq ready /\ \A q \in Peer : q # p => due'[q] = due[q]
  <2>0. \A n \in ready : n \in Nat
    BY Sizes
  <2>1. ready \ {n0} \in SUBSET Nat /\ due \in [Peer -> SUBSET Nat]
    BY <2>0 DEF Types
  <2>2. QED
    BY <1>4, <2>1
<1>9. acks' \in [Peer -> Seq(Pid)] /\ acks'[p] = la /\ \A q \in Peer : q # p => acks'[q] = acks[q]
  BY <1>3, <1>4 DEF Types
<1>10. \A q \in Peer : Len(acks[q]) <= AckSize /\ Len(acks[q]) \in Nat
  BY DEF Types, AcksHave
<1>11. \A q \in Peer :
         /\ Len(acks'[q]) <= AckSize
         /\ \A i \in 1..Len(acks'[q]) : \E j \in 1..Len(acks[q]) : acks'[q][i] = acks[q][j]
  <2> SUFFICES ASSUME NEW q \in Peer
               PROVE  /\ Len(acks'[q]) <= AckSize
                      /\ \A i \in 1..Len(acks'[q]) : \E j \in 1..Len(acks[q]) : acks'[q][i] = acks[q][j]
    OBVIOUS
  <2>1. CASE q = p
    BY <2>1, <1>2, <1>3, <1>9, <1>10
  <2>2. CASE q # p
    BY <2>2, <1>9, <1>10
  <2>3. QED
    BY <2>1, <2>2
<1>12. \A q \in Peer : \A m \in wire'[q] :
         \/ m \in wire[q]
         \/ /\ q = Other(p) /\ m.n \in ready
            /\ \A i \in 1..Len(m.acks) : \E j \in 1..Len(acks[p]) : m.acks[i] = acks[p][j]
  BY <1>1, <1>3, <1>6, <1>7
<1>13. QED
  BY <1>4, <1>7, <1>8, <1>9, <1>11, <1>12 DEF SentOne

\* What was written is still in the send buffer or has been received.
LEMMA PurgedKept ==
  ASSUME Types, PurgedHasArrived, Grows,
         \A q \in Peer : \A n \in 0..(next'[q] - 1) :
           \/ n \in active'[q]
           \/ n \in 0..(next[q] - 1) /\ (n \notin active[q] \/ HasNow(Other(q), n))
  PROVE  PurgedHasArrived'
<1> SUFFICES ASSUME NEW q \in Peer, NEW n \in 0..(next'[q] - 1)
             PROVE  n \in active'[q] \/ HasNow(Other(q), n)
  BY DEF PurgedHasArrived, HasNow, Got
<1>1. CASE n \in active'[q]
  BY <1>1
<1>2. CASE n \in 0..(next[q] - 1) /\ (n \notin active[q] \/ HasNow(Other(q), n))
  <2>1. n \in active[q] \/ Has(Other(q), n)
    BY <1>2 DEF PurgedHasArrived, Has, Got
  <2>2. n \in Nat /\ Other(q) \in Peer
    BY <1>2, Others DEF Types
  <2>3. QED
    BY <1>2, <2>1, <2>2 DEF Grows
<1>3. QED
  BY <1>1, <1>2

\* Received packets and the stream do not change when their variables do not.
LEMMA ReceivedKept ==
  ASSUME Types, RecWindow, InOrder, UNCHANGED <<rec, recPid, delivered>>,
         next' \in [Peer -> 0..Half], \A q \in Peer : next[q] <= next'[q]
  PROVE  RecWindow' /\ InOrder' /\ Grows
<1>1. InOrder'
  BY DEF InOrder
<1>2. Grows
  BY DEF Grows, Has, HasNow
<1>3. RecWindow'
  <2> SUFFICES ASSUME NEW q \in Peer
               PROVE  /\ recPid[q] = Len(delivered[q]) /\ recPid[q] <= next'[Other(q)]
                      /\ \A n \in rec[q] : /\ recPid[q] <= n /\ n < recPid[q] + RecBuffers
                                           /\ n < next'[Other(q)]
    BY DEF RecWindow
  <2>1. /\ Other(q) \in Peer /\ recPid[q] \in Nat /\ rec[q] \subseteq Nat
        /\ next[Other(q)] \in Nat /\ next'[Other(q)] \in Nat
        /\ next[Other(q)] <= next'[Other(q)]
    BY Others, Sizes DEF Types
  <2>2. /\ recPid[q] = Len(delivered[q]) /\ recPid[q] <= next[Other(q)]
        /\ \A n \in rec[q] : /\ recPid[q] <= n /\ n < recPid[q] + RecBuffers
                             /\ n < next[Other(q)]
    BY DEF RecWindow
  <2>3. QED
    BY <2>1, <2>2
<1>4. QED
  BY <1>1, <1>2, <1>3

\* A step that writes c packets, at most one, and sends one of ready, after which
\* act waits for acknowledgements.
SendStep(p, c, ready, act) ==
  /\ SentOne(p, ready, act) /\ ready \subseteq act /\ active[p] \subseteq act
  /\ next[p] + c \in 0..Half
  /\ \A n \in act : n < next[p] + c
  /\ \A m, n \in act : m - n < SendBuffers
  /\ \A n \in 0..(next[p] + c - 1) : n \in 0..(next[p] - 1) \/ n \in act
  /\ next' = [next EXCEPT ![p] = next[p] + c]
  /\ state' \in [Peer -> {"INITIAL", "PRE_START", "START"}] /\ state'[p] # "INITIAL"
  /\ \A q \in Peer : q # p => state'[q] = state[q]

\* It keeps the sender's part of the invariant.
LEMMA SendKept ==
  ASSUME IInv, NEW p \in Peer, NEW c \in {0, 1}, NEW act \in SUBSET Nat, NEW ready,
         SendStep(p, c, ready, act), Grows
  PROVE  SendWindow' /\ AcksHave' /\ WireHas' /\ PurgedHasArrived'
<1>0. Types /\ SendWindow /\ RecWindow /\ InOrder /\ AcksHave /\ WireHas /\ PurgedHasArrived
  BY DEF IInv
<1>1. next[p] \in Nat
  BY <1>0, Sizes DEF Types
<1>2. /\ SentOne(p, ready, act) /\ ready \subseteq act /\ active[p] \subseteq act
      /\ next[p] + c \in 0..Half
      /\ \A n \in act : n < next[p] + c
      /\ \A m, n \in act : m - n < SendBuffers
      /\ \A n \in 0..(next[p] + c - 1) : n \in 0..(next[p] - 1) \/ n \in act
  BY DEF SendStep
<1>3. next' = [next EXCEPT ![p] = next[p] + c]
  BY DEF SendStep
<1>4. state'[p] # "INITIAL" /\ \A q \in Peer : q # p => state'[q] = state[q]
  BY DEF SendStep
<1>5. /\ active' = [active EXCEPT ![p] = act]
      /\ due' \in [Peer -> SUBSET Nat] /\ due'[p] \subseteq ready
      /\ \A q \in Peer : q # p => due'[q] = due[q]
      /\ acks' \in [Peer -> Seq(Pid)]
      /\ \A q \in Peer :
           /\ Len(acks'[q]) <= AckSize
           /\ \A i \in 1..Len(acks'[q]) : \E j \in 1..Len(acks[q]) : acks'[q][i] = acks[q][j]
      /\ wire' \in [Peer -> SUBSET Packet]
      /\ \A q \in Peer : \A m \in wire'[q] :
           \/ m \in wire[q]
           \/ /\ q = Other(p) /\ m.n \in ready
              /\ \A i \in 1..Len(m.acks) : \E j \in 1..Len(acks[p]) : m.acks[i] = acks[p][j]
  BY <1>2 DEF SentOne
<1>6. /\ active' \in [Peer -> SUBSET Nat] /\ active'[p] = act
      /\ \A q \in Peer : q # p => active'[q] = active[q]
  BY <1>0, <1>5 DEF Types
<1>7. /\ next' \in [Peer -> 0..Half] /\ next'[p] = next[p] + c
      /\ \A q \in Peer : q # p => next'[q] = next[q]
  BY <1>0, <1>2, <1>3 DEF Types
<1>12. AcksHave'
  BY <1>0, <1>5, AcksKept
<1>13. SendWindow'
  <2>1. \A q \in Peer : q # p => /\ state'[q] = "INITIAL" => next'[q] = 0
                                 /\ due'[q] \subseteq active'[q]
                                 /\ \A n \in active'[q] : n < next'[q]
                                 /\ \A m, n \in active'[q] : m - n < SendBuffers
    BY <1>0, <1>4, <1>5, <1>6, <1>7 DEF SendWindow
  <2>2. /\ state'[p] = "INITIAL" => next'[p] = 0
        /\ due'[p] \subseteq active'[p]
        /\ \A n \in active'[p] : n < next'[p]
        /\ \A m, n \in active'[p] : m - n < SendBuffers
    BY <1>2, <1>4, <1>5, <1>6, <1>7
  <2>3. QED
    BY <2>1, <2>2 DEF SendWindow
<1>14. WireHas'
  <2>1. \A j \in 1..Len(acks[p]) : HasNow(p, acks[p][j])
    <3>1. acks[p] \in Seq(Pid) /\ \A j \in 1..Len(acks[p]) : Has(p, acks[p][j])
      BY <1>0 DEF AcksHave, Types
    <3>2. \A j \in 1..Len(acks[p]) : acks[p][j] \in Nat
      BY <3>1, ElementOfSeq, PidIsNat
    <3>3. QED
      BY <3>1, <3>2 DEF Grows
  <2>2. \A n \in ready : n < next'[p]
    BY <1>2, <1>7
  <2>3. \A q \in Peer : q = Other(p) => Other(q) = p
    BY Others
  <2>4. \A q \in Peer : \A m \in wire'[q] :
           \/ m \in wire[q]
           \/ /\ m.op = "CONTROL" => m.n < next'[Other(q)]
              /\ \A i \in 1..Len(m.acks) : HasNow(Other(q), m.acks[i])
    <3> SUFFICES ASSUME NEW q \in Peer, NEW m \in wire'[q], m \notin wire[q]
                 PROVE  /\ m.n < next'[Other(q)]
                        /\ \A i \in 1..Len(m.acks) : HasNow(Other(q), m.acks[i])
      OBVIOUS
    <3>1. /\ q = Other(p) /\ m.n \in ready
          /\ \A i \in 1..Len(m.acks) : \E j \in 1..Len(acks[p]) : m.acks[i] = acks[p][j]
      BY <1>5
    <3>2. QED
      BY <2>1, <2>2, <2>3, <3>1
  <2>5. QED
    BY <1>0, <1>7, <2>4, WireKept
<1>15. PurgedHasArrived'
  <2>1. \A q \in Peer : \A n \in 0..(next'[q] - 1) :
          \/ n \in active'[q]
          \/ n \in 0..(next[q] - 1) /\ (n \notin active[q] \/ HasNow(Other(q), n))
    <3> SUFFICES ASSUME NEW q \in Peer, NEW n \in 0..(next'[q] - 1), n \notin active'[q]
                 PROVE  n \in 0..(next[q] - 1) /\ n \notin active[q]
      OBVIOUS
    <3>1. CASE q = p
      <4>0. next'[q] = next[p] + c /\ active'[q] = act
        BY <1>6, <1>7, <3>1
      <4>1. n \in 0..(next[p] + c - 1) /\ n \notin act
        BY <1>1, <1>2, <4>0
      <4>2. QED
        BY <1>2, <3>1, <4>1
    <3>2. CASE q # p
      BY <1>6, <1>7, <3>2
    <3>3. QED
      BY <3>1, <3>2
  <2>2. QED
    BY <1>0, <2>1, PurgedKept
<1>16. QED
  BY <1>12, <1>13, <1>14, <1>15

-----------------------------------------------------------------------------
(***************************************************************************)
(* The steps.                                                              *)
(***************************************************************************)
\* The first loop of tls_process sends what is due.
LEMMA ProcessSendKeeps ==
  ASSUME IInv, NEW p \in Peer, ProcessSend(p)
  PROVE  IInv'
<1> DEFINE c == Cardinality(Opening(p))
           ready == due[p] \cup Opening(p)
           act == active[p] \cup Opening(p)
<1>0. Types /\ SendWindow /\ RecWindow /\ InOrder /\ AcksHave
  BY DEF IInv
<1>1. /\ c \in {0, 1} /\ next[p] + c \in 0..Half /\ Opening(p) \subseteq {0}
      /\ \A n \in act : n < next[p] + c
      /\ \A m, n \in act : m - n < SendBuffers
      /\ \A n \in 0..(next[p] + c - 1) : n \in 0..(next[p] - 1) \/ n \in Opening(p)
      /\ StateNow(p) \in {"PRE_START", "START"}
  BY <1>0, OpeningWrites
<1>2. /\ ready # {} /\ SendOne(p, ready, act)
      /\ state' = [state EXCEPT ![p] = StateNow(p)]
      /\ next' = [next EXCEPT ![p] = next[p] + c]
      /\ UNCHANGED <<remote, hold, rec, recPid, delivered>>
  BY DEF ProcessSend
<1>3. /\ ready \subseteq act /\ act \in SUBSET Nat /\ next[p] \in Nat
      /\ active[p] \subseteq act /\ Opening(p) \subseteq act
  BY <1>0, <1>1, Sizes DEF Types, SendWindow
<1> HIDE DEF c, act, ready
<1>4. ready \in SUBSET (0..(Half - 1))
  <2>1. next[p] + c \in Nat /\ next[p] + c <= Half /\ Half \in Nat
    BY <1>1, Sizes
  <2>2. ASSUME NEW n \in ready PROVE n \in Nat /\ n < next[p] + c
    BY <1>1, <1>3
  <2> DEFINE top == next[p] + c
  <2> HIDE DEF top
  <2>3. ASSUME NEW n \in ready PROVE n \in 0..(Half - 1)
    <3>1. n \in Nat /\ n < top /\ top \in Nat /\ top <= Half
      BY <2>1, <2>2 DEF top
    <3>2. QED
      BY <2>1, <3>1
  <2>4. QED
    BY <2>3
<1>5. SentOne(p, ready, act)
  BY <1>0, <1>2, <1>3, <1>4, SendOneAdds
<1>6. /\ next' \in [Peer -> 0..Half] /\ next'[p] = next[p] + c
      /\ \A q \in Peer : q # p => next'[q] = next[q]
  BY <1>0, <1>1, <1>2 DEF Types
<1>7. /\ state' \in [Peer -> {"INITIAL", "PRE_START", "START"}] /\ state'[p] # "INITIAL"
      /\ \A q \in Peer : q # p => state'[q] = state[q]
  BY <1>0, <1>1, <1>2 DEF Types
<1>8. \A q \in Peer : next[q] <= next'[q]
  <2>1. \A q \in Peer : next[q] \in Nat
    BY <1>0, Sizes DEF Types
  <2>2. QED
    BY <1>1, <1>6, <2>1
<1>9. active' \in [Peer -> SUBSET Nat]
  BY <1>0, <1>3, <1>5 DEF Types, SentOne
<1>10. Types'
  BY <1>0, <1>2, <1>5, <1>6, <1>7, <1>9 DEF Types, SentOne
<1>11. RecWindow' /\ InOrder' /\ Grows
  BY <1>0, <1>2, <1>6, <1>8, ReceivedKept
<1>12. \A n \in 0..(next[p] + c - 1) : n \in 0..(next[p] - 1) \/ n \in act
  BY <1>1, <1>3
<1>13. SendStep(p, c, ready, act)
  BY <1>1, <1>2, <1>3, <1>5, <1>7, <1>12 DEF SendStep
<1>14. SendWindow' /\ AcksHave' /\ WireHas' /\ PurgedHasArrived'
  BY <1>1, <1>3, <1>11, <1>13, SendKept
<1>15. QED
  BY <1>10, <1>11, <1>14 DEF IInv

\* The second loop: packets go up, TLS writes one, and it is sent.
LEMMA ProcessWriteKeeps ==
  ASSUME IInv, NEW p \in Peer, ProcessWrite(p)
  PROVE  IInv'
<1> DEFINE x == next[p]
           act == active[p] \cup {x}
<1>0. Types /\ SendWindow /\ RecWindow /\ InOrder /\ AcksHave
  BY DEF IInv
<1>1. PICK k \in 0..Sequenced(p) : Deliver(p, k)
  BY DEF ProcessWrite
<1>2. /\ x < MaxPackets[p] /\ WindowOpen(active[p], x) /\ SendOne(p, {x}, act)
      /\ state' = [state EXCEPT ![p] = "START"]
      /\ next' = [next EXCEPT ![p] = x + 1]
      /\ UNCHANGED <<remote, hold>>
  BY DEF ProcessWrite
<1>3. x \in 0..(Half - 1) /\ x \in Nat /\ x + 1 \in 0..Half
  <2>1. x \in 0..Half /\ MaxPackets[p] \in Nat /\ MaxPackets[p] <= Half
    BY <1>0, ChannelAssumption, NoWrapAssumption DEF Types, ChannelAssumption, NoWrapAssumption
  <2>2. QED
    BY <1>2, <2>1, Sizes
<1>4. /\ \A n \in active[p] : n \in Nat /\ n < x
      /\ \A m, n \in active[p] : m - n < SendBuffers
  BY <1>0 DEF Types, SendWindow
<1> HIDE DEF x
<1>5. active[p] \in SUBSET (0..(Half - 1))
  BY <1>3, <1>4, Sizes
<1>6. \A n \in active[p] : x - n < SendBuffers
  BY <1>2, <1>3, <1>4, <1>5, OpenWindow, Sizes
<1>7. /\ act \in SUBSET Nat /\ {x} \subseteq act /\ active[p] \subseteq act
      /\ \A n \in act : n < x + 1
  BY <1>3, <1>4
<1>8. \A m, n \in act : m - n < SendBuffers
  BY <1>3, <1>4, <1>6, Sizes
<1> HIDE DEF act
<1>9. SentOne(p, {x}, act)
  <2>1. {x} \in SUBSET (0..(Half - 1)) /\ {x} # {}
    BY <1>3
  <2>2. QED
    BY <1>0, <1>2, <1>7, <2>1, SendOneAdds
<1>10. /\ next' \in [Peer -> 0..Half] /\ next'[p] = x + 1
       /\ \A q \in Peer : q # p => next'[q] = next[q]
  BY <1>0, <1>2, <1>3 DEF Types
<1>11. /\ state' \in [Peer -> {"INITIAL", "PRE_START", "START"}] /\ state'[p] # "INITIAL"
       /\ \A q \in Peer : q # p => state'[q] = state[q]
  BY <1>0, <1>2 DEF Types
<1>12. \A q \in Peer : next[q] <= next'[q]
  <2>1. \A q \in Peer : next[q] \in Nat
    BY <1>0, Sizes DEF Types
  <2>2. QED
    BY <1>10, <2>1 DEF x
<1>13. active' \in [Peer -> SUBSET Nat]
  BY <1>0, <1>7, <1>9 DEF Types, SentOne
<1>14. /\ delivered' \in [Peer -> Seq(Nat)] /\ rec' \in [Peer -> SUBSET Nat]
       /\ recPid' \in [Peer -> Nat]
  BY <1>0, <1>1, DeliverNext
<1>15. Types'
  BY <1>0, <1>2, <1>9, <1>10, <1>11, <1>13, <1>14 DEF Types, SentOne
<1>16. RecWindow' /\ InOrder'
  BY <1>0, <1>1, <1>10, <1>12, DeliverKept
<1>17. Grows
  <2>1. \A q \in Peer : \A n \in Nat : Has(q, n) => HasNow(q, n)
    BY <1>0, <1>1, DeliverGrows
  <2>2. QED
    BY <1>12, <2>1 DEF Grows
<1>18. \A n \in 0..(x + 1 - 1) : n \in 0..(x - 1) \/ n \in act
  BY <1>3 DEF act
<1>19. SendStep(p, 1, {x}, act)
  BY <1>2, <1>3, <1>7, <1>8, <1>9, <1>11, <1>18 DEF SendStep, x
<1>20. SendWindow' /\ AcksHave' /\ WireHas' /\ PurgedHasArrived'
  BY <1>7, <1>17, <1>19, SendKept
<1>21. QED
  BY <1>15, <1>16, <1>20 DEF IInv

\* The second loop with nothing to send but acknowledgements.
LEMMA ProcessIdleKeeps ==
  ASSUME IInv, NEW p \in Peer, ProcessIdle(p)
  PROVE  IInv'
<1> DEFINE c == Cardinality(Opening(p))
           act == active[p] \cup Opening(p)
           k == Sequenced(p)
           fa == FirstAcks(acks[p], AckSize)
           la == LaterAcks(acks[p], AckSize)
           m0 == [op |-> "ACK", n |-> 0, acks |-> fa]
<1>0. Types /\ SendWindow /\ RecWindow /\ InOrder /\ AcksHave /\ WireHas /\ PurgedHasArrived
  BY DEF IInv
<1>1. /\ c \in {0, 1} /\ next[p] + c \in 0..Half /\ Opening(p) \subseteq {0}
      /\ \A n \in act : n < next[p] + c
      /\ \A m, n \in act : m - n < SendBuffers
      /\ \A n \in 0..(next[p] + c - 1) : n \in 0..(next[p] - 1) \/ n \in Opening(p)
      /\ StateNow(p) \in {"PRE_START", "START"}
  BY <1>0, OpeningWrites
<1>2. /\ state' = [state EXCEPT ![p] = StateNow(p)]
      /\ next' = [next EXCEPT ![p] = next[p] + c]
      /\ active' = [active EXCEPT ![p] = act]
      /\ due' = [due EXCEPT ![p] = due[p] \cup Opening(p)]
      /\ UNCHANGED <<remote, hold>>
  BY DEF ProcessIdle
<1>3. Deliver(p, k) /\ k \in 0..Sequenced(p)
  BY <1>0, SequencedRounds DEF ProcessIdle
<1>4. \/ UNCHANGED <<acks, wire>>
      \/ acks' = [acks EXCEPT ![p] = la] /\ Transmit(p, m0)
  BY DEF ProcessIdle
<1>5. /\ act \in SUBSET Nat /\ due[p] \cup Opening(p) \in SUBSET Nat /\ next[p] \in Nat
      /\ due[p] \cup Opening(p) \subseteq act
  BY <1>0, <1>1, Sizes DEF Types, SendWindow
<1>6. \A n \in Opening(p) : n \in act
  OBVIOUS
<1>7. \A n \in active[p] : n \in act
  OBVIOUS
<1>8. acks[p] \in Seq(Pid) /\ AckSize \in Nat \ {0} /\ Len(acks[p]) <= AckSize /\ Len(acks[p]) \in Nat
  BY <1>0, Sizes DEF Types, AcksHave
<1>9. /\ fa \in Seq(Pid) /\ la \in Seq(Pid) /\ Len(la) <= Len(acks[p])
      /\ \A i \in 1..Len(fa) : \E j \in 1..Len(acks[p]) : fa[i] = acks[p][j]
      /\ \A i \in 1..Len(la) : \E j \in 1..Len(acks[p]) : la[i] = acks[p][j]
  BY <1>8, AcksSplit
<1> HIDE DEF c, act, k, fa, la
<1>10. m0 \in Packet /\ m0.op = "ACK" /\ m0.acks = fa
  BY <1>9 DEF Packet
<1> HIDE DEF m0
<1>11. /\ wire' \in [Peer -> SUBSET Packet]
       /\ \A q \in Peer : \A m \in wire'[q] : m \in wire[q] \/ (m = m0 /\ q = Other(p))
  <2>1. CASE UNCHANGED <<acks, wire>>
    BY <1>0, <2>1 DEF Types
  <2>2. CASE Transmit(p, m0)
    BY <1>0, <1>10, <2>2, TransmitAdds
  <2>3. QED
    BY <1>4, <2>1, <2>2
<1>12. /\ acks' \in [Peer -> Seq(Pid)]
       /\ \A q \in Peer :
            /\ Len(acks'[q]) <= AckSize
            /\ \A i \in 1..Len(acks'[q]) : \E j \in 1..Len(acks[q]) : acks'[q][i] = acks[q][j]
  <2>0. acks \in [Peer -> Seq(Pid)] /\ \A q \in Peer : Len(acks[q]) <= AckSize
    BY <1>0 DEF Types, AcksHave
  <2>1. CASE UNCHANGED <<acks, wire>>
    BY <2>0, <2>1
  <2>2. CASE acks' = [acks EXCEPT ![p] = la]
    <3>1. acks' \in [Peer -> Seq(Pid)] /\ acks'[p] = la /\ \A q \in Peer : q # p => acks'[q] = acks[q]
      BY <1>9, <2>0, <2>2
    <3>2. Len(la) <= AckSize
      BY <1>8, <1>9
    <3>3. /\ Len(acks'[p]) <= AckSize
          /\ \A i \in 1..Len(acks'[p]) : \E j \in 1..Len(acks[p]) : acks'[p][i] = acks[p][j]
      BY <1>9, <3>1, <3>2
    <3>4. \A q \in Peer : q # p =>
            /\ Len(acks'[q]) <= AckSize
            /\ \A i \in 1..Len(acks'[q]) : \E j \in 1..Len(acks[q]) : acks'[q][i] = acks[q][j]
      BY <2>0, <3>1
    <3>5. QED
      BY <3>1, <3>3, <3>4
  <2>3. QED
    BY <1>4, <2>1, <2>2
<1>13. /\ next' \in [Peer -> 0..Half] /\ next'[p] = next[p] + c
       /\ \A q \in Peer : q # p => next'[q] = next[q]
  BY <1>0, <1>1, <1>2 DEF Types
<1>14. /\ state' \in [Peer -> {"INITIAL", "PRE_START", "START"}] /\ state'[p] # "INITIAL"
       /\ \A q \in Peer : q # p => state'[q] = state[q]
  BY <1>0, <1>1, <1>2 DEF Types
<1>15. \A q \in Peer : next[q] <= next'[q]
  <2>1. \A q \in Peer : next[q] \in Nat
    BY <1>0, Sizes DEF Types
  <2>2. QED
    BY <1>1, <1>13, <2>1
<1>16. /\ active' \in [Peer -> SUBSET Nat] /\ active'[p] = act
       /\ \A q \in Peer : q # p => active'[q] = active[q]
  BY <1>0, <1>2, <1>5 DEF Types
<1>17. /\ due' \in [Peer -> SUBSET Nat] /\ due'[p] \subseteq act
       /\ \A q \in Peer : q # p => due'[q] = due[q]
  BY <1>0, <1>2, <1>5 DEF Types
<1>18. /\ delivered' \in [Peer -> Seq(Nat)] /\ rec' \in [Peer -> SUBSET Nat]
       /\ recPid' \in [Peer -> Nat]
  BY <1>0, <1>3, DeliverNext
<1>19. Types'
  BY <1>0, <1>2, <1>11, <1>12, <1>13, <1>14, <1>16, <1>17, <1>18 DEF Types
<1>20. RecWindow' /\ InOrder'
  BY <1>0, <1>3, <1>13, <1>15, DeliverKept
<1>21. Grows
  <2>1. \A q \in Peer : \A n \in Nat : Has(q, n) => HasNow(q, n)
    BY <1>0, <1>3, DeliverGrows
  <2>2. QED
    BY <1>15, <2>1 DEF Grows
<1>22. SendWindow'
  <2>1. \A q \in Peer : q # p => /\ state'[q] = "INITIAL" => next'[q] = 0
                                 /\ due'[q] \subseteq active'[q]
                                 /\ \A n \in active'[q] : n < next'[q]
                                 /\ \A m, n \in active'[q] : m - n < SendBuffers
    BY <1>0, <1>13, <1>14, <1>16, <1>17 DEF SendWindow
  <2>2. /\ state'[p] = "INITIAL" => next'[p] = 0
        /\ due'[p] \subseteq active'[p]
        /\ \A n \in active'[p] : n < next'[p]
        /\ \A m, n \in active'[p] : m - n < SendBuffers
    BY <1>1, <1>13, <1>14, <1>16, <1>17
  <2>3. QED
    BY <2>1, <2>2 DEF SendWindow
<1>23. AcksHave'
  BY <1>0, <1>12, <1>21, AcksKept
<1>24. WireHas'
  <2>1. \A j \in 1..Len(acks[p]) : HasNow(p, acks[p][j])
    <3>1. \A j \in 1..Len(acks[p]) : Has(p, acks[p][j])
      BY <1>0 DEF AcksHave
    <3>2. \A j \in 1..Len(acks[p]) : acks[p][j] \in Nat
      BY <1>8, ElementOfSeq, PidIsNat
    <3>3. QED
      BY <1>21, <3>1, <3>2 DEF Grows
  <2>2. \A q \in Peer : q = Other(p) => Other(q) = p
    BY Others
  <2>3. \A q \in Peer : \A m \in wire'[q] :
           \/ m \in wire[q]
           \/ /\ m.op = "CONTROL" => m.n < next'[Other(q)]
              /\ \A i \in 1..Len(m.acks) : HasNow(Other(q), m.acks[i])
    <3> SUFFICES ASSUME NEW q \in Peer, NEW m \in wire'[q], m \notin wire[q]
                 PROVE  m.op # "CONTROL" /\ \A i \in 1..Len(m.acks) : HasNow(Other(q), m.acks[i])
      OBVIOUS
    <3>1. m.op = "ACK" /\ m.acks = fa /\ Other(q) = p
      BY <1>10, <1>11, <2>2
    <3>2. QED
      BY <1>9, <2>1, <3>1
  <2>4. QED
    BY <1>0, <1>13, <1>21, <2>3, WireKept
<1>25. PurgedHasArrived'
  <2>1. \A q \in Peer : \A n \in 0..(next'[q] - 1) :
          \/ n \in active'[q]
          \/ n \in 0..(next[q] - 1) /\ (n \notin active[q] \/ HasNow(Other(q), n))
    <3> SUFFICES ASSUME NEW q \in Peer, NEW n \in 0..(next'[q] - 1), n \notin active'[q]
                 PROVE  n \in 0..(next[q] - 1) /\ n \notin active[q]
      OBVIOUS
    <3>1. CASE q = p
      <4>1. next'[q] = next[p] + c /\ active'[q] = act
        BY <1>13, <1>16, <3>1
      <4>2. n \in 0..(next[p] + c - 1) /\ n \notin act
        BY <1>1, <1>5, <4>1
      <4>3. QED
        BY <1>1, <1>6, <1>7, <3>1, <4>2
    <3>2. CASE q # p
      BY <1>13, <1>16, <3>2
    <3>3. QED
      BY <3>1, <3>2
  <2>2. QED
    BY <1>0, <1>21, <2>1, PurgedKept
<1>26. QED
  BY <1>19, <1>20, <1>22, <1>23, <1>24, <1>25 DEF IInv

\* A timeout passes.
LEMMA ExpireKeeps ==
  ASSUME IInv, NEW p \in Peer, NEW n, Expire(p, n)
  PROVE  IInv'
<1>0. Types /\ SendWindow /\ RecWindow /\ InOrder /\ AcksHave /\ WireHas /\ PurgedHasArrived
  BY DEF IInv
<1>1. /\ n \in active[p] /\ due' = [due EXCEPT ![p] = due[p] \cup {n}]
      /\ UNCHANGED <<state, remote, hold, next, active, rec, recPid, acks, wire, delivered>>
  BY DEF Expire
<1>2. n \in Nat /\ due \in [Peer -> SUBSET Nat]
  BY <1>0, <1>1 DEF Types
<1>3. due' \in [Peer -> SUBSET Nat]
  BY <1>1, <1>2
<1>4. \A q \in Peer : due'[q] \subseteq active[q]
  BY <1>0, <1>1, <1>2 DEF SendWindow
<1>5. Types'
  BY <1>0, <1>1, <1>3 DEF Types
<1>6. SendWindow'
  BY <1>0, <1>1, <1>4 DEF SendWindow
<1>7. RecWindow' /\ InOrder' /\ AcksHave' /\ WireHas' /\ PurgedHasArrived'
  BY <1>0, <1>1 DEF RecWindow, InOrder, AcksHave, WireHas, PurgedHasArrived, Has
<1>8. QED
  BY <1>5, <1>6, <1>7 DEF IInv

\* A datagram is lost.
LEMMA LoseKeeps ==
  ASSUME IInv, NEW p \in Peer, Lose(p)
  PROVE  IInv'
<1>0. Types /\ SendWindow /\ RecWindow /\ InOrder /\ AcksHave /\ WireHas /\ PurgedHasArrived
  BY DEF IInv
<1>1. PICK m \in wire[p] : wire' = [wire EXCEPT ![p] = wire[p] \ {m}]
  BY DEF Lose
<1>2. UNCHANGED <<state, remote, hold, next, active, due, rec, recPid, acks, delivered>>
  BY DEF Lose
<1>3. wire' \in [Peer -> SUBSET Packet] /\ \A q \in Peer : wire'[q] \subseteq wire[q]
  BY <1>0, <1>1 DEF Types
<1>4. Types'
  BY <1>0, <1>2, <1>3 DEF Types
<1>5. WireHas'
  BY <1>0, <1>2, <1>3 DEF WireHas, Has
<1>6. SendWindow' /\ RecWindow' /\ InOrder' /\ AcksHave' /\ PurgedHasArrived'
  BY <1>0, <1>2 DEF SendWindow, RecWindow, InOrder, AcksHave, PurgedHasArrived, Has
<1>7. QED
  BY <1>4, <1>5, <1>6 DEF IInv

\* Storing a packet: it was written, it fits the window, and it is acknowledged
\* only if the peer has it then.
LEMMA StoreKeeps ==
  ASSUME Types, RecWindow, AcksHave, NEW p \in Peer, NEW m \in Packet,
         m.op = "CONTROL" => m.n < next[Other(p)], Store(p, m)
  PROVE  /\ rec' \in [Peer -> SUBSET Nat] /\ acks' \in [Peer -> Seq(Pid)]
         /\ \A q \in Peer : rec[q] \subseteq rec'[q]
         /\ \A q \in Peer : \A n \in rec'[q] :
              n \in rec[q] \/ /\ recPid[q] <= n /\ n < recPid[q] + RecBuffers
                              /\ n < next[Other(q)]
         /\ \A q \in Peer :
              /\ Len(acks'[q]) <= AckSize
              /\ \A i \in 1..Len(acks'[q]) : \/ \E j \in 1..Len(acks[q]) : acks'[q][i] = acks[q][j]
                                             \/ Got(rec'[q], delivered[q], acks'[q][i])
<1>1. /\ rec \in [Peer -> SUBSET Nat] /\ acks \in [Peer -> Seq(Pid)]
      /\ \A q \in Peer : Len(acks[q]) <= AckSize
  BY DEF Types, AcksHave
<1>2. CASE UNCHANGED <<rec, acks>>
  BY <1>1, <1>2
<1>3. CASE /\ m.op # "ACK" /\ reliable_wont_break_sequentiality(p, pid(m.n))
           /\ rec' = IF reliable_not_replay(p, pid(m.n))
                       THEN [rec EXCEPT ![p] = rec[p] \cup {m.n}] ELSE rec
           /\ acks' = [acks EXCEPT ![p] = reliable_ack_acknowledge_packet_id(acks[p], pid(m.n))]
  <2> DEFINE x == m.n
             a == reliable_ack_acknowledge_packet_id(acks[p], x)
  <2>1. x \in Nat /\ x < next[Other(p)] /\ next[Other(p)] \in 0..Half
    BY <1>3, Others DEF Packet, Types
  <2>2. x \in 0..(Half - 1) /\ x \in 0..Half
    BY <2>1, Sizes
  <2>3. pid(x) = x /\ x \in Pid
    BY <2>2, PidIsNumber
  <2>4. /\ reliable_wont_break_sequentiality(p, x)
        /\ rec' = IF reliable_not_replay(p, x) THEN [rec EXCEPT ![p] = rec[p] \cup {x}] ELSE rec
        /\ acks' = [acks EXCEPT ![p] = a]
    BY <1>3, <2>3
  <2> HIDE DEF x
  <2>5. recPid[p] \in 0..Half /\ rec[p] \subseteq 0..(Half - 1)
    BY RecSet
  <2>6. x < recPid[p] + RecBuffers
    BY <2>2, <2>4, <2>5, RangeIsBelow DEF reliable_wont_break_sequentiality
  <2>7. \A n \in rec[p] : pid(n) = n
    BY <2>5, PidIsNumber, Sizes
  <2>8. reliable_not_replay(p, x) <=> recPid[p] <= x /\ x \notin rec[p]
    <3>1. reliable_pid_min(x, recPid[p]) <=> x < recPid[p]
      BY <2>2, <2>5, PidMinIsLess
    <3>2. x \in Nat /\ recPid[p] \in Nat
      BY <2>2, <2>5, Sizes
    <3>3. (\A n \in rec[p] : pid(n) # x) <=> x \notin rec[p]
      BY <2>7
    <3>4. QED
      BY <3>1, <3>2, <3>3 DEF reliable_not_replay
  <2>9. acks[p] \in Seq(Pid) /\ Len(acks[p]) <= AckSize
    BY <1>1
  <2>10. /\ a \in Seq(Pid) /\ Len(a) <= AckSize
         /\ \A i \in 1..Len(a) : a[i] = x \/ \E j \in 1..Len(acks[p]) : a[i] = acks[p][j]
    BY <2>3, <2>9, AckAdded
  <2> HIDE DEF a
  <2>11. /\ acks' \in [Peer -> Seq(Pid)] /\ acks'[p] = a
         /\ \A q \in Peer : q # p => acks'[q] = acks[q]
    BY <1>1, <2>4, <2>10
  <2>12. rec' \in [Peer -> SUBSET Nat] /\ \A q \in Peer : q # p => rec'[q] = rec[q]
    BY <1>1, <2>1, <2>4 DEF x
  <2>13. /\ rec[p] \subseteq rec'[p]
         /\ \A n \in rec'[p] : n \in rec[p] \/ (n = x /\ recPid[p] <= x)
         /\ Got(rec'[p], delivered[p], x)
    <3>1. CASE reliable_not_replay(p, x)
      <4>1. rec'[p] = rec[p] \cup {x} /\ recPid[p] <= x
        BY <1>1, <2>4, <2>8, <3>1
      <4>2. QED
        BY <4>1 DEF Got
    <3>2. CASE ~reliable_not_replay(p, x)
      <4>1. rec' = rec /\ (x \in rec[p] \/ x < recPid[p])
        BY <2>2, <2>4, <2>5, <2>8, <3>2, Sizes
      <4>2. recPid[p] = Len(delivered[p])
        BY DEF RecWindow
      <4>3. QED
        BY <4>1, <4>2 DEF Got
    <3>3. QED
      BY <3>1, <3>2
  <2>14. \A q \in Peer : rec[q] \subseteq rec'[q]
    BY <2>12, <2>13
  <2>15. \A q \in Peer : \A n \in rec'[q] :
              n \in rec[q] \/ /\ recPid[q] <= n /\ n < recPid[q] + RecBuffers
                              /\ n < next[Other(q)]
    BY <2>1, <2>6, <2>12, <2>13 DEF x
  <2>16. /\ Len(acks'[p]) <= AckSize
         /\ \A i \in 1..Len(acks'[p]) : \/ \E j \in 1..Len(acks[p]) : acks'[p][i] = acks[p][j]
                                        \/ Got(rec'[p], delivered[p], acks'[p][i])
    BY <2>10, <2>11, <2>13
  <2>17. \A q \in Peer : q # p =>
           /\ Len(acks'[q]) <= AckSize
           /\ \A i \in 1..Len(acks'[q]) : \E j \in 1..Len(acks[q]) : acks'[q][i] = acks[q][j]
    BY <1>1, <2>11
  <2>18. QED
    BY <2>11, <2>12, <2>14, <2>15, <2>16, <2>17
<1>4. QED
  BY <1>2, <1>3 DEF Store

\* A datagram arrives: what it acknowledges is purged, what it brings is stored.
LEMMA ArriveKeeps ==
  ASSUME IInv, NEW p \in Peer, NEW m, Arrive(p, m)
  PROVE  IInv'
<1>0. Types /\ SendWindow /\ RecWindow /\ InOrder /\ AcksHave /\ WireHas /\ PurgedHasArrived
  BY DEF IInv
<1>1. /\ m \in wire[p] /\ tls_pre_decrypt(p, m)
      /\ wire' = [wire EXCEPT ![p] = wire[p] \ {m}] \/ UNCHANGED wire
  BY DEF Arrive
<1>2. wire' \in [Peer -> SUBSET Packet] /\ \A q \in Peer : wire'[q] \subseteq wire[q]
  BY <1>0, <1>1 DEF Types
<1>3. UNCHANGED <<state, next, recPid, delivered>>
  BY <1>1 DEF tls_pre_decrypt
<1>4. m \in Packet /\ Other(p) \in Peer
  BY <1>0, <1>1, Others DEF Types
<1>5. /\ m.op = "CONTROL" => m.n < next[Other(p)]
      /\ \A i \in 1..Len(m.acks) : Has(Other(p), m.acks[i])
  BY <1>0, <1>1 DEF WireHas
<1>6. CASE UNCHANGED <<remote, hold, active, due, rec, acks>>
  <2>1. Types'
    BY <1>0, <1>2, <1>3, <1>6 DEF Types
  <2>2. WireHas'
    BY <1>0, <1>2, <1>3, <1>6 DEF WireHas, Has
  <2>3. SendWindow' /\ RecWindow' /\ InOrder' /\ AcksHave' /\ PurgedHasArrived'
    BY <1>0, <1>3, <1>6 DEF SendWindow, RecWindow, InOrder, AcksHave, PurgedHasArrived, Has
  <2>4. QED
    BY <2>1, <2>2, <2>3 DEF IInv
<1>7. CASE /\ remote' = [remote EXCEPT ![p] = TRUE]
           /\ hold' = [hold EXCEPT ![p] = hold[p] /\ remote[p]]
           /\ active' = [active EXCEPT ![p] = NotAcked(active[p], m.acks)]
           /\ due' = [due EXCEPT ![p] = NotAcked(IF remote[p] THEN due[p] ELSE active[p], m.acks)]
           /\ Store(p, m)
  <2>1. remote' \in [Peer -> BOOLEAN]
    BY <1>0, <1>7, Zenon DEF Types
  <2>2. hold' \in [Peer -> BOOLEAN]
    BY <1>0, <1>7, Zenon DEF Types
  <2>3. /\ rec' \in [Peer -> SUBSET Nat] /\ acks' \in [Peer -> Seq(Pid)]
        /\ \A q \in Peer : rec[q] \subseteq rec'[q]
        /\ \A q \in Peer : \A n \in rec'[q] :
             n \in rec[q] \/ /\ recPid[q] <= n /\ n < recPid[q] + RecBuffers
                             /\ n < next[Other(q)]
        /\ \A q \in Peer :
             /\ Len(acks'[q]) <= AckSize
             /\ \A i \in 1..Len(acks'[q]) : \/ \E j \in 1..Len(acks[q]) : acks'[q][i] = acks[q][j]
                                            \/ Got(rec'[q], delivered[q], acks'[q][i])
    BY <1>0, <1>4, <1>5, <1>7, StoreKeeps
  <2>4. /\ active \in [Peer -> SUBSET Nat] /\ due \in [Peer -> SUBSET Nat]
        /\ \A q \in Peer : due[q] \subseteq active[q]
    BY <1>0 DEF Types, SendWindow
  <2>5. /\ active' \in [Peer -> SUBSET Nat] /\ active'[p] = NotAcked(active[p], m.acks)
        /\ \A q \in Peer : q # p => active'[q] = active[q]
    BY <1>7, <2>4 DEF NotAcked
  <2>6. /\ due' \in [Peer -> SUBSET Nat] /\ due'[p] \subseteq NotAcked(active[p], m.acks)
        /\ \A q \in Peer : q # p => due'[q] = due[q]
    <3>1. /\ NotAcked(IF remote[p] THEN due[p] ELSE active[p], m.acks) \in SUBSET Nat
          /\ NotAcked(IF remote[p] THEN due[p] ELSE active[p], m.acks) \subseteq NotAcked(active[p], m.acks)
      BY <2>4 DEF NotAcked
    <3>2. QED
      BY <1>7, <2>4, <3>1
  <2>7. Types'
    BY <1>0, <1>2, <1>3, <2>1, <2>2, <2>3, <2>5, <2>6 DEF Types
  <2>8. \A q \in Peer : active'[q] \subseteq active[q] /\ due'[q] \subseteq active'[q]
    BY <2>4, <2>5, <2>6 DEF NotAcked
  <2>9. SendWindow'
    BY <1>0, <1>3, <2>8 DEF SendWindow
  <2>10. InOrder'
    BY <1>0, <1>3 DEF InOrder
  <2>11. RecWindow'
    BY <1>0, <1>3, <2>3 DEF RecWindow
  <2>12. Grows
    <3>1. \A q \in Peer : next[q] <= next'[q]
      BY <1>0, <1>3, Sizes DEF Types
    <3>2. \A q \in Peer : \A n \in Nat : Has(q, n) => HasNow(q, n)
      BY <1>3, <2>3 DEF Has, HasNow, Got
    <3>3. QED
      BY <3>1, <3>2 DEF Grows
  <2>13. AcksHave'
    <3>1. \A q \in Peer : /\ Len(acks'[q]) <= AckSize
                          /\ \A i \in 1..Len(acks'[q]) :
                                \/ \E j \in 1..Len(acks[q]) : acks'[q][i] = acks[q][j]
                                \/ HasNow(q, acks'[q][i])
      BY <1>3, <2>3 DEF HasNow
    <3>2. QED
      BY <1>0, <2>12, <3>1, AcksKept
  <2>14. WireHas'
    <3>1. next' \in [Peer -> 0..Half]
      BY <1>0, <1>3 DEF Types
    <3>2. \A q \in Peer : \A x \in wire'[q] :
            \/ x \in wire[q]
            \/ /\ x.op = "CONTROL" => x.n < next'[Other(q)]
               /\ \A i \in 1..Len(x.acks) : HasNow(Other(q), x.acks[i])
      BY <1>2
    <3>3. QED
      BY <1>0, <2>12, <3>1, <3>2, WireKept
  <2>15. PurgedHasArrived'
    <3>1. ASSUME NEW n \in active[p], n \notin active'[p]
          PROVE  HasNow(Other(p), n)
      <4>1. Contains(m.acks, pid(n))
        BY <2>5, <3>1 DEF NotAcked
      <4>2. n \in 0..Half
        BY <1>0, Sizes DEF Types, SendWindow
      <4>3. pid(n) = n
        BY <4>2, PidIsNumber
      <4>4. PICK i \in 1..Len(m.acks) : m.acks[i] = n
        BY <4>1, <4>3 DEF Contains
      <4>5. Has(Other(p), n)
        BY <1>5, <4>4
      <4>6. QED
        BY <1>4, <2>12, <4>2, <4>5 DEF Grows
    <3>2. \A q \in Peer : \A n \in 0..(next'[q] - 1) :
            \/ n \in active'[q]
            \/ n \in 0..(next[q] - 1) /\ (n \notin active[q] \/ HasNow(Other(q), n))
      BY <1>3, <2>5, <3>1
    <3>3. QED
      BY <1>0, <2>12, <3>2, PurgedKept
  <2>16. QED
    BY <2>7, <2>9, <2>10, <2>11, <2>13, <2>14, <2>15 DEF IInv
<1>8. QED
  BY <1>1, <1>6, <1>7 DEF tls_pre_decrypt

-----------------------------------------------------------------------------
\* The invariant holds at first.
LEMMA InitInv == Init => IInv
<1> SUFFICES ASSUME Init PROVE IInv
  OBVIOUS
<1>1. \A p \in Peer : <<>> \in Seq(Pid) /\ <<>> \in Seq(Nat) /\ Len(<<>>) = 0
  OBVIOUS
<1>2. hold \in [Peer -> BOOLEAN] /\ remote \in [Peer -> BOOLEAN]
  <2>1. hold = [p \in Peer |-> p \in HoldPeers] /\ remote = [p \in Peer |-> FALSE]
    BY DEF Init
  <2>2. \A p \in Peer : (p \in HoldPeers) \in BOOLEAN /\ FALSE \in BOOLEAN
    OBVIOUS
  <2>3. hold \in [Peer -> BOOLEAN]
    BY <2>1, <2>2, Zenon
  <2>4. remote \in [Peer -> BOOLEAN]
    BY <2>1, <2>2, Zenon
  <2>5. QED
    BY <2>3, <2>4
<1>3. Types
  BY <1>1, <1>2, Sizes DEF Init, Types
<1>4. SendWindow
  BY DEF Init, SendWindow
<1>5. RecWindow
  <2>1. \A p \in Peer : Other(p) \in Peer
    BY Others
  <2>2. QED
    BY <1>1, <2>1 DEF Init, RecWindow
<1>6. InOrder /\ AcksHave /\ WireHas
  BY <1>1, Sizes DEF Init, InOrder, AcksHave, WireHas
<1>7. PurgedHasArrived
  BY DEF Init, PurgedHasArrived
<1>8. QED
  BY <1>3, <1>4, <1>5, <1>6, <1>7 DEF IInv

\* Every step keeps it.
LEMMA NextInv == IInv /\ [Next]_vars => IInv'
<1> SUFFICES ASSUME IInv, [Next]_vars PROVE IInv'
  OBVIOUS
<1>1. CASE UNCHANGED vars
  <2>1. Types' /\ SendWindow' /\ InOrder'
    BY <1>1 DEF vars, IInv, Types, SendWindow, InOrder
  <2>2. RecWindow' /\ PurgedHasArrived'
    BY <1>1 DEF vars, IInv, RecWindow, PurgedHasArrived
  <2>3. AcksHave' /\ WireHas'
    BY <1>1 DEF vars, IInv, AcksHave, WireHas, Has
  <2>4. QED
    BY <2>1, <2>2, <2>3 DEF IInv
<1>2. CASE Next
  <2>1. PICK p \in Peer : \/ tls_process(p) \/ Lose(p)
                          \/ \E n \in active[p] : Expire(p, n)
                          \/ \E m \in wire[p] : Arrive(p, m)
    BY <1>2 DEF Next
  <2>2. CASE tls_process(p)
    BY <2>2, ProcessSendKeeps, ProcessWriteKeeps, ProcessIdleKeeps DEF tls_process
  <2>3. CASE Lose(p)
    BY <2>3, LoseKeeps
  <2>4. CASE \E n \in active[p] : Expire(p, n)
    BY <2>4, ExpireKeeps
  <2>5. CASE \E m \in wire[p] : Arrive(p, m)
    BY <2>5, ArriveKeeps
  <2>6. QED
    BY <2>1, <2>2, <2>3, <2>4, <2>5
<1>3. QED
  BY <1>1, <1>2

\* The invariant of the channel: windows, streams and acknowledgements agree.
THEOREM ChannelInvariant == Spec => []IInv
<1>1. QED
  BY InitInv, NextInv, PTL DEF Spec

\* The type invariant follows, the sizes of both buffers included.
LEMMA InvTypes == IInv => TypeOK
<1> SUFFICES ASSUME IInv PROVE TypeOK
  OBVIOUS
<1>0. Types /\ SendWindow /\ RecWindow /\ AcksHave
  BY DEF IInv
<1>1. ASSUME NEW p \in Peer
      PROVE  /\ active[p] \subseteq 0..(next[p] - 1) /\ due[p] \subseteq active[p]
             /\ rec[p] \subseteq 0..(next[Other(p)] - 1)
             /\ Cardinality(active[p]) <= SendBuffers
             /\ Cardinality(rec[p]) <= RecBuffers
             /\ recPid[p] \in Pid
  <2>1. next[p] \in 0..Half /\ Other(p) \in Peer /\ next[Other(p)] \in 0..Half
    BY <1>0, Others DEF Types
  <2>2. active[p] \subseteq Nat /\ rec[p] \subseteq Nat
    BY <1>0 DEF Types
  <2>3. /\ \A n \in active[p] : n < next[p]
        /\ \A n \in rec[p] : n < next[Other(p)]
        /\ due[p] \subseteq active[p]
        /\ \A m, n \in active[p] : m - n < SendBuffers
    BY <1>0 DEF SendWindow, RecWindow
  <2>4. active[p] \subseteq 0..(next[p] - 1) /\ rec[p] \subseteq 0..(next[Other(p)] - 1)
    BY <2>1, <2>2, <2>3, Sizes
  <2>5. Cardinality(active[p]) <= SendBuffers
    <3>1. CASE active[p] = {}
      BY <3>1, FS_EmptySet, Sizes
    <3>2. CASE active[p] # {}
      <4>1. PICK l \in active[p] : \A n \in active[p] : l <= n
        BY <2>2, <3>2, Minimum
      <4>2. l \in Nat /\ active[p] \subseteq l..(l + SendBuffers - 1)
        BY <2>2, <2>3, <4>1, Sizes
      <4>3. /\ IsFiniteSet(l..(l + SendBuffers - 1))
            /\ Cardinality(l..(l + SendBuffers - 1)) = SendBuffers
        <5>1. l \in Int /\ l + SendBuffers - 1 \in Int /\ l <= l + SendBuffers - 1
          BY <4>2, Sizes
        <5>2. QED
          BY <5>1, FS_Interval, Sizes
      <4>4. QED
        BY <4>2, <4>3, FS_Subset
    <3>3. QED
      BY <3>1, <3>2
  <2>6. Cardinality(rec[p]) <= RecBuffers /\ recPid[p] \in 0..Half
    BY <1>0, RecSet
  <2>7. recPid[p] \in Pid
    BY <2>6, Sizes DEF Pid
  <2>8. QED
    BY <2>3, <2>4, <2>5, <2>6, <2>7
<1>2. recPid \in [Peer -> Pid]
  BY <1>0, <1>1 DEF Types
<1>3. next \in [Peer -> Nat]
  BY <1>0, Sizes DEF Types
<1>4. \A p \in Peer : acks[p] \in Seq(Pid) /\ Len(acks[p]) <= AckSize
  BY <1>0 DEF Types, AcksHave
<1>5. \A p \in Peer : wire[p] \subseteq Packet
  BY <1>0 DEF Types
<1>6. QED
  BY <1>0, <1>1, <1>2, <1>3, <1>4, <1>5 DEF Types, TypeOK

\* The state of the channel has its type: the buffers never overflow, and hold
\* packets that were written.
THEOREM TypeCorrect == Spec => []TypeOK
<1>1. QED
  BY ChannelInvariant, InvTypes, PTL

\* reliable_send_purge removes a packet only when the peer has it.
THEOREM PurgeIsSafe == Spec => []PurgedHasArrived
<1>1. IInv => PurgedHasArrived
  BY DEF IInv
<1>2. QED
  BY <1>1, ChannelInvariant, PTL

\* A full receive buffer never keeps TLS waiting: it has the packet TLS needs.
THEOREM FullBufferMoves == Spec => []NoReceiveDeadlock
<1>1. IInv => NoReceiveDeadlock
  <2> SUFFICES ASSUME IInv, NEW p \in Peer, Cardinality(rec[p]) = RecBuffers
               PROVE  \E n \in rec[p] : pid(n) = recPid[p]
    BY DEF NoReceiveDeadlock
  <2>1. recPid[p] \in rec[p] /\ recPid[p] \in 0..Half
    BY RecSet DEF IInv
  <2>2. pid(recPid[p]) = recPid[p]
    BY <2>1, PidIsNumber
  <2>3. QED
    BY <2>1, <2>2
<1>2. QED
  BY <1>1, ChannelInvariant, PTL

-----------------------------------------------------------------------------
(***************************************************************************)
(* The channel implements FifoChannel.                                     *)
(***************************************************************************)
\* A sequence of the packets from 0 on is the stream of that length.
LEMMA IsStream ==
  ASSUME NEW d \in Seq(Nat), \A i \in 1..Len(d) : d[i] = i - 1
  PROVE  d = Fifo!Stream(Len(d))
<1>1. d \in [1..Len(d) -> Nat]
  BY LenProperties
<1>2. d = [i \in 1..Len(d) |-> d[i]]
  BY <1>1
<1>3. QED
  BY <1>2 DEF Fifo!Stream

\* A step that writes w packets and reads k is a step of the abstract channel.
LEMMA AbstractStep ==
  ASSUME Types, InOrder, Types', InOrder', NEW p \in Peer, NEW w \in {0, 1}, NEW k \in Nat,
         next' = [next EXCEPT ![p] = next[p] + w],
         \A q \in Peer : q # p => delivered'[q] = delivered[q],
         Len(delivered'[p]) = Len(delivered[p]) + k,
         Len(delivered[p]) + k <= next[Other(p)]
  PROVE  Fifo!Next
<1>1. delivered \in [Peer -> Seq(Nat)] /\ delivered' \in [Peer -> Seq(Nat)]
  BY DEF Types
<1>2. delivered'[p] = Fifo!Stream(Len(delivered[p]) + k)
  <2>1. delivered'[p] \in Seq(Nat) /\ Len(delivered'[p]) \in Nat
    BY <1>1
  <2>2. \A i \in 1..Len(delivered'[p]) : delivered'[p][i] = i - 1
    BY DEF InOrder
  <2>3. delivered'[p] = Fifo!Stream(Len(delivered'[p]))
    BY <2>1, <2>2, IsStream
  <2>4. QED
    BY <2>3
<1>3. delivered' = [delivered EXCEPT ![p] = Fifo!Stream(Len(delivered[p]) + k)]
  BY <1>1, <1>2
<1>4. Fifo!Other(p) = Other(p)
  BY DEF Fifo!Other, Other
<1>5. k \in 0..(next[Other(p)] - Len(delivered[p]))
  <2>1. Len(delivered[p]) \in Nat /\ Other(p) \in Peer /\ next[Other(p)] \in Nat
    BY <1>1, Others, Sizes DEF Types
  <2>2. QED
    BY <2>1
<1>6. Fifo!Step(p)
  BY <1>3, <1>4, <1>5 DEF Fifo!Step
<1>7. QED
  BY <1>6 DEF Fifo!Next

\* Every step of the channel writes at most one packet and hands over, in order,
\* some packets that were not read before.
LEMMA StepIsAbstract == IInv /\ IInv' /\ [Next]_vars => [Fifo!Next]_(Fifo!vars)
<1> SUFFICES ASSUME IInv, IInv', [Next]_vars
             PROVE  Fifo!Next \/ UNCHANGED <<next, delivered>>
  BY DEF Fifo!vars
<1>0. Types /\ SendWindow /\ RecWindow /\ InOrder /\ Types' /\ InOrder'
  BY DEF IInv
<1>1. CASE UNCHANGED vars
  BY <1>1 DEF vars
<1>2. ASSUME NEW p \in Peer, tls_process(p)
      PROVE  Fifo!Next
  <2>1. /\ Len(delivered[p]) \in Nat /\ Len(delivered[p]) = recPid[p]
        /\ recPid[p] <= next[Other(p)]
    BY <1>0 DEF Types, RecWindow
  <2>2. Cardinality(Opening(p)) \in {0, 1}
    BY <1>0, OpeningWrites
  <2>3. ASSUME NEW k \in 0..Sequenced(p), Deliver(p, k)
        PROVE  /\ \A q \in Peer : q # p => delivered'[q] = delivered[q]
               /\ Len(delivered'[p]) = Len(delivered[p]) + k
               /\ Len(delivered[p]) + k <= next[Other(p)]
               /\ k \in Nat
    <3>1. k \in Nat
      BY <1>0, SequencedRounds
    <3>2. /\ \A q \in Peer : q # p => delivered'[q] = delivered[q]
          /\ recPid'[p] = recPid[p] + k /\ recPid'[p] <= next[Other(p)]
          /\ Len(delivered'[p]) = Len(delivered[p]) + k
      BY <1>0, <2>3, DeliverNext
    <3>3. QED
      BY <2>1, <3>1, <3>2
  <2>4. CASE ProcessSend(p)
    <3>1. /\ next' = [next EXCEPT ![p] = next[p] + Cardinality(Opening(p))]
          /\ UNCHANGED delivered
      BY <2>4 DEF ProcessSend
    <3>2. Len(delivered'[p]) = Len(delivered[p]) + 0 /\ Len(delivered[p]) + 0 <= next[Other(p)]
      BY <2>1, <3>1
    <3>3. QED
      BY <1>0, <2>2, <3>1, <3>2, AbstractStep
  <2>5. CASE ProcessWrite(p)
    <3>1. PICK k \in 0..Sequenced(p) : Deliver(p, k)
      BY <2>5 DEF ProcessWrite
    <3>2. next' = [next EXCEPT ![p] = next[p] + 1]
      BY <2>5 DEF ProcessWrite
    <3>3. QED
      BY <1>0, <2>3, <3>1, <3>2, AbstractStep
  <2>6. CASE ProcessIdle(p)
    <3>1. Deliver(p, Sequenced(p)) /\ Sequenced(p) \in 0..Sequenced(p)
      BY <1>0, <2>6, SequencedRounds DEF ProcessIdle
    <3>2. next' = [next EXCEPT ![p] = next[p] + Cardinality(Opening(p))]
      BY <2>6 DEF ProcessIdle
    <3>3. QED
      BY <1>0, <2>2, <2>3, <3>1, <3>2, AbstractStep
  <2>7. QED
    BY <1>2, <2>4, <2>5, <2>6 DEF tls_process
<1>3. ASSUME NEW p \in Peer, Lose(p)
      PROVE  UNCHANGED <<next, delivered>>
  BY <1>3 DEF Lose
<1>4. ASSUME NEW p \in Peer, NEW n, Expire(p, n)
      PROVE  UNCHANGED <<next, delivered>>
  BY <1>4 DEF Expire
<1>5. ASSUME NEW p \in Peer, NEW m, Arrive(p, m)
      PROVE  UNCHANGED <<next, delivered>>
  BY <1>5 DEF Arrive, tls_pre_decrypt
<1>6. QED
  BY <1>1, <1>2, <1>3, <1>4, <1>5 DEF Next

\* The reliability layer implements a pair of FIFO streams, whatever the network
\* loses, repeats or reorders.
THEOREM ImplementsFifo == Spec => IsFifo
<1>1. Init => Fifo!Init
  BY DEF Init, Fifo!Init
<1>2. QED
  BY <1>1, StepIsAbstract, ChannelInvariant, PTL DEF Spec, IsFifo, Fifo!Spec
=============================================================================
