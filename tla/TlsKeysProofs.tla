--------------------------- MODULE TlsKeysProofs ---------------------------
(***************************************************************************)
(* The key states of a session for any windows and any number of keys.     *)
(***************************************************************************)
EXTENDS TlsKeys, SequenceTheorems, TLAPS

Types == ses \in [Peer -> Session] /\ wire \in [Peer -> Seq(Packet)] /\ ready \in [Peer -> BOOLEAN]

-----------------------------------------------------------------------------
(***************************************************************************)
(* Types of the operators                                                  *)
(***************************************************************************)
\* The other one of two peers is a peer, and its other one is the first.
LEMMA Others ==
  ASSUME NEW p \in Peer
  PROVE  /\ Other(p) \in Peer /\ Other(p) # p /\ Other(Other(p)) = p
         /\ \A q \in Peer : q = p \/ q = Other(p)
BY KeysAssumption DEF KeysAssumption, Peer, Other

\* A key id fits into its three bits.
LEMMA KeyIdType ==
  ASSUME NEW gen \in Nat
  PROVE  KeyId(gen) \in 0..KeyIdMask
<1>1. KeyIdMask \in Nat /\ KeyIdMask > 1
  BY KeysAssumption DEF KeysAssumption
<1>2. CASE gen = 0
  BY <1>1, <1>2 DEF KeyId
<1>3. CASE gen # 0
  <2>1. (gen - 1) % KeyIdMask \in 0..(KeyIdMask - 1)
    BY <1>1, <1>3
  <2>2. QED
    BY <1>1, <1>3, <2>1 DEF KeyId
<1>4. QED
  BY <1>2, <1>3

\* The sizes.
LEMMA Sizes ==
  /\ MaxGen \in Nat /\ HandshakeWindow \in Nat \ {0} /\ TransitionWindow \in Nat
  /\ RenegotiateAfter \in 0..TransitionWindow /\ WireBound \in Nat
BY KeysAssumption DEF KeysAssumption

\* A key state is in S_INITIAL with empty buffers when it is made, and so is a freed one.
LEMMA NewKeys ==
  /\ \A gen \in 0..MaxGen : key_state_init(gen) \in Key
  /\ Freed \in Key
BY Sizes DEF key_state_init, Freed, Key, S_INITIAL, S_UNDEF, S_ERROR, S_NORMAL_OP

\* The states are numbers in the range of a key's state.
LEMMA States ==
  /\ S_ERROR = -1 /\ S_UNDEF = 0 /\ S_INITIAL = 1 /\ S_PRE_START = 2 /\ S_START = 3
  /\ S_SENT_KEY = 4 /\ S_GOT_KEY = 5 /\ S_ACTIVE = 6 /\ S_NORMAL_OP = 7
BY DEF S_ERROR, S_UNDEF, S_INITIAL, S_PRE_START, S_START, S_SENT_KEY, S_GOT_KEY, S_ACTIVE,
       S_NORMAL_OP

\* The fields of a key.
LEMMA KeyFields ==
  ASSUME NEW k \in Key
  PROVE  /\ k.gen \in 0..MaxGen /\ k.st \in S_ERROR..S_NORMAL_OP /\ k.wait \in 0..HandshakeWindow
         /\ k.unacked \in SUBSET {0, 1} /\ k.due \in SUBSET {0, 1}
         /\ k.rec \in SUBSET {0, 1} /\ k.owe \in SUBSET {0, 1}
BY DEF Key

\* Advance keeps a key a key.
LEMMA AdvanceType ==
  ASSUME NEW p, NEW k \in Key
  PROVE  Advance(p, k) \in Key
<1>1. \/ Advance(p, k) = k
      \/ Advance(p, k) = [k EXCEPT !.st = S_START]
      \/ Advance(p, k) = [k EXCEPT !.st = S_ACTIVE]
      \/ Advance(p, k) = [k EXCEPT !.st = S_PRE_START, !.unacked = {0}, !.due = {0},
                                  !.wait = HandshakeWindow]
  BY DEF Advance
<1>2. S_START \in S_ERROR..S_NORMAL_OP /\ S_ACTIVE \in S_ERROR..S_NORMAL_OP
      /\ S_PRE_START \in S_ERROR..S_NORMAL_OP
  BY States
<1>3. {0} \in SUBSET {0, 1} /\ HandshakeWindow \in 0..HandshakeWindow
  BY Sizes
<1>4. [k EXCEPT !.st = S_START] \in Key /\ [k EXCEPT !.st = S_ACTIVE] \in Key
  BY <1>2 DEF Key
<1>5. [k EXCEPT !.st = S_PRE_START, !.unacked = {0}, !.due = {0}, !.wait = HandshakeWindow] \in Key
  BY <1>2, <1>3 DEF Key
<1>6. QED
  BY <1>1, <1>4, <1>5

\* So does Exchange.
LEMMA ExchangeType ==
  ASSUME NEW p, NEW k \in Key
  PROVE  Exchange(p, k) \in Key
<1>1. \/ Exchange(p, k) = k
      \/ Exchange(p, k) = [k EXCEPT !.st = S_GOT_KEY]
      \/ Exchange(p, k) = [k EXCEPT !.st = S_SENT_KEY, !.unacked = k.unacked \cup {1},
                                   !.due = k.due \cup {1}]
  BY DEF Exchange
<1>2. S_GOT_KEY \in S_ERROR..S_NORMAL_OP /\ S_SENT_KEY \in S_ERROR..S_NORMAL_OP
  BY States
<1>3. k.unacked \cup {1} \in SUBSET {0, 1} /\ k.due \cup {1} \in SUBSET {0, 1}
  BY KeyFields
<1>4. [k EXCEPT !.st = S_GOT_KEY] \in Key
  BY <1>2 DEF Key
<1>5. [k EXCEPT !.st = S_SENT_KEY, !.unacked = k.unacked \cup {1}, !.due = k.due \cup {1}] \in Key
  BY <1>2, <1>3 DEF Key
<1>6. QED
  BY <1>1, <1>4, <1>5

\* What a round is, and that it makes a key of a key.
LEMMA RoundType ==
  ASSUME NEW p \in Peer, NEW k \in Key
  PROVE  /\ Round[p][k] = LET a == Advance(p, k) IN IF a.due # {} THEN a ELSE Exchange(p, a)
         /\ Round[p][k] \in Key
<1>1. Round[p][k] = LET a == Advance(p, k) IN IF a.due # {} THEN a ELSE Exchange(p, a)
  BY DEF Round
<1>2. QED
  BY <1>1, AdvanceType, ExchangeType

\* So do all the rounds of a call.
LEMMA RoundsType ==
  ASSUME NEW p \in Peer, NEW k \in Key
  PROVE  Rounds(p, k) \in Key
BY RoundType DEF Rounds

\* A session with other keys is a session.
LEMMA SessionWith ==
  ASSUME NEW s \in Session, NEW k \in Key, NEW l \in Key
  PROVE  /\ [s EXCEPT !.prim = k] \in Session
         /\ [s EXCEPT !.lame = l] \in Session
         /\ [s EXCEPT !.prim = k, !.lame = l] \in Session
BY DEF Session

\* The fields of a session.
LEMMA SessionFields ==
  ASSUME NEW s \in Session
  PROVE  s.prim \in Key /\ s.lame \in Key /\ s.age \in 0..TransitionWindow
BY DEF Session

\* The retirement of the old key leaves a session.
LEMMA BuriedType ==
  ASSUME NEW s \in Session
  PROVE  Buried(s) \in Session
BY SessionWith, NewKeys DEF Buried

\* A soft reset within the bound makes a session.
LEMMA ResetType ==
  ASSUME NEW s \in Session, s.prim.gen < MaxGen
  PROVE  key_state_soft_reset(s) \in Session
<1>1. s.prim \in Key /\ s.prim.gen \in 0..MaxGen
  BY SessionFields, KeyFields
<1>2. s.prim.gen + 1 \in 0..MaxGen /\ 0 \in 0..TransitionWindow
  BY <1>1, Sizes
<1>3. key_state_init(s.prim.gen + 1) \in Key
  BY <1>2, NewKeys
<1>4. QED
  BY <1>1, <1>2, <1>3 DEF key_state_soft_reset, Session

\* So does the end of the handshake window.
LEMMA TimedOutType ==
  ASSUME NEW s \in Session
  PROVE  TimedOut(s) \in Session
<1>1. s.prim \in Key /\ s.lame \in Key /\ s.prim.gen \in 0..MaxGen
  BY SessionFields, KeyFields
<1>2. S_ERROR \in S_ERROR..S_NORMAL_OP /\ S_NORMAL_OP \in S_ERROR..S_NORMAL_OP
  BY States
<1>3. [s.prim EXCEPT !.st = S_NORMAL_OP] \in Key
  BY <1>1, <1>2 DEF Key
<1>4. [Freed EXCEPT !.gen = s.prim.gen, !.st = S_ERROR] \in Key
  <2>1. Freed \in Key
    BY NewKeys
  <2>2. QED
    BY <1>1, <1>2, <2>1 DEF Key
<1>5. CASE s.prim.st >= S_ACTIVE
  <2>1. TimedOut(s) = [s EXCEPT !.prim = [s.prim EXCEPT !.st = S_NORMAL_OP]]
    BY <1>5 DEF TimedOut, Session
  <2>2. QED
    BY <2>1, <1>3, <1>1, SessionWith
<1>6. CASE ~(s.prim.st >= S_ACTIVE)
  <2> DEFINE l == IF s.lame.st >= S_ACTIVE THEN s.lame ELSE Freed
  <2>1. l \in Key
    BY <1>1, NewKeys
  <2>2. TimedOut(s) = [s EXCEPT !.prim = [Freed EXCEPT !.gen = s.prim.gen, !.st = S_ERROR], !.lame = l]
    BY <1>6 DEF TimedOut
  <2>3. QED
    BY <2>1, <2>2, <1>4 DEF Session
<1>7. QED
  BY <1>5, <1>6

\* A packet that the control channel takes keeps a key a key.
LEMMA ReceivedType ==
  ASSUME NEW k \in Key, NEW m \in Packet
  PROVE  Received(k, m) \in Key
<1>1. /\ k.unacked \ m.acks \in SUBSET {0, 1} /\ k.due \ m.acks \in SUBSET {0, 1}
      /\ k.rec \cup {m.n} \in SUBSET {0, 1} /\ k.owe \cup {m.n} \in SUBSET {0, 1}
  <2>1. m.n \in {0, 1}
    BY DEF Packet
  <2>2. QED
    BY <2>1, KeyFields
<1>2. [k EXCEPT !.unacked = k.unacked \ m.acks, !.due = k.due \ m.acks] \in Key
  BY <1>1 DEF Key
<1>3. [k EXCEPT !.unacked = k.unacked \ m.acks, !.due = k.due \ m.acks,
                !.rec = k.rec \cup {m.n}, !.owe = k.owe \cup {m.n}] \in Key
  BY <1>1 DEF Key
<1>4. QED
  BY <1>2, <1>3 DEF Received

\* A unit of time keeps a key a key.
LEMMA OlderType ==
  ASSUME NEW k \in Key
  PROVE  Older(k) \in Key
<1>1. k.wait \in 0..HandshakeWindow
  BY KeyFields
<1>2. k.wait > 0 => k.wait - 1 \in 0..HandshakeWindow
  BY <1>1, Sizes
<1>3. k.wait > 0 => [k EXCEPT !.wait = k.wait - 1] \in Key
  BY <1>2 DEF Key
<1>4. QED
  BY <1>3 DEF Older

\* What goes out is a packet.
LEMMA PacketType ==
  ASSUME NEW k \in Key, NEW n \in {0, 1}, NEW a \in SUBSET {0, 1}
  PROVE  /\ Control(k, n, a) \in Packet
         /\ [op |-> "ACK", id |-> KeyId(k.gen), n |-> 0, acks |-> a] \in Packet
<1>1. KeyId(k.gen) \in 0..KeyIdMask
  BY KeyFields, KeyIdType, Sizes
<1>2. QED
  BY <1>1 DEF Control, Packet

-----------------------------------------------------------------------------
(***************************************************************************)
(* The type invariant                                                      *)
(***************************************************************************)
\* What is sent goes to the other peer's end.
LEMMA TransmitTypes ==
  ASSUME Types, NEW p \in Peer, NEW m \in Packet, Transmit(p, m)
  PROVE  wire' \in [Peer -> Seq(Packet)]
<1>1. Other(p) \in Peer
  BY Others
<1>2. Append(wire[Other(p)], m) \in Seq(Packet)
  BY <1>1 DEF Types
<1>3. QED
  BY <1>1, <1>2 DEF Types, Transmit

\* The end of a call of tls_process.
LEMMA OutputTypes ==
  ASSUME Types, NEW p \in Peer, NEW s \in Session, NEW k \in Key, Output(p, s, k)
  PROVE  ses' \in [Peer -> Session] /\ wire' \in [Peer -> Seq(Packet)]
<1>1. /\ k.due \in SUBSET {0, 1} /\ k.owe \in SUBSET {0, 1} /\ {} \in SUBSET {0, 1}
  BY KeyFields
<1>2. CASE k.due # {}
  <2> DEFINE n == IF 0 \in k.due THEN 0 ELSE 1
             t == [s EXCEPT !.prim = [k EXCEPT !.due = k.due \ {n}, !.owe = {}]]
  <2>1. n \in {0, 1} /\ k.due \ {n} \in SUBSET {0, 1}
    BY <1>1
  <2>2. ses' = [ses EXCEPT ![p] = t] /\ Transmit(p, Control(k, n, k.owe))
    BY <1>2 DEF Output
  <2>3. Control(k, n, k.owe) \in Packet
    BY <1>1, <2>1, PacketType
  <2>4. [k EXCEPT !.due = k.due \ {n}, !.owe = {}] \in Key
    BY <1>1, <2>1 DEF Key
  <2>5. t \in Session
    BY <2>4 DEF Session
  <2>6. wire' \in [Peer -> Seq(Packet)]
    BY <2>2, <2>3, TransmitTypes
  <2>7. QED
    BY <2>2, <2>5, <2>6 DEF Types
<1>3. CASE k.due = {} /\ k.owe # {}
  <2> DEFINE t == [s EXCEPT !.prim = [k EXCEPT !.owe = {}]]
             m == [op |-> "ACK", id |-> KeyId(k.gen), n |-> 0, acks |-> k.owe]
  <2>1. ses' = [ses EXCEPT ![p] = t] /\ Transmit(p, m)
    BY <1>3 DEF Output
  <2>2. m \in Packet
    BY <1>1, PacketType
  <2>3. [k EXCEPT !.owe = {}] \in Key
    BY <1>1 DEF Key
  <2>4. t \in Session
    BY <2>3 DEF Session
  <2>5. wire' \in [Peer -> Seq(Packet)]
    BY <2>1, <2>2, TransmitTypes
  <2>6. QED
    BY <2>1, <2>4, <2>5 DEF Types
<1>4. CASE k.due = {} /\ k.owe = {}
  <2>1. ses' = [ses EXCEPT ![p] = [s EXCEPT !.prim = k]] /\ UNCHANGED wire
    BY <1>4 DEF Output
  <2>2. [s EXCEPT !.prim = k] \in Session
    BY DEF Session
  <2>3. QED
    BY <2>1, <2>2 DEF Types
<1>5. QED
  BY <1>2, <1>3, <1>4

\* All of the call.
LEMMA RunTypes ==
  ASSUME Types, NEW p \in Peer, NEW s \in Session, Run(p, s)
  PROVE  ses' \in [Peer -> Session] /\ wire' \in [Peer -> Seq(Packet)]
<1> DEFINE b == Buried(s)
<1>1. b \in Session /\ b.prim \in Key
  BY BuriedType, SessionFields
<1>2. CASE b.age >= HandshakeWindow /\ b.prim.st \notin {S_INITIAL, S_NORMAL_OP}
  <2>1. ses' = [ses EXCEPT ![p] = TimedOut(b)] /\ UNCHANGED wire
    BY <1>2 DEF Run
  <2>2. TimedOut(b) \in Session
    BY <1>1, TimedOutType
  <2>3. QED
    BY <2>1, <2>2 DEF Types
<1>3. CASE ~(b.age >= HandshakeWindow /\ b.prim.st \notin {S_INITIAL, S_NORMAL_OP})
  <2>1. Output(p, b, Rounds(p, b.prim))
    BY <1>3 DEF Run
  <2>2. Rounds(p, b.prim) \in Key
    BY <1>1, RoundsType
  <2>3. QED
    BY <1>1, <2>1, <2>2, OutputTypes
<1>4. QED
  BY <1>2, <1>3

\* A control packet.
LEMMA PreDecryptTypes ==
  ASSUME Types, NEW p \in Peer, NEW m \in Packet, tls_pre_decrypt(p, m)
  PROVE  ses' \in [Peer -> Session] /\ ready' \in [Peer -> BOOLEAN]
<1> DEFINE s == IF IsRequest(p, m) THEN key_state_soft_reset(ses[p]) ELSE ses[p]
           t == IF s.prim.st # S_ERROR /\ KeyId(s.prim.gen) = m.id
                  THEN [s EXCEPT !.prim = Received(s.prim, m)] ELSE s
<1>1. /\ s.prim.gen <= MaxGen /\ ses' = [ses EXCEPT ![p] = t]
      /\ ready' = [ready EXCEPT ![p] = (ses[p].prim.st = S_ERROR)]
  BY DEF tls_pre_decrypt
<1>2. ses[p] \in Session /\ ses[p].prim \in Key /\ ses[p].prim.gen \in 0..MaxGen
  BY SessionFields, KeyFields DEF Types
<1>3. s \in Session
  <2>1. CASE IsRequest(p, m)
    <3>1. s.prim.gen = ses[p].prim.gen + 1
      BY <2>1 DEF key_state_soft_reset, key_state_init
    <3>2. ses[p].prim.gen < MaxGen
      BY <1>1, <1>2, <3>1, Sizes
    <3>3. QED
      BY <2>1, <1>2, <3>2, ResetType
  <2>2. CASE ~IsRequest(p, m)
    BY <2>2, <1>2
  <2>3. QED
    BY <2>1, <2>2
<1>4. Received(s.prim, m) \in Key
  BY <1>3, SessionFields, ReceivedType
<1>5. [s EXCEPT !.prim = Received(s.prim, m)] \in Session
  BY <1>3, <1>4 DEF Session
<1>6. t \in Session
  BY <1>3, <1>5
<1>7. ready' \in [Peer -> BOOLEAN]
  BY <1>1, Zenon DEF Types
<1>8. QED
  BY <1>1, <1>6, <1>7 DEF Types

\* A packet that is taken off the wire leaves a sequence of packets.
LEMMA TakenOff ==
  ASSUME NEW w \in Seq(Packet), NEW i \in 1..Len(w)
  PROVE  /\ SubSeq(w, 1, i - 1) \o SubSeq(w, i + 1, Len(w)) \in Seq(Packet)
         /\ w[i] \in Packet
<1>1. SubSeq(w, 1, i - 1) \in Seq(Packet)
  BY SubSeqProperties
<1>2. SubSeq(w, i + 1, Len(w)) \in Seq(Packet)
  BY SubSeqProperties
<1>3. QED
  BY <1>1, <1>2, ConcatProperties

\* The initial state is well typed.
LEMMA InitTypes == Init => Types
<1> SUFFICES ASSUME Init PROVE Types
  OBVIOUS
<1> DEFINE k == [key_state_init(0) EXCEPT !.st = S_NORMAL_OP, !.rec = {0, 1}]
           s == [prim |-> k, lame |-> Freed, age |-> TransitionWindow]
<1>1. key_state_init(0) \in Key /\ Freed \in Key
  BY NewKeys, Sizes
<1>2. S_NORMAL_OP \in S_ERROR..S_NORMAL_OP /\ {0, 1} \in SUBSET {0, 1}
  BY States
<1>3. k \in Key
  BY <1>1, <1>2 DEF Key
<1>4. s \in Session
  BY <1>1, <1>3, Sizes DEF Session
<1>5. <<>> \in Seq(Packet)
  OBVIOUS
<1>6. QED
  BY <1>4, <1>5 DEF Init, Types

\* Every step keeps the types.
LEMMA NextTypes == Types /\ [Next]_vars => Types'
<1> SUFFICES ASSUME Types, [Next]_vars PROVE Types'
  OBVIOUS
<1>1. CASE Tick
  <2> DEFINE new(p) == [prim |-> Older(ses[p].prim), lame |-> Older(ses[p].lame),
                        age |-> IF ses[p].age < TransitionWindow THEN ses[p].age + 1 ELSE ses[p].age]
  <2>1. ASSUME NEW p \in Peer PROVE new(p) \in Session
    <3>1. ses[p] \in Session
      BY DEF Types
    <3>2. Older(ses[p].prim) \in Key /\ Older(ses[p].lame) \in Key
      BY <3>1, SessionFields, OlderType
    <3>3. (IF ses[p].age < TransitionWindow THEN ses[p].age + 1 ELSE ses[p].age) \in 0..TransitionWindow
      BY <3>1, SessionFields, Sizes
    <3>4. QED
      BY <3>2, <3>3 DEF Session
  <2>2. ses' = [p \in Peer |-> new(p)] /\ UNCHANGED <<wire, ready>>
    BY <1>1 DEF Tick
  <2>3. QED
    BY <2>1, <2>2 DEF Types
<1>2. ASSUME NEW p \in Peer, tls_process(p) PROVE Types'
  <2>1. ses[p] \in Session /\ Run(p, ses[p]) /\ ready' = [ready EXCEPT ![p] = TRUE]
    BY <1>2 DEF tls_process, Types
  <2>2. ses' \in [Peer -> Session] /\ wire' \in [Peer -> Seq(Packet)]
    BY <2>1, RunTypes
  <2>3. ready' \in [Peer -> BOOLEAN]
    BY <2>1, Zenon DEF Types
  <2>4. QED
    BY <2>2, <2>3 DEF Types
<1>3. ASSUME NEW p \in Peer, Renegotiate(p) PROVE Types'
  <2>1. /\ ses[p] \in Session /\ ses[p].prim.gen < MaxGen /\ Run(p, key_state_soft_reset(ses[p]))
        /\ ready' = [ready EXCEPT ![p] = TRUE]
    BY <1>3 DEF Renegotiate, Types
  <2>2. ses' \in [Peer -> Session] /\ wire' \in [Peer -> Seq(Packet)]
    BY <2>1, ResetType, RunTypes
  <2>3. ready' \in [Peer -> BOOLEAN]
    BY <2>1, Zenon DEF Types
  <2>4. QED
    BY <2>2, <2>3 DEF Types
<1>4. ASSUME NEW p \in Peer, Lose(p) PROVE Types'
  <2>1. wire[p] \in Seq(Packet) /\ wire[p] # <<>>
    BY <1>4 DEF Lose, Types
  <2>2. Tail(wire[p]) \in Seq(Packet)
    BY <2>1
  <2>3. QED
    BY <1>4, <2>2 DEF Lose, Types
<1>5. ASSUME NEW p \in Peer, NEW n \in {0, 1}, Expire(p, n) PROVE Types'
  <2> DEFINE k == [ses[p].prim EXCEPT !.due = ses[p].prim.due \cup {n}]
  <2>1. ses[p] \in Session /\ ses[p].prim \in Key
    BY SessionFields DEF Types
  <2>2. ses[p].prim.due \cup {n} \in SUBSET {0, 1}
    BY <2>1, KeyFields
  <2>3. k \in Key
    BY <2>1, <2>2 DEF Key
  <2>4. [ses[p] EXCEPT !.prim = k] \in Session
    BY <2>1, <2>3 DEF Session
  <2>5. ses' = [ses EXCEPT ![p] = [ses[p] EXCEPT !.prim = k]] /\ UNCHANGED <<wire, ready>>
    BY <1>5, <2>1 DEF Expire, Types, Session, Key
  <2>6. QED
    BY <2>4, <2>5 DEF Types
<1>6. ASSUME NEW p \in Peer, NEW i \in 1..Len(wire[p]), Arrive(p, i) PROVE Types'
  <2>1. wire[p] \in Seq(Packet)
    BY DEF Types
  <2>2. /\ wire[p][i] \in Packet
        /\ SubSeq(wire[p], 1, i - 1) \o SubSeq(wire[p], i + 1, Len(wire[p])) \in Seq(Packet)
    BY <2>1, TakenOff
  <2>3. ses' \in [Peer -> Session] /\ ready' \in [Peer -> BOOLEAN]
    BY <1>6, <2>2, PreDecryptTypes DEF Arrive
  <2>4. wire' \in [Peer -> Seq(Packet)]
    BY <1>6, <2>2 DEF Arrive, Types
  <2>5. QED
    BY <2>3, <2>4 DEF Types
<1>7. CASE UNCHANGED vars
  BY <1>7 DEF vars, Types
<1>8. QED
  BY <1>1, <1>2, <1>3, <1>4, <1>5, <1>6, <1>7 DEF Next

\* The types of the two sessions, for any windows and any number of keys. In
\* particular ks->state stays in its range and the key id fits into its three bits.
THEOREM TypeCorrect == Spec => []TypeOK
<1>1. Types => TypeOK
  BY DEF Types, TypeOK
<1>2. QED
  BY InitTypes, NextTypes, <1>1, PTL DEF Spec

-----------------------------------------------------------------------------
(***************************************************************************)
(* The invariant of a renegotiation                                        *)
(***************************************************************************)
\* The network keeps the order, and a key is in use for two handshake windows
\* before it is replaced. The defaults are 60 s for the one (options.c:885) and
\* 3600 s for the other.
Timely == ~Reorders /\ RenegotiateAfter >= 2 * HandshakeWindow

\* A side by itself: what waits for an acknowledgement is the packet of its state;
\* a key that decrypts has both packets of the other side; a key is in use at the
\* end of the handshake window; until the end of the transition window the one
\* before it is there, too.
Own(p, s) ==
  LET k == s.prim IN
    /\ k.st >= S_INITIAL /\ ~(p = Server /\ k.st = S_GOT_KEY)
    /\ k.st = S_INITIAL => s.age = 0 /\ k.unacked = {}
    /\ k.due \subseteq k.unacked /\ k.owe \subseteq k.rec
    /\ 0 \in k.unacked => k.st = S_PRE_START
    /\ 1 \in k.unacked => k.st >= S_SENT_KEY /\ k.st < S_ACTIVE
    /\ DECRYPT_KEY_ENABLED(p, k) => k.rec = {0, 1}
    /\ k.st >= S_PRE_START => k.wait = IF s.age < HandshakeWindow THEN HandshakeWindow - s.age ELSE 0
    /\ s.age > HandshakeWindow => k.st = S_NORMAL_OP
    /\ s.lame.st >= S_ACTIVE => s.lame.gen + 1 = k.gen /\ s.lame.wait = 0
    /\ s.age < TransitionWindow => s.lame.st >= S_ACTIVE

\* The reset is packet 0 and the key material packet 1.
Shaped(m) == (m.op = "SOFT_RESET" => m.n = 0) /\ (m.op = "CONTROL" => m.n = 1)

\* Packets w of a side whose key is k: those of the key before it come first, and
\* no reset comes after the key material.
InFlight(k, w) ==
  LET id == KeyId(k.gen) IN
    /\ \A i \in 1..Len(w) :
         /\ Shaped(w[i])
         /\ w[i].op = "SOFT_RESET" => w[i].id = id
         /\ w[i].id = id => w[i].acks \subseteq k.rec
         /\ w[i].id = id /\ w[i].op = "CONTROL" => k.st >= S_SENT_KEY
    /\ \A i, j \in 1..Len(w) : i < j /\ w[i].id = id => w[j].id = id
    /\ \A i, j \in 1..Len(w) : i < j /\ w[i].id = id /\ w[i].op = "CONTROL" => w[j].op # "SOFT_RESET"

\* The same with the key l of the receiver, who is at the same key: what has been
\* acknowledged has arrived.
Fits(k, l, w) ==
  /\ InFlight(k, w)
  /\ l.rec # {} => \A i \in 1..Len(w) : w[i].id = KeyId(k.gen)
  /\ 1 \in l.rec => k.st >= S_SENT_KEY /\ \A i \in 1..Len(w) : w[i].op # "SOFT_RESET"
  /\ k.st >= S_PRE_START /\ 0 \notin k.unacked => 0 \in l.rec
  /\ k.st >= S_SENT_KEY /\ 1 \notin k.unacked => 1 \in l.rec

\* Both are at the same key: p, with session s and packets w to the other, whose
\* session is t. Only a side that is about to fail is a whole handshake window
\* ahead, and what p encrypts with the new key the other can decrypt.
Even(p, s, t, w) ==
  /\ s.prim.gen = t.prim.gen
  /\ Fits(s.prim, t.prim, w)
  /\ s.age >= t.age + HandshakeWindow => s.prim.st < S_ACTIVE
  /\ s.prim.st >= S_ACTIVE /\ s.prim.wait = 0 => DECRYPT_KEY_ENABLED(Other(p), t.prim)

\* The side with session s has started a negotiation that the other, with session
\* t, has not heard of; w is on its way to the other, v comes back.
Leads(s, t, w, v) ==
  LET k == s.prim
      l == t.prim
      Old(m) == m.id = KeyId(l.gen) /\ m.op # "SOFT_RESET" /\ Shaped(m)
      New(m) == m.id = KeyId(k.gen) /\ m.op = "SOFT_RESET" /\ m.n = 0 /\ m.acks = {}
  IN /\ k.gen = l.gen + 1
     /\ k.st = S_PRE_START /\ k.rec = {} /\ k.unacked = {0}
     /\ t.age > HandshakeWindow
     /\ \A i \in 1..Len(w) : Old(w[i]) \/ New(w[i])
     /\ \A i, j \in 1..Len(w) : i < j /\ New(w[i]) => New(w[j])
     /\ \A i \in 1..Len(v) : Old(v[i])

Agree ==
  /\ \A p \in Peer : Own(p, ses[p])
  /\ \/ \A p \in Peer : Even(p, ses[p], ses[Other(p)], wire[Other(p)])
     \/ \E p \in Peer : Leads(ses[p], ses[Other(p)], wire[Other(p)], wire[p])

KeyInv == Failed \/ Agree

-----------------------------------------------------------------------------
(***************************************************************************)
(* Key ids                                                                 *)
(***************************************************************************)
\* Neighbours are told apart by their remainder.
LEMMA Remainders ==
  ASSUME NEW a \in Nat, NEW M \in Nat, M > 1
  PROVE  a % M # (a + 1) % M
<1> SUFFICES ASSUME a % M = (a + 1) % M PROVE FALSE
  OBVIOUS
<1>1. a % M = a - M * (a \div M) /\ a \div M \in Int
  OBVIOUS
<1>2. (a + 1) % M = a + 1 - M * ((a + 1) \div M) /\ (a + 1) \div M \in Int
  OBVIOUS
<1> DEFINE x == (a + 1) \div M - a \div M
<1>3. x \in Int /\ M * x = 1
  BY <1>1, <1>2
<1>4. QED
  <2>1. CASE x <= 0
    BY <2>1, <1>3
  <2>2. CASE x >= 1
    BY <2>2, <1>3
  <2>3. QED
    BY <2>1, <2>2, <1>3

\* A key and the next one have different ids, even where the id starts again at 1.
LEMMA NextId ==
  ASSUME NEW gen \in Nat
  PROVE  KeyId(gen + 1) # KeyId(gen)
<1>1. KeyIdMask \in Nat /\ KeyIdMask > 1
  BY KeysAssumption DEF KeysAssumption
<1>2. CASE gen = 0
  BY <1>1, <1>2 DEF KeyId
<1>3. CASE gen # 0
  <2>1. gen - 1 \in Nat /\ gen = (gen - 1) + 1
    BY <1>3
  <2>2. (gen - 1) % KeyIdMask # ((gen - 1) + 1) % KeyIdMask
    BY <1>1, <2>1, Remainders
  <2>3. KeyId(gen) = 1 + ((gen - 1) % KeyIdMask) /\ KeyId(gen + 1) = 1 + (gen % KeyIdMask)
    BY <1>3 DEF KeyId
  <2>4. (gen - 1) % KeyIdMask \in Int /\ gen % KeyIdMask \in Int
    BY <1>1, <2>1
  <2>5. QED
    BY <2>1, <2>2, <2>3, <2>4
<1>4. QED
  BY <1>2, <1>3

-----------------------------------------------------------------------------
(***************************************************************************)
(* The rounds of tls_process                                               *)
(***************************************************************************)
\* A state in which a round changes nothing.
Still(p, k) ==
  /\ k.st # S_INITIAL
  /\ ~(k.st = S_PRE_START /\ FULL_SYNC(k))
  /\ ~(k.st = (IF p = Server THEN S_SENT_KEY ELSE S_GOT_KEY) /\ FULL_SYNC(k))
  /\ \/ k.due # {}
     \/ /\ k.st # (IF p = Server THEN S_GOT_KEY ELSE S_START)
        /\ ~(k.st = (IF p = Server THEN S_START ELSE S_SENT_KEY) /\ {0, 1} \subseteq k.rec)

\* There no round, and so the whole loop, changes anything.
LEMMA StillRound ==
  ASSUME NEW p \in Peer, NEW k \in Key, Still(p, k)
  PROVE  Round[p][k] = k
<1>1. Advance(p, k) = k
  BY DEF Still, Advance
<1>2. k.due = {} => Exchange(p, k) = k
  BY DEF Still, Exchange
<1>3. QED
  BY <1>1, <1>2, RoundType

\* The loop ends as soon as a round changes nothing.
LEMMA Settles ==
  ASSUME NEW p \in Peer, NEW k \in Key
  PROVE  /\ Still(p, k) => Rounds(p, k) = k
         /\ Still(p, Round[p][k]) => Rounds(p, k) = Round[p][k]
         /\ Still(p, Round[p][Round[p][k]]) => Rounds(p, k) = Round[p][Round[p][k]]
<1>1. Round[p][k] \in Key /\ Round[p][Round[p][k]] \in Key
  BY RoundType
<1>2. QED
  BY <1>1, StillRound DEF Rounds

\* A key whose unacknowledged packets are those of its state.
Sound(p, k) ==
  /\ k.st >= S_INITIAL /\ ~(p = Server /\ k.st = S_GOT_KEY)
  /\ k.st = S_INITIAL => k.unacked = {}
  /\ k.due \subseteq k.unacked
  /\ 0 \in k.unacked => k.st = S_PRE_START
  /\ 1 \in k.unacked => k.st >= S_SENT_KEY /\ k.st < S_ACTIVE

\* From S_INITIAL the loop sends the reset.
LEMMA RoundsInitial ==
  ASSUME NEW p \in Peer, NEW k \in Key, k.st = S_INITIAL
  PROVE  Rounds(p, k) = [k EXCEPT !.st = S_PRE_START, !.unacked = {0}, !.due = {0},
                                  !.wait = HandshakeWindow]
<1> DEFINE a == [k EXCEPT !.st = S_PRE_START, !.unacked = {0}, !.due = {0}, !.wait = HandshakeWindow]
<1>1. Advance(p, k) = a
  BY States DEF Advance
<1>2. a.due = {0} /\ a.unacked = {0} /\ a.st = S_PRE_START
  BY DEF Key
<1>3. Round[p][k] = a
  BY <1>1, <1>2, RoundType
<1>4. Still(p, a)
  BY <1>2, States DEF Still, FULL_SYNC
<1>5. QED
  BY <1>3, <1>4, Settles

\* In S_START, with the reset acknowledged, the client sends its key, the server
\* when it has the client's.
LEMMA RoundStart ==
  ASSUME NEW p \in Peer, NEW k \in Key, NEW a \in Key,
         a = [k EXCEPT !.st = S_START], a = Advance(p, k), k.unacked = {}, k.due = {}
  PROVE  \/ Rounds(p, k) = a
         \/ /\ Rounds(p, k) = [k EXCEPT !.st = S_SENT_KEY, !.unacked = {1}, !.due = {1}]
            /\ p = Server => {0, 1} \subseteq k.rec
<1>1. a.st = S_START /\ a.due = {} /\ a.unacked = {} /\ a.rec = k.rec
  BY DEF Key
<1>2. Round[p][k] = Exchange(p, a)
  BY <1>1, RoundType
<1> DEFINE b == [k EXCEPT !.st = S_SENT_KEY, !.unacked = {1}, !.due = {1}]
           g == [k EXCEPT !.st = S_GOT_KEY]
<1>3. b.st = S_SENT_KEY /\ b.unacked = {1} /\ b.due = {1}
  BY DEF Key
<1>4. Still(p, b)
  BY <1>3, States DEF Still, FULL_SYNC
<1>5. [a EXCEPT !.st = S_SENT_KEY, !.unacked = a.unacked \cup {1}, !.due = a.due \cup {1}] = b
  BY <1>1 DEF Key
<1>6. CASE p # Server
  <2>1. Exchange(p, a) = b
    BY <1>1, <1>5, <1>6, States DEF Exchange
  <2>2. QED
    BY <2>1, <1>2, <1>4, <1>6, Settles
<1>7. CASE p = Server /\ {0, 1} \subseteq k.rec
  <2>1. Exchange(p, a) = [a EXCEPT !.st = S_GOT_KEY]
    BY <1>1, <1>7, States DEF Exchange
  <2>2. [a EXCEPT !.st = S_GOT_KEY] = g
    BY DEF Key
  <2>3. g \in Key
    BY <1>2, <2>1, <2>2, RoundType
  <2>4. g.st = S_GOT_KEY /\ g.due = {} /\ g.unacked = {}
    BY DEF Key
  <2>5. Advance(p, g) = g
    BY <2>4, <1>7, States DEF Advance
  <2>6. [g EXCEPT !.st = S_SENT_KEY, !.unacked = g.unacked \cup {1}, !.due = g.due \cup {1}] = b
    BY <2>4 DEF Key
  <2>7. Exchange(p, g) = b
    BY <2>4, <2>6, <1>7, States DEF Exchange
  <2> HIDE DEF b, g
  <2>8. Round[p][g] = b
    BY <2>3, <2>4, <2>5, <2>7, RoundType
  <2>9. Rounds(p, k) = b
    BY <1>2, <2>1, <2>2, <2>8, <1>4, Settles
  <2>10. QED
    BY <2>9, <1>7 DEF b
<1>8. CASE p = Server /\ ~({0, 1} \subseteq k.rec)
  <2>1. Still(p, a)
    BY <1>1, <1>8, States DEF Still
  <2>2. Exchange(p, a) = a
    BY <1>1, <1>8, States DEF Exchange
  <2>3. QED
    BY <1>2, <2>1, <2>2, Settles
<1>9. QED
  BY <1>6, <1>7, <1>8

\* What waits for an acknowledgement is one of the two packets.
LEMMA NothingWaits ==
  ASSUME NEW p, NEW k \in Key, Sound(p, k)
  PROVE  /\ k.st = S_START => k.unacked = {} /\ k.due = {}
         /\ k.st >= S_ACTIVE => k.unacked = {} /\ k.due = {}
         /\ k.st >= S_SENT_KEY => k.unacked \subseteq {1}
<1>1. k.unacked \in SUBSET {0, 1} /\ k.st \in Int
  BY KeyFields, States
<1>2. QED
  BY <1>1, States DEF Sound

\* What the loop makes of a key: nothing, or the next state of the negotiation.
LEMMA RoundsIs ==
  ASSUME NEW p \in Peer, NEW k \in Key, Sound(p, k)
  PROVE  \/ Rounds(p, k) = k /\ k.st # S_INITIAL
         \/ /\ k.st = S_INITIAL
            /\ Rounds(p, k) = [k EXCEPT !.st = S_PRE_START, !.unacked = {0}, !.due = {0},
                                        !.wait = HandshakeWindow]
         \/ /\ k.st = S_PRE_START /\ FULL_SYNC(k)
            /\ Rounds(p, k) = [k EXCEPT !.st = S_START]
         \/ /\ k.st = S_START \/ (k.st = S_PRE_START /\ FULL_SYNC(k))
            /\ p = Server => {0, 1} \subseteq k.rec
            /\ Rounds(p, k) = [k EXCEPT !.st = S_SENT_KEY, !.unacked = {1}, !.due = {1}]
         \/ /\ p # Server /\ k.st = S_SENT_KEY /\ {0, 1} \subseteq k.rec
            /\ Rounds(p, k) = [k EXCEPT !.st = S_GOT_KEY]
         \/ /\ FULL_SYNC(k)
            /\ k.st >= S_SENT_KEY /\ k.st < S_ACTIVE
            /\ p # Server => k.st = S_GOT_KEY \/ {0, 1} \subseteq k.rec
            /\ Rounds(p, k) = [k EXCEPT !.st = S_ACTIVE]
<1>1. k.st \in S_ERROR..S_NORMAL_OP
  BY KeyFields
<1>2. CASE Still(p, k)
  BY <1>2, Settles DEF Still
<1>3. CASE k.st = S_INITIAL
  BY <1>3, RoundsInitial
<1>4. CASE k.st = S_PRE_START /\ FULL_SYNC(k)
  <2>1. Advance(p, k) = [k EXCEPT !.st = S_START]
    BY <1>4, States DEF Advance
  <2>2. k.unacked = {} /\ k.due = {}
    BY <1>4 DEF FULL_SYNC, Sound
  <2>3. Advance(p, k) \in Key
    BY AdvanceType
  <2>4. \/ Rounds(p, k) = [k EXCEPT !.st = S_START]
        \/ /\ Rounds(p, k) = [k EXCEPT !.st = S_SENT_KEY, !.unacked = {1}, !.due = {1}]
           /\ p = Server => {0, 1} \subseteq k.rec
    BY <2>1, <2>2, <2>3, RoundStart
  <2>5. QED
    BY <1>4, <2>4, Zenon
<1>5. CASE k.st = S_START
  <2>1. [k EXCEPT !.st = S_START] = k
    BY <1>5 DEF Key
  <2>2. Advance(p, k) = k
    BY <1>5, States DEF Advance
  <2>3. k.unacked = {} /\ k.due = {}
    BY <1>5, NothingWaits
  <2>4. \/ Rounds(p, k) = k
        \/ /\ Rounds(p, k) = [k EXCEPT !.st = S_SENT_KEY, !.unacked = {1}, !.due = {1}]
           /\ p = Server => {0, 1} \subseteq k.rec
    BY <2>1, <2>2, <2>3, RoundStart
  <2>5. k.st # S_INITIAL
    BY <1>5, States
  <2>6. CASE Rounds(p, k) = k
    BY <2>5, <2>6, Zenon
  <2>7. CASE Rounds(p, k) # k
    <3>1. p = Server => {0, 1} \subseteq k.rec
      BY <2>4, <2>7, Zenon
    <3>2. Rounds(p, k) = [k EXCEPT !.st = S_SENT_KEY, !.unacked = {1}, !.due = {1}]
      BY <2>4, <2>7, Zenon
    <3>3. k.st = S_START \/ (k.st = S_PRE_START /\ FULL_SYNC(k))
      BY <1>5
    <3>4. QED
      BY <3>1, <3>2, <3>3, Zenon
  <2>8. QED
    BY <2>6, <2>7, Zenon
<1>6. CASE p # Server /\ k.st = S_SENT_KEY /\ k.due = {} /\ {0, 1} \subseteq k.rec
  <2> DEFINE g == [k EXCEPT !.st = S_GOT_KEY]
  <2>1. Advance(p, k) = k
    BY <1>6, States DEF Advance
  <2>2. Exchange(p, k) = g
    BY <1>6, States DEF Exchange
  <2>3. g.st = S_GOT_KEY /\ g.due = {} /\ g.unacked = k.unacked /\ g.owe = k.owe
    BY <1>6 DEF Key
  <2>4. Round[p][k] = g /\ g \in Key
    BY <2>1, <2>2, <1>6, RoundType
  <2>5. CASE ~FULL_SYNC(k)
    <3>1. Still(p, g)
      BY <2>3, <2>5, <1>6, States DEF Still, FULL_SYNC
    <3>2. QED
      BY <3>1, <2>4, <1>6, Settles
  <2>6. CASE FULL_SYNC(k)
    <3> DEFINE a == [g EXCEPT !.st = S_ACTIVE]
    <3>1. Advance(p, g) = a
      BY <2>3, <2>6, <1>6, States DEF Advance, FULL_SYNC
    <3>2. a = [k EXCEPT !.st = S_ACTIVE] /\ a.st = S_ACTIVE /\ a.due = {}
      BY <1>6 DEF Key
    <3>3. a \in Key
      BY <3>1, <2>4, AdvanceType
    <3> HIDE DEF a
    <3>4. Exchange(p, a) = a
      BY <3>2, States DEF Exchange
    <3>5. Round[p][g] = a
      BY <3>1, <3>2, <3>4, <2>4, RoundType
    <3>6. Still(p, a)
      BY <3>2, States DEF Still
    <3>7. Rounds(p, k) = a
      BY <3>5, <3>6, <2>4, Settles
    <3>8. QED
      BY <3>7, <3>2, <2>6, <1>6, States
  <2>7. QED
    BY <2>5, <2>6
<1>7. CASE k.st = (IF p = Server THEN S_SENT_KEY ELSE S_GOT_KEY) /\ FULL_SYNC(k)
  <2> DEFINE a == [k EXCEPT !.st = S_ACTIVE]
  <2>1. Advance(p, k) = a
    BY <1>7, States DEF Advance
  <2>2. k.due = {}
    BY <1>7 DEF FULL_SYNC, Sound
  <2>3. a.st = S_ACTIVE /\ a.due = {}
    BY <2>2 DEF Key
  <2>4. a \in Key
    BY <2>1, AdvanceType
  <2> HIDE DEF a
  <2>5. Exchange(p, a) = a
    BY <2>3, States DEF Exchange
  <2>6. Round[p][k] = a
    BY <2>1, <2>3, <2>5, RoundType
  <2>7. Still(p, a)
    BY <2>3, States DEF Still
  <2>8. Rounds(p, k) = a
    BY <2>6, <2>7, Settles
  <2>9. QED
    BY <2>8, <1>7, States DEF a
<1>8. QED
  BY <1>1, <1>2, <1>3, <1>4, <1>5, <1>6, <1>7, States DEF Still, Sound

\* When the loop has nothing to do, the client has taken the server's key.
LEMMA NothingToDo ==
  ASSUME NEW p \in Peer, NEW k \in Key, Sound(p, k), Rounds(p, k) = k, k.due = {}
  PROVE  /\ k.st # S_INITIAL
         /\ k.st >= S_SENT_KEY /\ {0, 1} \subseteq k.rec => DECRYPT_KEY_ENABLED(p, k)
<1>1. k.st # S_INITIAL
  <2> SUFFICES ASSUME k.st = S_INITIAL PROVE FALSE
    OBVIOUS
  <2> DEFINE a == [k EXCEPT !.st = S_PRE_START, !.unacked = {0}, !.due = {0}, !.wait = HandshakeWindow]
  <2>1. a.st = S_PRE_START /\ k = a
    BY RoundsInitial DEF Key
  <2> HIDE DEF a
  <2>2. QED
    BY <2>1, States
<1>2. ASSUME p # Server, k.st = S_SENT_KEY, {0, 1} \subseteq k.rec PROVE FALSE
  <2> DEFINE g == [k EXCEPT !.st = S_GOT_KEY]
             a == [k EXCEPT !.st = S_ACTIVE]
  <2>1. ~Still(p, k)
    BY <1>2, States DEF Still
  <2>2. Advance(p, k) = k
    BY <1>2, States DEF Advance
  <2>3. Exchange(p, k) = g
    BY <1>2, States DEF Exchange
  <2>4. Round[p][k] = g /\ g \in Key
    BY <2>2, <2>3, RoundType
  <2>5. g.st = S_GOT_KEY /\ g.due = {}
    BY <1>2 DEF Key
  <2> HIDE DEF g
  <2>6. ASSUME NEW h \in Key, h.st \in {S_GOT_KEY, S_ACTIVE}
        PROVE  Round[p][h].st \in {S_GOT_KEY, S_ACTIVE} /\ Round[p][h] \in Key
    <3>1. Advance(p, h).st \in {S_GOT_KEY, S_ACTIVE} /\ Advance(p, h) \in Key
      <4>1. Advance(p, h) \in {h, [h EXCEPT !.st = S_ACTIVE]}
        BY <2>6, <1>2, States DEF Advance
      <4>2. [h EXCEPT !.st = S_ACTIVE].st = S_ACTIVE
        BY DEF Key
      <4>3. QED
        BY <4>1, <4>2, <2>6, AdvanceType
    <3>2. Exchange(p, Advance(p, h)) = Advance(p, h)
      BY <3>1, <1>2, States DEF Exchange
    <3>3. QED
      BY <3>1, <3>2, RoundType
  <2>7. Rounds(p, k) = Round[p][Round[p][Round[p][g]]]
    BY <2>4 DEF Rounds
  <2>8. Rounds(p, k).st \in {S_GOT_KEY, S_ACTIVE}
    BY <2>7, <2>6, <2>5, <2>4
  <2>9. QED
    BY <2>8, <1>2, States
<1>3. QED
  BY <1>1, <1>2, KeyFields, States DEF DECRYPT_KEY_ENABLED, Sound

\* The same field by field.
Grows(p, k, n) ==
  \/ n.st = k.st /\ k.st # S_INITIAL /\ n.unacked = k.unacked /\ n.due = k.due /\ n.wait = k.wait
  \/ /\ k.st = S_INITIAL /\ n.st = S_PRE_START /\ n.unacked = {0} /\ n.due = {0}
     /\ n.wait = HandshakeWindow
  \/ /\ k.st = S_PRE_START /\ FULL_SYNC(k)
     /\ n.st = S_START /\ n.unacked = k.unacked /\ n.due = k.due /\ n.wait = k.wait
  \/ /\ k.st = S_START \/ (k.st = S_PRE_START /\ FULL_SYNC(k))
     /\ p = Server => {0, 1} \subseteq k.rec
     /\ n.st = S_SENT_KEY /\ n.unacked = {1} /\ n.due = {1} /\ n.wait = k.wait
  \/ /\ p # Server /\ k.st = S_SENT_KEY /\ {0, 1} \subseteq k.rec
     /\ n.st = S_GOT_KEY /\ n.unacked = k.unacked /\ n.due = k.due /\ n.wait = k.wait
  \/ /\ FULL_SYNC(k) /\ k.st >= S_SENT_KEY /\ k.st < S_ACTIVE
     /\ p # Server => k.st = S_GOT_KEY \/ {0, 1} \subseteq k.rec
     /\ n.st = S_ACTIVE /\ n.unacked = k.unacked /\ n.due = k.due /\ n.wait = k.wait

\* What the loop makes of the fields of a key.
LEMMA RoundsGrow ==
  ASSUME NEW p \in Peer, NEW k \in Key, Sound(p, k)
  PROVE  LET n == Rounds(p, k) IN
           n \in Key /\ n.gen = k.gen /\ n.rec = k.rec /\ n.owe = k.owe /\ Grows(p, k, n)
<1> DEFINE n == Rounds(p, k)
<1>1. n \in Key
  BY RoundsType
<1> HIDE DEF n
<1>2. CASE n = k /\ k.st # S_INITIAL
  BY <1>1, <1>2 DEF Grows, n
<1>3. CASE /\ k.st = S_INITIAL
           /\ n = [k EXCEPT !.st = S_PRE_START, !.unacked = {0}, !.due = {0}, !.wait = HandshakeWindow]
  <2>1. /\ n.gen = k.gen /\ n.rec = k.rec /\ n.owe = k.owe /\ n.st = S_PRE_START
        /\ n.unacked = {0} /\ n.due = {0} /\ n.wait = HandshakeWindow
    BY <1>3 DEF Key
  <2>2. QED
    BY <1>1, <1>3, <2>1 DEF Grows, n
<1>4. CASE k.st = S_PRE_START /\ FULL_SYNC(k) /\ n = [k EXCEPT !.st = S_START]
  <2>1. /\ n.gen = k.gen /\ n.rec = k.rec /\ n.owe = k.owe /\ n.st = S_START
        /\ n.unacked = k.unacked /\ n.due = k.due /\ n.wait = k.wait
    BY <1>4 DEF Key
  <2>2. QED
    BY <1>1, <1>4, <2>1 DEF Grows, n
<1>5. CASE /\ k.st = S_START \/ (k.st = S_PRE_START /\ FULL_SYNC(k))
           /\ p = Server => {0, 1} \subseteq k.rec
           /\ n = [k EXCEPT !.st = S_SENT_KEY, !.unacked = {1}, !.due = {1}]
  <2>1. /\ n.gen = k.gen /\ n.rec = k.rec /\ n.owe = k.owe /\ n.st = S_SENT_KEY
        /\ n.unacked = {1} /\ n.due = {1} /\ n.wait = k.wait
    BY <1>5 DEF Key
  <2>2. QED
    BY <1>1, <1>5, <2>1 DEF Grows, n
<1>6. CASE /\ p # Server /\ k.st = S_SENT_KEY /\ {0, 1} \subseteq k.rec
           /\ n = [k EXCEPT !.st = S_GOT_KEY]
  <2>1. /\ n.gen = k.gen /\ n.rec = k.rec /\ n.owe = k.owe /\ n.st = S_GOT_KEY
        /\ n.unacked = k.unacked /\ n.due = k.due /\ n.wait = k.wait
    BY <1>6 DEF Key
  <2>2. QED
    BY <1>1, <1>6, <2>1 DEF Grows, n
<1>7. CASE /\ FULL_SYNC(k) /\ k.st >= S_SENT_KEY /\ k.st < S_ACTIVE
           /\ p # Server => k.st = S_GOT_KEY \/ {0, 1} \subseteq k.rec
           /\ n = [k EXCEPT !.st = S_ACTIVE]
  <2>1. /\ n.gen = k.gen /\ n.rec = k.rec /\ n.owe = k.owe /\ n.st = S_ACTIVE
        /\ n.unacked = k.unacked /\ n.due = k.due /\ n.wait = k.wait
    BY <1>7 DEF Key
  <2>2. QED
    BY <1>1, <1>7, <2>1 DEF Grows, n
<1>8. QED
  BY <1>2, <1>3, <1>4, <1>5, <1>6, <1>7, RoundsIs, Zenon DEF n

-----------------------------------------------------------------------------
(***************************************************************************)
(* A call of tls_process and one side                                      *)
(***************************************************************************)
\* What Output does to the key: packets and acknowledgements have gone out.
Emits(n, e) ==
  /\ e.gen = n.gen /\ e.st = n.st /\ e.unacked = n.unacked /\ e.rec = n.rec /\ e.wait = n.wait
  /\ e.due \subseteq n.due /\ e.owe \subseteq n.owe

\* The key of a sound side is sound.
LEMMA OwnSound ==
  ASSUME NEW p, NEW s, Own(p, s)
  PROVE  Sound(p, s.prim)
BY DEF Own, Sound

\* Negotiation by itself keeps a side in order.
LEMMA GrowsOwn ==
  ASSUME NEW p \in Peer, NEW s \in Session, Own(p, s), NEW n \in Key, NEW e \in Key,
         NEW t \in Session,
         s.age < HandshakeWindow \/ s.prim.st \in {S_INITIAL, S_NORMAL_OP},
         n.gen = s.prim.gen, n.rec = s.prim.rec, n.owe = s.prim.owe, Grows(p, s.prim, n), Emits(n, e),
         t.prim = e, t.age = s.age,
         t.lame = s.lame \/ (s.age >= TransitionWindow /\ t.lame = Freed)
  PROVE  Own(p, t)
<1> DEFINE k == s.prim
<1>1. /\ k \in Key /\ k.st \in -1..7 /\ n.st \in -1..7 /\ s.age \in 0..TransitionWindow
      /\ k.wait \in 0..HandshakeWindow /\ k.unacked \subseteq {0, 1} /\ k.due \subseteq {0, 1}
      /\ k.rec \subseteq {0, 1}
  BY SessionFields, KeyFields, States
<1>2. HandshakeWindow \in Nat \ {0} /\ TransitionWindow \in Nat
  BY Sizes
<1>3. /\ k.st >= S_INITIAL /\ ~(p = Server /\ k.st = S_GOT_KEY)
      /\ k.st = S_INITIAL => s.age = 0 /\ k.unacked = {}
      /\ k.due \subseteq k.unacked /\ k.owe \subseteq k.rec
      /\ 0 \in k.unacked => k.st = S_PRE_START
      /\ 1 \in k.unacked => k.st >= S_SENT_KEY /\ k.st < S_ACTIVE
      /\ DECRYPT_KEY_ENABLED(p, k) => k.rec = {0, 1}
      /\ k.st >= S_PRE_START => k.wait = IF s.age < HandshakeWindow THEN HandshakeWindow - s.age ELSE 0
      /\ s.age > HandshakeWindow => k.st = S_NORMAL_OP
      /\ s.lame.st >= S_ACTIVE => s.lame.gen + 1 = k.gen /\ s.lame.wait = 0
      /\ s.age < TransitionWindow => s.lame.st >= S_ACTIVE
  BY DEF Own
<1>4. /\ n.st >= S_INITIAL /\ ~(p = Server /\ n.st = S_GOT_KEY) /\ n.st # S_INITIAL
      /\ n.due \subseteq n.unacked
      /\ 0 \in n.unacked => n.st = S_PRE_START
      /\ 1 \in n.unacked => n.st >= S_SENT_KEY /\ n.st < S_ACTIVE
  BY <1>1, <1>3, States DEF Grows, FULL_SYNC
<1>5. DECRYPT_KEY_ENABLED(p, n) => n.rec = {0, 1}
  BY <1>1, <1>3, States DEF Grows, FULL_SYNC, DECRYPT_KEY_ENABLED
<1>6. n.wait = IF s.age < HandshakeWindow THEN HandshakeWindow - s.age ELSE 0
  BY <1>1, <1>2, <1>3, States DEF Grows
<1>7. s.age > HandshakeWindow => n.st = S_NORMAL_OP
  BY <1>1, <1>2, <1>3, States DEF Grows
<1>8. /\ t.lame.st >= S_ACTIVE => t.lame.gen + 1 = n.gen /\ t.lame.wait = 0
      /\ s.age < TransitionWindow => t.lame.st >= S_ACTIVE
  <2>1. ~(Freed.st >= S_ACTIVE)
    BY States DEF Freed, key_state_init
  <2>2. QED
    BY <1>1, <1>2, <1>3, <2>1
<1>9. /\ t.prim.st = n.st /\ t.prim.unacked = n.unacked /\ t.prim.rec = n.rec /\ t.prim.wait = n.wait
      /\ t.prim.gen = n.gen /\ t.prim.due \subseteq n.due /\ t.prim.owe \subseteq n.owe
  BY DEF Emits
<1>10. DECRYPT_KEY_ENABLED(p, t.prim) => t.prim.rec = {0, 1}
  BY <1>5, <1>9 DEF DECRYPT_KEY_ENABLED
<1>11. t.prim.owe \subseteq t.prim.rec
  BY <1>3, <1>9
<1>12. QED
  BY <1>4, <1>6, <1>7, <1>8, <1>9, <1>10, <1>11 DEF Own

-----------------------------------------------------------------------------
(***************************************************************************)
(* The packets between two sides at the same key                           *)
(***************************************************************************)
\* The sender's key goes on, and what was not known to have arrived has arrived.
LEMMA FitsSender ==
  ASSUME NEW k \in Key, NEW l \in Key, NEW e \in Key, NEW w \in Seq(Packet), Fits(k, l, w),
         e.gen = k.gen, k.rec \subseteq e.rec, k.st >= S_SENT_KEY => e.st >= S_SENT_KEY,
         e.st >= S_PRE_START /\ 0 \notin e.unacked => 0 \in l.rec,
         e.st >= S_SENT_KEY /\ 1 \notin e.unacked => 1 \in l.rec
  PROVE  Fits(e, l, w)
<1>1. InFlight(e, w)
  BY DEF Fits, InFlight
<1>2. QED
  BY <1>1 DEF Fits

\* The negotiation of the sender.
LEMMA FitsGrows ==
  ASSUME NEW p \in Peer, NEW k \in Key, NEW l \in Key, NEW n \in Key, NEW e \in Key,
         NEW w \in Seq(Packet), Fits(k, l, w), Sound(p, k),
         n.gen = k.gen, n.rec = k.rec, Grows(p, k, n), Emits(n, e)
  PROVE  Fits(e, l, w)
<1>1. k.st \in -1..7 /\ k.unacked \subseteq {0, 1}
  BY KeyFields, States
<1>2. e.gen = k.gen /\ e.rec = k.rec /\ e.st = n.st /\ e.unacked = n.unacked
  BY DEF Emits
<1>3. k.st >= S_SENT_KEY => e.st >= S_SENT_KEY
  BY <1>1, <1>2, States DEF Grows
<1>4. e.st >= S_PRE_START /\ 0 \notin e.unacked => k.st >= S_PRE_START /\ 0 \notin k.unacked
  BY <1>1, <1>2, States DEF Grows, FULL_SYNC, Sound
<1>5. e.st >= S_SENT_KEY /\ 1 \notin e.unacked => k.st >= S_SENT_KEY /\ 1 \notin k.unacked
  BY <1>1, <1>2, States DEF Grows, FULL_SYNC, Sound
<1>6. QED
  BY <1>2, <1>3, <1>4, <1>5, FitsSender DEF Fits

\* A packet of the present key is sent; a reset only before the key material.
LEMMA FitsAppend ==
  ASSUME NEW k \in Key, NEW l \in Key, NEW w \in Seq(Packet), Fits(k, l, w), NEW m \in Packet,
         Shaped(m), m.id = KeyId(k.gen), m.acks \subseteq k.rec,
         m.op = "CONTROL" => k.st >= S_SENT_KEY, m.op = "SOFT_RESET" => ~(k.st >= S_SENT_KEY)
  PROVE  Fits(k, l, Append(w, m))
<1> DEFINE v == Append(w, m)
           id == KeyId(k.gen)
<1>1. /\ Len(v) = Len(w) + 1 /\ Len(w) \in Nat /\ v[Len(w) + 1] = m
      /\ \A i \in 1..Len(w) : v[i] = w[i]
      /\ \A i \in 1..Len(v) : i \in 1..Len(w) \/ i = Len(w) + 1
  OBVIOUS
<1>2. /\ \A i \in 1..Len(w) : /\ Shaped(w[i]) /\ (w[i].op = "SOFT_RESET" => w[i].id = id)
                              /\ w[i].id = id => w[i].acks \subseteq k.rec
                              /\ w[i].id = id /\ w[i].op = "CONTROL" => k.st >= S_SENT_KEY
      /\ \A i, j \in 1..Len(w) : i < j /\ w[i].id = id => w[j].id = id
      /\ \A i, j \in 1..Len(w) : i < j /\ w[i].id = id /\ w[i].op = "CONTROL" => w[j].op # "SOFT_RESET"
  BY DEF Fits, InFlight
<1> HIDE DEF v
<1>3. \A i \in 1..Len(v) : /\ Shaped(v[i]) /\ (v[i].op = "SOFT_RESET" => v[i].id = id)
                           /\ v[i].id = id => v[i].acks \subseteq k.rec
                           /\ v[i].id = id /\ v[i].op = "CONTROL" => k.st >= S_SENT_KEY
  BY <1>1, <1>2
<1>4. \A i, j \in 1..Len(v) : i < j => i \in 1..Len(w) /\ (j \in 1..Len(w) \/ v[j] = m)
  BY <1>1
<1>5. \A i, j \in 1..Len(v) : i < j /\ v[i].id = id => v[j].id = id
  BY <1>1, <1>2, <1>4
<1>6. \A i, j \in 1..Len(v) : i < j /\ v[i].id = id /\ v[i].op = "CONTROL" => v[j].op # "SOFT_RESET"
  BY <1>1, <1>2, <1>4
<1>7. InFlight(k, v)
  BY <1>3, <1>5, <1>6 DEF InFlight
<1>8. l.rec # {} => \A i \in 1..Len(v) : v[i].id = id
  BY <1>1 DEF Fits
<1>9. 1 \in l.rec => k.st >= S_SENT_KEY /\ \A i \in 1..Len(v) : v[i].op # "SOFT_RESET"
  BY <1>1 DEF Fits
<1>10. Fits(k, l, v)
  BY <1>7, <1>8, <1>9 DEF Fits
<1>11. QED
  BY <1>10 DEF v

\* Tails.
LEMMA TailOf ==
  ASSUME NEW w \in Seq(Packet), w # <<>>
  PROVE  /\ Tail(w) \in Seq(Packet) /\ Len(Tail(w)) = Len(w) - 1 /\ Len(w) \in Nat \ {0}
         /\ \A i \in 1..Len(Tail(w)) : Tail(w)[i] = w[i + 1] /\ i + 1 \in 1..Len(w)
         /\ 1 \in 1..Len(w) /\ w[1] \in Packet
OBVIOUS

\* The first packet has gone, lost or read.
LEMMA FitsTail ==
  ASSUME NEW k \in Key, NEW l \in Key, NEW w \in Seq(Packet), w # <<>>, Fits(k, l, w)
  PROVE  Fits(k, l, Tail(w))
<1> DEFINE v == Tail(w)
<1>1. /\ Len(v) = Len(w) - 1 /\ Len(w) \in Nat
      /\ \A i \in 1..Len(v) : v[i] = w[i + 1] /\ i + 1 \in 1..Len(w)
  BY TailOf
<1>2. \A i, j \in 1..Len(v) : i < j => i + 1 < j + 1
  BY <1>1
<1> HIDE DEF v
<1>3. InFlight(k, v)
  BY <1>1, <1>2 DEF Fits, InFlight
<1>4. Fits(k, l, v)
  BY <1>1, <1>3 DEF Fits
<1>5. QED
  BY <1>4 DEF v

\* The first packet has been read into the receive buffer.
LEMMA FitsRead ==
  ASSUME NEW k \in Key, NEW l \in Key, NEW e \in Key, NEW w \in Seq(Packet), w # <<>>, Fits(k, l, w),
         w[1].id = KeyId(k.gen),
         e.rec = IF w[1].op = "ACK" THEN l.rec ELSE l.rec \cup {w[1].n}
  PROVE  Fits(k, e, Tail(w))
<1> DEFINE v == Tail(w)
           id == KeyId(k.gen)
<1>1. /\ Len(v) = Len(w) - 1 /\ Len(w) \in Nat /\ 1 \in 1..Len(w) /\ w[1] \in Packet
      /\ \A i \in 1..Len(v) : v[i] = w[i + 1] /\ i + 1 \in 1..Len(w) /\ 1 < i + 1
  BY TailOf
<1>2. Fits(k, l, v)
  BY FitsTail
<1> HIDE DEF v
<1>3. \A i \in 1..Len(v) : v[i].id = id
  BY <1>1 DEF Fits, InFlight
<1>4. 1 \in e.rec => k.st >= S_SENT_KEY /\ \A i \in 1..Len(v) : v[i].op # "SOFT_RESET"
  <2> SUFFICES ASSUME 1 \in e.rec PROVE k.st >= S_SENT_KEY /\ \A i \in 1..Len(v) : v[i].op # "SOFT_RESET"
    OBVIOUS
  <2>1. CASE 1 \in l.rec
    BY <2>1, <1>2 DEF Fits
  <2>2. CASE 1 \notin l.rec
    <3>1. w[1].op # "ACK" /\ w[1].n = 1
      BY <2>2
    <3>2. w[1].op = "CONTROL"
      BY <3>1, <1>1 DEF Fits, InFlight, Shaped, Packet
    <3>3. QED
      BY <3>2, <1>1 DEF Fits, InFlight
  <2>3. QED
    BY <2>1, <2>2
<1>5. l.rec \subseteq e.rec
  OBVIOUS
<1>6. Fits(k, e, v)
  BY <1>2, <1>3, <1>4, <1>5 DEF Fits
<1>7. QED
  BY <1>6 DEF v

-----------------------------------------------------------------------------
(***************************************************************************)
(* Steps of the two sides                                                  *)
(***************************************************************************)
\* The three situations, seen from p.
LEMMA AgreeCases ==
  ASSUME Agree, NEW p \in Peer
  PROVE  LET q == Other(p) IN
           /\ Own(p, ses[p]) /\ Own(q, ses[q])
           /\ \/ Even(p, ses[p], ses[q], wire[q]) /\ Even(q, ses[q], ses[p], wire[p])
              \/ Leads(ses[p], ses[q], wire[q], wire[p])
              \/ Leads(ses[q], ses[p], wire[p], wire[q])
<1> DEFINE q == Other(p)
<1>1. q \in Peer /\ Other(q) = p /\ \A r \in Peer : r = p \/ r = q
  BY Others
<1>2. Own(p, ses[p]) /\ Own(q, ses[q])
  BY <1>1 DEF Agree
<1>3. CASE \A r \in Peer : Even(r, ses[r], ses[Other(r)], wire[Other(r)])
  <2>1. Even(p, ses[p], ses[q], wire[q])
    BY <1>3
  <2>2. Even(q, ses[q], ses[p], wire[p])
    BY <1>1, <1>3
  <2>3. QED
    BY <1>2, <2>1, <2>2
<1>4. ASSUME NEW r \in Peer, Leads(ses[r], ses[Other(r)], wire[Other(r)], wire[r])
      PROVE  \/ Leads(ses[p], ses[q], wire[q], wire[p])
             \/ Leads(ses[q], ses[p], wire[p], wire[q])
  BY <1>1, <1>4
<1>5. QED
  BY <1>2, <1>3, <1>4 DEF Agree

\* After a step that leaves both at the same key.
LEMMA AgreeEven ==
  ASSUME NEW p \in Peer, Own(p, ses'[p]), Own(Other(p), ses'[Other(p)]),
         Even(p, ses'[p], ses'[Other(p)], wire'[Other(p)]),
         Even(Other(p), ses'[Other(p)], ses'[p], wire'[p])
  PROVE  Agree'
<1>1. Other(p) \in Peer /\ Other(Other(p)) = p /\ \A r \in Peer : r = p \/ r = Other(p)
  BY Others
<1>2. \A r \in Peer : Own(r, ses'[r])
  BY <1>1
<1>3. \A r \in Peer : Even(r, ses'[r], ses'[Other(r)], wire'[Other(r)])
  BY <1>1
<1>4. QED
  BY <1>2, <1>3 DEF Agree

\* After a step that leaves p ahead.
LEMMA AgreeLeads ==
  ASSUME NEW p \in Peer, Own(p, ses'[p]), Own(Other(p), ses'[Other(p)]),
         Leads(ses'[p], ses'[Other(p)], wire'[Other(p)], wire'[p])
  PROVE  Agree'
<1>1. Other(p) \in Peer /\ \A r \in Peer : r = p \/ r = Other(p)
  BY Others
<1>2. \A r \in Peer : Own(r, ses'[r])
  BY <1>1
<1>3. QED
  BY <1>2 DEF Agree

\* A sound key stays sound.
LEMMA GrowsSound ==
  ASSUME NEW p \in Peer, NEW k \in Key, Sound(p, k), NEW n \in Key, Grows(p, k, n)
  PROVE  Sound(p, n) /\ (DECRYPT_KEY_ENABLED(p, k) => DECRYPT_KEY_ENABLED(p, n))
<1>1. k.st \in -1..7 /\ n.st \in -1..7 /\ k.unacked \subseteq {0, 1} /\ k.due \subseteq {0, 1}
  BY KeyFields, States
<1>2. Sound(p, n)
  BY <1>1, States DEF Grows, FULL_SYNC, Sound
<1>3. DECRYPT_KEY_ENABLED(p, k) => DECRYPT_KEY_ENABLED(p, n)
  BY <1>1, States DEF Grows, DECRYPT_KEY_ENABLED, Sound
<1>4. QED
  BY <1>2, <1>3

\* What goes out: the reset first, then the key material, else acknowledgements.
Sends(p, n, m) ==
  /\ Transmit(p, m) /\ Shaped(m) /\ m.id = KeyId(n.gen) /\ m.acks = n.owe
  /\ m.op = "SOFT_RESET" => 0 \in n.due
  /\ m.op = "CONTROL" => 1 \in n.due
  /\ n.due # {} => m.op # "ACK"

LEMMA OutputIs ==
  ASSUME NEW p \in Peer, NEW b \in Session, NEW n \in Key, Output(p, b, n)
  PROVE  \E e \in Key :
           /\ Emits(n, e) /\ ses' = [ses EXCEPT ![p] = [b EXCEPT !.prim = e]]
           /\ \/ UNCHANGED wire /\ n.due = {} /\ n.owe = {} /\ e = n
              \/ \E m \in Packet : Sends(p, n, m)
           /\ n.due = {0} => e.due = {} /\ e.owe = {}
<1>1. n.due \in SUBSET {0, 1} /\ n.owe \in SUBSET {0, 1} /\ {} \in SUBSET {0, 1}
  BY KeyFields
<1>2. CASE n.due # {}
  <2> DEFINE x == IF 0 \in n.due THEN 0 ELSE 1
             e == [n EXCEPT !.due = n.due \ {x}, !.owe = {}]
             m == Control(n, x, n.owe)
  <2>1. x \in n.due /\ x \in {0, 1} /\ n.due \ {x} \in SUBSET {0, 1}
    BY <1>1, <1>2
  <2>2. ses' = [ses EXCEPT ![p] = [b EXCEPT !.prim = e]] /\ Transmit(p, m)
    BY <1>2 DEF Output
  <2>3. e \in Key
    BY <1>1, <2>1 DEF Key
  <2>4. Emits(n, e) /\ e.due = n.due \ {x} /\ e.owe = {}
    BY DEF Emits, Key
  <2>5. m \in Packet
    BY <1>1, <2>1, PacketType
  <2>6. /\ m.id = KeyId(n.gen) /\ m.acks = n.owe /\ m.n = x
        /\ m.op = IF x = 0 THEN "SOFT_RESET" ELSE "CONTROL"
    BY DEF Control
  <2>7. Sends(p, n, m)
    BY <2>1, <2>2, <2>6 DEF Sends, Shaped
  <2>8. n.due = {0} => e.due = {} /\ e.owe = {}
    BY <2>1, <2>4
  <2> HIDE DEF e, m
  <2>9. QED
    BY <2>2, <2>3, <2>4, <2>5, <2>7, <2>8
<1>3. CASE n.due = {} /\ n.owe # {}
  <2> DEFINE e == [n EXCEPT !.owe = {}]
             m == [op |-> "ACK", id |-> KeyId(n.gen), n |-> 0, acks |-> n.owe]
  <2>1. ses' = [ses EXCEPT ![p] = [b EXCEPT !.prim = e]] /\ Transmit(p, m)
    BY <1>3 DEF Output
  <2>2. e \in Key
    BY <1>1 DEF Key
  <2>3. Emits(n, e)
    BY <1>3 DEF Emits, Key
  <2>4. m \in Packet
    BY <1>1, PacketType
  <2>5. m.id = KeyId(n.gen) /\ m.acks = n.owe /\ m.op = "ACK"
    OBVIOUS
  <2>6. Sends(p, n, m)
    BY <1>3, <2>1, <2>5 DEF Sends, Shaped
  <2> HIDE DEF e, m
  <2>7. QED
    BY <1>3, <2>1, <2>2, <2>3, <2>4, <2>6
<1>4. CASE n.due = {} /\ n.owe = {}
  <2>1. ses' = [ses EXCEPT ![p] = [b EXCEPT !.prim = n]] /\ UNCHANGED wire
    BY <1>4 DEF Output
  <2>2. Emits(n, n)
    BY DEF Emits
  <2>3. QED
    BY <1>4, <2>1, <2>2
<1>5. QED
  BY <1>2, <1>3, <1>4

\* The numbers that Timely relates.
LEMMA TimelySizes ==
  ASSUME Timely
  PROVE  /\ HandshakeWindow \in Nat \ {0} /\ TransitionWindow \in Nat /\ RenegotiateAfter \in Nat
         /\ 2 * HandshakeWindow <= RenegotiateAfter /\ RenegotiateAfter <= TransitionWindow
         /\ HandshakeWindow < TransitionWindow
BY Sizes DEF Timely

\* The numbers of a session.
LEMMA SessionNumbers ==
  ASSUME NEW s \in Session
  PROVE  /\ s.prim \in Key /\ s.lame \in Key /\ s.age \in Nat /\ s.age <= TransitionWindow
         /\ s.prim.st \in Int /\ s.prim.st >= -1 /\ s.prim.st <= 7 /\ s.lame.st \in Int
         /\ s.prim.gen \in Nat /\ s.lame.gen \in Nat /\ s.prim.wait \in Nat /\ s.lame.wait \in Nat
BY SessionFields, KeyFields, States, Sizes

\* One side acts, with session t afterwards, and the packets to the other are v.
LEMMA EvenSide ==
  ASSUME Types, Types', NEW p \in Peer, NEW q \in Peer, q = Other(p), NEW t \in Session,
         NEW v \in Seq(Packet),
         ses' = [ses EXCEPT ![p] = t], wire' = [wire EXCEPT ![q] = v],
         Own(p, t), Own(q, ses[q]),
         Even(q, ses[q], ses[p], wire[p]),
         t.prim.gen = ses[p].prim.gen, t.prim.rec = ses[p].prim.rec, t.age = ses[p].age,
         DECRYPT_KEY_ENABLED(p, ses[p].prim) => DECRYPT_KEY_ENABLED(p, t.prim),
         Even(p, t, ses[q], v)
  PROVE  Agree'
<1>1. q # p /\ Other(q) = p
  BY Others
<1>2. /\ ses'[p] = t /\ ses'[q] = ses[q] /\ wire'[q] = v /\ wire'[p] = wire[p]
  BY <1>1 DEF Types
<1>3. Fits(ses[q].prim, t.prim, wire[p])
  BY DEF Even, Fits
<1>4. Even(q, ses[q], t, wire[p])
  BY <1>1, <1>3 DEF Even
<1>5. QED
  BY <1>1, <1>2, <1>4, AgreeEven

\* The handshake window has passed.
LEMMA TimedOutStep ==
  ASSUME Types, Types', Timely, Agree, NEW p \in Peer,
         ses[p].age >= HandshakeWindow, ses[p].prim.st \notin {S_INITIAL, S_NORMAL_OP},
         ses' = [ses EXCEPT ![p] = TimedOut(Buried(ses[p]))], UNCHANGED wire
  PROVE  Failed' \/ Agree'
<1> DEFINE q == Other(p)
           s == ses[p]
           k == ses[p].prim
           b == Buried(ses[p])
           t == TimedOut(Buried(ses[p]))
<1>1. q \in Peer /\ q # p /\ Other(q) = p
  BY Others
<1>2. s \in Session /\ b \in Session /\ t \in Session /\ ses[q] \in Session
  BY <1>1, BuriedType, TimedOutType DEF Types
<1>3. k \in Key /\ k.st \in Int /\ s.age \in Nat /\ s.lame \in Key /\ k.st <= 7
  BY <1>2, SessionNumbers
<1>4. b.prim = k /\ b.age = s.age /\ (b.lame = s.lame \/ (s.age >= TransitionWindow /\ b.lame = Freed))
  BY <1>2 DEF Buried, Session
<1>5. ses'[p] = t
  BY DEF Types
<1>6. CASE ~(k.st >= S_ACTIVE)
  <2>1. t.prim = [Freed EXCEPT !.gen = k.gen, !.st = S_ERROR]
    BY <1>2, <1>4, <1>6 DEF TimedOut, Session
  <2>2. t.prim.st = S_ERROR
    BY <2>1, NewKeys DEF Key
  <2>3. QED
    BY <1>5, <2>2 DEF Failed
<1>7. CASE k.st >= S_ACTIVE
  <2> DEFINE e == [k EXCEPT !.st = S_NORMAL_OP]
  <2>1. t.prim = e /\ t.lame = b.lame /\ t.age = s.age
    BY <1>2, <1>4, <1>7 DEF TimedOut, Session
  <2>2. /\ e.st = S_NORMAL_OP /\ e.gen = k.gen /\ e.unacked = k.unacked /\ e.due = k.due
        /\ e.rec = k.rec /\ e.owe = k.owe /\ e.wait = k.wait
    BY <1>3 DEF Key
  <2>3. e \in Key
    BY <1>2, <2>1, SessionFields
  <2> HIDE DEF e
  <2>4. /\ Own(p, s) /\ Own(q, ses[q])
        /\ \/ Even(p, s, ses[q], wire[q]) /\ Even(q, ses[q], s, wire[p])
           \/ Leads(s, ses[q], wire[q], wire[p])
           \/ Leads(ses[q], s, wire[p], wire[q])
    BY AgreeCases
  <2>5. Sound(p, k)
    BY <2>4, OwnSound
  <2>6. k.unacked = {} /\ k.due = {}
    BY <1>3, <1>7, <2>5, NothingWaits
  <2>7. DECRYPT_KEY_ENABLED(p, k) /\ k.rec = {0, 1}
    BY <1>3, <1>7, <2>4, States DEF Own, DECRYPT_KEY_ENABLED
  <2>8. DECRYPT_KEY_ENABLED(p, e)
    BY <2>2, States DEF DECRYPT_KEY_ENABLED
  <2>9. ~(Freed.st >= S_ACTIVE)
    BY States DEF Freed, key_state_init
  <2>10. k.wait = IF s.age < HandshakeWindow THEN HandshakeWindow - s.age ELSE 0
    BY <1>3, <1>7, <2>4, States DEF Own
  <2>11. /\ t.lame.st >= S_ACTIVE => t.lame.gen + 1 = e.gen /\ t.lame.wait = 0
         /\ t.age < TransitionWindow => t.lame.st >= S_ACTIVE
    <3>1. /\ s.lame.st >= S_ACTIVE => s.lame.gen + 1 = k.gen /\ s.lame.wait = 0
          /\ s.age < TransitionWindow => s.lame.st >= S_ACTIVE
      BY <2>4 DEF Own
    <3>2. QED
      BY <1>3, <1>4, <2>1, <2>2, <2>9, <3>1, Sizes
  <2>12. k.owe \subseteq k.rec
    BY <2>4 DEF Own
  <2>13. Own(p, t)
    BY <2>1, <2>2, <2>6, <2>7, <2>10, <2>11, <2>12, States DEF Own
  <2>14. CASE Even(p, s, ses[q], wire[q]) /\ Even(q, ses[q], s, wire[p])
    <3>1. wire[q] \in Seq(Packet) /\ ses[q].prim \in Key
      BY <1>1, <1>2, SessionFields DEF Types
    <3>2. Fits(k, ses[q].prim, wire[q])
      BY <2>14 DEF Even
    <3>3. Fits(e, ses[q].prim, wire[q])
      <4>1. k.st >= S_PRE_START /\ k.st >= S_SENT_KEY /\ e.st >= S_SENT_KEY
        BY <1>3, <1>7, <2>2, States
      <4>2. 0 \in ses[q].prim.rec /\ 1 \in ses[q].prim.rec
        BY <4>1, <3>2, <2>6 DEF Fits
      <4>3. QED
        BY <1>3, <2>2, <2>3, <3>1, <3>2, <4>1, <4>2, FitsSender
    <3>4. Even(p, t, ses[q], wire[q])
      BY <2>1, <2>2, <2>14, <1>3, <1>7, <3>3, States DEF Even
    <3>5. wire' = [wire EXCEPT ![q] = wire[q]]
      BY DEF Types
    <3>6. QED
      BY <1>1, <1>2, <2>1, <2>2, <2>4, <2>8, <2>13, <2>14, <3>1, <3>4, <3>5, EvenSide
  <2>15. CASE Leads(s, ses[q], wire[q], wire[p])
    BY <2>15, <1>3, <1>7, States DEF Leads
  <2>16. CASE Leads(ses[q], s, wire[p], wire[q])
    BY <2>16, <1>3, <2>4 DEF Leads, Own
  <2>17. QED
    BY <2>4, <2>14, <2>15, <2>16
<1>8. QED
  BY <1>6, <1>7

\* The negotiation goes on.
LEMMA GrowStep ==
  ASSUME Types, Types', Timely, Agree, NEW p \in Peer,
         ses[p].age < HandshakeWindow \/ ses[p].prim.st \in {S_INITIAL, S_NORMAL_OP},
         Output(p, Buried(ses[p]), Rounds(p, ses[p].prim))
  PROVE  Agree'
<1> DEFINE q == Other(p)
           s == ses[p]
           k == ses[p].prim
           u == ses[q]
           b == Buried(ses[p])
           n == Rounds(p, k)
<1>1. q \in Peer /\ q # p /\ Other(q) = p
  BY Others
<1>2. s \in Session /\ b \in Session /\ u \in Session /\ wire[q] \in Seq(Packet) /\ wire[p] \in Seq(Packet)
  BY <1>1, BuriedType DEF Types
<1>3. k \in Key /\ u.prim \in Key
  BY <1>2, SessionFields
<1>4. /\ Own(p, s) /\ Own(q, u)
      /\ \/ Even(p, s, u, wire[q]) /\ Even(q, u, s, wire[p])
         \/ Leads(s, u, wire[q], wire[p])
         \/ Leads(u, s, wire[p], wire[q])
  BY AgreeCases
<1>5. Sound(p, k)
  BY <1>4, OwnSound
<1>6. n \in Key /\ n.gen = k.gen /\ n.rec = k.rec /\ n.owe = k.owe /\ Grows(p, k, n)
  BY <1>3, <1>5, RoundsGrow
<1>7. Sound(p, n) /\ (DECRYPT_KEY_ENABLED(p, k) => DECRYPT_KEY_ENABLED(p, n))
  BY <1>3, <1>5, <1>6, GrowsSound
<1> HIDE DEF n
<1>8. Output(p, b, n)
  BY DEF n
<1>9. PICK e \in Key :
           /\ Emits(n, e) /\ ses' = [ses EXCEPT ![p] = [b EXCEPT !.prim = e]]
           /\ \/ UNCHANGED wire /\ n.due = {} /\ n.owe = {} /\ e = n
              \/ \E m \in Packet : Sends(p, n, m)
           /\ n.due = {0} => e.due = {} /\ e.owe = {}
  BY <1>2, <1>6, <1>8, OutputIs
<1> DEFINE t == [b EXCEPT !.prim = e]
<1>10. /\ t.prim = e /\ t.age = s.age /\ (t.lame = s.lame \/ (s.age >= TransitionWindow /\ t.lame = Freed))
  BY <1>2 DEF Buried, Session
<1>11. t \in Session
  BY <1>2, SessionWith
<1> HIDE DEF t
<1>12. ses' = [ses EXCEPT ![p] = t]
  BY <1>9 DEF t
<1>13. Own(p, t)
  BY <1>2, <1>4, <1>6, <1>9, <1>10, <1>11, GrowsOwn
<1>14. /\ e.gen = k.gen /\ e.rec = k.rec /\ e.st = n.st /\ e.unacked = n.unacked /\ e.wait = n.wait
       /\ e.due \subseteq n.due /\ e.owe \subseteq n.owe
  BY <1>6, <1>9 DEF Emits
<1>15. ses'[p] = t /\ ses'[q] = u
  BY <1>1, <1>12 DEF Types
<1>16. n.owe \subseteq n.rec /\ n.due \subseteq n.unacked
  BY <1>4, <1>6, <1>7 DEF Own, Sound
<1>17. CASE Even(p, s, u, wire[q]) /\ Even(q, u, s, wire[p])
  <2>1. Fits(k, u.prim, wire[q])
    BY <1>17 DEF Even
  <2>2. Fits(e, u.prim, wire[q])
    BY <1>2, <1>3, <1>5, <1>6, <1>9, <2>1, FitsGrows
  <2>3. PICK v \in Seq(Packet) : wire' = [wire EXCEPT ![q] = v] /\ Fits(e, u.prim, v)
    <3>1. CASE UNCHANGED wire
      <4>1. wire' = [wire EXCEPT ![q] = wire[q]]
        BY <3>1 DEF Types
      <4>2. QED
        BY <1>2, <2>2, <4>1
    <3>2. CASE \E m \in Packet : Sends(p, n, m)
      <4>1. PICK m \in Packet : Sends(p, n, m)
        BY <3>2
      <4>2. /\ Shaped(m) /\ m.id = KeyId(e.gen) /\ m.acks \subseteq e.rec
        BY <4>1, <1>6, <1>14, <1>16 DEF Sends
      <4>3. e.st \in Int
        BY SessionNumbers, <1>10, <1>11
      <4>4. m.op = "CONTROL" => e.st >= S_SENT_KEY
        BY <4>1, <1>7, <1>14, <1>16 DEF Sends, Sound
      <4>5. m.op = "SOFT_RESET" => ~(e.st >= S_SENT_KEY)
        BY <4>1, <4>3, <1>7, <1>14, <1>16, States DEF Sends, Sound
      <4>6. Fits(e, u.prim, Append(wire[q], m))
        BY <1>2, <1>3, <2>2, <4>2, <4>4, <4>5, FitsAppend
      <4>7. wire' = [wire EXCEPT ![q] = Append(wire[q], m)] /\ Append(wire[q], m) \in Seq(Packet)
        BY <1>2, <4>1 DEF Sends, Transmit
      <4>8. QED
        BY <4>6, <4>7
    <3>3. QED
      BY <1>9, <3>1, <3>2
  <2>4. /\ k.st \in Int /\ e.st \in Int /\ s.age \in Nat /\ u.age \in Nat /\ e.wait \in Nat
    BY <1>2, <1>10, <1>11, SessionNumbers
  <2>5. HandshakeWindow \in Nat \ {0}
    BY TimelySizes
  <2>6. s.age >= HandshakeWindow => k.st = S_NORMAL_OP /\ e.st = k.st /\ e.wait = k.wait
    BY <1>4, <1>6, <1>14, <2>4, <2>5, States DEF Own, Grows
  <2>7. t.age >= u.age + HandshakeWindow => e.st < S_ACTIVE
    BY <1>10, <1>17, <2>4, <2>5, <2>6 DEF Even
  <2>8. e.st >= S_ACTIVE /\ s.age < HandshakeWindow => e.wait # 0
    BY <1>10, <1>13, <2>4, <2>5, States DEF Own
  <2>9. e.st >= S_ACTIVE /\ e.wait = 0 => DECRYPT_KEY_ENABLED(q, u.prim)
    BY <1>17, <2>4, <2>5, <2>6, <2>8 DEF Even
  <2>10. Even(p, t, u, v)
    BY <1>10, <1>14, <1>17, <2>3, <2>7, <2>9 DEF Even
  <2>11. DECRYPT_KEY_ENABLED(p, k) => DECRYPT_KEY_ENABLED(p, t.prim)
    BY <1>7, <1>10, <1>14 DEF DECRYPT_KEY_ENABLED
  <2>12. QED
    BY <1>1, <1>4, <1>10, <1>11, <1>12, <1>13, <1>14, <1>17, <2>3, <2>10, <2>11, EvenSide
<1>18. CASE Leads(s, u, wire[q], wire[p])
  <2>1. /\ k.st = S_PRE_START /\ k.unacked = {0} /\ k.rec = {}
    BY <1>18 DEF Leads
  <2>2. n.st = S_PRE_START /\ n.unacked = {0} /\ n.rec = {} /\ n.owe = {} /\ n.due \subseteq {0}
    BY <2>1, <1>6, <1>16, States DEF Grows, FULL_SYNC
  <2>3. PICK v \in Seq(Packet) : wire' = [wire EXCEPT ![q] = v] /\ Leads(t, u, v, wire[p])
    <3>1. CASE UNCHANGED wire
      <4>1. wire' = [wire EXCEPT ![q] = wire[q]]
        BY <3>1 DEF Types
      <4>2. Leads(t, u, wire[q], wire[p])
        BY <1>10, <1>14, <1>18, <2>2 DEF Leads
      <4>3. QED
        BY <1>2, <4>1, <4>2
    <3>2. CASE (\E m \in Packet : Sends(p, n, m)) /\ n.due # {}
      <4>1. PICK m \in Packet : Sends(p, n, m)
        BY <3>2
      <4>2. m.op = "SOFT_RESET" /\ m.n = 0 /\ m.acks = {} /\ m.id = KeyId(k.gen)
        BY <1>6, <2>2, <3>2, <4>1 DEF Sends, Shaped, Packet
      <4> DEFINE w == wire[q]
                 v == Append(wire[q], m)
      <4>3. /\ Len(v) = Len(w) + 1 /\ Len(w) \in Nat /\ v[Len(w) + 1] = m
            /\ \A i \in 1..Len(w) : v[i] = w[i]
            /\ \A i \in 1..Len(v) : i \in 1..Len(w) \/ i = Len(w) + 1
        BY <1>2
      <4>4. wire' = [wire EXCEPT ![q] = v] /\ v \in Seq(Packet)
        BY <1>2, <4>1 DEF Sends, Transmit
      <4> HIDE DEF v
      <4>5. \A i, j \in 1..Len(v) : i < j => i \in 1..Len(w) /\ (j \in 1..Len(w) \/ v[j] = m)
        BY <4>3
      <4> DEFINE Old(x) == x.id = KeyId(u.prim.gen) /\ x.op # "SOFT_RESET" /\ Shaped(x)
                 New(x) == x.id = KeyId(k.gen) /\ x.op = "SOFT_RESET" /\ x.n = 0 /\ x.acks = {}
      <4>6. /\ \A i \in 1..Len(w) : Old(w[i]) \/ New(w[i])
            /\ \A i, j \in 1..Len(w) : i < j /\ New(w[i]) => New(w[j])
        BY <1>18 DEF Leads
      <4>7. New(m)
        BY <4>2
      <4> HIDE DEF Old, New
      <4>8. \A i \in 1..Len(v) : Old(v[i]) \/ New(v[i])
        BY <4>3, <4>6, <4>7
      <4>9. \A i, j \in 1..Len(v) : i < j /\ New(v[i]) => New(v[j])
        BY <4>3, <4>5, <4>6, <4>7
      <4>10. Leads(t, u, v, wire[p])
        BY <1>10, <1>14, <1>18, <2>2, <4>8, <4>9 DEF Leads, Old, New
      <4>11. QED
        BY <4>4, <4>10
    <3>3. CASE n.due = {} /\ ~UNCHANGED wire
      <4>1. PICK m \in Packet : Sends(p, n, m)
        BY <1>9, <3>3
      <4>2. FALSE
        BY <1>8, <2>2, <3>3 DEF Output
      <4>3. QED
        BY <4>2
    <3>4. QED
      BY <1>9, <3>1, <3>2, <3>3
  <2>4. wire'[q] = v /\ wire'[p] = wire[p]
    BY <1>1, <2>3 DEF Types
  <2>5. QED
    BY <1>4, <1>13, <1>15, <2>3, <2>4, AgreeLeads
<1>19. CASE Leads(u, s, wire[p], wire[q])
  <2>1. k.st = S_NORMAL_OP
    BY <1>4, <1>19 DEF Leads, Own
  <2>2. n.st = S_NORMAL_OP /\ n.unacked = {} /\ n.due = {}
    <3>1. k.unacked = {} /\ k.due = {}
      BY <1>3, <1>5, <2>1, NothingWaits, States
    <3>2. QED
      BY <2>1, <3>1, <1>6, States DEF Grows
  <2>3. PICK v \in Seq(Packet) : wire' = [wire EXCEPT ![q] = v] /\ Leads(u, t, wire[p], v)
    <3>1. CASE UNCHANGED wire
      <4>1. wire' = [wire EXCEPT ![q] = wire[q]]
        BY <3>1 DEF Types
      <4>2. Leads(u, t, wire[p], wire[q])
        BY <1>10, <1>14, <1>19 DEF Leads
      <4>3. QED
        BY <1>2, <4>1, <4>2
    <3>2. CASE \E m \in Packet : Sends(p, n, m)
      <4>1. PICK m \in Packet : Sends(p, n, m)
        BY <3>2
      <4>2. m.op # "SOFT_RESET" /\ Shaped(m) /\ m.id = KeyId(k.gen)
        BY <1>6, <2>2, <4>1 DEF Sends
      <4> DEFINE w == wire[q]
                 v == Append(wire[q], m)
      <4>3. /\ Len(v) = Len(w) + 1 /\ Len(w) \in Nat /\ v[Len(w) + 1] = m
            /\ \A i \in 1..Len(w) : v[i] = w[i]
            /\ \A i \in 1..Len(v) : i \in 1..Len(w) \/ i = Len(w) + 1
        BY <1>2
      <4>4. wire' = [wire EXCEPT ![q] = v] /\ v \in Seq(Packet)
        BY <1>2, <4>1 DEF Sends, Transmit
      <4> HIDE DEF v
      <4>5. Leads(u, t, wire[p], v)
        BY <1>10, <1>14, <1>19, <4>2, <4>3 DEF Leads
      <4>6. QED
        BY <4>4, <4>5
    <3>3. QED
      BY <1>9, <3>1, <3>2
  <2>4. wire'[q] = v /\ wire'[p] = wire[p]
    BY <1>1, <2>3 DEF Types
  <2>5. QED
    BY <1>1, <1>4, <1>13, <1>15, <2>3, <2>4, AgreeLeads
<1>20. QED
  BY <1>4, <1>17, <1>18, <1>19

\* A call of tls_process.
LEMMA ProcessStep ==
  ASSUME Types, Types', Timely, Agree, NEW p \in Peer, tls_process(p)
  PROVE  Failed' \/ Agree'
<1> DEFINE s == ses[p]
           b == Buried(ses[p])
<1>1. s \in Session
  BY DEF Types
<1>2. b.prim = s.prim /\ b.age = s.age
  BY <1>1 DEF Buried, Session
<1>3. Run(p, s)
  BY DEF tls_process
<1>4. CASE s.age >= HandshakeWindow /\ s.prim.st \notin {S_INITIAL, S_NORMAL_OP}
  <2>1. ses' = [ses EXCEPT ![p] = TimedOut(b)] /\ UNCHANGED wire
    BY <1>2, <1>3, <1>4 DEF Run
  <2>2. QED
    BY <1>4, <2>1, TimedOutStep
<1>5. CASE ~(s.age >= HandshakeWindow /\ s.prim.st \notin {S_INITIAL, S_NORMAL_OP})
  <2>1. Output(p, b, Rounds(p, s.prim))
    BY <1>2, <1>3, <1>5 DEF Run
  <2>2. s.age < HandshakeWindow \/ s.prim.st \in {S_INITIAL, S_NORMAL_OP}
    BY <1>1, <1>5, SessionNumbers, Sizes
  <2>3. QED
    BY <2>1, <2>2, GrowStep
<1>6. QED
  BY <1>4, <1>5

\* What the leading side has sent, for the receiver's new key.
LEMMA LeadsInFlight ==
  ASSUME NEW u \in Session, NEW s \in Session, NEW w \in Seq(Packet), NEW v \in Seq(Packet),
         Leads(u, s, w, v)
  PROVE  InFlight(u.prim, w)
<1>1. s.prim.gen \in Nat /\ u.prim.gen = s.prim.gen + 1
  BY SessionNumbers DEF Leads
<1>2. KeyId(u.prim.gen) # KeyId(s.prim.gen)
  BY <1>1, NextId
<1>3. QED
  BY <1>2 DEF Leads, InFlight, Shaped

\* Packets of the old key, for the sender's new one.
LEMMA OldInFlight ==
  ASSUME NEW e \in Key, NEW gen \in Nat, e.gen = gen + 1, NEW v \in Seq(Packet),
         \A i \in 1..Len(v) : v[i].id = KeyId(gen) /\ v[i].op # "SOFT_RESET" /\ Shaped(v[i])
  PROVE  InFlight(e, v)
<1>1. KeyId(e.gen) # KeyId(gen)
  BY NextId
<1>2. QED
  BY <1>1 DEF InFlight

\* A side that joins the negotiation the other leads, by a request of its own or
\* because it has read the other's; x is what is still on its way from it.
LEMMA Joins ==
  ASSUME Timely, NEW p \in Peer, NEW q \in Peer, q = Other(p), NEW s \in Session, NEW t \in Session,
         NEW u \in Session, Own(p, t), Own(q, u), t.prim.gen = s.prim.gen + 1,
         NEW w \in Seq(Packet), NEW v \in Seq(Packet), NEW x \in Seq(Packet), NEW y \in Seq(Packet),
         Leads(u, s, w, v), t.age = 0, t.prim.st \in {S_INITIAL, S_PRE_START},
         InFlight(t.prim, x), t.prim.st = S_PRE_START => 0 \in t.prim.unacked,
         InFlight(u.prim, y), 1 \notin t.prim.rec,
         t.prim.rec # {} => \A i \in 1..Len(y) : y[i].id = KeyId(u.prim.gen)
  PROVE  Even(p, t, u, x) /\ Even(q, u, t, y)
<1>1. /\ t.prim.st \in Int /\ u.age \in Nat /\ HandshakeWindow \in Nat \ {0}
      /\ t.prim \in Key /\ u.prim \in Key
  BY SessionNumbers, TimelySizes
<1>2. /\ u.prim.gen = t.prim.gen /\ u.prim.st = S_PRE_START /\ u.prim.rec = {} /\ u.prim.unacked = {0}
  BY DEF Leads
<1>3. Fits(t.prim, u.prim, x)
  BY <1>1, <1>2, States DEF Fits
<1>4. Fits(u.prim, t.prim, y)
  BY <1>1, <1>2, States DEF Fits
<1>5. Even(p, t, u, x)
  BY <1>1, <1>2, <1>3, States DEF Even
<1>6. Even(q, u, t, y)
  BY <1>1, <1>2, <1>4, States DEF Even
<1>7. QED
  BY <1>5, <1>6

\* One more packet of the new key after those of the old one.
LEMMA ResetInFlight ==
  ASSUME NEW e \in Key, NEW gen \in Nat, e.gen = gen + 1, NEW w \in Seq(Packet), NEW m \in Packet,
         \A i \in 1..Len(w) : w[i].id = KeyId(gen) /\ w[i].op # "SOFT_RESET" /\ Shaped(w[i]),
         m.id = KeyId(e.gen), m.op = "SOFT_RESET", m.n = 0, m.acks = {}
  PROVE  InFlight(e, Append(w, m))
<1> DEFINE v == Append(w, m)
<1>1. KeyId(e.gen) # KeyId(gen)
  BY NextId
<1>2. /\ Len(v) = Len(w) + 1 /\ Len(w) \in Nat /\ v[Len(w) + 1] = m
      /\ \A i \in 1..Len(w) : v[i] = w[i]
      /\ \A i \in 1..Len(v) : i \in 1..Len(w) \/ i = Len(w) + 1
  OBVIOUS
<1> HIDE DEF v
<1>3. \A i, j \in 1..Len(v) : i < j => i \in 1..Len(w)
  BY <1>2
<1>4. \A i \in 1..Len(v) : Shaped(v[i]) /\ (v[i].id = KeyId(e.gen) => v[i] = m)
                           /\ (v[i].op = "SOFT_RESET" => v[i] = m)
  BY <1>1, <1>2 DEF Shaped
<1>5. \A i, j \in 1..Len(v) : i < j => v[i].id # KeyId(e.gen)
  BY <1>1, <1>2, <1>3
<1>6. InFlight(e, v)
  BY <1>4, <1>5 DEF InFlight
<1>7. QED
  BY <1>6 DEF v

\* The fields of a session after a soft reset.
LEMMA ResetFields ==
  ASSUME NEW s \in Session
  PROVE  LET r == key_state_soft_reset(s) IN
           /\ r.prim = key_state_init(s.prim.gen + 1) /\ r.lame = s.prim /\ r.age = 0
           /\ r.prim.st = S_INITIAL /\ r.prim.gen = s.prim.gen + 1 /\ r.prim.unacked = {}
           /\ r.prim.due = {} /\ r.prim.rec = {} /\ r.prim.owe = {} /\ r.prim.wait = 0
BY DEF key_state_soft_reset, key_state_init

\* Between equals, the other's packets to a side that decrypts are all of this key and
\* none is a reset.
LEMMA NoResets ==
  ASSUME NEW p \in Peer, NEW q \in Peer, NEW s, NEW t \in Session, NEW w, Even(p, s, t, w),
         Own(q, t), DECRYPT_KEY_ENABLED(q, t.prim)
  PROVE  /\ \A i \in 1..Len(w) : w[i].id = KeyId(s.prim.gen) /\ w[i].op # "SOFT_RESET" /\ Shaped(w[i])
         /\ t.prim.rec = {0, 1} /\ s.prim.st >= S_SENT_KEY
<1>1. t.prim.rec = {0, 1}
  BY DEF Own
<1>2. QED
  BY <1>1 DEF Even, Fits, InFlight

\* A soft reset of one's own.
LEMMA RenegotiateStep ==
  ASSUME Types, Types', Timely, Agree, NEW p \in Peer, Renegotiate(p)
  PROVE  Agree'
<1> DEFINE q == Other(p)
           s == ses[p]
           k == ses[p].prim
           u == ses[q]
           r == key_state_soft_reset(ses[p])
           n == Rounds(p, r.prim)
<1>1. q \in Peer /\ q # p /\ Other(q) = p
  BY Others
<1>2. s \in Session /\ u \in Session /\ wire[q] \in Seq(Packet) /\ wire[p] \in Seq(Packet)
  BY <1>1 DEF Types
<1>3. /\ k \in Key /\ k.gen \in Nat /\ k.st \in Int /\ s.age \in Nat /\ u.age \in Nat /\ k.wait \in Nat
      /\ u.prim.st \in Int
  BY <1>2, SessionNumbers
<1>4. /\ Own(p, s) /\ Own(q, u)
      /\ \/ Even(p, s, u, wire[q]) /\ Even(q, u, s, wire[p])
         \/ Leads(s, u, wire[q], wire[p])
         \/ Leads(u, s, wire[p], wire[q])
  BY AgreeCases
<1>5. k.st >= S_ACTIVE /\ s.age >= RenegotiateAfter /\ k.gen < MaxGen /\ Run(p, r)
  BY DEF Renegotiate
<1>6. /\ HandshakeWindow \in Nat \ {0} /\ TransitionWindow \in Nat /\ RenegotiateAfter \in Nat
      /\ 2 * HandshakeWindow <= RenegotiateAfter /\ HandshakeWindow < TransitionWindow
  BY TimelySizes
<1>7. r \in Session /\ r.prim \in Key
  BY <1>2, <1>5, ResetType, SessionFields
<1>8. /\ r.lame = k /\ r.age = 0 /\ r.prim.st = S_INITIAL /\ r.prim.gen = k.gen + 1
      /\ r.prim.rec = {} /\ r.prim.owe = {}
  BY <1>2, ResetFields
<1> HIDE DEF r
<1>9. n = [r.prim EXCEPT !.st = S_PRE_START, !.unacked = {0}, !.due = {0}, !.wait = HandshakeWindow]
  BY <1>7, <1>8, RoundsInitial
<1>10. /\ n.st = S_PRE_START /\ n.unacked = {0} /\ n.due = {0} /\ n.wait = HandshakeWindow
       /\ n.gen = k.gen + 1 /\ n.rec = {} /\ n.owe = {}
  BY <1>7, <1>8, <1>9 DEF Key
<1>11. n \in Key
  BY <1>7, RoundsType
<1>12. Output(p, r, n)
  <2>1. Buried(r) = r
    BY <1>6, <1>8 DEF Buried
  <2>2. QED
    BY <1>5, <1>6, <1>8, <2>1 DEF Run
<1> HIDE DEF n
<1>13. PICK e \in Key :
           /\ Emits(n, e) /\ ses' = [ses EXCEPT ![p] = [r EXCEPT !.prim = e]]
           /\ \/ UNCHANGED wire /\ n.due = {} /\ n.owe = {} /\ e = n
              \/ \E m \in Packet : Sends(p, n, m)
           /\ n.due = {0} => e.due = {} /\ e.owe = {}
  BY <1>7, <1>11, <1>12, OutputIs
<1>14. PICK m \in Packet : Sends(p, n, m)
  BY <1>10, <1>13
<1>15. m.op = "SOFT_RESET" /\ m.n = 0 /\ m.acks = {} /\ m.id = KeyId(k.gen + 1) /\ Transmit(p, m)
  BY <1>10, <1>14 DEF Sends, Shaped, Packet
<1> DEFINE t == [r EXCEPT !.prim = e]
           v == Append(wire[q], m)
<1>16. t \in Session /\ t.prim = e /\ t.lame = k /\ t.age = 0
  BY <1>7, <1>8 DEF Session
<1>17. ses'[p] = t /\ ses'[q] = u /\ wire'[q] = v /\ wire'[p] = wire[p] /\ v \in Seq(Packet)
  BY <1>1, <1>2, <1>13, <1>15 DEF Types, Transmit
<1> HIDE DEF t
<1>18. /\ e.st = S_PRE_START /\ e.unacked = {0} /\ e.due = {} /\ e.wait = HandshakeWindow
       /\ e.gen = k.gen + 1 /\ e.rec = {} /\ e.owe = {}
  BY <1>10, <1>13 DEF Emits
<1>19. k.wait = 0
  BY <1>3, <1>4, <1>5, <1>6, States DEF Own
<1>20. Own(p, t)
  BY <1>3, <1>5, <1>6, <1>16, <1>18, <1>19, States DEF Own, DECRYPT_KEY_ENABLED
<1>21. DECRYPT_KEY_ENABLED(p, k)
  BY <1>3, <1>5, States DEF DECRYPT_KEY_ENABLED
<1>22. CASE Even(p, s, u, wire[q]) /\ Even(q, u, s, wire[p])
  <2>1. u.age > HandshakeWindow
    <3>1. ~(s.age >= u.age + HandshakeWindow)
      BY <1>3, <1>5, <1>22, States DEF Even
    <3>2. QED
      BY <1>3, <1>5, <1>6, <3>1
  <2>2. DECRYPT_KEY_ENABLED(q, u.prim)
    BY <1>4, <2>1, States DEF Own, DECRYPT_KEY_ENABLED
  <2>3. u.prim.gen = k.gen
    BY <1>22 DEF Even
  <2>4. \A i \in 1..Len(wire[q]) : /\ wire[q][i].id = KeyId(k.gen) /\ wire[q][i].op # "SOFT_RESET"
                                   /\ Shaped(wire[q][i])
    BY <1>1, <1>2, <1>4, <1>22, <2>2, NoResets
  <2>5. \A i \in 1..Len(wire[p]) : /\ wire[p][i].id = KeyId(k.gen) /\ wire[p][i].op # "SOFT_RESET"
                                   /\ Shaped(wire[p][i])
    <3>1. \A i \in 1..Len(wire[p]) : /\ wire[p][i].id = KeyId(u.prim.gen)
                                     /\ wire[p][i].op # "SOFT_RESET" /\ Shaped(wire[p][i])
      <4>1. Even(q, u, s, wire[p]) /\ Own(p, s) /\ DECRYPT_KEY_ENABLED(p, s.prim)
        BY <1>4, <1>21, <1>22
      <4>2. s \in Session /\ q \in Peer
        BY <1>1, <1>2
      <4> HIDE DEF s, u, q
      <4>3. QED
        BY <4>1, <4>2, NoResets
    <3>2. QED
      BY <2>3, <3>1
  <2> DEFINE w == wire[q]
             Old(x) == x.id = KeyId(k.gen) /\ x.op # "SOFT_RESET" /\ Shaped(x)
             New(x) == x.id = KeyId(k.gen + 1) /\ x.op = "SOFT_RESET" /\ x.n = 0 /\ x.acks = {}
  <2>6. /\ Len(v) = Len(w) + 1 /\ Len(w) \in Nat /\ v[Len(w) + 1] = m
        /\ \A i \in 1..Len(w) : v[i] = w[i]
        /\ \A i \in 1..Len(v) : i \in 1..Len(w) \/ i = Len(w) + 1
    BY <1>2
  <2> HIDE DEF v
  <2>7. \A i, j \in 1..Len(v) : i < j => i \in 1..Len(w)
    BY <2>6
  <2>8. New(m) /\ \A i \in 1..Len(w) : Old(w[i]) /\ ~New(w[i])
    BY <1>15, <2>4
  <2>9. \A i \in 1..Len(wire[p]) : Old(wire[p][i])
    BY <2>5
  <2> HIDE DEF Old, New
  <2>10. /\ \A i \in 1..Len(v) : Old(v[i]) \/ New(v[i])
         /\ \A i, j \in 1..Len(v) : i < j /\ New(v[i]) => New(v[j])
    BY <2>6, <2>7, <2>8
  <2>11. Leads(t, u, v, wire[p])
    BY <1>16, <1>18, <2>1, <2>3, <2>9, <2>10 DEF Leads, Old, New
  <2>12. QED
    BY <1>4, <1>17, <1>20, <2>11, AgreeLeads
<1>23. CASE Leads(s, u, wire[q], wire[p])
  BY <1>3, <1>5, <1>23, States DEF Leads
<1>24. CASE Leads(u, s, wire[p], wire[q])
  <2>1. \A i \in 1..Len(wire[q]) : /\ wire[q][i].id = KeyId(k.gen) /\ wire[q][i].op # "SOFT_RESET"
                                   /\ Shaped(wire[q][i])
    BY <1>24 DEF Leads
  <2>2. InFlight(e, v)
    BY <1>2, <1>3, <1>15, <1>18, <2>1, ResetInFlight
  <2>3. InFlight(u.prim, wire[p])
    BY <1>2, <1>24, LeadsInFlight
  <2> HIDE DEF v
  <2>4. Even(p, t, u, v) /\ Even(q, u, t, wire[p])
    BY <1>1, <1>2, <1>4, <1>16, <1>17, <1>18, <1>20, <1>24, <2>2, <2>3, Joins
  <2>5. QED
    BY <1>4, <1>17, <1>20, <2>4, AgreeEven
<1>25. QED
  BY <1>4, <1>22, <1>23, <1>24

\* A retransmission falls due.
LEMMA ExpireStep ==
  ASSUME Types, Types', Agree, NEW p \in Peer, NEW n \in {0, 1}, Expire(p, n)
  PROVE  Agree'
<1> DEFINE q == Other(p)
           s == ses[p]
           k == ses[p].prim
           u == ses[q]
           e == [k EXCEPT !.due = k.due \cup {n}]
           t == [s EXCEPT !.prim = e]
<1>1. q \in Peer /\ q # p /\ Other(q) = p
  BY Others
<1>2. s \in Session /\ k \in Key /\ n \in k.unacked
  BY SessionFields DEF Types, Expire
<1>3. /\ e.st = k.st /\ e.gen = k.gen /\ e.unacked = k.unacked /\ e.due = k.due \cup {n}
      /\ e.rec = k.rec /\ e.owe = k.owe /\ e.wait = k.wait
  BY <1>2 DEF Key
<1>4. t.prim = e /\ t.lame = s.lame /\ t.age = s.age
  BY <1>2 DEF Session
<1>5. ses' = [ses EXCEPT ![p] = t] /\ UNCHANGED wire
  BY <1>2 DEF Expire, Types, Session, Key
<1> HIDE DEF e, t
<1>6. ses'[p] = t /\ ses'[q] = u /\ wire'[p] = wire[p] /\ wire'[q] = wire[q]
  BY <1>1, <1>5 DEF Types
<1>7. /\ Own(p, s) /\ Own(q, u)
      /\ \/ Even(p, s, u, wire[q]) /\ Even(q, u, s, wire[p])
         \/ Leads(s, u, wire[q], wire[p])
         \/ Leads(u, s, wire[p], wire[q])
  BY AgreeCases
<1>8. DECRYPT_KEY_ENABLED(p, e) <=> DECRYPT_KEY_ENABLED(p, k)
  BY <1>3 DEF DECRYPT_KEY_ENABLED
<1>9. Own(p, t)
  BY <1>2, <1>3, <1>4, <1>7, <1>8 DEF Own
<1>10. CASE Even(p, s, u, wire[q]) /\ Even(q, u, s, wire[p])
  <2>1. Fits(e, u.prim, wire[q]) /\ Fits(u.prim, e, wire[p])
    BY <1>3, <1>10 DEF Even, Fits, InFlight
  <2>2. Even(p, t, u, wire[q])
    BY <1>3, <1>4, <1>10, <2>1 DEF Even
  <2>3. Even(q, u, t, wire[p])
    BY <1>1, <1>3, <1>4, <1>8, <1>10, <2>1 DEF Even
  <2>4. QED
    BY <1>6, <1>7, <1>9, <2>2, <2>3, AgreeEven
<1>11. CASE Leads(s, u, wire[q], wire[p])
  <2>1. Leads(t, u, wire[q], wire[p])
    BY <1>3, <1>4, <1>11 DEF Leads
  <2>2. QED
    BY <1>6, <1>7, <1>9, <2>1, AgreeLeads
<1>12. CASE Leads(u, s, wire[p], wire[q])
  <2>1. Leads(u, t, wire[p], wire[q])
    BY <1>3, <1>4, <1>12 DEF Leads
  <2>2. QED
    BY <1>1, <1>6, <1>7, <1>9, <2>1, AgreeLeads
<1>13. QED
  BY <1>7, <1>10, <1>11, <1>12

\* A packet in either direction has gone.
LEMMA LeadsTail ==
  ASSUME NEW s, NEW t, NEW w \in Seq(Packet), NEW v \in Seq(Packet), Leads(s, t, w, v)
  PROVE  /\ w # <<>> => Leads(s, t, Tail(w), v)
         /\ v # <<>> => Leads(s, t, w, Tail(v))
<1>1. ASSUME w # <<>> PROVE Leads(s, t, Tail(w), v)
  <2> DEFINE x == Tail(w)
  <2>1. /\ Len(x) = Len(w) - 1 /\ Len(w) \in Nat
        /\ \A i \in 1..Len(x) : x[i] = w[i + 1] /\ i + 1 \in 1..Len(w)
    BY <1>1, TailOf
  <2>2. \A i, j \in 1..Len(x) : i < j => i + 1 < j + 1
    BY <2>1
  <2> DEFINE Old(m) == m.id = KeyId(t.prim.gen) /\ m.op # "SOFT_RESET" /\ Shaped(m)
             New(m) == m.id = KeyId(s.prim.gen) /\ m.op = "SOFT_RESET" /\ m.n = 0 /\ m.acks = {}
  <2>3. /\ \A i \in 1..Len(w) : Old(w[i]) \/ New(w[i])
        /\ \A i, j \in 1..Len(w) : i < j /\ New(w[i]) => New(w[j])
    BY DEF Leads
  <2> HIDE DEF x, Old, New
  <2>4. \A i \in 1..Len(x) : Old(x[i]) \/ New(x[i])
    BY <2>1, <2>3
  <2>5. \A i, j \in 1..Len(x) : i < j /\ New(x[i]) => New(x[j])
    BY <2>1, <2>2, <2>3
  <2>6. Leads(s, t, x, v)
    BY <2>4, <2>5 DEF Leads, Old, New
  <2>7. QED
    BY <2>6 DEF x
<1>2. ASSUME v # <<>> PROVE Leads(s, t, w, Tail(v))
  <2> DEFINE x == Tail(v)
  <2>1. /\ Len(x) = Len(v) - 1 /\ Len(v) \in Nat
        /\ \A i \in 1..Len(x) : x[i] = v[i + 1] /\ i + 1 \in 1..Len(v)
    BY <1>2, TailOf
  <2> HIDE DEF x
  <2>2. Leads(s, t, w, x)
    BY <2>1 DEF Leads
  <2>3. QED
    BY <2>2 DEF x
<1>3. QED
  BY <1>1, <1>2

\* The first packet to p is gone and nobody has changed: lost, or not for this key.
LEMMA GoneStep ==
  ASSUME Types, Agree, NEW p \in Peer, wire[p] # <<>>,
         wire' = [wire EXCEPT ![p] = Tail(wire[p])], UNCHANGED ses
  PROVE  Agree'
<1> DEFINE q == Other(p)
           s == ses[p]
           u == ses[q]
<1>1. q \in Peer /\ q # p /\ Other(q) = p
  BY Others
<1>2. /\ s \in Session /\ u \in Session /\ wire[q] \in Seq(Packet) /\ wire[p] \in Seq(Packet)
      /\ s.prim \in Key /\ u.prim \in Key
  BY <1>1, SessionFields DEF Types
<1>3. ses'[p] = s /\ ses'[q] = u /\ wire'[p] = Tail(wire[p]) /\ wire'[q] = wire[q]
  BY <1>1 DEF Types
<1>4. /\ Own(p, s) /\ Own(q, u)
      /\ \/ Even(p, s, u, wire[q]) /\ Even(q, u, s, wire[p])
         \/ Leads(s, u, wire[q], wire[p])
         \/ Leads(u, s, wire[p], wire[q])
  BY AgreeCases
<1>5. CASE Even(p, s, u, wire[q]) /\ Even(q, u, s, wire[p])
  <2>1. Fits(u.prim, s.prim, Tail(wire[p]))
    BY <1>2, <1>5, FitsTail DEF Even
  <2>2. Even(q, u, s, Tail(wire[p]))
    BY <1>5, <2>1 DEF Even
  <2>3. QED
    BY <1>3, <1>4, <1>5, <2>2, AgreeEven
<1>6. CASE Leads(s, u, wire[q], wire[p])
  <2>1. Leads(s, u, wire[q], Tail(wire[p]))
    BY <1>2, <1>6, LeadsTail
  <2>2. QED
    BY <1>3, <1>4, <2>1, AgreeLeads
<1>7. CASE Leads(u, s, wire[p], wire[q])
  <2>1. Leads(u, s, Tail(wire[p]), wire[q])
    BY <1>2, <1>7, LeadsTail
  <2>2. QED
    BY <1>1, <1>3, <1>4, <2>1, AgreeLeads
<1>8. QED
  BY <1>4, <1>5, <1>6, <1>7

\* The fields of a key that has read a packet.
LEMMA ReceivedFields ==
  ASSUME NEW k \in Key, NEW m \in Packet
  PROVE  LET e == Received(k, m) IN
           /\ e.gen = k.gen /\ e.st = k.st /\ e.wait = k.wait
           /\ e.unacked = k.unacked \ m.acks /\ e.due = k.due \ m.acks
           /\ e.rec = IF m.op = "ACK" THEN k.rec ELSE k.rec \cup {m.n}
           /\ e.owe = IF m.op = "ACK" THEN k.owe ELSE k.owe \cup {m.n}
<1>1. CASE m.op = "ACK"
  BY <1>1 DEF Received, Key
<1>2. CASE m.op # "ACK"
  BY <1>2 DEF Received, Key
<1>3. QED
  BY <1>1, <1>2

\* Reading a packet keeps a side in order.
LEMMA ReceivedOwn ==
  ASSUME NEW p \in Peer, NEW s \in Session, Own(p, s), NEW m \in Packet, NEW t \in Session,
         t = [s EXCEPT !.prim = Received(s.prim, m)]
  PROVE  Own(p, t)
<1> DEFINE k == s.prim
           e == Received(k, m)
<1>1. k \in Key /\ m.n \in {0, 1} /\ k.rec \in SUBSET {0, 1}
  BY SessionFields, KeyFields DEF Packet
<1>2. t.prim = e /\ t.lame = s.lame /\ t.age = s.age
  BY DEF Session
<1>3. /\ e.gen = k.gen /\ e.st = k.st /\ e.wait = k.wait
      /\ e.unacked = k.unacked \ m.acks /\ e.due = k.due \ m.acks
      /\ e.rec = IF m.op = "ACK" THEN k.rec ELSE k.rec \cup {m.n}
      /\ e.owe = IF m.op = "ACK" THEN k.owe ELSE k.owe \cup {m.n}
  BY <1>1, ReceivedFields
<1> HIDE DEF e
<1>4. DECRYPT_KEY_ENABLED(p, e) => e.rec = {0, 1}
  <2> SUFFICES ASSUME DECRYPT_KEY_ENABLED(p, e) PROVE e.rec = {0, 1}
    OBVIOUS
  <2>1. k.rec = {0, 1}
    BY <1>3 DEF Own, DECRYPT_KEY_ENABLED
  <2>2. QED
    BY <1>1, <1>3, <2>1
<1>5. e.owe \subseteq e.rec /\ e.due \subseteq e.unacked /\ e.unacked \subseteq k.unacked
  <2>1. k.owe \subseteq k.rec /\ k.due \subseteq k.unacked
    BY DEF Own
  <2>2. QED
    BY <1>3, <2>1
<1>6. QED
  BY <1>2, <1>3, <1>4, <1>5 DEF Own

\* A packet of this key, between equals.
LEMMA ReadStep ==
  ASSUME Types, Types', NEW p \in Peer, NEW q \in Peer, q = Other(p),
         Own(p, ses[p]), Own(q, ses[q]), wire[p] # <<>>,
         Even(p, ses[p], ses[q], wire[q]), Even(q, ses[q], ses[p], wire[p]),
         wire[p][1].id = KeyId(ses[p].prim.gen),
         wire' = [wire EXCEPT ![p] = Tail(wire[p])],
         ses' = [ses EXCEPT ![p] = [ses[p] EXCEPT !.prim = Received(ses[p].prim, wire[p][1])]]
  PROVE  Agree'
<1> DEFINE s == ses[p]
           k == s.prim
           u == ses[q]
           m == wire[p][1]
           e == Received(k, m)
           t == [s EXCEPT !.prim = e]
<1>1. q # p /\ Other(q) = p
  BY Others
<1>2. /\ s \in Session /\ u \in Session /\ wire[q] \in Seq(Packet) /\ wire[p] \in Seq(Packet)
      /\ k \in Key /\ u.prim \in Key
  BY SessionFields DEF Types
<1>3. m \in Packet /\ 1 \in 1..Len(wire[p])
  BY <1>2, TailOf
<1>4. e \in Key
  BY <1>2, <1>3, ReceivedType
<1>5. t \in Session /\ t.prim = e /\ t.age = s.age
  BY <1>2, <1>4 DEF Session
<1>6. Own(p, t)
  BY <1>2, <1>3, <1>5, ReceivedOwn
<1>7. /\ e.gen = k.gen /\ e.st = k.st /\ e.wait = k.wait /\ e.unacked = k.unacked \ m.acks
      /\ e.rec = IF m.op = "ACK" THEN k.rec ELSE k.rec \cup {m.n}
  BY <1>2, <1>3, ReceivedFields
<1>8. ses'[p] = t /\ ses'[q] = u /\ wire'[p] = Tail(wire[p]) /\ wire'[q] = wire[q]
  BY <1>1 DEF Types
<1> HIDE DEF e, t
<1>9. u.prim.gen = k.gen /\ Fits(k, u.prim, wire[q]) /\ Fits(u.prim, k, wire[p])
  BY DEF Even
<1>10. m.acks \subseteq u.prim.rec
  BY <1>3, <1>9 DEF Fits, InFlight
<1>11. Fits(u.prim, e, Tail(wire[p]))
  BY <1>2, <1>4, <1>7, <1>9, FitsRead
<1>12. Fits(e, u.prim, wire[q])
  <2>1. k.rec \subseteq e.rec
    BY <1>7
  <2>2. e.st >= S_PRE_START /\ 0 \notin e.unacked => 0 \in u.prim.rec
    BY <1>7, <1>9, <1>10 DEF Fits
  <2>3. e.st >= S_SENT_KEY /\ 1 \notin e.unacked => 1 \in u.prim.rec
    BY <1>7, <1>9, <1>10 DEF Fits
  <2>4. QED
    BY <1>2, <1>4, <1>7, <1>9, <2>1, <2>2, <2>3, FitsSender
<1>13. Even(p, t, u, wire[q])
  BY <1>5, <1>7, <1>12 DEF Even
<1>14. DECRYPT_KEY_ENABLED(p, e) <=> DECRYPT_KEY_ENABLED(p, k)
  BY <1>7 DEF DECRYPT_KEY_ENABLED
<1>15. Even(q, u, t, Tail(wire[p]))
  BY <1>1, <1>5, <1>7, <1>11, <1>14 DEF Even
<1>16. QED
  BY <1>6, <1>8, <1>13, <1>15, AgreeEven

\* The request of the side that leads.
LEMMA RequestStep ==
  ASSUME Types, Types', Timely, NEW p \in Peer, NEW q \in Peer, q = Other(p),
         Own(p, ses[p]), Own(q, ses[q]), wire[p] # <<>>,
         Leads(ses[q], ses[p], wire[p], wire[q]),
         wire[p][1].op = "SOFT_RESET", tls_pre_decrypt(p, wire[p][1]),
         wire' = [wire EXCEPT ![p] = Tail(wire[p])]
  PROVE  Agree'
<1> DEFINE s == ses[p]
           k == s.prim
           u == ses[q]
           m == wire[p][1]
           r == key_state_soft_reset(s)
           e == Received(r.prim, m)
           t == [r EXCEPT !.prim = e]
<1>1. q # p /\ Other(q) = p
  BY Others
<1>2. /\ s \in Session /\ u \in Session /\ wire[q] \in Seq(Packet) /\ wire[p] \in Seq(Packet)
      /\ k \in Key /\ u.prim \in Key
  BY SessionFields DEF Types
<1>3. /\ k.gen \in Nat /\ k.wait \in Nat /\ s.age \in Nat /\ k.st \in Int
      /\ HandshakeWindow \in Nat \ {0} /\ TransitionWindow \in Nat /\ MaxGen \in Nat
  BY <1>2, SessionNumbers, Sizes
<1>4. m \in Packet /\ 1 \in 1..Len(wire[p])
  BY <1>2, TailOf
<1>5. m.id = KeyId(u.prim.gen) /\ m.n = 0 /\ m.acks = {}
  BY <1>4 DEF Leads
<1>6. u.prim.gen = k.gen + 1 /\ s.age > HandshakeWindow
  BY DEF Leads
<1>7. k.st = S_NORMAL_OP /\ k.wait = 0
  <2>1. k.st = S_NORMAL_OP
    BY <1>6 DEF Own
  <2>2. QED
    BY <1>3, <1>6, <2>1, States DEF Own
<1>8. IsRequest(p, m)
  BY <1>7, States DEF IsRequest, DECRYPT_KEY_ENABLED
<1>9. /\ r.lame = k /\ r.age = 0 /\ r.prim.st = S_INITIAL /\ r.prim.gen = k.gen + 1 /\ r.prim.unacked = {}
      /\ r.prim.due = {} /\ r.prim.rec = {} /\ r.prim.owe = {}
  BY <1>2, ResetFields
<1>10. r \in Session /\ r.prim \in Key
  <2>1. r.prim.gen <= MaxGen
    BY <1>8 DEF tls_pre_decrypt
  <2>2. k.gen < MaxGen
    BY <1>3, <1>9, <2>1
  <2>3. QED
    BY <1>2, <2>2, ResetType, SessionFields
<1>11. ses' = [ses EXCEPT ![p] = t]
  <2>1. r.prim.st # S_ERROR /\ KeyId(r.prim.gen) = m.id
    BY <1>5, <1>6, <1>9, States
  <2>2. QED
    BY <1>8, <2>1 DEF tls_pre_decrypt
<1> HIDE DEF r
<1>12. e \in Key
  BY <1>4, <1>10, ReceivedType
<1>13. t \in Session /\ t.prim = e /\ t.lame = k /\ t.age = 0
  BY <1>9, <1>10, <1>12 DEF Session
<1>14. /\ e.gen = k.gen + 1 /\ e.st = S_INITIAL /\ e.unacked = {} /\ e.due = {} /\ e.rec = {0} /\ e.owe = {0}
  <2>1. /\ e.gen = r.prim.gen /\ e.st = r.prim.st
        /\ e.unacked = r.prim.unacked \ m.acks /\ e.due = r.prim.due \ m.acks
        /\ e.rec = IF m.op = "ACK" THEN r.prim.rec ELSE r.prim.rec \cup {m.n}
        /\ e.owe = IF m.op = "ACK" THEN r.prim.owe ELSE r.prim.owe \cup {m.n}
    BY <1>4, <1>10, ReceivedFields
  <2> HIDE DEF e
  <2>2. QED
    BY <1>5, <1>9, <2>1
<1> HIDE DEF e, t
<1>15. Own(p, t)
  BY <1>3, <1>7, <1>13, <1>14, States DEF Own, DECRYPT_KEY_ENABLED
<1>16. InFlight(e, wire[q])
  <2>1. \A i \in 1..Len(wire[q]) : /\ wire[q][i].id = KeyId(k.gen) /\ wire[q][i].op # "SOFT_RESET"
                                   /\ Shaped(wire[q][i])
    BY DEF Leads
  <2>2. QED
    BY <1>2, <1>3, <1>12, <1>14, <2>1, OldInFlight
<1> DEFINE y == Tail(wire[p])
<1>17. /\ y \in Seq(Packet) /\ Len(y) = Len(wire[p]) - 1 /\ Len(wire[p]) \in Nat
       /\ \A i \in 1..Len(y) : y[i] = wire[p][i + 1] /\ i + 1 \in 1..Len(wire[p]) /\ 1 < i + 1
  BY <1>2, TailOf
<1>18. ses'[p] = t /\ ses'[q] = u /\ wire'[p] = y /\ wire'[q] = wire[q]
  BY <1>1, <1>11 DEF Types
<1>19. Leads(u, s, y, wire[q])
  BY <1>2, LeadsTail
<1> HIDE DEF y
<1>20. InFlight(u.prim, y)
  BY <1>2, <1>17, <1>19, LeadsInFlight
<1>21. \A i \in 1..Len(y) : y[i].id = KeyId(u.prim.gen)
  BY <1>4, <1>5, <1>17 DEF Leads
<1>22. Even(p, t, u, wire[q]) /\ Even(q, u, t, y)
  <2>1. /\ t.prim.gen = s.prim.gen + 1 /\ t.age = 0 /\ t.prim.st = S_INITIAL /\ t.prim.rec = {0}
        /\ InFlight(t.prim, wire[q]) /\ t \in Session /\ Own(q, u)
    BY <1>13, <1>14, <1>16
  <2>2. t.prim.st # S_PRE_START /\ 1 \notin t.prim.rec /\ t.prim.st \in {S_INITIAL, S_PRE_START}
    BY <2>1, States
  <2> HIDE DEF s, u
  <2>3. QED
    BY <1>2, <1>15, <1>17, <1>19, <1>20, <1>21, <2>1, <2>2, Joins
<1>23. QED
  BY <1>15, <1>18, <1>22, AgreeEven

\* On a network that keeps the order the first packet is read, and goes.
LEMMA FirstArrives ==
  ASSUME Types, Timely, NEW p \in Peer, NEW i \in 1..Len(wire[p]), Arrive(p, i)
  PROVE  /\ wire[p] # <<>> /\ tls_pre_decrypt(p, wire[p][1])
         /\ wire' = [wire EXCEPT ![p] = Tail(wire[p])]
<1>1. wire[p] \in Seq(Packet)
  BY DEF Types
<1>2. i = 1 /\ wire' = [wire EXCEPT ![p] = SubSeq(wire[p], 1, 0) \o SubSeq(wire[p], 2, Len(wire[p]))]
  <2>1. i = 1
    BY DEF Arrive, Timely
  <2>2. wire' = [wire EXCEPT ![p] = SubSeq(wire[p], 1, i - 1) \o SubSeq(wire[p], i + 1, Len(wire[p]))]
    BY DEF Arrive, Timely
  <2>3. i - 1 = 0 /\ i + 1 = 2
    BY <2>1
  <2>4. QED
    BY <2>1, <2>2, <2>3
<1>3. wire[p] # <<>>
  BY <1>1
<1>4. SubSeq(wire[p], 1, 0) \o SubSeq(wire[p], 2, Len(wire[p])) = Tail(wire[p])
  BY <1>1, <1>3
<1>5. QED
  BY <1>2, <1>3, <1>4 DEF Arrive

\* A control packet arrives.
LEMMA ArriveStep ==
  ASSUME Types, Types', Timely, Agree, NEW p \in Peer, NEW i \in 1..Len(wire[p]), Arrive(p, i)
  PROVE  Agree'
<1> DEFINE q == Other(p)
           s == ses[p]
           k == s.prim
           u == ses[q]
           m == wire[p][1]
<1>1. q \in Peer /\ q # p /\ Other(q) = p
  BY Others
<1>2. /\ wire[p] # <<>> /\ tls_pre_decrypt(p, m) /\ wire' = [wire EXCEPT ![p] = Tail(wire[p])]
  BY FirstArrives
<1>3. /\ s \in Session /\ u \in Session /\ wire[q] \in Seq(Packet) /\ wire[p] \in Seq(Packet)
      /\ k \in Key /\ u.prim \in Key
  BY <1>1, SessionFields DEF Types
<1>4. m \in Packet /\ 1 \in 1..Len(wire[p])
  BY <1>2, <1>3, TailOf
<1>5. /\ Own(p, s) /\ Own(q, u)
      /\ \/ Even(p, s, u, wire[q]) /\ Even(q, u, s, wire[p])
         \/ Leads(s, u, wire[q], wire[p])
         \/ Leads(u, s, wire[p], wire[q])
  BY AgreeCases
<1>6. k.st # S_ERROR
  BY <1>5, States DEF Own
<1>7. ~IsRequest(p, m) =>
        ses' = [ses EXCEPT ![p] = IF KeyId(k.gen) = m.id THEN [s EXCEPT !.prim = Received(k, m)] ELSE s]
  BY <1>2, <1>6 DEF tls_pre_decrypt
<1>8. ~IsRequest(p, m) /\ KeyId(k.gen) # m.id => UNCHANGED ses
  BY <1>7 DEF Types
<1>9. CASE Even(p, s, u, wire[q]) /\ Even(q, u, s, wire[p])
  <2>1. ~IsRequest(p, m)
    <3> SUFFICES ASSUME DECRYPT_KEY_ENABLED(p, k) PROVE m.op # "SOFT_RESET"
      BY DEF IsRequest
    <3>1. Even(q, u, s, wire[p]) /\ Own(p, s)
      BY <1>5, <1>9
    <3>2. k.rec = {0, 1}
      BY <3>1 DEF Own
    <3>3. QED
      BY <1>4, <3>1, <3>2 DEF Even, Fits
  <2>2. CASE KeyId(k.gen) = m.id
    <3>1. ses' = [ses EXCEPT ![p] = [s EXCEPT !.prim = Received(k, m)]]
      BY <1>7, <2>1, <2>2
    <3>2. QED
      BY <1>1, <1>2, <1>5, <1>9, <2>2, <3>1, ReadStep
  <2>3. CASE KeyId(k.gen) # m.id
    BY <1>2, <1>8, <2>1, <2>3, GoneStep
  <2>4. QED
    BY <2>2, <2>3
<1>10. CASE Leads(s, u, wire[q], wire[p])
  <2>1. m.op # "SOFT_RESET" /\ m.id = KeyId(u.prim.gen) /\ k.gen = u.prim.gen + 1
    BY <1>4, <1>10 DEF Leads
  <2>2. KeyId(k.gen) # m.id
    BY <1>3, <2>1, NextId, SessionNumbers
  <2>3. QED
    BY <1>2, <1>8, <2>1, <2>2, GoneStep DEF IsRequest
<1>11. CASE Leads(u, s, wire[p], wire[q])
  <2>1. CASE m.op = "SOFT_RESET"
    BY <1>1, <1>2, <1>5, <1>11, <2>1, RequestStep
  <2>2. CASE m.op # "SOFT_RESET"
    <3> DEFINE e == Received(k, m)
               t == [s EXCEPT !.prim = e]
    <3>1. m.id = KeyId(k.gen)
      BY <1>4, <1>11, <2>2 DEF Leads
    <3>2. ses' = [ses EXCEPT ![p] = t]
      BY <1>7, <2>2, <3>1 DEF IsRequest
    <3>3. e \in Key /\ e.gen = k.gen
      BY <1>3, <1>4, ReceivedType, ReceivedFields
    <3>4. t \in Session /\ t.prim = e /\ t.age = s.age
      BY <1>3, <3>3 DEF Session
    <3>5. Own(p, t)
      BY <1>3, <1>4, <1>5, <3>4, ReceivedOwn
    <3> HIDE DEF e, t
    <3>6. Leads(u, s, Tail(wire[p]), wire[q])
      BY <1>2, <1>3, <1>11, LeadsTail
    <3>7. Leads(u, t, Tail(wire[p]), wire[q])
      BY <3>3, <3>4, <3>6 DEF Leads
    <3>8. ses'[p] = t /\ ses'[q] = u /\ wire'[p] = Tail(wire[p]) /\ wire'[q] = wire[q]
      BY <1>1, <1>2, <3>2 DEF Types
    <3>9. QED
      BY <1>1, <1>5, <3>5, <3>7, <3>8, AgreeLeads
  <2>3. QED
    BY <2>1, <2>2
<1>12. QED
  BY <1>5, <1>9, <1>10, <1>11

\* The fields of a key after a unit of time.
LEMMA OlderFields ==
  ASSUME NEW k \in Key
  PROVE  LET e == Older(k) IN
           /\ e.gen = k.gen /\ e.st = k.st /\ e.unacked = k.unacked /\ e.due = k.due
           /\ e.rec = k.rec /\ e.owe = k.owe
           /\ e.wait = IF k.wait > 0 THEN k.wait - 1 ELSE k.wait
<1>1. CASE k.wait > 0
  BY <1>1 DEF Older, Key
<1>2. CASE ~(k.wait > 0)
  BY <1>2 DEF Older
<1>3. QED
  BY <1>1, <1>2

\* A unit of time for one side that has met its deadlines.
LEMMA OlderOwn ==
  ASSUME Timely, NEW p \in Peer, NEW s \in Session, Own(p, s), NEW t \in Session,
         t = [prim |-> Older(s.prim), lame |-> Older(s.lame),
              age |-> IF s.age < TransitionWindow THEN s.age + 1 ELSE s.age],
         s.prim.due = {}, Rounds(p, s.prim) = s.prim,
         s.age >= HandshakeWindow => s.prim.st = S_NORMAL_OP
  PROVE  Own(p, t)
<1> DEFINE k == s.prim
           e == Older(k)
           l == Older(s.lame)
<1>1. k \in Key /\ s.lame \in Key
  BY SessionFields
<1>2. /\ e.gen = k.gen /\ e.st = k.st /\ e.unacked = k.unacked /\ e.due = k.due
      /\ e.rec = k.rec /\ e.owe = k.owe
      /\ e.wait = IF k.wait > 0 THEN k.wait - 1 ELSE k.wait
  BY <1>1, OlderFields
<1>3. /\ l.gen = s.lame.gen /\ l.st = s.lame.st
      /\ l.wait = IF s.lame.wait > 0 THEN s.lame.wait - 1 ELSE s.lame.wait
  BY <1>1, OlderFields
<1>4. /\ t.prim = e /\ t.lame = l
      /\ t.age = IF s.age < TransitionWindow THEN s.age + 1 ELSE s.age
  OBVIOUS
<1>5. Sound(p, k) /\ k.st # S_INITIAL
  BY <1>1, OwnSound, NothingToDo
<1> HIDE DEF e, l
<1>6. /\ k.st \in Int /\ s.age \in Nat /\ k.wait \in Nat /\ s.lame.wait \in Nat /\ s.age <= TransitionWindow
      /\ HandshakeWindow \in Nat \ {0} /\ TransitionWindow \in Nat /\ HandshakeWindow < TransitionWindow
  BY SessionNumbers, TimelySizes
<1>7. t.age > HandshakeWindow => k.st = S_NORMAL_OP
  BY <1>4, <1>6
<1>8. e.wait = IF t.age < HandshakeWindow THEN HandshakeWindow - t.age ELSE 0
  <2>1. k.wait = IF s.age < HandshakeWindow THEN HandshakeWindow - s.age ELSE 0
    BY <1>5, <1>6, States DEF Own
  <2>2. QED
    BY <1>2, <1>4, <1>6, <2>1
<1>9. /\ l.st >= S_ACTIVE => l.gen + 1 = e.gen /\ l.wait = 0
      /\ t.age < TransitionWindow => l.st >= S_ACTIVE
  <2>1. /\ s.lame.st >= S_ACTIVE => s.lame.gen + 1 = k.gen /\ s.lame.wait = 0
        /\ s.age < TransitionWindow => s.lame.st >= S_ACTIVE
    BY DEF Own
  <2>2. QED
    BY <1>2, <1>3, <1>4, <1>6, <2>1
<1>10. DECRYPT_KEY_ENABLED(p, e) => e.rec = {0, 1}
  BY <1>2 DEF Own, DECRYPT_KEY_ENABLED
<1>11. QED
  BY <1>2, <1>4, <1>5, <1>7, <1>8, <1>9, <1>10 DEF Own

\* What a unit of time changes, and leaves, in a session.
LEMMA OlderSession ==
  ASSUME NEW s \in Session, NEW t \in Session,
         t = [prim |-> Older(s.prim), lame |-> Older(s.lame),
              age |-> IF s.age < TransitionWindow THEN s.age + 1 ELSE s.age]
  PROVE  /\ t.prim.gen = s.prim.gen /\ t.prim.st = s.prim.st /\ t.prim.unacked = s.prim.unacked
         /\ t.prim.rec = s.prim.rec
         /\ t.age = IF s.age < TransitionWindow THEN s.age + 1 ELSE s.age
<1>1. s.prim \in Key
  BY SessionFields
<1>2. t.prim = Older(s.prim) /\ t.age = IF s.age < TransitionWindow THEN s.age + 1 ELSE s.age
  OBVIOUS
<1>3. QED
  BY <1>1, <1>2, OlderFields

\* Two sides at the same key, and both have done what was to do: what the one
\* encrypts with the new key from now on the other can decrypt.
LEMMA OlderEven ==
  ASSUME Timely, NEW p \in Peer, NEW q \in Peer, q = Other(p), NEW s \in Session, NEW u \in Session,
         Own(p, s), Own(q, u), NEW w \in Seq(Packet), Even(p, s, u, w),
         1 \in s.prim.rec => u.prim.st >= S_SENT_KEY,
         u.prim.due = {}, Rounds(q, u.prim) = u.prim,
         NEW t \in Session, NEW v \in Session,
         t.prim.gen = s.prim.gen, t.prim.st = s.prim.st, t.prim.unacked = s.prim.unacked,
         t.prim.rec = s.prim.rec, t.age = IF s.age < TransitionWindow THEN s.age + 1 ELSE s.age,
         v.prim.gen = u.prim.gen, v.prim.st = u.prim.st, v.prim.unacked = u.prim.unacked,
         v.prim.rec = u.prim.rec, v.age = IF u.age < TransitionWindow THEN u.age + 1 ELSE u.age
  PROVE  Even(p, t, v, w)
<1>1. t.prim.gen = v.prim.gen
  BY DEF Even
<1>2. Fits(t.prim, v.prim, w)
  BY DEF Even, Fits, InFlight
<1>3. t.age >= v.age + HandshakeWindow => t.prim.st < S_ACTIVE
  <2>1. /\ s.age \in Nat /\ u.age \in Nat /\ s.age <= TransitionWindow /\ u.age <= TransitionWindow
        /\ HandshakeWindow \in Nat \ {0} /\ TransitionWindow \in Nat
    BY SessionNumbers, TimelySizes
  <2>2. s.age >= u.age + HandshakeWindow => s.prim.st < S_ACTIVE
    BY DEF Even
  <2>3. QED
    BY <2>1, <2>2
<1>4. ASSUME t.prim.st >= S_ACTIVE
      PROVE  DECRYPT_KEY_ENABLED(Other(p), v.prim)
  <2>1. s.prim \in Key /\ u.prim \in Key /\ s.prim.st \in Int
    BY SessionNumbers
  <2>2. Sound(p, s.prim) /\ Sound(q, u.prim)
    BY OwnSound
  <2>3. s.prim.unacked = {}
    BY <1>4, <2>1, <2>2, NothingWaits
  <2>4. DECRYPT_KEY_ENABLED(p, s.prim) /\ s.prim.st >= S_PRE_START /\ s.prim.st >= S_SENT_KEY
    BY <1>4, <2>1, States DEF DECRYPT_KEY_ENABLED
  <2>5. s.prim.rec = {0, 1}
    BY <2>4 DEF Own
  <2>6. 0 \in u.prim.rec /\ 1 \in u.prim.rec
    BY <2>3, <2>4 DEF Even, Fits
  <2>7. DECRYPT_KEY_ENABLED(q, u.prim)
    BY <2>1, <2>2, <2>5, <2>6, NothingToDo
  <2>8. QED
    BY <2>7 DEF DECRYPT_KEY_ENABLED
<1>5. QED
  BY <1>1, <1>2, <1>3, <1>4 DEF Even

\* Time passes.
LEMMA TickStep ==
  ASSUME Types, Types', Timely, Agree, Tick
  PROVE  Agree'
<1> DEFINE old(p) == [prim |-> Older(ses[p].prim), lame |-> Older(ses[p].lame),
                      age |-> IF ses[p].age < TransitionWindow THEN ses[p].age + 1 ELSE ses[p].age]
<1>1. \A p \in Peer : ses'[p] = old(p) /\ wire'[p] = wire[p]
  BY DEF Tick
<1>2. ASSUME NEW p \in Peer
      PROVE  /\ ses[p] \in Session /\ ses'[p] \in Session /\ wire[p] \in Seq(Packet) /\ Own(p, ses[p])
             /\ Own(p, ses'[p])
             /\ ses[p].prim.due = {} /\ Rounds(p, ses[p].prim) = ses[p].prim
             /\ ses'[p].prim.gen = ses[p].prim.gen /\ ses'[p].prim.st = ses[p].prim.st
             /\ ses'[p].prim.unacked = ses[p].prim.unacked /\ ses'[p].prim.rec = ses[p].prim.rec
             /\ ses'[p].age = IF ses[p].age < TransitionWindow THEN ses[p].age + 1 ELSE ses[p].age
  <2>1. ses[p] \in Session /\ ses'[p] \in Session /\ wire[p] \in Seq(Packet)
    BY DEF Types
  <2>2. Own(p, ses[p])
    BY DEF Agree
  <2>3. ses[p].prim.st # S_ERROR
    BY <2>2, States DEF Own
  <2>4. Punctual(p)
    BY DEF Tick
  <2>5. /\ ses[p].prim.due = {} /\ Rounds(p, ses[p].prim) = ses[p].prim
        /\ ses[p].age >= HandshakeWindow => ses[p].prim.st = S_NORMAL_OP
    BY <2>3, <2>4 DEF Punctual
  <2>6. ses'[p] = old(p)
    BY <1>1
  <2>7. Own(p, ses'[p])
    BY <2>1, <2>2, <2>5, <2>6, OlderOwn
  <2>8. QED
    BY <2>1, <2>2, <2>5, <2>6, <2>7, OlderSession
<1> HIDE DEF old
<1> DEFINE p == Client
           q == Server
<1>3. p \in Peer /\ q \in Peer /\ Other(p) = q /\ Other(q) = p
  BY KeysAssumption DEF KeysAssumption, Peer, Other
<1>4. \/ Even(p, ses[p], ses[q], wire[q]) /\ Even(q, ses[q], ses[p], wire[p])
      \/ Leads(ses[p], ses[q], wire[q], wire[p])
      \/ Leads(ses[q], ses[p], wire[p], wire[q])
  BY <1>3, AgreeCases
<1>5. ASSUME NEW r \in Peer, NEW o \in Peer, o = Other(r),
             Even(r, ses[r], ses[o], wire[o]), Even(o, ses[o], ses[r], wire[r])
      PROVE  Even(r, ses'[r], ses'[o], wire'[o])
  <2>1. 1 \in ses[r].prim.rec => ses[o].prim.st >= S_SENT_KEY
    BY <1>5 DEF Even, Fits
  <2>2. wire'[o] = wire[o]
    BY <1>1
  <2>3. Even(r, ses'[r], ses'[o], wire[o])
    BY <1>2, <1>5, <2>1, OlderEven
  <2>4. QED
    BY <2>2, <2>3
<1>6. ASSUME NEW r \in Peer, NEW o \in Peer, o = Other(r), Leads(ses[r], ses[o], wire[o], wire[r])
      PROVE  Leads(ses'[r], ses'[o], wire'[o], wire'[r])
  <2>1. wire'[o] = wire[o] /\ wire'[r] = wire[r]
    BY <1>1
  <2>2. ses'[o].age > HandshakeWindow
    <3>1. ses[o].age \in Nat /\ HandshakeWindow \in Nat
      BY <1>2, SessionNumbers, Sizes
    <3>2. ses[o].age > HandshakeWindow
      BY <1>6 DEF Leads
    <3>3. ses'[o].age = IF ses[o].age < TransitionWindow THEN ses[o].age + 1 ELSE ses[o].age
      BY <1>2
    <3>4. QED
      BY <3>1, <3>2, <3>3
  <2>3. /\ ses'[r].prim.gen = ses[r].prim.gen /\ ses'[r].prim.st = ses[r].prim.st
        /\ ses'[r].prim.unacked = ses[r].prim.unacked /\ ses'[r].prim.rec = ses[r].prim.rec
        /\ ses'[o].prim.gen = ses[o].prim.gen
    BY <1>2
  <2>4. QED
    BY <1>6, <2>1, <2>2, <2>3 DEF Leads
<1>7. Own(p, ses'[p]) /\ Own(q, ses'[q])
  BY <1>2, <1>3
<1> HIDE DEF p, q
<1>8. CASE Even(p, ses[p], ses[q], wire[q]) /\ Even(q, ses[q], ses[p], wire[p])
  <2>1. Even(p, ses'[p], ses'[q], wire'[q]) /\ Even(q, ses'[q], ses'[p], wire'[p])
    BY <1>3, <1>5, <1>8
  <2>2. QED
    BY <1>3, <1>7, <2>1, AgreeEven
<1>9. CASE Leads(ses[p], ses[q], wire[q], wire[p])
  <2>1. Leads(ses'[p], ses'[q], wire'[q], wire'[p])
    BY <1>3, <1>6, <1>9
  <2>2. QED
    BY <1>3, <1>7, <2>1, AgreeLeads
<1>10. CASE Leads(ses[q], ses[p], wire[p], wire[q])
  <2>1. Leads(ses'[q], ses'[p], wire'[p], wire'[q])
    BY <1>3, <1>6, <1>10
  <2>2. QED
    BY <1>3, <1>7, <2>1, AgreeLeads
<1>11. QED
  BY <1>4, <1>8, <1>9, <1>10

-----------------------------------------------------------------------------
(***************************************************************************)
(* The invariant holds                                                     *)
(***************************************************************************)
\* tls_process of one side leaves the other side alone.
LEMMA RunOthers ==
  ASSUME Types, NEW p \in Peer, NEW s \in Session, Run(p, s), NEW o \in Peer, o # p
  PROVE  ses'[o] = ses[o]
<1> DEFINE b == Buried(s)
<1>1. b \in Session /\ Rounds(p, b.prim) \in Key
  BY BuriedType, SessionFields, RoundsType
<1>2. \/ ses' = [ses EXCEPT ![p] = TimedOut(b)]
      \/ Output(p, b, Rounds(p, b.prim))
  BY DEF Run
<1> HIDE DEF b
<1>3. CASE ses' = [ses EXCEPT ![p] = TimedOut(b)]
  BY <1>3 DEF Types
<1>4. CASE Output(p, b, Rounds(p, b.prim))
  <2>1. PICK e \in Key : ses' = [ses EXCEPT ![p] = [b EXCEPT !.prim = e]]
    BY <1>1, <1>4, OutputIs
  <2>2. QED
    BY <2>1 DEF Types
<1>5. QED
  BY <1>2, <1>3, <1>4

\* A failed negotiation stays failed.
LEMMA FailedSticks ==
  ASSUME Types, Failed, [Next]_vars
  PROVE  Failed'
<1>1. PICK o \in Peer : ses[o].prim.st = S_ERROR
  BY DEF Failed
<1>2. ses[o] \in Session /\ ses[o].prim \in Key /\ ses \in [Peer -> Session]
  BY SessionFields DEF Types
<1> SUFFICES ses'[o].prim.st = S_ERROR
  BY DEF Failed
<1>3. CASE Tick
  <2>1. ses'[o].prim = Older(ses[o].prim)
    BY <1>3 DEF Tick
  <2>2. QED
    BY <1>1, <1>2, <2>1, OlderFields
<1>4. ASSUME NEW p \in Peer, tls_process(p) PROVE ses'[o].prim.st = S_ERROR
  <2>1. p # o /\ ses[p] \in Session /\ Run(p, ses[p])
    BY <1>1, <1>4 DEF tls_process, Types
  <2>2. QED
    BY <1>1, <2>1, RunOthers
<1>5. ASSUME NEW p \in Peer, Renegotiate(p) PROVE ses'[o].prim.st = S_ERROR
  <2>1. /\ p # o /\ ses[p] \in Session /\ ses[p].prim.gen < MaxGen
        /\ Run(p, key_state_soft_reset(ses[p]))
    BY <1>1, <1>5, States DEF Renegotiate, Types
  <2>2. key_state_soft_reset(ses[p]) \in Session
    BY <2>1, ResetType
  <2>3. QED
    BY <1>1, <2>1, <2>2, RunOthers
<1>6. ASSUME NEW p \in Peer, NEW n \in {0, 1}, Expire(p, n) PROVE ses'[o].prim.st = S_ERROR
  <2> DEFINE k == [ses[p].prim EXCEPT !.due = ses[p].prim.due \cup {n}]
  <2>1. ses' = [ses EXCEPT ![p] = [ses[p] EXCEPT !.prim = k]] /\ ses[p] \in Session
    BY <1>6, SessionFields DEF Expire, Types, Session, Key
  <2>2. k.st = ses[p].prim.st
    BY <2>1, SessionFields DEF Key
  <2> HIDE DEF k
  <2>3. CASE p = o
    BY <1>1, <1>2, <2>1, <2>2, <2>3 DEF Session
  <2>4. CASE p # o
    BY <1>1, <1>2, <2>1, <2>4
  <2>5. QED
    BY <2>3, <2>4
<1>7. ASSUME NEW p \in Peer, NEW i \in 1..Len(wire[p]), Arrive(p, i) PROVE ses'[o].prim.st = S_ERROR
  <2> DEFINE m == wire[p][i]
             s == IF IsRequest(p, m) THEN key_state_soft_reset(ses[p]) ELSE ses[p]
             t == IF s.prim.st # S_ERROR /\ KeyId(s.prim.gen) = m.id
                    THEN [s EXCEPT !.prim = Received(s.prim, m)] ELSE s
  <2>1. ses' = [ses EXCEPT ![p] = t]
    BY <1>7 DEF Arrive, tls_pre_decrypt
  <2>2. CASE p = o
    <3>1. ~IsRequest(p, m)
      BY <1>1, <2>2, States DEF IsRequest, DECRYPT_KEY_ENABLED
    <3>2. t = ses[o]
      BY <1>1, <2>2, <3>1
    <3> HIDE DEF t
    <3>3. QED
      BY <1>1, <1>2, <2>1, <2>2, <3>2
  <2> HIDE DEF t
  <2>3. CASE p # o
    BY <1>1, <1>2, <2>1, <2>3
  <2>4. QED
    BY <2>2, <2>3
<1>8. CASE UNCHANGED ses
  BY <1>1, <1>8
<1>9. \A p \in Peer : Lose(p) => UNCHANGED ses
  BY DEF Lose
<1>10. QED
  BY <1>3, <1>4, <1>5, <1>6, <1>7, <1>8, <1>9 DEF Next, vars

\* With key 0 in use on both sides, and nothing on its way.
LEMMA InitAgree ==
  ASSUME Init, Timely
  PROVE  Agree
<1> DEFINE k == [key_state_init(0) EXCEPT !.st = S_NORMAL_OP, !.rec = {0, 1}]
           s == [prim |-> k, lame |-> Freed, age |-> TransitionWindow]
<1>1. \A p \in Peer : ses[p] = s /\ wire[p] = <<>>
  BY DEF Init
<1>2. /\ k.gen = 0 /\ k.st = S_NORMAL_OP /\ k.unacked = {} /\ k.due = {} /\ k.rec = {0, 1}
      /\ k.owe = {} /\ k.wait = 0
  BY DEF key_state_init
<1>3. s.prim = k /\ s.lame.st = S_UNDEF /\ s.age = TransitionWindow
  BY DEF Freed, key_state_init
<1> HIDE DEF k, s
<1>4. /\ HandshakeWindow \in Nat \ {0} /\ TransitionWindow \in Nat /\ HandshakeWindow < TransitionWindow
  BY TimelySizes
<1>5. ASSUME NEW p \in Peer PROVE Own(p, s)
  BY <1>2, <1>3, <1>4, States DEF Own
<1>6. Fits(k, k, <<>>)
  BY <1>2, States DEF Fits, InFlight
<1>7. ASSUME NEW p \in Peer PROVE Even(p, s, s, <<>>)
  BY <1>2, <1>3, <1>4, <1>6, States DEF Even, DECRYPT_KEY_ENABLED
<1>8. \A p \in Peer : Other(p) \in Peer
  BY Others
<1>9. QED
  BY <1>1, <1>5, <1>7, <1>8 DEF Agree

\* Every step keeps the invariant.
LEMMA NextKeyInv ==
  ASSUME Types, Types', Timely, KeyInv, [Next]_vars
  PROVE  KeyInv'
<1>1. CASE Failed
  BY <1>1, FailedSticks DEF KeyInv
<1>2. CASE Agree
  <2>1. CASE Tick
    BY <1>2, <2>1, TickStep DEF KeyInv
  <2>2. ASSUME NEW p \in Peer, tls_process(p) PROVE KeyInv'
    BY <1>2, <2>2, ProcessStep DEF KeyInv
  <2>3. ASSUME NEW p \in Peer, Renegotiate(p) PROVE KeyInv'
    BY <1>2, <2>3, RenegotiateStep DEF KeyInv
  <2>4. ASSUME NEW p \in Peer, Lose(p) PROVE KeyInv'
    <3>1. wire[p] # <<>> /\ wire' = [wire EXCEPT ![p] = Tail(wire[p])] /\ UNCHANGED ses
      BY <2>4 DEF Lose
    <3>2. QED
      BY <1>2, <3>1, GoneStep DEF KeyInv
  <2>5. ASSUME NEW p \in Peer, NEW n \in {0, 1}, Expire(p, n) PROVE KeyInv'
    BY <1>2, <2>5, ExpireStep DEF KeyInv
  <2>6. ASSUME NEW p \in Peer, NEW i \in 1..Len(wire[p]), Arrive(p, i) PROVE KeyInv'
    BY <1>2, <2>6, ArriveStep DEF KeyInv
  <2>7. CASE UNCHANGED vars
    BY <1>2, <2>7 DEF vars, KeyInv, Agree
  <2>8. QED
    BY <2>1, <2>2, <2>3, <2>4, <2>5, <2>6, <2>7 DEF Next
<1>3. QED
  BY <1>1, <1>2 DEF KeyInv

-----------------------------------------------------------------------------
(***************************************************************************)
(* What the invariant says of the data channel                             *)
(***************************************************************************)
\* The key to encrypt with: the new one once it is in use and its handshake window
\* is over, until then the old one.
LEMMA EncryptIs ==
  ASSUME Types, Timely, NEW p \in Peer, Own(p, ses[p])
  PROVE  LET s == ses[p] IN
           \/ tls_pre_encrypt(p) = {s.prim} /\ s.prim.st >= S_ACTIVE /\ s.prim.wait = 0
           \/ /\ tls_pre_encrypt(p) = {s.lame} /\ s.lame.st >= S_ACTIVE /\ s.lame.gen + 1 = s.prim.gen
              /\ s.age <= HandshakeWindow
<1> DEFINE s == ses[p]
           usable == {k \in {s.prim, s.lame} : k.st >= S_ACTIVE}
<1>1. s \in Session
  BY DEF Types
<1>2. /\ s.age \in Nat /\ s.prim.st \in Int /\ s.prim.wait \in Nat
      /\ HandshakeWindow \in Nat \ {0} /\ TransitionWindow \in Nat /\ HandshakeWindow < TransitionWindow
  BY <1>1, SessionNumbers, TimelySizes
<1>3. CASE s.prim.st >= S_ACTIVE /\ s.prim.wait = 0
  <2>1. s.prim \in usable
    BY <1>3
  <2>2. tls_pre_encrypt(p) = {s.prim}
    BY <1>3, <2>1 DEF tls_pre_encrypt
  <2>3. QED
    BY <1>3, <2>2
<1>4. CASE ~(s.prim.st >= S_ACTIVE /\ s.prim.wait = 0)
  <2>1. s.age <= HandshakeWindow
    <3>1. CASE s.age > HandshakeWindow
      <4>1. s.prim.st = S_NORMAL_OP
        BY <3>1 DEF Own
      <4>2. s.prim.wait = 0
        BY <1>2, <3>1, <4>1, States DEF Own
      <4>3. QED
        BY <1>4, <4>1, <4>2, States
    <3>2. QED
      BY <1>2, <3>1
  <2>2. s.age < TransitionWindow
    BY <1>2, <2>1
  <2>3. s.lame.st >= S_ACTIVE
    BY <2>2 DEF Own
  <2>4. s.lame.gen + 1 = s.prim.gen /\ s.lame.wait = 0
    BY <2>3 DEF Own
  <2>5. s.lame \in usable /\ ~(s.prim \in usable /\ s.prim.wait = 0)
    BY <1>4, <2>3
  <2>6. tls_pre_encrypt(p) = {s.lame}
    BY <2>4, <2>5 DEF tls_pre_encrypt
  <2>7. QED
    BY <2>1, <2>3, <2>4, <2>6
<1>5. QED
  BY <1>3, <1>4

\* A packet under an id is decrypted with the primary key of that id, if it is
\* there, else with the lame duck.
LEMMA DecryptIs ==
  ASSUME Types, NEW q \in Peer, Own(q, ses[q]), NEW gen \in Nat
  PROVE  LET u == ses[q] IN
           /\ DECRYPT_KEY_ENABLED(q, u.prim) /\ u.prim.gen = gen
                => \E d \in DataKey(q, KeyId(gen)) : d.gen = gen
           /\ u.prim.gen = gen + 1 /\ u.lame.gen = gen /\ u.lame.st >= S_ACTIVE
                => \E d \in DataKey(q, KeyId(gen)) : d.gen = gen
<1> DEFINE u == ses[q]
           fits(k) == DECRYPT_KEY_ENABLED(q, k) /\ KeyId(k.gen) = KeyId(gen)
<1>1. u \in Session
  BY DEF Types
<1>2. u.prim.st \in Int /\ u.lame.st \in Int
  BY <1>1, SessionNumbers
<1>3. ASSUME DECRYPT_KEY_ENABLED(q, u.prim), u.prim.gen = gen
      PROVE  \E d \in DataKey(q, KeyId(gen)) : d.gen = gen
  <2>1. Initialized(q, u.prim)
    BY <1>3 DEF Own, Initialized
  <2>2. fits(u.prim)
    BY <1>3
  <2>3. DataKey(q, KeyId(gen)) = {k \in {u.prim} : Initialized(q, k)}
    BY <2>2 DEF DataKey
  <2>4. QED
    BY <1>3, <2>1, <2>3
<1>4. ASSUME u.prim.gen = gen + 1, u.lame.gen = gen, u.lame.st >= S_ACTIVE
      PROVE  \E d \in DataKey(q, KeyId(gen)) : d.gen = gen
  <2>1. DECRYPT_KEY_ENABLED(q, u.lame) /\ Initialized(q, u.lame)
    BY <1>2, <1>4, States DEF DECRYPT_KEY_ENABLED, Initialized
  <2>2. fits(u.lame) /\ ~fits(u.prim)
    BY <1>4, <2>1, NextId
  <2>3. DataKey(q, KeyId(gen)) = {k \in {u.lame} : fits(k) /\ Initialized(q, k)}
    BY <2>2 DEF DataKey
  <2>4. QED
    BY <1>4, <2>1, <2>2, <2>3
<1>5. QED
  BY <1>3, <1>4

\* There is a key to send with.
LEMMA KeyInvAlways ==
  ASSUME Types, Timely, KeyInv
  PROVE  AlwaysAKey
<1> SUFFICES ASSUME Agree, NEW p \in Peer PROVE tls_pre_encrypt(p) # {}
  BY DEF KeyInv, AlwaysAKey
<1>1. Own(p, ses[p])
  BY DEF Agree
<1>2. QED
  BY <1>1, EncryptIs

\* And the other side has it.
LEMMA KeyInvFlows ==
  ASSUME Types, Timely, KeyInv
  PROVE  DataFlows
<1> SUFFICES ASSUME Agree, NEW p \in Peer, NEW k \in tls_pre_encrypt(p)
             PROVE  \E d \in DataKey(Other(p), KeyId(k.gen)) : d.gen = k.gen
  BY DEF KeyInv, DataFlows
<1> DEFINE q == Other(p)
           s == ses[p]
           u == ses[q]
<1>1. q \in Peer /\ Other(q) = p
  BY Others
<1>2. s \in Session /\ u \in Session
  BY <1>1 DEF Types
<1>3. /\ Own(p, s) /\ Own(q, u)
      /\ \/ Even(p, s, u, wire[q]) /\ Even(q, u, s, wire[p])
         \/ Leads(s, u, wire[q], wire[p])
         \/ Leads(u, s, wire[p], wire[q])
  BY AgreeCases
<1>4. \/ k = s.prim /\ s.prim.st >= S_ACTIVE /\ s.prim.wait = 0
      \/ k = s.lame /\ s.lame.gen + 1 = s.prim.gen /\ s.age <= HandshakeWindow /\ s.prim.gen \in Nat
  BY <1>2, <1>3, EncryptIs, SessionNumbers
<1>5. /\ s.age \in Nat /\ u.age \in Nat /\ s.prim.gen \in Nat /\ s.lame.gen \in Nat /\ u.prim.gen \in Nat
      /\ u.lame.gen \in Nat /\ s.prim.st \in Int /\ u.prim.st \in Int /\ k.gen \in Nat
      /\ u.age <= TransitionWindow
  BY <1>2, <1>4, SessionNumbers
<1>6. /\ HandshakeWindow \in Nat \ {0} /\ TransitionWindow \in Nat
      /\ 2 * HandshakeWindow <= TransitionWindow /\ HandshakeWindow < TransitionWindow
  BY TimelySizes
<1>7. /\ DECRYPT_KEY_ENABLED(q, u.prim) /\ u.prim.gen = k.gen
           => \E d \in DataKey(q, KeyId(k.gen)) : d.gen = k.gen
      /\ u.prim.gen = k.gen + 1 /\ u.lame.gen = k.gen /\ u.lame.st >= S_ACTIVE
           => \E d \in DataKey(q, KeyId(k.gen)) : d.gen = k.gen
  BY <1>1, <1>3, <1>5, DecryptIs
<1>8. u.age < TransitionWindow => u.lame.st >= S_ACTIVE /\ u.lame.gen + 1 = u.prim.gen
  BY <1>3 DEF Own
<1>9. u.age > HandshakeWindow => u.prim.st = S_NORMAL_OP
  BY <1>3 DEF Own
<1>10. CASE Even(p, s, u, wire[q]) /\ Even(q, u, s, wire[p])
  <2>1. /\ s.prim.gen = u.prim.gen
        /\ s.prim.st >= S_ACTIVE /\ s.prim.wait = 0 => DECRYPT_KEY_ENABLED(q, u.prim)
        /\ u.age >= s.age + HandshakeWindow => u.prim.st < S_ACTIVE
    BY <1>10 DEF Even
  <2>2. CASE k = s.prim /\ s.prim.st >= S_ACTIVE /\ s.prim.wait = 0
    BY <1>7, <2>1, <2>2
  <2>3. CASE k = s.lame /\ s.lame.gen + 1 = s.prim.gen /\ s.age <= HandshakeWindow
    <3>1. u.age < TransitionWindow
      BY <1>5, <1>6, <1>9, <2>1, <2>3, States
    <3>2. u.prim.gen = k.gen + 1 /\ u.lame.gen = k.gen /\ u.lame.st >= S_ACTIVE
      BY <1>5, <1>8, <2>1, <2>3, <3>1
    <3>3. QED
      BY <1>7, <3>2
  <2>4. QED
    BY <1>4, <2>2, <2>3
<1>11. CASE Leads(s, u, wire[q], wire[p])
  <2>1. s.prim.gen = u.prim.gen + 1 /\ s.prim.st = S_PRE_START /\ u.age > HandshakeWindow
    BY <1>11 DEF Leads
  <2>2. k = s.lame /\ s.lame.gen + 1 = s.prim.gen
    BY <1>4, <2>1, States
  <2>3. u.prim.gen = k.gen
    BY <1>5, <2>1, <2>2
  <2>4. DECRYPT_KEY_ENABLED(q, u.prim)
    BY <1>9, <2>1, States DEF DECRYPT_KEY_ENABLED
  <2>5. QED
    BY <1>7, <2>3, <2>4
<1>12. CASE Leads(u, s, wire[p], wire[q])
  <2>1. u.prim.gen = s.prim.gen + 1 /\ u.prim.st = S_PRE_START /\ s.age > HandshakeWindow
    BY <1>12 DEF Leads
  <2>2. k = s.prim
    BY <1>4, <1>5, <1>6, <2>1
  <2>3. u.age < TransitionWindow
    BY <1>5, <1>6, <1>9, <2>1, States
  <2>4. u.lame.gen = k.gen /\ u.lame.st >= S_ACTIVE /\ u.prim.gen = k.gen + 1
    BY <1>5, <1>8, <2>1, <2>2, <2>3
  <2>5. QED
    BY <1>7, <2>4
<1>13. QED
  BY <1>3, <1>10, <1>11, <1>12

\* On a network that keeps the order, and with keys that are used for two handshake
\* windows at least, tls_pre_encrypt finds a key all the time: while a negotiation
\* runs, the old key is still in its transition window.
THEOREM KeyIsThere ==
  ASSUME Timely
  PROVE  Spec => []AlwaysAKey
<1>1. Init => Types /\ KeyInv
  BY InitTypes, InitAgree DEF KeyInv
<1>2. (Types /\ KeyInv) /\ [Next]_vars => (Types /\ KeyInv)'
  <2> SUFFICES ASSUME Types, KeyInv, [Next]_vars PROVE Types' /\ KeyInv'
    OBVIOUS
  <2>1. Types'
    BY NextTypes
  <2>2. QED
    BY <2>1, NextKeyInv
<1>3. Types /\ KeyInv => AlwaysAKey
  BY KeyInvAlways
<1>4. QED
  BY <1>1, <1>2, <1>3, PTL DEF Spec

\* Under the same conditions, and whatever is lost, a data packet sent now finds the
\* key it was encrypted with at the other side. The hold of tls_pre_encrypt until
\* auth_deferred_expire is what makes this true: at the end of its handshake window
\* a key is in use at both ends, or the negotiation has failed.
THEOREM DataIsDecrypted ==
  ASSUME Timely
  PROVE  Spec => []DataFlows
<1>1. Init => Types /\ KeyInv
  BY InitTypes, InitAgree DEF KeyInv
<1>2. (Types /\ KeyInv) /\ [Next]_vars => (Types /\ KeyInv)'
  <2> SUFFICES ASSUME Types, KeyInv, [Next]_vars PROVE Types' /\ KeyInv'
    OBVIOUS
  <2>1. Types'
    BY NextTypes
  <2>2. QED
    BY <2>1, NextKeyInv
<1>3. Types /\ KeyInv => DataFlows
  BY KeyInvFlows
<1>4. QED
  BY <1>1, <1>2, <1>3, PTL DEF Spec
=============================================================================
