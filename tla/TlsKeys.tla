------------------------------ MODULE TlsKeys ------------------------------
(***************************************************************************)
(* Renegotiation of the data channel key between an OpenVPN client and its *)
(* server (ssl.c): the two key states of a session, their way from         *)
(* S_INITIAL to S_ACTIVE over the control channel, the soft resets that    *)
(* either side may start, the retiring of the old key, and the choice of   *)
(* the key that data packets are encrypted and decrypted with.             *)
(*                                                                         *)
(* The session starts with key 0 in use on both sides. A negotiation is    *)
(* two packets in each direction: 0 is the soft reset, 1 stands for the    *)
(* TLS records that end with the key material. When a negotiation fails,   *)
(* the session is replaced by one with another session id, which is not    *)
(* modelled; the old key stays in the lame duck session.                   *)
(***************************************************************************)
EXTENDS Integers, Sequences, FiniteSets

CONSTANTS
  Client, Server,
  KeyIdMask,          \* P_KEY_ID_MASK, 7 in the code
  HandshakeWindow,    \* --hand-window: must_negotiate and auth_deferred_expire
  TransitionWindow,   \* --tran-window: must_die of the old key
  RenegotiateAfter,   \* the age at which a key may be replaced, see Renegotiate
  Reorders,           \* the network reorders and duplicates
  Loses,              \* the network loses
  MaxGen,             \* bound: keys per session
  WireBound           \* bound: no retransmission beyond it

ASSUME KeysAssumption ==
  /\ Client # Server
  /\ KeyIdMask \in Nat /\ KeyIdMask > 1 /\ MaxGen \in Nat /\ WireBound \in Nat
  /\ HandshakeWindow \in Nat \ {0} /\ TransitionWindow \in Nat
  /\ RenegotiateAfter \in 0..TransitionWindow
  /\ Reorders \in BOOLEAN /\ Loses \in BOOLEAN

Peer == {Client, Server}
Other(p) == IF p = Client THEN Server ELSE Client

S_ERROR == -1
S_UNDEF == 0
S_INITIAL == 1
S_PRE_START == 2
S_START == 3
S_SENT_KEY == 4
S_GOT_KEY == 5
S_ACTIVE == 6
S_NORMAL_OP == 7

VARIABLES
  ses,      \* ses[p]: session[TM_ACTIVE] with its primary and lame duck key
  wire,     \* control packets on their way to a peer
  ready     \* tls_multi_process has run since the last packet was read

vars == <<ses, wire, ready>>

\* gen counts the keys of the session; st is ks->state. unacked are the packets in
\* send_reliable and due those to be sent now; rec the packets received and owe
\* those in rec_ack. wait is the time left until auth_deferred_expire.
Key == [gen : 0..MaxGen, st : S_ERROR..S_NORMAL_OP, unacked : SUBSET {0, 1}, due : SUBSET {0, 1},
        rec : SUBSET {0, 1}, owe : SUBSET {0, 1}, wait : 0..HandshakeWindow]

\* age is the time since the soft reset, from which all deadlines count.
Session == [prim : Key, lame : Key, age : 0..TransitionWindow]

Packet == [op : {"SOFT_RESET", "CONTROL", "ACK"}, id : 0..KeyIdMask, n : {0, 1},
           acks : SUBSET {0, 1}]

(***************************************************************************)
(* Key states                                                              *)
(***************************************************************************)
\* session->key_id goes up to the mask and starts again at 1.
NotMasked(gen) == gen       \* mutant
KeyId(gen) == IF gen = 0 THEN 0 ELSE 1 + ((gen - 1) % KeyIdMask)

key_state_init(gen) ==
  [gen |-> gen, st |-> S_INITIAL, unacked |-> {}, due |-> {}, rec |-> {}, owe |-> {}, wait |-> 0]

Freed == [key_state_init(0) EXCEPT !.st = S_UNDEF]

\* The primary key becomes the lame duck, whatever its state.
key_state_soft_reset(s) ==
  [prim |-> key_state_init(s.prim.gen + 1), lame |-> s.prim, age |-> 0]

FULL_SYNC(k) == k.unacked = {} /\ k.owe = {}

DECRYPT_KEY_ENABLED(p, k) == k.st >= IF p = Server THEN S_SENT_KEY ELSE S_GOT_KEY

\* key_ctx_bi is initialised by key_method_2_write of the server, which sets
\* S_SENT_KEY, and by key_method_2_read of the client, which sets S_GOT_KEY.
Initialized(p, k) == DECRYPT_KEY_ENABLED(p, k) /\ ~(p = Server /\ k.st = S_GOT_KEY)

(***************************************************************************)
(* The data channel                                                        *)
(***************************************************************************)
PrimaryOnly(p) == {k \in {ses[p].prim} : k.st >= S_ACTIVE}       \* mutant
NewestActive(p) ==       \* mutant: the new key is used at once
  LET s == ses[p] IN
    IF s.prim.st >= S_ACTIVE THEN {s.prim} ELSE {k \in {s.lame} : k.st >= S_ACTIVE}
\* The first key of the scan that is past auth_deferred_expire, else the first.
tls_pre_encrypt(p) ==
  LET s == ses[p]
      usable == {k \in {s.prim, s.lame} : k.st >= S_ACTIVE}
  IN IF s.prim \in usable /\ s.prim.wait = 0 THEN {s.prim}
     ELSE IF s.lame \in usable /\ (s.lame.wait = 0 \/ s.prim \notin usable) THEN {s.lame}
     ELSE usable \ {s.lame}

\* The key that tls_pre_decrypt finds for a data packet with this id.
DataKey(p, id) ==
  LET fits(k) == DECRYPT_KEY_ENABLED(p, k) /\ KeyId(k.gen) = id
  IN IF fits(ses[p].prim) THEN {k \in {ses[p].prim} : Initialized(p, k)}
     ELSE {k \in {ses[p].lame} : fits(k) /\ Initialized(p, k)}

(***************************************************************************)
(* tls_process                                                             *)
(***************************************************************************)
\* lame_duck_must_die
Buried(s) == IF s.age >= TransitionWindow THEN [s EXCEPT !.lame = Freed] ELSE s

\* The upper part of the loop: what starts or ends a negotiation. The wait for a
\* deferred authentication is min(hand-window, reneg-sec / 2), here hand-window: the
\* two are equal when a key lives for two windows or more.
Advance(p, k) ==
  CASE k.st = S_INITIAL ->
         [k EXCEPT !.st = S_PRE_START, !.unacked = {0}, !.due = {0}, !.wait = HandshakeWindow]
    [] k.st = S_PRE_START /\ FULL_SYNC(k) -> [k EXCEPT !.st = S_START]
    [] k.st = (IF p = Server THEN S_SENT_KEY ELSE S_GOT_KEY) /\ FULL_SYNC(k) ->
         [k EXCEPT !.st = S_ACTIVE]
    [] OTHER -> k

\* The lower part: "Send Key", the ciphertext into send_reliable, "Receive Key".
Exchange(p, k) ==
  CASE k.st = (IF p = Server THEN S_GOT_KEY ELSE S_START) ->
         [k EXCEPT !.st = S_SENT_KEY, !.unacked = @ \cup {1}, !.due = @ \cup {1}]
    [] k.st = (IF p = Server THEN S_START ELSE S_SENT_KEY) /\ {0, 1} \subseteq k.rec ->
         [k EXCEPT !.st = S_GOT_KEY]
    [] OTHER -> k

\* One round; with a packet to send the loop is left before its lower part.
Round == [p \in Peer |-> [k \in Key |->
            LET a == Advance(p, k) IN IF a.due # {} THEN a ELSE Exchange(p, a)]]

\* No call makes more than four rounds that change something.
Rounds(p, k) == LET round == Round[p] IN round[round[round[round[k]]]]

\* must_negotiate has passed: an error, or S_NORMAL_OP. tls_multi_process then
\* keeps the lame duck of a failed session if it is in use.
TimedOut(s) ==
  IF s.prim.st >= S_ACTIVE
    THEN [s EXCEPT !.prim.st = S_NORMAL_OP]
    ELSE [s EXCEPT !.prim = [Freed EXCEPT !.gen = s.prim.gen, !.st = S_ERROR],
                   !.lame = IF @.st >= S_ACTIVE THEN @ ELSE Freed]

Transmit(p, m) == wire' = [wire EXCEPT ![Other(p)] = Append(@, m)]

Control(k, n, acks) ==
  [op |-> IF n = 0 THEN "SOFT_RESET" ELSE "CONTROL", id |-> KeyId(k.gen), n |-> n, acks |-> acks]

\* Reliable buffer to the link, or a dedicated ACK, or nothing.
Output(p, s, k) ==
  CASE k.due # {} ->
         LET n == IF 0 \in k.due THEN 0 ELSE 1 IN
           /\ ses' = [ses EXCEPT ![p] = [s EXCEPT !.prim = [k EXCEPT !.due = @ \ {n}, !.owe = {}]]]
           /\ Transmit(p, Control(k, n, k.owe))
    [] k.due = {} /\ k.owe # {} ->
         /\ ses' = [ses EXCEPT ![p] = [s EXCEPT !.prim = [k EXCEPT !.owe = {}]]]
         /\ Transmit(p, [op |-> "ACK", id |-> KeyId(k.gen), n |-> 0, acks |-> k.owe])
    [] OTHER -> ses' = [ses EXCEPT ![p] = [s EXCEPT !.prim = k]] /\ UNCHANGED wire

\* The rest of tls_process after the decision on a soft reset.
Run(p, s0) ==
  LET s == Buried(s0) IN
    IF s.age >= HandshakeWindow /\ s.prim.st \notin {S_INITIAL, S_NORMAL_OP}
      THEN ses' = [ses EXCEPT ![p] = TimedOut(s)] /\ UNCHANGED wire
      ELSE Output(p, s, Rounds(p, s.prim))

tls_process(p) ==
  /\ ses[p].prim.st # S_ERROR
  /\ Run(p, ses[p])
  /\ ready' = [ready EXCEPT ![p] = TRUE]

\* The same call with a soft reset: the key has been used long enough. Of the triggers
\* --reneg-sec alone has a least age; --reneg-bytes, --reneg-pkts and
\* packet_id_close_to_wrapping fire whenever the traffic is there. RenegotiateAfter is
\* the age before which none of them does.
Renegotiate(p) ==
  /\ ses[p].prim.st >= S_ACTIVE /\ ses[p].age >= RenegotiateAfter
  /\ ses[p].prim.gen < MaxGen
  /\ Run(p, key_state_soft_reset(ses[p]))
  /\ ready' = [ready EXCEPT ![p] = TRUE]

\* reliable_send_timeout: an unacknowledged packet is due again.
Expire(p, n) ==
  /\ n \in ses[p].prim.unacked \ ses[p].prim.due
  /\ \A q \in Peer : Len(wire[q]) < WireBound
  /\ ses' = [ses EXCEPT ![p].prim.due = @ \cup {n}]
  /\ UNCHANGED <<wire, ready>>

(***************************************************************************)
(* tls_pre_decrypt: a control packet                                       *)
(***************************************************************************)
\* A soft reset that is taken for a request, whatever key it belongs to.
IsRequest(p, m) == m.op = "SOFT_RESET" /\ DECRYPT_KEY_ENABLED(p, ses[p].prim)

AcksNewOnly(k, m) ==       \* mutant: a replay is not acknowledged
  IF m.op = "ACK" \/ m.n \in k.rec
    THEN [k EXCEPT !.unacked = @ \ m.acks, !.due = @ \ m.acks]
    ELSE [k EXCEPT !.unacked = @ \ m.acks, !.due = @ \ m.acks,
                   !.rec = @ \cup {m.n}, !.owe = @ \cup {m.n}]
\* A control packet is acknowledged even if it is a replay.
Received(k, m) ==
  IF m.op = "ACK"
    THEN [k EXCEPT !.unacked = @ \ m.acks, !.due = @ \ m.acks]
    ELSE [k EXCEPT !.unacked = @ \ m.acks, !.due = @ \ m.acks,
                   !.rec = @ \cup {m.n}, !.owe = @ \cup {m.n}]

tls_pre_decrypt(p, m) ==
  LET s == IF IsRequest(p, m) THEN key_state_soft_reset(ses[p]) ELSE ses[p] IN
    /\ s.prim.gen <= MaxGen
    /\ ses' = [ses EXCEPT ![p] = IF s.prim.st # S_ERROR /\ KeyId(s.prim.gen) = m.id
                                   THEN [s EXCEPT !.prim = Received(@, m)]
                                   ELSE s]                     \* out of sync
    /\ ready' = [ready EXCEPT ![p] = (ses[p].prim.st = S_ERROR)]

\* The event loop runs tls_multi_process between two packets.
Arrive(p, i) ==
  /\ ready[p]
  /\ i = 1 \/ Reorders
  /\ tls_pre_decrypt(p, wire[p][i])
  /\ \/ wire' = [wire EXCEPT ![p] = SubSeq(@, 1, i - 1) \o SubSeq(@, i + 1, Len(@))]
     \/ Reorders /\ UNCHANGED wire

(***************************************************************************)
(* The network and the clock (external)                                    *)
(***************************************************************************)
Lose(p) ==
  /\ Loses /\ wire[p] # <<>>
  /\ wire' = [wire EXCEPT ![p] = Tail(@)]
  /\ UNCHANGED <<ses, ready>>

\* tls_process has left nothing to do, and is not behind with a deadline.
Punctual(p) ==
  LET s == ses[p] IN
    s.prim.st # S_ERROR =>
      /\ ready[p] /\ s.prim.due = {} /\ s.prim.owe = {} /\ Rounds(p, s.prim) = s.prim
      /\ s.age >= HandshakeWindow => s.prim.st = S_NORMAL_OP
      /\ Buried(s) = s

Older(k) == IF k.wait > 0 THEN [k EXCEPT !.wait = @ - 1] ELSE k

Tick ==
  /\ \A p \in Peer : Punctual(p)
  /\ \E p \in Peer : ses[p].age < TransitionWindow
  /\ ses' = [p \in Peer |->
               [prim |-> Older(ses[p].prim), lame |-> Older(ses[p].lame),
                age |-> IF ses[p].age < TransitionWindow THEN ses[p].age + 1 ELSE ses[p].age]]
  /\ UNCHANGED <<wire, ready>>

-----------------------------------------------------------------------------
\* Key 0 has been in use for a while.
Init ==
  /\ ses = [p \in Peer |-> [prim |-> [key_state_init(0) EXCEPT !.st = S_NORMAL_OP, !.rec = {0, 1}],
                            lame |-> Freed, age |-> TransitionWindow]]
  /\ wire = [p \in Peer |-> <<>>]
  /\ ready = [p \in Peer |-> TRUE]

Next ==
  \/ Tick
  \/ \E p \in Peer : \/ tls_process(p) \/ Renegotiate(p) \/ Lose(p)
                     \/ \E n \in {0, 1} : Expire(p, n)
                     \/ \E i \in 1..Len(wire[p]) : Arrive(p, i)

Spec == Init /\ [][Next]_vars

\* The event loops run, timeouts pass, and from some time on nothing more is lost.
Fairness ==
  /\ \A p \in Peer :
       /\ WF_vars(tls_process(p))
       /\ \A n \in {0, 1} : WF_vars(Expire(p, n))
       /\ WF_vars(\E i \in 1..Len(wire[p]) : Arrive(p, i))
  /\ <>[][~ \E p \in Peer : Lose(p)]_vars

FairSpec == Spec /\ Fairness

-----------------------------------------------------------------------------
(***************************************************************************)
(* Properties                                                              *)
(***************************************************************************)
TypeOK ==
  /\ ses \in [Peer -> Session]
  /\ \A p \in Peer : wire[p] \in Seq(Packet)
  /\ ready \in [Peer -> BOOLEAN]

Failed == \E p \in Peer : ses[p].prim.st = S_ERROR

\* A data packet sent now is decrypted with the key it was encrypted with: the old
\* key is not given up before the other side has moved to the new one, and the new
\* one not used before the other side has it.
DataFlows ==
  ~Failed => \A p \in Peer :
     \A k \in tls_pre_encrypt(p) :
        \E d \in DataKey(Other(p), KeyId(k.gen)) : d.gen = k.gen

\* There is a key to send with all the time.
AlwaysAKey == ~Failed => \A p \in Peer : tls_pre_encrypt(p) # {}

\* Whoever starts a negotiation, both sides or one, ends it with the other in use
\* of the same key, unless time runs out.
KeysMeet ==
  \A g \in 1..MaxGen :
    (\E p \in Peer : ses[p].prim.gen = g) ~>
       \/ Failed
       \/ \A p \in Peer : ses[p].prim.gen >= g /\ ses[p].prim.st >= S_ACTIVE
=============================================================================
