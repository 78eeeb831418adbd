---------------------------- MODULE ReplayWindow ----------------------------
(***************************************************************************)
(* The packet ids of OpenVPN's data and control packets (packet_id.c): the *)
(* sender numbers what it writes, and the receiver keeps a sliding window  *)
(* of the ids it has seen, so that over a network that loses, reorders and *)
(* duplicates no packet is accepted twice (crypto_check_replay in          *)
(* crypto.c). Over TCP there is no window, and ids must follow each other. *)
(*                                                                         *)
(* Each side has its own clock, which openvpn keeps from going back. The   *)
(* network is the set of all packets sent: any of them may arrive at any   *)
(* time, again, or never.                                                  *)
(***************************************************************************)
EXTENDS Integers

CONSTANTS
  PACKET_ID_MAX,       \* UINT32_MAX
  SEQ_REAP_INTERVAL,   \* 5 in the code
  Options,             \* sessions: long_form, seq_backtrack, time_backtrack
  StartTime,           \* the clocks when the session starts
  MaxSendTime,         \* bound: the sender's clock
  MaxTime              \* bound: the receiver's

SEQ_UNSEEN == 0
SEQ_EXPIRED == 1

ASSUME ReplayAssumption ==
  /\ PACKET_ID_MAX \in Nat \ {0}
  /\ SEQ_REAP_INTERVAL \in Nat
  /\ Options \subseteq [long_form : BOOLEAN, seq_backtrack : Nat, time_backtrack : Nat]
  /\ StartTime \in Nat /\ StartTime > SEQ_EXPIRED
  /\ MaxSendTime \in Nat /\ MaxTime \in Nat

VARIABLES
  opt,        \* the options of this session
  sendNow,    \* now, at the sender
  now,        \* now, at the receiver
  send,       \* struct packet_id_send
  rec,        \* struct packet_id_rec
  sent,       \* the packet ids on the network
  accepted    \* history: what crypto_check_replay accepted, and when

vars == <<opt, sendNow, now, send, rec, sent, accepted>>

Id == 1..PACKET_ID_MAX

\* struct packet_id_net; id 0 is never sent.
Pin == [time : Nat, id : Id]

\* seen[i] is CIRC_LIST_ITEM(seq_list, id - i), for the size ids up to id.
Window(id, size) == (id - size + 1)..id

NoCapacity(a, b) == a       \* mutant: the list grows beyond x_cap
Smaller(a, b) == IF a < b THEN a ELSE b

(***************************************************************************)
(* The receiver                                                            *)
(***************************************************************************)
packet_id_test(r, pin) ==
  IF opt.seq_backtrack > 0
    THEN \/ pin.time > r.time
         \/ pin.time = r.time /\ pin.id > r.id
         \/ /\ pin.time = r.time /\ pin.id \in Window(r.id, r.size)
            /\ r.seen[pin.id] = SEQ_UNSEEN
    ELSE \/ pin.time = r.time /\ (r.id = 0 \/ pin.id = (r.id + 1) % (PACKET_ID_MAX + 1))
         \/ pin.time > r.time /\ pin.id = 1

StartsAnew(r, pin) ==
  \/ r.size = 0 \/ pin.time > r.time
  \/ pin.id >= opt.seq_backtrack /\ pin.id - opt.seq_backtrack > r.id

KeepsId(r, pin) ==       \* mutant: a new window has room for nothing but the packet
  IF StartsAnew(r, pin) THEN pin.id - 1 ELSE r.id
\* The id from which the window is filled up to the packet's.
FilledFrom(r, pin) ==
  CASE ~StartsAnew(r, pin) -> r.id
    [] StartsAnew(r, pin) /\ pin.id > opt.seq_backtrack -> pin.id - opt.seq_backtrack
    [] OTHER -> 0

\* The size of the list that is kept, and the list filled up to the packet.
Kept(r, pin) == IF StartsAnew(r, pin) THEN 0 ELSE r.size
Highest(r, pin) == IF FilledFrom(r, pin) < pin.id THEN pin.id ELSE FilledFrom(r, pin)
SizeWith(r, pin) ==
  Smaller(Kept(r, pin) + (Highest(r, pin) - FilledFrom(r, pin)), opt.seq_backtrack)

MarksNewest(r, pin, i) ==       \* mutant: a late packet is not marked
  IF i = pin.id /\ i > r.id THEN now
  ELSE IF i \in Window(r.id, Kept(r, pin)) THEN r.seen[i] ELSE SEQ_UNSEEN
Marked(r, pin, i) ==
  IF i = pin.id /\ now > SEQ_EXPIRED THEN now
  ELSE IF i \in Window(r.id, Kept(r, pin)) THEN r.seen[i] ELSE SEQ_UNSEEN

\* The window slides up to the packet, and the packet is marked.
packet_id_add(r, pin) ==
  IF opt.seq_backtrack > 0
    THEN [time |-> IF StartsAnew(r, pin) THEN pin.time ELSE r.time, id |-> Highest(r, pin),
          size |-> SizeWith(r, pin), last_reap |-> r.last_reap,
          seen |-> [i \in Window(Highest(r, pin), SizeWith(r, pin)) |-> Marked(r, pin, i)]]
    ELSE [time |-> pin.time, id |-> pin.id, size |-> r.size, last_reap |-> r.last_reap,
          seen |-> r.seen]

ExpiresOne(r, i) ==       \* mutant: the ids below are not expired
  r.seen[i] > SEQ_EXPIRED /\ r.seen[i] + opt.time_backtrack < now
\* From the newest to the first that has expired already: one packet that is too old
\* expires every id below it.
Expires(r, i) ==
  /\ \A j \in Window(r.id, r.size) : j >= i => r.seen[j] # SEQ_EXPIRED
  /\ \E j \in Window(r.id, r.size) :
       j >= i /\ r.seen[j] # SEQ_UNSEEN /\ r.seen[j] + opt.time_backtrack < now

packet_id_reap(r) ==
  [time |-> r.time, id |-> r.id, size |-> r.size, last_reap |-> now,
   seen |-> IF opt.time_backtrack = 0 THEN r.seen
            ELSE [i \in Window(r.id, r.size) |-> IF Expires(r, i) THEN SEQ_EXPIRED ELSE r.seen[i]]]

packet_id_reap_test(r) ==
  IF r.last_reap + SEQ_REAP_INTERVAL <= now THEN packet_id_reap(r) ELSE r

crypto_check_replay(pin) ==
  LET r == packet_id_reap_test(rec) IN
    IF packet_id_test(r, pin)
      THEN /\ rec' = packet_id_add(r, pin)
           /\ accepted' = accepted \cup {[time |-> pin.time, id |-> pin.id, at |-> now]}
      ELSE /\ rec' = r
           /\ UNCHANGED accepted

Receive(pin) ==
  /\ pin \in sent
  /\ crypto_check_replay(pin)
  /\ UNCHANGED <<opt, sendNow, now, send, sent>>

(***************************************************************************)
(* The sender                                                              *)
(***************************************************************************)
RollsOver(s) ==       \* mutant: in the same second
  LET t == IF s.time = 0 THEN sendNow ELSE s.time IN
    CASE s.id < PACKET_ID_MAX -> {[time |-> t, id |-> s.id + 1]}
      [] s.id = PACKET_ID_MAX /\ opt.long_form /\ sendNow >= t -> {[time |-> sendNow, id |-> 1]}
      [] OTHER -> {}
\* An id may roll over only in long form, when the time has moved on.
packet_id_send_update(s) ==
  LET t == IF s.time = 0 THEN sendNow ELSE s.time IN
    CASE s.id < PACKET_ID_MAX -> {[time |-> t, id |-> s.id + 1]}
      [] s.id = PACKET_ID_MAX /\ opt.long_form /\ sendNow > t -> {[time |-> sendNow, id |-> 1]}
      [] OTHER -> {}

\* The short form has no time.
OnWire(s) == [time |-> IF opt.long_form THEN s.time ELSE 0, id |-> s.id]

packet_id_write ==
  \E s \in packet_id_send_update(send) :
    /\ send' = s
    /\ sent' = sent \cup {OnWire(s)}
    /\ UNCHANGED <<opt, sendNow, now, rec, accepted>>

(***************************************************************************)
(* The clocks (external)                                                   *)
(***************************************************************************)
Tick ==
  /\ \/ sendNow < MaxSendTime /\ sendNow' = sendNow + 1 /\ UNCHANGED now
     \/ now < MaxTime /\ now' = now + 1 /\ UNCHANGED sendNow
  /\ UNCHANGED <<opt, send, rec, sent, accepted>>

-----------------------------------------------------------------------------
\* packet_id_init. Without seq_backtrack, time_backtrack stays 0.
Init ==
  /\ opt \in {o \in Options : o.seq_backtrack = 0 => o.time_backtrack = 0}
  /\ sendNow = StartTime /\ now = StartTime
  /\ send = [time |-> 0, id |-> 0]
  /\ rec = [time |-> 0, id |-> 0, size |-> 0, last_reap |-> 0, seen |-> [i \in Window(0, 0) |-> 0]]
  /\ sent = {} /\ accepted = {}

Next == packet_id_write \/ (\E pin \in sent : Receive(pin)) \/ Tick

Spec == Init /\ [][Next]_vars

-----------------------------------------------------------------------------
(***************************************************************************)
(* Properties                                                              *)
(***************************************************************************)
TypeOK ==
  /\ opt \in Options
  /\ sendNow \in Nat /\ now \in Nat
  /\ send \in [time : Nat, id : 0..PACKET_ID_MAX]
  /\ rec.time \in Nat /\ rec.id \in 0..PACKET_ID_MAX /\ rec.last_reap \in Nat
  /\ rec.size \in 0..opt.seq_backtrack
  /\ rec.seen \in [Window(rec.id, rec.size) -> Nat]
  /\ sent \subseteq Pin
  /\ accepted \subseteq [time : Nat, id : Id, at : Nat]

\* What crypto_check_replay would answer now.
Accepts(pin) == packet_id_test(packet_id_reap_test(rec), pin)

\* packet_id.h: "to check that no packet-id (i.e. sequence number + optional timestamp)
\* is accepted more than once". Whatever was accepted is refused from then on.
NoReplay == \A a \in accepted : ~Accepts([time |-> a.time, id |-> a.id])

\* The sender never uses an id again, so that no packet is lost to NoReplay and no IV
\* is used twice; at the end of the ids it waits for the time to move on, or for good.
NextIsFresh == \A s \in packet_id_send_update(send) : OnWire(s) \notin sent

\* A packet that arrives for the first time, less than seq_backtrack behind the highest
\* id, and within time_backtrack of every higher one, is accepted however they come.
LateIsAccepted ==
  opt.seq_backtrack > 0 =>
    \A pin \in sent :
      /\ pin.time = rec.time /\ pin.id > rec.id - opt.seq_backtrack
      /\ \A a \in accepted : /\ <<a.time, a.id>> # <<pin.time, pin.id>>
                             /\ opt.time_backtrack = 0
                                  \/ ~(a.time = pin.time /\ a.id > pin.id
                                       /\ a.at + opt.time_backtrack < now)
      => Accepts(pin)

\* And one that comes more than that behind, or later than time_backtrack and the
\* interval between two reaps, is refused.
TooLateIsRefused ==
  \A pin \in sent, a \in accepted :
    a.time = pin.time /\ a.id > pin.id /\ Accepts(pin) =>
      /\ a.id - pin.id < opt.seq_backtrack
      /\ opt.time_backtrack > 0 => now <= a.at + opt.time_backtrack + SEQ_REAP_INTERVAL
=============================================================================
