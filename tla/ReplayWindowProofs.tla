------------------------- MODULE ReplayWindowProofs -------------------------
(***************************************************************************)
(* The properties of ReplayWindow for every size of the window, every      *)
(* limit of time, every number of ids and both forms. The parts of the     *)
(* invariant are predicates on a receiver r and a set acc of accepted ids, *)
(* because crypto_check_replay reaps first and adds then.                  *)
(***************************************************************************)
EXTENDS ReplayWindow, TLAPS

Slots(r) == Window(r.id, r.size)

RecOK(r) ==
  /\ r.time \in Nat /\ r.id \in 0..PACKET_ID_MAX
  /\ r.last_reap \in Nat /\ r.last_reap <= now
  /\ r.size \in 0..opt.seq_backtrack
  /\ r.seen \in [Slots(r) -> Nat]

AccOK(acc) ==
  \A a \in acc : a.time \in Nat /\ a.id \in Id /\ a.at \in Nat /\ a.at > SEQ_EXPIRED /\ a.at <= now

\* The window holds all the ids it may, but for the first ones of a sequence.
Full(r) == opt.seq_backtrack > 0 => r.size = Smaller(r.id, opt.seq_backtrack)

\* What was accepted is before the window, or marked in it.
Known(r, acc) ==
  \A a \in acc :
    \/ a.time < r.time
    \/ /\ a.time = r.time /\ a.id <= r.id
       /\ a.id \in Slots(r) => r.seen[a.id] = a.at \/ r.seen[a.id] = SEQ_EXPIRED

\* A mark is the time at which the id was accepted ...
MarkIsTime(r, acc) ==
  \A i \in Slots(r) :
    r.seen[i] # SEQ_UNSEEN /\ r.seen[i] # SEQ_EXPIRED =>
      \E a \in acc : a.time = r.time /\ a.id = i /\ a.at = r.seen[i]

\* ... and what has expired lies below an id that is too old.
ExpiredIsOld(r, acc) ==
  \A i \in Slots(r) :
    r.seen[i] = SEQ_EXPIRED =>
      /\ opt.time_backtrack > 0
      /\ \E a \in acc : a.time = r.time /\ a.id >= i /\ a.at + opt.time_backtrack < now

ExpiredBelow(r) ==
  \A i, j \in Slots(r) : i <= j /\ r.seen[j] = SEQ_EXPIRED => r.seen[i] = SEQ_EXPIRED

\* The last reap missed nothing.
Reaped(r, acc) ==
  opt.time_backtrack > 0 =>
    \A a \in acc : \A i \in Slots(r) :
      a.time = r.time /\ i <= a.id /\ a.at + opt.time_backtrack < r.last_reap
        => r.seen[i] = SEQ_EXPIRED

RecInv(r, acc) ==
  /\ RecOK(r) /\ AccOK(acc) /\ Full(r) /\ Known(r, acc)
  /\ MarkIsTime(r, acc) /\ ExpiredIsOld(r, acc) /\ ExpiredBelow(r) /\ Reaped(r, acc)

SendInv ==
  /\ send \in [time : Nat, id : 0..PACKET_ID_MAX]
  /\ send.time = 0 => send.id = 0 /\ sent = {}
  /\ sent \subseteq Pin
  /\ \A m \in sent : \/ ~opt.long_form /\ m.id <= send.id
                     \/ opt.long_form /\ m.time < send.time
                     \/ opt.long_form /\ m.time = send.time /\ m.id <= send.id

ClockInv ==
  /\ opt \in Options
  /\ sendNow \in Nat /\ sendNow > SEQ_EXPIRED /\ now \in Nat /\ now > SEQ_EXPIRED

Inv ==
  /\ ClockInv /\ SendInv
  /\ accepted \subseteq [time : Nat, id : Id, at : Nat]
  /\ RecInv(rec, accepted)

-----------------------------------------------------------------------------
(***************************************************************************)
(* A reap                                                                  *)
(***************************************************************************)
LEMMA OptType ==
  ASSUME ClockInv
  PROVE  opt.long_form \in BOOLEAN /\ opt.seq_backtrack \in Nat /\ opt.time_backtrack \in Nat
BY ReplayAssumption DEF ClockInv, ReplayAssumption

\* A reap keeps the window and only turns marks into SEQ_EXPIRED.
LEMMA ReapIs ==
  ASSUME NEW r, RecOK(r), ClockInv
  PROVE  LET q == packet_id_reap(r) IN
           /\ q.time = r.time /\ q.id = r.id /\ q.size = r.size /\ q.last_reap = now
           /\ Slots(q) = Slots(r)
           /\ q.seen \in [Slots(r) -> Nat]
           /\ \A i \in Slots(r) :
                q.seen[i] = IF opt.time_backtrack > 0 /\ Expires(r, i)
                              THEN SEQ_EXPIRED ELSE r.seen[i]
BY OptType DEF packet_id_reap, RecOK, Slots, SEQ_EXPIRED, ClockInv

LEMMA ReapKeeps ==
  ASSUME NEW r, NEW acc, RecInv(r, acc), ClockInv
  PROVE  RecInv(packet_id_reap(r), acc)
<1> DEFINE q == packet_id_reap(r)
<1>1. /\ RecOK(r) /\ AccOK(acc) /\ Full(r) /\ Known(r, acc)
      /\ MarkIsTime(r, acc) /\ ExpiredIsOld(r, acc) /\ ExpiredBelow(r) /\ Reaped(r, acc)
  BY DEF RecInv
<1>2. /\ q.time = r.time /\ q.id = r.id /\ q.size = r.size /\ q.last_reap = now
      /\ Slots(q) = Slots(r)
      /\ q.seen \in [Slots(r) -> Nat]
      /\ \A i \in Slots(r) :
           q.seen[i] = IF opt.time_backtrack > 0 /\ Expires(r, i) THEN SEQ_EXPIRED ELSE r.seen[i]
  BY <1>1, ReapIs
<1> HIDE DEF q
<1>3. opt.seq_backtrack \in Nat /\ opt.time_backtrack \in Nat /\ now \in Nat
  BY OptType DEF ClockInv
<1>4. RecOK(q)
  BY <1>1, <1>2, <1>3 DEF RecOK
<1>5. Full(q)
  BY <1>1, <1>2 DEF Full
<1>6. Known(q, acc)
  BY <1>1, <1>2 DEF Known
<1>7. MarkIsTime(q, acc)
  BY <1>1, <1>2 DEF MarkIsTime
<1>8. ExpiredIsOld(q, acc)
  <2> SUFFICES ASSUME NEW i \in Slots(r), q.seen[i] = SEQ_EXPIRED
               PROVE  /\ opt.time_backtrack > 0
                      /\ \E a \in acc : a.time = r.time /\ a.id >= i
                                        /\ a.at + opt.time_backtrack < now
    BY <1>2 DEF ExpiredIsOld
  <2>1. CASE r.seen[i] = SEQ_EXPIRED
    BY <1>1, <2>1 DEF ExpiredIsOld
  <2>2. CASE r.seen[i] # SEQ_EXPIRED
    <3>1. opt.time_backtrack > 0 /\ Expires(r, i)
      BY <1>2, <2>2
    <3>2. PICK j \in Slots(r) : /\ j >= i /\ r.seen[j] # SEQ_UNSEEN /\ r.seen[j] # SEQ_EXPIRED
                                /\ r.seen[j] + opt.time_backtrack < now
      BY <3>1 DEF Expires, Slots
    <3>3. PICK a \in acc : a.time = r.time /\ a.id = j /\ a.at = r.seen[j]
      BY <1>1, <3>2 DEF MarkIsTime
    <3> QED BY <3>1, <3>2, <3>3
  <2> QED BY <2>1, <2>2
<1>9. ExpiredBelow(q)
  <2> SUFFICES ASSUME NEW i \in Slots(r), NEW j \in Slots(r), i <= j, q.seen[j] = SEQ_EXPIRED,
                      r.seen[i] # SEQ_EXPIRED
               PROVE  opt.time_backtrack > 0 /\ Expires(r, i)
    BY <1>2 DEF ExpiredBelow
  <2>1. r.seen[j] # SEQ_EXPIRED
    BY <1>1 DEF ExpiredBelow
  <2>2. opt.time_backtrack > 0 /\ Expires(r, j)
    BY <1>2, <2>1
  <2>3. \A k \in Slots(r) : k >= i => r.seen[k] # SEQ_EXPIRED
    BY <1>1 DEF ExpiredBelow
  <2>4. Slots(r) \subseteq Int
    BY <1>1 DEF Slots, Window, RecOK
  <2> QED BY <2>2, <2>3, <2>4 DEF Expires, Slots
<1>10. Reaped(q, acc)
  <2> SUFFICES ASSUME opt.time_backtrack > 0, NEW a \in acc, NEW i \in Slots(r),
                      a.time = r.time, i <= a.id, a.at + opt.time_backtrack < now,
                      r.seen[i] # SEQ_EXPIRED
               PROVE  Expires(r, i)
    BY <1>2 DEF Reaped
  <2>1. a.id \in Slots(r) /\ a.id <= r.id
    BY <1>1 DEF Known, AccOK, RecOK, Slots, Window, Id
  <2>2. r.seen[a.id] # SEQ_EXPIRED
    BY <1>1, <2>1 DEF ExpiredBelow
  <2>3. r.seen[a.id] = a.at
    BY <1>1, <2>1, <2>2 DEF Known, RecOK
  <2>4. \A k \in Slots(r) : k >= i => r.seen[k] # SEQ_EXPIRED
    BY <1>1 DEF ExpiredBelow
  <2>5. a.at # SEQ_UNSEEN
    BY <1>1 DEF AccOK, SEQ_EXPIRED, SEQ_UNSEEN
  <2>6. a.id >= i
    BY <1>1 DEF AccOK, Id, Slots, Window, RecOK
  <2> QED BY <2>1, <2>3, <2>4, <2>5, <2>6 DEF Expires, Slots
<1> QED BY <1>1, <1>4, <1>5, <1>6, <1>7, <1>8, <1>9, <1>10 DEF RecInv, q

LEMMA ReapTestKeeps ==
  ASSUME NEW r, NEW acc, RecInv(r, acc), ClockInv
  PROVE  LET q == packet_id_reap_test(r) IN
           /\ RecInv(q, acc)
           /\ q.time = r.time /\ q.id = r.id /\ q.size = r.size
           /\ now <= q.last_reap + SEQ_REAP_INTERVAL
<1>1. RecOK(r)
  BY DEF RecInv
<1>2. CASE r.last_reap + SEQ_REAP_INTERVAL <= now
  <2>1. packet_id_reap_test(r) = packet_id_reap(r)
    BY <1>2 DEF packet_id_reap_test
  <2> QED BY <1>1, <2>1, ReapKeeps, ReapIs, ReplayAssumption DEF ReplayAssumption, ClockInv
<1>3. CASE ~(r.last_reap + SEQ_REAP_INTERVAL <= now)
  <2>1. packet_id_reap_test(r) = r
    BY <1>3 DEF packet_id_reap_test
  <2> QED BY <1>1, <1>3, <2>1, ReplayAssumption DEF ReplayAssumption, ClockInv, RecOK
<1> QED BY <1>2, <1>3

-----------------------------------------------------------------------------
(***************************************************************************)
(* An accepted packet                                                      *)
(***************************************************************************)
With(acc, pin) == acc \cup {[time |-> pin.time, id |-> pin.id, at |-> now]}

\* A new window: all of it is unseen but the packet, and nothing accepted is in it.
LEMMA AddAnew ==
  ASSUME NEW r, NEW acc, RecInv(r, acc), ClockInv, opt.seq_backtrack > 0,
         NEW pin \in Pin, packet_id_test(r, pin), StartsAnew(r, pin)
  PROVE  LET q == packet_id_add(r, pin) IN
           /\ q.time = pin.time /\ q.id = pin.id /\ q.last_reap = r.last_reap
           /\ q.size = Smaller(pin.id, opt.seq_backtrack)
           /\ q.seen = [i \in Slots(q) |-> IF i = pin.id THEN now ELSE SEQ_UNSEEN]
           /\ \A a \in acc : \/ a.time < pin.time
                             \/ a.time = pin.time /\ a.id <= pin.id - opt.seq_backtrack
<1>1. /\ RecOK(r) /\ AccOK(acc) /\ Full(r) /\ Known(r, acc)
      /\ opt.seq_backtrack \in Nat /\ now \in Nat /\ now > SEQ_EXPIRED
      /\ PACKET_ID_MAX \in Nat
  BY OptType, ReplayAssumption DEF RecInv, ClockInv, ReplayAssumption
<1>2. /\ FilledFrom(r, pin) = IF pin.id > opt.seq_backtrack THEN pin.id - opt.seq_backtrack ELSE 0
      /\ Kept(r, pin) = 0
  BY DEF FilledFrom, Kept
<1>3. pin.id \in Nat /\ pin.id > 0 /\ pin.time \in Nat
  BY <1>1 DEF Pin, Id
<1>4. /\ Highest(r, pin) = pin.id
      /\ SizeWith(r, pin) = Smaller(pin.id, opt.seq_backtrack)
  BY <1>1, <1>2, <1>3 DEF Highest, SizeWith, Smaller
<1>5. Window(r.id, Kept(r, pin)) = {}
  BY <1>1, <1>2 DEF Window, RecOK
<1>6. \A i : Marked(r, pin, i) = IF i = pin.id THEN now ELSE SEQ_UNSEEN
  BY <1>1, <1>5 DEF Marked
<1>7. \A a \in acc : \/ a.time < pin.time
                     \/ a.time = pin.time /\ a.id <= pin.id - opt.seq_backtrack
  <2>1. pin.time >= r.time
    BY <1>1, <1>3 DEF packet_id_test, RecOK
  <2>2. r.size = 0 => r.id = 0
    BY <1>1 DEF Full, Smaller, RecOK
  <2> QED BY <1>1, <1>3, <2>1, <2>2 DEF Known, StartsAnew, RecOK, AccOK, Id
<1> QED BY <1>4, <1>6, <1>7 DEF packet_id_add, Slots

\* A window that slides: what it held keeps its mark, and the packet was not marked.
LEMMA AddSlides ==
  ASSUME NEW r, NEW acc, RecInv(r, acc), ClockInv, opt.seq_backtrack > 0,
         NEW pin \in Pin, packet_id_test(r, pin), ~StartsAnew(r, pin)
  PROVE  LET q == packet_id_add(r, pin) IN
           /\ pin.time = r.time /\ q.time = r.time /\ q.last_reap = r.last_reap
           /\ q.id = IF r.id < pin.id THEN pin.id ELSE r.id
           /\ q.size = Smaller(q.id, opt.seq_backtrack)
           /\ q.seen = [i \in Slots(q) |-> IF i = pin.id THEN now
                                           ELSE IF i \in Slots(r) THEN r.seen[i] ELSE SEQ_UNSEEN]
           /\ \A i \in Slots(q) : i <= r.id => i \in Slots(r)
           /\ pin.id \in Slots(q)
           /\ pin.id \in Slots(r) => r.seen[pin.id] = SEQ_UNSEEN
<1>1. /\ RecOK(r) /\ Full(r)
      /\ opt.seq_backtrack \in Nat /\ now \in Nat /\ now > SEQ_EXPIRED
      /\ PACKET_ID_MAX \in Nat
  BY OptType, ReplayAssumption DEF RecInv, ClockInv, ReplayAssumption
<1>2. pin.id \in Nat /\ pin.id > 0 /\ pin.time \in Nat
  BY <1>1 DEF Pin, Id
<1>3. /\ FilledFrom(r, pin) = r.id /\ Kept(r, pin) = r.size
      /\ Highest(r, pin) = IF r.id < pin.id THEN pin.id ELSE r.id
  BY DEF FilledFrom, Kept, Highest
<1>4. /\ r.size # 0 /\ pin.time = r.time
      /\ pin.id < opt.seq_backtrack \/ pin.id - opt.seq_backtrack <= r.id
      /\ pin.id > r.id \/ (pin.id \in Slots(r) /\ r.seen[pin.id] = SEQ_UNSEEN)
  BY <1>1, <1>2 DEF StartsAnew, packet_id_test, RecOK, Slots
<1>5. r.size = Smaller(r.id, opt.seq_backtrack) /\ r.id \in Nat
  BY <1>1 DEF Full, RecOK
<1>6. SizeWith(r, pin) = Smaller(Highest(r, pin), opt.seq_backtrack)
  BY <1>1, <1>2, <1>3, <1>5 DEF SizeWith, Smaller
<1>7. \A i : Marked(r, pin, i) = IF i = pin.id THEN now
                                ELSE IF i \in Slots(r) THEN r.seen[i] ELSE SEQ_UNSEEN
  BY <1>1, <1>3 DEF Marked, Slots
<1> DEFINE q == packet_id_add(r, pin)
<1>8. /\ q.time = r.time /\ q.last_reap = r.last_reap
      /\ q.id = Highest(r, pin) /\ q.size = SizeWith(r, pin)
      /\ q.seen = [i \in Slots(q) |-> Marked(r, pin, i)]
  BY DEF packet_id_add, Slots
<1> HIDE DEF q
<1>9. \A i \in Slots(q) : i <= r.id => i \in Slots(r)
  BY <1>1, <1>2, <1>3, <1>5, <1>6, <1>8 DEF Slots, Window, Smaller
<1>10. pin.id \in Slots(q)
  <2>1. CASE r.id < pin.id
    BY <2>1, <1>1, <1>2, <1>3, <1>6, <1>8 DEF Slots, Window, Smaller
  <2>2. CASE ~(r.id < pin.id)
    <3>1. pin.id \in Slots(r)
      BY <2>2, <1>2, <1>4, <1>5
    <3> QED BY <3>1, <2>2, <1>3, <1>5, <1>6, <1>8 DEF Slots
  <2> QED BY <2>1, <2>2
<1>11. pin.id \in Slots(r) => r.seen[pin.id] = SEQ_UNSEEN
  BY <1>1, <1>2, <1>4, <1>5 DEF Slots, Window, RecOK
<1>12. q.seen = [i \in Slots(q) |-> IF i = pin.id THEN now
                                   ELSE IF i \in Slots(r) THEN r.seen[i] ELSE SEQ_UNSEEN]
  BY <1>7, <1>8
<1> QED BY <1>3, <1>4, <1>6, <1>8, <1>9, <1>10, <1>11, <1>12 DEF q

\* Over TCP the next id is the only one that fits.
LEMMA NextId ==
  ASSUME NEW n \in 0..PACKET_ID_MAX, NEW i \in Id, i = (n + 1) % (PACKET_ID_MAX + 1),
         PACKET_ID_MAX \in Nat
  PROVE  i = n + 1
<1>1. CASE n = PACKET_ID_MAX
  <2>1. (n + 1) % (n + 1) = 0
    OBVIOUS
  <2> QED BY <1>1, <2>1 DEF Id
<1>2. CASE n # PACKET_ID_MAX
  <2>1. n + 1 \in 0..PACKET_ID_MAX
    BY <1>2
  <2> QED BY <2>1
<1> QED BY <1>1, <1>2

LEMMA AddKeeps ==
  ASSUME NEW r, NEW acc, RecInv(r, acc), ClockInv,
         NEW pin \in Pin, packet_id_test(r, pin)
  PROVE  RecInv(packet_id_add(r, pin), With(acc, pin))
<1> DEFINE q == packet_id_add(r, pin)
           n == [time |-> pin.time, id |-> pin.id, at |-> now]
<1>1. /\ RecOK(r) /\ AccOK(acc) /\ Full(r) /\ Known(r, acc)
      /\ MarkIsTime(r, acc) /\ ExpiredIsOld(r, acc) /\ ExpiredBelow(r) /\ Reaped(r, acc)
  BY DEF RecInv
<1>2. /\ opt.seq_backtrack \in Nat /\ opt.time_backtrack \in Nat
      /\ now \in Nat /\ now > SEQ_EXPIRED /\ PACKET_ID_MAX \in Nat
  BY OptType, ReplayAssumption DEF ClockInv, ReplayAssumption
<1>3. pin.id \in Nat /\ pin.id \in Id /\ pin.time \in Nat /\ pin.id > 0 /\ pin.id <= PACKET_ID_MAX
  BY <1>2 DEF Pin, Id
<1>4. \A a \in With(acc, pin) : a \in acc \/ (a.time = pin.time /\ a.id = pin.id /\ a.at = now)
  BY DEF With
<1>5. acc \subseteq With(acc, pin) /\ n \in With(acc, pin)
  BY DEF With
<1>6. AccOK(With(acc, pin))
  BY <1>1, <1>2, <1>3, <1>4 DEF AccOK
<1>7. CASE opt.seq_backtrack = 0
  <2>1. /\ q.time = pin.time /\ q.id = pin.id /\ q.size = 0 /\ q.last_reap = r.last_reap
        /\ q.seen = r.seen /\ r.size = 0
    BY <1>1, <1>7 DEF packet_id_add, RecOK
  <2> HIDE DEF q
  <2>2. Slots(q) = {} /\ Slots(r) = {}
    BY <1>1, <1>3, <2>1 DEF Slots, Window, RecOK
  <2>3. RecOK(q)
    BY <1>1, <1>3, <1>7, <2>1, <2>2 DEF RecOK
  <2>4. \/ pin.time = r.time /\ (r.id = 0 \/ pin.id = r.id + 1)
        \/ pin.time > r.time
    <3>1. \/ pin.time = r.time /\ (r.id = 0 \/ pin.id = (r.id + 1) % (PACKET_ID_MAX + 1))
          \/ pin.time > r.time
      BY <1>2, <1>7 DEF packet_id_test
    <3>2. r.id \in 0..PACKET_ID_MAX
      BY <1>1 DEF RecOK
    <3> QED BY <1>2, <1>3, <3>1, <3>2, NextId
  <2>5. Known(q, With(acc, pin))
    <3> SUFFICES ASSUME NEW a \in With(acc, pin)
                 PROVE  \/ a.time < pin.time
                        \/ a.time = pin.time /\ a.id <= pin.id
      BY <2>1, <2>2 DEF Known
    <3>1. CASE a \in acc
      BY <1>1, <1>3, <2>4, <3>1 DEF Known, AccOK, RecOK, Id
    <3> QED BY <1>3, <1>4, <3>1
  <2> QED BY <1>6, <1>7, <2>2, <2>3, <2>5
          DEF q, RecInv, Full, MarkIsTime, ExpiredIsOld, ExpiredBelow, Reaped
<1>8. CASE opt.seq_backtrack > 0 /\ StartsAnew(r, pin)
  <2>1. /\ q.time = pin.time /\ q.id = pin.id /\ q.last_reap = r.last_reap
        /\ q.size = Smaller(pin.id, opt.seq_backtrack)
        /\ q.seen = [i \in Slots(q) |-> IF i = pin.id THEN now ELSE SEQ_UNSEEN]
        /\ \A a \in acc : \/ a.time < pin.time
                          \/ a.time = pin.time /\ a.id <= pin.id - opt.seq_backtrack
    BY <1>8, AddAnew
  <2> HIDE DEF q
  <2>2. \A i \in Slots(q) : i \in Int /\ i > pin.id - opt.seq_backtrack
    BY <1>2, <1>3, <2>1 DEF Slots, Window, Smaller
  <2>3. RecOK(q)
    BY <1>1, <1>2, <1>3, <2>1 DEF RecOK, Smaller, SEQ_UNSEEN
  <2>4. Full(q)
    BY <2>1 DEF Full
  <2>5. Known(q, With(acc, pin))
    <3> SUFFICES ASSUME NEW a \in With(acc, pin)
                 PROVE  \/ a.time < pin.time
                        \/ /\ a.time = pin.time /\ a.id <= pin.id
                           /\ a.id \in Slots(q) => q.seen[a.id] = a.at
      BY <2>1 DEF Known
    <3>1. CASE a \in acc
      BY <1>1, <1>2, <1>3, <2>1, <2>2, <3>1 DEF AccOK, Id
    <3> QED BY <1>3, <1>4, <2>1, <3>1
  <2>6. MarkIsTime(q, With(acc, pin))
    BY <1>5, <2>1 DEF MarkIsTime
  <2>7. \A i \in Slots(q) : q.seen[i] # SEQ_EXPIRED
    BY <1>2, <2>1 DEF SEQ_UNSEEN, SEQ_EXPIRED
  <2>8. ExpiredIsOld(q, With(acc, pin)) /\ ExpiredBelow(q)
    BY <2>7 DEF ExpiredIsOld, ExpiredBelow
  <2>9. Reaped(q, With(acc, pin))
    <3> SUFFICES ASSUME NEW a \in With(acc, pin), NEW i \in Slots(q), a.time = pin.time, i <= a.id,
                        a.at + opt.time_backtrack < r.last_reap
                 PROVE  FALSE
      BY <2>1 DEF Reaped
    <3>1. a \in acc
      BY <1>1, <1>2, <1>4 DEF RecOK
    <3> QED BY <1>1, <1>2, <1>3, <2>1, <2>2, <3>1 DEF AccOK, Id
  <2> QED BY <1>6, <2>3, <2>4, <2>5, <2>6, <2>8, <2>9 DEF q, RecInv
<1>9. CASE opt.seq_backtrack > 0 /\ ~StartsAnew(r, pin)
  <2>1. /\ pin.time = r.time /\ q.time = r.time /\ q.last_reap = r.last_reap
        /\ q.id = IF r.id < pin.id THEN pin.id ELSE r.id
        /\ q.size = Smaller(q.id, opt.seq_backtrack)
        /\ q.seen = [i \in Slots(q) |-> IF i = pin.id THEN now
                                        ELSE IF i \in Slots(r) THEN r.seen[i] ELSE SEQ_UNSEEN]
        /\ \A i \in Slots(q) : i <= r.id => i \in Slots(r)
        /\ pin.id \in Slots(q)
        /\ pin.id \in Slots(r) => r.seen[pin.id] = SEQ_UNSEEN
    BY <1>9, AddSlides
  <2> HIDE DEF q
  <2>2. /\ r.id \in Nat /\ r.time \in Nat /\ Slots(r) \subseteq Int /\ Slots(q) \subseteq Int
        /\ \A i \in Slots(r) : i <= r.id
    BY <1>1, <1>2, <1>3, <2>1 DEF RecOK, Slots, Window, Smaller
  <2>3. RecOK(q)
    BY <1>1, <1>2, <1>3, <2>1 DEF RecOK, Smaller, SEQ_UNSEEN
  <2>4. Full(q)
    BY <2>1 DEF Full
  <2>5. \A i \in Slots(q) : q.seen[i] = SEQ_EXPIRED =>
          i # pin.id /\ i \in Slots(r) /\ r.seen[i] = SEQ_EXPIRED
    BY <1>2, <2>1 DEF SEQ_UNSEEN, SEQ_EXPIRED
  <2>6. \A i \in Slots(q) : i \in Slots(r) /\ r.seen[i] # SEQ_UNSEEN => q.seen[i] = r.seen[i]
    BY <2>1
  <2>7. Known(q, With(acc, pin))
    <3> SUFFICES ASSUME NEW a \in With(acc, pin)
                 PROVE  \/ a.time < r.time
                        \/ /\ a.time = r.time /\ a.id <= q.id
                           /\ a.id \in Slots(q) => q.seen[a.id] = a.at \/ q.seen[a.id] = SEQ_EXPIRED
      BY <2>1 DEF Known
    <3>1. CASE a \in acc
      <4>1. \/ a.time < r.time
            \/ /\ a.time = r.time /\ a.id <= r.id
               /\ a.id \in Slots(r) => r.seen[a.id] = a.at \/ r.seen[a.id] = SEQ_EXPIRED
        BY <1>1, <3>1 DEF Known
      <4>2. a.at # SEQ_UNSEEN /\ a.id \in Nat
        BY <1>1, <1>2, <3>1 DEF AccOK, SEQ_UNSEEN, SEQ_EXPIRED, Id
      <4>3. a.id <= r.id => a.id <= q.id
        BY <1>3, <2>1, <2>2, <4>2
      <4> QED BY <2>1, <2>6, <4>1, <4>2, <4>3 DEF SEQ_UNSEEN, SEQ_EXPIRED
    <3> QED BY <1>3, <1>4, <2>1, <2>2, <3>1
  <2>8. MarkIsTime(q, With(acc, pin))
    <3> SUFFICES ASSUME NEW i \in Slots(q), q.seen[i] # SEQ_UNSEEN, q.seen[i] # SEQ_EXPIRED
                 PROVE  \E a \in With(acc, pin) : a.time = r.time /\ a.id = i /\ a.at = q.seen[i]
      BY <2>1 DEF MarkIsTime
    <3>1. CASE i = pin.id
      BY <1>5, <2>1, <3>1
    <3>2. CASE i # pin.id
      BY <1>1, <1>5, <2>1, <3>2 DEF MarkIsTime
    <3> QED BY <3>1, <3>2
  <2>9. ExpiredIsOld(q, With(acc, pin))
    BY <1>1, <1>5, <2>1, <2>5 DEF ExpiredIsOld
  <2>10. ExpiredBelow(q)
    <3> SUFFICES ASSUME NEW i \in Slots(q), NEW j \in Slots(q), i <= j, q.seen[j] = SEQ_EXPIRED
                 PROVE  q.seen[i] = SEQ_EXPIRED
      BY DEF ExpiredBelow
    <3>1. j \in Slots(r) /\ r.seen[j] = SEQ_EXPIRED
      BY <2>5
    <3>2. i \in Slots(r)
      BY <2>1, <2>2, <3>1
    <3>3. r.seen[i] = SEQ_EXPIRED
      BY <1>1, <3>1, <3>2 DEF ExpiredBelow
    <3> QED BY <2>6, <3>2, <3>3 DEF SEQ_UNSEEN, SEQ_EXPIRED
  <2>11. Reaped(q, With(acc, pin))
    <3> SUFFICES ASSUME opt.time_backtrack > 0, NEW a \in With(acc, pin), NEW i \in Slots(q),
                        a.time = r.time, i <= a.id, a.at + opt.time_backtrack < r.last_reap
                 PROVE  q.seen[i] = SEQ_EXPIRED
      BY <2>1 DEF Reaped
    <3>1. a \in acc
      BY <1>1, <1>2, <1>4 DEF RecOK
    <3>2. i \in Slots(r)
      BY <1>1, <2>1, <2>2, <3>1 DEF Known, AccOK, Id
    <3>3. r.seen[i] = SEQ_EXPIRED
      BY <1>1, <3>1, <3>2 DEF Reaped
    <3> QED BY <2>6, <3>2, <3>3 DEF SEQ_UNSEEN, SEQ_EXPIRED
  <2> QED BY <1>6, <2>3, <2>4, <2>7, <2>8, <2>9, <2>10, <2>11 DEF q, RecInv
<1> QED BY <1>2, <1>7, <1>8, <1>9

-----------------------------------------------------------------------------
(***************************************************************************)
(* The invariant                                                           *)
(***************************************************************************)
LEMMA InitInv == Init => Inv
<1> SUFFICES ASSUME Init PROVE Inv
  OBVIOUS
<1>1. /\ ClockInv
      /\ opt.seq_backtrack \in Nat /\ PACKET_ID_MAX \in Nat
  BY ReplayAssumption DEF Init, ReplayAssumption, ClockInv
<1>2. SendInv /\ accepted = {}
  BY <1>1 DEF Init, SendInv
<1>3. Slots(rec) = {} /\ rec.size = 0 /\ rec.id = 0
  BY DEF Init, Slots, Window
<1>4. RecOK(rec)
  BY <1>1, <1>3 DEF Init, RecOK, ClockInv, Slots
<1>5. AccOK(accepted) /\ Full(rec) /\ Known(rec, accepted)
  BY <1>1, <1>2, <1>3 DEF AccOK, Full, Known, Smaller
<1>6. /\ MarkIsTime(rec, accepted) /\ ExpiredIsOld(rec, accepted)
      /\ ExpiredBelow(rec) /\ Reaped(rec, accepted)
  BY <1>3 DEF MarkIsTime, ExpiredIsOld, ExpiredBelow, Reaped
<1> QED BY <1>1, <1>2, <1>4, <1>5, <1>6 DEF Inv, RecInv

\* RecInv speaks of opt and now, and survives a clock that goes on.
LEMMA LaterKeeps ==
  ASSUME RecInv(rec, accepted), ClockInv,
         UNCHANGED <<opt, rec, accepted>>, now' \in Nat, now' >= now
  PROVE  RecInv(rec, accepted)'
<1>1. /\ RecOK(rec) /\ AccOK(accepted) /\ Full(rec) /\ Known(rec, accepted)
      /\ MarkIsTime(rec, accepted) /\ ExpiredIsOld(rec, accepted)
      /\ ExpiredBelow(rec) /\ Reaped(rec, accepted)
  BY DEF RecInv
<1>2. now \in Nat /\ opt.time_backtrack \in Nat
  BY OptType DEF ClockInv
<1>3. RecOK(rec)'
  BY <1>1, <1>2 DEF RecOK, Slots
<1>4. AccOK(accepted)'
  BY <1>1, <1>2 DEF AccOK
<1>5. ExpiredIsOld(rec, accepted)'
  <2> SUFFICES ASSUME NEW i \in Slots(rec), rec.seen[i] = SEQ_EXPIRED
               PROVE  /\ opt.time_backtrack > 0
                      /\ \E a \in accepted : a.time = rec.time /\ a.id >= i
                                             /\ a.at + opt.time_backtrack < now'
    BY DEF ExpiredIsOld, Slots
  <2>1. opt.time_backtrack > 0
    BY <1>1 DEF ExpiredIsOld
  <2>2. PICK a \in accepted : a.time = rec.time /\ a.id >= i /\ a.at + opt.time_backtrack < now
    BY <1>1 DEF ExpiredIsOld
  <2>3. a.at + opt.time_backtrack < now'
    BY <1>1, <1>2, <2>2 DEF AccOK
  <2> QED BY <2>1, <2>2, <2>3
<1>6. /\ Full(rec)' /\ Known(rec, accepted)' /\ MarkIsTime(rec, accepted)'
      /\ ExpiredBelow(rec)' /\ Reaped(rec, accepted)'
  BY <1>1 DEF Full, Known, MarkIsTime, ExpiredBelow, Reaped, Slots
<1> QED BY <1>3, <1>4, <1>5, <1>6 DEF RecInv

LEMMA ReceiveKeeps ==
  ASSUME Inv, NEW pin \in sent, Receive(pin)
  PROVE  Inv'
<1> DEFINE r == packet_id_reap_test(rec)
<1>1. /\ ClockInv /\ SendInv /\ RecInv(rec, accepted) /\ pin \in Pin
      /\ accepted \subseteq [time : Nat, id : Id, at : Nat]
  BY DEF Inv, SendInv
<1>2. RecInv(r, accepted)
  BY <1>1, ReapTestKeeps
<1> HIDE DEF r
<1>3. ClockInv' /\ SendInv'
  BY <1>1 DEF Receive, ClockInv, SendInv
<1>4. CASE packet_id_test(r, pin)
  <2>1. rec' = packet_id_add(r, pin) /\ accepted' = With(accepted, pin)
    BY <1>4 DEF Receive, crypto_check_replay, With, r
  <2>2. RecInv(packet_id_add(r, pin), With(accepted, pin))
    BY <1>1, <1>2, <1>4, AddKeeps
  <2>3. RecInv(rec', accepted')
    BY <2>1, <2>2
  <2>4. RecInv(rec, accepted)'
    BY <2>3 DEF Receive, RecInv, RecOK, AccOK, Full, Known, MarkIsTime, ExpiredIsOld,
                ExpiredBelow, Reaped, Slots
  <2>5. accepted' \subseteq [time : Nat, id : Id, at : Nat]
    BY <1>1, <2>1 DEF With, Pin, ClockInv
  <2> QED BY <1>3, <2>4, <2>5 DEF Inv
<1>5. CASE ~packet_id_test(r, pin)
  <2>1. rec' = r /\ accepted' = accepted
    BY <1>5 DEF Receive, crypto_check_replay, r
  <2>2. RecInv(rec', accepted')
    BY <1>2, <2>1
  <2>3. RecInv(rec, accepted)'
    BY <2>2 DEF Receive, RecInv, RecOK, AccOK, Full, Known, MarkIsTime, ExpiredIsOld,
                ExpiredBelow, Reaped, Slots
  <2> QED BY <1>1, <1>3, <2>1, <2>3 DEF Inv
<1> QED BY <1>4, <1>5

\* The next id is after everything sent.
LEMMA UpdateIsNext ==
  ASSUME Inv, NEW s \in packet_id_send_update(send)
  PROVE  /\ s \in [time : Nat, id : Id] /\ s.time > 0
         /\ \A m \in sent : \/ ~opt.long_form /\ m.id < s.id
                            \/ opt.long_form /\ m.time < s.time
                            \/ opt.long_form /\ m.time = s.time /\ m.id < s.id
<1>1. /\ send \in [time : Nat, id : 0..PACKET_ID_MAX] /\ sendNow \in Nat /\ sendNow > 0
      /\ PACKET_ID_MAX \in Nat \ {0}
      /\ \A m \in sent : m.id \in Nat /\ m.time \in Nat
  BY ReplayAssumption DEF Inv, SendInv, ClockInv, ReplayAssumption, SEQ_EXPIRED, Pin, Id
<1>2. /\ send.time = 0 => send.id = 0 /\ sent = {}
      /\ \A m \in sent : \/ ~opt.long_form /\ m.id <= send.id
                         \/ opt.long_form /\ m.time < send.time
                         \/ opt.long_form /\ m.time = send.time /\ m.id <= send.id
  BY DEF Inv, SendInv
<1> DEFINE t == IF send.time = 0 THEN sendNow ELSE send.time
<1>3. t \in Nat /\ t > 0 /\ (sent # {} => t = send.time)
  BY <1>1, <1>2
<1>4. \/ send.id < PACKET_ID_MAX /\ s = [time |-> t, id |-> send.id + 1]
      \/ opt.long_form /\ sendNow > t /\ s = [time |-> sendNow, id |-> 1]
  BY <1>1 DEF packet_id_send_update
<1> HIDE DEF t
<1>5. CASE send.id < PACKET_ID_MAX /\ s = [time |-> t, id |-> send.id + 1]
  BY <1>1, <1>2, <1>3, <1>5 DEF Id
<1>6. CASE opt.long_form /\ sendNow > t /\ s = [time |-> sendNow, id |-> 1]
  BY <1>1, <1>2, <1>3, <1>6 DEF Id
<1> QED BY <1>4, <1>5, <1>6

LEMMA WriteKeeps ==
  ASSUME Inv, packet_id_write
  PROVE  Inv'
<1>1. PICK s \in packet_id_send_update(send) :
        /\ send' = s /\ sent' = sent \cup {OnWire(s)}
        /\ UNCHANGED <<opt, sendNow, now, rec, accepted>>
  BY DEF packet_id_write
<1>2. /\ s \in [time : Nat, id : Id] /\ s.time > 0
      /\ \A m \in sent : \/ ~opt.long_form /\ m.id < s.id
                         \/ opt.long_form /\ m.time < s.time
                         \/ opt.long_form /\ m.time = s.time /\ m.id < s.id
  BY UpdateIsNext
<1>3. ClockInv /\ SendInv /\ RecInv(rec, accepted) /\ now \in Nat
  BY DEF Inv, ClockInv
<1>4. RecInv(rec, accepted)' /\ ClockInv'
  BY <1>1, <1>3, LaterKeeps DEF ClockInv
<1>5. OnWire(s) \in Pin /\ OnWire(s).id = s.id /\ (opt.long_form => OnWire(s).time = s.time)
  BY <1>2 DEF OnWire, Pin
<1>6. PACKET_ID_MAX \in Nat /\ opt.long_form \in BOOLEAN
  BY <1>3, OptType, ReplayAssumption DEF ReplayAssumption
<1>7. /\ \A m \in sent : m.id \in Nat /\ m.time \in Nat
      /\ s.id \in 0..PACKET_ID_MAX
  BY <1>2, <1>3, <1>6 DEF SendInv, Pin, Id
<1>8. \A m \in sent' : \/ ~opt.long_form /\ m.id <= s.id
                       \/ opt.long_form /\ m.time < s.time
                       \/ opt.long_form /\ m.time = s.time /\ m.id <= s.id
  <2> SUFFICES ASSUME NEW m \in sent'
               PROVE  \/ ~opt.long_form /\ m.id <= s.id
                      \/ opt.long_form /\ m.time < s.time
                      \/ opt.long_form /\ m.time = s.time /\ m.id <= s.id
    OBVIOUS
  <2>1. CASE m \in sent
    BY <1>2, <1>7, <2>1
  <2>2. CASE m = OnWire(s)
    BY <1>5, <1>6, <1>7, <2>2
  <2> QED BY <1>1, <2>1, <2>2
<1>9. SendInv'
  BY <1>1, <1>2, <1>3, <1>5, <1>7, <1>8 DEF SendInv
<1> QED BY <1>1, <1>4, <1>9 DEF Inv

LEMMA TickKeeps ==
  ASSUME Inv, Tick
  PROVE  Inv'
<1>1. ClockInv /\ SendInv /\ RecInv(rec, accepted) /\ now \in Nat /\ sendNow \in Nat
  BY DEF Inv, ClockInv
<1>2. /\ now' \in Nat /\ now' >= now /\ sendNow' \in Nat /\ sendNow' >= sendNow
      /\ UNCHANGED <<opt, send, rec, sent, accepted>>
  BY <1>1 DEF Tick
<1>3. RecInv(rec, accepted)'
  BY <1>1, <1>2, LaterKeeps
<1>4. ClockInv' /\ SendInv'
  BY <1>1, <1>2 DEF ClockInv, SendInv, SEQ_EXPIRED
<1> QED BY <1>2, <1>3, <1>4 DEF Inv

LEMMA StepInv == Inv /\ [Next]_vars => Inv'
<1> SUFFICES ASSUME Inv, [Next]_vars PROVE Inv'
  OBVIOUS
<1>1. CASE packet_id_write
  BY <1>1, WriteKeeps
<1>2. CASE \E pin \in sent : Receive(pin)
  BY <1>2, ReceiveKeeps
<1>3. CASE Tick
  BY <1>3, TickKeeps
<1>4. CASE UNCHANGED vars
  <2>1. RecInv(rec, accepted)'
    BY <1>4, LaterKeeps DEF Inv, ClockInv, vars
  <2> QED BY <1>4, <2>1 DEF Inv, ClockInv, SendInv, vars
<1> QED BY <1>1, <1>2, <1>3, <1>4 DEF Next

LEMMA AlwaysInv == Spec => []Inv
BY InitInv, StepInv, PTL DEF Spec

-----------------------------------------------------------------------------
(***************************************************************************)
(* The theorems                                                            *)
(***************************************************************************)

\* Every field of packet_id_send and packet_id_rec keeps its type; in particular the list
\* never outgrows the seq_backtrack entries CIRC_LIST_ALLOC gave it.
THEOREM TypeCorrect == Spec => []TypeOK
<1>1. Inv => TypeOK
  BY DEF Inv, ClockInv, SendInv, RecInv, RecOK, TypeOK, Slots
<1> QED BY <1>1, AlwaysInv, PTL

\* crypto_check_replay accepts no packet id twice, whatever the network repeats and when.
THEOREM NoPacketTwice == Spec => []NoReplay
<1>1. Inv => NoReplay
  <2> SUFFICES ASSUME Inv, NEW a \in accepted, Accepts([time |-> a.time, id |-> a.id])
               PROVE  FALSE
    BY DEF NoReplay
  <2> DEFINE r == packet_id_reap_test(rec)
             pin == [time |-> a.time, id |-> a.id]
  <2>1. RecInv(r, accepted) /\ ClockInv
    BY ReapTestKeeps DEF Inv
  <2>2. packet_id_test(r, pin)
    BY DEF Accepts
  <2> HIDE DEF r
  <2>3. /\ RecOK(r) /\ AccOK(accepted) /\ Known(r, accepted)
        /\ PACKET_ID_MAX \in Nat /\ opt.seq_backtrack \in Nat
    BY <2>1, OptType, ReplayAssumption DEF RecInv, ReplayAssumption
  <2>4. a.id \in Id /\ a.time \in Nat /\ a.at > SEQ_EXPIRED /\ a.at \in Nat
    BY <2>3 DEF AccOK
  <2>5. \/ a.time < r.time
        \/ /\ a.time = r.time /\ a.id <= r.id
           /\ a.id \in Slots(r) => r.seen[a.id] # SEQ_UNSEEN
    BY <2>3, <2>4 DEF Known, SEQ_EXPIRED, SEQ_UNSEEN
  <2>6. r.id \in 0..PACKET_ID_MAX /\ r.time \in Nat /\ a.id \in Nat /\ a.id > 0
    BY <2>3, <2>4 DEF RecOK, Id
  <2>7. CASE opt.seq_backtrack > 0
    BY <2>2, <2>5, <2>6, <2>4, <2>7 DEF packet_id_test, Slots
  <2>8. CASE opt.seq_backtrack = 0
    <3>1. a.time = r.time /\ (r.id = 0 \/ a.id = (r.id + 1) % (PACKET_ID_MAX + 1))
      BY <2>2, <2>4, <2>5, <2>6, <2>8 DEF packet_id_test
    <3>2. r.id = 0 \/ a.id = r.id + 1
      BY <2>3, <2>4, <2>6, <3>1, NextId
    <3> QED BY <2>5, <2>6, <3>1, <3>2
  <2> QED BY <2>3, <2>7, <2>8
<1> QED BY <1>1, AlwaysInv, PTL

\* packet_id_send_update gives out no id twice, before and after a rollover.
THEOREM IdsAreFresh == Spec => []NextIsFresh
<1>1. Inv => NextIsFresh
  <2> SUFFICES ASSUME Inv, NEW s \in packet_id_send_update(send), OnWire(s) \in sent
               PROVE  FALSE
    BY DEF NextIsFresh
  <2>1. /\ s \in [time : Nat, id : Id]
        /\ \A m \in sent : \/ ~opt.long_form /\ m.id < s.id
                           \/ opt.long_form /\ m.time < s.time
                           \/ opt.long_form /\ m.time = s.time /\ m.id < s.id
    BY UpdateIsNext
  <2>2. OnWire(s).id = s.id /\ (opt.long_form => OnWire(s).time = s.time)
    BY DEF OnWire
  <2>3. s.id \in Int /\ s.time \in Int
    BY <2>1, ReplayAssumption DEF Id, ReplayAssumption
  <2> QED BY <2>1, <2>2, <2>3
<1> QED BY <1>1, AlwaysInv, PTL

\* A late packet within both limits of the window is accepted, in whatever order they come.
THEOREM LateAccepted == Spec => []LateIsAccepted
<1>1. Inv => LateIsAccepted
  <2> SUFFICES ASSUME Inv, opt.seq_backtrack > 0, NEW pin \in sent,
                      pin.time = rec.time, pin.id > rec.id - opt.seq_backtrack,
                      \A a \in accepted :
                        /\ <<a.time, a.id>> # <<pin.time, pin.id>>
                        /\ opt.time_backtrack = 0
                             \/ ~(a.time = pin.time /\ a.id > pin.id
                                  /\ a.at + opt.time_backtrack < now)
               PROVE  Accepts(pin)
    BY DEF LateIsAccepted
  <2> DEFINE r == packet_id_reap_test(rec)
  <2>1. /\ RecInv(r, accepted) /\ ClockInv
        /\ r.time = rec.time /\ r.id = rec.id /\ r.size = rec.size
    BY ReapTestKeeps DEF Inv
  <2> HIDE DEF r
  <2>2. /\ RecOK(r) /\ AccOK(accepted) /\ Full(r) /\ MarkIsTime(r, accepted)
        /\ ExpiredIsOld(r, accepted)
        /\ PACKET_ID_MAX \in Nat /\ opt.seq_backtrack \in Nat /\ opt.time_backtrack \in Nat
        /\ pin \in Pin
    BY <2>1, OptType, ReplayAssumption DEF RecInv, ReplayAssumption, Inv, SendInv
  <2>3. pin.id \in Nat /\ pin.id > 0 /\ r.id \in Nat
    BY <2>2 DEF Pin, Id, RecOK
  <2>4. CASE pin.id > r.id
    BY <2>1, <2>4 DEF Accepts, packet_id_test, r
  <2>5. CASE pin.id <= r.id
    <3>1. pin.id \in Slots(r)
      BY <2>1, <2>2, <2>3, <2>5 DEF Full, Slots, Window, Smaller
    <3>2. r.seen[pin.id] # SEQ_EXPIRED
      <4> SUFFICES ASSUME r.seen[pin.id] = SEQ_EXPIRED PROVE FALSE
        OBVIOUS
      <4>1. PICK a \in accepted : a.time = r.time /\ a.id >= pin.id
                                  /\ a.at + opt.time_backtrack < now
        BY <2>2, <3>1 DEF ExpiredIsOld
      <4>2. opt.time_backtrack > 0
        BY <2>2, <3>1 DEF ExpiredIsOld
      <4>3. a.id # pin.id
        BY <2>1, <4>1
      <4>4. a.id \in Nat
        BY <2>2 DEF AccOK, Id
      <4> QED BY <2>1, <2>2, <2>3, <4>1, <4>2, <4>3, <4>4
    <3>3. r.seen[pin.id] = SEQ_UNSEEN
      BY <2>1, <2>2, <3>1, <3>2 DEF MarkIsTime
    <3> QED BY <2>1, <3>1, <3>3 DEF Accepts, packet_id_test, r, Slots
  <2> QED BY <2>3, <2>4, <2>5
<1> QED BY <1>1, AlwaysInv, PTL

\* A packet outside one of the limits is refused, at the latest SEQ_REAP_INTERVAL after
\* time_backtrack.
THEOREM TooLateRefused == Spec => []TooLateIsRefused
<1>1. Inv => TooLateIsRefused
  <2> SUFFICES ASSUME Inv, NEW pin \in sent, NEW a \in accepted,
                      a.time = pin.time, a.id > pin.id, Accepts(pin)
               PROVE  /\ a.id - pin.id < opt.seq_backtrack
                      /\ opt.time_backtrack > 0 =>
                           now <= a.at + opt.time_backtrack + SEQ_REAP_INTERVAL
    BY DEF TooLateIsRefused
  <2> DEFINE r == packet_id_reap_test(rec)
  <2>1. /\ RecInv(r, accepted) /\ ClockInv
        /\ now <= r.last_reap + SEQ_REAP_INTERVAL
    BY ReapTestKeeps DEF Inv
  <2>2. packet_id_test(r, pin)
    BY DEF Accepts
  <2> HIDE DEF r
  <2>3. /\ RecOK(r) /\ AccOK(accepted) /\ Known(r, accepted) /\ Reaped(r, accepted)
        /\ PACKET_ID_MAX \in Nat /\ SEQ_REAP_INTERVAL \in Nat /\ now \in Nat
        /\ opt.seq_backtrack \in Nat /\ opt.time_backtrack \in Nat /\ pin \in Pin
    BY <2>1, OptType, ReplayAssumption DEF RecInv, ReplayAssumption, Inv, SendInv, ClockInv
  <2>4. /\ pin.id \in Nat /\ pin.id > 0 /\ pin.id \in Id /\ pin.time \in Nat
        /\ a.id \in Nat /\ a.at \in Nat /\ r.id \in 0..PACKET_ID_MAX /\ r.time \in Nat
    BY <2>3 DEF Pin, Id, RecOK, AccOK
  <2>5. a.time < r.time \/ (a.time = r.time /\ a.id <= r.id)
    BY <2>3 DEF Known
  <2>6. CASE opt.seq_backtrack = 0
    <3>1. a.time = r.time /\ (r.id = 0 \/ pin.id = (r.id + 1) % (PACKET_ID_MAX + 1))
      BY <2>2, <2>4, <2>5, <2>6 DEF packet_id_test
    <3>2. r.id = 0 \/ pin.id = r.id + 1
      BY <2>3, <2>4, <3>1, NextId
    <3> QED BY <2>4, <2>5, <3>1, <3>2
  <2>7. CASE opt.seq_backtrack > 0
    <3>1. /\ a.time = r.time /\ a.id <= r.id
          /\ pin.id \in Slots(r) /\ r.seen[pin.id] = SEQ_UNSEEN
      BY <2>2, <2>4, <2>5, <2>7 DEF packet_id_test, Slots
    <3>2. a.id - pin.id < opt.seq_backtrack
      BY <2>3, <2>4, <3>1 DEF Slots, Window, RecOK
    <3>3. ASSUME opt.time_backtrack > 0
          PROVE  now <= a.at + opt.time_backtrack + SEQ_REAP_INTERVAL
      <4>1. ~(a.at + opt.time_backtrack < r.last_reap)
        BY <2>3, <2>4, <3>1, <3>3 DEF Reaped, SEQ_UNSEEN, SEQ_EXPIRED
      <4> QED BY <2>1, <2>3, <2>4, <4>1 DEF RecOK
    <3> QED BY <3>2, <3>3
  <2> QED BY <2>3, <2>6, <2>7
<1> QED BY <1>1, AlwaysInv, PTL
=============================================================================
