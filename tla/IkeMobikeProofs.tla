-------------------------- MODULE IkeMobikeProofs --------------------------
(***************************************************************************)
(* The properties of IkeMobike for every set of addresses, every number of *)
(* tries, of changes of the network and of packets in flight.              *)
(***************************************************************************)
EXTENDS IkeMobike, SequenceTheorems, TLAPS

\* An IKE_SA within a handler: a packet may have been handed to the sender.
Within == [state : {"ESTABLISHED", "DELETING", "GONE"}, my : Addr, stale : BOOLEAN,
           mid : Nat, type : Exchange \cup {"UNDEFINED"}, tries : Nat, deferred : BOOLEAN,
           packet : Packet \cup {None}, out : Addr \cup {None},
           active : Task \cup {None}, queued : SUBSET Task, jobs : Nat,
           why : {"", "deleted", "timeout", "type", "cookie", "forced"}]

\* The exchange of an IKE_SA: its packet belongs to it and to its task, jobs are for
\* a packet, and queued tasks have done nothing yet.
ExchangeOK(c) ==
  /\ c \in Within
  /\ c.type = "UNDEFINED" <=> c.packet = None
  /\ c.packet # None => /\ c.packet.type = c.type /\ c.packet.mid = c.mid
                        /\ c.active # None /\ c.state # "GONE"
  /\ c.packet = None => c.jobs = 0
  /\ \A t \in c.queued : ~t.update
  /\ c.why \notin {"type", "cookie"}

\* The same with the timers of an exchange, and no task between two exchanges.
RestOK(c) ==
  /\ ExchangeOK(c)
  /\ c.packet # None => c.jobs = (IF c.deferred THEN 0 ELSE 1)
  /\ c.packet = None => c.active = None
  /\ c.out # None => c.packet # None

\* A MOBIKE task looks for a path, or will.
Checks(c) == \E t \in c.queued \cup {c.active} : IsMobike(t) /\ t.check

GwPacket == [type : Exchange, mid : Nat, task : TaskType, update : BOOLEAN, src : Addr]
MePacket == [type : Exchange, mid : Nat, cookie : Nat, dst : Addr]
GwState == [mid : Nat, packet : [type : Exchange, mid : Nat, cookie : Nat],
            gone : BOOLEAN, peer : Addr]

\* What the last broadcast said is what the system says.
NetOK ==
  /\ link \in BOOLEAN /\ route \in Addr \cup {None} /\ events \in Seq(BOOLEAN)
  /\ connected \in BOOLEAN /\ window \in BOOLEAN /\ due \in Nat
  /\ link = (IF events = <<>> THEN connected ELSE events[Len(events)])

\* The gateway keeps its last response.
GwOK ==
  /\ gw \in GwState /\ gw.packet.mid = gw.mid - 1 /\ gw.packet.cookie = gw.packet.mid
  /\ toGw \subseteq GwPacket /\ toMe \subseteq MePacket
  /\ \A m \in toMe : m.cookie = m.mid

\* The gateway has answered the exchange of the phone or waits for it, and what is in
\* flight is of this exchange or of an older one.
InStep(c, g, reqs, resps) ==
  c.state # "GONE" =>
    /\ g.mid \in {c.mid, c.mid + 1}
    /\ g.mid = c.mid + 1 => c.packet # None /\ g.packet.type = c.packet.type
    /\ \A m \in reqs : /\ m.mid <= c.mid
                       /\ m.mid = c.mid => c.packet # None /\ m.type = c.packet.type
    /\ \A m \in resps : /\ m.mid <= c.mid
                        /\ m.mid = c.mid => g.mid = c.mid + 1 /\ m.type = c.packet.type

IInv ==
  /\ NetOK /\ GwOK
  /\ RestOK(sa) /\ sa.out = None
  /\ InStep(sa, gw, toGw, toMe)
  /\ RoamNoticed

-----------------------------------------------------------------------------
(***************************************************************************)
(* The task manager.                                                       *)
(***************************************************************************)
\* What retransmit and initiate make d of c: the exchange that is under way stays, one
\* is begun if a task is queued, a task that looks for a path still does, and with a
\* path no exchange waits for one.
Leads(c, d) ==
  /\ RestOK(d) /\ d.mid = c.mid
  /\ d.state # "GONE" =>
       /\ d.my = c.my
       /\ c.packet # None => d.packet = c.packet
       /\ d.state = "ESTABLISHED" => c.state = "ESTABLISHED"
       /\ Checks(c) => Checks(d)
       /\ c.state = "ESTABLISHED" /\ c.queued # {} => d.packet # None
       /\ route # None => d.stale = c.stale
       /\ route # None /\ d.deferred => c.deferred /\ d.packet = None

\* None is neither a task nor a packet.
LEMMA NoneIsNone ==
  /\ None \notin Addr /\ \A t \in Task : t # None /\ \A m \in Packet : m # None
BY MobikeAssumption, NoneAssumption DEF MobikeAssumption, NoneAssumption

\* Destroying an IKE_SA keeps its type.
LEMMA DestroyedType ==
  ASSUME NEW c \in Within, NEW why \in {"deleted", "timeout", "forced"}
  PROVE  Destroyed(c, why) \in Within
BY Zenon DEF Destroyed, Within

\* A destroyed IKE_SA is at rest.
LEMMA DestroyedRests ==
  ASSUME NEW c \in Within, NEW why \in {"deleted", "timeout", "forced"},
         \A t \in c.queued : ~t.update, c.out = None
  PROVE  LET d == Destroyed(c, why) IN RestOK(d) /\ d.mid = c.mid /\ d.state = "GONE" /\ d.out = None
<1> DEFINE d == Destroyed(c, why)
<1>1. d \in Within
  BY DestroyedType
<1>2. /\ d.state = "GONE" /\ d.type = "UNDEFINED" /\ d.packet = None /\ d.active = None
      /\ d.jobs = 0 /\ d.queued = {} /\ d.why = why /\ d.mid = c.mid /\ d.out = c.out
  BY Zenon DEF Destroyed, Within
<1>3. d.deferred = FALSE
  BY Zenon DEF Destroyed, Within
<1> HIDE DEF d
<1>4. RestOK(d)
  BY <1>1, <1>2, <1>3 DEF RestOK, ExchangeOK, IsMobike
<1>5. QED
  BY <1>2, <1>4 DEF d

\* retransmit: given up, deferred, or sent with a new job.
LEMMA RetransmitLeads ==
  ASSUME NEW c, ExchangeOK(c), c.packet # None, ~c.deferred, c.jobs = 0, c.out = None,
         route \in Addr \cup {None}
  PROVE  Leads(c, retransmit(c))
<1> DEFINE mobike == IsMobike(c.active)
           src == IF mobike THEN route ELSE c.my
           limit == IF mobike /\ c.active.check THEN ProbeTries ELSE RetransmitTries
           task == IF mobike /\ route # c.my THEN [c.active EXCEPT !.check = TRUE] ELSE c.active
           d == retransmit(c)
<1>1. /\ c \in Within /\ c.active \in Task /\ c.packet \in Packet
      /\ c.type # "UNDEFINED" /\ c.packet.type = c.type /\ c.packet.mid = c.mid /\ c.state # "GONE"
      /\ \A t \in c.queued : ~t.update
      /\ c.why \notin {"type", "cookie"}
  BY DEF ExchangeOK, Within
<1>2. task \in Task /\ task # None /\ (mobike => IsMobike(task)) /\ (c.active.check => task.check)
  <2>1. [c.active EXCEPT !.check = TRUE] \in Task
    BY <1>1 DEF Task
  <2>2. [c.active EXCEPT !.check = TRUE].type = c.active.type /\ [c.active EXCEPT !.check = TRUE].check = TRUE
    BY <1>1 DEF Task
  <2>3. QED
    BY <1>1, <2>1, <2>2, NoneIsNone DEF IsMobike
<1>3. c.tries \in Nat /\ limit \in Nat /\ src \in Addr \cup {None} /\ (src = None => mobike /\ route = None)
  BY <1>1, MobikeAssumption DEF MobikeAssumption, Within
<1>4. \/ c.tries > limit /\ d = Destroyed(c, "timeout")
      \/ c.tries <= limit /\ src = None /\ d = [c EXCEPT !.active = task, !.stale = TRUE, !.deferred = TRUE]
      \/ /\ c.tries <= limit /\ src # None
         /\ d = [c EXCEPT !.active = task, !.tries = c.tries + 1, !.jobs = c.jobs + 1, !.out = src]
  BY <1>3 DEF retransmit
<1> SUFFICES Leads(c, d)
  OBVIOUS
<1> HIDE DEF task, limit, src, mobike, d
<1>5. CASE d = Destroyed(c, "timeout")
  <2>1. RestOK(d) /\ d.mid = c.mid /\ d.state = "GONE"
    BY <1>1, <1>5, DestroyedRests
  <2>2. QED
    BY <2>1, Zenon DEF Leads
<1>6. CASE src = None /\ d = [c EXCEPT !.active = task, !.stale = TRUE, !.deferred = TRUE]
  <2>1. d \in Within
    BY <1>1, <1>2, <1>6, Zenon DEF Within
  <2>2. /\ d.state = c.state /\ d.type = c.type /\ d.packet = c.packet /\ d.active = task
        /\ d.jobs = 0 /\ d.queued = c.queued /\ d.why = c.why /\ d.mid = c.mid /\ d.out = None
        /\ d.my = c.my
    BY <1>1, <1>6, Zenon DEF Within
  <2>3. d.deferred = TRUE
    BY <1>1, <1>6, Zenon DEF Within
  <2>4. RestOK(d)
    BY <1>1, <1>2, <1>3, <1>6, <2>1, <2>2, <2>3 DEF RestOK, ExchangeOK
  <2>5. Checks(c) => Checks(d)
    BY <1>2, <2>2 DEF Checks, mobike
  <2>6. QED
    BY <1>1, <1>3, <1>6, <2>2, <2>4, <2>5, Zenon DEF Leads
<1>7. CASE src # None /\ d = [c EXCEPT !.active = task, !.tries = c.tries + 1, !.jobs = c.jobs + 1, !.out = src]
  <2>0. c.tries + 1 \in Nat /\ c.jobs + 1 \in Nat /\ c.jobs + 1 = 1
    BY <1>3
  <2>1. d \in Within
    BY <1>1, <1>2, <1>3, <1>7, <2>0, Zenon DEF Within
  <2>2. /\ d.state = c.state /\ d.type = c.type /\ d.packet = c.packet /\ d.active = task
        /\ d.jobs = c.jobs + 1 /\ d.queued = c.queued /\ d.why = c.why /\ d.mid = c.mid /\ d.out = src
        /\ d.my = c.my /\ d.stale = c.stale
    BY <1>1, <1>7, Zenon DEF Within
  <2>3. d.deferred = FALSE
    BY <1>1, <1>7, Zenon DEF Within
  <2>4. RestOK(d)
    BY <1>1, <1>2, <1>3, <1>7, <2>0, <2>1, <2>2, <2>3 DEF RestOK, ExchangeOK
  <2>5. Checks(c) => Checks(d)
    BY <1>2, <2>2 DEF Checks, mobike
  <2>6. QED
    BY <1>1, <2>2, <2>3, <2>4, <2>5, Zenon DEF Leads
<1>8. QED
  BY <1>4, <1>5, <1>6, <1>7

\* The request of a task opens an exchange.
LEMMA BuiltOpens ==
  ASSUME NEW c, ExchangeOK(c), c.state # "GONE", c.packet = None, c.out = None,
         NEW t \in Task, t = c.active \/ (c.active = None /\ t \in c.queued)
  PROVE  LET b == Built(c, t) IN
           /\ ExchangeOK(b) /\ b.packet # None /\ ~b.deferred /\ b.jobs = 0 /\ b.out = None
           /\ b.mid = c.mid /\ b.my = c.my /\ b.stale = c.stale
           /\ b.state = "ESTABLISHED" => c.state = "ESTABLISHED"
           /\ Checks(c) => Checks(b)
<1> DEFINE type == IF t.type = "CHILD_REKEY" /\ t.left = 2 THEN "CREATE_CHILD_SA" ELSE "INFORMATIONAL"
           pk == [type |-> type, mid |-> c.mid, task |-> t.type, update |-> t.update]
           st == IF t.type = "IKE_DELETE" THEN "DELETING" ELSE c.state
           b == Built(c, t)
<1>1. c \in Within /\ c.mid \in Nat /\ c.jobs = 0 /\ c.queued \in SUBSET Task
  BY DEF ExchangeOK, Within
<1>2. /\ type \in Exchange /\ type # "UNDEFINED"
      /\ st \in {"ESTABLISHED", "DELETING"} /\ (st = "ESTABLISHED" => c.state = "ESTABLISHED")
  BY <1>1 DEF Within, Exchange
<1>3. b = [c EXCEPT !.active = t, !.queued = c.queued \ {t}, !.state = st, !.type = type,
                    !.tries = 0, !.deferred = FALSE, !.packet = pk]
  BY DEF Built
<1> HIDE DEF type, st
<1>4. pk \in Packet
  BY <1>1, <1>2, Zenon DEF Task, Packet
<1>5. pk.type = type /\ pk.mid = c.mid
  OBVIOUS
<1> HIDE DEF pk, b
<1>6. c.queued \ {t} \in SUBSET Task
  BY <1>1
<1>7. b \in Within
  BY <1>1, <1>2, <1>3, <1>4, <1>6, Zenon DEF Within
<1>8. /\ b.active = t /\ b.queued = c.queued \ {t} /\ b.state = st /\ b.type = type
      /\ b.packet = pk /\ b.mid = c.mid /\ b.my = c.my /\ b.out = c.out /\ b.jobs = c.jobs
      /\ b.why = c.why
  BY <1>1, <1>3, Zenon DEF Within
<1>9. b.stale = c.stale
  BY <1>1, <1>3, Zenon DEF Within
<1>10. b.deferred = FALSE
  BY <1>1, <1>3, Zenon DEF Within
<1>11. t # None /\ pk # None
  BY <1>4, NoneIsNone
<1>12. (\A u \in c.queued : ~u.update) /\ c.why \notin {"type", "cookie"}
  BY DEF ExchangeOK
<1>13. ExchangeOK(b)
  BY <1>2, <1>5, <1>7, <1>8, <1>10, <1>11, <1>12 DEF ExchangeOK
<1>14. Checks(c) => Checks(b)
  BY <1>8 DEF Checks, IsMobike
<1>15. QED
  BY <1>1, <1>2, <1>8, <1>9, <1>10, <1>11, <1>13, <1>14, Zenon DEF b

\* What leads on from c1, which keeps the relevant parts of c, leads on from c.
LEMMA LeadsFrom ==
  ASSUME NEW c, NEW c1, NEW d, Leads(c1, d), c1.mid = c.mid, c1.my = c.my, c1.stale = c.stale,
         c.packet # None => c1.packet = c.packet,
         c1.state = "ESTABLISHED" => c.state = "ESTABLISHED",
         Checks(c) => Checks(c1), ~c1.deferred, c1.packet # None
  PROVE  Leads(c, d)
BY Zenon DEF Leads

\* initiate: an exchange is resumed, left alone or begun.
LEMMA InitiateLeads ==
  ASSUME NEW c, ExchangeOK(c), c.state # "GONE", c.out = None,
         c.packet # None => c.jobs = (IF c.deferred THEN 0 ELSE 1),
         route \in Addr \cup {None}
  PROVE  Leads(c, initiate(c))
<1>0. /\ c \in Within /\ (c.type = "UNDEFINED" <=> c.packet = None)
      /\ c.deferred \in BOOLEAN
  BY DEF ExchangeOK, Within
<1>1. CASE c.type # "UNDEFINED" /\ c.deferred
  <2> DEFINE e == [c EXCEPT !.deferred = FALSE, !.tries = 0]
  <2>1. initiate(c) = retransmit(e)
    BY <1>1 DEF initiate
  <2>2. e \in Within
    BY <1>0, Zenon DEF Within
  <2>3. /\ e.active = c.active /\ e.queued = c.queued /\ e.state = c.state /\ e.type = c.type
        /\ e.packet = c.packet /\ e.mid = c.mid /\ e.my = c.my /\ e.out = c.out
        /\ e.jobs = c.jobs /\ e.why = c.why
    BY <1>0, Zenon DEF Within
  <2>4. e.stale = c.stale
    BY <1>0, Zenon DEF Within
  <2>5. e.deferred = FALSE
    BY <1>0, Zenon DEF Within
  <2> HIDE DEF e
  <2>6. ExchangeOK(e)
    BY <2>2, <2>3, <2>5 DEF ExchangeOK
  <2>7. e.packet # None /\ e.jobs = 0 /\ e.out = None /\ ~e.deferred
    BY <1>0, <1>1, <2>3, <2>5
  <2>8. Leads(e, retransmit(e))
    BY <2>6, <2>7, RetransmitLeads
  <2>9. Checks(c) => Checks(e)
    BY <2>3 DEF Checks
  <2>10. QED
    BY <2>1, <2>3, <2>4, <2>7, <2>8, <2>9, LeadsFrom, Zenon
<1>2. CASE c.type # "UNDEFINED" /\ ~c.deferred
  <2>1. initiate(c) = c
    BY <1>2 DEF initiate
  <2>2. RestOK(c)
    BY <1>0, <1>2 DEF RestOK
  <2>3. c.packet # None
    BY <1>0, <1>2
  <2>4. QED
    BY <1>2, <2>1, <2>2, <2>3, Zenon DEF Leads
<1>3. CASE c.type = "UNDEFINED" /\ ToInitiate(c) = {}
  <2>1. initiate(c) = c
    BY <1>3 DEF initiate
  <2>2. c.active = None
    BY <1>3 DEF ToInitiate
  <2>3. RestOK(c)
    BY <1>0, <1>3, <2>2 DEF RestOK
  <2>4. c.packet = None /\ ~(c.state = "ESTABLISHED" /\ c.queued # {})
    <3>1. ASSUME c.state = "ESTABLISHED", c.queued # {} PROVE FALSE
      <4>1. \A u \in c.queued : Rank(u) \in {1, 2, 3}
        BY DEF Rank
      <4>2. \E t \in c.queued : \A u \in c.queued : Rank(t) <= Rank(u)
        BY <3>1, <4>1
      <4>3. QED
        BY <1>3, <2>2, <3>1, <4>2 DEF ToInitiate
    <3>2. QED
      BY <1>0, <1>3, <3>1
  <2>5. QED
    BY <2>1, <2>3, <2>4, Zenon DEF Leads
<1>4. CASE c.type = "UNDEFINED" /\ ToInitiate(c) # {}
  <2> DEFINE t == CHOOSE u \in ToInitiate(c) : TRUE
             b == Built(c, t)
  <2>1. initiate(c) = retransmit(b)
    BY <1>4 DEF initiate
  <2>2. t \in ToInitiate(c)
    BY <1>4
  <2> HIDE DEF t
  <2>3. (t = c.active /\ c.active # None) \/ (c.active = None /\ t \in c.queued)
    BY <2>2 DEF ToInitiate
  <2>4. t \in Task
    BY <1>0, <2>3 DEF Within
  <2>5. c.packet = None
    BY <1>0, <1>4
  <2>6. /\ ExchangeOK(b) /\ b.packet # None /\ ~b.deferred /\ b.jobs = 0 /\ b.out = None
        /\ b.mid = c.mid /\ b.my = c.my /\ b.stale = c.stale
        /\ b.state = "ESTABLISHED" => c.state = "ESTABLISHED"
        /\ Checks(c) => Checks(b)
    BY <2>3, <2>4, <2>5, BuiltOpens, Zenon
  <2> HIDE DEF b
  <2>7. Leads(b, retransmit(b))
    BY <2>6, RetransmitLeads
  <2>8. QED
    BY <2>1, <2>5, <2>6, <2>7, LeadsFrom, Zenon
<1>5. QED
  BY <1>0, <1>1, <1>2, <1>3, <1>4

\* Queueing a MOBIKE task leaves the exchange alone.
LEMMA QueueMobike ==
  ASSUME NEW c, ExchangeOK(c), NEW check \in BOOLEAN
  PROVE  LET q == queue_mobike(c, check) IN
           /\ ExchangeOK(q) /\ q.queued # {}
           /\ q.state = c.state /\ q.packet = c.packet /\ q.mid = c.mid /\ q.my = c.my
           /\ q.out = c.out /\ q.jobs = c.jobs /\ q.deferred = c.deferred /\ q.stale = c.stale
           /\ (c.active = None => q.active = None)
           /\ (check => Checks(q))
<1> DEFINE old == {t \in c.queued : IsMobike(t)}
           task == IF old = {} THEN NewTask("IKE_MOBIKE", 1) ELSE CHOOSE t \in old : TRUE
           new == [task EXCEPT !.check = @ \/ check]
           act == IF check /\ IsMobike(c.active) THEN [c.active EXCEPT !.check = TRUE] ELSE c.active
           qd == (c.queued \ old) \cup {new}
           q == queue_mobike(c, check)
<1>1. /\ c \in Within /\ c.queued \in SUBSET Task /\ c.active \in Task \cup {None}
      /\ \A t \in c.queued : ~t.update
  BY DEF ExchangeOK, Within
<1>2. q = [c EXCEPT !.queued = qd, !.active = act]
  BY DEF queue_mobike
<1>3. task \in Task /\ task.type = "IKE_MOBIKE" /\ task.update = FALSE
  <2>1. CASE old = {}
    <3>1. NewTask("IKE_MOBIKE", 1) \in Task
      BY Zenon DEF NewTask, Task, TaskType
    <3>2. NewTask("IKE_MOBIKE", 1).type = "IKE_MOBIKE" /\ NewTask("IKE_MOBIKE", 1).update = FALSE
      BY Zenon DEF NewTask
    <3>3. task = NewTask("IKE_MOBIKE", 1)
      BY <2>1
    <3>4. QED
      BY <3>1, <3>2, <3>3, Zenon
  <2>2. CASE old # {}
    <3>1. task \in old
      BY <2>2
    <3>2. task \in Task /\ ~task.update /\ IsMobike(task)
      BY <1>1, <3>1
    <3> HIDE DEF task
    <3>3. task.update \in BOOLEAN
      BY <3>2 DEF Task
    <3>4. QED
      BY <3>2, <3>3, Zenon DEF IsMobike
  <2>3. QED
    BY <2>1, <2>2
<1> HIDE DEF task
<1>4. new \in Task
  BY <1>3, Zenon DEF Task
<1>5. new.type = task.type /\ new.update = task.update /\ (check => new.check)
  <2>1. new.type = task.type /\ new.update = task.update
    BY <1>3, Zenon DEF Task
  <2>2. new.check = (task.check \/ check)
    BY <1>3, Zenon DEF Task
  <2>3. QED
    BY <2>1, <2>2, Zenon
<1>6. act \in Task \cup {None} /\ (act = None <=> c.active = None)
  <2>1. CASE check /\ IsMobike(c.active)
    <3>1. c.active \in Task /\ c.active # None
      BY <1>1, <2>1 DEF IsMobike
    <3>2. [c.active EXCEPT !.check = TRUE] \in Task
      BY <3>1, Zenon DEF Task
    <3>3. QED
      BY <2>1, <3>1, <3>2, NoneIsNone
  <2>2. CASE ~(check /\ IsMobike(c.active))
    BY <1>1, <2>2
  <2>3. QED
    BY <2>1, <2>2
<1>7. qd \in SUBSET Task /\ new \in qd /\ \A t \in qd : ~t.update
  <2>1. new.update = FALSE
    BY <1>3, <1>5, Zenon
  <2> HIDE DEF new
  <2>2. \A t \in qd : t \in Task /\ ~t.update
    BY <1>1, <1>4, <2>1, Zenon
  <2>3. QED
    BY <2>2
<1> HIDE DEF act, qd, old, new, q
<1>8. q \in Within
  BY <1>1, <1>2, <1>6, <1>7, Zenon DEF Within
<1>9. /\ q.queued = qd /\ q.active = act
      /\ q.state = c.state /\ q.packet = c.packet /\ q.mid = c.mid /\ q.my = c.my
      /\ q.out = c.out /\ q.jobs = c.jobs /\ q.type = c.type /\ q.why = c.why
  BY <1>1, <1>2, Zenon DEF Within
<1>10. q.deferred = c.deferred /\ q.stale = c.stale
  BY <1>1, <1>2, Zenon DEF Within
<1>11. ExchangeOK(q)
  BY <1>6, <1>7, <1>8, <1>9 DEF ExchangeOK
<1>12. check => Checks(q)
  <2>1. IsMobike(new)
    BY <1>3, <1>4, <1>5, NoneIsNone DEF IsMobike
  <2>2. QED
    BY <1>5, <1>7, <1>9, <2>1 DEF Checks
<1>13. QED
  BY <1>6, <1>7, <1>9, <1>10, <1>11, <1>12, Zenon DEF q

\* A queued task of another kind leaves it alone, too.
LEMMA QueueTask ==
  ASSUME NEW c, ExchangeOK(c), NEW t \in Task, ~t.update
  PROVE  LET q == [c EXCEPT !.queued = @ \cup {t}] IN
           /\ ExchangeOK(q)
           /\ q.state = c.state /\ q.packet = c.packet /\ q.mid = c.mid /\ q.my = c.my
           /\ q.out = c.out /\ q.jobs = c.jobs /\ q.deferred = c.deferred /\ q.stale = c.stale
           /\ (Checks(c) => Checks(q))
<1> DEFINE q == [c EXCEPT !.queued = @ \cup {t}]
<1>1. /\ c \in Within /\ c.queued \in SUBSET Task
      /\ \A u \in c.queued : ~u.update
  BY DEF ExchangeOK, Within
<1>2. c.queued \cup {t} \in SUBSET Task
  BY <1>1
<1>3. q \in Within
  BY <1>1, <1>2, Zenon DEF Within
<1>4. /\ q.queued = c.queued \cup {t} /\ q.active = c.active
      /\ q.state = c.state /\ q.packet = c.packet /\ q.mid = c.mid /\ q.my = c.my
      /\ q.out = c.out /\ q.jobs = c.jobs /\ q.type = c.type /\ q.why = c.why
  BY <1>1, Zenon DEF Within
<1>5. q.deferred = c.deferred /\ q.stale = c.stale
  BY <1>1, Zenon DEF Within
<1> HIDE DEF q
<1>6. ExchangeOK(q)
  BY <1>1, <1>3, <1>4 DEF ExchangeOK
<1>7. Checks(c) => Checks(q)
  BY <1>4 DEF Checks
<1>8. QED
  BY <1>4, <1>5, <1>6, <1>7, Zenon DEF q

\* The gateway and the packets in flight go with what an exchange leads to.
LEMMA LeadsInStep ==
  ASSUME NEW c, NEW d, Leads(c, d), c.state # "GONE", InStep(c, gw, toGw, toMe)
  PROVE  InStep(d, gw, toGw, toMe)
BY Zenon DEF Leads, InStep

\* A packet that is put on the wire leaves only older ones beside it.
LEMMA PushedFrom ==
  ASSUME NEW wire, NEW m, NEW w \in Pushed(wire, m)
  PROVE  \A x \in w : x \in wire \/ x = m
BY DEF Pushed

\* The end of a handler: the IKE_SA rests, and what it has sent is of its exchange.
LEMMA PerformRests ==
  ASSUME GwOK, NEW c, RestOK(c), InStep(c, gw, toGw, toMe), NEW failed, Perform(c, failed),
         UNCHANGED gw, toMe' \subseteq toMe
  PROVE  /\ RestOK(sa') /\ sa'.out = None /\ GwOK' /\ InStep(sa', gw', toGw', toMe')
         /\ sa'.state = c.state /\ sa'.my = c.my /\ sa'.queued = c.queued /\ sa'.active = c.active
         /\ sa'.stale = c.stale /\ sa'.deferred = c.deferred
         /\ window' = (window \/ (failed /\ connected))
<1>1. /\ c \in Within /\ sa' = [c EXCEPT !.out = None]
      /\ c.out \in Addr \cup {None} /\ c.packet \in Packet \cup {None} /\ c.mid \in Nat
  BY DEF RestOK, ExchangeOK, Within, Perform
<1>2. sa' \in Within
  BY <1>1, Zenon DEF Within
<1>3. /\ sa'.state = c.state /\ sa'.my = c.my /\ sa'.queued = c.queued /\ sa'.active = c.active
      /\ sa'.mid = c.mid /\ sa'.type = c.type /\ sa'.packet = c.packet /\ sa'.jobs = c.jobs
      /\ sa'.why = c.why /\ sa'.out = None
  BY <1>1, Zenon DEF Within
<1>4. sa'.stale = c.stale /\ sa'.deferred = c.deferred
  BY <1>1, Zenon DEF Within
<1>5. ExchangeOK(sa')
  BY <1>2, <1>3, Zenon DEF RestOK, ExchangeOK
<1>6. RestOK(sa')
  BY <1>3, <1>4, <1>5, Zenon DEF RestOK
<1> DEFINE m == [type |-> c.packet.type, mid |-> c.packet.mid,
                 task |-> c.packet.task, update |-> c.packet.update, src |-> c.out]
<1>7. \A x \in toGw' : x \in toGw \/ (x = m /\ c.out # None)
  <2>1. CASE c.out # None /\ c.out = route
    BY <2>1, PushedFrom DEF Perform
  <2>2. CASE ~(c.out # None /\ c.out = route)
    BY <2>2 DEF Perform
  <2>3. QED
    BY <2>1, <2>2
<1>8. c.out # None => c.packet # None /\ c.packet \in Packet /\ c.packet.mid = c.mid /\ c.out \in Addr
  BY <1>1 DEF RestOK, ExchangeOK
<1>9. m.type = c.packet.type /\ m.mid = c.packet.mid
  OBVIOUS
<1>10. c.out # None => m \in GwPacket
  <2> SUFFICES ASSUME c.out # None PROVE m \in GwPacket
    OBVIOUS
  <2>1. c.packet \in Packet /\ c.out \in Addr
    BY <1>8
  <2>2. QED
    BY <2>1, Zenon DEF Packet, GwPacket
<1> HIDE DEF m
<1>11. GwOK'
  <2>1. toGw' \subseteq GwPacket
    BY <1>7, <1>10 DEF GwOK
  <2>2. toMe' \subseteq MePacket /\ \A x \in toMe' : x.cookie = x.mid
    BY DEF GwOK
  <2>3. QED
    BY <2>1, <2>2 DEF GwOK
<1>12. InStep(sa', gw', toGw', toMe')
  BY <1>1, <1>3, <1>7, <1>8, <1>9 DEF InStep
<1>13. QED
  BY <1>3, <1>4, <1>6, <1>11, <1>12, Zenon DEF Perform

\* What RoamNoticed asks of an IKE_SA.
Noticed(c) ==
  /\ route # None /\ ~c.deferred /\ ~c.stale
  /\ route = c.my \/ Checks(c)

\* An IKE_SA that has noticed the path goes on with it.
LEMMA NoticedLeads ==
  ASSUME NEW c, NEW d, Leads(c, d), d.state = "ESTABLISHED", Noticed(c)
  PROVE  Noticed(d)
BY Zenon DEF Leads, Noticed

\* The invariant after a handler of the phone: the network is as before, no roam that
\* was to come has been dropped, and the IKE_SA has noticed what it had.
LEMMA HandlerKeeps ==
  ASSUME IInv, NEW c, RestOK(c), InStep(c, gw, toGw, toMe), NEW failed \in BOOLEAN, Perform(c, failed),
         UNCHANGED <<gw, link, route, events, connected>>, toMe' \subseteq toMe, due' \in Nat,
         c.state = "ESTABLISHED" /\ link /\ events = <<>> /\ ~window /\ due' = 0
           => Noticed(c) \/ (failed /\ connected)
  PROVE  IInv'
<1>1. /\ RestOK(sa') /\ sa'.out = None /\ GwOK' /\ InStep(sa', gw', toGw', toMe')
      /\ sa'.state = c.state /\ sa'.my = c.my /\ sa'.queued = c.queued /\ sa'.active = c.active
      /\ sa'.stale = c.stale /\ sa'.deferred = c.deferred
      /\ window' = (window \/ (failed /\ connected))
  BY PerformRests, Zenon DEF IInv
<1>2. window' \in BOOLEAN
  BY <1>1, Zenon DEF IInv, NetOK
<1>3. NetOK'
  BY <1>2 DEF IInv, NetOK
<1>4. RoamNoticed'
  <2> SUFFICES ASSUME sa'.state = "ESTABLISHED", link', ~RoamComing'
               PROVE  /\ route' # None /\ ~sa'.deferred /\ ~sa'.stale
                      /\ route' = sa'.my \/ \E t \in sa'.queued \cup {sa'.active} : IsMobike(t) /\ t.check
    BY DEF RoamNoticed
  <2>1. events = <<>> /\ ~window' /\ due' = 0
    BY DEF RoamComing
  <2>2. ~window /\ ~(failed /\ connected)
    BY <1>1, <2>1, Zenon
  <2>3. Noticed(c)
    BY <1>1, <2>1, <2>2, Zenon
  <2>4. QED
    BY <1>1, <2>3, Zenon DEF Noticed, Checks
<1>5. QED
  BY <1>1, <1>3, <1>4 DEF IInv

-----------------------------------------------------------------------------
(***************************************************************************)
(* The steps of the phone.                                                 *)
(***************************************************************************)
\* The invariant in the terms of the lemmas.
LEMMA InvFacts ==
  ASSUME IInv
  PROVE  /\ RestOK(sa) /\ ExchangeOK(sa) /\ sa.out = None /\ sa \in Within
         /\ InStep(sa, gw, toGw, toMe)
         /\ route \in Addr \cup {None} /\ link \in BOOLEAN /\ connected \in BOOLEAN /\ window \in BOOLEAN
         /\ due \in Nat
         /\ sa.packet # None => sa.jobs = (IF sa.deferred THEN 0 ELSE 1)
         /\ sa.state = "ESTABLISHED" /\ link /\ events = <<>> /\ ~window /\ due = 0 => Noticed(sa)
<1>1. /\ RestOK(sa) /\ ExchangeOK(sa) /\ sa.out = None /\ sa \in Within
      /\ InStep(sa, gw, toGw, toMe)
      /\ sa.packet # None => sa.jobs = (IF sa.deferred THEN 0 ELSE 1)
  BY Zenon DEF IInv, RestOK, ExchangeOK
<1>2. /\ route \in Addr \cup {None} /\ link \in BOOLEAN /\ connected \in BOOLEAN /\ window \in BOOLEAN
      /\ due \in Nat
  BY Zenon DEF IInv, NetOK
<1>3. due = 0 => ~(due > 0)
  OBVIOUS
<1>4. sa.state = "ESTABLISHED" /\ link /\ events = <<>> /\ ~window /\ due = 0 => Noticed(sa)
  BY <1>3, Zenon DEF IInv, RoamNoticed, RoamComing, Noticed, Checks
<1>5. QED
  BY <1>1, <1>2, <1>4, Zenon

\* What initiate makes of the IKE_SA after a change c that left its exchange alone
\* keeps the invariant.
LEMMA InitiateKeeps ==
  ASSUME IInv, sa.state # "GONE", NEW c, ExchangeOK(c),
         c.state = sa.state, c.packet = sa.packet, c.mid = sa.mid, c.out = None, c.jobs = sa.jobs,
         c.deferred = sa.deferred
  PROVE  LET d == initiate(c) IN Leads(c, d) /\ RestOK(d) /\ InStep(d, gw, toGw, toMe)
<1>0. /\ RestOK(sa) /\ InStep(sa, gw, toGw, toMe) /\ route \in Addr \cup {None}
      /\ sa.packet # None => sa.jobs = (IF sa.deferred THEN 0 ELSE 1)
  BY InvFacts, Zenon
<1>1. c.packet # None => c.jobs = (IF c.deferred THEN 0 ELSE 1)
  BY <1>0, Zenon
<1>2. InStep(c, gw, toGw, toMe)
  BY <1>0, Zenon DEF InStep
<1>3. Leads(c, initiate(c))
  BY <1>0, <1>1, InitiateLeads
<1>4. QED
  BY <1>2, <1>3, LeadsInStep, Zenon DEF Leads

\* roam: the MOBIKE task that it queues makes sure that an exchange is under way.
LEMMA RoamStep ==
  ASSUME IInv, roam PROVE IInv'
<1>0. /\ RestOK(sa) /\ ExchangeOK(sa) /\ sa.out = None /\ sa \in Within
      /\ InStep(sa, gw, toGw, toMe) /\ sa.my \in Addr
      /\ route \in Addr \cup {None} /\ link \in BOOLEAN /\ connected \in BOOLEAN /\ window \in BOOLEAN
  BY InvFacts, Zenon DEF Within
<1>1. /\ due' \in Nat /\ UNCHANGED <<gw, link, route, events, connected>> /\ toMe' \subseteq toMe
  BY InvFacts DEF roam
<1>2. CASE sa.state # "ESTABLISHED"
  <2>1. Perform(sa, FALSE)
    BY <1>2, Zenon DEF roam
  <2>2. QED
    BY <1>0, <1>1, <1>2, <2>1, HandlerKeeps, Zenon
<1>3. CASE sa.state = "ESTABLISHED" /\ route = None
  <2> DEFINE c == [sa EXCEPT !.stale = TRUE]
  <2>1. Perform(c, TRUE)
    <3>1. route # sa.my
      BY <1>0, <1>3, NoneIsNone
    <3>2. QED
      BY <1>3, <3>1 DEF roam
  <2>2. c \in Within
    BY <1>0, Zenon DEF Within
  <2>3. /\ c.active = sa.active /\ c.queued = sa.queued /\ c.state = sa.state /\ c.type = sa.type
        /\ c.packet = sa.packet /\ c.mid = sa.mid /\ c.my = sa.my /\ c.out = sa.out
        /\ c.jobs = sa.jobs /\ c.why = sa.why
    BY <1>0, Zenon DEF Within
  <2>4. c.deferred = sa.deferred
    BY <1>0, Zenon DEF Within
  <2> HIDE DEF c
  <2>5. RestOK(c)
    BY <1>0, <2>2, <2>3, <2>4, Zenon DEF RestOK, ExchangeOK
  <2>6. InStep(c, gw, toGw, toMe)
    BY <1>0, <2>3, Zenon DEF InStep
  <2>7. link /\ events = <<>> => connected
    BY DEF IInv, NetOK
  <2>8. QED
    BY <1>1, <2>1, <2>5, <2>6, <2>7, HandlerKeeps, Zenon
<1>4. CASE sa.state = "ESTABLISHED" /\ route # None
  <2> DEFINE c == [sa EXCEPT !.stale = FALSE]
             check == route # sa.my
             q == queue_mobike(c, check)
             d == initiate(q)
  <2>1. Perform(d, FALSE)
    <3>1. CASE route = sa.my
      <4>1. check = FALSE
        BY <3>1
      <4>2. Perform(initiate(queue_mobike(c, FALSE)), FALSE)
        BY <1>4, <3>1 DEF roam
      <4>3. QED
        BY <4>1, <4>2
    <3>2. CASE route # sa.my
      <4>1. check = TRUE
        BY <3>2
      <4>2. Perform(initiate(queue_mobike(c, TRUE)), FALSE)
        BY <1>4, <3>2 DEF roam
      <4>3. QED
        BY <4>1, <4>2
    <3>3. QED
      BY <3>1, <3>2
  <2>2. c \in Within
    BY <1>0, Zenon DEF Within
  <2>3. /\ c.active = sa.active /\ c.queued = sa.queued /\ c.state = sa.state /\ c.type = sa.type
        /\ c.packet = sa.packet /\ c.mid = sa.mid /\ c.my = sa.my /\ c.out = sa.out
        /\ c.jobs = sa.jobs /\ c.why = sa.why
    BY <1>0, Zenon DEF Within
  <2>4. c.deferred = sa.deferred /\ c.stale = FALSE
    BY <1>0, Zenon DEF Within
  <2>5. check \in BOOLEAN /\ (~check => route = sa.my)
    OBVIOUS
  <2> HIDE DEF c, check
  <2>6. ExchangeOK(c)
    BY <1>0, <2>2, <2>3, Zenon DEF ExchangeOK
  <2>7. /\ ExchangeOK(q) /\ q.queued # {}
        /\ q.state = c.state /\ q.packet = c.packet /\ q.mid = c.mid /\ q.my = c.my
        /\ q.out = c.out /\ q.jobs = c.jobs /\ q.deferred = c.deferred /\ q.stale = c.stale
        /\ (check => Checks(q))
    BY <2>5, <2>6, QueueMobike, Zenon
  <2> HIDE DEF q
  <2>8. Leads(q, d) /\ RestOK(d) /\ InStep(d, gw, toGw, toMe)
    <3>1. /\ q.state = sa.state /\ q.packet = sa.packet /\ q.mid = sa.mid /\ q.out = None
          /\ q.jobs = sa.jobs /\ q.deferred = sa.deferred
      BY <1>0, <2>3, <2>4, <2>7, Zenon
    <3>2. QED
      BY <1>4, <2>7, <3>1, InitiateKeeps, Zenon
  <2> HIDE DEF d
  <2>9. d.state = "ESTABLISHED" => Noticed(d)
    <3> SUFFICES ASSUME d.state = "ESTABLISHED" PROVE Noticed(d)
      OBVIOUS
    <3>1. /\ d.my = q.my /\ (Checks(q) => Checks(d)) /\ d.packet # None /\ d.stale = q.stale
          /\ ~d.deferred
      <4>1. q.state = "ESTABLISHED" /\ d.state # "GONE"
        BY <1>4, <2>3, <2>7, Zenon
      <4>2. QED
        BY <1>4, <2>7, <2>8, <4>1, Zenon DEF Leads
    <3>2. route = d.my \/ Checks(d)
      BY <2>3, <2>5, <2>7, <3>1, Zenon
    <3>3. ~d.stale
      BY <2>4, <2>7, <3>1, Zenon
    <3>4. QED
      BY <1>4, <3>1, <3>2, <3>3, Zenon DEF Noticed
  <2>10. QED
    BY <1>1, <2>1, <2>8, <2>9, HandlerKeeps, Zenon
<1>5. QED
  BY <1>2, <1>3, <1>4

\* retransmit_job: the job is that of the exchange, which is not deferred.
LEMMA RetransmitStep ==
  ASSUME IInv, retransmit_job PROVE IInv'
<1> DEFINE c == [sa EXCEPT !.jobs = @ - 1]
           d == retransmit(c)
<1>0. /\ RestOK(sa) /\ ExchangeOK(sa) /\ sa.out = None /\ sa \in Within
      /\ InStep(sa, gw, toGw, toMe)
      /\ route \in Addr \cup {None} /\ due \in Nat
      /\ sa.packet # None => sa.jobs = (IF sa.deferred THEN 0 ELSE 1)
      /\ sa.state = "ESTABLISHED" /\ link /\ events = <<>> /\ ~window /\ due = 0 => Noticed(sa)
  BY InvFacts, Zenon
<1>1. /\ sa.jobs > 0 /\ Perform(d, d.deferred)
      /\ UNCHANGED <<gw, link, route, events, connected, due>> /\ toMe' \subseteq toMe
  BY DEF retransmit_job, net
<1>2. sa.packet # None /\ ~sa.deferred /\ sa.jobs = 1 /\ sa.state # "GONE"
  BY <1>0, <1>1 DEF ExchangeOK
<1>3. sa.jobs - 1 = 0 /\ sa.jobs - 1 \in Nat
  BY <1>2
<1>4. c \in Within
  BY <1>0, <1>3, Zenon DEF Within
<1>5. /\ c.active = sa.active /\ c.queued = sa.queued /\ c.state = sa.state /\ c.type = sa.type
      /\ c.packet = sa.packet /\ c.mid = sa.mid /\ c.my = sa.my /\ c.out = sa.out
      /\ c.jobs = 0 /\ c.why = sa.why
  BY <1>0, <1>3, Zenon DEF Within
<1>6. c.deferred = sa.deferred /\ c.stale = sa.stale
  BY <1>0, Zenon DEF Within
<1> HIDE DEF c
<1>7. ExchangeOK(c)
  BY <1>0, <1>4, <1>5, Zenon DEF ExchangeOK
<1>8. Leads(c, d)
  <2>1. c.packet # None /\ ~c.deferred /\ c.jobs = 0 /\ c.out = None
    BY <1>0, <1>2, <1>5, <1>6, Zenon
  <2>2. QED
    BY <1>0, <1>7, <2>1, RetransmitLeads
<1> HIDE DEF d
<1>9. RestOK(d) /\ InStep(d, gw, toGw, toMe)
  <2>1. InStep(c, gw, toGw, toMe)
    BY <1>0, <1>5, Zenon DEF InStep
  <2>2. QED
    BY <1>2, <1>5, <1>8, <2>1, LeadsInStep, Zenon DEF Leads
<1>10. d.state = "ESTABLISHED" /\ Noticed(sa) => Noticed(d)
  <2>1. Noticed(sa) => Noticed(c)
    BY <1>5, <1>6, Zenon DEF Noticed, Checks
  <2>2. QED
    BY <1>8, <2>1, NoticedLeads
<1>11. d.state = "ESTABLISHED" => sa.state = "ESTABLISHED"
  BY <1>5, <1>8, Zenon DEF Leads
<1>12. d.deferred \in BOOLEAN /\ due' \in Nat
  BY <1>0, <1>1, <1>9 DEF RestOK, ExchangeOK, Within
<1>13. d.state = "ESTABLISHED" /\ link /\ events = <<>> /\ ~window /\ due' = 0
           => Noticed(d) \/ (d.deferred /\ connected)
  BY <1>0, <1>1, <1>10, <1>11, Zenon
<1>14. QED
  BY <1>1, <1>9, <1>12, <1>13, HandlerKeeps, Zenon

\* A task of another kind is queued, and initiated if no exchange is under way.
LEMMA QueueKeeps ==
  ASSUME IInv, sa.state = "ESTABLISHED", NEW t \in Task, ~t.update,
         LET c == initiate([sa EXCEPT !.queued = @ \cup {t}]) IN Perform(c, c.deferred),
         UNCHANGED net, UNCHANGED <<gw, toMe>>
  PROVE  IInv'
<1> DEFINE q == [sa EXCEPT !.queued = @ \cup {t}]
           d == initiate(q)
<1>0. /\ ExchangeOK(sa) /\ sa.out = None
      /\ due \in Nat
      /\ sa.state = "ESTABLISHED" /\ link /\ events = <<>> /\ ~window /\ due = 0 => Noticed(sa)
  BY InvFacts, Zenon
<1>1. /\ Perform(d, d.deferred)
      /\ UNCHANGED <<gw, link, route, events, connected, due>> /\ toMe' \subseteq toMe
  BY DEF net
<1>2. /\ ExchangeOK(q)
      /\ q.state = sa.state /\ q.packet = sa.packet /\ q.mid = sa.mid /\ q.my = sa.my
      /\ q.out = sa.out /\ q.jobs = sa.jobs /\ q.deferred = sa.deferred /\ q.stale = sa.stale
      /\ (Checks(sa) => Checks(q))
  BY <1>0, QueueTask, Zenon
<1> HIDE DEF q
<1>3. Leads(q, d) /\ RestOK(d) /\ InStep(d, gw, toGw, toMe)
  <2>1. sa.state # "GONE" /\ q.out = None
    BY <1>0, <1>2
  <2>2. QED
    BY <1>2, <2>1, InitiateKeeps, Zenon
<1> HIDE DEF d
<1>4. d.state = "ESTABLISHED" /\ Noticed(sa) => Noticed(d)
  <2>1. Noticed(sa) => Noticed(q)
    BY <1>2, Zenon DEF Noticed
  <2>2. QED
    BY <1>3, <2>1, NoticedLeads
<1>5. d.deferred \in BOOLEAN /\ due' \in Nat
  BY <1>0, <1>1, <1>3 DEF RestOK, ExchangeOK, Within
<1>6. d.state = "ESTABLISHED" /\ link /\ events = <<>> /\ ~window /\ due' = 0
           => Noticed(d) \/ (d.deferred /\ connected)
  BY <1>0, <1>1, <1>4, Zenon
<1>7. QED
  BY <1>1, <1>3, <1>5, <1>6, HandlerKeeps, Zenon

\* rekey_child_sa queues a task.
LEMMA RekeyStep ==
  ASSUME IInv, rekey_child_sa PROVE IInv'
<1>1. NewTask("CHILD_REKEY", 2) \in Task
  BY Zenon DEF NewTask, Task, TaskType
<1>2. ~NewTask("CHILD_REKEY", 2).update
  BY DEF NewTask
<1>3. QED
  BY <1>1, <1>2, QueueKeeps DEF rekey_child_sa

\* delete_ queues a task, or destroys an IKE_SA that is being deleted.
LEMMA DeleteStep ==
  ASSUME IInv, delete_ PROVE IInv'
<1>1. NewTask("IKE_DELETE", 1) \in Task
  BY Zenon DEF NewTask, Task, TaskType
<1>2. ~NewTask("IKE_DELETE", 1).update
  BY DEF NewTask
<1>3. CASE sa.state = "ESTABLISHED"
  BY <1>1, <1>2, <1>3, QueueKeeps DEF delete_
<1>4. CASE sa.state # "ESTABLISHED"
  <2> DEFINE d == Destroyed(sa, "forced")
  <2>1. /\ Perform(d, FALSE) /\ UNCHANGED <<gw, link, route, events, connected, due>>
        /\ toMe' \subseteq toMe
    BY <1>4 DEF delete_, net
  <2>2. RestOK(d) /\ d.state = "GONE"
    <3>1. sa \in Within /\ sa.out = None /\ \A t \in sa.queued : ~t.update
      BY InvFacts DEF ExchangeOK
    <3>2. QED
      BY <3>1, DestroyedRests
  <2> HIDE DEF d
  <2>3. InStep(d, gw, toGw, toMe)
    BY <2>2 DEF InStep
  <2>4. due' \in Nat
    BY <2>1, InvFacts
  <2>5. d.state # "ESTABLISHED"
    BY <2>2
  <2>6. QED
    BY <2>1, <2>2, <2>3, <2>4, <2>5, HandlerKeeps, Zenon
<1>5. QED
  BY <1>3, <1>4

\* The parts of an IKE_SA that the task with the response may not touch.
SameExchange(p, c) ==
  /\ p.state = c.state /\ p.queued = c.queued /\ p.mid = c.mid /\ p.out = c.out /\ p.why = c.why
  /\ p.deferred = c.deferred /\ p.stale = c.stale

\* process of the active task: the IKE_SA is deleted, or a path that it had noticed is
\* in use or is still looked for. COOKIE2 is that of the request.
LEMMA TaskProcessKeeps ==
  ASSUME NEW c \in Within, c.active \in Task, \A t \in c.queued : ~t.update,
         NEW m \in MePacket, m.cookie = c.packet.mid, m.dst = route
  PROVE  LET p == TaskProcess(c, m) IN
           \/ p = Destroyed(c, "deleted")
           \/ p \in Within /\ SameExchange(p, c) /\ (Noticed(c) => Noticed(p))
<1> DEFINE t == c.active
           p == TaskProcess(c, m)
           newer == is_newer_update_queued(c)
           moved == t.check /\ (t.update \/ m.dst # c.my)
           next == IF moved THEN [t EXCEPT !.check = FALSE, !.update = TRUE] ELSE None
           less == IF t.left = 2 THEN [t EXCEPT !.left = 1] ELSE None
           addr == IF t.check THEN m.dst ELSE c.my
<1>0. /\ t.type \in TaskType /\ m.dst \in Addr /\ c.my \in Addr /\ c.queued \in SUBSET Task
      /\ t.check \in BOOLEAN /\ t # None
  BY NoneIsNone DEF Task, Within, MePacket
<1>1. \/ t.type = "IKE_DELETE" /\ p = Destroyed(c, "deleted")
      \/ t.type = "IKE_MOBIKE" /\ newer /\ p = [c EXCEPT !.active = None]
      \/ t.type = "IKE_MOBIKE" /\ ~newer /\ p = [c EXCEPT !.my = addr, !.active = next]
      \/ t.type = "CHILD_REKEY" /\ p = [c EXCEPT !.active = less]
  <2>1. CASE t.type = "IKE_DELETE"
    BY <2>1 DEF TaskProcess
  <2>2. CASE t.type = "CHILD_REKEY"
    BY <2>2 DEF TaskProcess
  <2>3. CASE t.type = "IKE_MOBIKE"
    <3>1. p = MobikeAnswered(c, m)
      BY <2>3 DEF TaskProcess
    <3>2. CASE newer
      BY <2>3, <3>1, <3>2 DEF MobikeAnswered
    <3>3. CASE ~newer
      <4>1. MobikeAnswered(c, m) = [c EXCEPT !.my = addr, !.active = next]
        BY <3>3 DEF MobikeAnswered
      <4>2. QED
        BY <2>3, <3>1, <3>3, <4>1
    <3>4. QED
      BY <3>2, <3>3
  <2>4. QED
    BY <1>0, <2>1, <2>2, <2>3 DEF TaskType
<1>2. next \in Task \cup {None} /\ addr \in Addr
  <2>1. [t EXCEPT !.check = FALSE, !.update = TRUE] \in Task
    BY Zenon DEF Task
  <2>2. QED
    BY <1>0, <2>1
<1>3. less \in Task \cup {None}
  <2>1. [t EXCEPT !.left = 1] \in Task
    BY Zenon DEF Task
  <2>2. QED
    BY <2>1
<1>4. ~newer => \A u \in c.queued : ~(IsMobike(u) /\ u.check)
  BY DEF is_newer_update_queued
<1>5. newer => \E u \in c.queued : IsMobike(u) /\ u.check
  BY Zenon DEF is_newer_update_queued
<1>6. addr = route \/ (addr = c.my /\ ~t.check)
  BY <1>0
<1> SUFFICES \/ p = Destroyed(c, "deleted")
             \/ p \in Within /\ SameExchange(p, c) /\ (Noticed(c) => Noticed(p))
  OBVIOUS
<1> HIDE DEF p, next, less, addr, moved, newer
<1>7. CASE newer /\ p = [c EXCEPT !.active = None]
  <2>1. p \in Within
    BY <1>7, Zenon DEF Within
  <2>2. SameExchange(p, c) /\ p.my = c.my
    BY <1>7, Zenon DEF SameExchange, Within
  <2>3. Noticed(c) => Noticed(p)
    BY <1>5, <1>7, <2>2, Zenon DEF SameExchange, Noticed, Checks
  <2>4. QED
    BY <2>1, <2>2, <2>3
<1>8. CASE ~newer /\ p = [c EXCEPT !.my = addr, !.active = next]
  <2>1. p \in Within
    BY <1>2, <1>8, Zenon DEF Within
  <2>2. SameExchange(p, c) /\ p.my = addr
    BY <1>8, Zenon DEF SameExchange, Within
  <2>3. ~t.check => ~Checks(c)
    BY <1>4, <1>8 DEF Checks
  <2>4. Noticed(c) => Noticed(p)
    BY <1>6, <2>2, <2>3, Zenon DEF SameExchange, Noticed
  <2>5. QED
    BY <2>1, <2>2, <2>4
<1>9. CASE t.type = "CHILD_REKEY" /\ p = [c EXCEPT !.active = less]
  <2>1. p \in Within
    BY <1>3, <1>9, Zenon DEF Within
  <2>2. SameExchange(p, c) /\ p.my = c.my
    BY <1>9, Zenon DEF SameExchange, Within
  <2>3. Checks(c) => Checks(p)
    BY <1>9, <2>2 DEF Checks, IsMobike, SameExchange
  <2>4. Noticed(c) => Noticed(p)
    BY <2>2, <2>3, Zenon DEF SameExchange, Noticed
  <2>5. QED
    BY <2>1, <2>2, <2>4
<1>10. QED
  BY <1>1, <1>7, <1>8, <1>9

\* A response to the exchange under way: the next one is initiated.
LEMMA ResponseKeeps ==
  ASSUME IInv, NEW m \in toMe, m.dst = route, sa.state # "GONE", m.mid = sa.mid
  PROVE  LET d == process_response(sa, m) IN
           /\ RestOK(d) /\ InStep(d, gw, toGw, toMe)
           /\ d.state = "ESTABLISHED" => sa.state = "ESTABLISHED"
           /\ d.state = "ESTABLISHED" /\ Noticed(sa) => Noticed(d)
<1> DEFINE p == TaskProcess(sa, m)
           c == [p EXCEPT !.mid = @ + 1, !.type = "UNDEFINED", !.packet = None, !.jobs = 0]
           d == process_response(sa, m)
<1>0. /\ RestOK(sa) /\ ExchangeOK(sa) /\ sa.out = None /\ sa \in Within
      /\ InStep(sa, gw, toGw, toMe) /\ route \in Addr \cup {None}
  BY InvFacts, Zenon
<1>1. m \in MePacket /\ m.cookie = m.mid
  BY DEF IInv, GwOK
<1>2. gw.mid = sa.mid + 1 /\ m.type = sa.packet.type
  BY <1>0 DEF InStep
<1>3. sa.packet # None
  BY <1>0, <1>2 DEF InStep
<1>4. /\ sa.packet.type = sa.type /\ sa.packet.mid = sa.mid /\ sa.active \in Task
      /\ (\A t \in sa.queued : ~t.update) /\ sa.why \notin {"type", "cookie"}
      /\ sa.mid \in Nat /\ sa.mid + 1 \in Nat
  <2>1. /\ sa.packet.type = sa.type /\ sa.packet.mid = sa.mid /\ sa.active # None
        /\ (\A t \in sa.queued : ~t.update) /\ sa.why \notin {"type", "cookie"}
    BY <1>0, <1>3, Zenon DEF ExchangeOK
  <2>2. sa.mid \in Nat /\ sa.active \in Task \cup {None}
    BY <1>0, Zenon DEF Within
  <2>3. QED
    BY <2>1, <2>2
<1>5. d = IF p.state = "GONE" THEN p ELSE initiate(c)
  BY <1>2, <1>4 DEF process_response
<1>6. \/ p = Destroyed(sa, "deleted")
      \/ p \in Within /\ SameExchange(p, sa) /\ (Noticed(sa) => Noticed(p))
  BY <1>0, <1>1, <1>4, TaskProcessKeeps, Zenon
<1> SUFFICES /\ RestOK(d) /\ InStep(d, gw, toGw, toMe)
             /\ d.state = "ESTABLISHED" => sa.state = "ESTABLISHED"
             /\ d.state = "ESTABLISHED" /\ Noticed(sa) => Noticed(d)
  OBVIOUS
<1> HIDE DEF p, d
<1>7. CASE p = Destroyed(sa, "deleted")
  <2>1. RestOK(p) /\ p.state = "GONE"
    BY <1>0, <1>4, <1>7, DestroyedRests
  <2>2. InStep(p, gw, toGw, toMe)
    BY <2>1 DEF InStep
  <2>3. QED
    BY <1>5, <2>1, <2>2
<1>8. CASE p \in Within /\ SameExchange(p, sa) /\ (Noticed(sa) => Noticed(p))
  <2>1. d = initiate(c)
    BY <1>5, <1>8 DEF SameExchange
  <2>2. p.mid + 1 \in Nat /\ p.mid = sa.mid
    BY <1>4, <1>8 DEF SameExchange
  <2>3. c \in Within
    BY <1>8, <2>2, Zenon DEF Within
  <2>4. /\ c.active = p.active /\ c.queued = p.queued /\ c.state = p.state /\ c.type = "UNDEFINED"
        /\ c.packet = None /\ c.mid = p.mid + 1 /\ c.my = p.my /\ c.out = p.out
        /\ c.jobs = 0 /\ c.why = p.why
    BY <1>8, <2>2, Zenon DEF Within
  <2>5. c.deferred = p.deferred /\ c.stale = p.stale
    BY <1>8, Zenon DEF Within
  <2> HIDE DEF c
  <2>6. ExchangeOK(c) /\ c.state # "GONE" /\ c.out = None
    BY <1>0, <1>4, <1>8, <2>3, <2>4, Zenon DEF ExchangeOK, SameExchange
  <2>7. Leads(c, d)
    BY <1>0, <2>1, <2>4, <2>6, InitiateLeads
  <2>8. InStep(c, gw, toGw, toMe)
    <3>1. c.mid = sa.mid + 1 /\ sa.mid \in Nat
      BY <1>4, <2>2, <2>4
    <3>2. /\ \A x \in toGw : x.mid \in Nat /\ x.mid <= sa.mid
          /\ \A x \in toMe : x.mid \in Nat /\ x.mid <= sa.mid
      BY <1>0 DEF InStep, IInv, GwOK, GwPacket, MePacket
    <3>3. QED
      BY <1>2, <3>1, <3>2 DEF InStep
  <2>9. RestOK(d) /\ InStep(d, gw, toGw, toMe)
    BY <2>6, <2>7, <2>8, LeadsInStep, Zenon DEF Leads
  <2>10. d.state = "ESTABLISHED" => sa.state = "ESTABLISHED"
    <3>1. c.state = sa.state
      BY <1>8, <2>4 DEF SameExchange
    <3>2. QED
      BY <2>7, <3>1 DEF Leads
  <2>11. Noticed(p) => Noticed(c)
    BY <2>4, <2>5, Zenon DEF Noticed, Checks
  <2>12. QED
    BY <1>8, <2>7, <2>9, <2>10, <2>11, NoticedLeads
<1>9. QED
  BY <1>6, <1>7, <1>8

\* ProcessResponse: a response to another exchange is dropped.
LEMMA ResponseStep ==
  ASSUME IInv, NEW m \in toMe, ProcessResponse(m) PROVE IInv'
<1> DEFINE mine == sa.state # "GONE" /\ m.mid = sa.mid
           d == IF mine THEN process_response(sa, m) ELSE sa
<1>0. /\ RestOK(sa) /\ InStep(sa, gw, toGw, toMe) /\ due \in Nat
      /\ sa.state = "ESTABLISHED" /\ link /\ events = <<>> /\ ~window /\ due = 0 => Noticed(sa)
  BY InvFacts, Zenon
<1>1. /\ Perform(d, FALSE) /\ m.dst = route
      /\ UNCHANGED <<gw, link, route, events, connected, due>> /\ toMe' \subseteq toMe
  BY DEF ProcessResponse, net
<1>2. /\ RestOK(d) /\ InStep(d, gw, toGw, toMe)
      /\ d.state = "ESTABLISHED" => sa.state = "ESTABLISHED"
      /\ d.state = "ESTABLISHED" /\ Noticed(sa) => Noticed(d)
  <2>1. CASE mine
    BY <1>1, <2>1, ResponseKeeps
  <2>2. CASE ~mine
    BY <1>0, <2>2
  <2>3. QED
    BY <2>1, <2>2
<1> HIDE DEF d
<1>3. due' \in Nat
  BY <1>0, <1>1
<1>4. QED
  BY <1>0, <1>1, <1>2, <1>3, HandlerKeeps, Zenon

-----------------------------------------------------------------------------
(***************************************************************************)
(* The network and the gateway.                                            *)
(***************************************************************************)
\* A step that leaves the phone's IKE_SA alone keeps what is said of it.
LEMMA SameSa ==
  ASSUME IInv, UNCHANGED sa, NetOK', GwOK', InStep(sa, gw', toGw', toMe'), RoamNoticed'
  PROVE  IInv'
BY DEF IInv

\* A broadcast that has not been handled is a roam to come.
LEMMA ChangeStep ==
  ASSUME IInv, NEW l \in BOOLEAN, NEW r \in Addr \cup {None}, Change(l, r) PROVE IInv'
<1>0. events \in Seq(BOOLEAN) /\ connected \in BOOLEAN /\ window \in BOOLEAN /\ due \in Nat
  BY DEF IInv, NetOK
<1>1. /\ link' = l /\ route' = r /\ events' = Append(events, l)
      /\ UNCHANGED <<connected, window, due, sa, gw, toGw, toMe>>
  BY DEF Change
<1>2. /\ events' \in Seq(BOOLEAN) /\ Len(events') = Len(events) + 1 /\ Len(events) \in Nat
      /\ events'[Len(events')] = l /\ events' # <<>>
  BY <1>0, <1>1, AppendProperties
<1>3. NetOK'
  BY <1>0, <1>1, <1>2 DEF NetOK
<1>4. GwOK'
  BY <1>1 DEF IInv, GwOK
<1>5. InStep(sa, gw', toGw', toMe')
  BY <1>1 DEF IInv
<1>6. RoamNoticed'
  BY <1>2 DEF RoamNoticed, RoamComing
<1>7. QED
  BY <1>1, <1>3, <1>4, <1>5, <1>6, SameSa

\* An address that appears late has had its recheck scheduled.
LEMMA AddressStep ==
  ASSUME IInv, NEW r \in Addr, AddressAppears(r) PROVE IInv'
<1>1. /\ link /\ route = None /\ route' = r
      /\ UNCHANGED <<link, events, connected, window, due, sa, gw, toGw, toMe>>
  BY DEF AddressAppears
<1>2. NetOK'
  BY <1>1 DEF IInv, NetOK
<1>3. GwOK'
  BY <1>1 DEF IInv, GwOK
<1>4. InStep(sa, gw', toGw', toMe')
  BY <1>1 DEF IInv
<1>5. RoamNoticed'
  BY <1>1 DEF IInv, RoamNoticed, RoamComing
<1>6. QED
  BY <1>1, <1>2, <1>3, <1>4, <1>5, SameSa

\* connectivity_cb: the last broadcast is the last that is handled.
LEMMA ConnectivityStep ==
  ASSUME IInv, connectivity_cb PROVE IInv'
<1>0. /\ events \in Seq(BOOLEAN) /\ link \in BOOLEAN /\ route \in Addr \cup {None} /\ due \in Nat
      /\ events # <<>> => link = events[Len(events)]
  BY DEF IInv, NetOK
<1>1. /\ events # <<>> /\ connected' = Head(events) /\ events' = Tail(events) /\ window' = TRUE
      /\ UNCHANGED <<link, route, due, sa, gw, toGw, toMe>>
  BY DEF connectivity_cb
<1>2. /\ Len(events) \in Nat /\ Len(events) > 0 /\ Head(events) = events[1] /\ events[1] \in BOOLEAN
      /\ events' \in Seq(BOOLEAN) /\ Len(events') = Len(events) - 1
      /\ \A i \in 1..Len(events') : events'[i] = events[i + 1]
  BY <1>0, <1>1, HeadTailProperties, EmptySeq
<1>3. NetOK'
  <2>1. CASE events' = <<>>
    <3>1. Len(events) = 1
      BY <1>2, <2>1
    <3>2. link' = connected'
      BY <1>0, <1>1, <1>2, <3>1
    <3>3. QED
      BY <1>0, <1>1, <1>2, <2>1, <3>2 DEF NetOK
  <2>2. CASE events' # <<>>
    <3>1. Len(events') > 0
      BY <1>2, <2>2, EmptySeq
    <3>2. events'[Len(events')] = events[Len(events)]
      BY <1>2, <3>1
    <3>3. QED
      BY <1>0, <1>1, <1>2, <2>2, <3>2 DEF NetOK
  <2>3. QED
    BY <2>1, <2>2
<1>4. GwOK'
  BY <1>1 DEF IInv, GwOK
<1>5. InStep(sa, gw', toGw', toMe')
  BY <1>1 DEF IInv
<1>6. RoamNoticed'
  BY <1>1 DEF RoamNoticed, RoamComing
<1>7. QED
  BY <1>1, <1>3, <1>4, <1>5, <1>6, SameSa

\* roam_event hands the roam on.
LEMMA RoamEventStep ==
  ASSUME IInv, roam_event PROVE IInv'
<1>1. /\ window' = FALSE /\ due' = due + 1 /\ due \in Nat
      /\ UNCHANGED <<link, route, events, connected, sa, gw, toGw, toMe>>
  BY Zenon DEF roam_event, IInv, NetOK
<1>2. NetOK'
  <2>1. due' \in Nat
    BY <1>1
  <2>2. window' \in BOOLEAN
    BY <1>1, Zenon
  <2>3. QED
    BY <1>1, <2>1, <2>2, Zenon DEF IInv, NetOK
<1>3. GwOK'
  BY <1>1 DEF IInv, GwOK
<1>4. InStep(sa, gw', toGw', toMe')
  BY <1>1 DEF IInv
<1>5. RoamNoticed'
  BY <1>1 DEF RoamNoticed, RoamComing
<1>6. QED
  BY <1>1, <1>2, <1>3, <1>4, <1>5, SameSa

\* A step of the gateway or of the network between the two leaves the phone alone.
LEMMA FarStep ==
  ASSUME IInv, UNCHANGED net, UNCHANGED <<window, sa>>, GwOK', InStep(sa, gw', toGw', toMe')
  PROVE  IInv'
<1>1. NetOK'
  BY DEF IInv, NetOK, net
<1>2. RoamNoticed'
  BY DEF IInv, RoamNoticed, RoamComing, net
<1>3. QED
  BY <1>1, <1>2, SameSa

\* A response that is sent: an old one, or the one to this exchange.
LEMMA ReplyKeeps ==
  ASSUME GwOK, NEW r \in [type : Exchange, mid : Nat, cookie : Nat], r.cookie = r.mid,
         NEW m \in GwPacket, Reply(r, m), toGw' \subseteq toGw,
         NEW g \in GwState, g.packet = r, g.mid = r.mid + 1, gw' = g,
         InStep(sa, g, toGw, toMe), sa.mid \in Nat
  PROVE  GwOK' /\ InStep(sa, gw', toGw', toMe')
<1> DEFINE x == [type |-> r.type, mid |-> r.mid, cookie |-> r.cookie, dst |-> m.src]
<1>1. \A y \in toMe' : y \in toMe \/ y = x
  BY PushedFrom DEF Reply
<1>2. x \in MePacket
  BY Zenon DEF GwPacket, MePacket
<1>3. x.mid = r.mid /\ x.type = r.type /\ x.cookie = r.cookie /\ r.mid \in Nat
  OBVIOUS
<1> HIDE DEF x
<1>4. GwOK'
  <2>1. toMe' \subseteq MePacket /\ \A y \in toMe' : y.cookie = y.mid
    BY <1>1, <1>2, <1>3 DEF GwOK
  <2>2. gw' \in GwState /\ gw'.packet.mid = gw'.mid - 1 /\ gw'.packet.cookie = gw'.packet.mid
    BY <1>3
  <2>3. toGw' \subseteq GwPacket
    BY DEF GwOK
  <2>4. QED
    BY <2>1, <2>2, <2>3 DEF GwOK
<1>5. ASSUME sa.state # "GONE" PROVE x.mid <= sa.mid /\ (x.mid = sa.mid => g.mid = sa.mid + 1 /\ x.type = sa.packet.type)
  <2>1. g.mid \in {sa.mid, sa.mid + 1}
    BY <1>5 DEF InStep
  <2>2. g.mid = sa.mid + 1 => g.packet.type = sa.packet.type
    BY <1>5 DEF InStep
  <2>3. QED
    BY <1>3, <2>1, <2>2
<1>6. InStep(sa, gw', toGw', toMe')
  BY <1>1, <1>5 DEF InStep
<1>7. QED
  BY <1>4, <1>6

\* ProcessRequest: a new request is that of the exchange under way.
LEMMA RequestStep ==
  ASSUME IInv, NEW m \in toGw, ProcessRequest(m) PROVE IInv'
<1>0. /\ GwOK /\ m \in GwPacket /\ gw \in GwState /\ InStep(sa, gw, toGw, toMe) /\ sa.mid \in Nat
      /\ gw.packet \in [type : Exchange, mid : Nat, cookie : Nat] /\ gw.mid \in Nat
      /\ gw.packet.mid = gw.mid - 1 /\ gw.packet.cookie = gw.packet.mid
  <2>1. GwOK /\ m \in GwPacket /\ gw \in GwState /\ InStep(sa, gw, toGw, toMe)
        /\ gw.packet.mid = gw.mid - 1 /\ gw.packet.cookie = gw.packet.mid
    BY DEF IInv, GwOK
  <2>2. gw.packet \in [type : Exchange, mid : Nat, cookie : Nat] /\ gw.mid \in Nat
    BY <2>1, Zenon DEF GwState
  <2>3. sa.mid \in Nat
    BY InvFacts, Zenon DEF Within
  <2>4. QED
    BY <2>1, <2>2, <2>3
<1>1. /\ toGw' \subseteq toGw /\ UNCHANGED net /\ UNCHANGED <<window, sa>>
  BY DEF ProcessRequest
<1>2. CASE ~gw.gone /\ m.mid = gw.mid
  <2> DEFINE r == Response(m)
             addr == IF m.update THEN m.src ELSE gw.peer
             gone == m.task = "IKE_DELETE"
             g == [mid |-> gw.mid + 1, packet |-> r, gone |-> gone, peer |-> addr]
  <2>1. gw' = g /\ Reply(r, m)
    <3>1. m.mid # gw.mid - 1
      BY <1>0, <1>2
    <3>2. process_request(m)
      BY <1>2, <3>1 DEF ProcessRequest
    <3>3. QED
      BY <3>2, Zenon DEF process_request
  <2>2. r \in [type : Exchange, mid : Nat, cookie : Nat]
    BY <1>0, Zenon DEF Response, GwPacket
  <2>3. r.type = m.type /\ r.mid = m.mid /\ r.cookie = m.mid
    BY DEF Response
  <2>4. addr \in Addr /\ gone \in BOOLEAN /\ gw.mid + 1 \in Nat
    BY <1>0 DEF GwPacket, GwState
  <2> HIDE DEF r, addr, gone
  <2>5. g \in GwState
    BY <2>2, <2>4, Zenon DEF GwState
  <2>6. g.packet = r /\ g.mid = gw.mid + 1
    OBVIOUS
  <2> HIDE DEF g
  <2>7. InStep(sa, g, toGw, toMe)
    <3> SUFFICES ASSUME sa.state # "GONE" PROVE InStep(sa, g, toGw, toMe)
      BY DEF InStep
    <3>1. m.mid <= sa.mid /\ gw.mid \in {sa.mid, sa.mid + 1}
      BY <1>0 DEF InStep
    <3>2. gw.mid = sa.mid /\ m.mid = sa.mid
      BY <1>0, <1>2, <3>1
    <3>3. sa.packet # None /\ m.type = sa.packet.type
      BY <1>0, <3>2 DEF InStep
    <3>4. QED
      BY <1>0, <2>3, <2>6, <3>2, <3>3 DEF InStep
  <2>8. r.cookie = r.mid /\ g.mid = r.mid + 1
    BY <1>2, <2>3, <2>6
  <2>9. GwOK' /\ InStep(sa, gw', toGw', toMe')
    BY <1>0, <1>1, <2>1, <2>2, <2>5, <2>6, <2>7, <2>8, ReplyKeeps, Zenon
  <2>10. QED
    BY <1>1, <2>9, FarStep
<1>3. CASE ~gw.gone /\ m.mid = gw.mid - 1
  <2>1. Reply(gw.packet, m) /\ UNCHANGED gw
    <3>1. m.mid # gw.mid
      BY <1>0, <1>3
    <3>2. QED
      BY <1>3, <3>1 DEF ProcessRequest
  <2>2. gw.mid = gw.packet.mid + 1
    BY <1>0
  <2>3. GwOK' /\ InStep(sa, gw', toGw', toMe')
    BY <1>0, <1>1, <2>1, <2>2, ReplyKeeps, Zenon
  <2>4. QED
    BY <1>1, <2>3, FarStep
<1>4. CASE gw.gone \/ (m.mid # gw.mid /\ m.mid # gw.mid - 1)
  <2>1. UNCHANGED <<gw, toMe>>
    BY <1>4 DEF ProcessRequest
  <2>2. GwOK' /\ InStep(sa, gw', toGw', toMe')
    BY <1>0, <1>1, <2>1 DEF GwOK, InStep
  <2>3. QED
    BY <1>1, <2>2, FarStep
<1>5. QED
  BY <1>2, <1>3, <1>4

\* A lost packet takes nothing with it.
LEMMA LoseStep ==
  ASSUME IInv, Lose PROVE IInv'
<1>1. /\ UNCHANGED net /\ UNCHANGED <<window, sa, gw>> /\ toGw' \subseteq toGw /\ toMe' \subseteq toMe
  BY DEF Lose
<1>2. GwOK' /\ InStep(sa, gw', toGw', toMe')
  BY <1>1 DEF IInv, GwOK, InStep
<1>3. QED
  BY <1>1, <1>2, FarStep

-----------------------------------------------------------------------------
(***************************************************************************)
(* The theorems.                                                           *)
(***************************************************************************)
\* The invariant holds when the IKE_SA is established at home.
LEMMA InitInv == Init => IInv
<1> SUFFICES ASSUME Init PROVE IInv
  OBVIOUS
<1>1. Home \in Addr /\ None \notin Addr
  BY MobikeAssumption DEF MobikeAssumption
<1>2. sa \in Within
  <2>1. {} \in SUBSET Task /\ 0 \in Nat /\ 1 \in Nat
    OBVIOUS
  <2>2. QED
    BY <1>1, <2>1, Zenon DEF Init, Within
<1>3. /\ sa.state = "ESTABLISHED" /\ sa.my = Home /\ sa.mid = 1 /\ sa.type = "UNDEFINED"
      /\ sa.packet = None /\ sa.out = None /\ sa.active = None /\ sa.queued = {} /\ sa.jobs = 0
      /\ sa.why = ""
  BY Zenon DEF Init
<1>4. ~sa.deferred /\ ~sa.stale
  BY DEF Init
<1>5. ExchangeOK(sa)
  BY <1>2, <1>3 DEF ExchangeOK
<1>6. RestOK(sa)
  BY <1>3, <1>5 DEF RestOK
<1>7. /\ gw.mid = 1 /\ gw.packet = [type |-> "INFORMATIONAL", mid |-> 0, cookie |-> 0]
      /\ toGw = {} /\ toMe = {}
  BY Zenon DEF Init
<1>8. gw \in GwState
  <2>1. 1 \in Nat /\ 0 \in Nat /\ "INFORMATIONAL" \in Exchange
    BY DEF Exchange
  <2>2. [type |-> "INFORMATIONAL", mid |-> 0, cookie |-> 0] \in [type : Exchange, mid : Nat, cookie : Nat]
    BY <2>1
  <2>3. QED
    BY <1>1, <2>1, <2>2, Zenon DEF Init, GwState
<1>9. GwOK
  BY <1>7, <1>8 DEF GwOK
<1>10. InStep(sa, gw, toGw, toMe)
  <2>1. gw.mid \in {sa.mid, sa.mid + 1} /\ gw.mid # sa.mid + 1
    <3>1. gw.mid = 1 /\ sa.mid = 1
      BY <1>3, <1>7, Zenon
    <3>2. QED
      BY <3>1
  <2>2. QED
    BY <1>7, <2>1, Zenon DEF InStep
<1>11. NetOK
  <2>1. link = TRUE /\ connected = TRUE /\ window = FALSE /\ route = Home /\ due = 0 /\ events = <<>>
    BY Zenon DEF Init
  <2>2. due \in Nat /\ events \in Seq(BOOLEAN)
    BY <2>1
  <2>3. QED
    BY <1>1, <2>1, <2>2, Zenon DEF NetOK
<1>12. RoamNoticed
  <2>1. route = Home
    BY DEF Init
  <2>2. QED
    BY <1>1, <1>3, <1>4, <2>1 DEF RoamNoticed
<1>13. QED
  BY <1>3, <1>6, <1>9, <1>10, <1>11, <1>12 DEF IInv

\* Every step keeps the invariant.
LEMMA NextInv == IInv /\ [Next]_vars => IInv'
<1> SUFFICES ASSUME IInv, [Next]_vars PROVE IInv'
  OBVIOUS
<1>1. ASSUME NEW l \in BOOLEAN, NEW r \in Addr \cup {None}, Change(l, r) PROVE IInv'
  BY <1>1, ChangeStep
<1>2. ASSUME NEW r \in Addr, AddressAppears(r) PROVE IInv'
  BY <1>2, AddressStep
<1>3. CASE connectivity_cb
  BY <1>3, ConnectivityStep
<1>4. CASE roam_event
  BY <1>4, RoamEventStep
<1>5. CASE roam
  BY <1>5, RoamStep
<1>6. CASE retransmit_job
  BY <1>6, RetransmitStep
<1>7. CASE rekey_child_sa
  BY <1>7, RekeyStep
<1>8. CASE delete_
  BY <1>8, DeleteStep
<1>9. ASSUME NEW m \in toMe, ProcessResponse(m) PROVE IInv'
  BY <1>9, ResponseStep
<1>10. ASSUME NEW m \in toGw, ProcessRequest(m) PROVE IInv'
  BY <1>10, RequestStep
<1>11. CASE Lose
  BY <1>11, LoseStep
<1>12. CASE UNCHANGED vars
  <2>1. NetOK' /\ GwOK' /\ RoamNoticed'
    BY <1>12 DEF IInv, NetOK, GwOK, RoamNoticed, RoamComing, vars
  <2>2. InStep(sa, gw', toGw', toMe') /\ UNCHANGED sa
    BY <1>12 DEF IInv, vars
  <2>3. QED
    BY <2>1, <2>2, SameSa
<1>13. QED
  BY <1>1, <1>2, <1>3, <1>4, <1>5, <1>6, <1>7, <1>8, <1>9, <1>10, <1>11, <1>12 DEF Next

\* The phone's exchange, the gateway and the packets between them stay in step, and what
\* the last broadcast said is still to be roamed for or has been.
THEOREM RoamInvariant == Spec => []IInv
<1>1. QED
  BY InitInv, NextInv, PTL DEF Spec

\* Every member of the IKE_SA and of its task manager has its type.
THEOREM TypeCorrect == Spec => []TypeOK
<1>1. IInv => TypeOK
  <2> SUFFICES ASSUME IInv PROVE TypeOK
    OBVIOUS
  <2>1. sa \in Within /\ sa.out = None
    BY InvFacts
  <2>2. sa \in SA
    <3>1. sa.out \in {None}
      BY <2>1
    <3>2. QED
      BY <2>1, <3>1, Zenon DEF Within, SA
  <2>3. QED
    BY <2>2 DEF IInv, NetOK, TypeOK
<1>2. QED
  BY <1>1, RoamInvariant, PTL

\* However often the path is lost in the middle of an exchange, retransmit and initiate
\* leave it with one retransmission job, or deferred with none.
THEOREM OneRetransmission == Spec => []OneTimer
<1>1. IInv => OneTimer
  BY DEF IInv, RestOK, OneTimer
<1>2. QED
  BY <1>1, RoamInvariant, PTL

\* However packets are lost, repeated and overtaken, process_response never meets the
\* exchange type or the COOKIE2 of another request.
THEOREM AnswerIsToTheRequest == Spec => []AnswersFit
<1>1. IInv => AnswersFit
  BY DEF IInv, RestOK, ExchangeOK, AnswersFit
<1>2. QED
  BY <1>1, RoamInvariant, PTL

\* However the network changes while callbacks are debounced, tasks are under way and
\* exchanges deferred, no change is missed: when no roam is to come, the path in use is
\* the current one or is being looked for, and nothing waits for a path.
THEOREM NoChangeMissed == Spec => []RoamNoticed
<1>1. IInv => RoamNoticed
  BY DEF IInv
<1>2. QED
  BY <1>1, RoamInvariant, PTL
=============================================================================
