----------------------------- MODULE IkeMobike -----------------------------
(***************************************************************************)
(* Roaming of an established IKE_SA on a phone: connectivity events and    *)
(* their debouncing (NetworkManager, android_net.c), the roam of the       *)
(* IKE_SA (ike_sa.c), the task manager that serialises the exchanges,      *)
(* retransmits and defers them (task_manager_v2.c), and the MOBIKE task    *)
(* that probes for a path and then tells the gateway the new address       *)
(* (ike_mobike.c). The gateway runs the responder's part of the same code. *)
(*                                                                         *)
(* A handler is atomic: it has the IKE_SA checked out. The gateway has one *)
(* address and starts no exchange of its own. A destroyed IKE_SA is        *)
(* reestablished as a new one, which is not modelled.                      *)
(***************************************************************************)
EXTENDS Integers, Sequences, FiniteSets

CONSTANTS
  Addr,              \* the addresses the phone may get
  Home,              \* the one it starts with
  None,
  RetransmitTries,   \* charon.retransmit_tries, 3 on Android
  ProbeTries,        \* ROUTABILITY_CHECK_TRIES, 10 in the code
  MaxChanges,        \* bound: changes of the network
  WireBound          \* bound: packets in flight in a direction

ASSUME MobikeAssumption ==
  /\ Home \in Addr /\ None \notin Addr
  /\ RetransmitTries \in Nat /\ ProbeTries \in Nat
  /\ MaxChanges \in Nat /\ WireBound \in Nat \ {0}

VARIABLES
  link,        \* the system says that there is a network
  route,       \* the source address of a packet to the gateway, or None
  events,      \* mEvents: isConnected() at each broadcast
  connected,   \* android_net: as of the last callback
  window,      \* now <= next_roam: a roam_event is scheduled
  due,         \* roam jobs that have become due
  sa,          \* the phone's IKE_SA and its task manager
  gw,          \* the gateway's
  toGw, toMe,  \* packets in flight
  changes,     \* bound: network changes so far
  timers       \* the rekey and the lifetime job that are still scheduled

vars == <<link, route, events, connected, window, due, sa, gw, toGw, toMe, changes, timers>>
net == <<link, route, events, connected, due, changes>>

TaskType == {"IKE_MOBIKE", "IKE_DELETE", "CHILD_REKEY"}
Exchange == {"INFORMATIONAL", "CREATE_CHILD_SA"}

\* left counts the exchanges of a task; rekeying ends with a delete.
Task == [type : TaskType, check : BOOLEAN, update : BOOLEAN, left : {1, 2}]
Packet == [type : Exchange, mid : Nat, task : TaskType, update : BOOLEAN]

ASSUME NoneAssumption == None \notin Packet \cup Task

\* packet, mid, type, tries and deferred are the members of initiating, out is the
\* address from which the step hands the packet to the sender, and why the reason of
\* DESTROY_ME. jobs counts the retransmit jobs for mid; one for an older message does
\* nothing and is left out.
SA == [state : {"ESTABLISHED", "DELETING", "GONE"}, my : Addr, stale : BOOLEAN,
       mid : Nat, type : Exchange \cup {"UNDEFINED"}, tries : Nat, deferred : BOOLEAN,
       packet : Packet \cup {None}, out : {None},
       active : Task \cup {None}, queued : SUBSET Task, jobs : Nat,
       why : {"", "deleted", "timeout", "type", "cookie", "forced"}]

NewTask(type, left) == [type |-> type, check |-> FALSE, update |-> FALSE, left |-> left]

IsMobike(t) == t # None /\ t.type = "IKE_MOBIKE"

(***************************************************************************)
(* task_manager_v2.c                                                       *)
(***************************************************************************)
\* DESTROY_ME, and the IKE_SA is destroyed.
Destroyed(c, why) ==
  [c EXCEPT !.state = "GONE", !.stale = FALSE, !.type = "UNDEFINED", !.tries = 0,
            !.deferred = FALSE, !.packet = None, !.active = None, !.queued = {}, !.jobs = 0,
            !.why = why]

RetransmitsDeferred(c) ==       \* mutant: a job is scheduled without a path, too
  LET mobike == IsMobike(c.active)
      src == IF mobike THEN route ELSE c.my
      limit == IF mobike /\ c.active.check THEN ProbeTries ELSE RetransmitTries
      task == IF mobike /\ route # c.my THEN [c.active EXCEPT !.check = TRUE] ELSE c.active
  IN IF c.tries > limit THEN Destroyed(c, "timeout")
     ELSE [c EXCEPT !.active = task, !.tries = @ + 1, !.jobs = @ + 1, !.out = src,
                    !.deferred = (src = None)]
\* The MOBIKE task chooses the path, and probes when the old one is gone; without
\* a path the exchange is deferred, and no job is scheduled.
retransmit(c) ==
  LET mobike == IsMobike(c.active)
      src == IF mobike THEN route ELSE c.my
      limit == IF mobike /\ c.active.check THEN ProbeTries ELSE RetransmitTries
      task == IF mobike /\ route # c.my THEN [c.active EXCEPT !.check = TRUE] ELSE c.active
  IN CASE c.tries > limit -> Destroyed(c, "timeout")
       [] c.tries <= limit /\ src = None ->
            [c EXCEPT !.active = task, !.stale = TRUE, !.deferred = TRUE]
       [] OTHER ->
            [c EXCEPT !.active = task, !.tries = @ + 1, !.jobs = @ + 1, !.out = src]

Rank(t) == CASE t.type = "IKE_MOBIKE" -> 1 [] t.type = "IKE_DELETE" -> 2 [] OTHER -> 3

\* The active task goes on, else the first of the queue is activated.
ToInitiate(c) ==
  CASE c.active # None -> {c.active}
    [] c.active = None /\ c.state = "ESTABLISHED" ->
         {t \in c.queued : \A u \in c.queued : Rank(t) <= Rank(u)}
    [] OTHER -> {}

\* The task builds the request.
Built(c, t) ==
  LET type == IF t.type = "CHILD_REKEY" /\ t.left = 2 THEN "CREATE_CHILD_SA" ELSE "INFORMATIONAL"
  IN [c EXCEPT !.active = t, !.queued = @ \ {t},
               !.state = IF t.type = "IKE_DELETE" THEN "DELETING" ELSE @,
               !.type = type, !.tries = 0, !.deferred = FALSE,
               !.packet = [type |-> type, mid |-> c.mid, task |-> t.type, update |-> t.update]]

initiate(c) ==
  CASE c.type # "UNDEFINED" /\ c.deferred -> retransmit([c EXCEPT !.deferred = FALSE, !.tries = 0])
    [] c.type # "UNDEFINED" /\ ~c.deferred -> c
    [] OTHER -> IF ToInitiate(c) = {} THEN c
                ELSE retransmit(Built(c, CHOOSE t \in ToInitiate(c) : TRUE))

\* queue_mobike_task, and roam or addresses of the task.
queue_mobike(c, roam) ==
  LET old == {t \in c.queued : IsMobike(t)}
      task == IF old = {} THEN NewTask("IKE_MOBIKE", 1) ELSE CHOOSE t \in old : TRUE
  IN [c EXCEPT !.queued = (@ \ old) \cup {[task EXCEPT !.check = @ \/ roam]},
               !.active = IF roam /\ IsMobike(@) THEN [@ EXCEPT !.check = TRUE] ELSE @]

(***************************************************************************)
(* ike_mobike.c: process_i                                                 *)
(***************************************************************************)
is_newer_update_queued(c) == \E t \in c.queued : IsMobike(t) /\ (t.check \/ t.update)

\* The task goes on (NEED_MORE) with an update if the path has changed.
MobikeAnswered(c, m) ==
  LET t == c.active
      moved == t.check /\ (t.update \/ m.dst # c.my)
  IN CASE is_newer_update_queued(c) -> [c EXCEPT !.active = None]
       [] ~is_newer_update_queued(c) /\ t.update /\ m.cookie # c.packet.mid -> Destroyed(c, "cookie")
       [] OTHER -> [c EXCEPT !.my = IF t.check THEN m.dst ELSE @,
                             !.active = IF moved THEN [t EXCEPT !.check = FALSE, !.update = TRUE]
                                        ELSE None]

RekeyGoesOn(c, m) ==       \* mutant: a rekey task is never removed
  CASE c.active.type = "IKE_MOBIKE" -> MobikeAnswered(c, m)
    [] c.active.type = "IKE_DELETE" -> Destroyed(c, "deleted")
    [] c.active.type = "CHILD_REKEY" -> [c EXCEPT !.active.left = @ - 1]
\* process of the active task.
TaskProcess(c, m) ==
  CASE c.active.type = "IKE_MOBIKE" -> MobikeAnswered(c, m)
    [] c.active.type = "IKE_DELETE" -> Destroyed(c, "deleted")
    [] c.active.type = "CHILD_REKEY" ->
         [c EXCEPT !.active = IF @.left = 2 THEN [@ EXCEPT !.left = 1] ELSE None]

NotInitiated(c, m) ==       \* mutant: the next exchange is not initiated
  IF m.type # c.type THEN Destroyed(c, "type")
  ELSE LET p == TaskProcess(c, m) IN
         IF p.state = "GONE" THEN p
         ELSE [p EXCEPT !.mid = @ + 1, !.type = "UNDEFINED", !.packet = None, !.jobs = 0]
process_response(c, m) ==
  IF m.type # c.type THEN Destroyed(c, "type")
  ELSE LET p == TaskProcess(c, m) IN
         IF p.state = "GONE" THEN p
         ELSE initiate([p EXCEPT !.mid = @ + 1, !.type = "UNDEFINED", !.packet = None, !.jobs = 0])

(***************************************************************************)
(* Packets (external): a packet may push another one out, and one from an  *)
(* address that the phone no longer has is not sent.                       *)
(***************************************************************************)
Pushed(wire, m) ==
  {w \in SUBSET (wire \cup {m}) : /\ m \in w
                                   /\ IF Cardinality(wire \cup {m}) <= WireBound
                                        THEN w = wire \cup {m}
                                        ELSE Cardinality(w) = WireBound}

\* The end of a handler: its packet is sent; get_source_addr has failed in it while
\* the system says that it is connected, and a recheck is scheduled.
Perform(c, failed) ==
  /\ sa' = [c EXCEPT !.out = None]
  /\ IF c.out # None /\ c.out = route
       THEN toGw' \in Pushed(toGw, [type |-> c.packet.type, mid |-> c.packet.mid,
                                    task |-> c.packet.task, update |-> c.packet.update,
                                    src |-> c.out])
       ELSE UNCHANGED toGw
  /\ window' = (window \/ (failed /\ connected))

(***************************************************************************)
(* The phone                                                               *)
(***************************************************************************)
\* A change that is broadcast. onReceive is called at once.
Change(l, r) ==
  /\ changes < MaxChanges
  /\ <<l, r>> # <<link, route>> /\ (r # None => l)
  /\ link' = l /\ route' = r
  /\ events' = Append(events, l)
  /\ changes' = changes + 1
  /\ UNCHANGED <<connected, window, due, sa, gw, toGw, toMe, timers>>

\* "in case an IP address appears delayed but the callback is not triggered again"
AddressAppears(r) ==
  /\ changes < MaxChanges
  /\ link /\ route = None
  /\ route' = r
  /\ changes' = changes + 1
  /\ UNCHANGED <<link, events, connected, window, due, sa, gw, toGw, toMe, timers>>

LostInWindow ==       \* mutant: the change is noted, but no roam_event is scheduled
  /\ events # <<>>
  /\ connected' = Head(events) /\ events' = Tail(events)
  /\ UNCHANGED <<window, link, route, due, sa, gw, toGw, toMe, changes, timers>>
\* Until the window is over, and then the job is due, no other roam_event is scheduled.
connectivity_cb ==
  /\ events # <<>>
  /\ connected' = Head(events) /\ events' = Tail(events)
  /\ window' = TRUE
  /\ UNCHANGED <<link, route, due, sa, gw, toGw, toMe, changes, timers>>

roam_event ==
  /\ window
  /\ window' = FALSE /\ due' = due + 1
  /\ UNCHANGED <<link, route, events, connected, sa, gw, toGw, toMe, changes, timers>>

\* ike_sa.c
roam ==
  /\ due > 0
  /\ due' = due - 1
  /\ IF sa.state # "ESTABLISHED" THEN Perform(sa, FALSE)
     ELSE CASE route = sa.my ->
                 Perform(initiate(queue_mobike([sa EXCEPT !.stale = FALSE], FALSE)), FALSE)
            [] route = None -> Perform([sa EXCEPT !.stale = TRUE], TRUE)
            [] OTHER -> Perform(initiate(queue_mobike([sa EXCEPT !.stale = FALSE], TRUE)), FALSE)
  /\ UNCHANGED <<link, route, events, connected, gw, toMe, changes, timers>>

retransmit_job ==
  /\ sa.jobs > 0
  /\ LET c == retransmit([sa EXCEPT !.jobs = @ - 1]) IN Perform(c, c.deferred)
  /\ UNCHANGED net /\ UNCHANGED <<gw, toMe, timers>>

\* rekey_child_sa, when the CHILD_SA gets old.
rekey_child_sa ==
  /\ "rekey" \in timers /\ timers' = timers \ {"rekey"}
  /\ sa.state = "ESTABLISHED"
  /\ LET c == initiate([sa EXCEPT !.queued = @ \cup {NewTask("CHILD_REKEY", 2)}]) IN
       Perform(c, c.deferred)
  /\ UNCHANGED net /\ UNCHANGED <<gw, toMe>>

\* delete_ with force = FALSE, at the end of the lifetime.
delete_ ==
  /\ "lifetime" \in timers /\ timers' = timers \ {"lifetime"}
  /\ sa.state # "GONE"
  /\ IF sa.state = "ESTABLISHED"
       THEN LET c == initiate([sa EXCEPT !.queued = @ \cup {NewTask("IKE_DELETE", 1)}]) IN
              Perform(c, c.deferred)
       ELSE Perform(Destroyed(sa, "forced"), FALSE)
  /\ UNCHANGED net /\ UNCHANGED <<gw, toMe>>

AnyAnswer(m) ==       \* mutant: the message id is not compared
  /\ m \in toMe /\ m.dst = route
  /\ toMe' = toMe \ {m}
  /\ Perform(IF sa.state # "GONE" THEN process_response(sa, m) ELSE sa, FALSE)
  /\ UNCHANGED net /\ UNCHANGED <<gw, timers>>
\* process_message: a response that arrives at an address the phone has.
ProcessResponse(m) ==
  /\ m \in toMe /\ m.dst = route
  /\ toMe' = toMe \ {m}
  /\ Perform(IF sa.state # "GONE" /\ m.mid = sa.mid THEN process_response(sa, m) ELSE sa, FALSE)
  /\ UNCHANGED net /\ UNCHANGED <<gw, timers>>

(***************************************************************************)
(* The gateway                                                             *)
(***************************************************************************)
Response(m) == [type |-> m.type, mid |-> m.mid, cookie |-> m.mid]

\* The response goes back along the path of the request.
Reply(r, m) ==
  toMe' \in Pushed(toMe, [type |-> r.type, mid |-> r.mid, cookie |-> r.cookie, dst |-> m.src])

process_request(m) ==
  /\ gw' = [mid |-> gw.mid + 1, packet |-> Response(m), gone |-> m.task = "IKE_DELETE",
            peer |-> IF m.update THEN m.src ELSE gw.peer]
  /\ Reply(Response(m), m)

ProcessRequest(m) ==
  /\ m \in toGw
  /\ toGw' = toGw \ {m}
  /\ CASE ~gw.gone /\ m.mid = gw.mid -> process_request(m)
       [] ~gw.gone /\ m.mid = gw.mid - 1 -> Reply(gw.packet, m) /\ UNCHANGED gw
       [] OTHER -> UNCHANGED <<gw, toMe>>
  /\ UNCHANGED net /\ UNCHANGED <<window, sa, timers>>

Lose ==
  /\ \/ \E m \in toGw : toGw' = toGw \ {m} /\ UNCHANGED toMe
     \/ \E m \in toMe : toMe' = toMe \ {m} /\ UNCHANGED toGw
  /\ UNCHANGED net /\ UNCHANGED <<window, sa, gw, timers>>

-----------------------------------------------------------------------------
Init ==
  /\ link = TRUE /\ route = Home /\ events = <<>> /\ connected = TRUE
  /\ window = FALSE /\ due = 0
  /\ sa = [state |-> "ESTABLISHED", my |-> Home, stale |-> FALSE, mid |-> 1,
           type |-> "UNDEFINED", tries |-> 0, deferred |-> FALSE, packet |-> None, out |-> None,
           active |-> None, queued |-> {}, jobs |-> 0, why |-> ""]
  /\ gw = [mid |-> 1, packet |-> [type |-> "INFORMATIONAL", mid |-> 0, cookie |-> 0],
           gone |-> FALSE, peer |-> Home]
  /\ toGw = {} /\ toMe = {}
  /\ changes = 0 /\ timers = {"rekey", "lifetime"}

Next ==
  \/ \E l \in BOOLEAN, r \in Addr \cup {None} : Change(l, r)
  \/ \E r \in Addr : AddressAppears(r)
  \/ connectivity_cb \/ roam_event \/ roam \/ retransmit_job \/ rekey_child_sa \/ delete_
  \/ \E m \in toMe : ProcessResponse(m)
  \/ \E m \in toGw : ProcessRequest(m)
  \/ Lose

Spec == Init /\ [][Next]_vars

\* The notifier thread, the scheduler and the workers do not stand still for ever.
\* Nothing is assumed of the network: what is not answered is given up.
Fairness == WF_vars(connectivity_cb \/ roam_event \/ roam \/ retransmit_job)

FairSpec == Spec /\ Fairness

-----------------------------------------------------------------------------
(***************************************************************************)
(* Properties                                                              *)
(***************************************************************************)
TypeOK ==
  /\ link \in BOOLEAN /\ route \in Addr \cup {None} /\ events \in Seq(BOOLEAN)
  /\ connected \in BOOLEAN /\ window \in BOOLEAN /\ due \in Nat
  /\ sa \in SA

RoamComing == events # <<>> \/ window \/ due > 0

\* An exchange in the air has one retransmission job, or it is deferred and has none:
\* it is neither given up too early by two chains of jobs nor left without any.
OneTimer == sa.packet # None => sa.jobs = (IF sa.deferred THEN 0 ELSE 1)

\* The answer that is taken for that of a request is the answer to this request, so
\* that no IKE_SA is closed for a COOKIE2 or an exchange type of another one.
AnswersFit == sa.why \notin {"type", "cookie"}

\* When no roam is to come, nothing about the network has gone unnoticed: the path in
\* use is the current one or being looked for, and no exchange waits for a path.
RoamNoticed ==
  sa.state = "ESTABLISHED" /\ link /\ ~RoamComing =>
    /\ route # None /\ ~sa.deferred /\ ~sa.stale
    /\ route = sa.my \/ \E t \in sa.queued \cup {sa.active} : IsMobike(t) /\ t.check

\* Once the network is quiet, the IKE_SA is on the path that there is, with nothing
\* left to do, or has been given up.
RoamSettles ==
  <>[](\/ sa.state = "GONE" \/ route = None
       \/ route = sa.my /\ sa.active = None /\ sa.queued = {})

\* ike_sa.h says of roam: "If MOBIKE is supported, addresses are updated". When the
\* phone is done, the gateway has its address.
AddressesAgree ==
  sa.state = "ESTABLISHED" /\ sa.active = None /\ sa.queued = {} /\ route = sa.my /\ ~RoamComing
    => gw.peer = sa.my
=============================================================================
