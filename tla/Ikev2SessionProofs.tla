------------------------- MODULE Ikev2SessionProofs -------------------------
(* Theorems about Ikev2Session, for every number of connect requests, every *)
(* queue bound and every TIMEOUT_RETRIES.                                   *)
EXTENDS Ikev2Session, TLAPS

\* The parts of TypeOK about the retry counter: a loaded value is below the
\* limit while mTimeoutRun is about to store its successor.
LoadedOK == timer = "retry" => loaded < TIMEOUT_RETRIES

\* A session that the thread is about to start or has started is a real one.
TakenOK == conn \in {"init", "drop"} => session \in Session

TypeInv == ValuesOK /\ LoadedOK /\ TakenOK

\* A posted runnable keeps the queue well typed.
LEMMA PostType ==
  ASSUME mainQ \in Seq(Posted), NEW k \in Kind, NEW n \in 0..MaxSessions, Post(k, n)
  PROVE  mainQ' \in Seq(Posted)
<1>1. [kind |-> k, sid |-> n] \in Posted
  BY DEF Posted
<1> QED
  BY <1>1 DEF Post

LEMMA InitType == Init => TypeInv
BY BoundsAssumption DEF BoundsAssumption, Init, TypeInv, ValuesOK, LoadedOK, TakenOK, None, State, ErrorState, VPNState,
   Session

LEMMA StepType == TypeInv /\ [Next]_vars => TypeInv'
<1> SUFFICES ASSUME TypeInv, [Next]_vars PROVE TypeInv'
  OBVIOUS
<1> USE BoundsAssumption DEF BoundsAssumption, TypeInv, ValuesOK, LoadedOK, TakenOK, None, State, ErrorState,
      VPNState, Session, mainVars, profileVars, tunVars, stateVars,
      timerVars, histVars
<1>1. CASE User
  <2>1. CASE onStartCommand
    BY <2>1 DEF onStartCommand, setNextProfile
  <2>2. CASE onDisconnect
    BY <2>2 DEF onDisconnect, setNextProfile
  <2>3. CASE onDestroy
    BY <2>3 DEF onDestroy, setNextProfile, DestroyMustStop
  <2> QED
    BY <1>1, <2>1, <2>2, <2>3 DEF User
<1>2. CASE Main
  <2>1. CASE onDestroyReturn
    BY <2>1 DEF onDestroyReturn
  <2>2. CASE RunPosted
    <3>1. Head(mainQ) \in Posted /\ mainQ' \in Seq(Posted)
      BY <2>2 DEF RunPosted
    <3>2. Head(mainQ).kind \in Kind /\ Head(mainQ).sid \in 0..MaxSessions
      BY <3>1 DEF Posted
    <3>3. /\ NewState(Head(mainQ).kind) \in State \cup {"null"}
          /\ NewError(Head(mainQ).kind) \in ErrorState \cup {"null"}
          /\ Started(Head(mainQ).kind) \in {0, 1}
      BY <3>2 DEF NewState, NewError, Started, Kind
    <3>4. mState' \in State \cup {"null"} /\ mErrorState' \in ErrorState \cup {"null"}
      BY <2>2, <3>3 DEF RunPosted
    <3>5. /\ tagged' \in Nat /\ retries' \in 0..TIMEOUT_RETRIES
          /\ report' \in VPNState \cup {"null"} /\ main' \in {"idle", "named"}
      BY <2>2, <3>3 DEF RunPosted, StateChangedRest, resetTimeout, stateTransform
    <3>6. shown' \in 0..MaxSessions
      BY <2>2, <3>2 DEF RunPosted
    <3> QED
      BY <2>2, <3>1, <3>4, <3>5, <3>6 DEF RunPosted
  <2>3. CASE ReadName
    BY <2>3 DEF ReadName, StateChangedRest, resetTimeout, stateTransform
  <2> QED
    BY <1>2, <2>1, <2>2, <2>3 DEF Main
<1>3. CASE Conn
  <2>1. CASE ConnWake
    BY <2>1 DEF ConnWake, resetTimeout
  <2>2. CASE ConnBlock
    <3>1. mainQ' \in Seq(Posted)
      BY <2>2, PostType DEF ConnBlock, Kind, MustStop
    <3> QED
      BY <2>2, <3>1 DEF ConnBlock, establishBlocking, MustStop
  <2>3. CASE ConnDeinit
    BY <2>3 DEF ConnDeinit, CloseBlocking
  <2>4. CASE ConnFinish
    <3>1. mainQ' \in Seq(Posted)
      BY <2>4, PostType DEF ConnFinish, Kind
    <3> QED
      BY <2>4, <3>1 DEF ConnFinish
  <2>5. CASE ConnStart
    <3>1. mainQ' \in Seq(Posted)
      BY <2>5, PostType DEF ConnStart, Kind
    <3> QED
      BY <2>5, <3>1 DEF ConnStart
  <2>6. CASE ConnInit
    BY <2>6 DEF ConnInit
  <2>7. CASE ConnNoPassword
    <3>1. mainQ' \in Seq(Posted)
      BY <2>7, PostType DEF ConnNoPassword, Kind
    <3> QED
      BY <2>7, <3>1 DEF ConnNoPassword
  <2>8. CASE ConnInitFailed
    <3>1. mainQ' \in Seq(Posted)
      BY <2>8 DEF ConnInitFailed, Posted, Kind
    <3> QED
      BY <2>8, <3>1 DEF ConnInitFailed
  <2>9. CASE ConnDropProfile
    BY <2>9 DEF ConnDropProfile
  <2> QED
    BY <1>3, <2>1, <2>2, <2>3, <2>4, <2>5, <2>6, <2>7, <2>8, <2>9 DEF Conn
<1>4. CASE Charon
  <2>1. CASE ChildUp
    <3>1. mainQ' \in Seq(Posted)
      BY <2>1, PostType DEF ChildUp, Kind
    <3> QED
      BY <2>1, <3>1 DEF ChildUp
  <2>2. CASE ChildDownOrError
    <3>1. mainQ' \in Seq(Posted)
      BY <2>2, PostType DEF ChildDownOrError, Kind
    <3> QED
      BY <2>2, <3>1 DEF ChildDownOrError
  <2> QED
    BY <1>4, <2>1, <2>2 DEF Charon
<1>5. CASE Timer
  <2>1. CASE TimerFire
    BY <2>1 DEF TimerFire
  <2>2. CASE TimerCheck1
    BY <2>2 DEF TimerCheck1
  <2>3. CASE TimerCheck2
    BY <2>3 DEF TimerCheck2, RetryLeft
  <2>4. CASE TimerRetry
    BY <2>4 DEF TimerRetry
  <2>5. CASE TimerFail
    BY <2>5 DEF TimerFail, resetTimeout
  <2> QED
    BY <1>5, <2>1, <2>2, <2>3, <2>4, <2>5 DEF Timer
<1>6. CASE UNCHANGED vars
  BY <1>6 DEF vars
<1> QED
  BY <1>1, <1>2, <1>3, <1>4, <1>5, <1>6 DEF Next

\* The Boolean fields stay Boolean.
LEMMA StepFlags == FlagsOK /\ [Next]_vars => FlagsOK'
<1> SUFFICES ASSUME FlagsOK, [Next]_vars PROVE FlagsOK'
  OBVIOUS
<1> USE DEF FlagsOK, mainVars, profileVars, tunVars, stateVars, timerVars, histVars
<1>1. CASE User
  BY <1>1, Zenon DEF User, onStartCommand, onDisconnect, onDestroy, setNextProfile
<1>2. CASE Main
  BY <1>2, Zenon DEF Main, onDestroyReturn, RunPosted, ReadName
<1>3. CASE Conn
  BY <1>3, Zenon DEF Conn, ConnWake, ConnBlock, ConnDeinit, ConnFinish, ConnStart, ConnInit,
     ConnNoPassword, ConnInitFailed, ConnDropProfile, CloseBlocking, establishBlocking
<1>4. CASE Charon
  BY <1>4, Zenon DEF Charon, ChildUp, ChildDownOrError
<1>5. CASE Timer
  BY <1>5, Zenon DEF Timer, TimerFire, TimerCheck1, TimerCheck2, TimerRetry, TimerFail
<1>6. CASE UNCHANGED vars
  BY <1>6, Zenon DEF vars
<1> QED
  BY <1>1, <1>2, <1>3, <1>4, <1>5, <1>6 DEF Next

\* Type correctness: in particular retries never exceeds TIMEOUT_RETRIES although
\* three threads write it and retries++ is not atomic.
THEOREM TypeCorrect == Spec => []TypeOK
<1>1. Init => TypeInv /\ FlagsOK
  <2>1. Init => FlagsOK
    BY Zenon DEF Init, FlagsOK
  <2> QED
    BY <2>1, InitType
<1>2. (TypeInv /\ FlagsOK) /\ [Next]_vars => (TypeInv /\ FlagsOK)'
  BY StepType, StepFlags
<1>3. TypeInv /\ FlagsOK => TypeOK
  BY DEF TypeInv, TypeOK
<1> QED
  BY <1>1, <1>2, <1>3, PTL DEF Spec

(***************************************************************************)
(* NothingLeftBehind. The daemon runs only while its profile is current,   *)
(* and the thread stops it before it decides; a blocking device that is    *)
(* open with no profile current was left by a failed session.              *)
(***************************************************************************)
CharonCurrent == charon # "off" => mCurrentProfile # None /\ conn \in {"wait", "stop", "deinit"}
TunOfCharon == tun => charon # "off"
InitCurrent == conn \in {"init", "drop", "deinit"} => mCurrentProfile # None
DropFailed == conn = "drop" => session \in failed
DropperOfFailed ==
  dropper => \/ session \in failed
             \/ conn \in {"wait", "stop"} /\ mCurrentProfile # None
             \/ conn \in {"deinit", "init"}
             \/ conn = "decide" /\ mNextProfile # None

CleanInv == CharonCurrent /\ TunOfCharon /\ InitCurrent /\ DropFailed /\ DropperOfFailed

LEMMA InitClean == Init => CleanInv
BY Zenon DEF Init, CleanInv, CharonCurrent, TunOfCharon, InitCurrent, DropFailed, DropperOfFailed

\* A step of another thread that leaves the connection's fields alone, but for a
\* request that arrives while the thread is in wait() or gone.
LEMMA OtherClean ==
  ASSUME CleanInv,
         UNCHANGED <<conn, mCurrentProfile, charon, tun, dropper, session, failed>>,
         mNextProfile' = mNextProfile \/ MonitorFree
  PROVE  CleanInv'
BY Zenon DEF CleanInv, CharonCurrent, TunOfCharon, InitCurrent, DropFailed, DropperOfFailed, MonitorFree

LEMMA StepClean == CleanInv /\ [Next]_vars => CleanInv'
<1> SUFFICES ASSUME CleanInv, [Next]_vars PROVE CleanInv'
  OBVIOUS
<1> USE DEF mainVars, profileVars, tunVars, stateVars, timerVars, histVars
<1>1. CASE User
  BY <1>1, OtherClean DEF User, onStartCommand, onDisconnect, onDestroy, setNextProfile
<1>2. CASE Main
  BY <1>2, OtherClean DEF Main, onDestroyReturn, RunPosted, ReadName
<1>3. CASE Timer
  BY <1>3, OtherClean DEF Timer, TimerFire, TimerCheck1, TimerCheck2, TimerRetry, TimerFail
<1>4. CASE UNCHANGED vars
  BY <1>4, OtherClean DEF vars
<1>5. CASE Charon
  <2>1. CASE ChildUp
    BY <2>1, Zenon DEF ChildUp, CharonLive, CleanInv, CharonCurrent, TunOfCharon, InitCurrent,
       DropFailed, DropperOfFailed
  <2>2. CASE ChildDownOrError
    BY <2>2, OtherClean DEF ChildDownOrError
  <2> QED
    BY <1>5, <2>1, <2>2 DEF Charon
<1>6. CASE Conn
  <2> USE DEF CleanInv, CharonCurrent, TunOfCharon, InitCurrent, DropFailed, DropperOfFailed
  <2>1. CASE ConnWake
    BY <2>1, Zenon DEF ConnWake
  <2>2. CASE ConnBlock
    BY <2>2 DEF ConnBlock, MustStop, establishBlocking
  <2>3. CASE ConnDeinit
    BY <2>3 DEF ConnDeinit, CloseBlocking
  <2>4. CASE ConnFinish
    BY <2>4 DEF ConnFinish
  <2>5. CASE ConnStart
    BY <2>5 DEF ConnStart
  <2>6. CASE ConnInit
    BY <2>6 DEF ConnInit
  <2>7. CASE ConnNoPassword
    BY <2>7 DEF ConnNoPassword
  <2>8. CASE ConnInitFailed
    BY <2>8 DEF ConnInitFailed
  <2>9. CASE ConnDropProfile
    BY <2>9 DEF ConnDropProfile
  <2> QED
    BY <1>6, <2>1, <2>2, <2>3, <2>4, <2>5, <2>6, <2>7, <2>8, <2>9 DEF Conn
<1> QED
  BY <1>1, <1>2, <1>3, <1>4, <1>5, <1>6 DEF Next

\* When run() has returned, the daemon is down with its TUN device closed, and a
\* blocking device is still open only after a session that failed to initialise.
THEOREM CleanExit == Spec => []NothingLeftBehind
<1>1. CleanInv => NothingLeftBehind
  BY Zenon DEF CleanInv, CharonCurrent, TunOfCharon, DropperOfFailed, NothingLeftBehind
<1> QED
  BY InitClean, StepClean, <1>1, PTL DEF Spec

(***************************************************************************)
(* NoStaleEvents. The sessions on the queue are sorted and lie between the *)
(* one on display and the one the thread has taken last; the daemon posts  *)
(* for that one only, and the next one is not an earlier one.              *)
(***************************************************************************)
Ordered(q, low, high) ==
  /\ \A i \in 1..Len(q) : low <= q[i].sid /\ q[i].sid <= high
  /\ \A i, j \in 1..Len(q) : i < j => q[i].sid <= q[j].sid

NextLater ==
  /\ shown <= session /\ session <= requested /\ mNextProfile <= requested
  /\ mNextProfile # None => session <= mNextProfile
  /\ charon # "off" => charonSid = session

OrderInv == NextLater /\ Ordered(mainQ, shown, session)

\* The sessions of queued runnables are numbers.
LEMMA SidNat ==
  ASSUME NEW q \in Seq(Posted)
  PROVE  \A i \in 1..Len(q) : q[i].sid \in Nat
<1>1. \A i \in 1..Len(q) : q[i] \in Posted
  OBVIOUS
<1> QED
  BY <1>1, BoundsAssumption DEF Posted, BoundsAssumption

\* A runnable of the highest session keeps the queue ordered.
LEMMA AppendOrdered ==
  ASSUME NEW q \in Seq(Posted), NEW e \in Posted, NEW low \in Nat, NEW high \in Nat,
         Ordered(q, low, high), low <= high, high <= e.sid
  PROVE  Ordered(Append(q, e), low, e.sid)
<1>1. e.sid \in Nat
  BY BoundsAssumption DEF Posted, BoundsAssumption
<1>2. \A i \in 1..Len(q) : q[i].sid \in Nat
  BY SidNat
<1> DEFINE r == Append(q, e)
<1>3. /\ Len(r) = Len(q) + 1
      /\ \A i \in 1..Len(q) : r[i] = q[i]
      /\ r[Len(q) + 1] = e
  OBVIOUS
<1>4. \A i \in 1..Len(r) : i \in 1..Len(q) \/ i = Len(q) + 1
  BY <1>3
<1> HIDE DEF r
<1>5. Ordered(r, low, e.sid)
  BY <1>1, <1>2, <1>3, <1>4 DEF Ordered
<1> QED
  BY <1>5 DEF r

LEMMA PostOrdered ==
  ASSUME NEW low \in Nat, NEW high \in Nat, NEW n \in 0..MaxSessions, NEW k \in Kind,
         mainQ \in Seq(Posted), Ordered(mainQ, low, high), low <= high, high <= n, Post(k, n)
  PROVE  Ordered(mainQ', low, n)
<1> DEFINE e == [kind |-> k, sid |-> n]
<1>1. e \in Posted /\ e.sid = n
  BY DEF Posted
<1>2. mainQ' = Append(mainQ, e)
  BY DEF Post
<1> HIDE DEF e
<1> QED
  BY <1>1, <1>2, AppendOrdered

\* Taking the head keeps it ordered, above the head's own session too.
LEMMA TailOrdered ==
  ASSUME NEW low \in Nat, NEW high \in Nat, mainQ \in Seq(Posted), mainQ # <<>>,
         Ordered(mainQ, low, high)
  PROVE  /\ Head(mainQ).sid \in Nat /\ low <= Head(mainQ).sid /\ Head(mainQ).sid <= high
         /\ Ordered(Tail(mainQ), Head(mainQ).sid, high) /\ Ordered(Tail(mainQ), low, high)
<1>1. \A i \in 1..Len(mainQ) : mainQ[i].sid \in Nat
  BY SidNat
<1>2. Len(mainQ) \in Nat \ {0} /\ Head(mainQ) = mainQ[1]
  OBVIOUS
<1>3. Len(Tail(mainQ)) = Len(mainQ) - 1
  OBVIOUS
<1>4. \A i \in 1..Len(Tail(mainQ)) : i + 1 \in 1..Len(mainQ) /\ Tail(mainQ)[i] = mainQ[i + 1]
  BY <1>2, <1>3
<1>5. mainQ[1].sid \in Nat /\ low <= mainQ[1].sid /\ mainQ[1].sid <= high
  BY <1>1, <1>2 DEF Ordered
<1>6. \A i \in 1..Len(Tail(mainQ)) :
        /\ low <= Tail(mainQ)[i].sid /\ mainQ[1].sid <= Tail(mainQ)[i].sid
        /\ Tail(mainQ)[i].sid <= high
  BY <1>1, <1>2, <1>4 DEF Ordered
<1>7. \A i, j \in 1..Len(Tail(mainQ)) : i < j => Tail(mainQ)[i].sid <= Tail(mainQ)[j].sid
  BY <1>3, <1>4 DEF Ordered
<1> QED
  BY <1>2, <1>5, <1>6, <1>7 DEF Ordered

\* Nothing the order depends on has changed, but for a later request.
LEMMA OtherOrder ==
  ASSUME TypeInv, OrderInv, UNCHANGED <<mainQ, shown, session>>,
         requested' \in Nat, requested <= requested',
         mNextProfile' \in {mNextProfile, None, requested'},
         charon' = "off" \/ (UNCHANGED <<charon, charonSid>>)
  PROVE  OrderInv'
BY BoundsAssumption DEF BoundsAssumption, TypeInv, ValuesOK, OrderInv, NextLater, Ordered, None

\* A post for the session taken last.
LEMMA PostOrder ==
  ASSUME TypeInv, OrderInv, NEW k \in Kind, Post(k, session),
         UNCHANGED <<shown, session, requested, mNextProfile>>,
         charon' = "off" \/ charonSid' = session
  PROVE  OrderInv'
<1>1. Ordered(mainQ', shown, session)
  BY PostOrdered, BoundsAssumption DEF BoundsAssumption, TypeInv, ValuesOK, OrderInv, NextLater
<1> QED
  BY <1>1 DEF OrderInv, NextLater

LEMMA StepOrder == TypeInv /\ CleanInv /\ OrderInv /\ [Next]_vars => OrderInv'
<1> SUFFICES ASSUME TypeInv, CleanInv, OrderInv, [Next]_vars PROVE OrderInv'
  OBVIOUS
<1> USE DEF mainVars, profileVars, tunVars, stateVars, timerVars, histVars
<1>0. /\ requested \in Nat /\ session \in Nat /\ shown \in Nat /\ session \in 0..MaxSessions
      /\ mNextProfile \in 0..MaxSessions /\ mainQ \in Seq(Posted)
  BY BoundsAssumption DEF BoundsAssumption, TypeInv, ValuesOK
<1>1. CASE User
  BY <1>0, <1>1, OtherOrder DEF User, onStartCommand, onDisconnect, onDestroy, setNextProfile
<1>2. CASE onDestroyReturn \/ ReadName \/ Timer \/ UNCHANGED vars
  BY <1>0, <1>2, OtherOrder DEF onDestroyReturn, ReadName, Timer, TimerFire, TimerCheck1,
     TimerCheck2, TimerRetry, TimerFail, vars
<1>3. CASE RunPosted
  <2>1. /\ Head(mainQ).sid \in Nat /\ shown <= Head(mainQ).sid /\ Head(mainQ).sid <= session
        /\ Ordered(Tail(mainQ), Head(mainQ).sid, session)
        /\ Ordered(Tail(mainQ), shown, session)
    BY <1>0, <1>3, TailOrdered DEF RunPosted, OrderInv
  <2>2. /\ mainQ' = Tail(mainQ) /\ shown' \in {Head(mainQ).sid, shown}
        /\ UNCHANGED <<session, requested, mNextProfile, charon, charonSid>>
    BY <1>3 DEF RunPosted
  <2> QED
    BY <1>0, <2>1, <2>2 DEF OrderInv, NextLater
<1>4. CASE Charon
  <2>1. charonSid = session
    BY <1>4 DEF Charon, ChildUp, ChildDownOrError, CharonLive, OrderInv, NextLater
  <2>2. CASE ChildUp
    BY <2>1, <2>2, PostOrder DEF ChildUp, Kind, State
  <2>3. CASE ChildDownOrError
    <3>1. CASE UNCHANGED mainQ
      BY <1>0, <2>3, <3>1, OtherOrder DEF ChildDownOrError
    <3>2. CASE \E k \in {"CONNECTING", "ERROR"} : Post(k, charonSid)
      BY <2>1, <2>3, <3>2, PostOrder DEF ChildDownOrError, Kind, State
    <3> QED
      BY <2>3, <3>1, <3>2 DEF ChildDownOrError
  <2> QED
    BY <1>4, <2>2, <2>3 DEF Charon
<1>5. CASE Conn
  <2>1. CASE ConnWake \/ ConnDeinit \/ ConnDropProfile
    BY <1>0, <2>1, OtherOrder DEF ConnWake, ConnDeinit, ConnDropProfile
  <2>2. CASE ConnBlock
    <3>1. CASE MustStop
      BY <2>2, <3>1, PostOrder DEF ConnBlock, Kind, State, OrderInv, NextLater
    <3>2. CASE ~MustStop
      BY <1>0, <2>2, <3>2, OtherOrder DEF ConnBlock
    <3> QED
      BY <3>1, <3>2
  <2>3. CASE ConnFinish
    BY <2>3, PostOrder DEF ConnFinish, Kind, State, OrderInv, NextLater
  <2>4. CASE ConnStart
    <3>1. /\ session' = mNextProfile /\ mNextProfile' = None
          /\ session <= mNextProfile /\ mNextProfile <= requested
          /\ Post("START", mNextProfile) /\ charon = "off"
          /\ UNCHANGED <<shown, requested, charon>>
      BY <2>4 DEF ConnStart, OrderInv, NextLater, CleanInv, CharonCurrent
    <3>2. Ordered(mainQ', shown, mNextProfile)
      BY <1>0, <3>1, PostOrdered DEF OrderInv, NextLater, Kind
    <3> QED
      BY <1>0, <3>1, <3>2 DEF OrderInv, NextLater, None
  <2>5. CASE ConnInit
    BY <1>0, <2>5 DEF ConnInit, OrderInv, NextLater
  <2>6. CASE ConnNoPassword
    BY <2>6, PostOrder DEF ConnNoPassword, Kind
  <2>7. CASE ConnInitFailed
    <3> DEFINE e == [kind |-> "ERROR", sid |-> session]
               d == [kind |-> "DISABLED", sid |-> session]
    <3>1. e \in Posted /\ d \in Posted /\ e.sid = session /\ d.sid = session
      BY <1>0 DEF Posted, Kind, State
    <3>2. mainQ' = mainQ \o <<e, d>>
      BY <2>7 DEF ConnInitFailed
    <3> HIDE DEF e, d
    <3>3. mainQ' = Append(Append(mainQ, e), d) /\ Append(mainQ, e) \in Seq(Posted)
      BY <1>0, <3>1, <3>2
    <3>4. Ordered(Append(mainQ, e), shown, session)
      BY <1>0, <3>1, AppendOrdered DEF OrderInv, NextLater
    <3> DEFINE q == Append(mainQ, e)
    <3>5. /\ q \in Seq(Posted) /\ Ordered(q, shown, session)
          /\ shown <= session /\ session <= d.sid
      BY <1>0, <3>1, <3>3, <3>4 DEF OrderInv, NextLater
    <3> HIDE DEF q
    <3>6. Ordered(Append(q, d), shown, d.sid)
      BY <1>0, <3>1, <3>5, AppendOrdered
    <3>7. Ordered(mainQ', shown, session)
      BY <3>1, <3>3, <3>6 DEF q
    <3> QED
      BY <2>7, <3>7 DEF ConnInitFailed, OrderInv, NextLater
  <2> QED
    BY <1>5, <2>1, <2>2, <2>3, <2>4, <2>5, <2>6, <2>7 DEF Conn
<1> QED
  BY <1>1, <1>2, <1>3, <1>4, <1>5 DEF Next, Main

LEMMA InitOrder == Init => OrderInv
BY DEF Init, OrderInv, NextLater, Ordered, None

\* Events reach the callbacks in the order of their sessions, although the daemon
\* posts CONNECTED whatever mIsDisconnecting says.
THEOREM EventsInOrder == Spec => []NoStaleEvents
<1> DEFINE Inv == TypeInv /\ CleanInv /\ OrderInv
<1>1. Inv /\ [Next]_vars => Inv'
  BY StepType, StepClean, StepOrder
<1>2. Inv => NoStaleEvents
  BY SidNat DEF TypeInv, ValuesOK, OrderInv, NextLater, Ordered, NoStaleEvents
<1> QED
  BY InitType, InitClean, InitOrder, <1>1, <1>2, PTL DEF Spec

(***************************************************************************)
(* DestroyBlocksOnlyAfterFailedInit. A DISABLED on the queue is that of a  *)
(* thread that has ended, or of a failed session whose START comes before  *)
(* it; and a thread that onDestroy has woken up goes on to its end.        *)
(***************************************************************************)
\* The START of session n has been applied or is among the first of the queue.
StartSeen(q, last, n, disp) ==
  n = disp \/ \E j \in 1..last : q[j].kind = "START" /\ q[j].sid = n

DisabledShown == mState = "DISABLED" => conn = "dead" \/ shown \in failed

DisabledQueued ==
  \A i \in 1..Len(mainQ) : mainQ[i].kind = "DISABLED" =>
     \/ conn = "dead"
     \/ mainQ[i].sid \in failed /\ StartSeen(mainQ, i - 1, mainQ[i].sid, shown)

InitStarted == conn = "init" => StartSeen(mainQ, Len(mainQ), session, shown)

JoinEnds ==
  main = "join" =>
     \/ conn = "dead"
     \/ shown \in failed
     \/ /\ mNextProfile = None /\ conn \in {"wait", "stop", "deinit", "decide"}
        /\ conn = "wait" => mProfileUpdated

DestroyInv == DisabledShown /\ DisabledQueued /\ InitStarted /\ JoinEnds

LEMMA InitDestroy == Init => DestroyInv
BY DEF Init, DestroyInv, DisabledShown, DisabledQueued, InitStarted, JoinEnds

\* The thread's own step, without a post, away from initialisation.
LEMMA QuietQueue ==
  ASSUME TypeInv, DisabledShown, DisabledQueued, UNCHANGED <<mainQ, mState, shown>>,
         failed \subseteq failed', conn = "dead" => conn' = "dead", session' = session,
         conn' = "init" => conn = "init", InitStarted
  PROVE  DisabledShown' /\ DisabledQueued' /\ InitStarted'
BY DEF DisabledShown, DisabledQueued, InitStarted, StartSeen

\* One more runnable at the end of the queue that is not a DISABLED.
LEMMA PostQueue ==
  ASSUME TypeInv, DisabledShown, DisabledQueued,
         NEW k \in Kind \ {"DISABLED"}, NEW n \in 0..MaxSessions, Post(k, n),
         UNCHANGED <<mState, shown>>, failed \subseteq failed',
         conn = "dead" => conn' = "dead",
         conn' = "init" => \/ conn = "init" /\ InitStarted /\ session' = session
                           \/ k = "START" /\ n = session'
  PROVE  DisabledShown' /\ DisabledQueued' /\ InitStarted'
<1> DEFINE e == [kind |-> k, sid |-> n]
<1>1. e \in Posted /\ e.sid = n /\ e.kind = k
  BY DEF Posted
<1>2. mainQ' = Append(mainQ, e) /\ mainQ \in Seq(Posted)
  BY DEF Post, TypeInv, ValuesOK
<1> HIDE DEF e
<1>3. /\ Len(mainQ) \in Nat /\ Len(mainQ') = Len(mainQ) + 1
      /\ \A i \in 1..Len(mainQ) : mainQ'[i] = mainQ[i]
      /\ mainQ'[Len(mainQ) + 1] = e
  BY <1>1, <1>2
<1>4. DisabledShown'
  BY DEF DisabledShown
<1>5. DisabledQueued'
  <2> SUFFICES ASSUME NEW i \in 1..Len(mainQ'), mainQ'[i].kind = "DISABLED", conn' # "dead"
               PROVE  mainQ'[i].sid \in failed' /\ StartSeen(mainQ', i - 1, mainQ'[i].sid, shown')
    BY DEF DisabledQueued
  <2>1. i \in 1..Len(mainQ) /\ mainQ'[i] = mainQ[i]
    BY <1>1, <1>3
  <2>2. mainQ[i].sid \in failed /\ StartSeen(mainQ, i - 1, mainQ[i].sid, shown)
    BY <2>1 DEF DisabledQueued
  <2> QED
    BY <1>3, <2>1, <2>2 DEF StartSeen
<1>6. InitStarted'
  BY <1>1, <1>3 DEF InitStarted, StartSeen
<1> QED
  BY <1>4, <1>5, <1>6

\* A posted runnable is applied on the main thread.
LEMMA RunQueue ==
  ASSUME TypeInv, OrderInv, DisabledShown, DisabledQueued, InitStarted, RunPosted
  PROVE  DisabledShown' /\ DisabledQueued' /\ InitStarted'
<1> DEFINE h == Head(mainQ)
<1>1. /\ mainQ \in Seq(Posted) /\ mainQ # <<>> /\ mainQ' = Tail(mainQ)
      /\ mState' = NewState(h.kind) /\ shown' = IF h.kind = "START" THEN h.sid ELSE shown
      /\ UNCHANGED <<conn, session, failed>>
  BY DEF RunPosted, TypeInv, ValuesOK, histVars
<1>2. /\ Len(mainQ) \in Nat \ {0} /\ h = mainQ[1] /\ Len(mainQ') = Len(mainQ) - 1
      /\ \A i \in 1..Len(mainQ') : mainQ'[i] = mainQ[i + 1] /\ i + 1 \in 1..Len(mainQ)
  BY <1>1
<1>3. /\ \A i \in 1..Len(mainQ) : mainQ[i].sid \in Nat
      /\ \A i \in 1..Len(mainQ) : mainQ[1].sid <= mainQ[i].sid
      /\ \A i \in 1..Len(mainQ) : shown <= mainQ[i].sid /\ mainQ[i].sid <= session
      /\ shown \in Nat /\ session \in Nat
  <2>1. \A i \in 1..Len(mainQ) : mainQ[i].sid \in Nat
    BY <1>1, SidNat
  <2>2. \A i, j \in 1..Len(mainQ) : i < j => mainQ[i].sid <= mainQ[j].sid
    BY DEF OrderInv, Ordered
  <2>3. \A i \in 1..Len(mainQ) : shown <= mainQ[i].sid /\ mainQ[i].sid <= session
    BY DEF OrderInv, Ordered
  <2>4. \A i \in 1..Len(mainQ) : mainQ[1].sid <= mainQ[i].sid
    <3> TAKE i \in 1..Len(mainQ)
    <3>1. CASE i = 1
      BY <2>1, <3>1
    <3>2. CASE i # 1
      BY <1>2, <2>2, <3>2
    <3> QED
      BY <3>1, <3>2
  <2>5. shown \in Nat /\ session \in Nat
    BY BoundsAssumption DEF BoundsAssumption, TypeInv, ValuesOK
  <2> QED
    BY <2>1, <2>3, <2>4, <2>5
<1> HIDE DEF h
<1>4. DisabledShown'
  <2>1. CASE h.kind = "DISABLED"
    BY <1>1, <1>2, <2>1 DEF DisabledQueued, StartSeen, DisabledShown
  <2>2. CASE h.kind # "DISABLED"
    BY <1>1, <2>2 DEF NewState, DisabledShown
  <2> QED
    BY <2>1, <2>2
\* A session that has been seen is seen still: its START is applied or remains.
<1>5. ASSUME NEW i \in 1..(Len(mainQ) + 1), NEW n \in Nat, StartSeen(mainQ, i - 1, n, shown),
             mainQ[1].kind = "START" => mainQ[1].sid <= n, i > 1
      PROVE  StartSeen(mainQ', i - 2, n, shown')
  <2>1. CASE n = shown
    BY <1>1, <1>2, <1>3, <1>5, <2>1 DEF StartSeen
  <2>2. ASSUME NEW j \in 1..(i - 1), mainQ[j].kind = "START", mainQ[j].sid = n
        PROVE  StartSeen(mainQ', i - 2, n, shown')
    <3>1. CASE j = 1
      BY <1>1, <1>2, <2>2, <3>1 DEF StartSeen
    <3>2. CASE j # 1
      <4>1. j - 1 \in 1..(i - 2) /\ j - 1 \in 1..Len(mainQ') /\ mainQ'[j - 1] = mainQ[j]
        BY <1>2, <3>2
      <4> QED
        BY <2>2, <4>1 DEF StartSeen
    <3> QED
      BY <3>1, <3>2
  <2> QED
    BY <1>5, <2>1, <2>2 DEF StartSeen
<1>6. DisabledQueued'
  <2> SUFFICES ASSUME NEW i \in 1..Len(mainQ'), mainQ'[i].kind = "DISABLED", conn # "dead"
               PROVE  mainQ'[i].sid \in failed /\ StartSeen(mainQ', i - 1, mainQ'[i].sid, shown')
    BY <1>1 DEF DisabledQueued
  <2>1. /\ mainQ'[i] = mainQ[i + 1] /\ i + 1 \in 1..Len(mainQ) /\ i + 1 > 1
        /\ mainQ[i + 1].sid \in Nat /\ mainQ[1].sid <= mainQ[i + 1].sid
    BY <1>2, <1>3
  <2>2. mainQ[i + 1].sid \in failed /\ StartSeen(mainQ, (i + 1) - 1, mainQ[i + 1].sid, shown)
    BY <2>1 DEF DisabledQueued
  <2>3. StartSeen(mainQ', (i + 1) - 2, mainQ[i + 1].sid, shown')
    BY <1>5, <2>1, <2>2
  <2> QED
    BY <2>1, <2>2, <2>3
<1>7. InitStarted'
  <2> SUFFICES ASSUME conn = "init" PROVE StartSeen(mainQ', Len(mainQ'), session, shown')
    BY <1>1 DEF InitStarted
  <2>1. /\ session \in Nat /\ mainQ[1].sid <= session
        /\ StartSeen(mainQ, (Len(mainQ) + 1) - 1, session, shown)
    <3>1. (Len(mainQ) + 1) - 1 = Len(mainQ) /\ 1 \in 1..Len(mainQ)
      BY <1>2
    <3>2. StartSeen(mainQ, Len(mainQ), session, shown)
      BY DEF InitStarted
    <3>3. session \in Nat /\ mainQ[1].sid <= session
      BY <1>3, <3>1
    <3> QED
      BY <3>1, <3>2, <3>3
  <2>2. StartSeen(mainQ', (Len(mainQ) + 1) - 2, session, shown')
    <3> DEFINE k == Len(mainQ) + 1
    <3>1. k \in 1..(Len(mainQ) + 1) /\ k > 1 /\ StartSeen(mainQ, k - 1, session, shown)
      BY <1>2, <2>1
    <3> HIDE DEF k
    <3>2. StartSeen(mainQ', k - 2, session, shown')
      BY <1>5, <2>1, <3>1
    <3> QED
      BY <3>2 DEF k
  <2> QED
    BY <1>2, <2>2
<1> QED
  BY <1>4, <1>6, <1>7

\* No step but onDestroy makes main wait in join, and a thread that was woken up
\* without a profile runs to its end.
LEMMA StepJoin ==
  TypeInv /\ DisabledShown /\ JoinEnds /\ [Next]_vars => JoinEnds'
<1> SUFFICES ASSUME TypeInv, DisabledShown, JoinEnds, [Next]_vars PROVE JoinEnds'
  OBVIOUS
<1>1. CASE UNCHANGED vars
  BY <1>1 DEF vars, mainVars, profileVars, histVars, stateVars, JoinEnds
<1>2. CASE onDestroy
  <2>1. CASE DestroyMustStop
    <3>1. /\ conn \in {"wait", "dead"} /\ mNextProfile' = None /\ mProfileUpdated' = TRUE
          /\ conn' = conn
      BY <1>2, <2>1 DEF onDestroy, setNextProfile, MonitorFree
    <3> QED
      BY <3>1, Zenon DEF JoinEnds
  <2>2. CASE ~DestroyMustStop
    BY <1>2, <2>2, Zenon DEF onDestroy, DestroyMustStop, DisabledShown, JoinEnds, stateVars, histVars
  <2> QED
    BY <2>1, <2>2
<1>3. CASE onStartCommand \/ onDisconnect \/ onDestroyReturn \/ RunPosted \/ ReadName
  <2>1. main' # "join"
    BY <1>3 DEF onStartCommand, onDisconnect, onDestroyReturn, RunPosted, ReadName, mainVars
  <2> QED
    BY <2>1 DEF JoinEnds
<1>4. CASE Charon \/ Timer
  <2>1. UNCHANGED <<main, conn, shown, failed, mNextProfile, mProfileUpdated>>
    BY <1>4 DEF Charon, ChildUp, ChildDownOrError, Timer, TimerFire, TimerCheck1, TimerCheck2,
       TimerRetry, TimerFail, mainVars, profileVars, stateVars, histVars
  <2> QED
    BY <2>1 DEF JoinEnds
<1>5. CASE Conn
  <2>1. main' = main /\ shown' = shown /\ failed \subseteq failed'
    BY <1>5 DEF Conn, ConnWake, ConnBlock, ConnDeinit, ConnFinish, ConnStart, ConnInit,
       ConnNoPassword, ConnInitFailed, ConnDropProfile, mainVars, stateVars, histVars
  <2>2. CASE main # "join" \/ shown \in failed
    BY <2>1, <2>2 DEF JoinEnds
  <2>3. CASE main = "join" /\ shown \notin failed
    <3>1. \/ conn = "dead"
          \/ mNextProfile = None /\ conn \in {"wait", "stop", "deinit", "decide"}
      BY <2>3 DEF JoinEnds
    <3>2. \/ ConnWake \/ ConnBlock \/ ConnDeinit \/ ConnFinish
      BY <1>5, <3>1 DEF Conn, ConnWake, ConnBlock, ConnDeinit, ConnFinish, ConnStart, ConnInit,
         ConnNoPassword, ConnInitFailed, ConnDropProfile
    <3>3. \/ conn' = "dead"
          \/ mNextProfile' = None /\ conn' \in {"stop", "deinit", "decide"}
      BY <3>1, <3>2 DEF ConnWake, ConnBlock, ConnDeinit, ConnFinish
    <3> QED
      BY <3>3 DEF JoinEnds
  <2> QED
    BY <2>2, <2>3
<1> QED
  BY <1>1, <1>2, <1>3, <1>4, <1>5 DEF Next, User, Main

LEMMA StepQueue ==
  TypeInv /\ CleanInv /\ OrderInv /\ DestroyInv /\ [Next]_vars
    => DisabledShown' /\ DisabledQueued' /\ InitStarted'
<1> SUFFICES ASSUME TypeInv, CleanInv, OrderInv, DestroyInv, [Next]_vars
             PROVE  DisabledShown' /\ DisabledQueued' /\ InitStarted'
  OBVIOUS
<1>0. /\ DisabledShown /\ DisabledQueued /\ InitStarted
      /\ session \in 0..MaxSessions /\ charonSid \in 0..MaxSessions
      /\ mNextProfile \in 0..MaxSessions /\ mainQ \in Seq(Posted)
  BY DEF DestroyInv, TypeInv, ValuesOK
<1>1. CASE UNCHANGED vars \/ User \/ onDestroyReturn \/ ReadName \/ Timer
  <2>1. UNCHANGED <<mainQ, mState, shown, failed, conn, session>>
    BY <1>1 DEF vars, User, onStartCommand, onDisconnect, onDestroy, onDestroyReturn, ReadName,
       Timer, TimerFire, TimerCheck1, TimerCheck2, TimerRetry, TimerFail, mainVars, stateVars,
       histVars
  <2> QED
    BY <1>0, <2>1, QuietQueue
<1>2. CASE RunPosted
  BY <1>0, <1>2, RunQueue
<1>3. CASE Charon
  <2>1. UNCHANGED <<mState, shown, failed, conn, session>>
    BY <1>3 DEF Charon, ChildUp, ChildDownOrError, stateVars, histVars
  <2>2. CASE UNCHANGED mainQ
    BY <1>0, <2>1, <2>2, QuietQueue
  <2>3. ASSUME NEW k \in {"CONNECTED", "CONNECTING", "ERROR"}, Post(k, charonSid)
        PROVE  DisabledShown' /\ DisabledQueued' /\ InitStarted'
    <3>1. k \in Kind \ {"DISABLED"}
      BY DEF Kind, State
    <3> QED
      BY <1>0, <2>1, <2>3, <3>1, PostQueue
  <2> QED
    BY <1>3, <2>2, <2>3 DEF Charon, ChildUp, ChildDownOrError
<1>4. CASE Conn
  <2>1. UNCHANGED <<mState, shown>> /\ failed \subseteq failed' /\ conn # "dead"
    BY <1>4 DEF Conn, ConnWake, ConnBlock, ConnDeinit, ConnFinish, ConnStart, ConnInit,
       ConnNoPassword, ConnInitFailed, ConnDropProfile, mainVars, stateVars, histVars
  <2>2. CASE ConnWake \/ ConnDeinit \/ ConnInit \/ ConnDropProfile
    <3>1. UNCHANGED <<mainQ, session>> /\ conn' # "init"
      BY <2>2 DEF ConnWake, ConnDeinit, ConnInit, ConnDropProfile, mainVars, histVars
    <3> QED
      BY <1>0, <2>1, <3>1, QuietQueue
  <2>3. CASE ConnBlock
    <3>1. conn' # "init" /\ session' = session
      BY <2>3 DEF ConnBlock, histVars
    <3>2. UNCHANGED mainQ \/ Post("DISCONNECTING", session)
      BY <2>3 DEF ConnBlock
    <3>3. "DISCONNECTING" \in Kind \ {"DISABLED"}
      BY DEF Kind, State
    <3> QED
      BY <1>0, <2>1, <3>1, <3>2, <3>3, QuietQueue, PostQueue
  <2>4. CASE ConnFinish
    BY <2>4 DEF ConnFinish, DisabledShown, DisabledQueued, InitStarted
  <2>5. CASE ConnStart
    <3>1. Post("START", mNextProfile) /\ session' = mNextProfile
      BY <2>5 DEF ConnStart
    <3>2. "START" \in Kind \ {"DISABLED"}
      BY DEF Kind, State
    <3> QED
      BY <1>0, <2>1, <3>1, <3>2, PostQueue
  <2>6. CASE ConnNoPassword
    <3>1. Post("ERROR", session) /\ conn' # "init"
      BY <2>6 DEF ConnNoPassword
    <3>2. "ERROR" \in Kind \ {"DISABLED"}
      BY DEF Kind, State
    <3> QED
      BY <1>0, <2>1, <3>1, <3>2, PostQueue
  <2>7. CASE ConnInitFailed
    <3> DEFINE e == [kind |-> "ERROR", sid |-> session]
               d == [kind |-> "DISABLED", sid |-> session]
    <3>1. /\ e \in Posted /\ d \in Posted
          /\ e.kind = "ERROR" /\ d.kind = "DISABLED" /\ d.sid = session
      BY <1>0 DEF Posted, Kind, State
    <3>2. /\ mainQ' = mainQ \o <<e, d>> /\ conn = "init" /\ conn' = "drop"
          /\ session \in failed' /\ session' = session
      BY <2>7 DEF ConnInitFailed
    <3> HIDE DEF e, d
    <3>3. /\ Len(mainQ) \in Nat /\ Len(mainQ') = Len(mainQ) + 2
          /\ \A i \in 1..Len(mainQ) : mainQ'[i] = mainQ[i]
          /\ mainQ'[Len(mainQ) + 1] = e /\ mainQ'[Len(mainQ) + 2] = d
      BY <1>0, <3>1, <3>2
    <3>4. DisabledShown' /\ InitStarted'
      BY <1>0, <2>1, <3>2 DEF DisabledShown, InitStarted
    <3>5. StartSeen(mainQ, Len(mainQ), session, shown)
      BY <1>0, <3>2 DEF InitStarted
    <3>6. ASSUME NEW i \in 1..Len(mainQ'), mainQ'[i].kind = "DISABLED"
          PROVE  mainQ'[i].sid \in failed' /\ StartSeen(mainQ', i - 1, mainQ'[i].sid, shown')
      <4>1. CASE i \in 1..Len(mainQ)
        <5>1. mainQ[i].sid \in failed /\ StartSeen(mainQ, i - 1, mainQ[i].sid, shown)
          BY <1>0, <2>1, <3>3, <3>6, <4>1 DEF DisabledQueued
        <5> QED
          BY <2>1, <3>3, <4>1, <5>1 DEF StartSeen
      <4>2. CASE i \notin 1..Len(mainQ)
        <5>1. i = Len(mainQ) + 2
          BY <3>1, <3>3, <3>6, <4>2
        <5>2. mainQ'[i].sid = session /\ i - 1 = Len(mainQ) + 1
          BY <3>1, <3>3, <5>1
        <5>3. StartSeen(mainQ', Len(mainQ) + 1, session, shown')
          BY <2>1, <3>3, <3>5 DEF StartSeen
        <5> QED
          BY <3>2, <5>2, <5>3
      <4> QED
        BY <4>1, <4>2
    <3> QED
      BY <3>4, <3>6 DEF DisabledQueued
  <2> QED
    BY <1>4, <2>2, <2>3, <2>4, <2>5, <2>6, <2>7 DEF Conn
<1> QED
  BY <1>1, <1>2, <1>3, <1>4 DEF Next, Main

\* onDestroy's join waits for a thread that nobody will wake only when the session
\* on display is one whose initializeCharon failed.
THEOREM DestroyReturns == Spec => []DestroyBlocksOnlyAfterFailedInit
<1> DEFINE Inv == TypeInv /\ CleanInv /\ OrderInv /\ DestroyInv
<1>1. Inv /\ [Next]_vars => Inv'
  BY StepType, StepClean, StepOrder, StepQueue, StepJoin DEF DestroyInv
<1>2. Inv => DestroyBlocksOnlyAfterFailedInit
  BY DEF DestroyInv, JoinEnds, DestroyBlocksOnlyAfterFailedInit
<1> QED
  BY InitType, InitClean, InitOrder, InitDestroy, <1>1, <1>2, PTL DEF Spec

(***************************************************************************)
(* SwitchKeepsDevice. Only deinitializeCharon can take the last device     *)
(* away, and it runs after establishBlocking of the same pass: no profile  *)
(* can be withdrawn in between, because the thread holds the monitor.      *)
(***************************************************************************)
BlockedFirst ==
  conn = "deinit" /\ mNextProfile # None =>
    \/ blocking \in {"failed", "undone"}
    \/ blocking = "ok" /\ dropper

\* The steps of a pass establish BlockedFirst and the daemon's establish() keeps it.
LEMMA StepBlocked == BlockedFirst /\ [Next]_vars => BlockedFirst'
<1> SUFFICES ASSUME BlockedFirst, [Next]_vars PROVE BlockedFirst'
  OBVIOUS
<1>1. CASE User
  <2>1. conn' # "deinit" \/ UNCHANGED <<conn, mNextProfile, dropper, blocking>>
    BY <1>1 DEF User, onStartCommand, onDisconnect, onDestroy, setNextProfile, MonitorFree,
       tunVars, profileVars
  <2> QED
    BY <2>1 DEF BlockedFirst
<1>2. CASE UNCHANGED vars \/ Main \/ Timer \/ ChildDownOrError
  <2>1. UNCHANGED <<conn, mNextProfile, dropper, blocking>>
    BY <1>2 DEF vars, Main, onDestroyReturn, RunPosted, ReadName, Timer, TimerFire, TimerCheck1,
       TimerCheck2, TimerRetry, TimerFail, ChildDownOrError, tunVars, profileVars
  <2> QED
    BY <2>1 DEF BlockedFirst
<1>3. CASE ChildUp
  BY <1>3, Zenon DEF ChildUp, BlockedFirst, profileVars
<1>4. CASE ConnBlock
  BY <1>4, Zenon DEF ConnBlock, establishBlocking, BlockedFirst
<1>5. CASE Conn /\ ~ConnBlock
  <2>1. conn' # "deinit"
    BY <1>5 DEF Conn, ConnWake, ConnDeinit, ConnFinish, ConnStart, ConnInit, ConnNoPassword,
       ConnInitFailed, ConnDropProfile
  <2> QED
    BY <2>1 DEF BlockedFirst
<1> QED
  BY <1>1, <1>2, <1>3, <1>4, <1>5 DEF Next, Charon

\* Between two sessions the phone keeps a TUN interface, unless the blocking one
\* could not be opened or a late establish() closed it.
THEOREM SwitchKeeps == Spec => SwitchKeepsDevice
<1>1. Init => BlockedFirst
  BY DEF Init, BlockedFirst
<1> DEFINE Lost == (tun \/ dropper) /\ ~(tun' \/ dropper')
           Allowed == mNextProfile = None \/ blocking \in {"failed", "undone"}
<1>2. ASSUME BlockedFirst, Next, Lost PROVE Allowed
  <2>1. CASE User \/ Main \/ Timer \/ ChildDownOrError
    <3>1. UNCHANGED <<tun, dropper>>
      BY <2>1 DEF User, onStartCommand, onDisconnect, onDestroy, Main, onDestroyReturn, RunPosted,
         ReadName, Timer, TimerFire, TimerCheck1, TimerCheck2, TimerRetry, TimerFail,
         ChildDownOrError, tunVars
    <3> QED
      BY <1>2, <3>1
  <2>2. CASE ChildUp
    BY <1>2, <2>2, Zenon DEF ChildUp
  <2>3. CASE ConnBlock
    BY <1>2, <2>3, Zenon DEF ConnBlock, establishBlocking
  <2>4. CASE ConnDeinit
    BY <1>2, <2>4, Zenon DEF ConnDeinit, CloseBlocking, BlockedFirst
  <2>5. CASE Conn /\ ~ConnBlock /\ ~ConnDeinit
    <3>1. UNCHANGED <<tun, dropper>>
      BY <2>5 DEF Conn, ConnWake, ConnFinish, ConnStart, ConnInit, ConnNoPassword,
         ConnInitFailed, ConnDropProfile, tunVars
    <3> QED
      BY <1>2, <3>1
  <2> QED
    BY <1>2, <2>1, <2>2, <2>3, <2>4, <2>5 DEF Next, Charon
<1>3. BlockedFirst /\ [Next]_vars => [Lost => Allowed]_vars
  BY <1>2 DEF vars, tunVars
<1> QED
  BY <1>1, <1>3, StepBlocked, PTL DEF Spec, SwitchKeepsDevice
=============================================================================
