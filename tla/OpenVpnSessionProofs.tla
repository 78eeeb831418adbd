------------------------ MODULE OpenVpnSessionProofs ------------------------
(* Theorems about OpenVpnSession, for every number of starts and of stops. *)
EXTENDS OpenVpnSession, SequenceTheorems, TLAPS

\* Every thread that an action names is one of Thread.
LEMMA Threads ==
  /\ Main \in Thread /\ Timer \in Thread
  /\ \A n \in Session : /\ StarterThread(n) \in Thread /\ MgmtThread(n) \in Thread
                        /\ ProcThread(n) \in Thread
BY DEF Thread, Main, Timer, StarterThread, MgmtThread, ProcThread

\* What a field that refers to a session may hold.
LEMMA NullType == Null \in 0..MaxStarts /\ \A n \in Session : n \in 0..MaxStarts /\ n # Null
BY BoundsAssumption DEF BoundsAssumption, Null, Session

LEMMA NotNull == ASSUME NEW n \in 0..MaxStarts, n # Null PROVE n \in Session
BY BoundsAssumption DEF BoundsAssumption, Null, Session

\* A step of a thread in disconnect() or endVpnService keeps the type of call.
LEMMA GoesPlace ==
  ASSUME PlacesOK, NEW t \in Thread, NEW from, NEW to \in CallPC, Goes(t, from, to)
  PROVE  call' \in [Thread -> CallPC]
BY DEF PlacesOK, Goes

\* A step of a start thread keeps the type of starter.
LEMMA GotoPlace ==
  ASSUME PlacesOK, NEW n \in Session, NEW from, NEW to \in StarterPC, Goto(n, from, to)
  PROVE  starter' \in [Session -> StarterPC]
BY DEF PlacesOK, Goto

\* stateTransform keeps the types of what it writes.
LEMMA TransformType ==
  ASSUME FlagsOK, ValuesOK, NEW level, stateTransform(level)
  PROVE  /\ pending' \in BOOLEAN /\ isStarting' \in BOOLEAN /\ connected' \in BOOLEAN
         /\ report' \in Report
<1>1. pending' \in BOOLEAN
  BY Zenon DEF stateTransform, FlagsOK
<1>2. isStarting' \in BOOLEAN /\ connected' \in BOOLEAN
  <2>1. CASE Ignored(level)
    BY <2>1, Zenon DEF stateTransform, FlagsOK
  <2>2. CASE ~Ignored(level)
    BY <2>2, Zenon DEF stateTransform, FlagsOK
  <2>3. QED
    BY <2>1, <2>2
<1>3. report' \in Report
  <2>1. VPNStateOf(level) \in Report
    BY DEF VPNStateOf, Report
  <2>2. QED
    BY <2>1, Zenon DEF stateTransform, ValuesOK
<1>4. QED
  BY <1>1, <1>2, <1>3

\* So does stopVPN.
LEMMA StopType ==
  ASSUME FlagsOK, stopVPN
  PROVE  /\ asked' \in [Session -> BOOLEAN] /\ closed' \in [Session -> BOOLEAN]
         /\ mShuttingDown' \in [Session -> BOOLEAN]
BY Zenon DEF stopVPN, FlagsOK

\* What ObjectsOK depends on.
objects == <<mgmt, peer, proc, runnable, starter, mManagement>>

\* Nothing that ObjectsOK depends on has changed.
LEMMA ObjectsFrame == ASSUME ObjectsOK, UNCHANGED objects PROVE ObjectsOK'
BY DEF ObjectsOK, objects, Accepted

\* A step of a start thread up to openManagementInterface, or to its end.
LEMMA ObjectsGoto ==
  ASSUME ObjectsOK, PlacesOK, NEW n \in Session, NEW from, NEW to, Goto(n, from, to),
         to \in {"spawn", "thread", "arm", "receiver"} => mManagement # Null,
         UNCHANGED <<mgmt, peer, proc, runnable, mManagement>>
  PROVE  ObjectsOK'
BY DEF ObjectsOK, PlacesOK, Accepted, Goto

\* Threads in disconnect() or endVpnService.
LEMMA CallType == ASSUME TypeOK, NEW t \in Thread, Call(t) PROVE TypeOK'
<1> USE DEF lifeVars, startVars, threadVars, receiverVars, stateVars, mgmtVars, procVars
<1>0. FlagsOK /\ PlacesOK /\ ValuesOK /\ ObjectsOK
  BY DEF TypeOK
<1>1. CASE ReportAbort(t)
  <2>1. call' \in [Thread -> CallPC]
    BY <1>0, <1>1, Threads, GoesPlace DEF ReportAbort, CallPC
  <2>2. FlagsOK'
    BY <1>0, <1>1, <2>1, Zenon DEF ReportAbort, FlagsOK
  <2>3. PlacesOK'
    BY <1>0, <1>1, <2>1 DEF ReportAbort, PlacesOK
  <2>4. ValuesOK'
    BY <1>0, <1>1, <2>1 DEF ReportAbort, ValuesOK, Report
  <2>5. ObjectsOK'
    BY <1>0, <1>1, ObjectsFrame DEF ReportAbort, objects
  <2>6. QED
    BY <2>2, <2>3, <2>4, <2>5 DEF TypeOK
<1>2. CASE SetFlag(t)
  <2>1. call' \in [Thread -> CallPC]
    BY <1>0, <1>2, Threads, GoesPlace DEF SetFlag, CallPC
  <2>2. FlagsOK'
    BY <1>0, <1>2, <2>1, Zenon DEF SetFlag, FlagsOK
  <2>3. PlacesOK'
    BY <1>0, <1>2, <2>1 DEF SetFlag, PlacesOK
  <2>4. ValuesOK'
    BY <1>0, <1>2, <2>1 DEF SetFlag, ValuesOK
  <2>5. ObjectsOK'
    BY <1>0, <1>2, ObjectsFrame DEF SetFlag, objects
  <2>6. QED
    BY <2>2, <2>3, <2>4, <2>5 DEF TypeOK
<1>3. CASE onRevoke(t)
  <2>1. call' \in [Thread -> CallPC]
    BY <1>0, <1>3, GoesPlace DEF onRevoke, CallPC
  <2>2. /\ asked' \in [Session -> BOOLEAN] /\ closed' \in [Session -> BOOLEAN]
        /\ mShuttingDown' \in [Session -> BOOLEAN]
    BY <1>0, <1>3, StopType DEF onRevoke
  <2>3. FlagsOK'
    BY <1>0, <1>3, <2>1, <2>2, Zenon DEF onRevoke, FlagsOK
  <2>4. PlacesOK'
    BY <1>0, <1>3, <2>1, <2>2 DEF onRevoke, PlacesOK
  <2>5. ValuesOK'
    BY <1>0, <1>3, <2>1, <2>2 DEF onRevoke, ValuesOK
  <2>6. ObjectsOK'
    BY <1>0, <1>3, ObjectsFrame DEF onRevoke, objects
  <2>7. QED
    BY <2>3, <2>4, <2>5, <2>6 DEF TypeOK
<1>4. CASE endVpnService(t)
  <2>1. call' \in [Thread -> CallPC]
    BY <1>0, <1>4, Threads, GoesPlace DEF endVpnService, CallPC
  <2>2. /\ pending' \in BOOLEAN /\ isStarting' \in BOOLEAN /\ connected' \in BOOLEAN
        /\ report' \in Report
    BY <1>0, <1>4, TransformType DEF endVpnService
  <2>3. FlagsOK'
    BY <1>0, <1>4, <2>1, <2>2, Zenon DEF endVpnService, FlagsOK
  <2>4. PlacesOK'
    BY <1>0, <1>4, <2>1, <2>2 DEF endVpnService, PlacesOK
  <2>5. ValuesOK'
    BY <1>0, <1>4, <2>1, <2>2 DEF endVpnService, ValuesOK
  <2>6. ObjectsOK'
    BY <1>0, <1>4, ObjectsFrame DEF endVpnService, objects
  <2>7. QED
    BY <2>3, <2>4, <2>5, <2>6 DEF TypeOK
<1>5. CASE ClearFields(t)
  <2>1. call' \in [Thread -> CallPC]
    BY <1>0, <1>5, Threads, GoesPlace DEF ClearFields, CallPC
  <2>2. mProcessThread' \in 0..MaxStarts /\ mOpenVPNThread' \in 0..MaxStarts
    BY <1>0, <1>5, NullType DEF ClearFields, ValuesOK
  <2>3. FlagsOK'
    BY <1>0, <1>5, <2>1, <2>2, Zenon DEF ClearFields, FlagsOK
  <2>4. PlacesOK'
    BY <1>0, <1>5, <2>1, <2>2 DEF ClearFields, PlacesOK
  <2>5. ValuesOK'
    BY <1>0, <1>5, <2>1, <2>2 DEF ClearFields, ValuesOK
  <2>6. ObjectsOK'
    BY <1>0, <1>5, ObjectsFrame DEF ClearFields, objects
  <2>7. QED
    BY <2>3, <2>4, <2>5, <2>6 DEF TypeOK
<1>6. CASE Unhook(t)
  <2>1. call' \in [Thread -> CallPC]
    BY <1>0, <1>6, GoesPlace DEF Unhook, CallPC
  <2>2. FlagsOK'
    BY <1>0, <1>6, <2>1, Zenon DEF Unhook, FlagsOK
  <2>3. PlacesOK'
    BY <1>0, <1>6, <2>1 DEF Unhook, PlacesOK
  <2>4. ValuesOK'
    BY <1>0, <1>6, <2>1, NullType DEF Unhook, ValuesOK
  <2>5. ObjectsOK'
    BY <1>0, <1>6, ObjectsFrame DEF Unhook, objects
  <2>6. QED
    BY <2>2, <2>3, <2>4, <2>5 DEF TypeOK
<1>7. CASE ReportLate(t)
  <2>1. call' \in [Thread -> CallPC]
    BY <1>0, <1>7, Threads, GoesPlace DEF ReportLate, CallPC
  <2>2. /\ pending' \in BOOLEAN /\ isStarting' \in BOOLEAN /\ connected' \in BOOLEAN
        /\ report' \in Report
    BY <1>0, <1>7, TransformType DEF ReportLate
  <2>3. FlagsOK'
    BY <1>0, <1>7, <2>1, <2>2, Zenon DEF ReportLate, FlagsOK
  <2>4. PlacesOK'
    BY <1>0, <1>7, <2>1, <2>2 DEF ReportLate, PlacesOK
  <2>5. ValuesOK'
    BY <1>0, <1>7, <2>1, <2>2 DEF ReportLate, ValuesOK
  <2>6. ObjectsOK'
    BY <1>0, <1>7, ObjectsFrame DEF ReportLate, objects
  <2>7. QED
    BY <2>3, <2>4, <2>5, <2>6 DEF TypeOK
<1>8. QED
  BY <1>1, <1>2, <1>3, <1>4, <1>5, <1>6, <1>7 DEF Call

\* The main thread and the connect timeout.
LEMMA UserType == ASSUME TypeOK, User \/ onStartCommand \/ TimerFire PROVE TypeOK'
<1> USE DEF lifeVars, startVars, threadVars, receiverVars, stateVars, mgmtVars, procVars
<1>0. FlagsOK /\ PlacesOK /\ ValuesOK /\ ObjectsOK
  BY DEF TypeOK
<1>1. CASE addStateListener
  <2>1. call' \in [Thread -> CallPC]
    BY <1>0, <1>1, Threads, GoesPlace DEF addStateListener, CallPC
  <2>2. /\ pending' \in BOOLEAN /\ isStarting' \in BOOLEAN /\ connected' \in BOOLEAN
        /\ report' \in Report
    BY <1>0, <1>1, TransformType, Zenon DEF addStateListener, FlagsOK, ValuesOK
  <2>3. FlagsOK'
    BY <1>0, <1>1, <2>1, <2>2, Zenon DEF addStateListener, FlagsOK
  <2>4. PlacesOK'
    BY <1>0, <1>1, <2>1, <2>2 DEF addStateListener, PlacesOK
  <2>5. ValuesOK'
    BY <1>0, <1>1, <2>1, <2>2, BoundsAssumption DEF BoundsAssumption, addStateListener, ValuesOK
  <2>6. ObjectsOK'
    BY <1>0, <1>1, ObjectsFrame DEF addStateListener, objects
  <2>7. QED
    BY <2>3, <2>4, <2>5, <2>6 DEF TypeOK
<1>2. CASE disconnect
  <2>1. call' \in [Thread -> CallPC]
    BY <1>0, <1>2, Threads DEF disconnect, PlacesOK, CallPC
  <2>2. FlagsOK'
    BY <1>0, <1>2, <2>1, Zenon DEF disconnect, FlagsOK
  <2>3. PlacesOK'
    BY <1>0, <1>2, <2>1 DEF disconnect, PlacesOK
  <2>4. ValuesOK'
    BY <1>0, <1>2, <2>1, BoundsAssumption DEF BoundsAssumption, disconnect, ValuesOK
  <2>5. ObjectsOK'
    BY <1>0, <1>2, ObjectsFrame DEF disconnect, objects
  <2>6. QED
    BY <2>2, <2>3, <2>4, <2>5 DEF TypeOK
<1>3. CASE networkChange
  <2>1. call' \in [Thread -> CallPC]
    BY <1>0, <1>3, Threads DEF networkChange, PlacesOK, CallPC
  <2>2. FlagsOK'
    BY <1>0, <1>3, <2>1, Zenon DEF networkChange, FlagsOK
  <2>3. PlacesOK'
    BY <1>0, <1>3, <2>1 DEF networkChange, PlacesOK
  <2>4. ValuesOK'
    BY <1>0, <1>3, <2>1, BoundsAssumption DEF BoundsAssumption, networkChange, ValuesOK
  <2>5. ObjectsOK'
    BY <1>0, <1>3, ObjectsFrame DEF networkChange, objects
  <2>6. QED
    BY <2>2, <2>3, <2>4, <2>5 DEF TypeOK
<1>4. CASE onDestroy
  <2>1. /\ asked' \in [Session -> BOOLEAN] /\ closed' \in [Session -> BOOLEAN]
        /\ mShuttingDown' \in [Session -> BOOLEAN]
    BY <1>0, <1>4, StopType DEF onDestroy
  <2>2. FlagsOK'
    BY <1>0, <1>4, <2>1, Zenon DEF onDestroy, FlagsOK
  <2>3. PlacesOK'
    BY <1>0, <1>4, <2>1 DEF onDestroy, PlacesOK
  <2>4. ValuesOK'
    BY <1>0, <1>4, <2>1, NullType DEF onDestroy, ValuesOK
  <2>5. ObjectsOK'
    BY <1>0, <1>4, ObjectsFrame DEF onDestroy, objects
  <2>6. QED
    BY <2>2, <2>3, <2>4, <2>5 DEF TypeOK
<1>5. CASE onReceive
  <2>1. FlagsOK'
    BY <1>0, <1>5, Zenon DEF onReceive, FlagsOK
  <2>2. PlacesOK'
    BY <1>0, <1>5 DEF onReceive, releaseHold, PlacesOK, MgmtPC
  <2>3. ValuesOK'
    BY <1>0, <1>5 DEF onReceive, ValuesOK
  <2>4. ObjectsOK'
    BY <1>0, <1>5 DEF onReceive, releaseHold, ObjectsOK, Accepted, PlacesOK
  <2>5. QED
    BY <2>1, <2>2, <2>3, <2>4 DEF TypeOK
<1>6. CASE onStartCommand
  <2>1. call' \in [Thread -> CallPC]
    BY <1>0, <1>6, Threads, GoesPlace DEF onStartCommand, CallPC
  <2>2. /\ pending' \in BOOLEAN /\ isStarting' \in BOOLEAN /\ connected' \in BOOLEAN
        /\ report' \in Report
    BY <1>0, <1>6, TransformType, Zenon DEF onStartCommand, FlagsOK, ValuesOK
  <2>3. starter' \in [Session -> StarterPC] /\ \A n \in Session : starter'[n] \in {starter[n], "write", "done"}
    BY <1>0, <1>6 DEF onStartCommand, PlacesOK, StarterPC
  <2>4. FlagsOK'
    BY <1>0, <1>6, <2>1, <2>2, <2>3, Zenon DEF onStartCommand, FlagsOK
  <2>5. PlacesOK'
    BY <1>0, <1>6, <2>1, <2>2, <2>3 DEF onStartCommand, PlacesOK
  <2>6. ValuesOK'
    BY <1>0, <1>6, <2>1, <2>2, <2>3 DEF onStartCommand, ValuesOK
  <2>7. ObjectsOK'
    BY <1>0, <1>6, <2>1, <2>2, <2>3 DEF onStartCommand, ObjectsOK, Accepted
  <2>8. QED
    BY <2>4, <2>5, <2>6, <2>7 DEF TypeOK
<1>7. CASE TimerFire
  <2>1. call' \in [Thread -> CallPC]
    BY <1>0, <1>7, Threads, GoesPlace DEF TimerFire, CallPC
  <2>2. FlagsOK'
    BY <1>0, <1>7, <2>1, Zenon DEF TimerFire, FlagsOK
  <2>3. PlacesOK'
    BY <1>0, <1>7, <2>1 DEF TimerFire, PlacesOK
  <2>4. ValuesOK'
    BY <1>0, <1>7, <2>1 DEF TimerFire, ValuesOK
  <2>5. ObjectsOK'
    BY <1>0, <1>7, ObjectsFrame DEF TimerFire, objects
  <2>6. QED
    BY <2>2, <2>3, <2>4, <2>5 DEF TypeOK
<1>8. QED
  BY <1>1, <1>2, <1>3, <1>4, <1>5, <1>6, <1>7 DEF User

\* The start threads.
LEMMA StarterType == ASSUME TypeOK, NEW n \in Session, Starter(n) PROVE TypeOK'
<1> USE DEF lifeVars, startVars, threadVars, receiverVars, stateVars, mgmtVars, procVars
<1>0. FlagsOK /\ PlacesOK /\ ValuesOK /\ ObjectsOK
  BY DEF TypeOK
<1>1. CASE WriteFails(n)
  <2>1. starter' \in [Session -> StarterPC]
    BY <1>0, <1>1, GotoPlace DEF WriteFails, StarterPC
  <2>2. call' \in [Thread -> CallPC]
    BY <1>0, <1>1, Threads, GoesPlace DEF WriteFails, CallPC
  <2>3. FlagsOK'
    BY <1>0, <1>1, <2>1, <2>2, Zenon DEF WriteFails, FlagsOK
  <2>4. PlacesOK'
    BY <1>0, <1>1, <2>1, <2>2 DEF WriteFails, PlacesOK
  <2>5. ValuesOK'
    BY <1>0, <1>1, <2>1, <2>2 DEF WriteFails, ValuesOK
  <2>6. ObjectsOK'
    BY <1>0, <1>1, ObjectsGoto DEF WriteFails
  <2>7. QED
    BY <2>3, <2>4, <2>5, <2>6 DEF TypeOK
<1>2. CASE stopOldOpenVPNProcess(n)
  <2>1. starter' \in [Session -> StarterPC]
    BY <1>0, <1>2, GotoPlace DEF stopOldOpenVPNProcess, StarterPC
  <2>2. /\ asked' \in [Session -> BOOLEAN] /\ closed' \in [Session -> BOOLEAN]
        /\ mShuttingDown' \in [Session -> BOOLEAN]
    BY <1>0, <1>2, StopType DEF stopOldOpenVPNProcess
  <2>3. mNoProcessExitStatus' \in [Session -> BOOLEAN]
    BY <1>0, <1>2, Zenon DEF stopOldOpenVPNProcess, setReplaceConnection, FlagsOK
  <2>4. FlagsOK'
    BY <1>0, <1>2, <2>1, <2>2, <2>3, Zenon DEF stopOldOpenVPNProcess, FlagsOK
  <2>5. PlacesOK'
    BY <1>0, <1>2, <2>1, <2>2, <2>3 DEF stopOldOpenVPNProcess, PlacesOK
  <2>6. ValuesOK'
    BY <1>0, <1>2, <2>1, <2>2, <2>3 DEF stopOldOpenVPNProcess, ValuesOK
  <2>7. ObjectsOK'
    BY <1>0, <1>2, ObjectsGoto DEF stopOldOpenVPNProcess
  <2>8. QED
    BY <2>4, <2>5, <2>6, <2>7 DEF TypeOK
<1>3. CASE interrupt(n)
  <2>1. starter' \in [Session -> StarterPC]
    BY <1>0, <1>3, GotoPlace DEF interrupt, StarterPC
  <2>2. asked' \in [Session -> BOOLEAN]
    BY <1>0, <1>3, Zenon DEF interrupt, FlagsOK
  <2>3. FlagsOK'
    BY <1>0, <1>3, <2>1, <2>2, Zenon DEF interrupt, FlagsOK
  <2>4. PlacesOK'
    BY <1>0, <1>3, <2>1, <2>2 DEF interrupt, PlacesOK
  <2>5. ValuesOK'
    BY <1>0, <1>3, <2>1, <2>2 DEF interrupt, ValuesOK
  <2>6. ObjectsOK'
    BY <1>0, <1>3, ObjectsGoto DEF interrupt
  <2>7. QED
    BY <2>3, <2>4, <2>5, <2>6 DEF TypeOK
<1>4. CASE forceStopOpenVpnProcess(n)
  <2>1. starter' \in [Session -> StarterPC]
    BY <1>0, <1>4, GotoPlace DEF forceStopOpenVpnProcess, StarterPC
  <2>2. FlagsOK'
    BY <1>0, <1>4, <2>1, Zenon DEF forceStopOpenVpnProcess, FlagsOK
  <2>3. PlacesOK'
    BY <1>0, <1>4, <2>1 DEF forceStopOpenVpnProcess, PlacesOK
  <2>4. ValuesOK'
    BY <1>0, <1>4, <2>1 DEF forceStopOpenVpnProcess, ValuesOK
  <2>5. ObjectsOK'
    BY <1>0, <1>4, ObjectsGoto DEF forceStopOpenVpnProcess
  <2>6. QED
    BY <2>2, <2>3, <2>4, <2>5 DEF TypeOK
<1>5. CASE openManagementInterface(n)
  <2>1. starter' \in [Session -> StarterPC]
    BY <1>0, <1>5, GotoPlace DEF openManagementInterface, StarterPC
  <2>2. call' \in [Thread -> CallPC]
    BY <1>0, <1>5, Threads, GoesPlace DEF openManagementInterface, CallPC, PlacesOK
  <2>3. mgmt' \in [Session -> MgmtPC]
    BY <1>0, <1>5 DEF openManagementInterface, PlacesOK, MgmtPC
  <2>4. active \in Seq(Session) /\ Append(active, n) \in Seq(Session)
    BY <1>0, AppendProperties DEF ValuesOK
  <2>5. active' \in Seq(Session)
    BY <2>4, <1>5, Zenon DEF openManagementInterface
  <2>6. mManagement' \in 0..MaxStarts
    BY <1>0, <1>5, NullType, Zenon DEF openManagementInterface, ValuesOK
  <2>7. FlagsOK'
    BY <1>0, <1>5, <2>1, <2>2, <2>3, <2>4, <2>5, <2>6, Zenon DEF openManagementInterface, FlagsOK
  <2>8. PlacesOK'
    BY <1>0, <1>5, <2>1, <2>2, <2>3, <2>4, <2>5, <2>6 DEF openManagementInterface, PlacesOK
  <2>9. ValuesOK'
    BY <1>0, <1>5, <2>1, <2>2, <2>3, <2>4, <2>5, <2>6 DEF openManagementInterface, ValuesOK
  <2>10. ObjectsOK'
    BY <1>0, <1>5, NullType DEF openManagementInterface, ObjectsOK, Accepted, Goto, PlacesOK
  <2>11. QED
    BY <2>7, <2>8, <2>9, <2>10 DEF TypeOK
<1>6. CASE NewOpenVPNThread(n)
  <2>1. starter' \in [Session -> StarterPC]
    BY <1>0, <1>6, GotoPlace DEF NewOpenVPNThread, StarterPC
  <2>2. FlagsOK'
    BY <1>0, <1>6, <2>1, Zenon DEF NewOpenVPNThread, FlagsOK
  <2>3. PlacesOK'
    BY <1>0, <1>6, <2>1 DEF NewOpenVPNThread, PlacesOK
  <2>4. ValuesOK'
    BY <1>0, <1>6, <2>1, NullType DEF NewOpenVPNThread, ValuesOK
  <2>5. ObjectsOK'
    BY <1>0, <1>6, ObjectsGoto DEF NewOpenVPNThread, Goto, ObjectsOK
  <2>6. QED
    BY <2>2, <2>3, <2>4, <2>5 DEF TypeOK
<1>7. CASE StartProcess(n)
  <2>1. starter' \in [Session -> StarterPC]
    BY <1>0, <1>7, GotoPlace DEF StartProcess, StarterPC
  <2>2. FlagsOK'
    BY <1>0, <1>7, <2>1, Zenon DEF StartProcess, FlagsOK
  <2>3. PlacesOK'
    BY <1>0, <1>7, <2>1 DEF StartProcess, PlacesOK, ProcPC
  <2>4. ValuesOK'
    BY <1>0, <1>7, <2>1, NullType DEF StartProcess, ValuesOK
  <2>5. ObjectsOK'
    BY <1>0, <1>7, NullType, NotNull DEF StartProcess, ObjectsOK, Accepted, Goto, PlacesOK, ValuesOK
  <2>6. QED
    BY <2>2, <2>3, <2>4, <2>5 DEF TypeOK
<1>8. CASE ArmTimeout(n)
  <2>1. starter' \in [Session -> StarterPC]
    BY <1>0, <1>8, GotoPlace DEF ArmTimeout, StarterPC
  <2>2. FlagsOK'
    BY <1>0, <1>8, <2>1, Zenon DEF ArmTimeout, FlagsOK
  <2>3. PlacesOK'
    BY <1>0, <1>8, <2>1 DEF ArmTimeout, PlacesOK
  <2>4. ValuesOK'
    BY <1>0, <1>8, <2>1 DEF ArmTimeout, ValuesOK
  <2>5. ObjectsOK'
    BY <1>0, <1>8, ObjectsGoto DEF ArmTimeout, Goto, ObjectsOK
  <2>6. QED
    BY <2>2, <2>3, <2>4, <2>5 DEF TypeOK
<1>9. CASE registerDeviceStateReceiver(n)
  <2>1. starter' \in [Session -> StarterPC]
    BY <1>0, <1>9, GotoPlace DEF registerDeviceStateReceiver, StarterPC
  <2>2. mManagement \in Session
    BY <1>0, <1>9, NotNull DEF registerDeviceStateReceiver, Goto, ObjectsOK, ValuesOK
  <2>3. FlagsOK'
    BY <1>0, <1>9, <2>1, <2>2, Zenon DEF registerDeviceStateReceiver, FlagsOK
  <2>4. PlacesOK'
    BY <1>0, <1>9, <2>1, <2>2 DEF registerDeviceStateReceiver, PlacesOK
  <2>5. ValuesOK'
    BY <1>0, <1>9, <2>1, <2>2, NullType DEF registerDeviceStateReceiver, ValuesOK
  <2>6. ObjectsOK'
    BY <1>0, <1>9, ObjectsGoto DEF registerDeviceStateReceiver
  <2>7. QED
    BY <2>3, <2>4, <2>5, <2>6 DEF TypeOK
<1>10. CASE networkStateChange(n)
  <2>1. starter' \in [Session -> StarterPC]
    BY <1>0, <1>10, GotoPlace DEF networkStateChange, StarterPC
  <2>2. FlagsOK'
    BY <1>0, <1>10, <2>1, Zenon DEF networkStateChange, FlagsOK
  <2>3. PlacesOK'
    BY <1>0, <1>10, <2>1 DEF networkStateChange, releaseHold, PlacesOK, MgmtPC
  <2>4. ValuesOK'
    BY <1>0, <1>10, <2>1 DEF networkStateChange, ValuesOK
  <2>5. ObjectsOK'
    BY <1>0, <1>10 DEF networkStateChange, releaseHold, ObjectsOK, Accepted, Goto, PlacesOK
  <2>6. QED
    BY <2>2, <2>3, <2>4, <2>5 DEF TypeOK
<1>11. CASE NullReceiver(n)
  <2>1. FlagsOK'
    BY <1>0, <1>11, Zenon DEF NullReceiver, FlagsOK
  <2>2. PlacesOK'
    BY <1>0, <1>11 DEF NullReceiver, PlacesOK, CallPC, StarterPC, MgmtPC, ProcPC
  <2>3. ValuesOK'
    BY <1>0, <1>11 DEF NullReceiver, ValuesOK
  <2>4. ObjectsOK'
    BY <1>0, <1>11 DEF NullReceiver, ObjectsOK, Accepted
  <2>5. QED
    BY <2>1, <2>2, <2>3, <2>4 DEF TypeOK
<1>12. QED
  BY <1>1, <1>2, <1>3, <1>4, <1>5, <1>6, <1>7, <1>8, <1>9, <1>10, <1>11 DEF Starter

\* Removing one entry of a sequence leaves a sequence.
LEMMA RemoveType ==
  ASSUME NEW S, NEW s \in Seq(S), NEW i \in 1..Len(s)
  PROVE  SubSeq(s, 1, i - 1) \o SubSeq(s, i + 1, Len(s)) \in Seq(S)
<1>1. Len(s) \in Nat
  BY LenProperties
<1>2. SubSeq(s, 1, i - 1) \in Seq(S)
  BY <1>1, SubSeqProperties
<1>3. SubSeq(s, i + 1, Len(s)) \in Seq(S)
  BY <1>1, SubSeqProperties
<1>4. QED
  BY <1>2, <1>3, ConcatProperties

\* The management threads.
LEMMA MgmtType == ASSUME TypeOK, NEW n \in Session, Mgmt(n) PROVE TypeOK'
<1> USE DEF lifeVars, startVars, threadVars, receiverVars, stateVars, mgmtVars, procVars
<1>0. FlagsOK /\ PlacesOK /\ ValuesOK /\ ObjectsOK
  BY DEF TypeOK
<1>1. CASE MgmtAccept(n)
  <2>1. FlagsOK'
    BY <1>0, <1>1, Zenon DEF MgmtAccept, FlagsOK
  <2>2. PlacesOK'
    BY <1>0, <1>1 DEF MgmtAccept, PlacesOK, MgmtPC
  <2>3. ValuesOK'
    BY <1>0, <1>1 DEF MgmtAccept, ValuesOK
  <2>4. ObjectsOK'
    BY <1>0, <1>1, NotNull DEF MgmtAccept, ObjectsOK, Accepted, PlacesOK, ValuesOK
  <2>5. QED
    BY <2>1, <2>2, <2>3, <2>4 DEF TypeOK
<1>2. CASE HoldReleased(n)
  <2>1. FlagsOK'
    BY <1>0, <1>2, Zenon DEF HoldReleased, FlagsOK
  <2>2. PlacesOK'
    BY <1>0, <1>2 DEF HoldReleased, PlacesOK, MgmtPC
  <2>3. ValuesOK'
    BY <1>0, <1>2 DEF HoldReleased, ValuesOK
  <2>4. ObjectsOK'
    BY <1>0, <1>2 DEF HoldReleased, ObjectsOK, Accepted, PlacesOK
  <2>5. QED
    BY <2>1, <2>2, <2>3, <2>4 DEF TypeOK
<1>3. CASE HoldPaused(n)
  <2>1. call' \in [Thread -> CallPC]
    BY <1>0, <1>3, Threads DEF HoldPaused, PlacesOK, CallPC
  <2>2. FlagsOK'
    BY <1>0, <1>3, <2>1, Zenon DEF HoldPaused, FlagsOK
  <2>3. PlacesOK'
    BY <1>0, <1>3, <2>1 DEF HoldPaused, PlacesOK, MgmtPC
  <2>4. ValuesOK'
    BY <1>0, <1>3, <2>1 DEF HoldPaused, ValuesOK
  <2>5. ObjectsOK'
    BY <1>0, <1>3 DEF HoldPaused, ObjectsOK, Accepted, PlacesOK
  <2>6. QED
    BY <2>2, <2>3, <2>4, <2>5 DEF TypeOK
<1>4. CASE processCommand(n)
  <2>1. /\ pending' \in BOOLEAN /\ isStarting' \in BOOLEAN /\ connected' \in BOOLEAN
        /\ report' \in Report
    BY <1>0, <1>4, TransformType DEF processCommand
  <2>2. FlagsOK'
    BY <1>0, <1>4, <2>1, Zenon DEF processCommand, FlagsOK
  <2>3. PlacesOK'
    BY <1>0, <1>4, <2>1 DEF processCommand, PlacesOK
  <2>4. ValuesOK'
    BY <1>0, <1>4, <2>1 DEF processCommand, ValuesOK
  <2>5. ObjectsOK'
    BY <1>0, <1>4, ObjectsFrame DEF processCommand, objects
  <2>6. QED
    BY <2>2, <2>3, <2>4, <2>5 DEF TypeOK
<1>5. CASE MgmtEof(n)
  <2>1. active' \in Seq(Session)
    BY <1>0, <1>5, RemoveType DEF MgmtEof, ValuesOK
  <2>2. FlagsOK'
    BY <1>0, <1>5, <2>1, Zenon DEF MgmtEof, FlagsOK
  <2>3. PlacesOK'
    BY <1>0, <1>5 DEF MgmtEof, PlacesOK, MgmtPC
  <2>4. ValuesOK'
    BY <1>0, <1>5, <2>1 DEF MgmtEof, ValuesOK
  <2>5. ObjectsOK'
    BY <1>0, <1>5 DEF MgmtEof, ObjectsOK, Accepted, PlacesOK
  <2>6. QED
    BY <2>2, <2>3, <2>4, <2>5 DEF TypeOK
<1>6. QED
  BY <1>1, <1>2, <1>3, <1>4, <1>5 DEF Mgmt

\* The process threads.
LEMMA ProcType == ASSUME TypeOK, NEW n \in Session, Proc(n) PROVE TypeOK'
<1> USE DEF lifeVars, startVars, threadVars, receiverVars, stateVars, mgmtVars, procVars
<1>0. FlagsOK /\ PlacesOK /\ ValuesOK /\ ObjectsOK
  BY DEF TypeOK
<1>1. CASE Connect(n)
  <2>1. FlagsOK'
    BY <1>0, <1>1, Zenon DEF Connect, FlagsOK
  <2>2. PlacesOK'
    BY <1>0, <1>1 DEF Connect, PlacesOK
  <2>3. ValuesOK'
    BY <1>0, <1>1, NullType DEF Connect, ValuesOK
  <2>4. ObjectsOK'
    BY <1>0, <1>1 DEF Connect, ObjectsOK, Accepted, ValuesOK
  <2>5. QED
    BY <2>1, <2>2, <2>3, <2>4 DEF TypeOK
<1>2. CASE ProcExit(n)
  <2>1. FlagsOK'
    BY <1>0, <1>2, Zenon DEF ProcExit, FlagsOK
  <2>2. PlacesOK'
    BY <1>0, <1>2 DEF ProcExit, PlacesOK, ProcPC
  <2>3. ValuesOK'
    BY <1>0, <1>2 DEF ProcExit, ValuesOK
  <2>4. ObjectsOK'
    BY <1>0, <1>2 DEF ProcExit, ObjectsOK, Accepted, PlacesOK
  <2>5. QED
    BY <2>1, <2>2, <2>3, <2>4 DEF TypeOK
<1>3. CASE TestReplaced(n)
  <2>1. FlagsOK'
    BY <1>0, <1>3, Zenon DEF TestReplaced, FlagsOK
  <2>2. PlacesOK'
    BY <1>0, <1>3 DEF TestReplaced, PlacesOK, ProcPC
  <2>3. ValuesOK'
    BY <1>0, <1>3 DEF TestReplaced, ValuesOK
  <2>4. ObjectsOK'
    BY <1>0, <1>3 DEF TestReplaced, ObjectsOK, Accepted, PlacesOK
  <2>5. QED
    BY <2>1, <2>2, <2>3, <2>4 DEF TypeOK
<1>4. CASE openVpnStopped(n)
  <2>1. call' \in [Thread -> CallPC]
    BY <1>0, <1>4, Threads, GoesPlace DEF openVpnStopped, CallPC
  <2>2. FlagsOK'
    BY <1>0, <1>4, <2>1, Zenon DEF openVpnStopped, FlagsOK
  <2>3. PlacesOK'
    BY <1>0, <1>4, <2>1 DEF openVpnStopped, PlacesOK, ProcPC
  <2>4. ValuesOK'
    BY <1>0, <1>4, <2>1 DEF openVpnStopped, ValuesOK
  <2>5. ObjectsOK'
    BY <1>0, <1>4 DEF openVpnStopped, ObjectsOK, Accepted, PlacesOK
  <2>6. QED
    BY <2>2, <2>3, <2>4, <2>5 DEF TypeOK
<1>5. QED
  BY <1>1, <1>2, <1>3, <1>4 DEF Proc, AfterExit

LEMMA InitType == Init => TypeOK
<1> SUFFICES ASSUME Init PROVE TypeOK
  OBVIOUS
<1>1. FlagsOK
  BY Zenon DEF Init, FlagsOK
<1>2. PlacesOK
  BY DEF Init, PlacesOK, CallPC, StarterPC, MgmtPC, ProcPC
<1>3. ValuesOK
  BY NullType, BoundsAssumption DEF BoundsAssumption, Init, ValuesOK, Report
<1>4. ObjectsOK
  BY DEF Init, ObjectsOK, Accepted
<1>5. QED
  BY <1>1, <1>2, <1>3, <1>4 DEF TypeOK

LEMMA StutterType == TypeOK /\ UNCHANGED vars => TypeOK'
<1> SUFFICES ASSUME TypeOK, UNCHANGED vars PROVE TypeOK'
  OBVIOUS
<1> USE DEF vars, lifeVars, startVars, threadVars, receiverVars, stateVars, mgmtVars, procVars
<1>1. FlagsOK'
  BY Zenon DEF TypeOK, FlagsOK
<1>2. PlacesOK' /\ ValuesOK'
  BY DEF TypeOK, PlacesOK, ValuesOK
<1>3. ObjectsOK'
  BY ObjectsFrame DEF TypeOK, objects
<1>4. QED
  BY <1>1, <1>2, <1>3 DEF TypeOK

\* For any number of sessions, with their start threads running at once: every
\* thread is at one of its places, the callbacks are told VPNStates only, an
\* accepted socket has its process, a running thread its OpenVPNThread, and no
\* start thread hands a null mManagement to its DeviceStateReceiver.
THEOREM TypeCorrect == Spec => []TypeOK
<1>1. TypeOK /\ [Next]_vars => TypeOK'
  <2> SUFFICES ASSUME TypeOK, [Next]_vars PROVE TypeOK'
    OBVIOUS
  <2>1. CASE User \/ onStartCommand \/ TimerFire
    BY <2>1, UserType
  <2>2. CASE \E t \in Thread : Call(t)
    BY <2>2, CallType
  <2>3. CASE \E n \in Session : Starter(n) \/ Mgmt(n) \/ Proc(n)
    BY <2>3, StarterType, MgmtType, ProcType
  <2>4. CASE UNCHANGED vars
    BY <2>4, StutterType
  <2> QED
    BY <2>1, <2>2, <2>3, <2>4, Zenon DEF Next
<1> QED
  BY InitType, <1>1, PTL DEF Spec
=============================================================================
