--------------------------- MODULE OpenVpnSession ---------------------------
(***************************************************************************)
(* Starting, replacing and stopping OpenVPN sessions in one OpenVPNImpl    *)
(* (OpenVPNImpl.java, core/OpenVpnManagementThread.java,                   *)
(* core/OpenVPNThread.java, core/VpnStatus.java).                          *)
(*                                                                         *)
(*   main        service callbacks: onStartCommand, disconnect, the        *)
(*               connectivity broadcasts, onDestroy                        *)
(*   starter n   the thread of the n-th onStartCommand, in startOpenVPN;   *)
(*               several may run at once                                   *)
(*   proc n      the OpenVPNProcessThread that starter n creates, and the  *)
(*               openvpn process it runs                                   *)
(*   mgmt n      its OpenVpnManagementThread, reading a process' events    *)
(*   timer       the connect_timeout thread, running mConnectTimeoutRun    *)
(*                                                                         *)
(* A session is the number of its onStartCommand. Any thread may be inside *)
(* disconnect() or endVpnService(): call says where. mProcessLock is held  *)
(* in endVpnService's block only ("clear"); the monitor of VpnStatus by a  *)
(* management thread whose HOLD line led to disconnect().                  *)
(***************************************************************************)
EXTENDS Integers, Sequences

CONSTANTS MaxStarts,     \* bound: onStartCommand calls per behaviour
          MaxStops       \* bound: disconnects and lost networks per behaviour

ASSUME BoundsAssumption == MaxStarts \in Nat \ {0} /\ MaxStops \in Nat

Null == 0
Session == 1..MaxStarts
Report == {"null", "CONNECTING", "CONNECTED", "DISCONNECTED", "CONNECT_FAIL"}

Main == <<"main", 0>>
Timer == <<"timer", 0>>
StarterThread(n) == <<"starter", n>>
MgmtThread(n) == <<"mgmt", n>>
ProcThread(n) == <<"proc", n>>
Thread == {Main, Timer} \cup ({"starter", "mgmt", "proc"} \X Session)

VARIABLES
  starts, stops,    \* requests so far
  destroyed,        \* onDestroy has run
  call,             \* where thread t is in stateTransform(LEVEL_NONETWORK),
                    \* disconnect() or endVpnService(); see CallPC
  pending,          \* mConnectTimeoutRun is posted
  starter,          \* where starter n is in startOpenVPN; "ready" at its end
  mStarting,
  mManagement, mOpenVPNThread, mProcessThread,
  mDeviceStateReceiver,   \* null, or the management thread it controls
  mPauseCallback,   \* the management threads that have a DeviceStateReceiver
  isStopService, isStarting,
  connected,        \* mCurrentConnectionStatus == LEVEL_CONNECTED
  listener,         \* this object is registered with VpnStatus
  active,           \* OpenVpnManagementThread.active
  mgmt,             \* where management thread n is: "accept", "open", then held
                    \* ("waiting") or past the hold ("released"), "ended"
  peer,             \* the process connected to the socket of management thread n
  closed,           \* stopOpenVPN has closed mSocket, the loop has not noticed
  mShuttingDown,
  proc,             \* where OpenVPNProcessThread n is in run(): see ProcPC
  runnable,         \* the OpenVPNThread that it runs
  mNoProcessExitStatus,   \* of OpenVPNThread n
  asked,            \* running process n got SIGINT, or its thread was interrupted
  report            \* the last state given to the callbacks

lifeVars == <<starts, stops, destroyed>>
startVars == <<starter, mStarting>>
threadVars == <<mOpenVPNThread, mProcessThread>>
receiverVars == <<mDeviceStateReceiver, mPauseCallback>>
stateVars == <<isStarting, connected, pending, report>>
mgmtVars == <<active, mgmt, peer, closed, mShuttingDown>>
procVars == <<proc, runnable, mNoProcessExitStatus, asked>>
vars == <<lifeVars, call, startVars, mManagement, threadVars, receiverVars,
          isStopService, stateVars, listener, mgmtVars, procVars>>

CallPC == {"idle",
           "start",        \* main, in onStartCommand: the listener is registered
           "abort",        \* LEVEL_NONETWORK has tested isStarting
           "flag",         \* about to set isStopService
           "stop",         \* about to call stopVPN
           "end",          \* endVpnService(true), before its block
           "clear",        \* in its block, DISCONNECTED reported
           "unhook",       \* past its block
           "unhookKeep",   \* past the block of endVpnService(false)
           "late",         \* endVpnService(false), before its last report
           "dead"}
StarterPC == {"off", "write", "force", "forced", "open", "spawn", "thread", "arm",
              "receiver", "network", "ready", "done"}
MgmtPC == {"none", "accept", "open", "waiting", "released", "ended"}
ProcPC == {"none", "running",
           "exited",       \* about to test mNoProcessExitStatus
           "stopped",      \* in openVpnStopped, about to read isStopService
           "done"}

Goes(t, from, to) == call[t] = from /\ call' = [call EXCEPT ![t] = to]

\* mProcessLock is free.
LockFree == \A t \in Thread : call[t] # "clear"

\* Thread t can enter a synchronized method of VpnStatus.
MonitorFree(t) == \A n \in Session : MgmtThread(n) # t => call[MgmtThread(n)] \in {"idle", "dead"}

(***************************************************************************)
(* stateTransform, but for LEVEL_NONETWORK.                                *)
(***************************************************************************)
\* What the callbacks are told. FAIL: LEVEL_AUTH_FAILED and
\* LEVEL_CONNECTING_NO_SERVER_REPLY_YET. LEVEL_START, LEVEL_WAITING_FOR_USER_INPUT
\* and LEVEL_CONNECTING_SERVER_REPLIED are START and REPLIED.
LevelAsIs(level) == level       \* mutant
VPNStateOf(level) ==
  CASE level = "CONNECTED" -> "CONNECTED"
    [] level = "NOTCONNECTED" -> "DISCONNECTED"
    [] level = "FAIL" -> "CONNECT_FAIL"
    [] OTHER -> "CONNECTING"

\* A level that stateTransform passes over.
Ignored(level) ==
  \/ level = "NOTCONNECTED" /\ ~(isStarting \/ isStopService)
  \/ level = "FAIL" /\ connected

stateTransform(level) ==
  /\ pending' = IF level \in {"CONNECTED", "NOTCONNECTED"} THEN FALSE ELSE pending
  /\ IF Ignored(level)
       THEN UNCHANGED <<isStarting, connected, report>>
       ELSE /\ isStarting' = (level # "NOTCONNECTED")
            /\ connected' = IF level = "NOTCONNECTED" THEN connected
                                                      ELSE level = "CONNECTED"
            /\ report' = VPNStateOf(level)

(***************************************************************************)
(* OpenVpnManagementThread.stopVPN                                         *)
(***************************************************************************)
\* The management thread's loop is running on its mSocket.
Accepted(m) == mgmt[m] \in {"open", "waiting", "released"}

\* A command to management thread m reaches a process.
managmentCommand(m) == Accepted(m) /\ ~closed[m] /\ proc[peer[m]] = "running"

\* stopOpenVPN returns what the last thread of active answers.
stopOpenVPN == active # <<>> /\ managmentCommand(active[Len(active)])

\* stopVPN on mManagement, if any: SIGINT to every active thread, every accepted
\* socket closed, mShuttingDown set on mManagement if the last command was sent.
stopVPN ==
  LET members == IF mManagement = Null THEN {} ELSE {active[i] : i \in 1..Len(active)} IN
    /\ asked' = [p \in Session |->
                   asked[p] \/ \E m \in members : managmentCommand(m) /\ peer[m] = p]
    /\ closed' = [m \in Session |-> closed[m] \/ (m \in members /\ Accepted(m))]
    /\ mShuttingDown' = [m \in Session |->
                           mShuttingDown[m] \/ (m = mManagement /\ stopOpenVPN)]

(***************************************************************************)
(* disconnect() and endVpnService() on thread t                            *)
(***************************************************************************)
\* LEVEL_NONETWORK goes on only for an attempt that is not connected.
NoNetworkAborts == isStarting /\ ~connected

\* Having found an attempt to abort, it reports CONNECTING and calls disconnect().
ReportAbort(t) ==
  /\ Goes(t, "abort", "flag")
  /\ report' = "CONNECTING"
  /\ UNCHANGED <<lifeVars, startVars, mManagement, threadVars, receiverVars,
                 isStopService, isStarting, connected, pending, listener, mgmtVars,
                 procVars>>

SetFlag(t) ==
  /\ Goes(t, "flag", "stop")
  /\ isStopService' = TRUE
  /\ UNCHANGED <<lifeVars, startVars, mManagement, threadVars, receiverVars,
                 stateVars, listener, mgmtVars, procVars>>

\* onRevoke (which first logs to VpnStatus): endVpnService(true) follows when
\* stopVPN answers false or there is no management thread.
TrustsManagement == mManagement = Null       \* mutant
RevokeEnds == mManagement = Null \/ ~stopOpenVPN
onRevoke(t) ==
  /\ Goes(t, "stop", IF RevokeEnds THEN "end" ELSE "idle")
  /\ MonitorFree(t)
  /\ stopVPN
  /\ UNCHANGED <<lifeVars, startVars, mManagement, threadVars, receiverVars,
                 isStopService, stateVars, listener, active, mgmt, peer, proc,
                 runnable, mNoProcessExitStatus>>

\* endVpnService(true) takes mProcessLock and reports.
endVpnService(t) ==
  /\ Goes(t, "end", "clear")
  /\ LockFree
  /\ stateTransform("NOTCONNECTED")
  /\ UNCHANGED <<lifeVars, startVars, mManagement, threadVars, receiverVars,
                 isStopService, listener, mgmtVars, procVars>>

\* The rest of its block.
ClearFields(t) ==
  /\ Goes(t, "clear", "unhook")
  /\ IF mStarting
       THEN UNCHANGED <<isStopService, threadVars>>
       ELSE /\ isStopService' = FALSE
            /\ mProcessThread' = Null
            /\ mOpenVPNThread' = IF mProcessThread = Null THEN mOpenVPNThread ELSE Null
  /\ UNCHANGED <<lifeVars, startVars, mManagement, receiverVars, stateVars, listener,
                 mgmtVars, procVars>>

\* The receiver and the listener are removed.
Unhook(t) ==
  /\ Goes(t, "unhook", "idle") \/ Goes(t, "unhookKeep", "late")
  /\ MonitorFree(t)
  /\ mDeviceStateReceiver' = Null
  /\ listener' = FALSE
  /\ UNCHANGED <<lifeVars, startVars, mManagement, threadVars, mPauseCallback,
                 isStopService, stateVars, mgmtVars, procVars>>

\* endVpnService(false) reports at its end.
ReportLate(t) ==
  /\ Goes(t, "late", "idle")
  /\ stateTransform("NOTCONNECTED")
  /\ UNCHANGED <<lifeVars, startVars, mManagement, threadVars, receiverVars,
                 isStopService, listener, mgmtVars, procVars>>

(***************************************************************************)
(* Main thread                                                             *)
(***************************************************************************)
MainIdle == call[Main] = "idle" /\ ~destroyed

\* onStartCommand registers the listener; a new one is told the last level of
\* VpnStatus, which outlives this object and is any level but LEVEL_NONETWORK here.
\* (Nothing in the repository sends the START_SERVICE intent, which would return.)
addStateListener ==
  /\ MainIdle /\ starts < MaxStarts /\ MonitorFree(Main)
  /\ Goes(Main, "idle", "start")
  /\ starts' = starts + 1
  /\ listener' = TRUE
  /\ \/ UNCHANGED stateVars
     \/ ~listener /\ \E level \in {"START", "FAIL", "REPLIED", "CONNECTED"} : stateTransform(level)
  /\ UNCHANGED <<stops, destroyed, startVars, mManagement, threadVars, receiverVars,
                 isStopService, mgmtVars, procVars>>

\* LEVEL_START, which endVpnService on another thread may keep from this object,
\* and the thread of startOpenVPN, whatever earlier ones are doing; a request
\* without a profile ends after LEVEL_START.
onStartCommand ==
  /\ Goes(Main, "start", "idle") /\ MonitorFree(Main)
  /\ IF listener THEN stateTransform("START") ELSE UNCHANGED stateVars
  /\ \E next \in {"write", "done"} : starter' = [starter EXCEPT ![starts] = next]
  /\ UNCHANGED <<lifeVars, mStarting, mManagement, threadVars, receiverVars,
                 isStopService, listener, mgmtVars, procVars>>

\* disconnect() of the user.
disconnect ==
  /\ MainIdle /\ stops < MaxStops
  /\ stops' = stops + 1
  /\ call' = [call EXCEPT ![Main] = "flag"]
  /\ UNCHANGED <<starts, destroyed, startVars, mManagement, threadVars, receiverVars,
                 isStopService, stateVars, listener, mgmtVars, procVars>>

\* LEVEL_NONETWORK from the connectivity broadcast.
networkChange ==
  /\ MainIdle /\ stops < MaxStops /\ NoNetworkAborts
  /\ stops' = stops + 1
  /\ call' = [call EXCEPT ![Main] = "abort"]
  /\ UNCHANGED <<starts, destroyed, startVars, mManagement, threadVars, receiverVars,
                 isStopService, stateVars, listener, mgmtVars, procVars>>

\* onDestroy: stop, no more timeouts, no receiver, no listener.
onDestroy ==
  /\ MainIdle /\ LockFree /\ MonitorFree(Main)
  /\ stopVPN
  /\ pending' = FALSE
  /\ mDeviceStateReceiver' = Null /\ listener' = FALSE
  /\ destroyed' = TRUE
  /\ UNCHANGED <<starts, stops, call, startVars, mManagement, threadVars,
                 mPauseCallback, isStopService, isStarting, connected, report, active,
                 mgmt, peer, proc, runnable, mNoProcessExitStatus>>

(***************************************************************************)
(* Starter thread n: startOpenVPN                                          *)
(***************************************************************************)
Goto(n, from, to) == starter[n] = from /\ starter' = [starter EXCEPT ![n] = to]

\* writeConfigFile fails: endVpnService(true).
WriteFails(n) ==
  /\ Goto(n, "write", "done")
  /\ Goes(StarterThread(n), "idle", "end")
  /\ UNCHANGED <<lifeVars, mStarting, mManagement, threadVars, receiverVars,
                 isStopService, stateVars, listener, mgmtVars, procVars>>

\* The old OpenVPNThread is told to exit silently.
setReplaceConnection ==
  mNoProcessExitStatus' = [n \in Session |->
    mNoProcessExitStatus[n] \/ (mManagement # Null /\ n = mOpenVPNThread)]

\* The file is written, mStarting = true, and stopOldOpenVPNProcess runs up to
\* forceStopOpenVpnProcess.
stopOldOpenVPNProcess(n) ==
  /\ Goto(n, "write", "force")
  /\ mStarting' = TRUE
  /\ setReplaceConnection
  /\ stopVPN
  /\ UNCHANGED <<lifeVars, call, mManagement, threadVars, receiverVars, isStopService,
                 stateVars, listener, active, mgmt, peer, proc, runnable>>

\* The block of forceStopOpenVpnProcess, which keeps mProcessLock through its sleep. An
\* interrupted OpenVPNProcessThread destroys its process at the next line it reads.
interrupt(n) ==
  /\ Goto(n, "force", "forced")
  /\ LockFree
  /\ asked' = [m \in Session |-> asked[m] \/ (m = mProcessThread /\ proc[m] = "running")]
  /\ UNCHANGED <<lifeVars, call, mStarting, mManagement, threadVars, receiverVars,
                 isStopService, stateVars, listener, mgmtVars, proc, runnable,
                 mNoProcessExitStatus>>

\* It returns; mStarting = false.
forceStopOpenVpnProcess(n) ==
  /\ Goto(n, "forced", "open")
  /\ mStarting' = FALSE
  /\ UNCHANGED <<lifeVars, call, mManagement, threadVars, receiverVars, isStopService,
                 stateVars, listener, mgmtVars, procVars>>

\* openManagementInterface binds the one socket path; the thread enters active and
\* waits in accept(). If the socket cannot be opened: endVpnService(true).
openManagementInterface(n) ==
  /\ \/ /\ Goto(n, "open", "spawn")
        /\ mgmt' = [mgmt EXCEPT ![n] = "accept"]
        /\ active' = Append(active, n)
        /\ mManagement' = n
        /\ UNCHANGED call
     \/ /\ Goto(n, "open", "done")
        /\ Goes(StarterThread(n), "idle", "end")
        /\ UNCHANGED <<mgmt, active, mManagement>>
  /\ UNCHANGED <<lifeVars, mStarting, threadVars, receiverVars, isStopService,
                 stateVars, listener, peer, closed, mShuttingDown, procVars>>

\* mOpenVPNThread is assigned outside mProcessLock ...
NewOpenVPNThread(n) ==
  /\ Goto(n, "spawn", "thread")
  /\ mOpenVPNThread' = n
  /\ UNCHANGED <<lifeVars, call, mStarting, mManagement, mProcessThread, receiverVars,
                 isStopService, stateVars, listener, mgmtVars, procVars>>

\* ... and read again inside it: the new thread runs what the field holds by then,
\* and nothing if that is null.
StartProcess(n) ==
  /\ Goto(n, "thread", "arm")
  /\ LockFree
  /\ mProcessThread' = n
  /\ runnable' = [runnable EXCEPT ![n] = mOpenVPNThread]
  /\ proc' = [proc EXCEPT ![n] = IF mOpenVPNThread = Null THEN "done" ELSE "running"]
  /\ UNCHANGED <<lifeVars, call, mStarting, mManagement, mOpenVPNThread, receiverVars,
                 isStopService, stateVars, listener, mgmtVars, mNoProcessExitStatus, asked>>

\* The connect timeout is posted; a destroyed service's looper takes no message.
ArmTimeout(n) ==
  /\ Goto(n, "arm", "receiver")
  /\ pending' = ~destroyed
  /\ UNCHANGED <<lifeVars, call, mStarting, mManagement, threadVars, receiverVars,
                 isStopService, isStarting, connected, report, listener, mgmtVars,
                 procVars>>

\* new DeviceStateReceiver(mManagement) installs itself as the pause callback.
registerDeviceStateReceiver(n) ==
  /\ Goto(n, "receiver", "network")
  /\ mDeviceStateReceiver' = mManagement
  /\ mPauseCallback' = mPauseCallback \cup {mManagement}
  /\ UNCHANGED <<lifeVars, call, mStarting, mManagement, threadVars, isStopService,
                 stateVars, listener, mgmtVars, procVars>>

\* The hold of management thread m is released: networkChange or resume.
releaseHold(m) == mgmt[m] = "waiting" /\ mgmt' = [mgmt EXCEPT ![m] = "released"]

\* mDeviceStateReceiver.networkStateChange: the network is up or not.
networkStateChange(n) ==
  /\ Goto(n, "network", "ready")
  /\ mDeviceStateReceiver # Null
  /\ releaseHold(mDeviceStateReceiver) \/ UNCHANGED mgmt
  /\ UNCHANGED <<lifeVars, call, mStarting, mManagement, threadVars, receiverVars,
                 isStopService, stateVars, listener, active, peer, closed,
                 mShuttingDown, procVars>>

\* ... but endVpnService may have set the field to null meanwhile: the exception
\* ends the app with all its threads.
NullReceiver(n) ==
  /\ starter[n] = "network" /\ mDeviceStateReceiver = Null
  /\ call' = [t \in Thread |-> "dead"] /\ pending' = FALSE
  /\ starter' = [m \in Session |-> "done"]
  /\ mgmt' = [m \in Session |-> "ended"]
  /\ proc' = [m \in Session |-> "done"]
  /\ UNCHANGED <<lifeVars, mStarting, mManagement, threadVars, receiverVars,
                 isStopService, isStarting, connected, report, listener, active, peer,
                 closed, mShuttingDown, runnable, mNoProcessExitStatus, asked>>

(***************************************************************************)
(* Management thread n. Input read before the socket was closed is still   *)
(* processed.                                                              *)
(***************************************************************************)
\* Process p connects to the socket path, that is to the thread that bound it last.
Connect(p) ==
  /\ proc[p] = "running" /\ \A m \in Session : peer[m] # p
  /\ mManagement # Null /\ mgmt[mManagement] = "accept" /\ peer[mManagement] = Null
  /\ peer' = [peer EXCEPT ![mManagement] = p]
  /\ UNCHANGED <<lifeVars, call, startVars, mManagement, threadVars, receiverVars,
                 isStopService, stateVars, listener, active, mgmt, closed,
                 mShuttingDown, procVars>>

\* accept() returns.
MgmtAccept(n) ==
  /\ mgmt[n] = "accept" /\ peer[n] # Null
  /\ mgmt' = [mgmt EXCEPT ![n] = "open"]
  /\ UNCHANGED <<lifeVars, call, startVars, mManagement, threadVars, receiverVars,
                 isStopService, stateVars, listener, active, peer, closed,
                 mShuttingDown, procVars>>

MgmtIdle(n) == call[MgmtThread(n)] = "idle"

\* handleHold with the device up: the hold is released.
HoldReleased(n) ==
  /\ mgmt[n] = "open" /\ n \in mPauseCallback
  /\ mgmt' = [mgmt EXCEPT ![n] = "released"]
  /\ UNCHANGED <<lifeVars, call, startVars, mManagement, threadVars, receiverVars,
                 isStopService, stateVars, listener, active, peer, closed,
                 mShuttingDown, procVars>>

\* handleHold without a callback, or with one that says the device is down:
\* updateStatePause(noNetwork) enters VpnStatus, and LEVEL_NONETWORK may abort the
\* attempt from inside.
HoldPaused(n) ==
  /\ mgmt[n] = "open" /\ MonitorFree(MgmtThread(n))
  /\ mgmt' = [mgmt EXCEPT ![n] = "waiting"]
  /\ call' = [call EXCEPT ![MgmtThread(n)] =
                IF listener /\ NoNetworkAborts THEN "abort" ELSE "idle"]
  /\ UNCHANGED <<lifeVars, startVars, mManagement, threadVars, receiverVars,
                 isStopService, stateVars, listener, active, peer, closed,
                 mShuttingDown, procVars>>

\* DeviceStateReceiver.onReceive on the main thread: the network is up.
onReceive ==
  /\ call[Main] = "idle" /\ mDeviceStateReceiver # Null
  /\ releaseHold(mDeviceStateReceiver)
  /\ UNCHANGED <<lifeVars, call, startVars, mManagement, threadVars, receiverVars,
                 isStopService, stateVars, listener, active, peer, closed,
                 mShuttingDown, procVars>>

\* processCommand: STATE events are dropped once mShuttingDown is set, a failed
\* authentication (PASSWORD) is not.
AcceptsState(n) == ~mShuttingDown[n]
processCommand(n) ==
  /\ mgmt[n] = "released" /\ MgmtIdle(n) /\ MonitorFree(MgmtThread(n)) /\ listener
  /\ \E level \in {"FAIL", "REPLIED", "CONNECTED"} :
       (level = "FAIL" \/ AcceptsState(n)) /\ stateTransform(level)
  /\ UNCHANGED <<lifeVars, call, startVars, mManagement, threadVars, receiverVars,
                 isStopService, listener, mgmtVars, procVars>>

\* The socket is closed at either end. read() returns -1 and run() leaves without
\* removing the thread from active, or it throws and the thread is removed.
MgmtEof(n) ==
  /\ Accepted(n) /\ MgmtIdle(n)
  /\ closed[n] \/ proc[peer[n]] # "running"
  /\ mgmt' = [mgmt EXCEPT ![n] = "ended"]
  /\ \/ UNCHANGED active
     \/ \E i \in 1..Len(active) :
          /\ active[i] = n
          /\ active' = SubSeq(active, 1, i - 1) \o SubSeq(active, i + 1, Len(active))
  /\ closed' = [closed EXCEPT ![n] = FALSE]
  /\ mShuttingDown' = [mShuttingDown EXCEPT ![n] = FALSE]
  /\ UNCHANGED <<lifeVars, call, startVars, mManagement, threadVars, receiverVars,
                 isStopService, stateVars, listener, peer, procVars>>

(***************************************************************************)
(* OpenVPNProcessThread n, in OpenVPNThread.run                            *)
(***************************************************************************)
\* The process exits, because it was asked to or for a reason of its own.
ProcExit(n) ==
  /\ proc[n] = "running"
  /\ proc' = [proc EXCEPT ![n] = "exited"]
  /\ asked' = [asked EXCEPT ![n] = FALSE]
  /\ UNCHANGED <<lifeVars, call, startVars, mManagement, threadVars, receiverVars,
                 isStopService, stateVars, listener, mgmtVars, runnable,
                 mNoProcessExitStatus>>

\* A session that was replaced ends silently.
TestReplaced(n) ==
  /\ proc[n] = "exited"
  /\ proc' = [proc EXCEPT ![n] =
                IF mNoProcessExitStatus[runnable[n]] THEN "done" ELSE "stopped"]
  /\ UNCHANGED <<lifeVars, call, startVars, mManagement, threadVars, receiverVars,
                 isStopService, stateVars, listener, mgmtVars, runnable,
                 mNoProcessExitStatus, asked>>

\* The others call endVpnService(isStopService); without the flag its block is empty.
openVpnStopped(n) ==
  /\ proc[n] = "stopped"
  /\ proc' = [proc EXCEPT ![n] = "done"]
  /\ Goes(ProcThread(n), "idle", IF isStopService THEN "end" ELSE "unhookKeep")
  /\ UNCHANGED <<lifeVars, startVars, mManagement, threadVars, receiverVars,
                 isStopService, stateVars, listener, mgmtVars, runnable,
                 mNoProcessExitStatus, asked>>

(***************************************************************************)
(* Connect timeout: mConnectTimeoutRun, disconnect() unless connected.     *)
(***************************************************************************)
NeverTimedOut == FALSE       \* mutant
TimedOut == ~connected

TimerFire ==
  /\ Goes(Timer, "idle", IF TimedOut THEN "flag" ELSE "idle")
  /\ pending
  /\ pending' = FALSE
  /\ UNCHANGED <<lifeVars, startVars, mManagement, threadVars, receiverVars,
                 isStopService, isStarting, connected, report, listener, mgmtVars,
                 procVars>>

-----------------------------------------------------------------------------
Init ==
  /\ starts = 0 /\ stops = 0 /\ destroyed = FALSE
  /\ call = [t \in Thread |-> "idle"] /\ pending = FALSE
  /\ starter = [n \in Session |-> "off"] /\ mStarting = FALSE
  /\ mManagement = Null /\ mOpenVPNThread = Null /\ mProcessThread = Null
  /\ mDeviceStateReceiver = Null /\ mPauseCallback = {}
  /\ isStopService = FALSE /\ isStarting = FALSE /\ connected = FALSE
  /\ listener = FALSE /\ report = "null"
  /\ active = <<>> /\ mgmt = [n \in Session |-> "none"]
  /\ peer = [n \in Session |-> Null]
  /\ closed = [n \in Session |-> FALSE] /\ mShuttingDown = [n \in Session |-> FALSE]
  /\ proc = [n \in Session |-> "none"] /\ runnable = [n \in Session |-> Null]
  /\ mNoProcessExitStatus = [n \in Session |-> FALSE]
  /\ asked = [n \in Session |-> FALSE]

User == addStateListener \/ disconnect \/ networkChange \/ onDestroy \/ onReceive
Call(t) ==
  \/ ReportAbort(t) \/ SetFlag(t) \/ onRevoke(t) \/ endVpnService(t) \/ ClearFields(t)
  \/ Unhook(t) \/ ReportLate(t)
Starter(n) ==
  \/ WriteFails(n) \/ stopOldOpenVPNProcess(n) \/ interrupt(n)
  \/ forceStopOpenVpnProcess(n) \/ openManagementInterface(n) \/ NewOpenVPNThread(n)
  \/ StartProcess(n) \/ ArmTimeout(n) \/ registerDeviceStateReceiver(n)
  \/ networkStateChange(n) \/ NullReceiver(n)
Mgmt(n) ==
  \/ MgmtAccept(n) \/ HoldReleased(n) \/ HoldPaused(n) \/ processCommand(n) \/ MgmtEof(n)
AfterExit(n) == TestReplaced(n) \/ openVpnStopped(n)
Proc(n) == Connect(n) \/ ProcExit(n) \/ AfterExit(n)

Next == \/ User \/ onStartCommand \/ TimerFire
        \/ \E t \in Thread : Call(t)
        \/ \E n \in Session : Starter(n) \/ Mgmt(n) \/ Proc(n)

Spec == Init /\ [][Next]_vars

\* The app's threads are scheduled, and a process that was asked to exit does.
\* Nothing is assumed of the user, of the network or of the server.
Fairness ==
  /\ WF_vars(onStartCommand) /\ WF_vars(TimerFire)
  /\ \A t \in Thread : WF_vars(Call(t))
  /\ \A n \in Session :
       /\ WF_vars(Starter(n))
       /\ WF_vars(asked[n] /\ ProcExit(n))
       /\ WF_vars(AfterExit(n))

FairSpec == Spec /\ Fairness
-----------------------------------------------------------------------------
(***************************************************************************)
(* Properties                                                              *)
(***************************************************************************)
FlagsOK ==
  /\ destroyed \in BOOLEAN /\ pending \in BOOLEAN /\ isStopService \in BOOLEAN
  /\ isStarting \in BOOLEAN /\ connected \in BOOLEAN /\ listener \in BOOLEAN
  /\ mStarting \in BOOLEAN
  /\ closed \in [Session -> BOOLEAN] /\ mShuttingDown \in [Session -> BOOLEAN]
  /\ mNoProcessExitStatus \in [Session -> BOOLEAN] /\ asked \in [Session -> BOOLEAN]

PlacesOK ==
  /\ call \in [Thread -> CallPC] /\ starter \in [Session -> StarterPC]
  /\ mgmt \in [Session -> MgmtPC] /\ proc \in [Session -> ProcPC]

ValuesOK ==
  /\ starts \in 0..MaxStarts /\ stops \in 0..MaxStops
  /\ mManagement \in 0..MaxStarts /\ mOpenVPNThread \in 0..MaxStarts
  /\ mProcessThread \in 0..MaxStarts /\ mDeviceStateReceiver \in 0..MaxStarts
  /\ mPauseCallback \in SUBSET Session
  /\ active \in Seq(Session)
  /\ peer \in [Session -> 0..MaxStarts] /\ runnable \in [Session -> 0..MaxStarts]
  /\ report \in Report

\* A thread that needs another object has it: an accepted socket has its process,
\* a running thread its OpenVPNThread, a start thread past openManagementInterface
\* its mManagement.
ObjectsOK ==
  /\ \A n \in Session : Accepted(n) => peer[n] \in Session
  /\ \A n \in Session : proc[n] \in {"running", "exited", "stopped"} => runnable[n] \in Session
  /\ \A n \in Session : starter[n] \in {"spawn", "thread", "arm", "receiver"} => mManagement # Null

\* Type invariant: the callbacks are told VPNStates only, and no thread uses an
\* object that is not there.
TypeOK == FlagsOK /\ PlacesOK /\ ValuesOK /\ ObjectsOK

\* Process n runs and nobody has asked it to exit.
Unasked(n) == proc[n] = "running" /\ ~asked[n]

\* startOpenVPN goes on past stopOldOpenVPNProcess with "An old running VPN should
\* now be exited": no process of an earlier session runs without at least having
\* been asked to exit.
OldIsExited ==
  [][\A n \in Session : starter[n] = "forced" /\ starter'[n] = "open" =>
       \A m \in 1..(n - 1) : ~Unasked(m)]_vars

Gone == destroyed \/ call[Main] = "dead"

\* Every start is resolved although the server may never answer: the callbacks see
\* CONNECTED or DISCONNECTED, unless another start follows or the service is gone.
StartResolves ==
  \A n \in Session :
    starter[n] = "write" ~> (report \in {"CONNECTED", "DISCONNECTED"} \/ starts > n \/ Gone)

\* Every stop, by the user, the timeout or a lost network, ends the attempt: the
\* answer of stopVPN, the exit of the process and endVpnService leave no gap in
\* which isStarting stays set for good, unless a new onStartCommand comes first or
\* the service is gone.
StopEnds ==
  (\E t \in Thread : call[t] = "flag") ~> (~isStarting \/ call[Main] = "start" \/ Gone)
=============================================================================
