---------------------------- MODULE OpenVpnHold ----------------------------
(***************************************************************************)
(* Holding and releasing one OpenVPN process as the device's network,      *)
(* screen and user ask for it: DeviceStateReceiver.java, the hold commands *)
(* of OpenVpnManagementThread.java, and the process' side of them          *)
(* (manage.c). The session is up and has its DeviceStateReceiver.          *)
(*                                                                         *)
(*   main     broadcasts, userPause and mDelayDisconnectRunnable; a        *)
(*            handler first writes the receiver's fields, then calls the   *)
(*            management thread object                                     *)
(*   mgmt     the management thread: handleHold and the byte count         *)
(*   resumer  mResumeHandlerThread, running mResumeHoldRunnable            *)
(*   process  openvpn, at the other end of two streams                     *)
(***************************************************************************)
EXTENDS Integers, Sequences

CONSTANTS Networks,      \* networks told apart by type and extra info
          MaxEvents,     \* bound: broadcasts and user requests per behaviour
          MaxRestarts    \* bound: restarts of the process that nobody asked for

ASSUME BoundsAssumption ==
  MaxEvents \in Nat /\ MaxRestarts \in Nat /\ Networks \subseteq Nat \ {0}

NoNetwork == 0
ConnectState == {"SHOULDBECONNECTED", "PENDINGDISCONNECT", "DISCONNECTED"}
PauseReason == {"noNetwork", "userPause", "screenOff"}
Command == {"release", "usr1", "network-change"}

VARIABLES
  network, screen, userpause,
  lastConnectedNetwork,
  delayed,             \* mDelayDisconnectRunnable is posted
  main,                \* "idle", a call to make, or "release" (in releaseHoldCmd)
  mgmt,                \* "idle", "check" (handleHold, before its condition), "low"
                       \* (updateByteCount, past its first condition), "pause"
  resumer,             \* "idle" or "release"
  resumePosted,        \* mResumeHoldRunnable is posted
  mWaitingForRelease, lastPauseReason,
  cmds,                \* commands written and not yet read by the process
  holds,               \* ">HOLD" lines not yet read by the management thread
  process,             \* "held" or "running"
  events, restarts,    \* counters of the two bounds
  screenOn             \* history: what the last screen broadcast said

deviceVars == <<network, screen, userpause, lastConnectedNetwork, screenOn>>
holdVars == <<mWaitingForRelease, lastPauseReason>>
streamVars == <<cmds, holds, process, restarts>>
vars == <<deviceVars, delayed, main, mgmt, resumer, resumePosted, holdVars,
          streamVars, events>>

Connected(net, scr, usr) == {net, scr, usr} = {"SHOULDBECONNECTED"}
shouldBeConnected == Connected(network, screen, userpause)

getPauseReason ==
  CASE userpause = "DISCONNECTED" -> "userPause"
    [] screen = "DISCONNECTED" /\ userpause # "DISCONNECTED" -> "screenOff"
    [] network = "DISCONNECTED" /\ "DISCONNECTED" \notin {userpause, screen} -> "noNetwork"
    [] OTHER -> "userPause"

(***************************************************************************)
(* Broadcasts and requests on the main thread: the receiver's fields.      *)
(***************************************************************************)
Event == main = "idle" /\ events < MaxEvents /\ events' = events + 1

Dropped(scr) == IF scr = "PENDINGDISCONNECT" THEN "DISCONNECTED" ELSE scr

\* networkStateChange, connected to net.
NetworkUp(net) ==
  LET pendingDisconnect == network = "PENDINGDISCONNECT"
      sameNetwork == lastConnectedNetwork = net
      newScreen == IF pendingDisconnect /\ sameNetwork THEN screen ELSE Dropped(screen)
      connect == Connected("SHOULDBECONNECTED", newScreen, userpause)
  IN
    /\ Event
    /\ network' = "SHOULDBECONNECTED"
    /\ screen' = newScreen
    /\ lastConnectedNetwork' = net
    /\ IF pendingDisconnect /\ sameNetwork
         THEN delayed' = FALSE /\ main' = "sameNetwork"
         ELSE /\ delayed' = (delayed /\ ~connect)
              /\ main' = CASE ~connect -> "idle"
                           [] connect /\ (pendingDisconnect \/ ~sameNetwork) -> "networkChange"
                           [] OTHER -> "resume"
    /\ UNCHANGED <<userpause, screenOn, mgmt, resumer, resumePosted, holdVars, streamVars>>

\* networkStateChange without a network.
NetworkDown ==
  /\ Event
  /\ network' = "PENDINGDISCONNECT"
  /\ delayed' = TRUE
  /\ UNCHANGED <<screen, userpause, lastConnectedNetwork, screenOn, main, mgmt,
                 resumer, resumePosted, holdVars, streamVars>>

\* mDelayDisconnectRunnable, DISCONNECT_WAIT seconds later.
DelayDisconnect ==
  /\ main = "idle" /\ delayed
  /\ delayed' = FALSE
  /\ IF network = "PENDINGDISCONNECT"
       THEN network' = "DISCONNECTED" /\ screen' = Dropped(screen) /\ main' = "pause"
       ELSE UNCHANGED <<network, screen, main>>
  /\ UNCHANGED <<userpause, lastConnectedNetwork, screenOn, mgmt, resumer,
                 resumePosted, holdVars, streamVars, events>>

\* ACTION_SCREEN_OFF, with the preference "screenoff" set.
ScreenOff ==
  /\ Event
  /\ screenOn' = FALSE
  /\ screen' = IF "DISCONNECTED" \in {network, userpause} THEN "DISCONNECTED"
                                                          ELSE "PENDINGDISCONNECT"
  /\ UNCHANGED <<network, userpause, lastConnectedNetwork, delayed, main, mgmt,
                 resumer, resumePosted, holdVars, streamVars>>

\* ACTION_SCREEN_ON
ScreenOn ==
  LET connect == Connected(network, "SHOULDBECONNECTED", userpause) IN
    /\ Event
    /\ screenOn' = TRUE
    /\ screen' = "SHOULDBECONNECTED"
    /\ delayed' = FALSE
    /\ main' = CASE connect # shouldBeConnected -> "resume"
                 [] connect = shouldBeConnected /\ ~connect -> "pause"
                 [] OTHER -> "idle"
    /\ UNCHANGED <<network, userpause, lastConnectedNetwork, mgmt, resumer,
                   resumePosted, holdVars, streamVars>>

PauseLater(pause) == IF pause THEN "PENDINGDISCONNECT" ELSE "SHOULDBECONNECTED"       \* mutant
PauseState(pause) == IF pause THEN "DISCONNECTED" ELSE "SHOULDBECONNECTED"

\* userPause. The model pauses what is not paused and resumes only what was.
userPause(pause) ==
  /\ Event
  /\ pause = (userpause = "SHOULDBECONNECTED")
  /\ userpause' = PauseState(pause)
  /\ main' = IF Connected(network, screen, userpause') THEN "resume" ELSE "pause"
  /\ UNCHANGED <<network, screen, lastConnectedNetwork, screenOn, delayed, mgmt,
                 resumer, resumePosted, holdVars, streamVars>>

(***************************************************************************)
(* Calls to the management thread object.                                  *)
(***************************************************************************)
\* signalusr1: SIGUSR1 is for a process that is not known to be held.
SignalNeeded == ~mWaitingForRelease

ReleasesScheduled == mWaitingForRelease /\ resumePosted       \* mutant
\* releaseHold does nothing unless the process is known to be held.
ReleasesHold == mWaitingForRelease

\* pause: the process is told to restart, unless it is known to be held.
pause ==
  /\ lastPauseReason' = getPauseReason
  /\ resumePosted' = FALSE
  /\ cmds' = IF SignalNeeded THEN Append(cmds, "usr1") ELSE cmds
  /\ UNCHANGED <<mWaitingForRelease, holds, process, restarts>>

MainPause ==
  /\ main = "pause"
  /\ pause
  /\ main' = "idle"
  /\ UNCHANGED <<deviceVars, delayed, mgmt, resumer, events>>

\* resume: releaseHold, then the pause reason is reset.
MainResume ==
  /\ main = "resume"
  /\ IF ReleasesHold
       THEN main' = "resumeRelease" /\ resumePosted' = FALSE /\ UNCHANGED lastPauseReason
       ELSE main' = "idle" /\ lastPauseReason' = "noNetwork" /\ UNCHANGED resumePosted
  /\ UNCHANGED <<deviceVars, delayed, mgmt, resumer, mWaitingForRelease, streamVars,
                 events>>

\* networkChange; "sameNetwork" is networkChange(true).
MainNetworkChange ==
  /\ main \in {"networkChange", "sameNetwork"}
  /\ IF ReleasesHold
       THEN /\ main' = "release" /\ resumePosted' = FALSE
            /\ UNCHANGED cmds
       ELSE /\ main' = "idle"
            /\ cmds' = Append(cmds, "network-change")
            /\ UNCHANGED resumePosted
  /\ UNCHANGED <<deviceVars, delayed, mgmt, resumer, mWaitingForRelease,
                 lastPauseReason, holds, process, restarts, events>>

\* The end of releaseHoldCmd, after its sleep.
releaseHoldCmd ==
  /\ mWaitingForRelease' = FALSE
  /\ cmds' = Append(cmds, "release")
  /\ UNCHANGED <<holds, process, restarts>>

MainRelease ==
  /\ main \in {"release", "resumeRelease"}
  /\ releaseHoldCmd
  /\ lastPauseReason' = IF main = "resumeRelease" THEN "noNetwork" ELSE lastPauseReason
  /\ main' = "idle"
  /\ UNCHANGED <<deviceVars, delayed, mgmt, resumer, resumePosted, events>>

(***************************************************************************)
(* Management thread and resume thread.                                    *)
(***************************************************************************)
\* handleHold tells that it waits, then looks at the receiver.
WaitsWhenPaused ==       \* mutant: the flag is for holds that are not released at once
  /\ mgmt = "idle" /\ holds > 0
  /\ holds' = holds - 1
  /\ mWaitingForRelease' = ~shouldBeConnected
  /\ mgmt' = "check"
  /\ UNCHANGED <<deviceVars, delayed, main, resumer, resumePosted, lastPauseReason,
                 cmds, process, restarts, events>>
handleHold ==
  /\ mgmt = "idle" /\ holds > 0
  /\ holds' = holds - 1
  /\ mWaitingForRelease' = TRUE
  /\ mgmt' = "check"
  /\ UNCHANGED <<deviceVars, delayed, main, resumer, resumePosted, lastPauseReason,
                 cmds, process, restarts, events>>

HoldCheck ==
  /\ mgmt = "check"
  /\ mgmt' = "idle"
  /\ resumePosted' = (resumePosted \/ shouldBeConnected)
  /\ UNCHANGED <<deviceVars, delayed, main, resumer, holdVars, streamVars, events>>

\* updateByteCount with the screen off and little traffic in the window: three
\* steps of this thread, the test, the write, and the call of pause.
LowTraffic ==
  /\ mgmt = "idle" /\ process = "running" /\ screen = "PENDINGDISCONNECT"
  /\ mgmt' = "low"
  /\ UNCHANGED <<deviceVars, delayed, main, resumer, resumePosted, holdVars,
                 streamVars, events>>

LowTrafficWrite ==
  /\ mgmt = "low"
  /\ screen' = "DISCONNECTED"
  /\ mgmt' = "pause"
  /\ UNCHANGED <<network, userpause, lastConnectedNetwork, screenOn, delayed, main,
                 resumer, resumePosted, holdVars, streamVars, events>>

LowTrafficPause ==
  /\ mgmt = "pause"
  /\ pause
  /\ mgmt' = "idle"
  /\ UNCHANGED <<deviceVars, delayed, main, resumer, events>>

\* mResumeHoldRunnable
ResumeHold ==
  /\ resumer = "idle" /\ resumePosted
  /\ resumePosted' = FALSE
  /\ resumer' = IF shouldBeConnected THEN "release" ELSE "idle"
  /\ UNCHANGED <<deviceVars, delayed, main, mgmt, holdVars, streamVars, events>>

ResumeRelease ==
  /\ resumer = "release"
  /\ releaseHoldCmd
  /\ resumer' = "idle"
  /\ UNCHANGED <<deviceVars, delayed, main, mgmt, resumePosted, lastPauseReason, events>>

(***************************************************************************)
(* The process: management_hold, man_signal and man_network_change.        *)
(***************************************************************************)
\* A restart ends here: the process stops at its hold and announces it.
management_hold == process' = "held" /\ holds' = holds + 1

\* hold release
man_hold == process' = "running" /\ UNCHANGED holds

\* SIGUSR1 restarts a running process; a held one ignores it and repeats its HOLD line.
man_signal == management_hold

\* A running process leaves a network change at that or restarts.
man_network_change ==
  \/ UNCHANGED <<process, holds>>
  \/ process = "running" /\ man_signal

ReadCommand ==
  /\ cmds # <<>>
  /\ cmds' = Tail(cmds)
  /\ CASE Head(cmds) = "release" -> man_hold
       [] Head(cmds) = "usr1" -> man_signal
       [] OTHER -> man_network_change
  /\ UNCHANGED <<deviceVars, delayed, main, mgmt, resumer, resumePosted, holdVars,
                 restarts, events>>

\* The connection is lost (ping-restart, a failed attempt).
OwnRestart ==
  /\ process = "running" /\ restarts < MaxRestarts
  /\ restarts' = restarts + 1
  /\ management_hold
  /\ UNCHANGED <<deviceVars, delayed, main, mgmt, resumer, resumePosted, holdVars,
                 cmds, events>>

-----------------------------------------------------------------------------
\* The process has connected to the management socket and waits in its hold.
Init ==
  /\ network = "DISCONNECTED" /\ screen = "SHOULDBECONNECTED"
  /\ userpause = "SHOULDBECONNECTED" /\ lastConnectedNetwork = NoNetwork
  /\ delayed = FALSE /\ main = "idle" /\ mgmt = "idle" /\ resumer = "idle"
  /\ resumePosted = FALSE /\ mWaitingForRelease = FALSE
  /\ lastPauseReason = "noNetwork"
  /\ cmds = <<>> /\ holds = 1 /\ process = "held"
  /\ events = 0 /\ restarts = 0 /\ screenOn = TRUE

Device == \/ \E net \in Networks : NetworkUp(net)
          \/ NetworkDown \/ ScreenOff \/ ScreenOn \/ \E b \in BOOLEAN : userPause(b)
Main == DelayDisconnect \/ MainPause \/ MainResume \/ MainNetworkChange \/ MainRelease
Mgmt == handleHold \/ HoldCheck \/ LowTrafficWrite \/ LowTrafficPause
Resumer == ResumeHold \/ ResumeRelease
Process == ReadCommand \/ OwnRestart

Next == Device \/ Main \/ Mgmt \/ LowTraffic \/ Resumer \/ Process

Spec == Init /\ [][Next]_vars

\* The threads are scheduled and the process reads its commands.
Fairness == WF_vars(Main) /\ WF_vars(Mgmt) /\ WF_vars(Resumer) /\ WF_vars(ReadCommand)

FairSpec == Spec /\ Fairness

-----------------------------------------------------------------------------
(***************************************************************************)
(* Properties                                                              *)
(***************************************************************************)
\* Type invariant: in particular the user's pause is never left pending.
TypeOK ==
  /\ network \in ConnectState /\ screen \in ConnectState
  /\ userpause \in {"SHOULDBECONNECTED", "DISCONNECTED"}
  /\ lastConnectedNetwork \in Networks \cup {NoNetwork}
  /\ delayed \in BOOLEAN /\ resumePosted \in BOOLEAN /\ mWaitingForRelease \in BOOLEAN
  /\ main \in {"idle", "pause", "resume", "networkChange", "sameNetwork", "release",
              "resumeRelease"}
  /\ mgmt \in {"idle", "check", "low", "pause"}
  /\ resumer \in {"idle", "release"}
  /\ lastPauseReason \in PauseReason
  /\ cmds \in Seq(Command) /\ holds \in Nat /\ process \in {"held", "running"}
  /\ events \in 0..MaxEvents /\ restarts \in 0..MaxRestarts
  /\ screenOn \in BOOLEAN

Quiet == main = "idle" /\ mgmt = "idle" /\ resumer = "idle" /\ cmds = <<>> /\ holds = 0

\* No release is lost between the threads: once they are at rest and both streams are
\* empty, a process that is held although it should be connected has its release
\* scheduled. A pause of updateByteCount that comes after the screen is on again, a
\* repeated HOLD line and a second release do not take it away.
HoldIsScheduled ==
  Quiet /\ process = "held" /\ shouldBeConnected => resumePosted

\* A process held while it should be connected is released, or
\* the device changes its mind. handleHold sets mWaitingForRelease before it looks at
\* the receiver, so a broadcast in between finds the flag and releases the hold.
HeldIsReleased ==
  (process = "held" /\ shouldBeConnected) ~> (process = "running" \/ ~shouldBeConnected)

\* The comment on SCREEN_ON: "should be connected has changed because the screen is on
\* now, connect the VPN". With the screen on, a network and no pause by the user the
\* process runs in the end.
AllOn == screenOn /\ network = "SHOULDBECONNECTED" /\ userpause = "SHOULDBECONNECTED"
ScreenOnConnects == AllOn ~> (process = "running" \/ ~AllOn)
=============================================================================
