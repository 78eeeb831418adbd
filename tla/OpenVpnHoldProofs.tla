-------------------------- MODULE OpenVpnHoldProofs --------------------------
(***************************************************************************)
(* No release of a hold is lost, for every set of networks and every       *)
(* number of broadcasts and restarts.                                      *)
(***************************************************************************)
EXTENDS OpenVpnHold, SequenceTheorems, TLAPS

Written(c) == \E i \in 1..Len(cmds) : cmds[i] = c

\* The main thread is on its way to releasing the hold, if it is known.
Calls == {"resume", "networkChange", "sameNetwork", "release", "resumeRelease"}

\* A process is held and the app does not know: its HOLD line, or a release, is on the
\* way.
HoldIsKnown == process = "held" /\ ~mWaitingForRelease => holds > 0 \/ Written("release")

\* A process that is held and should be connected: a release is on the way, or what
\* leads to one.
ReleaseComes ==
  process = "held" /\ shouldBeConnected =>
    \/ holds > 0 \/ Written("release") \/ Written("usr1")
    \/ mgmt = "check" \/ main \in Calls \/ resumePosted \/ resumer = "release"

\* The main thread pauses only what should not be connected.
MainAgrees == main = "pause" => ~shouldBeConnected

\* updateByteCount is about to pause, and to cancel mResumeHoldRunnable, although the
\* screen is on again: what turned it on has cancelled the runnable, or is about to, or
\* the pause will send its SIGUSR1.
LatePause ==
  mgmt = "pause" /\ shouldBeConnected =>
    main \in Calls \/ ~mWaitingForRelease \/ ~resumePosted

Safe == HoldIsKnown /\ ReleaseComes /\ MainAgrees /\ LatePause

IInv == TypeOK /\ Safe

-----------------------------------------------------------------------------
(***************************************************************************)
(* Types.                                                                  *)
(***************************************************************************)
\* The parts of TypeOK.
FlagsOK ==
  /\ delayed \in BOOLEAN /\ resumePosted \in BOOLEAN /\ mWaitingForRelease \in BOOLEAN
  /\ screenOn \in BOOLEAN

DeviceOK ==
  /\ network \in ConnectState /\ screen \in ConnectState
  /\ userpause \in {"SHOULDBECONNECTED", "DISCONNECTED"}
  /\ lastConnectedNetwork \in Networks \cup {NoNetwork}
  /\ events \in 0..MaxEvents

ThreadsOK ==
  /\ main \in {"idle", "pause", "resume", "networkChange", "sameNetwork", "release",
              "resumeRelease"}
  /\ mgmt \in {"idle", "check", "low", "pause"}
  /\ resumer \in {"idle", "release"}
  /\ lastPauseReason \in PauseReason

StreamsOK ==
  /\ cmds \in Seq(Command) /\ holds \in Nat /\ process \in {"held", "running"}
  /\ restarts \in 0..MaxRestarts

\* TypeOK is the conjunction of its parts.
LEMMA TypeParts == TypeOK <=> FlagsOK /\ DeviceOK /\ ThreadsOK /\ StreamsOK
BY Zenon DEF TypeOK, FlagsOK, DeviceOK, ThreadsOK, StreamsOK

\* The pause reason is one of the three.
LEMMA ReasonType == getPauseReason \in PauseReason
BY DEF getPauseReason, PauseReason

\* A command that is written is at the end of the stream.
LEMMA WrittenType ==
  ASSUME NEW c \in Command, cmds \in Seq(Command)
  PROVE  /\ Append(cmds, c) \in Seq(Command) /\ Len(Append(cmds, c)) = Len(cmds) + 1
         /\ Append(cmds, c)[Len(cmds) + 1] = c /\ Len(cmds) \in Nat
         /\ \A i \in 1..Len(cmds) : Append(cmds, c)[i] = cmds[i]
BY AppendProperties

\* The broadcasts and requests.
LEMMA DeviceType == ASSUME TypeOK, Device PROVE TypeOK'
<1>0. FlagsOK /\ DeviceOK /\ ThreadsOK /\ StreamsOK
  BY TypeParts
<1>1. StreamsOK'
  BY <1>0 DEF Device, NetworkUp, NetworkDown, ScreenOff, ScreenOn, userPause, streamVars, StreamsOK
<1>2. FlagsOK'
  BY <1>0, Zenon DEF Device, NetworkUp, NetworkDown, ScreenOff, ScreenOn, userPause, holdVars, FlagsOK
<1>3. events' \in 0..MaxEvents
  BY <1>0, BoundsAssumption DEF BoundsAssumption, Device, NetworkUp, NetworkDown, ScreenOff, ScreenOn,
     userPause, Event, DeviceOK
<1>4. DeviceOK'
  <2>1. ASSUME NEW n \in Networks, NetworkUp(n) PROVE DeviceOK'
    BY <1>0, <1>3, <2>1 DEF NetworkUp, DeviceOK, Dropped, ConnectState
  <2>2. CASE NetworkDown
    BY <1>0, <1>3, <2>2 DEF NetworkDown, DeviceOK, ConnectState
  <2>3. CASE ScreenOff
    BY <1>0, <1>3, <2>3 DEF ScreenOff, DeviceOK, ConnectState
  <2>4. CASE ScreenOn
    BY <1>0, <1>3, <2>4 DEF ScreenOn, DeviceOK, ConnectState
  <2>5. ASSUME NEW b \in BOOLEAN, userPause(b) PROVE DeviceOK'
    BY <1>0, <1>3, <2>5 DEF userPause, PauseState, DeviceOK
  <2>6. QED
    BY <2>1, <2>2, <2>3, <2>4, <2>5 DEF Device
<1>5. ThreadsOK'
  <2>1. ASSUME NEW n \in Networks, NetworkUp(n) PROVE ThreadsOK'
    BY <1>0, <2>1 DEF NetworkUp, holdVars, ThreadsOK
  <2>2. CASE NetworkDown \/ ScreenOff
    BY <1>0, <2>2 DEF NetworkDown, ScreenOff, holdVars, ThreadsOK
  <2>3. CASE ScreenOn
    BY <1>0, <2>3 DEF ScreenOn, holdVars, ThreadsOK
  <2>4. ASSUME NEW b \in BOOLEAN, userPause(b) PROVE ThreadsOK'
    BY <1>0, <2>4 DEF userPause, holdVars, ThreadsOK
  <2>5. QED
    BY <2>1, <2>2, <2>3, <2>4 DEF Device
<1>6. QED
  <2>1. (TypeOK <=> FlagsOK /\ DeviceOK /\ ThreadsOK /\ StreamsOK)'
    BY Zenon DEF TypeOK, FlagsOK, DeviceOK, ThreadsOK, StreamsOK
  <2>2. QED
    BY <1>1, <1>2, <1>4, <1>5, <2>1

\* pause keeps the types of what it writes.
LEMMA PauseType ==
  ASSUME TypeOK, pause
  PROVE  /\ StreamsOK' /\ lastPauseReason' \in PauseReason
         /\ resumePosted' \in BOOLEAN /\ mWaitingForRelease' \in BOOLEAN
<1>0. FlagsOK /\ StreamsOK
  BY TypeParts
<1>1. "usr1" \in Command
  BY DEF Command
<1>2. StreamsOK'
  BY <1>0, <1>1, WrittenType DEF pause, StreamsOK
<1>3. lastPauseReason' \in PauseReason
  BY ReasonType DEF pause
<1>4. resumePosted' \in BOOLEAN /\ mWaitingForRelease' \in BOOLEAN
  BY <1>0, Zenon DEF pause, FlagsOK
<1>5. QED
  BY <1>2, <1>3, <1>4

\* So does the end of releaseHoldCmd.
LEMMA ReleaseType ==
  ASSUME TypeOK, releaseHoldCmd
  PROVE  StreamsOK' /\ mWaitingForRelease' \in BOOLEAN
<1>0. FlagsOK /\ StreamsOK
  BY TypeParts
<1>1. "release" \in Command
  BY DEF Command
<1>2. StreamsOK'
  BY <1>0, <1>1, WrittenType DEF releaseHoldCmd, StreamsOK
<1>3. mWaitingForRelease' \in BOOLEAN
  BY <1>0, Zenon DEF releaseHoldCmd, FlagsOK
<1>4. QED
  BY <1>2, <1>3

\* The calls of the main thread.
LEMMA MainType == ASSUME TypeOK, Main PROVE TypeOK'
<1>0. FlagsOK /\ DeviceOK /\ ThreadsOK /\ StreamsOK
  BY TypeParts
<1>1. CASE DelayDisconnect
  <2>1. FlagsOK'
    BY <1>0, <1>1, Zenon DEF DelayDisconnect, FlagsOK, holdVars
  <2>2. DeviceOK'
    BY <1>0, <1>1 DEF DelayDisconnect, DeviceOK, Dropped, ConnectState
  <2>3. ThreadsOK' /\ StreamsOK'
    BY <1>0, <1>1 DEF DelayDisconnect, ThreadsOK, StreamsOK, holdVars, streamVars
  <2>4. QED
    BY <2>1, <2>2, <2>3, Zenon DEF TypeOK, FlagsOK, DeviceOK, ThreadsOK, StreamsOK
<1>2. CASE MainPause
  <2>1. /\ StreamsOK' /\ lastPauseReason' \in PauseReason
        /\ resumePosted' \in BOOLEAN /\ mWaitingForRelease' \in BOOLEAN
    BY <1>2, PauseType DEF MainPause
  <2>2. UNCHANGED <<deviceVars, delayed, mgmt, resumer, events>> /\ main' = "idle"
    BY <1>2 DEF MainPause
  <2>3. FlagsOK'
    BY <1>0, <2>1, <2>2, Zenon DEF FlagsOK, deviceVars
  <2>4. DeviceOK' /\ ThreadsOK'
    BY <1>0, <2>1, <2>2 DEF DeviceOK, ThreadsOK, deviceVars
  <2>5. QED
    BY <2>1, <2>3, <2>4, Zenon DEF TypeOK, FlagsOK, DeviceOK, ThreadsOK, StreamsOK
<1>3. CASE MainResume
  <2>1. FlagsOK'
    BY <1>0, <1>3, Zenon DEF MainResume, FlagsOK, deviceVars
  <2>2. DeviceOK' /\ StreamsOK'
    BY <1>0, <1>3 DEF MainResume, DeviceOK, StreamsOK, deviceVars, streamVars
  <2>3. ThreadsOK'
    BY <1>0, <1>3 DEF MainResume, ThreadsOK, PauseReason
  <2>4. QED
    BY <2>1, <2>2, <2>3, Zenon DEF TypeOK, FlagsOK, DeviceOK, ThreadsOK, StreamsOK
<1>4. CASE MainNetworkChange
  <2>1. FlagsOK'
    BY <1>0, <1>4, Zenon DEF MainNetworkChange, FlagsOK, deviceVars
  <2>2. DeviceOK' /\ ThreadsOK'
    BY <1>0, <1>4 DEF MainNetworkChange, DeviceOK, ThreadsOK, deviceVars
  <2>3. StreamsOK'
    <3>1. "network-change" \in Command
      BY DEF Command
    <3>2. QED
      BY <1>0, <1>4, <3>1, WrittenType DEF MainNetworkChange, StreamsOK
  <2>4. QED
    BY <2>1, <2>2, <2>3, Zenon DEF TypeOK, FlagsOK, DeviceOK, ThreadsOK, StreamsOK
<1>5. CASE MainRelease
  <2>1. StreamsOK' /\ mWaitingForRelease' \in BOOLEAN
    BY <1>5, ReleaseType DEF MainRelease
  <2>2. FlagsOK'
    BY <1>0, <1>5, <2>1, Zenon DEF MainRelease, FlagsOK, deviceVars
  <2>3. DeviceOK' /\ ThreadsOK'
    BY <1>0, <1>5 DEF MainRelease, DeviceOK, ThreadsOK, PauseReason, deviceVars
  <2>4. QED
    BY <2>1, <2>2, <2>3, Zenon DEF TypeOK, FlagsOK, DeviceOK, ThreadsOK, StreamsOK
<1>6. QED
  BY <1>1, <1>2, <1>3, <1>4, <1>5 DEF Main

\* The management thread and the resume thread.
LEMMA OthersType == ASSUME TypeOK, Mgmt \/ LowTraffic \/ Resumer PROVE TypeOK'
<1>0. FlagsOK /\ DeviceOK /\ ThreadsOK /\ StreamsOK
  BY TypeParts
<1>1. CASE handleHold
  <2>1. FlagsOK'
    BY <1>0, <1>1, Zenon DEF handleHold, FlagsOK, deviceVars
  <2>2. DeviceOK' /\ ThreadsOK'
    BY <1>0, <1>1 DEF handleHold, DeviceOK, ThreadsOK, deviceVars
  <2>3. StreamsOK'
    BY <1>0, <1>1 DEF handleHold, StreamsOK
  <2>4. QED
    BY <2>1, <2>2, <2>3, Zenon DEF TypeOK, FlagsOK, DeviceOK, ThreadsOK, StreamsOK
<1>2. CASE HoldCheck \/ LowTraffic \/ LowTrafficWrite \/ ResumeHold
  <2>1. FlagsOK'
    BY <1>0, <1>2, Zenon DEF HoldCheck, LowTraffic, LowTrafficWrite, ResumeHold, FlagsOK, deviceVars, holdVars
  <2>2. DeviceOK'
    BY <1>0, <1>2 DEF HoldCheck, LowTraffic, LowTrafficWrite, ResumeHold, DeviceOK, ConnectState, deviceVars
  <2>3. ThreadsOK' /\ StreamsOK'
    BY <1>0, <1>2 DEF HoldCheck, LowTraffic, LowTrafficWrite, ResumeHold, ThreadsOK, StreamsOK, holdVars, streamVars
  <2>4. QED
    BY <2>1, <2>2, <2>3, Zenon DEF TypeOK, FlagsOK, DeviceOK, ThreadsOK, StreamsOK
<1>3. CASE LowTrafficPause
  <2>1. /\ StreamsOK' /\ lastPauseReason' \in PauseReason
        /\ resumePosted' \in BOOLEAN /\ mWaitingForRelease' \in BOOLEAN
    BY <1>3, PauseType DEF LowTrafficPause
  <2>2. UNCHANGED <<deviceVars, delayed, main, resumer, events>> /\ mgmt' = "idle"
    BY <1>3 DEF LowTrafficPause
  <2>3. FlagsOK'
    BY <1>0, <2>1, <2>2, Zenon DEF FlagsOK, deviceVars
  <2>4. DeviceOK' /\ ThreadsOK'
    BY <1>0, <2>1, <2>2 DEF DeviceOK, ThreadsOK, deviceVars
  <2>5. QED
    BY <2>1, <2>3, <2>4, Zenon DEF TypeOK, FlagsOK, DeviceOK, ThreadsOK, StreamsOK
<1>4. CASE ResumeRelease
  <2>1. StreamsOK' /\ mWaitingForRelease' \in BOOLEAN
    BY <1>4, ReleaseType DEF ResumeRelease
  <2>2. FlagsOK'
    BY <1>0, <1>4, <2>1, Zenon DEF ResumeRelease, FlagsOK, deviceVars
  <2>3. DeviceOK' /\ ThreadsOK'
    BY <1>0, <1>4 DEF ResumeRelease, DeviceOK, ThreadsOK, deviceVars
  <2>4. QED
    BY <2>1, <2>2, <2>3, Zenon DEF TypeOK, FlagsOK, DeviceOK, ThreadsOK, StreamsOK
<1>5. QED
  BY <1>1, <1>2, <1>3, <1>4 DEF Mgmt, Resumer

\* The process reads a command or restarts.
LEMMA ProcessType == ASSUME TypeOK, Process PROVE TypeOK'
<1>0. FlagsOK /\ DeviceOK /\ ThreadsOK /\ StreamsOK
  BY TypeParts
<1>1. FlagsOK'
  BY <1>0, Zenon DEF Process, ReadCommand, OwnRestart, FlagsOK, deviceVars, holdVars
<1>2. DeviceOK' /\ ThreadsOK'
  BY <1>0 DEF Process, ReadCommand, OwnRestart, DeviceOK, ThreadsOK, deviceVars, holdVars
<1>3. StreamsOK'
  <2>1. CASE ReadCommand
    <3>1. cmds' \in Seq(Command)
      BY <1>0, <2>1, HeadTailProperties DEF ReadCommand, StreamsOK
    <3>2. restarts' \in 0..MaxRestarts
      BY <1>0, <2>1 DEF ReadCommand, StreamsOK
    <3>3. process' \in {"held", "running"} /\ holds' \in Nat
      BY <1>0, <2>1 DEF ReadCommand, StreamsOK, man_hold, man_signal, man_network_change, management_hold
    <3>4. QED
      BY <3>1, <3>2, <3>3 DEF StreamsOK
  <2>2. CASE OwnRestart
    BY <1>0, <2>2, BoundsAssumption DEF BoundsAssumption, OwnRestart, management_hold, StreamsOK
  <2>3. QED
    BY <2>1, <2>2 DEF Process
<1>4. QED
  BY <1>1, <1>2, <1>3, Zenon DEF TypeOK, FlagsOK, DeviceOK, ThreadsOK, StreamsOK

-----------------------------------------------------------------------------
(***************************************************************************)
(* A release comes.                                                        *)
(***************************************************************************)
\* A command that is written stays written when another follows.
LEMMA WriteKeeps ==
  ASSUME TypeOK, NEW c \in Command, cmds' = Append(cmds, c)
  PROVE  Written(c)' /\ \A d : Written(d) => Written(d)'
<1>1. cmds \in Seq(Command)
  BY DEF TypeOK
<1>2. /\ Len(cmds') = Len(cmds) + 1 /\ cmds'[Len(cmds) + 1] = c /\ Len(cmds) \in Nat
      /\ \A i \in 1..Len(cmds) : cmds'[i] = cmds[i]
  BY <1>1, WrittenType
<1>3. Len(cmds) + 1 \in 1..Len(cmds') /\ \A i \in 1..Len(cmds) : i \in 1..Len(cmds')
  BY <1>2
<1>4. QED
  BY <1>2, <1>3 DEF Written

\* A command that is not the one read stays written.
LEMMA ReadKeeps ==
  ASSUME TypeOK, cmds # <<>>, cmds' = Tail(cmds), NEW d, d # Head(cmds), Written(d)
  PROVE  Written(d)'
<1>1. cmds \in Seq(Command)
  BY DEF TypeOK
<1>2. /\ Len(cmds) \in Nat /\ Len(cmds) > 0 /\ Head(cmds) = cmds[1]
      /\ Len(cmds') = Len(cmds) - 1 /\ Len(cmds') \in Nat
      /\ \A i \in 1..Len(cmds') : cmds'[i] = cmds[i + 1]
  BY <1>1, HeadTailProperties, EmptySeq
<1>3. PICK i \in 1..Len(cmds) : cmds[i] = d
  BY DEF Written
<1>4. i # 1
  BY <1>2, <1>3
<1>5. i - 1 \in 1..Len(cmds') /\ (i - 1) + 1 = i
  BY <1>2, <1>4
<1>6. cmds'[i - 1] = d
  BY <1>2, <1>3, <1>5
<1>7. QED
  BY <1>5, <1>6 DEF Written

\* The broadcasts and requests: one that makes shouldBeConnected true also calls the
\* management thread object.
LEMMA DeviceSafe == ASSUME TypeOK, Safe, Device PROVE Safe'
<1>0. main = "idle" /\ main \notin Calls
  BY DEF Device, NetworkUp, NetworkDown, ScreenOff, ScreenOn, userPause, Event, Calls
<1>1. UNCHANGED <<mWaitingForRelease, cmds, holds, process, resumer, resumePosted, mgmt>>
  BY DEF Device, NetworkUp, NetworkDown, ScreenOff, ScreenOn, userPause, holdVars, streamVars
<1>2. (shouldBeConnected' => shouldBeConnected \/ main' \in Calls) /\ MainAgrees'
  <2>1. ASSUME NEW n \in Networks, NetworkUp(n)
        PROVE  (shouldBeConnected' => main' \in Calls) /\ main' # "pause"
    BY <2>1 DEF NetworkUp, shouldBeConnected, Calls
  <2>2. CASE NetworkDown \/ ScreenOff
    BY <1>0, <2>2 DEF NetworkDown, ScreenOff, shouldBeConnected, Connected, MainAgrees
  <2>3. CASE ScreenOn
    BY <2>3 DEF ScreenOn, shouldBeConnected, Connected, Calls, MainAgrees
  <2>4. ASSUME NEW b \in BOOLEAN, userPause(b)
        PROVE  (shouldBeConnected' => main' \in Calls) /\ MainAgrees'
    BY <2>4 DEF userPause, shouldBeConnected, Calls, MainAgrees
  <2>5. QED
    BY <2>1, <2>2, <2>3, <2>4 DEF Device, MainAgrees
<1>3. Written("release")' = Written("release") /\ Written("usr1")' = Written("usr1")
  BY <1>1 DEF Written
<1>4. HoldIsKnown'
  BY <1>1, <1>3, Zenon DEF Safe, HoldIsKnown
<1>5. ReleaseComes'
  BY <1>0, <1>1, <1>2, <1>3, Zenon DEF Safe, ReleaseComes
<1>6. LatePause'
  BY <1>0, <1>1, <1>2, Zenon DEF Safe, LatePause
<1>7. QED
  BY <1>2, <1>4, <1>5, <1>6 DEF Safe

\* pause, on the main thread with the device disconnected, or on the management thread.
LEMMA PauseSafe ==
  ASSUME TypeOK, Safe, pause, UNCHANGED <<deviceVars, resumer>>,
         \/ main = "pause" /\ main' = "idle" /\ mgmt' = mgmt
         \/ main' = main /\ mgmt = "pause" /\ mgmt' = "idle"
  PROVE  Safe'
<1>1. UNCHANGED <<mWaitingForRelease, holds, process, resumer>> /\ resumePosted' = FALSE
  BY DEF pause
<1>2. shouldBeConnected' = shouldBeConnected
  BY DEF shouldBeConnected, deviceVars
<1>3. /\ Written("release") => Written("release")'
      /\ Written("usr1") => Written("usr1")'
      /\ ~mWaitingForRelease => Written("usr1")'
  <2>1. CASE mWaitingForRelease
    BY <2>1 DEF pause, SignalNeeded, Written
  <2>2. CASE ~mWaitingForRelease
    <3>1. cmds' = Append(cmds, "usr1") /\ "usr1" \in Command
      BY <2>2 DEF pause, SignalNeeded, Command
    <3>2. QED
      BY <3>1, WriteKeeps
  <2>3. QED
    BY <2>1, <2>2
<1>4. HoldIsKnown'
  BY <1>1, <1>3, Zenon DEF Safe, HoldIsKnown
<1>5. ReleaseComes'
  <2> SUFFICES ASSUME process = "held", shouldBeConnected, mWaitingForRelease
               PROVE  \/ holds > 0 \/ Written("release") \/ Written("usr1")
                      \/ mgmt' = "check" \/ main' \in Calls \/ resumer = "release"
    BY <1>1, <1>2, <1>3, Zenon DEF ReleaseComes
  <2>1. main' = main /\ mgmt = "pause"
    BY DEF Safe, MainAgrees
  <2>2. main \in Calls \/ ~resumePosted
    BY <2>1, Zenon DEF Safe, LatePause
  <2>3. mgmt # "check"
    BY <2>1
  <2>4. QED
    BY <2>1, <2>2, <2>3, Zenon DEF Safe, ReleaseComes
<1>6. MainAgrees'
  BY <1>2 DEF Safe, MainAgrees
<1>7. LatePause'
  BY <1>1, Zenon DEF LatePause
<1>8. QED
  BY <1>4, <1>5, <1>6, <1>7 DEF Safe

\* The end of releaseHoldCmd, on either thread.
LEMMA ReleaseSafe ==
  ASSUME TypeOK, Safe, releaseHoldCmd, UNCHANGED <<deviceVars, mgmt, resumePosted>>,
         main' = "idle" \/ main' = main
  PROVE  Safe'
<1>1. cmds' = Append(cmds, "release") /\ "release" \in Command
  BY DEF releaseHoldCmd, Command
<1>2. Written("release")'
  BY <1>1, WriteKeeps
<1>3. ~mWaitingForRelease' /\ shouldBeConnected' = shouldBeConnected
  BY Zenon DEF releaseHoldCmd, shouldBeConnected, deviceVars
<1>4. HoldIsKnown' /\ ReleaseComes' /\ LatePause'
  BY <1>2, <1>3, Zenon DEF HoldIsKnown, ReleaseComes, LatePause
<1>5. MainAgrees'
  BY <1>3 DEF Safe, MainAgrees
<1>6. QED
  BY <1>4, <1>5 DEF Safe

\* The main thread: resume and networkChange leave a hold alone only if it is not known,
\* and then its HOLD line or a release is on the way.
LEMMA MainSafe == ASSUME TypeOK, Safe, Main PROVE Safe'
<1>1. CASE DelayDisconnect
  <2>1. /\ UNCHANGED <<mWaitingForRelease, cmds, holds, process, resumer, resumePosted, mgmt>>
        /\ main = "idle" /\ main \notin Calls
    BY <1>1 DEF DelayDisconnect, holdVars, streamVars, Calls
  <2>2. CASE network = "PENDINGDISCONNECT"
    <3>1. ~shouldBeConnected' /\ Written("release")' = Written("release")
      BY <1>1, <2>1, <2>2 DEF DelayDisconnect, shouldBeConnected, Connected, Written
    <3>2. HoldIsKnown' /\ ReleaseComes' /\ MainAgrees' /\ LatePause'
      BY <2>1, <3>1, Zenon DEF Safe, HoldIsKnown, ReleaseComes, MainAgrees, LatePause
    <3>3. QED
      BY <3>2 DEF Safe
  <2>3. CASE network # "PENDINGDISCONNECT"
    <3>1. UNCHANGED <<network, screen, userpause, main>>
      BY <1>1, <2>3 DEF DelayDisconnect
    <3>2. QED
      BY <2>1, <3>1 DEF Safe, HoldIsKnown, ReleaseComes, MainAgrees, LatePause, Written, shouldBeConnected
  <2>4. QED
    BY <2>2, <2>3
<1>2. CASE MainPause
  BY <1>2, PauseSafe DEF MainPause
<1>3. CASE MainResume \/ MainNetworkChange
  <2>1. /\ UNCHANGED <<mWaitingForRelease, holds, process, resumer, mgmt>> /\ main \in Calls
        /\ shouldBeConnected' = shouldBeConnected
    BY <1>3 DEF MainResume, MainNetworkChange, deviceVars, streamVars, Calls, shouldBeConnected
  <2>2. /\ Written("release") => Written("release")'
        /\ Written("usr1") => Written("usr1")'
    <3>1. UNCHANGED cmds \/ cmds' = Append(cmds, "network-change")
      BY <1>3 DEF MainResume, MainNetworkChange, streamVars
    <3>2. "network-change" \in Command
      BY DEF Command
    <3>3. QED
      BY <3>1, <3>2, WriteKeeps DEF Written
  <2>3. HoldIsKnown'
    BY <2>1, <2>2, Zenon DEF Safe, HoldIsKnown
  <2>4. CASE mWaitingForRelease
    <3>1. main' \in {"release", "resumeRelease"}
      BY <1>3, <2>4 DEF MainResume, MainNetworkChange, ReleasesHold
    <3>2. main' \in Calls /\ main' # "pause"
      BY <3>1 DEF Calls
    <3>3. QED
      BY <2>3, <3>2, Zenon DEF Safe, ReleaseComes, MainAgrees, LatePause
  <2>5. CASE ~mWaitingForRelease
    <3>1. main' # "pause"
      BY <1>3, <2>5 DEF MainResume, MainNetworkChange, ReleasesHold
    <3>2. ReleaseComes'
      BY <2>1, <2>3, <2>5, Zenon DEF HoldIsKnown, ReleaseComes
    <3>3. QED
      BY <2>1, <2>3, <2>5, <3>1, <3>2, Zenon DEF Safe, MainAgrees, LatePause
  <2>6. QED
    BY <2>4, <2>5
<1>4. CASE MainRelease
  BY <1>4, ReleaseSafe DEF MainRelease
<1>5. QED
  BY <1>1, <1>2, <1>3, <1>4 DEF Main

\* The management thread and the resume thread.
LEMMA OthersSafe == ASSUME TypeOK, Safe, Mgmt \/ LowTraffic \/ Resumer PROVE Safe'
<1>1. CASE handleHold \/ HoldCheck \/ ResumeHold \/ LowTraffic
  <2>1. /\ UNCHANGED <<main, cmds, process, network, screen, userpause>>
        /\ mgmt' # "pause"  \/ mgmt' = mgmt
    BY <1>1 DEF handleHold, HoldCheck, ResumeHold, LowTraffic, deviceVars, streamVars
  <2>2. /\ shouldBeConnected' = shouldBeConnected
        /\ Written("release")' = Written("release") /\ Written("usr1")' = Written("usr1")
    BY <2>1 DEF shouldBeConnected, Written
  <2>3. MainAgrees'
    BY <2>1, <2>2 DEF Safe, MainAgrees
  <2>4. CASE handleHold
    <3>1. mWaitingForRelease' /\ mgmt' = "check"
      BY <2>4, Zenon DEF handleHold
    <3>2. HoldIsKnown' /\ ReleaseComes' /\ LatePause'
      BY <3>1, Zenon DEF HoldIsKnown, ReleaseComes, LatePause
    <3>3. QED
      BY <2>3, <3>2 DEF Safe
  <2>5. CASE HoldCheck
    <3>1. /\ UNCHANGED <<mWaitingForRelease, holds, resumer>> /\ mgmt' = "idle"
          /\ (shouldBeConnected => resumePosted')
      BY <2>5, Zenon DEF HoldCheck, holdVars, streamVars
    <3>2. HoldIsKnown' /\ ReleaseComes' /\ LatePause'
      BY <2>1, <2>2, <3>1, Zenon DEF Safe, HoldIsKnown, ReleaseComes, LatePause
    <3>3. QED
      BY <2>3, <3>2 DEF Safe
  <2>6. CASE ResumeHold
    <3>1. /\ UNCHANGED <<mWaitingForRelease, holds, mgmt>> /\ ~resumePosted'
          /\ (shouldBeConnected => resumer' = "release")
      BY <2>6, Zenon DEF ResumeHold, holdVars, streamVars
    <3>2. HoldIsKnown' /\ ReleaseComes' /\ LatePause'
      BY <2>1, <2>2, <3>1, Zenon DEF Safe, HoldIsKnown, ReleaseComes, LatePause
    <3>3. QED
      BY <2>3, <3>2 DEF Safe
  <2>7. CASE LowTraffic
    <3>1. UNCHANGED <<mWaitingForRelease, holds>> /\ process # "held" /\ mgmt' = "low"
      BY <2>7 DEF LowTraffic, holdVars, streamVars
    <3>2. HoldIsKnown' /\ ReleaseComes' /\ LatePause'
      BY <2>1, <3>1 DEF HoldIsKnown, ReleaseComes, LatePause
    <3>3. QED
      BY <2>3, <3>2 DEF Safe
  <2>8. QED
    BY <1>1, <2>4, <2>5, <2>6, <2>7
<1>2. CASE LowTrafficWrite
  <2>1. UNCHANGED <<mWaitingForRelease, cmds, holds, process>> /\ ~shouldBeConnected'
    BY <1>2 DEF LowTrafficWrite, holdVars, streamVars, shouldBeConnected, Connected
  <2>2. HoldIsKnown'
    BY <2>1 DEF Safe, HoldIsKnown, Written
  <2>3. QED
    BY <2>1, <2>2, Zenon DEF Safe, ReleaseComes, MainAgrees, LatePause
<1>3. CASE LowTrafficPause
  BY <1>3, PauseSafe DEF LowTrafficPause
<1>4. CASE ResumeRelease
  BY <1>4, ReleaseSafe DEF ResumeRelease
<1>5. QED
  BY <1>1, <1>2, <1>3, <1>4 DEF Mgmt, Resumer

\* The process: one that becomes held, or is told to restart while held, announces it.
LEMMA ProcessSafe == ASSUME TypeOK, Safe, Process PROVE Safe'
<1>1. /\ UNCHANGED <<main, mgmt, resumer, resumePosted, mWaitingForRelease>>
      /\ shouldBeConnected' = shouldBeConnected
  BY DEF Process, ReadCommand, OwnRestart, deviceVars, holdVars, shouldBeConnected
<1>2. MainAgrees' /\ LatePause'
  BY <1>1, Zenon DEF Safe, MainAgrees, LatePause
<1>3. \/ process' # "held" \/ holds' > 0
      \/ /\ UNCHANGED <<process, holds>>
         /\ Written("release") => Written("release")'
         /\ Written("usr1") => Written("usr1")'
  <2>1. holds \in Nat
    BY DEF TypeOK
  <2>2. CASE OwnRestart
    BY <2>1, <2>2 DEF OwnRestart, management_hold
  <2>3. CASE ReadCommand
    <3>1. CASE Head(cmds) = "release"
      BY <2>3, <3>1 DEF ReadCommand, man_hold
    <3>2. CASE Head(cmds) = "usr1"
      BY <2>1, <2>3, <3>2 DEF ReadCommand, man_signal, management_hold
    <3>3. CASE Head(cmds) \notin {"release", "usr1"}
      <4>1. cmds # <<>> /\ cmds' = Tail(cmds) /\ man_network_change
        BY <2>3, <3>3 DEF ReadCommand
      <4>2. /\ Written("release") => Written("release")'
            /\ Written("usr1") => Written("usr1")'
        BY <3>3, <4>1, ReadKeeps
      <4>3. UNCHANGED <<process, holds>> \/ holds' > 0
        BY <2>1, <4>1 DEF man_network_change, man_signal, management_hold
      <4>4. QED
        BY <4>2, <4>3
    <3>4. QED
      BY <3>1, <3>2, <3>3
  <2>4. QED
    BY <2>2, <2>3 DEF Process
<1>4. HoldIsKnown' /\ ReleaseComes'
  BY <1>1, <1>3, Zenon DEF Safe, HoldIsKnown, ReleaseComes
<1>5. QED
  BY <1>2, <1>4 DEF Safe

-----------------------------------------------------------------------------
(***************************************************************************)
(* The theorems.                                                           *)
(***************************************************************************)
\* The invariant holds when the process waits in its first hold.
LEMMA InitInv == Init => IInv
<1> SUFFICES ASSUME Init PROVE IInv
  OBVIOUS
<1>1. FlagsOK
  BY Zenon DEF Init, FlagsOK
<1>2. DeviceOK /\ ThreadsOK /\ StreamsOK
  BY BoundsAssumption DEF BoundsAssumption, Init, DeviceOK, ThreadsOK, StreamsOK, ConnectState, PauseReason
<1>3. main = "idle" /\ mgmt = "idle" /\ holds = 1
  BY Zenon DEF Init
<1>4. Safe
  BY <1>3 DEF Safe, HoldIsKnown, ReleaseComes, MainAgrees, LatePause
<1>5. QED
  BY <1>1, <1>2, <1>4, TypeParts DEF IInv

\* Every step of every thread keeps it.
LEMMA NextInv == IInv /\ [Next]_vars => IInv'
<1> SUFFICES ASSUME IInv, [Next]_vars PROVE IInv'
  OBVIOUS
<1>0. TypeOK /\ Safe
  BY DEF IInv
<1>1. CASE Device
  BY <1>0, <1>1, DeviceType, DeviceSafe DEF IInv
<1>2. CASE Main
  BY <1>0, <1>2, MainType, MainSafe DEF IInv
<1>3. CASE Mgmt \/ LowTraffic \/ Resumer
  BY <1>0, <1>3, OthersType, OthersSafe DEF IInv
<1>4. CASE Process
  BY <1>0, <1>4, ProcessType, ProcessSafe DEF IInv
<1>5. CASE UNCHANGED vars
  <2>1. /\ UNCHANGED <<network, screen, userpause, lastConnectedNetwork, screenOn, delayed, main, mgmt>>
        /\ UNCHANGED <<resumer, resumePosted, mWaitingForRelease, lastPauseReason, cmds>>
        /\ UNCHANGED <<holds, process, restarts, events>>
    BY <1>5 DEF vars, deviceVars, holdVars, streamVars
  <2>2. TypeOK'
    BY <1>0, <2>1 DEF TypeOK
  <2>3. Safe'
    BY <1>0, <2>1 DEF Safe, HoldIsKnown, ReleaseComes, MainAgrees, LatePause, Written, shouldBeConnected
  <2>4. QED
    BY <2>2, <2>3 DEF IInv
<1>6. QED
  BY <1>1, <1>2, <1>3, <1>4, <1>5 DEF Next

\* The types hold, in particular the user's pause is never left pending.
THEOREM TypeCorrect == Spec => []TypeOK
<1>1. IInv => TypeOK
  BY DEF IInv
<1>2. QED
  BY InitInv, NextInv, <1>1, PTL DEF Spec

\* However many broadcasts, requests and restarts the threads and the two streams carry
\* at once, with pauses and releases crossing: at rest a process that is held although
\* it should be connected has its release scheduled.
THEOREM NoReleaseLost == Spec => []HoldIsScheduled
<1>1. IInv => HoldIsScheduled
  <2> SUFFICES ASSUME IInv, Quiet, process = "held", shouldBeConnected PROVE resumePosted
    BY Zenon DEF HoldIsScheduled
  <2>1. main \notin Calls /\ mgmt # "check" /\ resumer # "release" /\ ~(holds > 0)
    BY DEF Quiet, Calls
  <2>2. ~Written("release") /\ ~Written("usr1")
    BY DEF Quiet, Written
  <2>3. QED
    BY <2>1, <2>2, Zenon DEF IInv, Safe, ReleaseComes
<1>2. QED
  BY InitInv, NextInv, <1>1, PTL DEF Spec
=============================================================================
