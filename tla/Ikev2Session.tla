---------------------------- MODULE Ikev2Session ----------------------------
(***************************************************************************)
(* Life cycle of one Ikev2VPNImpl object (logic/Ikev2VPNImpl.java): the    *)
(* threads that share it and the queues between them.                      *)
(*                                                                         *)
(*   main    the UI looper: service callbacks (onStartCommand, onRevoke,   *)
(*           onDestroy) and the runnables posted to mHandler, in order     *)
(*   conn    mConnectionHandler, the loop of run(): it holds the object's  *)
(*           monitor during a whole pass and gives it up only in wait()    *)
(*   timer   mTimeoutThread, which runs mTimeoutRun                        *)
(*   charon  the native IKE daemon's threads, calling updateStatus and     *)
(*           BuilderAdapter.establish through JNI                          *)
(*                                                                         *)
(* A connect request is a number, its session; profiles, error codes and   *)
(* notifications carry no other content here.                              *)
(***************************************************************************)
EXTENDS Integers, Sequences

CONSTANTS MaxSessions,     \* bound: connect requests per behaviour
          QueueBound,      \* bound: charon posts only to a shorter mHandler queue
          TIMEOUT_RETRIES  \* Ikev2VPNImpl.TIMEOUT_RETRIES, 2 in the code

ASSUME BoundsAssumption ==
  /\ MaxSessions \in Nat \ {0}
  /\ QueueBound \in Nat \ {0}
  /\ TIMEOUT_RETRIES \in Nat

None == 0                                  \* Java null for a profile
Session == 1..MaxSessions
State == {"DISABLED", "CONNECTING", "CONNECTED", "DISCONNECTING"}
ErrorState == {"NO_ERROR", "ERROR"}        \* ERROR: any other ErrorState
VPNState == {"CONNECTING", "CONNECTED", "DISCONNECTED", "CONNECT_FAIL"}

\* A runnable posted by notifyListeners: START is startConnection's, ERROR is
\* setError's, the others are setState's. sid is the session that posted it.
Kind == State \cup {"START", "ERROR"}
Posted == [kind : Kind, sid : 0..MaxSessions]

VARIABLES
  main,             \* "idle", "named" (inside stateChanged), "join" (onDestroy)
  mainQ,            \* runnables pending on mHandler
  destroyed,        \* onDestroy has returned
  conn,             \* where the connection thread is in run()
  mNextProfile, mCurrentProfile, mProfileUpdated, mIsDisconnecting,
  charon,           \* "off", "idle" (initialised only), "on" (initiated)
  tun,              \* the daemon holds an established TUN device
  dropper,          \* the PacketDropper holds the blocking TUN device
  mState, mErrorState,
  timer,            \* where mTimeoutThread is in mTimeoutRun
  tagged,           \* pending messages with what = TIME_OUT_WHAT
  untagged,         \* pending mTimeoutRun posted by postDelayed (what = 0)
  retries, loaded,  \* the field, and the value retries++ has read
  report,           \* the last state given to the callbacks
  (* history: *)
  requested,        \* connect requests so far
  session,          \* the session of the last profile the thread took
  charonSid,        \* the session the daemon was initialised for
  shown,            \* the session of the last START applied on main
  failed,           \* the sessions whose initializeCharon failed
  blocking          \* this pass's establishBlocking: "no", "ok", "failed",
                    \* "undone" by a later establish() of the daemon

mainVars == <<main, mainQ, destroyed>>
profileVars == <<mNextProfile, mCurrentProfile, mProfileUpdated, mIsDisconnecting>>
tunVars == <<tun, dropper, blocking>>
stateVars == <<mState, mErrorState, shown>>
timerVars == <<timer, tagged, untagged, retries, loaded>>
histVars == <<requested, session, charonSid, failed>>
vars == <<mainVars, conn, profileVars, charon, tunVars, stateVars, timerVars,
          report, histVars>>

\* The monitor of the object is free: the connection thread is in wait() or gone.
MonitorFree == conn \in {"wait", "dead"}

Post(kind, sid) == mainQ' = Append(mainQ, [kind |-> kind, sid |-> sid])

(***************************************************************************)
(* Main thread: service callbacks.                                         *)
(***************************************************************************)
\* setNextProfile: blocks until the monitor is free.
setNextProfile(p) ==
  /\ MonitorFree
  /\ mNextProfile' = p
  /\ mProfileUpdated' = TRUE
  /\ UNCHANGED <<mCurrentProfile, mIsDisconnecting>>

\* onStartCommand with a profile. connect() asks for it by an intent.
onStartCommand ==
  /\ main = "idle" /\ ~destroyed
  /\ requested < MaxSessions
  /\ requested' = requested + 1
  /\ setNextProfile(requested + 1)
  /\ UNCHANGED <<mainVars, conn, charon, tunVars, stateVars, timerVars, report,
                 session, charonSid, failed>>

\* onStartCommand with DISCONNECT_ACTION or without a stored profile, and onRevoke.
onDisconnect ==
  /\ main = "idle" /\ ~destroyed
  /\ setNextProfile(None)
  /\ UNCHANGED <<mainVars, conn, charon, tunVars, stateVars, timerVars, report,
                 histVars>>

DestroyStopsConnectedOnly == mState = "CONNECTED"       \* mutant
DestroyMustStop == mState # "DISABLED"

\* onDestroy up to Thread.join: no profile is set when mState is DISABLED.
onDestroy ==
  /\ main = "idle" /\ ~destroyed
  /\ IF DestroyMustStop THEN setNextProfile(None)
                        ELSE UNCHANGED profileVars
  /\ main' = "join"
  /\ UNCHANGED <<mainQ, destroyed, conn, charon, tunVars, stateVars, timerVars,
                 report, histVars>>

\* The connection thread has ended: join returns, quitSafely drops every
\* delayed message of the timeout thread.
onDestroyReturn ==
  /\ main = "join" /\ conn = "dead"
  /\ main' = "idle"
  /\ destroyed' = TRUE
  /\ tagged' = 0 /\ untagged' = 0
  /\ UNCHANGED <<mainQ, conn, profileVars, charon, tunVars, stateVars, timer,
                 retries, loaded, report, histVars>>

(***************************************************************************)
(* Main thread: runnables of notifyListeners.                              *)
(***************************************************************************)
\* resetTimeout removes the tagged messages only.
resetTimeout == tagged' = 0 /\ retries' = 0

\* stateTransform: what the callbacks are told for a state.
StateTransformEarly(s) ==       \* mutant: the commented-out report is the one made
  CASE s \in {"CONNECTING", "CONNECTED"} -> s
    [] s = "DISCONNECTING" -> "DISCONNECTED"
    [] OTHER -> report
stateTransform(s) ==
  CASE s = "CONNECTING" -> "CONNECTING"
    [] s = "CONNECTED" -> "CONNECTED"
    [] s = "DISABLED" -> "DISCONNECTED"
    [] OTHER -> report

\* The change a runnable makes to mState and mErrorState.
NewState(k) == CASE k = "START" -> "CONNECTING" [] k = "ERROR" -> mState [] OTHER -> k
NewError(k) == CASE k = "START" -> "NO_ERROR" [] k = "ERROR" -> "ERROR"
                 [] k = "CONNECTED" -> "NO_ERROR" [] OTHER -> mErrorState

\* stateChanged once the notification name is read; started counts the message
\* startTimeout has just sent.
StateChangedRest(s, started) ==
  /\ IF s \in {"CONNECTED", "DISABLED"}
       THEN resetTimeout
       ELSE tagged' = tagged + started /\ UNCHANGED retries
  /\ report' = stateTransform(s)

Started(k) == IF k = "START" /\ ~destroyed THEN 1 ELSE 0

\* The first half of a posted runnable: the change, and stateChanged's null
\* check of mCurrentProfile, a field the connection thread clears.
RunPosted ==
  /\ main = "idle" /\ mainQ # <<>>
  /\ LET item == Head(mainQ) IN
       /\ mState' = NewState(item.kind)
       /\ mErrorState' = NewError(item.kind)
       /\ shown' = IF item.kind = "START" THEN item.sid ELSE shown
       /\ IF mCurrentProfile # None
            THEN /\ main' = "named"
                 /\ tagged' = tagged + Started(item.kind)
                 /\ UNCHANGED <<retries, report>>
            ELSE /\ main' = "idle"
                 /\ StateChangedRest(NewState(item.kind), Started(item.kind))
  /\ mainQ' = Tail(mainQ)
  /\ UNCHANGED <<destroyed, conn, profileVars, charon, tunVars, timer, untagged,
                 loaded, histVars>>

\* The second half: mCurrentProfile is read again for its name. If it has become
\* null the exception is swallowed by notifyListeners and nothing is reported.
ReadName ==
  /\ main = "named"
  /\ main' = "idle"
  /\ IF mCurrentProfile = None
       THEN UNCHANGED <<tagged, retries, report, mErrorState>>
       ELSE /\ StateChangedRest(mState, 0)
            /\ mErrorState' = IF mState = "CONNECTED" THEN "NO_ERROR" ELSE mErrorState
  /\ UNCHANGED <<mainQ, destroyed, conn, profileVars, charon, tunVars, mState,
                 shown, timer, untagged, loaded, histVars>>

(***************************************************************************)
(* Connection thread: one pass of run().                                   *)
(***************************************************************************)
\* Leave wait(), clear the flag, and resetTimeout of stopCurrentConnection.
ConnWake ==
  /\ conn = "wait" /\ mProfileUpdated
  /\ mProfileUpdated' = FALSE
  /\ resetTimeout
  /\ blocking' = "no"
  /\ conn' = "stop"
  /\ UNCHANGED <<mainVars, mNextProfile, mCurrentProfile, mIsDisconnecting, charon,
                 tun, dropper, stateVars, timer, untagged, loaded, report, histVars>>

\* establishBlocking: on success the new device replaces an older blocking one,
\* on failure the older one stays.
BlockingNotOpened == UNCHANGED <<dropper, blocking>>       \* mutant
establishBlocking ==
  \/ dropper' = TRUE /\ blocking' = "ok"
  \/ blocking' = "failed" /\ UNCHANGED dropper

\* A profile is current, so the daemon is up and has to be stopped.
StopLastOnly == mCurrentProfile # None /\ mNextProfile = None       \* mutant
MustStop == mCurrentProfile # None

\* stopCurrentConnection up to deinitializeCharon.
ConnBlock ==
  /\ conn = "stop"
  /\ IF mNextProfile # None THEN establishBlocking ELSE UNCHANGED <<dropper, blocking>>
  /\ IF MustStop
       THEN /\ Post("DISCONNECTING", session)
            /\ mIsDisconnecting' = TRUE
            /\ conn' = "deinit"
       ELSE conn' = "decide" /\ UNCHANGED <<mainQ, mIsDisconnecting>>
  /\ UNCHANGED <<main, destroyed, mNextProfile, mCurrentProfile, mProfileUpdated,
                 charon, tun, stateVars, timerVars, report, histVars>>

\* closeBlocking at the end of a stop that no other profile follows.
BlockingStaysOpen == UNCHANGED dropper       \* mutant
CloseBlocking == dropper' = IF mNextProfile = None THEN FALSE ELSE dropper

\* deinitializeCharon returns when the daemon's threads have ended and its TUN
\* device is closed; the blocking one is closed when no profile follows.
ConnDeinit ==
  /\ conn = "deinit"
  /\ charon' = "off" /\ tun' = FALSE
  /\ mCurrentProfile' = None
  /\ CloseBlocking
  /\ conn' = "decide"
  /\ UNCHANGED <<mainVars, mNextProfile, mProfileUpdated, mIsDisconnecting, blocking,
                 stateVars, timerVars, report, histVars>>

\* No profile follows: DISABLED is posted, stopSelf, the thread ends.
ConnFinish ==
  /\ conn = "decide" /\ mNextProfile = None
  /\ Post("DISABLED", session)
  /\ conn' = "dead"
  /\ UNCHANGED <<main, destroyed, profileVars, charon, tunVars, stateVars, timerVars,
                 report, histVars>>

\* Take the next profile and post startConnection's runnable.
ConnStart ==
  /\ conn = "decide" /\ mNextProfile # None
  /\ mCurrentProfile' = mNextProfile
  /\ session' = mNextProfile
  /\ mNextProfile' = None
  /\ mIsDisconnecting' = FALSE
  /\ Post("START", mNextProfile)
  /\ conn' = "init"
  /\ UNCHANGED <<main, destroyed, mProfileUpdated, charon, tunVars, stateVars,
                 timerVars, report, requested, charonSid, failed>>

\* initializeCharon succeeds and the connection is initiated.
ConnInit ==
  /\ conn = "init"
  /\ charon' = "on" /\ charonSid' = session
  /\ conn' = "wait"
  /\ UNCHANGED <<mainVars, profileVars, tunVars, stateVars, timerVars, report,
                 requested, session, failed>>

\* initializeCharon succeeds but the profile lacks its password.
ConnNoPassword ==
  /\ conn = "init"
  /\ charon' = "idle" /\ charonSid' = session
  /\ Post("ERROR", session)
  /\ conn' = "wait"
  /\ UNCHANGED <<main, destroyed, profileVars, tunVars, stateVars, timerVars, report,
                 requested, session, failed>>

\* initializeCharon fails: an error and DISABLED are posted.
ConnInitFailed ==
  /\ conn = "init"
  /\ mainQ' = mainQ \o <<[kind |-> "ERROR", sid |-> session],
                         [kind |-> "DISABLED", sid |-> session]>>
  /\ failed' = failed \cup {session}
  /\ conn' = "drop"
  /\ UNCHANGED <<main, destroyed, profileVars, charon, tunVars, stateVars, timerVars,
                 report, requested, session, charonSid>>

\* ... and only then is the profile cleared.
ConnDropProfile ==
  /\ conn = "drop"
  /\ mCurrentProfile' = None
  /\ conn' = "wait"
  /\ UNCHANGED <<mainVars, mNextProfile, mProfileUpdated, mIsDisconnecting, charon,
                 tunVars, stateVars, timerVars, report, histVars>>

(***************************************************************************)
(* The daemon's threads (updateStatus), until deinitializeCharon returns.  *)
(***************************************************************************)
CharonLive == charon = "on" /\ Len(mainQ) < QueueBound

\* A CHILD_SA comes up: establish() opens the TUN device and closes the blocking
\* one, CONNECTED is posted whatever mIsDisconnecting says.
ChildUp ==
  /\ CharonLive
  /\ tun' = TRUE /\ dropper' = FALSE
  /\ blocking' = IF conn = "deinit" /\ blocking = "ok" THEN "undone" ELSE blocking
  /\ Post("CONNECTED", charonSid)
  /\ UNCHANGED <<main, destroyed, conn, profileVars, charon, stateVars, timerVars,
                 report, histVars>>

\* The CHILD_SA goes down (the device stays open), or an error is reported;
\* both are dropped while disconnecting.
ChildDownOrError ==
  /\ CharonLive
  /\ IF mIsDisconnecting
       THEN UNCHANGED mainQ
       ELSE \E k \in {"CONNECTING", "ERROR"} : Post(k, charonSid)
  /\ UNCHANGED <<main, destroyed, conn, profileVars, charon, tunVars, stateVars,
                 timerVars, report, histVars>>

(***************************************************************************)
(* Timeout thread: mTimeoutRun, its two conditions read one after another. *)
(***************************************************************************)
TimerFire ==
  /\ timer = "idle"
  /\ \/ tagged > 0 /\ tagged' = tagged - 1 /\ UNCHANGED untagged
     \/ untagged > 0 /\ untagged' = untagged - 1 /\ UNCHANGED tagged
  /\ timer' = "check1"
  /\ UNCHANGED <<mainVars, conn, profileVars, charon, tunVars, stateVars, retries,
                 loaded, report, histVars>>

\* if (mErrorState != NO_ERROR && mState != CONNECTED)
TimerCheck1 ==
  /\ timer = "check1"
  /\ timer' = IF mErrorState # "NO_ERROR" /\ mState # "CONNECTED" THEN "fail" ELSE "check2"
  /\ UNCHANGED <<mainVars, conn, profileVars, charon, tunVars, stateVars, tagged,
                 untagged, retries, loaded, report, histVars>>

RetryLeftOffByOne == retries <= TIMEOUT_RETRIES       \* mutant
RetryLeft == retries < TIMEOUT_RETRIES

\* else if (mErrorState == NO_ERROR && mState != CONNECTED), and the load of retries
TimerCheck2 ==
  /\ timer = "check2"
  /\ IF mErrorState = "NO_ERROR" /\ mState # "CONNECTED" /\ RetryLeft
       THEN timer' = "retry" /\ loaded' = retries
       ELSE timer' = "idle" /\ UNCHANGED loaded
  /\ UNCHANGED <<mainVars, conn, profileVars, charon, tunVars, stateVars, tagged,
                 untagged, retries, report, histVars>>

\* retries++ stores what was loaded plus one, then postDelayed.
TimerRetry ==
  /\ timer = "retry"
  /\ retries' = loaded + 1
  /\ untagged' = IF destroyed THEN untagged ELSE untagged + 1
  /\ timer' = "idle"
  /\ UNCHANGED <<mainVars, conn, profileVars, charon, tunVars, stateVars, tagged,
                 loaded, report, histVars>>

\* resetTimeout and stateChange(CONNECT_FAIL), on this thread.
TimerFail ==
  /\ timer = "fail"
  /\ resetTimeout
  /\ report' = "CONNECT_FAIL"
  /\ timer' = "idle"
  /\ UNCHANGED <<mainVars, conn, profileVars, charon, tunVars, stateVars, untagged,
                 loaded, histVars>>

-----------------------------------------------------------------------------
\* A freshly created service object: onCreate has started the two threads, and
\* mState and mErrorState are still null, which differs from every constant.
Init ==
  /\ main = "idle" /\ mainQ = <<>> /\ destroyed = FALSE
  /\ conn = "wait"
  /\ mNextProfile = None /\ mCurrentProfile = None
  /\ mProfileUpdated = FALSE /\ mIsDisconnecting = FALSE
  /\ charon = "off" /\ tun = FALSE /\ dropper = FALSE /\ blocking = "no"
  /\ mState = "null" /\ mErrorState = "null" /\ shown = 0
  /\ timer = "idle" /\ tagged = 0 /\ untagged = 0 /\ retries = 0 /\ loaded = 0
  /\ report = "null"
  /\ requested = 0 /\ session = 0 /\ charonSid = 0 /\ failed = {}

User == onStartCommand \/ onDisconnect \/ onDestroy
Main == onDestroyReturn \/ RunPosted \/ ReadName
Conn == \/ ConnWake \/ ConnBlock \/ ConnDeinit \/ ConnFinish \/ ConnStart
        \/ ConnInit \/ ConnNoPassword \/ ConnInitFailed \/ ConnDropProfile
Charon == ChildUp \/ ChildDownOrError
Timer == TimerFire \/ TimerCheck1 \/ TimerCheck2 \/ TimerRetry \/ TimerFail

Next == User \/ Main \/ Conn \/ Charon \/ Timer

Spec == Init /\ [][Next]_vars

\* The looper, the connection thread and the timeout thread are scheduled; the
\* user and the peer owe nothing.
Fairness == WF_vars(Main) /\ WF_vars(Conn) /\ WF_vars(Timer)

FairSpec == Spec /\ Fairness

-----------------------------------------------------------------------------
(***************************************************************************)
(* Properties                                                              *)
(***************************************************************************)
FlagsOK ==
  /\ destroyed \in BOOLEAN /\ mProfileUpdated \in BOOLEAN /\ mIsDisconnecting \in BOOLEAN
  /\ tun \in BOOLEAN /\ dropper \in BOOLEAN

ValuesOK ==
  /\ main \in {"idle", "named", "join"} /\ mainQ \in Seq(Posted)
  /\ conn \in {"wait", "stop", "deinit", "decide", "init", "drop", "dead"}
  /\ mNextProfile \in 0..MaxSessions /\ mCurrentProfile \in 0..MaxSessions
  /\ charon \in {"off", "idle", "on"}
  /\ blocking \in {"no", "ok", "failed", "undone"}
  /\ mState \in State \cup {"null"} /\ mErrorState \in ErrorState \cup {"null"}
  /\ timer \in {"idle", "check1", "check2", "retry", "fail"}
  /\ tagged \in Nat /\ untagged \in Nat
  /\ retries \in 0..TIMEOUT_RETRIES /\ loaded \in 0..TIMEOUT_RETRIES
  /\ report \in VPNState \cup {"null"}
  /\ requested \in 0..MaxSessions /\ session \in 0..MaxSessions
  /\ charonSid \in 0..MaxSessions /\ shown \in 0..MaxSessions
  /\ failed \in SUBSET Session

\* Type invariant. The bound on retries is a claim of its own: three threads
\* write the field, and mTimeoutRun's retries++ may store a stale value.
TypeOK == FlagsOK /\ ValuesOK

\* Events reach the callbacks in the order of their sessions: after the START of
\* a session is applied on main, nothing posted for an earlier one (a late
\* CONNECTED of the old daemon, say) is still queued. This is what lets
\* updateStatus post STATE_CHILD_SA_UP without looking at mIsDisconnecting.
NoStaleEvents ==
  /\ \A i \in 1..Len(mainQ) : mainQ[i].sid >= shown
  /\ \A i, j \in 1..Len(mainQ) : i < j => mainQ[i].sid <= mainQ[j].sid

\* onDestroy joins the connection thread on the main thread. It can wait for a
\* thread that nobody will wake only when the session on display is one whose
\* initializeCharon failed: that alone leaves DISABLED with the thread alive.
DestroyBlocksOnlyAfterFailedInit ==
  (main = "join" /\ conn = "wait" /\ ~mProfileUpdated) => shown \in failed

\* When the connection thread has ended, the daemon is down and its TUN device
\* closed; the blocking device that stopCurrentConnection opened is closed too,
\* unless the last session failed to initialise (its profile was dropped, and
\* closeBlocking is reached only with a current profile).
NothingLeftBehind ==
  conn = "dead" =>
    /\ charon = "off" /\ ~tun
    /\ dropper => session \in failed

\* The device has no TUN interface between two sessions only if opening the
\* blocking one failed or a late establish() of the old daemon closed it:
\* stopCurrentConnection opens it before it stops the daemon.
SwitchKeepsDevice ==
  [][(tun \/ dropper) /\ ~(tun' \/ dropper') =>
       mNextProfile = None \/ blocking \in {"failed", "undone"}]_vars

\* A disconnect request that no later connect replaces is answered: the
\* callbacks are told DISCONNECTED, even when the service is being destroyed.
StopCompletes ==
  (mProfileUpdated /\ mNextProfile = None /\ conn # "dead")
    ~> (report = "DISCONNECTED" \/ mNextProfile # None)

\* startTimeout's comment: an attempt that has not connected in time is taken
\* to have failed, so CONNECTING does not last.
ConnectResolves == report = "CONNECTING" ~> report # "CONNECTING"
=============================================================================
