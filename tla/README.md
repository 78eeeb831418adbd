# Verification of VPNCore

VPNCore is an Android VPN client with two protocols behind one interface: IKEv2,
through strongSwan's charon linked in by JNI, and OpenVPN, through a child
process that is steered over a management socket. The modules model two layers.
The upper one is the life of a session, in Java: which thread may start, replace,
pause or stop it, what the user is told, and what is left running afterwards. The
lower one is the part of the two protocols, in C, that carries a session over an
unreliable network: OpenVPN's control channel, its key renegotiation and its
replay protection, and the roaming of an IKE_SA.

Paths: `IK` is `src/strongswan/.../org.ikev2.android/logic/Ikev2VPNImpl.java`;
`OV`, `MT`, `PT`, `DR`, `VS` are `OpenVPNImpl`, `core/OpenVpnManagementThread`,
`core/OpenVPNThread`, `core/DeviceStateReceiver` and `core/VpnStatus` under
`src/openvpn/src/main/java/com/blinkt/openvpn/`. C files of OpenVPN are in
`src/openvpn/src/main/cpp/openvpn/src/openvpn/`, those of charon in
`src/strongswan/src/libcharon/sa/`, and `android_net.c` in the Android frontend's
`libandroidbridge/kernel/`.

## Inventory

| component | state | operations | hard behaviour | correct when |
|---|---|---|---|---|
| IKEv2 session (`IK`) | current and next profile, `mState`, `mErrorState`, retries, TUN and blocking device | `onStartCommand`, `onRevoke`, `onDestroy`, `run`, `updateStatus`, `mTimeoutRun` | four threads, a monitor, two message queues, a join on the UI thread | events keep their order, a stop is reported, nothing stays open, destroy returns |
| OpenVPN session (`OV`, `PT`, `VS`) | management object, process thread, receiver, `isStarting`, `isStopService`, listener | `onStartCommand`, `startOpenVPN`, `disconnect`, `endVpnService`, `onDestroy`, connect timeout | five kinds of threads; sessions that overlap while one replaces another; a process that dies by itself | a start resolves, a stop ends the attempt, a replaced process is asked to exit |
| management interface (`MT`) | the static list `active`, sockets, hold flags | accept, input loop, `stopVPN`, `handleHold`, `pause`, `resume`, `networkChange` | calls from any thread, a socket that is not connected yet | commands reach the process they are for |
| device state (`DR`) | network, screen, user pause | broadcasts, `userPause`, byte count | broadcasts on the main thread against the management thread and a 3 s sleep | a wanted VPN is released, with the screen on it connects |
| service host (`app/.../vpn/*`) | bound service, protocol in use, pending permission dialog | connect, disconnect, bind, `onActivityResult`, `hasDestroy` | binder callbacks in any order, switching protocols | one protocol at a time, no request lost |
| control channel (`reliable.c`, `ssl.c`) | send and receive buffer, pending acknowledgements, packet ids | `tls_process`, `tls_pre_decrypt` | loss, repetition, reordering, full buffers, ids that wrap | TLS reads what was written, once, in order, all of it |
| key states (`ssl.c`) | primary and lame duck key of each side, deadlines | soft reset, negotiation, `tls_pre_encrypt`, data key lookup | both sides may start, neither knows when the other is ready, deadlines | what is sent can be decrypted, there is always a key |
| replay protection (`packet_id.c`) | next id, window of ids seen and when | `packet_id_write`, `crypto_check_replay`, reap | any packet again at any time, ends of the window, last id | nothing accepted twice, nothing in time refused |
| IKE roaming (`task_manager_v2.c`, `ike_mobike.c`, `ike_sa.c`, `android_net.c`, `NetworkManager`) | one exchange, queued tasks, jobs, addresses | connectivity callback, roam, retransmit, rekey, delete | network changes during an exchange, answers along the old path, exchanges without a path | no change is missed, both sides end with the same address |
| native bridge (`libandroidbridge`) | TUN fd, IKE_SA, events | `initiate`, updown, alert, reestablish | daemon threads under a lock, fd replaced while in use | the fd in use is the open one |
| traffic statistics | counters, listeners | sampling thread | producer and consumer threads | listeners see monotone counters |
| data store | typed, encrypted key/value map | get, put, remove | conversions | behaves as a typed map |
| route sets (`NetworkSpace`, `IPRange`, `IPRangeSet`) | sets of address ranges | add, merge, remove, to prefixes | off-by-one at range ends | denote the right set of addresses |
| profiles, configuration text, logging, UI, certificates, the other C code | - | - | text, I/O, third-party | not modelled |

The components meet as follows. The UI calls an *operation*
(`OpenVPNOperation`, `Ikev2VPNOperation`), which binds `VPNService`; the service
owns one `Ikev2VPNImpl` or `OpenVPNImpl` and forwards the Android callbacks to
it. States flow back through `VPNCallback.stateChange`. `OpenVPNImpl` owns one
`OpenVpnManagementThread` and one `OpenVPNThread` per session and a
`DeviceStateReceiver` that steers the former; `VpnStatus` is a global relay of
states and byte counts under one monitor. Below, the openvpn process runs TLS over
the control channel, whose end of a handshake changes the key states, which
choose the key whose packets the replay window then guards. On the other side
`NetworkManager` hands connectivity changes to `android_net.c`, which schedules
the roam of the IKE_SA; its task manager starts the exchanges.

## Modules

`Ikev2Session` is one `Ikev2VPNImpl`. A connect request is a number, its
session. Variables carry the fields' names; `main`, `conn` and `timer` say where
the three threads are; `mainQ` is the queue of runnables on `mHandler`. The
connection thread's pass of `run()` is split at every point where another thread
can see a difference: `ConnWake`, `ConnBlock` (blocking device, DISCONNECTING),
`ConnDeinit`, then `ConnFinish` or `ConnStart` followed by one of the three ends
of initialisation. It holds the object's monitor throughout, so
`setNextProfile` waits for `MonitorFree`. `RunPosted` and `ReadName` are the two
halves of a posted runnable: `stateChanged` tests `mCurrentProfile` and reads it
again. The daemon is an environment that calls `updateStatus` while it is up.
History variables (`session`, `charonSid`, `shown`, `failed`, `blocking`,
`requested`) are read by properties, and by nothing that decides.

`OpenVpnSession` is one `OpenVPNImpl` with the sessions it starts, numbered by
`onStartCommand`. Each request has a start thread of its own, and several may be in
`startOpenVPN` at once, over the one `mStarting`, `mManagement`, `mOpenVPNThread`
and `mProcessThread` of the object and the one socket path. `disconnect()` and
`endVpnService()` are called by every kind of thread: `call[t]` says where thread
`t` is in them, and each statement that another thread can see is a step: the
CONNECTING of a lost network after its test of `isStarting` (`ReportAbort`), the flag
(`SetFlag`), `stopVPN` and its answer (`onRevoke`), the report of DISCONNECTED and
the clearing of the fields under `mProcessLock` (`endVpnService`, `ClearFields`), the
removal of receiver and listener (`Unhook`), the last report of
`endVpnService(false)` (`ReportLate`). The end of a process is three steps, so that
`setReplaceConnection` and `disconnect` can come between the exit, the test of
`mNoProcessExitStatus` and that of `isStopService`; `mOpenVPNThread` is assigned
(`NewOpenVPNThread`) and read again (`StartProcess`). `NullReceiver` is the exception
at OV:519 that ends the app. Levels are abstracted to the branches of
`stateTransform`, which is one step but for LEVEL_NONETWORK. A listener that was not
registered is told the last level of `VpnStatus`; that is global, so any level can be
the one. The early return for START_SERVICE (OV:149) is no input: nothing in the
repository sends that intent (the `bindService` of `ConfirmDialog` is commented out).
An interrupted process thread notices at the next line of output, which is the exit of
a process that was asked to; `forceStopOpenVpnProcess` sleeps with `mProcessLock`
held, so its block is one step.

`OpenVpnHold` looks into what `OpenVpnSession` abstracts to "the hold is
released": the receiver's three states, the flag `mWaitingForRelease`, and the
process at the other end of two streams. A main-thread handler is two steps, the
receiver's fields and then the call; `releaseHoldCmd` is cut at its sleep;
`updateByteCount` is test, write, call. The process' side comes from
`manage.c` (`management_hold`, `man_hold`, `man_signal`, `man_network_change`):
a held process answers SIGUSR1 by repeating its HOLD line. How much traffic the
window saw is a free choice, and `netchangereconnect` has its default, true.
A pause is *not* always obeyed, and the model shows it: a pause during the sleep of
`releaseHoldCmd` sends no SIGUSR1, because the flag is still set, and the release
follows (MT:435); and after a pause by the user a network that goes and returns within
DISCONNECT_WAIT releases the hold on the main thread alone (DR:231). Nothing in the
code or its documents promises otherwise, so no property is claimed of a pause.

`ReliableChannel` is the control channel of one key between two peers. A packet is
its number in the sender's stream and the wire carries `pid(n)`, its number modulo
`PidMod`; the comparisons of `reliable.c` are made on those. `tls_process` is one
action per pass: open the handshake, send what is due, write, or acknowledge
alone. Retransmission timers expire at any time (`Expire`); TLS is external and
writes when it likes. `FifoChannel` is the abstract specification, a stream in
each direction that is read in order, and `IsFifo` the refinement: `written` is
`next` and `readBy` what TLS has been given.

`TlsKeys` is what the control channel is for after the first key: each side's
primary and lame duck key with their states S_INITIAL to S_NORMAL_OP, from soft
reset to retirement. The control channel of a negotiation is reduced to two
packets in each direction, the reset and the key material, with their
acknowledgements. Time passes for both sides together (`Tick`), but not past a
deadline that the code's wakeup meets (`Punctual`). `tls_pre_encrypt` and
`DataKey` are the two lookups that have to agree.

`ReplayWindow` is a sender, a receiver and a network that is simply the set of all
packets sent. The window is a function from the ids it covers to the time each was
seen; the loops of `packet_id_add` and `packet_id_reap` become its definition
(`Marked`, `Expires`). The options of a session are chosen in `Init`. The history
variable `accepted` is what the properties are about.

`IkeMobike` is the phone's established IKE_SA with the part of Android that tells
it of the network, and the gateway's half of the same code. The record `sa` holds
the fields of `initiating`, the active and queued tasks and the retransmit jobs; a
handler is a function from `sa` to `sa` (it has the IKE_SA checked out), and
`Perform` sends the packet it leaves. `route` is what the kernel would answer,
`window` the time in which `connectivity_cb` merges events, `due` roam jobs to be
run. `AddressAppears` is the address that comes without a callback. A rekey and a
delete compete with MOBIKE for the one exchange.

`MC...` modules instantiate them for TLC. Each of the seven has a module of
theorems that extends it: `Ikev2SessionProofs`, `OpenVpnSessionProofs`,
`OpenVpnHoldProofs`, `ReliableChannelProofs`, `TlsKeysProofs`,
`ReplayWindowProofs`, `IkeMobikeProofs`.
Definitions marked `mutant` are wrong on purpose and used by no specification:
putting one in the place of the definition after it must break a property.

## Runs

| run | bounds | distinct states | shows |
|---|---|---|---|
| `ikev2_session` | 2 sessions, queue 2, 1 retry | 0.37 million | `TypeOK`, `NoStaleEvents`, `DestroyBlocksOnlyAfterFailedInit`, `NothingLeftBehind`, `SwitchKeepsDevice`, `StopCompletes` hold |
| `ikev2_timeout` | 1 session, queue 2, 2 retries | - | `ConnectResolves` is violated |
| `openvpn_session` | 1 start, 2 stops | 0.32 million | `TypeOK`, `StartResolves`, `StopEnds` hold |
| `openvpn_replace` | 2 starts, 1 stop | - | `OldIsExited` is violated |
| `openvpn_hold` | 2 networks, 5 events, 1 restart | 0.5 million | `TypeOK`, `HoldIsScheduled`, `HeldIsReleased` hold |
| `openvpn_screen` | 2 networks, 3 events | - | `ScreenOnConnects` is violated |
| `control_channel` | 3 and 1 packets, buffers of 2, ids modulo 16, one datagram each way | 42 thousand | `TypeOK`, `PurgedHasArrived`, `NoReceiveDeadlock`, `IsFifo`, `AllArrive` hold |
| `tls_keys` | 3 renegotiations, 2 key ids, one packet each way, with loss | 28 thousand | `TypeOK`, `DataFlows`, `AlwaysAKey`, `KeysMeet` hold |
| `tls_keys_reordered` | 2 renegotiations, two packets each way, reordered and repeated | - | `DataFlows` is violated |
| `ike_mobike` | 2 addresses, 3 changes, 1 retransmission, one packet each way | 0.25 million | `TypeOK`, `OneTimer`, `AnswersFit`, `RoamNoticed`, `RoamSettles` hold |
| `ike_mobike_agree` | the same with two packets each way | - | `AddressesAgree` is violated |
| `replay_window` | 4 ids, reap every 2, clocks to 3 and 6, the options of `MCOptions` | 0.41 million | `TypeOK`, `NoReplay`, `NextIsFresh`, `LateIsAccepted`, `TooLateIsRefused` hold |

Why these bounds: two IKEv2 sessions are what a replacement needs, and every property
relates at most two. The daemon may post to a queue shorter than the bound, the app's own threads
always, so a late event of the old session and the next START are pending
together (the theorems hold for any queue).

OpenVPN sessions: `openvpn_session` has one start and two stop requests or lost
networks, so that the main thread, the timeout, the management thread with its HOLD line and the
process' thread can be in `disconnect` and `endVpnService` at once. Two
starts are out of reach of an exhaustive search (more than 8.8 million states and
growing). Overlapping starts are therefore in `openvpn_replace`, where TLC stops at the
violation, and in the theorem `TypeCorrect`, for any number of them. What needs a
second start and has no property is listed with the hazards: a late CONNECTED of the
replaced session (OV:1193) and an exit that crosses `setReplaceConnection` (PT:115).

Five device events contain pause, network down, network up and two more; two
networks tell "same" from "other".

Control channel: three packets are the reset, one that arrives and one that
overtakes it, against a receive buffer of two; one acknowledgement per datagram
(`SendAckMax`) leaves the others pending. A datagram may be repeated any number of
times, and loss and retransmission give every order of arrival even with one in
flight in each direction.
Three packets with ids modulo 16 do not reach the wrap, and nothing is claimed of it:
`reliable_pid_in_range2` (reliable.c:78) compares plain unsigned numbers there. It
takes 2^32 control packets under one key, and `NoWrapAssumption` excludes it.

Key states: two key ids make `key_id` come round within three negotiations, as
eight do in the code. The unit of time is the handshake window (60 s in the code); the
transition window is longer (three units, 3600 s in the code), and a key is not
replaced again before its predecessor is gone (`RenegotiateAfter`; `reneg-sec` is
3600). These relations matter: when a key may be replaced after
one handshake window, or when there is a single key id, `DataFlows` fails.
`RenegotiateAfter` is the age of `--reneg-sec`. The other triggers, bytes, packets
and ids that run out (ssl.c:2791-2798), have no minimum age, and with a cipher of small
blocks the limit is 64 MB by default (ssl.c:303); what is said of keys holds for
sessions in which these do not fire sooner. `Advance` gives a negotiation the handshake
window, where `auth_deferred_expire_window` is the lesser of that and half of
`reneg-sec` (ssl.c:2748-2759), the same thing under `Timely`.

Replay window: four ids and a window of two contain the empty, the
partial, the full and the jumped window and the rollover; the receiver's clock
passes two reaps.

Roaming: two addresses and three changes are away, back and away again, or lost,
back, and changed during the exchange that follows. A packet pushed out by another
one is lost, which the network may do anyway.

Behaviours end when the bounds are used up,
so deadlock is not checked.

What the passing properties say of the code:

- `NoStaleEvents`: STATE_CHILD_SA_UP is posted without a look at
  `mIsDisconnecting`, and yet no event of an earlier session is applied after
  the START of a later one, because `deinitializeCharon` ends the daemon's
  threads before the next START is posted to the same queue.
- `DestroyBlocksOnlyAfterFailedInit`: `onDestroy` skips the wake-up when
  `mState` is DISABLED and then joins. That hangs the UI thread in exactly one
  case: `initializeCharon` failed, DISABLED is on display and the thread waits.
- `NothingLeftBehind`: the same failure is the only way to end with the blocking
  TUN device open.
- `SwitchKeepsDevice`: traffic has no device between two profiles only if
  opening the blocking one failed or the old daemon's late `establish` closed it.
- `StartResolves`: with a server that never answers, a process that dies or a HOLD
  line that comes before the receiver is there, the callbacks see CONNECTED or
  DISCONNECTED in the end.
- `StopEnds`: `onRevoke` calls `endVpnService` only if `stopVPN` answers false; if it
  answers true, the process' own exit does. Whoever asks, and with two threads asking
  at once, `isStarting` does not stay set. It does *not* say that DISCONNECTED is the
  last report, which is false: a lost network that has tested `isStarting` (OV:1030)
  reports CONNECTING (OV:1032) after another thread's `endVpnService` has finished,
  and a STATE line processed before the listener is removed (OV:363) does the same.
- `PurgedHasArrived`, `IsFifo`, `AllArrive`: acknowledging replays, too, is what
  keeps the window moving when acknowledgements are lost, and it is safe because
  a packet is put in the buffer before its acknowledgement is queued.
- `NoReceiveDeadlock`: `reliable_wont_break_sequentiality` and
  `reliable_not_replay` together keep a slot for the packet that TLS waits for.
- `DataFlows`, `AlwaysAKey`, `KeysMeet`: on a network that keeps the order (TCP,
  or UDP without copies) the old key is kept, and the new one withheld, long
  enough; two soft resets that cross become one negotiation.
- `NoReplay`, `LateIsAccepted`, `TooLateIsRefused`: between them they fix what the
  window accepts. openvpn.8 says that a packet more than `time_backtrack` late is
  refused; as expiry runs every `SEQ_REAP_INTERVAL` only, that holds with that
  much delay, which is what `TooLateIsRefused` says.
- `RoamNoticed`, `OneTimer`: merged events, an address that comes without a
  callback and a deferred exchange are always followed by a roam or a job.
  `AnswersFit`: the answer with the right message id is the right answer.
- `HoldIsScheduled`, `HeldIsReleased`: the flag is set before the receiver is
  asked, and a late pause of `updateByteCount` cancels no release that is still
  wanted, so none is lost.

The five violations are disagreements between the code and its comments or
documents:

- `ikev2_timeout`: IK:483 says that what is not connected in 5 s is taken to
  have failed; after two retries without an error `mTimeoutRun` says nothing.
- `openvpn_replace`: OV:494 "An old running VPN should now be exited"; a second
  start thread is past that point when the first starts its process (OV:191), which
  then runs unasked beside the new one. It takes no overlap after a stop that came
  before the process had connected: OV:315 says that a false answer of `stopVPN` means
  that the thread has ended, `endVpnService` drops `mProcessThread`, and the next start
  has nothing left to interrupt.
- `openvpn_screen`: DR:166 "the screen is on now, connect the VPN"; a late write
  of `updateByteCount` (DR:102) turns the screen state off again and nothing
  resumes the VPN.
- `tls_keys_reordered`: openvpn.8:5106 "a graceful transition from old to new
  key"; a copy of the soft reset that arrives when the server has sent its key
  (ssl.c:3688) is taken for a new request, and the key in use is freed.
- `ike_mobike_agree`: ike_sa.h:813 "addresses are updated"; an update that took
  the other path is answered, the answer dropped for a newer check
  (ike_mobike.c:551), and the check sees no reason for an update. Phone and
  gateway then differ about the phone's address until the next change.

Two more that no run states. DR:230 "Same network, connection still 'established'":
with the user's pause standing, the call releases the hold. openvpn.8, on
`--replay-window`, gives `t` seconds for late packets; see `TooLateIsRefused` above.

## Fairness

`Ikev2Session`: weak fairness of the main looper, the connection thread and the
timeout thread; all three are Android threads that nothing blocks for ever (the
join is an action that is simply not enabled). The daemon, the peer and the user
owe nothing. `OpenVpnSession`: weak fairness of an `onStartCommand` that has begun, of
the timeout, of every thread that is inside `disconnect` or `endVpnService`, of each
start thread, of the exit of a process *that was asked to exit*, and of what its
thread does then; none of the server, the network, the user, the management
thread's input. `OpenVpnHold`: the threads, and the process reading its
commands; broadcasts, traffic and restarts are free.

`ReliableChannel`: weak fairness of each peer's loop and timers (the event loop
wakes up for them), strong fairness of the arrival of each packet and of each
acknowledgement: what is sent again and again gets through now and then. That is
the least a network must do for any retransmission to be of use. `TlsKeys`: the
loops, the timers, arrival, and from some time on no loss; time itself is under no
obligation. `IkeMobike`: the notifier thread and charon's workers, under one weak
fairness condition, the weakest that suffices; nothing of the network, because
what is not answered is given up. `ReplayWindow` has no liveness property.

## Theorems

All hold for every value of the constants that the named assumptions admit. Every
safety property that a passing run checks is stated by one of them.

- `Ikev2SessionProofs!TypeCorrect`: `Spec => []TypeOK`. Not inductive as it
  stands: `LoadedOK` (a loaded `retries` is below the limit while its successor
  is about to be stored) bounds the non-atomic increment, `TakenOK` says that a
  session being initialised is a real one.
- `Ikev2SessionProofs!CleanExit`: `Spec => []NothingLeftBehind`, by `CleanInv`:
  the daemon is up only with its profile current and the thread at `wait`,
  `stop` or `deinit`; a TUN device belongs to a daemon; a blocking device that
  is open while no profile is current, and none follows, is a failed session's.
- `Ikev2SessionProofs!EventsInOrder`: `Spec => []NoStaleEvents`, by `OrderInv`:
  the sessions on the queue are sorted and lie between the one on display and
  the one the thread took last, the daemon posts for that one only (this needs
  `CleanInv`: a new profile is taken only with the daemon off), and the next
  profile is not an earlier one.
- `Ikev2SessionProofs!DestroyReturns`: `Spec => []DestroyBlocksOnlyAfterFailedInit`,
  by `DestroyInv`: a DISABLED on the queue is that of a thread that has ended, or
  of a failed session whose START is applied or comes before it; so DISABLED on
  display means one of the two (`DisabledShown`), and a thread that onDestroy has
  woken runs to its end (`JoinEnds`). `OrderInv` keeps a later START from
  overtaking.
- `Ikev2SessionProofs!SwitchKeeps`: `Spec => SwitchKeepsDevice`, an action
  property, from `BlockedFirst`: when the daemon is about to be stopped for
  another profile, the blocking device is open, or failed, or was undone.
- `OpenVpnSessionProofs!TypeCorrect`: `Spec => []TypeOK`, for any number of start
  threads at once. Its part `ObjectsOK` is not about types: an accepted socket has its
  process, a thread that runs has the OpenVPNThread it runs (although the field is read
  again at OV:511 and may be another's, or null), and the receiver is created for a
  management thread that is there.
- `OpenVpnHoldProofs!TypeCorrect`: `Spec => []TypeOK`.
- `OpenVpnHoldProofs!NoReleaseLost`: `Spec => []HoldIsScheduled`. The property speaks of
  states at rest; the invariant says what is on the way to them. A process that is held
  unknown to the app has its HOLD line or a release in a stream (`HoldIsKnown`); one
  that should be connected has a release, a SIGUSR1 (which it answers with HOLD) or a
  thread on its way to a release (`ReleaseComes`); the main thread pauses only what
  should not be connected (`MainAgrees`); and a pause of `updateByteCount` that comes
  too late finds nothing to cancel, or a main thread that will schedule it again, or
  will send its SIGUSR1 (`LatePause`).
- `ReliableChannelProofs!TypeCorrect`, `PurgeIsSafe`, `FullBufferMoves`:
  `TypeOK`, `PurgedHasArrived` and `NoReceiveDeadlock` always hold, for any buffer sizes and any number of datagrams. The invariant `IInv`: what
  is unacknowledged lies within one send window (`SendWindow`); what waits for TLS
  lies within one receive window that starts at the packet TLS reads next
  (`RecWindow`); acknowledgements, listed or on the wire, are of packets that were
  received (`AcksHave`, `WireHas`); TLS has read a first part of the stream
  (`InOrder`). The windows make the comparisons modulo `PidMod` agree with those of
  the numbers; `NoWrapAssumption` keeps them so.
- `ReliableChannelProofs!ImplementsFifo`: `Spec => IsFifo`, the refinement. The
  initial states map to `FifoChannel`'s; a pass of `tls_process` writes one packet at
  most and reads a run of packets that starts at the next one (`Deliver`, by `RecWindow`
  and `InOrder`), which is a `Step` of the streams; every other step is a stutter.
- `IkeMobikeProofs!TypeCorrect`, `OneRetransmission`, `AnswerIsToTheRequest`,
  `NoChangeMissed`: `TypeOK`, `OneTimer`, `AnswersFit` and `RoamNoticed` always hold.
  `InStep` relates the two ends: the gateway waits for the phone's exchange or has
  answered it, and what is in flight with the current message id is of the same
  exchange type; so a late response is of an older id and dropped. `NetOK` ties the
  last event in the queue to what the system says. Handlers are functions of `sa`, so
  that one lemma for each of `retransmit`, `initiate` and `queue_mobike` serves all of
  the actions (`RestOK` is stated for their intermediate values).
  "No packet, so not deferred" is *not* invariant: when the network changes again
  while a deferred exchange is answered late, `deferred` stays set without an exchange
  (`task_manager_v2.c` clears it at lines 474 and 637 only). It does no harm: the
  next exchange starts by clearing it, and the theorems do not need it.
- `TlsKeysProofs!TypeCorrect`: `Spec => []TypeOK`.
- `TlsKeysProofs!KeyIsThere`, `DataIsDecrypted`: `Spec => []AlwaysAKey` and
  `Spec => []DataFlows`, on a network that keeps the order, if a key is used for two
  handshake windows at least (`Timely`). Until a negotiation fails, `Agree` holds:
  each side's unacknowledged packets, received packets and deadlines fit its state
  (`Own`); and both are at the same key, or one has sent a reset that the other has
  not read (`Leads`). At the same key, what one side takes for acknowledged the other
  has (`Fits`), the other is less than a handshake window behind unless this side is
  about to fail, and at the end of the hold of `tls_pre_encrypt` the other can decrypt
  (`Even`). `NextId` is why the two keys are told apart: successive key ids differ, at
  the wrap to 1 too. `RoundsIs` lists what the loop in `tls_process` can do in one
  call.

- `ReplayWindowProofs!NoPacketTwice`, `LateAccepted`, `TooLateRefused`,
  `IdsAreFresh`, `TypeCorrect`: `NoReplay`, `LateIsAccepted`, `TooLateIsRefused`,
  `NextIsFresh` and `TypeOK` always hold, for every window, both limits, any
  number of ids, TCP and UDP, long and short form. The invariant relates the
  window to `accepted`: what was accepted is older than the window or marked in it
  (`Known`), every mark is the time of an accepted id (`MarkIsTime`), the window
  has all the slots it may have (`Full`, without which a window that was started
  anew could forget an id), and expired slots are a lower part of it that an old
  enough id justifies (`ExpiredBelow`, `ExpiredIsOld`) and that the last reap has
  made complete (`Reaped`). The parts are predicates on a receiver, so that one
  lemma shows a reap keeps them (`ReapKeeps`) and another an accepted packet
  (`AddKeeps`, by whether the window slides or starts anew). For the sender
  `SendInv` says that all that was sent is at or before the last id.

The assumptions are the named ones of each module: the bounds are naturals, at
least one request can be made; for `ReplayWindow`, the clocks start after the two
values that mark a slot as unseen or expired; for `IkeMobike`, `None` is no packet
and no task; for `ReliableChannel`, a key's ids do not come round (2^31 packets of
one key, see the run `control_channel`).

`Timely` is a hypothesis of two theorems and not an assumption of the module: the
code checks neither relation. `options.c` has 60 s for `--hand-window` and 3600 s for
`--reneg-sec` and `--tran-window` and takes any other numbers; over UDP the network
reorders, which the run `tls_keys_reordered` is about. The bound is exact: with one unit
less (handshake window 1, renegotiation after 1; or 2 and 3) TLC finds a state in which
one side is a whole key ahead and the other has not got the key it sends with.

Where Booleans are set by assignment the proofs go through Zenon, elsewhere SMT.

Only model-checked: `StopCompletes`, `StartResolves`, `StopEnds`, `HeldIsReleased`,
`AllArrive`, `KeysMeet`, `RoamSettles` (liveness is out of the prover's reach). The
properties of the five violation runs are false, and so have no theorem.

## Not modelled

Sessions: a redundant `userPause(false)`; the interrupt path of `run()`, which nothing
triggers; in `OpenVpnSession` a replayed LEVEL_NONETWORK at `addStateListener`,
which needs a late event inside `endVpnService` first, the second run of a broken PIE
binary (PT:79-94), and the `mProcess` field that two process threads share when they
run one OpenVPNThread.
Management commands other
than hold, signal, state and network change.

Control channel and keys: exponential backoff, the session ids that
acknowledgements carry, hard resets of a running session and the untrusted session
they open, deferred authentication, key derivation, what TLS itself says.

Replay window: `packet_id_persist`, which static key mode uses, and tls-auth and
tls-crypt with `--replay-persist` (ssl.c:1121, init.c:2887, 2899; off by default); the
renegotiation that `packet_id_close_to_wrapping` asks for; 32-bit time; the test for
id 0 (packet_id.c:211-214), which the sender never writes and the type of a packet
excludes; failures of the buffer writes (packet_id.c:363-385), which use up an id.

Roaming: failures of `get_source_addr` other than ENETUNREACH, which schedule no
recheck (android_net.c:122-138), so `RoamNoticed` is not claimed of them;
INVALID_SYNTAX, which destroys the IKE_SA, and `pre_process`
(task_manager_v2.c:714-729); rekeyings that fail; exchanges the gateway starts, NAT mappings, fragments, message id sync,
IKE_SA_INIT, IKE_AUTH and the reset of the task manager, rekey collisions, a route
that changes within one handler, registering with `NetworkManager`. The window of
`android_net.c` and the job at its end are one step, so an event between the two
is merged with the next.

The service host: its behaviour is mostly that of Android's bound services, which
would have to be modelled from outside the repository. The traffic counters, the
data store and the route sets are sequential or nearly so, and wait in the plan.
OpenSSL, mbedTLS, asio, lzo, lz4 and the rest of openvpn and charon are
third-party code outside the sessions' own protocols, and are the bulk of the
repository's lines. The components are listed with their reasons in
`PROJECT.json`.

## Plan

1. Theorems: all safety properties are proved. Left: action properties that follow
   from the same invariants (a side never skips a key, nothing TLS has read is given
   to it again), and when the properties of the violation runs do hold, as theorems
   under the hypothesis that excludes the counterexample.
2. `VPNHost`: `VPNService`, `VPNInstance` and the two operations. A disconnect
   while a bind is pending is the case to look at: `Ikev2VPNOperation.disconnect`
   does nothing without a service, and `onServiceConnected` starts afterwards.
3. `AndroidService`: the native bridge's TUN device, packet thread and
   reestablishment.
4. `NetworkSpace`, `IPRange`, `IPRangeSet` against sets of addresses; `NetTraffics`.
