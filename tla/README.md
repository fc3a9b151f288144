# Zerodata Android SDK in TLA+

The Zerodata SDK opens a VPN that carries the traffic of zero-rated apps. It is
a fork of OpenVPN for Android (`openvpn/`) with a small Kotlin SDK on top
(`zerodatalib/`) and a demo app (`app/`). This directory specifies the parts of
it whose correctness depends on timing: several threads, two processes and a
socket.

## Inventory

Two processes of one app: the app itself, with the SDK and the activities, and
`:openvpn`, in which `OpenVPNService` runs. The service starts a third, native
process, `openvpn`, and talks to it over the management socket.

| Component | State it keeps | Operations | Hard part |
|---|---|---|---|
| `DeviceStateReceiver` | `network`, `screen`, `userpause`, `lastConnectedNetwork`, a posted `mDelayDisconnectRunnable`, the last minute's traffic | connectivity, screen on and off broadcasts; `userPause`; `updateByteCount`; the timer | runs on the main looper, on binder threads and on the management thread, without locks |
| `OpenVpnManagementThread` | `mWaitingForRelease`, `lastPauseReason`, a posted `mResumeHoldRunnable`, the socket, the static list `active` | `pause`, `resume`, `networkChange`, `stopVPN`; the lines HOLD, STATE, PASSWORD, NEED-OK, PROXY, PK_SIGN, PROTECTFD | its calls come from other threads than its lines |
| openvpn's management interface (vendored C) | the hold, `hold_release`, a thrown signal | `hold`, `signal`, `network-change`; hibernating at start and restart | commands cross lines on the socket |
| `OpenVPNService` | `mProcessThread`, `mManagement`, `mOpenVPNThread`, `mStarting`, `mDeviceStateReceiver`, the tun configuration | `onStartCommand`, `startOpenVPN`, `endVpnService`, `onRevoke`, `onDestroy`, `openTun` | a start replaces a session whose threads are still ending |
| `OpenVPNThread` | the process, `mNoProcessExitStatus` | run, stop | reports an exit to a service that may have moved on |
| `NetworkSpace`, `CIDRIP` | a set of networks to include or exclude | `generateIPList` | overlapping networks of both kinds, prefix arithmetic |
| `VpnStatus`, `OpenVPNStatusService`, `StatusListener` | last state and level, listeners, log buffer | `updateStateString`, registration, broadcast | a copy of the state in the other process |
| `ProfileManager` | per process a profile map and the list in the preferences; one file per profile | add, save, remove, `get` with retries, reload | no lock, between threads or processes: a reload replaces the map while another thread adds, and each process writes files and the list from a map of its own |
| Zerodata SDK | tokens and the profile's name in the preferences | `configure`, `connectZeroData`, `disconnectZeroData` | coroutines that do not wait for what they started |
| `LaunchVPN`, `DisconnectVPN`, external API, Orbot helper, `PasswordCache`, `TrafficHistory`, `LogFileHandler`, config parser | small, each its own | | Orbot's answer races a timeout; the rest is sequential |

What makes each correct:

- Pause control: a VPN that should run comes up, a paused one stays down, no
  hold or wakeup is lost, and what the user sees is what is.
- Service: at most one session is alive once starting is over, and a session
  that ends ends only itself.
- Routes: an address is routed into the VPN exactly if the longest prefix that
  covers it is an included one, and the list is disjoint.
- Status: a registered client eventually shows the service's last state.
- Profiles: no profile is read half, what is listed can be loaded, and a connect
  finds the profile it has just fetched.

`PROJECT.json` lists every component, modelled or not, and under `hazards` the
places in the code where these can go wrong.

## The modules

| Part | Modules | Model checking | Proofs |
|---|---|---|---|
| Pause control | `ServiceThreads`, `DeviceStateReceiver`, `ManagementHold`, `OpenVpnManagementThread`, `HoldHandshake` (abstract), `PauseControl` (composition) | `MCPauseControl` | `PauseControl_proofs`, `PauseResume_proofs` |
| Sessions of the service | `ServiceLifecycle`, `OneSession` (abstract) | `MCServiceLifecycle` | `ServiceLifecycle_proofs` |
| Tun configuration | `TunConfig` | `MCTunConfig` | `TunConfig_proofs` |
| Route splitting | `RouteSplit` | `MCRouteSplit` | `RouteSplit_proofs` |
| Profiles | `ProfileStore` | `MCProfileStore` | `ProfileStore_proofs` |
| State and log in the other process | `StatusFeed` | `MCStatusFeed` | `StatusFeed_proofs` |
| Proxy query and Orbot | `ProxyQuery` | as it is | `ProxyQuery_proofs` |

The parts meet at a few calls. `PauseControl` is the life of one session between
the connection of openvpn to the management socket and its end;
`ServiceLifecycle` has the sessions around it and abstracts what happens within
one. `TunConfig` is what the management thread of `PauseControl` does on
NEED-OK; a signal of `PauseControl` is its `Signal`, a session of
`ServiceLifecycle` its `StartProcess`. `RouteSplit` turns the routes that `TunConfig`
collects into what `VpnService.Builder` gets. A `StartService` of `ProfileStore`
is a `StartCommand` of `ServiceLifecycle`. `StatusFeed` carries what
`PauseControl` calls `shown` to the app. `ProxyQuery` is what openvpn does between a hold of
`PauseControl` that was released and the connection. They are checked one by one: the calls
between them carry no state that the other part's properties depend on, and
each module leaves open, as a choice, what the other one decides.

Definitions whose name ends in an underscore and a word (`EndVpnService_KeepsThread`)
are fault models: they stand beside the definition they vary, are in no specification,
and are there to show that a property fails when the code has that fault.

## Plan

Done: pause control; `ServiceLifecycle`; `ProfileStore`; `RouteSplit`;
`TunConfig`; `StatusFeed`; `ProxyQuery`. Left, in this order:

1. The rest of the management thread: PROTECTFD against the descriptors of the
   socket, PASSWORD and PK_SIGN with `PasswordCache`.
2. The SDK's coroutines on top of `ProfileStore`, and the always-on and
   connected profiles' preferences with a restart by the system.

## The runs

| Run | Question | Bounds |
|---|---|---|
| `PauseAll` | an API client on a binder thread pauses and resumes, redundantly too, while networks come and go: no hold lost, handshake followed, no signal left over in a hold | 1 network, 2 timers, 2 lines |
| `PauseUser` | netchangereconnect off, user on the main looper: a paused VPN is never released, each pause ends with openvpn in a hold unless a HOLD line crossed it, and is shown | 2 networks, 2 lines, 2 callbacks |
| `PauseLive` | no redundant calls, under fairness: no wakeup lost, a VPN that should run leaves its holds, the handshake makes progress | 1 network, 2 timers, 1 line |
| `ServiceLifecycle` | sessions in turn, and starts and stops at any time, with processes that never connect | 3 start commands in turn, 2 at any time, 2 instances |
| `TunConfig` | what a connected process has for a tun, over restarts, signals and new processes | 4 setups, 4 configurations, 1 local network |
| `RouteSplit` | every set of networks of both kinds | 8 addresses, 4 networks |
| `ProfileStore` | imports, restrictions, removals and launches by a coroutine, both main threads and a binder thread | a profile of its own and a managed one, 4 operations, 1 try |
| `StatusFeed` | a client of either kind registers among updates, lines and a crash | 3 events |
| `ProxyQuery` | queries for a proxy over restarts, exits, timeouts, Orbot's broadcasts and holds released twice | 2 sessions, 2 queries |
| `PauseFlap` | violation: a network that returns within the wait time ends the user's pause | |
| `ConnectFinds` | violation: a connect finds no profile, though it is saved | 1 profile, 2 operations, 2 tries |
| `OrbotTwice` | violation: a callback is removed that is not registered | 1 session, 2 queries |

## Pause control

### The code

`DeviceStateReceiver` decides whether the VPN should run: `shouldBeConnected()`
is true when the network, the screen and the user all say so. It acts through
three calls into `OpenVpnManagementThread`: `pause`, `resume` and
`networkChange`. openvpn cannot be paused as such. It holds at start and at
each restart, says so with a `>HOLD:` line, and waits for `hold release`. To
pause, the client sends `signal SIGUSR1`, which restarts openvpn into a hold
that is then not released; to resume, it releases the hold. A hold of a
reconnecting openvpn is released by a callback posted with the wait time
(`mResumeHoldRunnable`), unless the VPN should not run by then.

### The modules

| Module | Models |
|---|---|
| `ServiceThreads` | the threads main, mgmt and binder, with what each is in the middle of |
| `DeviceStateReceiver` | `core/DeviceStateReceiver.java` |
| `ManagementHold` | the openvpn process: `management_hold`, the commands, the restart, both directions of the socket |
| `OpenVpnManagementThread` | pause, resume, networkChange, HOLD and STATE of `core/OpenVpnManagementThread.java` |
| `HoldHandshake` | abstract: up, announced, waiting, releasing |
| `PauseControl` | the composition, its fairness and its properties |
| `MCPauseControl` | the values of the constants |
| `PauseControl_proofs`, `PauseResume_proofs` | the theorems |

Variables have the names of the fields they stand for. Three have no field:
`timers` and `resumePosted` count callbacks in the looper's queue, and `lit` is
the last screen broadcast. `shown` is the last state `VpnStatus` was told,
where `"STATE"` stands for whatever openvpn reports. `crossed` is history: the
HOLD line read last told of a hold that was over, or whose release was already on the way.

Granularity: `pc[t]` is the next statement of thread t. A handler is one action
where no other thread can tell its statements apart, and is split where one
can: `SCREEN_ON` between its two looks at `shouldBeConnected()`,
`updateByteCount` between its check and its write, `handleHold` between
setting `mWaitingForRelease`, the decision and its consequence, `releaseHoldCmd`
between the removal of the callback (where it may sleep 3 s), the assignment and
the write. `networkChange` looks at `mWaitingForRelease`, and `releaseHold`, which it
calls, looks again. `getPauseReason()` is evaluated together with the assignment of
`lastPauseReason`; no property depends on which of several pause reasons is
shown.

openvpn's side follows one fact that is easy to miss. `man_read` processes every
line it has read before `management_hold` looks at `hold_release`: commands sent
after a release may still be processed in the old hold. So `LeaveHold` is an
action of its own, and `man_signal` in a hold ignores the signal and writes
`>HOLD:` again. Therefore a pause that is read together with the release before it
has no effect (`PauseTakesEffect`, below), and `PauseIsHeld` says that this is the only way.

Fault models (operators named `..._NoGuard`, `..._Lost` and so on) stand beside
the definitions they vary. They are in no specification; a property is
worth its name only if replacing the definition by its fault model violates it.

### Bounds and fairness

`MaxLines` counts the unread lines on the socket, both directions together; with
that many, no new event starts, but what has started runs to its end, so a
socket may hold more. Two are enough for a command and a line to cross, and a
restart or a release in a hold adds to them. `MaxResume` counts the
`mResumeHoldRunnable`s in the looper's queue in the same way: no broadcast and no restart of
openvpn's own accord starts with that many (`Room`), but a HOLD that has come is
handled and posts one more, as the code does. Two timers are one that
was left behind and one of the current outage. Two networks tell a different
network from the same one; in the other runs the change from no network to the
first is a different network already.

Fairness. A thread in a method goes on (`Continue`, weak). The looper's queue
and the socket are first in, first out, so a posted callback runs and a received
line is handled even if other events keep coming (strong, since those events
disable them again and again). openvpn reads its socket, leaves a released
hold and ends the tunnel on a signal (weak). Nothing is assumed of the user, of
the networks, of the screen, or of openvpn losing its connection.

`ResumeReleases` says that a VPN which from some time on should always be
connected is not held for ever. It is checked without redundant calls; with
them it is false (see the deviations).

### The proofs

All theorems are about `PauseControl!Spec`, for every set of networks, every
bound and every set of preferences, except where an assumption is named.

`PauseControl_proofs`
: `TypeCorrect` is for the others to use. `HoldsAreNotLost`: `NoLostHold` is not inductive as it stands,
because the client clears `mWaitingForRelease` before the release is written,
and openvpn may in the meantime leave the hold and enter another. The
strengthening relates every hold to the HOLD line that announces it, the flag,
the thread that has decided to release and the command on its way.
`HandshakeImplemented`: the safety part of `HoldHandshake` under the mapping
`stage`; every step of the composition maps to a step or a stutter.
`PauseIsAlwaysShown`: the invariant `ShowInv` says that in a hold the last line openvpn
has written is HOLD, so that a STATE which covers the pause is always followed by a
HOLD that shows it again, and that between a user pause and its being shown
some thread is about to show it or a SIGUSR1 is on its way to be answered with a HOLD.

`PauseResume_proofs`, on user pauses, under `NetChangeReconnect \subseteq {FALSE}` and
`UserThreads \subseteq {"main"}`
: `UserPauseKept`: no `hold release` is written while the user has paused. The
invariant `OnlyMainResumes` says that only the main looper ever decides to
release, and that it decides for a VPN the user has not paused; the looper
cannot run `userPause` in the middle of a release. `PauseIsAlwaysHeld`: at rest,
openvpn is in a hold after a user pause, if the last HOLD line did not cross a
release. The invariant `PauseArrives` follows the signal from `signalusr1` over the socket into the
restart or, in a hold, into a second HOLD line, up to the flag; `KnownHold` says that a flag which was
set by a line that did not cross a release is that of a hold which is still there, because
no one has decided to release it.

`PauseResume_proofs`, on wakeups, under `UserThreads \subseteq {"main"}`,
`Redundant = FALSE`, and a preference screenoff that does not change
: `WakeupsAreNotLost`. `ScreenInv` says what `screen` may be while a broadcast
is handled, `WakeupInv` that whoever changed the answer of
`shouldBeConnected()` last has yet to look at `mWaitingForRelease`.

The assumptions are those of the code paths, and each is needed:
with `netchangereconnect` on `PauseFlap` refutes `UserPauseIsKept`, with
redundant calls `ResumeReleases` fails (see the deviations).

Only model-checked: `ResumeReleases` and `HandshakeLive`, because liveness under
fairness is beyond the proof system used.

### Limits

- The memory model: the fields are plain Java fields of several threads. The
  model interleaves statements; a reordering of plain accesses, which Java
  allows, is outside of it.
- The session starts when openvpn has connected to the management socket.
  Stopping it, and a new receiver for a new session, are in `ServiceLifecycle`.
- `SIGUSR1` during openvpn's start, while it asks for a password, ends the
  process; the model has no password query. What a signal does to the questions
  of a tun setup is in `TunConfig`.
- A screen-off preference that changes in mid-session is in `PauseUser` but not
  in `PauseLive`, the run of `NoLostWakeup`.

## Sessions of the service

### Code and model

A session is the number of its start command and stands for the three threads
and the process that the command leads to. `pc[s]` is the next statement of
`startOpenVPN` on its own thread: `writeConfigFile`, the test of `mOpenVPNThread`
(`FindOld`), `setReplaceConnection` on what a second read of the field gives
(`MarkOld`), `stopVPN(true)` (`StopOld`), the sleep of a second,
`forceStopOpenVpnProcess` with its interrupt and a sleep that holds
`mProcessLock`, `openManagementInterface`, and the start of the process thread.
`thr[s]` is `OpenVPNThread.run`, whose end is a check (`CheckExit`) and a call
(`OpenvpnStopped`) that nothing keeps together. `active`, `socket`, `peer` and
`bound` are the static list of management threads, the state of their sockets,
who is at the other end, and who owns the socket's name: a new server
socket unlinks and takes over the name of the old one, so a process connects to
the newest thread, whichever session it is of. A process that cannot be started
or ends for an error of its options never connects (`Exit` of a process that is
"starting"); its management thread goes on listening, and its end may come before the
registration of the receiver, which `StartProcess` has posted to the main looper.
Between the two reads of `mOpenVPNThread` a teardown may clear it; the start thread then
throws, and Android ends the service's process (`Alive`), with which the model stops.

The fields of `OpenVPNService` are functions of the service instance, because
`stopSelf` lets Android destroy an instance whose threads still run and hold it.

What is abstracted: `endVpnService` is one action (the main looper and the threads
that call it clear its fields one by one; only `mProcessThread` is under the
lock). The process's own start is a step from "starting" to "connected". A
failure to write the configuration or to open the socket may happen at
any start. The notification preference `mNotificationAlwaysVisible` is false,
so `endVpnService` always removes the notification; the connected profile's
preference, the byte count listeners and the OpenVPN 3 path are left out. Pause and resume
commands reach `PauseControl` instead.

### Two environments

`calm` is chosen in the initial state. When it is TRUE, an outside event (a
start, a stop, an exit of its own accord) waits until no thread is under way
(`Quiet`), and the sleeps of the code are long enough for a process that was told to
exit to exit. This is the ordinary life of the service: `SessionIsWhole` and
`OneAtATime` are claims about it, and the second says that the service
implements `OneSession`, sessions one after another. When `calm` is FALSE,
everything may come at any time, and a process may take longer to exit than
the code waits. There `ConnectedIsReachable`, `ToldEnds` and `StartCompletes`
are what remains, and they hold in both: no connected process gets out of reach of a
stop, whoever is told to exit ends and is cleaned up after, no start hangs; the
last two up to an exception that ends them all, which `StartCompletes` rules out when it is calm.
`SessionIsWhole` includes what a process that never connected leaves: no process
thread, and perhaps the receiver of a management thread that nobody has connected to.
That an old process has exited when the new one starts is not among them
(`OldIsExited`, below).

Bounds: three starts in turn let a session replace one that replaced another;
two at any time give every interleaving of two starts, the end of a first session
and a destruction; a second instance is one that starts while threads of the first
still run. The start commands are bounded, so the system stops, and deadlock is
not checked. Fairness is that of threads and of the main looper, weak; strong for
`OpenvpnStopped`, which waits for a lock that others take and return; and a
process that was told to exit exits.

Proved in `ServiceLifecycle_proofs`, for any number of starts and instances:

`LifecycleTypes`
: with the types goes how far a start command has come and what there is of its session by
then (`Begun`), that a service with a process thread has a management thread (`Managed`), and that a
process posts one registration (`PostedOnce`); the bounds of `TypeOK` need them.

`ConnectedIsAlwaysReachable`, in both environments
: `ConnectedIsReachable` is inductive but for one thing, that
`openManagementInterface` opens a socket on a thread that has a connected one already; `Begun` excludes
it: a session has no socket before that statement, and start commands are numbered in order. Of the list of
threads the proof needs that `add` and `remove` keep the other threads in it (`ListAppend`,
`ListRemove`).

`SessionsAreWhole` and `OneAfterAnother`, about the calm environment
: the invariant `InOrder` follows a start command through its statements. Only the last one is under
way (`InTurn`). Until `StopOld` the old session is whole (`OldIsWhole`) or has ended before it connected
(`Missed`), during the sleeps it ends, as one that was
replaced (`OldIsEnding`), after them it is over (`OldIsOver`); the new thread alone has the name of the socket (`Listening`); once
started the session has the service until its end clears it (`CurrentIsWhole`). Beside these stages, a process
is the peer of its own thread, which is the last of the list (`SocketsInTurn`), and a
registration is posted for the session that runs or that has missed it (`PostedInTurn`). `SessionIsWhole` is what is left of this
when no thread is under way. For the refinement of `OneSession` it remains that a process starts when none
is alive (`OneLives`) and that no other step changes who is (`LiveStep`). The assumption that the environment is
calm is in the properties; for the other one they are false (`OldIsExited`, below).

`ToldEnds` and `StartCompletes` are liveness and only model-checked.

## Tun configuration

openvpn asks (`Send`), the management thread notes and answers
(`ProcessNeedCommand`, whose disjuncts are the cases of `processNeedCommand`), openvpn goes on
(`Receive`), or a signal ends the waiting (`Interrupted`). `Queries` is the order of
`do_ifconfig`, `do_route` and `open_tun`. That a signal interrupts a query is easy to
miss: `management_query_user_pass` returns without an answer, nobody looks at
that where a route is set, and the two queries at the end of the setup take it for an
error, which ends the process. A late answer belongs to a query that is no longer
asked; `Send` resets `answer`, as the process resets its query state.

Addresses, networks, DNS servers and domains are model values; a route is a
network with its kind. `NetworkSpace.addIP` keeps a network that is there
whatever its kind (`AddIP`). `OpenTun` adds the local networks that
`mAllowLocalLAN` excludes, any subset of `LocalNetworks`, after the comparison of
`GetTunReopenStatus`. They stay with the routes when `addAddress` refuses an address, which ends `openTun`
before it has reset a field; `establish` may fail after that. `HostAddresses` have a prefix length of 32, the others add
the network of the interface to the routes. A new process meets the same
service or a new instance; before it starts, the old management thread has
answered what it had received. Left out: the MTU, IPv6 routes (the same
code twice), the allowed applications, the branch OPEN_AFTER_CLOSE, which no
Android version that the SDK supports takes (minSdk 23).

`since` is history: the values that were noted since a tun was opened last.
`TunIsRecent` uses it to say that `openTun` forgets what it has used.
`TunCoversPushed` says what a connected process can count on: all it asked for
last is in its tun. That nothing else is in it is false: `TunIsPushed`.

Four setups are a tun, a setup that keeps it, one that changes it, and one more
after a new process. Four configurations differ in every field that the
comparison looks at, one has an address that adds no route, and one has no address. `MCTwo` has two
that share nothing, so that a leftover shows. Fairness: both sides go on, weak.

Proved in `TunConfig_proofs`, for any set of configurations with finite lists, any local networks and any number of
setups:

`TunTypes`
: needs to know what is still to be asked, the end of the queries for the configuration at hand or the one for a
tun (`Asking`), and which side has the query (`Quiet`).

`TunIsAlwaysRecent`
: all that the service's fields hold was noted since a tun was opened last, or is a local network (`Recent`).

`TunAlwaysCovers`
: the service's fields are not empty when a setup begins: a setup that ended early, or whose tun was kept, leaves them as
they are. So the invariant counts the queries that were handled (`Answered`) and says of the fields that they cover
this many of them, whatever else is in them (`GatheredUpTo`): addresses and routes that are there, a
domain, DNS servers as the end of the list. When the last query comes, they cover the configuration; a tun that is kept was opened with equal fields
(`Held`), and openvpn acts on an answer that fits the query (`AnswerFits`). The order of the queries enters as a
list of parts (`QueriesInOrder`).

## Route splitting

An iteration of `generateIPList`'s loop is one step. The priority queue is a
bag, since `generateIPList` may queue a network twice, and `Least` is
any element that the queue may return first. Eight addresses give prefixes of four
lengths, enough for a network in a network in a network with halves on both
sides; four networks are enough for every way in which a split network meets
another one. The build is a debug build, in which a failing `assertTrue` throws;
`AssertionFails` is its end. As long as none fails, a release build does the same.
`Clear` and the next set follow, because the service keeps its `NetworkSpace`.

What the code computes is not in every case what a longest prefix match over the
networks is. `RegularIsExact` says for which sets it is: those without a `Hidden`
and without a `Clashing` network. Both conditions were found from
counterexamples, and each is needed (`RoutesEmulate` fails without them). For the others
`UnanimousKept` remains: no address that all networks agree on changes sides.

Proved in `RouteSplit_proofs`, for every prefix length, every number of
networks and every table of sizes in which a network is twice its half:
`RouteTypes`, `DisjointRoutes`, `UnanimousIsKept` and `RegularIsAlwaysExact`. The sizes
of networks are a constant, so that the powers of two enter as one assumption; that
a larger size is a multiple of a smaller one follows from the doubling by induction,
which the prover cannot do, and is assumed beside it. From it comes `Nested`: two
networks that share an address are equal or one lies in the other.

Disjointness is inductive with two facts (`Ordered`): what is done lies before the
current network, and what is queued does not begin before it. `UnanimousIsKept` has an
invariant on the union of what is done, current and queued (`Held`), in two parts:
all of it is part of a network that was added with that kind (`FromInput`), and every
address that was added is still in it (`Kept`).

`RegularIsAlwaysExact` rests on these and on `RegularInv`. What is held stays as the added
networks were: one of each first address and prefix length, none hidden, none
clashing (`Calm`). `Follows` says which network decides for an address: the kind
that has the longest prefix among the networks that were added has it among those held.
Keeping `Calm` needs that the network being split is `Outermost`, no network of the other
kind contains it; then a half that is hidden or clashes would be so because the whole
one already was. It also shows why both conditions are there: `Hidden` is what
would let `ForgetCurrent` and `IgnoreNext` merge over a network between the
two, `Clashing` what would let `SplitCurrent` queue a network equal to one of the other
kind. `Meeting` rules the assertions out. At the end `Held` is the
result and disjoint, so what decides is what routes. `Terminates`, which
is liveness, is only model-checked.

## Profiles

Each process has its own `ProfileManager`, and neither a lock inside nor one between
them. `Threads` are those that use it:

| Thread | What it does in the code |
|---|---|
| `"main"`, the app's looper | `OpenVpnConfigurator` adds and saves what the SDK has fetched (posted to `Dispatchers.Main`); `LaunchVPN` looks up, asks for the password, `updateLRU`, starts the service; `AppRestrictions` |
| `Io`, coroutines of the SDK | `connectZeroData` on `Dispatchers.IO`: the look-up, with reloads |
| `"service"`, the looper of `:openvpn` | `onStartCommand` looks for the version that was launched; `AppRestrictions` |
| `Binder`, threads of `:openvpn` | `ExternalOpenVPNService`: add, start, remove |

`job[t]` is what a thread does and `pc[t]` its next statement. Java objects are shared: a change of the
object that a thread holds is a change of the map, if it is the one in the map (`Change`, `shared`).
`loadVPNList` replaces the map by an empty one (`LoadVPNList`) and fills it file by file (`LoadProfile`); a thread that
has read the field before puts its profile into the old map (`late`), and of two puts into one `HashMap` one may be
lost (`Put`). A look-up gives up after `MaxTries` with what the map has, an old version or nothing (`GetProfile`); the service
then stops. `openFileOutput` empties a file before it is written, so a file is
missing, `Torn`, or a profile; two threads that have it open at a time may leave any mixture (`mixed`). The list of
names reaches the disk some time after `apply` (`WriteList`), and the other process reads it again when it does
(`Names`).

`StoreIsReadable` is what such a store still keeps: between operations, what a map or a list names can be
loaded, unless it was removed or two threads wrote it at a time; the latter happens only to profiles of the
device's management, which both processes import, since one with a random UUID is known to
the other process only when it is saved. `StartIsAnswered` says that no start command waits for a profile for ever.
What it does not keep is in the run `ConnectFinds`, about the SDK's ordinary connect, and in five rows of the deviations.

`AppRestrictions` is run by `ICSOpenVPNApplication`, in each process that
creates that class; no manifest of this repository names it, so it runs in applications whose manifest does.
`UpdateLRU` may be
skipped: `showLogWindow()` is commented out in `LaunchVPN`, and the `if` above it governs
`updateLRU` now. Both managers exist from the start, with an empty store. Left out: the temporary profile
of the API, a `ConcurrentModificationException` of the map, the
death of a process, the edits of the user interface.

Four operations are an import, a look-up with a reload in between, and one more of each process; one try is a reload and the end
of the look-up. Fairness: the threads go on, `apply` reaches the disk, start commands are delivered, all weak.

Proved in `ProfileStore_proofs`, for any threads, profiles, operations and tries:

`StoreTypes`
: no map takes up a file that is missing or `Torn`; that needs what a thread holds between
the statements of a method (`Working`).

`StoreIsAlwaysReadable`
: `NamedHasFile` says that a profile which a map, a list or a thread under way still names has a file,
and `TornIsWritten` that a torn one is still being written, if it was not removed or mixed. `OwnHasOneWriter`: the file of a profile
with a name of its own is written by one thread at a time, because the thread that imports it is
the only one that has it (`SharedIsThere`) until it is saved, and after that it is saved only by the app's main thread.

`StartIsAnswered` is liveness and only model-checked.

## State and log

One client, an app or an API client, chosen in the initial state. A
state change is told to listeners under `VpnStatus`'s lock, kept as the last update and posted to the
main looper, where a broadcast goes to the callbacks registered by then. Registration runs on a
binder thread: copy of the log, last update, registration of the callback, and a
thread that waits for the log file and fills the pipe. The API's service reads
the last update once for each part it sends; two parts, a state and its level, show
what can go wrong, and `CaughtUp` says that it is past after the next change.

`UpdateState` waits for `VpnStatus`'s lock, which `updateStateString` holds from the new state
to the posting, so at most one update is kept and not posted; `TypeOK` says so. The lines of the log file pass
`newLogItem` one by one like new ones while the file is read, and `ReadLogCache` is the end of the reading.

Abstracted: the log is a set of lines (its limit and its order are left out); AUTH is to the code
what WAIT is, DISCONNECTED what RECONNECTING is. Left out: byte counts, the
connected profile's name, a second client, which shares nothing with the first
but the list of callbacks. `heard` is history: the states broadcast since the client registered.

Three events cover an update before, one during and one after a registration, or a
crash in the place of one of them. Fairness: loopers and binder threads run,
Android restarts a bound service and calls `onServiceConnected`; nothing is
assumed of the VPN, of API clients or of crashes.

Proved in `StatusFeed_proofs`, for either kind of client and any number of events: `FeedTypes`, and `ClientCatchesUp`. A
state passes three places, the lock, the looper's queue and the wire, and an app's client ignores WAIT while it
shows CONNECTED, as the service itself does. On the queue the last state is the service's own, and
a WAIT never comes straight after a CONNECTED (`InOrder`). Once the looper is done the last state on the
wire is the service's (`Arriving`). A WAIT that the client is going to show will not meet a CONNECTED, left there by an
earlier registration, without a state in between that takes CONNECTED's place (`NotIgnored`). The liveness
properties of the run are only model-checked.

## Proxy query

`phase` is the process: in a hold, released, in a proxy query, connected, or ended. The commands that
openvpn reads in any phase are handled at once, since the management callbacks are installed before
the hold: a `proxy` command that comes late changes the connection entry at hand and its flag
(`ReadCommand`). A query looks at its flag once a second, so a command may still come after the one
that answered it. `next_connection_entry` copies an entry and asks (`LeaveHold`), with `socks` unset.

`pc[s]` is the management thread of session `s` in `processProxyCMD`: the timeout is posted
(`PostTimeout`), then the callback added (`AddStatusCallback`, one step since it is synchronized). The
looper's steps are the statements of `onOrbotReady` and of `orbotStatusTimeOutRunnable`, and
`main.more` is the iterator of `onReceive`, which looks for its next element when it returns one.
The receiver is registered if and only if the set is not empty, so it has no variable. Orbot may
broadcast its status whenever the receiver is registered, and need not. A timeout that was posted just
now does not run before the next statement of its thread. An exception on the looper ends the
service's process, and openvpn with it (`Crash`).

What is abstracted: HTTP proxies and the detection of a proxy, which are answered like an entry
without one; the status broadcasts other than ON, which only log; who decides to release a hold and when
(`PauseControl`): a release may be decided on the looper and on a binder thread whenever the flag is set, and
`mResumeHoldRunnable` may release at any time, without a look at the flag. `releaseHoldCmd` is two steps, the flag (after a
sleep of up to 3 s) and the command, so that a hold may be released twice and the second release be read in the next hold.

`overtaken` is history: a query has ended without an answer, or the next one followed while the looper
was busy with the one before. `CrashNeedsOvertaking` says that nothing else makes the looper throw;
`OrbotTwice` shows that this does. `OrbotIsUsed` is the promise that matters to the user:
an entry that goes through Orbot is not connected without it, up to one exception that the code
has. `twice` is history: a release was written for a hold that had been released before. Such a release may end the
next hold while the answer NONE to an earlier query is still on the socket, which is then taken for the answer
to the new one (`OrbotIsKept`, below). The converse of `OrbotIsUsed` does not hold at all (`NoneIsKept`, below).

Two sessions give a set of two callbacks and a looper that answers a session that has ended; two
queries are one that is interrupted or answered late, and one of the same or another entry. Fairness: the threads
and openvpn go on (weak); a timeout runs (strong, since the looper is busy again and again, and its queue is
first in, first out); nothing is assumed of Orbot or of signals.

Proved in `ProxyQuery_proofs`, for any number of sessions and queries, are `QueryTypes`,
`OrbotIsAlwaysUsed` and `CrashesNeedOvertaking`. The invariant of the second, `Handshake`, follows the hold as long as none
was released twice: it is on the socket as a line, owed by the client, or on the socket as a release (`HoldInv`), and all that was
written for the entry before it is read before it. A connection cannot be made with an answer
NONE to an earlier query for that reason (`CmdsInv`). `CrashesNeedOvertaking` needs the stages of a query that nothing
interrupts (`Stage`), with releases coming at any time: announced, posting, adding, expecting, served; what is left of it when it is answered is at
most the looper's last step. `QueryEnds` is only model-checked.

## Deviations without a run of their own

The code does not do what these lines of its docs, comments and labels say. TLC
finds a counterexample to each property when it is put in a cfg with these constants.

| Property | Constants | What it shows |
|---|---|---|
| `ResumeReleases` | FairSpec; one network; both preferences Off; `MainOnly`; `Redundant` TRUE; `MaxTimers`, `MaxLines`, `MaxResume` 1 | a resume of a VPN that is not paused (IOpenVPNAPIService.aidl:41) takes the posted release away (DeviceStateReceiver.java:122): the hold stays |
| `PauseTakesEffect` | Spec; one network; Off, Off; `MainOnly`; `Redundant` FALSE; `MaxTimers` 1, `MaxLines` 2, `MaxResume` 1 | "VPN pause requested by user" (strings.xml:289): a SIGUSR1 that openvpn reads together with the release before it finds it in the old hold, which ignores it (manage.c:407); the VPN runs and is shown as paused |
| `ScreenOnWantsVpn` | Spec; `NetChangeReconnect` Off, `ScreenOffPause` On; `MaxLines` 2 | SCREEN_ON between the check and the write of `updateByteCount` (DeviceStateReceiver.java:101, :160) |
| `LostNetworkIsResolved` | FairSpec; On, On; `MaxLines` 1 | SCREEN_ON cancels the timer of an outage (DeviceStateReceiver.java:34, :159) |
| `AssertionsHold` (MCRouteSplit) | Spec; 8 addresses, `MaxNets` 3 | an assertion of `generateIPList` (NetworkSpace.java:294) fails |
| `RoutesEmulate` | Spec; 8 addresses, `MaxNets` 3 | a hidden network: the route with the longer prefix loses |
| `OldIsExited` (MCServiceLifecycle) | Spec; `Sessions` 2, `Disturbed` 2, `Instances` 1, `Calm` <- `MCAny` | "An old running VPN should now be exited" (OpenVPNService.java:620): of two quick starts both find nothing to stop, and two processes are alive |
| no start thread throws: `Alive` as an invariant of MCServiceLifecycle | as for `OldIsExited` | the two reads of `mOpenVPNThread` (OpenVPNService.java:674-675) |
| `SignalKeepsProcess` (PROPERTY) | Spec; `MaxSetups` 2 | a pause during a tun setup ends the process |
| `TunIsPushed` (MCTunConfig) | Spec; `Configs` <- `MCTwo`, the rest as `TunConfig.cfg`; `MaxSetups` 2 | OPENTUN is "to receive a tun fd with the requested configuration" (doc/android.txt:84): a setup that a signal ends before OPENTUN leaves its DNS server and domain in the service's fields (OpenVPNService.java:1059-1067), and the next process's tun has the servers of both and the domain of the first |
| `NoProfileIsLost` (MCProfileStore) | `Io`, `Managed` <- `MCNone`, `Binder` <- `MCBinder`, `Own` <- `MCOwn2`; `MaxOps` 3, `MaxTries` 1 | "the UUID on add" (IOpenVPNAPIService.aidl:16): each process writes the list from its own map, and a profile that was added over the API is in no list any more |
| `RemovedIsGone` (MCProfileStore) | `Io`, `Managed` <- `MCNone`, `Binder` <- `MCBinder`, `Own` <- `MCOwn`; `MaxOps` 3, `MaxTries` 1 | "Remove a profile by UUID" (IOpenVPNAPIService.aidl:54): the app's process keeps it in its own map, a launch saves it, and the file is there again |
| `ServiceIsCurrent` | `Io`, `Binder`, `Own` <- `MCNone`, `Managed` <- `MCManaged`; `MaxOps` 5, `MaxTries` 1 | "Try for 10s to get current version of the profile" (OpenVPNService.java:540): both processes import a managed profile from version 0 on their own (AppRestrictions.java:191), so the version is the one looked for and the configuration is not |
| `PasswordIsStored` | only `Own`; `MaxOps` 3, `MaxTries` 1 | "Save Password" (strings.xml:286) with the log window hidden: the profile is not saved |
| `PasswordArrives` | only `Own`; `MaxOps` 3, `MaxTries` 1 | `updateLRU` keeps the version (ProfileManager.java:268): the service may use its copy without the password |
| `LogIsWhole` (MCStatusFeed) | Spec; `MaxEvents` 1, `Kinds` <- `MCApp` | the client "gets a ParcelFileDescript back that contains the log up to that point" (IServiceStatus.aidl:11): a line between the copy of the log and the registration (OpenVPNStatusService.java:65) is lost |
| `NoneIsKept` (ProxyQuery) | Spec; `Sessions` 2, `MaxQueries` 3 | the timeout of an earlier query answers, with Orbot's port, a query for an entry without a proxy (OpenVpnManagementThread.java:64) |
| `OrbotIsKept` (ProxyQuery) | Spec; `Sessions` 1, `MaxQueries` 2 | a hold released on the looper and on a binder thread: the second release ends the next hold, and the answer NONE to the query before is taken for that of an ORBOT entry |

## Not modelled

- Config parser, `VpnProfile`, activities' dialogs, boot receiver, demo app: text and
  user interface, no interleaving.
- `TrafficHistory`, the format of `LogFileHandler`: sequential, tested by the repository.
- PROTECTFD, `PasswordCache`: left for later, see the plan.
- OpenVPN 3, openssl, mbedtls, lzo, lz4 and openvpn but for its management interface and tun setup: vendored code.
  It is nearly all of the repository's lines, and none of the SDK's own.
- The SDK's login and tokens: their state is on a server.

## Running

    tlc -config PauseAll.cfg MCPauseControl
    tlapm PauseControl_proofs.tla

The runs named Pause... use `MCPauseControl`; `ProxyQuery` and `OrbotTwice` use
`ProxyQuery`; `ProfileStore` and `ConnectFinds` use `MCProfileStore`; the others have the module of their
name with MC before it. Each takes less than
two minutes.

The proofs take every invariant and every action property of the passing runs, and the
refinements of `OneSession` and of the safety part of `HoldHandshake`. Only model-checked are
the liveness properties, since liveness under fairness is beyond the proof system used.
