------------------------------ MODULE StatusFeed ------------------------------
(***************************************************************************)
(* What the service's process tells a client about the VPN's state and its *)
(* log.  VpnStatus calls its listeners under a lock; the two services that *)
(* listen (OpenVPNStatusService for the app's process, External-           *)
(* OpenVPNService for API clients) keep the last update, post each one to  *)
(* the main looper, and that broadcasts it to the registered callbacks.    *)
(* A client registers on a binder thread, next to all that.                *)
(***************************************************************************)
EXTENDS Naturals, Sequences, SequencesExt

CONSTANTS
  Kinds,        \* of the client: "app" (StatusListener), "api"
  MaxEvents     \* bound: number of updates, lines, API registrations, crashes

ASSUME FeedAssumption == Kinds \subseteq {"app", "api"} /\ MaxEvents \in Nat

VARIABLES
  kind,
  alive,         \* the service's process runs
  mLaststate,    \* VpnStatus of the service's process; also the update that
                 \* the service keeps (mLastUpdateMessage, mMostRecentState)
  logbuffer,     \* its lines, as a set
  readFileLog,   \* the lines of the log file are read
  posting,       \* updates set as the last one and not posted yet (0 or 1)
  inbox,         \* the main looper's messages
  registered,
  rpc,           \* where registerStatusCallback and its caller are
  snapshot,      \* the log to be pushed through the pipe
  update,        \* the update to be sent to the new client, or None
  wire,          \* oneway calls on their way to the client, in order
  shown,         \* the client's state and level
  clientLog,
  heard,         \* history: the states broadcast since the client registered
  events         \* number of them so far; a line has its number for a name

feed == <<mLaststate, posting>>
log == <<logbuffer, readFileLog>>
reg == <<registered, rpc, snapshot, update>>
client == <<shown, clientLog>>
vars == <<kind, alive, feed, log, inbox, reg, wire, client, heard, events>>

(* AUTH is to the code what WAIT is, DISCONNECTED what RECONNECTING is.    *)
State == {"NOPROCESS", "WAIT", "CONNECTED", "RECONNECTING"}

(* A state and its level, which getLevel derives from it, here by name.    *)
Whole(s) == <<s, s>>

Line == 1..MaxEvents

StateMessages == {<<"state", u>> : u \in State \X State}
LogMessages == {<<"log", l>> : l \in Line}
Message == StateMessages \union LogMessages

None == <<>>

(* VpnStatus starts with NOPROCESS, which onCreate's addStateListener      *)
(* replays to the service.                                                 *)
Replayed == <<<<"state", Whole("NOPROCESS")>>>>

Init ==
  /\ kind \in Kinds
  /\ alive = TRUE
  /\ mLaststate = "NOPROCESS" /\ posting = <<>>
  /\ inbox = Replayed
  /\ logbuffer = {} /\ readFileLog = FALSE
  /\ registered = FALSE
  /\ rpc = "idle" /\ snapshot = {} /\ update = None
  /\ wire = <<>>
  /\ shown = Whole("NOPROCESS") /\ clientLog = {}
  /\ heard = {}
  /\ events = 0

Event == events < MaxEvents /\ events' = events + 1

Post(m) == inbox' = Append(inbox, m)

(* While connected, openvpn's WAIT and AUTH are ignored.                   *)
Ignored(old, new) == old = "CONNECTED" /\ new = "WAIT"

(* VpnStatus's methods are synchronized on its class.                      *)
Unlocked == posting = <<>>

-------------------------------------------------------------------------------
(* Mutant: the service remembers the update without posting it when it is  *)
(* not new to it.                                                          *)
PostState_OnlyFirst ==
  /\ posting # <<>>
  /\ posting' = Tail(posting)
  /\ IF Head(posting) \in heard THEN UNCHANGED inbox
     ELSE Post(<<"state", Whole(Head(posting))>>)
  /\ UNCHANGED <<kind, alive, mLaststate, log, reg, wire, client,
                 heard, events>>

(* Mutant: updateStateString without its "synchronized".                  *)
UpdateState_Unsynchronized(s) ==
  /\ alive /\ Event
  /\ ~Ignored(mLaststate, s)
  /\ mLaststate' = s
  /\ posting' = Append(posting, s)
  /\ UNCHANGED <<kind, alive, log, inbox, reg, wire, client, heard>>

(* VpnStatus.updateStateString, and the listener's updateState up to its   *)
(* message.                                                                *)
UpdateState(s) ==
  /\ alive /\ Unlocked /\ Event
  /\ ~Ignored(mLaststate, s)
  /\ mLaststate' = s
  /\ posting' = Append(posting, s)
  /\ UNCHANGED <<kind, alive, log, inbox, reg, wire, client, heard>>

PostState ==
  /\ posting # <<>>
  /\ posting' = Tail(posting)
  /\ Post(<<"state", Whole(Head(posting))>>)
  /\ UNCHANGED <<kind, alive, mLaststate, log, reg, wire, client,
                 heard, events>>

(* VpnStatus.newLogItem and the service's newLog, for a new line as for    *)
(* each of those that LogFileHandler reads from the log file: the file's   *)
(* go to the head of the log, which is of no account in a set.             *)
NewLogItem ==
  /\ alive /\ kind = "app" /\ Unlocked
  /\ Event
  /\ logbuffer' = logbuffer \union {events'}
  /\ Post(<<"log", events'>>)
  /\ UNCHANGED <<kind, alive, feed, readFileLog, reg, wire, client, heard>>

(* The end of LogFileHandler.readLogCache, whether it read the file or not:*)
(* whoever waits for it is woken.                                          *)
ReadLogCache ==
  /\ alive /\ kind = "app" /\ ~readFileLog
  /\ readFileLog' = TRUE
  /\ UNCHANGED <<kind, alive, feed, logbuffer, inbox, reg, wire, client, heard, events>>

(* Mutant: the broadcast begins with the newest message.                   *)
Broadcast_NewestFirst ==
  /\ inbox # <<>>
  /\ inbox' = Front(inbox)
  /\ wire' = IF registered THEN Append(wire, Last(inbox)) ELSE wire
  /\ heard' = IF registered /\ Last(inbox)[1] = "state"
              THEN heard \union {Last(inbox)[2][1]} ELSE heard
  /\ UNCHANGED <<kind, alive, feed, log, reg, client, events>>

(* handleMessage on the main looper.                                       *)
Broadcast ==
  /\ inbox # <<>>
  /\ inbox' = Tail(inbox)
  /\ wire' = IF registered THEN Append(wire, Head(inbox)) ELSE wire
  /\ heard' = IF registered /\ Head(inbox)[1] = "state"
              THEN heard \union {Head(inbox)[2][1]} ELSE heard
  /\ UNCHANGED <<kind, alive, feed, log, reg, client, events>>

-------------------------------------------------------------------------------
(* The app binds when its process starts and again when the service is     *)
(* back (onServiceConnected); an API client calls when it likes.           *)
Bind ==
  /\ alive /\ rpc = "idle" /\ ~registered
  /\ \/ kind = "app" /\ rpc' = "log" /\ UNCHANGED events
     \/ kind = "api" /\ rpc' = "last" /\ Event
  /\ UNCHANGED <<kind, alive, feed, log, inbox, registered, snapshot, update,
                 wire, client, heard>>

GetLogBuffer ==
  /\ rpc = "log" /\ Unlocked
  /\ snapshot' = logbuffer
  /\ rpc' = "last"
  /\ UNCHANGED <<kind, alive, feed, log, inbox, registered, update, wire, client,
                 heard, events>>

(* The app's service reads its last update once; the API's reads the field *)
(* again for each part it sends, of which the model has two.               *)
ReadLast ==
  /\ rpc = "last"
  /\ update' = Whole(mLaststate)
  /\ rpc' = IF kind = "app" THEN "send" ELSE "level"
  /\ UNCHANGED <<kind, alive, feed, log, inbox, registered, snapshot, wire, client,
                 heard, events>>

ReadLevel ==
  /\ rpc = "level"
  /\ update' = <<update[1], mLaststate>>
  /\ rpc' = "send"
  /\ UNCHANGED <<kind, alive, feed, log, inbox, registered, snapshot, wire, client,
                 heard, events>>

(* Mutant: a client that registers is told nothing before the next change. *)
SendLast_Silent ==
  /\ rpc = "send"
  /\ update' = None
  /\ rpc' = "register"
  /\ UNCHANGED <<kind, alive, feed, log, inbox, registered, snapshot, wire, client,
                 heard, events>>

SendLast ==
  /\ rpc = "send"
  /\ wire' = Append(wire, <<"state", update>>)
  /\ update' = None
  /\ rpc' = "register"
  /\ UNCHANGED <<kind, alive, feed, log, inbox, registered, snapshot, client,
                 heard, events>>

Register ==
  /\ rpc = "register"
  /\ registered' = TRUE
  /\ heard' = {}
  /\ rpc' = IF kind = "app" THEN "pipe" ELSE "idle"
  /\ UNCHANGED <<kind, alive, feed, log, inbox, snapshot, update, wire, client, events>>

(* Mutant: the end mark alone goes through the pipe.                       *)
PushLogs_Nothing ==
  /\ rpc = "pipe" /\ readFileLog
  /\ snapshot' = {}
  /\ rpc' = "idle"
  /\ UNCHANGED <<kind, alive, feed, log, inbox, registered, update, wire, client,
                 heard, events>>

(* The thread pushLogs, once the log file is read, and the reader at the   *)
(* other end of the pipe, the app's main thread.                           *)
PushLogs ==
  /\ rpc = "pipe" /\ readFileLog
  /\ clientLog' = clientLog \union snapshot
  /\ snapshot' = {}
  /\ rpc' = "idle"
  /\ UNCHANGED <<kind, alive, feed, log, inbox, registered, update, wire, shown,
                 heard, events>>

Unregister ==
  /\ alive /\ kind = "api" /\ registered /\ rpc = "idle"
  /\ registered' = FALSE
  /\ heard' = {}
  /\ UNCHANGED <<kind, alive, feed, log, inbox, rpc, snapshot, update, wire, client,
                 events>>

(* The client's side of updateStateString: an app feeds its own VpnStatus. *)
Show(u) ==
  shown' = IF kind = "app" /\ Ignored(shown[2], u[1]) THEN shown ELSE u

Deliver ==
  /\ wire # <<>>
  /\ wire' = Tail(wire)
  /\ \/ /\ Head(wire)[1] = "state"
        /\ Show(Head(wire)[2])
        /\ UNCHANGED clientLog
     \/ /\ Head(wire)[1] = "log"
        /\ clientLog' = clientLog \union {Head(wire)[2]}
        /\ UNCHANGED shown
  /\ UNCHANGED <<kind, alive, feed, log, inbox, reg, heard, events>>

(* The service's process dies: calls already sent still arrive, a pending  *)
(* one fails, the pipe ends.  onServiceDisconnected changes no state.      *)
Crash ==
  /\ alive /\ Event
  /\ alive' = FALSE
  /\ registered' = FALSE
  /\ rpc' = "idle" /\ snapshot' = {} /\ update' = None
  /\ mLaststate' = "NOPROCESS" /\ posting' = <<>> /\ inbox' = <<>>
  /\ logbuffer' = {} /\ readFileLog' = FALSE
  /\ heard' = {}
  /\ UNCHANGED <<kind, wire, client>>

(* BIND_AUTO_CREATE brings it back.                                        *)
Restart ==
  /\ ~alive
  /\ alive' = TRUE
  /\ inbox' = Replayed
  /\ UNCHANGED <<kind, feed, log, reg, wire, client, heard, events>>

-------------------------------------------------------------------------------
Service == PostState \/ NewLogItem \/ ReadLogCache \/ Broadcast
             \/ \E s \in State \ {"NOPROCESS"} : UpdateState(s)
Registering == GetLogBuffer \/ ReadLast \/ ReadLevel \/ SendLast \/ Register \/ PushLogs

Next == Service \/ Bind \/ Registering \/ Unregister \/ Deliver \/ Crash \/ Restart

Spec == Init /\ [][Next]_vars

(* Loopers and binder threads run; Android restarts a bound service and    *)
(* calls onServiceConnected.  VPN events, API calls, crashes: no fairness. *)
FairSpec ==
  /\ Spec
  /\ WF_vars(PostState) /\ WF_vars(Broadcast) /\ WF_vars(ReadLogCache)
  /\ WF_vars(Registering) /\ WF_vars(Deliver) /\ WF_vars(Restart)
  /\ WF_vars(kind = "app" /\ Bind)

-------------------------------------------------------------------------------
(* Types.  An update that is kept is posted before the next is kept, as    *)
(* VpnStatus's lock has it; a dead process holds no client and no call.    *)
TypeOK ==
  /\ kind \in Kinds /\ alive \in BOOLEAN
  /\ mLaststate \in State
  /\ posting \in {<<>>} \union {<<s>> : s \in State}
  /\ logbuffer \subseteq Line /\ readFileLog \in BOOLEAN
  /\ inbox \in Seq(Message) /\ wire \in Seq(Message)
  /\ registered \in BOOLEAN
  /\ rpc \in {"idle", "log", "last", "level", "send", "register", "pipe"}
  /\ rpc # "idle" \/ registered => alive
  /\ snapshot \subseteq Line /\ update \in (State \X State) \union {None}
  /\ shown \in State \X State /\ clientLog \subseteq Line
  /\ heard \subseteq State
  /\ events \in 0..MaxEvents

StatePending(q) == \E i \in 1..Len(q) : q[i][1] = "state"
Pending(q, m) == \E i \in 1..Len(q) : q[i] = m

(* A client that has been told of a change since it registered (for an app *)
(* one it does not ignore), with nothing more on its way, shows the state  *)
(* and level the service has: what the late registration mixed up is past. *)
CaughtUp ==
  /\ registered
  /\ (IF kind = "app" THEN heard \ {"WAIT"} ELSE heard) # {}
  /\ ~StatePending(inbox) /\ ~StatePending(wire) /\ posting = <<>>
  => shown = Whole(mLaststate)

(* A change that comes while the client is registered reaches it.  WAIT an *)
(* app may ignore.                                                         *)
StateArrives ==
  \A s \in State \ {"WAIT"} :
    posting = <<s>> /\ registered ~> shown[1] = s \/ ~registered

(* An app that shows CONNECTED when the service's process dies does not    *)
(* show it for ever: the restarted service tells it of NOPROCESS or of     *)
(* what came since; only WAIT is one the app does not take.                *)
StaleIsReplaced ==
  kind = "app" /\ ~alive /\ shown[2] = "CONNECTED"
    ~> shown[2] # "CONNECTED" \/ mLaststate \in {"CONNECTED", "WAIT"}

(* A line in the snapshot or in the looper's queue when the client is      *)
(* registered gets to the client, and the app's main thread, which reads   *)
(* the pipe, goes on.                                                      *)
LinesArrive ==
  /\ rpc = "pipe" ~> rpc # "pipe"
  /\ \A l \in Line :
       /\ registered
       /\ Pending(inbox, <<"log", l>>) \/ (rpc = "pipe" /\ l \in snapshot)
       ~> l \in clientLog \/ ~registered

(* "Registers to receive OpenVPN Status Updates and gets a                 *)
(* ParcelFileDescript back that contains the log up to that point"         *)
(* (IServiceStatus.aidl:12): with nothing more on its way the client has   *)
(* the whole log.                                                          *)
LogIsWhole ==
  /\ registered /\ rpc = "idle"
  /\ \A l \in Line : ~Pending(inbox \o wire, <<"log", l>>)
  => logbuffer \subseteq clientLog
===============================================================================
