--------------------------- MODULE ServiceLifecycle ---------------------------
(***************************************************************************)
(* Sessions of OpenVPNService: a start command runs startOpenVPN on a      *)
(* thread of its own, which stops the old session, opens a management      *)
(* socket and starts an openvpn process.  OpenVPNThread waits for the end  *)
(* of the process and reports it; endVpnService tears down the service.    *)
(* A session is the number of its start command, and stands for its start  *)
(* thread, its OpenVPNThread with the process, and its management thread.  *)
(*                                                                         *)
(* Fields of the service are functions of the service instance: stopSelf   *)
(* lets the system destroy an instance, while its threads keep it.         *)
(***************************************************************************)
EXTENDS Integers, Sequences, SequencesExt

CONSTANTS
  Sessions,    \* bound: number of start commands
  Disturbed,   \* bound: number of start commands when it is not calm
  Instances,   \* bound: number of service instances
  Calm         \* subset of BOOLEAN: see Quiet

ASSUME LifecycleAssumption ==
  /\ Sessions \in Nat \ {0} /\ Instances \in Nat \ {0}
  /\ Disturbed \in Nat /\ Disturbed <= Sessions
  /\ Calm \subseteq BOOLEAN

Session == 1..Sessions
Instance == 1..Instances
None == 0

VARIABLES
  calm,        \* nothing but the service's own threads happens during a start or an end
  service,     \* the living instance, or None
  starts,      \* start commands so far
  instances,   \* instances so far
  inst,        \* the instance a session belongs to
  pc,          \* the start thread: its next statement
  lock,        \* mProcessLock: the session whose start thread sleeps with it
  mProcessThread, mOpenVPNThread, mManagement, mDeviceStateReceiver,
  mStarting,
  posted,      \* register runnables in main's queue
  stopSelf,    \* the service has asked to be stopped
  thr,         \* OpenVPNThread.run
  mNoProcessExitStatus,
  proc,        \* the process: starting, connected to a management socket, dead
  told,        \* has got SIGINT, lost its socket, or is to be destroyed
  interrupted, \* the OpenVPNThread has been interrupted
  active,      \* OpenVpnManagementThread.active
  socket,      \* the management thread's socket
  peer,        \* the process at its other end
  bound        \* the session that owns the name of the socket

fields == <<mProcessThread, mOpenVPNThread, mManagement, mDeviceStateReceiver,
            mStarting, posted, stopSelf, lock>>
threadVars == <<thr, mNoProcessExitStatus, proc, told, interrupted>>
socketVars == <<active, socket, peer, bound>>
env == <<calm, service, starts, instances, inst>>
vars == <<env, pc, fields, threadVars, socketVars>>

Init ==
  /\ calm \in Calm
  /\ service = None /\ starts = 0 /\ instances = 0
  /\ inst = [s \in Session |-> None]
  /\ pc = [s \in Session |-> "none"]
  /\ lock = [i \in Instance |-> None]
  /\ mProcessThread = [i \in Instance |-> None]
  /\ mOpenVPNThread = [i \in Instance |-> None]
  /\ mManagement = [i \in Instance |-> None]
  /\ mDeviceStateReceiver = [i \in Instance |-> None]
  /\ mStarting = [i \in Instance |-> FALSE]
  /\ posted = [i \in Instance |-> 0]
  /\ stopSelf = [i \in Instance |-> FALSE]
  /\ thr = [s \in Session |-> "none"]
  /\ mNoProcessExitStatus = [s \in Session |-> FALSE]
  /\ proc = [s \in Session |-> "none"]
  /\ told = [s \in Session |-> FALSE]
  /\ interrupted = [s \in Session |-> FALSE]
  /\ active = <<>>
  /\ socket = [s \in Session |-> "none"]
  /\ peer = [s \in Session |-> None]
  /\ bound = None

Goto(s, label) == pc' = [pc EXCEPT ![s] = label]

Live(s) == proc[s] \in {"starting", "connected"}

(* No start, no end and no callback is under way.                          *)
Settled(s) ==
  /\ pc[s] \in {"none", "done"}
  /\ thr[s] \in {"none", "done"} \/ (proc[s] = "connected" /\ ~told[s])

Quiet ==
  /\ \A s \in Session : Settled(s)
  /\ service # None => posted[service] = 0

(* When it is calm, what comes from outside waits until it is quiet.       *)
Outside == calm => Quiet

-------------------------------------------------------------------------------
(* onStartCommand with a profile.  The start of a service that asked to be *)
(* stopped and is still bound keeps it.                                    *)
StartCommand ==
  /\ Outside /\ starts < (IF calm THEN Sessions ELSE Disturbed)
  /\ service = None => instances < Instances
  /\ starts' = starts + 1
  /\ IF service = None
     THEN instances' = instances + 1 /\ service' = instances + 1
     ELSE UNCHANGED <<instances, service>>
  /\ inst' = [inst EXCEPT ![starts + 1] = service']
  /\ stopSelf' = [stopSelf EXCEPT ![service'] = FALSE]
  /\ Goto(starts + 1, "writeConfig")
  /\ UNCHANGED <<calm, mProcessThread, mOpenVPNThread, mManagement, mDeviceStateReceiver,
                 mStarting, posted, lock, threadVars, socketVars>>

(* Mutant: the process thread is not cleared.                              *)
EndVpnService_KeepsThread(i) ==
  /\ lock[i] = None
  /\ mDeviceStateReceiver' = [mDeviceStateReceiver EXCEPT ![i] = None]
  /\ mOpenVPNThread' = [mOpenVPNThread EXCEPT ![i] = None]
  /\ stopSelf' = [stopSelf EXCEPT ![i] = @ \/ ~mStarting[i]]
  /\ UNCHANGED <<mProcessThread, mManagement, mStarting, posted, lock>>

(* The teardown.  mProcessLock delays it.                                  *)
EndVpnService(i) ==
  /\ lock[i] = None
  /\ mProcessThread' = [mProcessThread EXCEPT ![i] = None]
  /\ mDeviceStateReceiver' = [mDeviceStateReceiver EXCEPT ![i] = None]
  /\ mOpenVPNThread' = [mOpenVPNThread EXCEPT ![i] = None]
  /\ stopSelf' = [stopSelf EXCEPT ![i] = @ \/ ~mStarting[i]]
  /\ UNCHANGED <<mManagement, mStarting, posted, lock>>

(* writeConfigFile fails: the old session's state goes, its process stays. *)
ConfigFails(s) ==
  /\ pc[s] = "writeConfig"
  /\ calm => \A k \in Session : ~Live(k)
  /\ EndVpnService(inst[s])
  /\ Goto(s, "done")
  /\ UNCHANGED <<env, threadVars, socketVars>>

WriteConfig(s) ==
  /\ pc[s] = "writeConfig"
  /\ mStarting' = [mStarting EXCEPT ![inst[s]] = TRUE]
  /\ Goto(s, IF mManagement[inst[s]] = None THEN "force" ELSE "findOld")
  /\ UNCHANGED <<env, mProcessThread, mOpenVPNThread, mManagement,
                 mDeviceStateReceiver, posted, stopSelf, lock, threadVars, socketVars>>

FindOld(s) ==
  /\ pc[s] = "findOld"
  /\ Goto(s, IF mOpenVPNThread[inst[s]] = None THEN "stopOld" ELSE "markOld")
  /\ UNCHANGED <<env, fields, threadVars, socketVars>>

(* Mutant: setReplaceConnection is forgotten.                              *)
MarkOld_Forgets(s) ==
  /\ pc[s] = "markOld"
  /\ Goto(s, "stopOld")
  /\ UNCHANGED <<env, fields, threadVars, socketVars>>

(* The field is read again: a teardown since then makes this throw.        *)
MarkOld(s) ==
  /\ pc[s] = "markOld"
  /\ LET old == mOpenVPNThread[inst[s]]
     IN  /\ mNoProcessExitStatus' =
              [k \in Session |-> mNoProcessExitStatus[k] \/ k = old]
         /\ Goto(s, IF old = None THEN "thrown" ELSE "stopOld")
  /\ UNCHANGED <<env, fields, thr, proc, told, interrupted, socketVars>>

(* Mutant: only the oldest management thread is asked.                     *)
StopOpenVPN_Oldest ==
  LET stopped == {m \in Session : active # <<>> /\ m = Head(active) /\ socket[m] = "connected"}
  IN  /\ socket' = [m \in Session |-> IF m \in stopped THEN "closed" ELSE socket[m]]
      /\ told' = [p \in Session |-> told[p] \/ \E m \in stopped : peer[m] = p]

(* Whoever has a connected socket gets SIGINT, and the socket is closed.   *)
(* The answer is that of the last one.                                     *)
StopOpenVPN ==
  LET stopped == {m \in Session : m \in ToSet(active) /\ socket[m] = "connected"}
  IN  /\ socket' = [m \in Session |-> IF m \in stopped THEN "closed" ELSE socket[m]]
      /\ told' = [p \in Session |-> told[p] \/ \E m \in stopped : peer[m] = p]

StopSent == active # <<>> /\ socket[Last(active)] = "connected"

StopOld(s) ==
  /\ pc[s] = "stopOld"
  /\ StopOpenVPN
  /\ Goto(s, IF StopSent THEN "sleep" ELSE "force")
  /\ UNCHANGED <<env, fields, thr, mNoProcessExitStatus, proc, interrupted,
                 active, peer, bound>>

(* A sleep of a second.  When it is calm, a second is enough to exit.      *)
Slept == calm => \A k \in Session : told[k] => ~Live(k) /\ thr[k] # "exited"

Sleep(s) ==
  /\ pc[s] = "sleep" /\ Slept
  /\ Goto(s, "force")
  /\ UNCHANGED <<env, fields, threadVars, socketVars>>

(* The interrupt, and a sleep that holds the lock.                         *)
ForceStop(s) ==
  /\ pc[s] = "force" /\ lock[inst[s]] = None
  /\ LET old == mProcessThread[inst[s]]
     IN  IF old = None
         THEN Goto(s, "open") /\ UNCHANGED <<lock, interrupted>>
         ELSE /\ interrupted' = [interrupted EXCEPT ![old] = TRUE]
              /\ lock' = [lock EXCEPT ![inst[s]] = s]
              /\ Goto(s, "forceSleep")
  /\ UNCHANGED <<env, mProcessThread, mOpenVPNThread, mManagement, mDeviceStateReceiver,
                 mStarting, posted, stopSelf, thr, mNoProcessExitStatus, proc, told,
                 socketVars>>

(* Mutant: the lock is kept.                                               *)
ForceSleep_KeepsLock(s) ==
  /\ pc[s] = "forceSleep" /\ Slept
  /\ Goto(s, "open")
  /\ UNCHANGED <<env, fields, threadVars, socketVars>>

ForceSleep(s) ==
  /\ pc[s] = "forceSleep" /\ Slept
  /\ lock' = [lock EXCEPT ![inst[s]] = None]
  /\ Goto(s, "open")
  /\ UNCHANGED <<env, mProcessThread, mOpenVPNThread, mManagement, mDeviceStateReceiver,
                 mStarting, posted, stopSelf, threadVars, socketVars>>

(* Mutant: the management thread is not remembered.                        *)
OpenManagement_NoField(s) ==
  /\ pc[s] = "open"
  /\ mStarting' = [mStarting EXCEPT ![inst[s]] = FALSE]
  /\ bound' = s
  /\ socket' = [socket EXCEPT ![s] = "listening"]
  /\ Goto(s, "process")
  /\ UNCHANGED <<env, mProcessThread, mOpenVPNThread, mManagement, mDeviceStateReceiver,
                 posted, stopSelf, lock, threadVars, active, peer>>

(* mStarting goes to FALSE; binding takes the name of the socket over; the *)
(* management thread is started.                                           *)
OpenManagement(s) ==
  /\ pc[s] = "open"
  /\ mStarting' = [mStarting EXCEPT ![inst[s]] = FALSE]
  /\ bound' = s
  /\ socket' = [socket EXCEPT ![s] = "listening"]
  /\ mManagement' = [mManagement EXCEPT ![inst[s]] = s]
  /\ Goto(s, "process")
  /\ UNCHANGED <<env, mProcessThread, mOpenVPNThread, mDeviceStateReceiver, posted,
                 stopSelf, lock, threadVars, active, peer>>

(* openManagementInterface returns false.                                  *)
OpenFails(s) ==
  /\ pc[s] = "open"
  /\ mStarting' = [mStarting EXCEPT ![inst[s]] = FALSE]
  /\ Goto(s, "openFailed")
  /\ UNCHANGED <<env, mProcessThread, mOpenVPNThread, mManagement, mDeviceStateReceiver,
                 posted, stopSelf, lock, threadVars, socketVars>>

EndFailed(s) ==
  /\ pc[s] = "openFailed"
  /\ EndVpnService(inst[s])
  /\ Goto(s, "done")
  /\ UNCHANGED <<env, threadVars, socketVars>>

StartProcess(s) ==
  /\ pc[s] = "process" /\ lock[inst[s]] = None
  /\ mOpenVPNThread' = [mOpenVPNThread EXCEPT ![inst[s]] = s]
  /\ mProcessThread' = [mProcessThread EXCEPT ![inst[s]] = s]
  /\ thr' = [thr EXCEPT ![s] = "reading"]
  /\ proc' = [proc EXCEPT ![s] = "starting"]
  /\ posted' = [posted EXCEPT ![inst[s]] = @ + 1]
  /\ Goto(s, "done")
  /\ UNCHANGED <<env, mManagement, mDeviceStateReceiver, mStarting, stopSelf, lock,
                 mNoProcessExitStatus, told, interrupted, socketVars>>

Start(s) ==
  \/ ConfigFails(s) \/ WriteConfig(s) \/ FindOld(s) \/ MarkOld(s) \/ StopOld(s) \/ Sleep(s)
  \/ ForceStop(s) \/ ForceSleep(s) \/ OpenManagement(s) \/ OpenFails(s)
  \/ EndFailed(s) \/ StartProcess(s)

-------------------------------------------------------------------------------
(* The main looper.                                                        *)
RegisterReceiver(i) ==
  /\ posted[i] > 0
  /\ posted' = [posted EXCEPT ![i] = @ - 1]
  /\ mDeviceStateReceiver' = [mDeviceStateReceiver EXCEPT ![i] = mManagement[i]]
  /\ UNCHANGED <<env, pc, mProcessThread, mOpenVPNThread, mManagement, mStarting,
                 stopSelf, lock, threadVars, socketVars>>

(* Only the owner of an established tun is told that it was revoked.       *)
OnRevoke ==
  /\ ~calm /\ service # None
  /\ \E p \in Session : proc[p] = "connected" /\ inst[p] = service
  /\ StopOpenVPN
  /\ EndVpnService(service)
  /\ UNCHANGED <<env, pc, thr, mNoProcessExitStatus, proc, interrupted, active, peer, bound>>

OnDestroy ==
  /\ service # None /\ stopSelf[service] /\ lock[service] = None
  /\ IF mProcessThread[service] # None
     THEN StopOpenVPN
     ELSE UNCHANGED <<socket, told>>
  /\ service' = None
  /\ UNCHANGED <<calm, starts, instances, inst, pc, fields, thr, mNoProcessExitStatus,
                 proc, interrupted, active, peer, bound>>

(* stopVPN through the service's binder: DisconnectVPN, the external API.  *)
StopVPN ==
  /\ Outside /\ service # None /\ mManagement[service] # None
  /\ StopOpenVPN
  /\ UNCHANGED <<env, pc, fields, thr, mNoProcessExitStatus, proc, interrupted,
                 active, peer, bound>>

-------------------------------------------------------------------------------
(* The management thread.                                                  *)
(* Mutant: only the newest thread is kept.                                 *)
AddActive_Newest(m) ==
  /\ socket[m] = "listening" /\ m \notin ToSet(active)
  /\ active' = <<m>>
  /\ UNCHANGED <<env, pc, fields, threadVars, socket, peer, bound>>

AddActive(m) ==
  /\ socket[m] = "listening" /\ m \notin ToSet(active)
  /\ active' = Append(active, m)
  /\ UNCHANGED <<env, pc, fields, threadVars, socket, peer, bound>>

(* read throws on a socket that was closed here; at its end run returns    *)
(* and leaves the thread in the list.                                      *)
RemoveActive(m) ==
  /\ socket[m] = "closed"
  /\ \E k \in DOMAIN active : active[k] = m /\ active' = RemoveAt(active, k)
  /\ UNCHANGED <<env, pc, fields, threadVars, socket, peer, bound>>

-------------------------------------------------------------------------------
(* The process connects to whoever owns the name, or fails; after accept   *)
(* the server socket is closed.                                            *)
Connect(p) ==
  /\ proc[p] = "starting" /\ bound \in ToSet(active) /\ socket[bound] = "listening"
  /\ proc' = [proc EXCEPT ![p] = "connected"]
  /\ socket' = [socket EXCEPT ![bound] = "connected"]
  /\ peer' = [peer EXCEPT ![bound] = p]
  /\ UNCHANGED <<env, pc, fields, thr, mNoProcessExitStatus, told, interrupted,
                 active, bound>>

(* An interrupted OpenVPNThread destroys its process at the next log line. *)
Destroyed(p) == interrupted[p] /\ thr[p] = "reading"

(* A process may fail to start, or end before it connects; its management  *)
(* thread goes on waiting for it.                                          *)
Exit(p) ==
  /\ Live(p)
  /\ told[p] \/ Destroyed(p) \/ proc[p] = "starting" \/ Outside
  /\ proc' = [proc EXCEPT ![p] = "dead"]
  /\ thr' = [thr EXCEPT ![p] = "exited"]
  /\ socket' = [m \in Session |-> IF peer[m] = p /\ socket[m] = "connected"
                                  THEN "eof" ELSE socket[m]]
  /\ UNCHANGED <<env, pc, fields, mNoProcessExitStatus, told, interrupted,
                 active, peer, bound>>

(* A check and a call: nothing keeps a start from falling between them.    *)
CheckExit(p) ==
  /\ thr[p] = "exited"
  /\ thr' = [thr EXCEPT ![p] = IF mNoProcessExitStatus[p] THEN "done" ELSE "stopped"]
  /\ UNCHANGED <<env, pc, fields, mNoProcessExitStatus, proc, told, interrupted, socketVars>>

OpenvpnStopped(p) ==
  /\ thr[p] = "stopped"
  /\ EndVpnService(inst[p])
  /\ thr' = [thr EXCEPT ![p] = "done"]
  /\ UNCHANGED <<env, pc, mNoProcessExitStatus, proc, told, interrupted, socketVars>>

-------------------------------------------------------------------------------
Thread(s) ==
  Start(s) \/ AddActive(s) \/ RemoveActive(s) \/ Connect(s) \/ CheckExit(s) \/ OpenvpnStopped(s)

(* What a start thread throws ends the process of the service.             *)
Alive == \A s \in Session : pc[s] # "thrown"

Next ==
  /\ Alive
  /\ \/ StartCommand \/ StopVPN \/ OnRevoke \/ OnDestroy
     \/ \E i \in Instance : RegisterReceiver(i)
     \/ \E s \in Session : Thread(s) \/ Exit(s)

(* Threads and main's queue go on; a process that is told to exit exits.   *)
Fairness ==
  /\ \A i \in Instance : WF_vars(Alive /\ RegisterReceiver(i))
  /\ \A s \in Session : WF_vars(Alive /\ Start(s))
  /\ \A s \in Session : WF_vars(Alive /\ AddActive(s)) /\ WF_vars(Alive /\ RemoveActive(s))
  /\ \A s \in Session : WF_vars(Alive /\ CheckExit(s)) /\ SF_vars(Alive /\ OpenvpnStopped(s))
  /\ \A s \in Session : WF_vars(Alive /\ Exit(s) /\ told[s])

Spec == Init /\ [][Next]_vars
FairSpec == Spec /\ Fairness

-------------------------------------------------------------------------------
SessionOrNone == Session \cup {None}

(* The fields name sessions, and a service with a process thread has a     *)
(* management thread: onDestroy calls mManagement.stopVPN on no more than  *)
(* that.                                                                   *)
TypeOK ==
  /\ calm \in BOOLEAN /\ service \in Instance \cup {None}
  /\ starts \in 0..Sessions /\ instances \in 0..Instances
  /\ inst \in [Session -> Instance \cup {None}]
  /\ pc \in [Session -> {"none", "writeConfig", "findOld", "markOld", "stopOld", "sleep", "force",
                         "forceSleep", "open", "openFailed", "process", "done", "thrown"}]
  /\ \A f \in {lock, mProcessThread, mOpenVPNThread, mManagement, mDeviceStateReceiver} :
       f \in [Instance -> SessionOrNone]
  /\ mStarting \in [Instance -> BOOLEAN] /\ stopSelf \in [Instance -> BOOLEAN]
  /\ posted \in [Instance -> 0..Sessions]
  /\ thr \in [Session -> {"none", "reading", "exited", "stopped", "done"}]
  /\ proc \in [Session -> {"none", "starting", "connected", "dead"}]
  /\ \A f \in {mNoProcessExitStatus, told, interrupted} : f \in [Session -> BOOLEAN]
  /\ active \in Seq(Session)
  /\ socket \in [Session -> {"none", "listening", "connected", "closed", "eof"}]
  /\ peer \in [Session -> SessionOrNone] /\ bound \in SessionOrNone
  /\ \A i \in Instance : mProcessThread[i] # None => mManagement[i] # None

(* If nothing comes in between, the service is left whole: with a process  *)
(* that runs, every field is of its session and the service is not         *)
(* stopping; with none, no process thread is left, and no receiver but of  *)
(* a management thread whose process ended before it connected: that end   *)
(* may come before the registration, which then clears nothing.            *)
SessionIsWhole ==
  calm /\ Quiet =>
    /\ \A s \in Session : Live(s) =>
         /\ mProcessThread[inst[s]] = s /\ mOpenVPNThread[inst[s]] = s
         /\ mManagement[inst[s]] = s /\ mDeviceStateReceiver[inst[s]] = s
         /\ ~stopSelf[inst[s]] /\ service = inst[s]
    /\ (\A s \in Session : ~Live(s)) =>
         \A i \in Instance :
           /\ mProcessThread[i] = None
           /\ mDeviceStateReceiver[i] # None => socket[mDeviceStateReceiver[i]] = "listening"

(* Whatever comes in between, a process that is connected and not told to  *)
(* exit can be told: a thread of the list that stopOpenVPN goes through    *)
(* has it at the other end of its socket.                                  *)
ConnectedIsReachable ==
  \A p \in Session : proc[p] = "connected" /\ ~told[p] =>
    \E m \in ToSet(active) : socket[m] = "connected" /\ peer[m] = p

(* A process that is told to exit ends, and its end clears the service's   *)
(* process thread or is that of a replaced session; unless a start thread  *)
(* has ended the service's process.                                        *)
ToldEnds ==
  \A p \in Session : told[p] ~>
    \/ thr[p] = "done" /\ (mNoProcessExitStatus[p] \/ mProcessThread[inst[p]] # p)
    \/ ~Alive

(* Every start command runs to its end: the sleeps and the lock of the     *)
(* teardown delay it, none of them holds it up.  Only when it is not calm, *)
(* a teardown between the two reads of mOpenVPNThread ends it by an        *)
(* exception, and the process of the service with it.                      *)
StartCompletes ==
  \A s \in Session : pc[s] = "writeConfig" ~> pc[s] = "done" \/ (~calm /\ ~Alive)

(* The comment after stopOldOpenVPNProcess: "An old running VPN should now *)
(* be exited".                                                             *)
OldIsExited ==
  \A s, k \in Session : pc[s] = "open" /\ k # s => ~Live(k)

(* One session after another: what the service's callers count on.         *)
Sessions1 == INSTANCE OneSession WITH running <- {s \in Session : calm /\ Live(s)}
OneAtATime == Sessions1!Spec
===============================================================================
