----------------------- MODULE ServiceLifecycle_proofs ------------------------
(***************************************************************************)
(* Theorems about ServiceLifecycle for any number of start commands and    *)
(* service instances.  Whatever comes in between, the types are kept and   *)
(* no connected process gets out of reach of stopOpenVPN.  When nothing    *)
(* comes in between, the service is left whole and sessions come one after *)
(* another, as OneSession has it.                                          *)
(***************************************************************************)
EXTENDS ServiceLifecycle, SequenceTheorems, FiniteSetTheorems, TLAPS

(* The list of management threads.                                         *)
LEMMA ListAppend ==
  ASSUME NEW q \in Seq(Session), NEW m \in Session
  PROVE  Append(q, m) \in Seq(Session) /\ ToSet(Append(q, m)) = ToSet(q) \cup {m}
<1>1. /\ Append(q, m) \in Seq(Session) /\ Len(q) \in Nat /\ Len(Append(q, m)) = Len(q) + 1
      /\ \A i \in 1..Len(q) : Append(q, m)[i] = q[i]
      /\ Append(q, m)[Len(q) + 1] = m
  BY AppendProperties
<1>2. DOMAIN q = 1..Len(q) /\ DOMAIN Append(q, m) = 1..(Len(q) + 1)
  BY <1>1, LenProperties
<1>3. ASSUME NEW x \in ToSet(Append(q, m))
      PROVE  x \in ToSet(q) \cup {m}
  BY <1>1, <1>2, <1>3 DEF ToSet
<1>4. ASSUME NEW x \in ToSet(q) \cup {m}
      PROVE  x \in ToSet(Append(q, m))
  BY <1>1, <1>2, <1>4 DEF ToSet
<1> QED BY <1>1, <1>3, <1>4

LEMMA ListRemove ==
  ASSUME NEW q \in Seq(Session), NEW k \in DOMAIN q
  PROVE  /\ RemoveAt(q, k) \in Seq(Session)
         /\ ToSet(q) \ {q[k]} \subseteq ToSet(RemoveAt(q, k))
         /\ ToSet(RemoveAt(q, k)) \subseteq ToSet(q)
<1> DEFINE before == SubSeq(q, 1, k - 1)
           after == SubSeq(q, k + 1, Len(q))
<1>1. Len(q) \in Nat /\ DOMAIN q = 1..Len(q) /\ k \in 1..Len(q)
  BY LenProperties
<1>2. \A i \in 1..Len(q) : q[i] \in Session
  BY ElementOfSeq
<1>3. /\ before \in Seq(Session) /\ Len(before) = k - 1
      /\ \A i \in 1..(k - 1) : before[i] = q[i]
  <2>1. /\ before \in Seq(Session)
        /\ Len(before) = IF 1 <= k - 1 THEN k - 1 - 1 + 1 ELSE 0
        /\ \A i \in 1..(k - 1 - 1 + 1) : before[i] = q[1 + i - 1]
    BY <1>1, <1>2, SubSeqProperties
  <2> QED BY <1>1, <2>1
<1>4. /\ after \in Seq(Session) /\ Len(after) = Len(q) - k
      /\ \A i \in 1..(Len(q) - k) : after[i] = q[k + i]
  <2>1. /\ after \in Seq(Session)
        /\ Len(after) = IF k + 1 <= Len(q) THEN Len(q) - (k + 1) + 1 ELSE 0
        /\ \A i \in 1..(Len(q) - (k + 1) + 1) : after[i] = q[k + 1 + i - 1]
    BY <1>1, <1>2, SubSeqProperties
  <2> QED BY <1>1, <2>1
<1> HIDE DEF before, after
<1>5. /\ before \o after \in Seq(Session) /\ Len(before \o after) = Len(q) - 1
      /\ \A i \in 1..(k - 1) : (before \o after)[i] = q[i]
      /\ \A i \in k..(Len(q) - 1) : (before \o after)[i] = q[i + 1]
  <2>1. /\ before \o after \in Seq(Session)
        /\ Len(before \o after) = Len(before) + Len(after)
        /\ \A i \in 1..(Len(before) + Len(after)) : (before \o after)[i] =
             IF i <= Len(before) THEN before[i] ELSE after[i - Len(before)]
    BY <1>3, <1>4, ConcatProperties
  <2>2. Len(before) + Len(after) = Len(q) - 1
    BY <1>1, <1>3, <1>4
  <2>3. ASSUME NEW i \in 1..(k - 1)
        PROVE  (before \o after)[i] = q[i]
    BY <1>1, <1>3, <2>1, <2>2
  <2>4. ASSUME NEW i \in k..(Len(q) - 1)
        PROVE  (before \o after)[i] = q[i + 1]
    <3>1. (before \o after)[i] = after[i - (k - 1)]
      BY <1>1, <1>3, <2>1, <2>2
    <3>2. i - (k - 1) \in 1..(Len(q) - k) /\ k + (i - (k - 1)) = i + 1
      BY <1>1
    <3>3. after[i - (k - 1)] = q[k + (i - (k - 1))]
      BY <1>4, <3>2
    <3> QED BY <3>1, <3>2, <3>3
  <2> QED BY <2>1, <2>2, <2>3, <2>4
<1>6. DOMAIN (before \o after) = 1..(Len(q) - 1)
  BY <1>5, LenProperties
<1>7. ASSUME NEW i \in 1..Len(q), i # k
      PROVE  q[i] \in ToSet(before \o after)
  <2>1. CASE i < k
    <3>1. i \in 1..(Len(q) - 1) /\ (before \o after)[i] = q[i]
      BY <1>1, <1>3, <1>5, <2>1
    <3> QED BY <1>6, <3>1 DEF ToSet
  <2>2. CASE i > k
    <3>0. i - 1 \in k..(Len(q) - 1) /\ i - 1 \in 1..(Len(q) - 1) /\ (i - 1) + 1 = i
      BY <1>1, <2>2
    <3>1. i - 1 \in 1..(Len(q) - 1) /\ (before \o after)[i - 1] = q[i]
      BY <1>5, <3>0
    <3> QED BY <1>6, <3>1 DEF ToSet
  <2> QED BY <1>1, <1>7, <2>1, <2>2
<1>8. RemoveAt(q, k) = before \o after
  BY DEF RemoveAt, before, after
<1>9. ASSUME NEW x \in ToSet(q), x # q[k]
      PROVE  x \in ToSet(before \o after)
  BY <1>1, <1>7, <1>9 DEF ToSet
<1>10. ASSUME NEW x \in ToSet(before \o after)
       PROVE  x \in ToSet(q)
  <2>1. PICK i \in 1..(Len(q) - 1) : x = (before \o after)[i]
    BY <1>6, <1>10 DEF ToSet
  <2>2. PICK j \in 1..Len(q) : x = q[j]
    <3>1. CASE i < k
      <4>1. i \in 1..(k - 1) /\ i \in 1..Len(q)
        BY <1>1, <2>1, <3>1
      <4> QED BY <1>5, <2>1, <4>1
    <3>2. CASE i >= k
      <4>1. i \in k..(Len(q) - 1) /\ i + 1 \in 1..Len(q)
        BY <1>1, <2>1, <3>2
      <4> QED BY <1>5, <2>1, <4>1
    <3> QED BY <1>1, <3>1, <3>2
  <2> QED BY <1>1, <2>2 DEF ToSet
<1> QED BY <1>5, <1>8, <1>9, <1>10

-------------------------------------------------------------------------------
(* TypeOK with its quantifiers over variables written out, in groups.      *)
EnvTypes ==
  /\ calm \in BOOLEAN /\ service \in Instance \cup {None}
  /\ starts \in 0..Sessions /\ instances \in 0..Instances
  /\ inst \in [Session -> Instance \cup {None}]
  /\ pc \in [Session -> {"none", "writeConfig", "findOld", "markOld", "stopOld", "sleep", "force",
                         "forceSleep", "open", "openFailed", "process", "done", "thrown"}]

FieldTypes ==
  /\ lock \in [Instance -> SessionOrNone]
  /\ mProcessThread \in [Instance -> SessionOrNone]
  /\ mOpenVPNThread \in [Instance -> SessionOrNone]
  /\ mManagement \in [Instance -> SessionOrNone]
  /\ mDeviceStateReceiver \in [Instance -> SessionOrNone]
  /\ mStarting \in [Instance -> BOOLEAN] /\ stopSelf \in [Instance -> BOOLEAN]
  /\ posted \in [Instance -> Nat]

ThreadTypes ==
  /\ thr \in [Session -> {"none", "reading", "exited", "stopped", "done"}]
  /\ proc \in [Session -> {"none", "starting", "connected", "dead"}]
  /\ mNoProcessExitStatus \in [Session -> BOOLEAN]
  /\ told \in [Session -> BOOLEAN]
  /\ interrupted \in [Session -> BOOLEAN]

SocketTypes ==
  /\ active \in Seq(Session)
  /\ socket \in [Session -> {"none", "listening", "connected", "closed", "eof"}]
  /\ peer \in [Session -> SessionOrNone] /\ bound \in SessionOrNone

Types == EnvTypes /\ FieldTypes /\ ThreadTypes /\ SocketTypes

(* How far a start command has come, and what there is of it by then.      *)
Begun ==
  \A s \in Session :
    /\ starts < s <=> pc[s] = "none"
    /\ pc[s] # "none" => inst[s] \in Instance
    /\ pc[s] = "process" => mManagement[inst[s]] # None
    /\ pc[s] # "done" => thr[s] = "none"
    /\ thr[s] = "none" <=> proc[s] = "none"
    /\ thr[s] = "reading" <=> Live(s)
    /\ pc[s] \notin {"process", "done"} => socket[s] = "none"

(* A service with a process thread has a management thread.                *)
Managed == \A i \in Instance : mProcessThread[i] # None => mManagement[i] # None

(* A process posts one registration.                                       *)
PostedOnce ==
  \A i \in Instance : posted[i] <= Cardinality({s \in Session : thr[s] # "none"})

TypeInv == Types /\ Begun /\ Managed /\ PostedOnce

LEMMA Numbers ==
  /\ Sessions \in Nat /\ Instances \in Nat /\ Disturbed \in Nat /\ Disturbed <= Sessions
  /\ \A s : s \in Session <=> s \in Nat /\ 1 <= s /\ s <= Sessions
  /\ \A i : i \in Instance <=> i \in Nat /\ 1 <= i /\ i <= Instances
  /\ None \notin Session /\ None \notin Instance
BY LifecycleAssumption DEF Session, Instance, None

LEMMA InitTypes == Init => TypeInv
<1> SUFFICES ASSUME Init PROVE TypeInv
  OBVIOUS
<1>1. EnvTypes
  BY LifecycleAssumption DEF Init, EnvTypes
<1>2. FieldTypes
  BY DEF Init, FieldTypes, SessionOrNone
<1>3. ThreadTypes
  BY DEF Init, ThreadTypes
<1>4. SocketTypes
  BY EmptySeq DEF Init, SocketTypes, SessionOrNone
<1>5. Begun
  BY Numbers DEF Init, Begun, Live
<1>6. Managed
  BY DEF Init, Managed
<1>7. PostedOnce
  <2>1. {s \in Session : thr[s] # "none"} = {} /\ \A i \in Instance : posted[i] = 0
    BY DEF Init
  <2> QED BY <2>1, FS_EmptySet DEF PostedOnce
<1> QED BY <1>1, <1>2, <1>3, <1>4, <1>5, <1>6, <1>7 DEF TypeInv, Types

LEMMA EnvStep ==
  ASSUME TypeInv, [Next]_vars
  PROVE  EnvTypes'
<1> USE DEF EnvTypes, env
<1> EnvTypes
  BY DEF TypeInv, Types
<1>0. CASE UNCHANGED vars
  BY <1>0 DEF vars
<1>1. CASE StartCommand
  BY <1>1, Numbers DEF StartCommand, Goto
<1>2. CASE StopVPN \/ OnRevoke \/ OnDestroy
  BY <1>2 DEF StopVPN, OnRevoke, OnDestroy
<1>3. ASSUME NEW i \in Instance, RegisterReceiver(i)
      PROVE  EnvTypes'
  BY <1>3 DEF RegisterReceiver
<1>4. ASSUME NEW s \in Session, Start(s)
      PROVE  EnvTypes'
  <2>1. UNCHANGED env
    BY <1>4 DEF Start, ConfigFails, WriteConfig, FindOld, MarkOld, StopOld, Sleep, ForceStop, ForceSleep,
                OpenManagement, OpenFails, EndFailed, StartProcess
  <2>2. PICK l \in {"findOld", "markOld", "stopOld", "sleep", "force", "forceSleep", "open",
                 "openFailed", "process", "done", "thrown"} : pc' = [pc EXCEPT ![s] = l]
    BY <1>4 DEF Goto, Start, ConfigFails, WriteConfig, FindOld, MarkOld, StopOld, Sleep, ForceStop,
                ForceSleep,
                OpenManagement, OpenFails, EndFailed, StartProcess
  <2> QED BY <2>1, <2>2
<1>5. ASSUME NEW s \in Session,
             AddActive(s) \/ RemoveActive(s) \/ Connect(s) \/ Exit(s) \/ CheckExit(s) \/ OpenvpnStopped(s)
      PROVE  EnvTypes'
  BY <1>5 DEF AddActive, RemoveActive, Connect, Exit, CheckExit, OpenvpnStopped
<1> QED BY <1>0, <1>1, <1>2, <1>3, <1>4, <1>5 DEF Next, Thread

LEMMA FieldStep ==
  ASSUME TypeInv, [Next]_vars
  PROVE  FieldTypes'
<1> USE DEF FieldTypes, SessionOrNone, fields
<1> FieldTypes /\ service \in Instance \cup {None} /\ None \notin Instance
  BY Numbers DEF TypeInv, Types, EnvTypes
<1> /\ inst \in [Session -> Instance \cup {None}]
    /\ \A s \in Session : pc[s] # "none" => inst[s] \in Instance
  BY DEF TypeInv, Types, EnvTypes, Begun
<1>0. CASE UNCHANGED vars
  BY <1>0 DEF vars
<1>1. CASE StartCommand
  BY <1>1 DEF StartCommand
<1>2. CASE StopVPN \/ OnRevoke \/ OnDestroy
  BY <1>2 DEF StopVPN, OnRevoke, OnDestroy, EndVpnService
<1>3. ASSUME NEW i \in Instance, RegisterReceiver(i)
      PROVE  FieldTypes'
  BY <1>3 DEF RegisterReceiver
<1>4. ASSUME NEW s \in Session, Start(s)
      PROVE  FieldTypes'
  <2>1. CASE ConfigFails(s) \/ EndFailed(s)
    BY <2>1 DEF ConfigFails, EndFailed, EndVpnService
  <2>2. CASE WriteConfig(s)
    BY <2>2 DEF WriteConfig
  <2>3. CASE FindOld(s) \/ MarkOld(s) \/ StopOld(s) \/ Sleep(s)
    BY <2>3 DEF FindOld, MarkOld, StopOld, Sleep
  <2>4. CASE ForceStop(s) \/ ForceSleep(s)
    BY <2>4 DEF ForceStop, ForceSleep
  <2>5. CASE OpenManagement(s) \/ OpenFails(s)
    BY <2>5 DEF OpenManagement, OpenFails
  <2>6. CASE StartProcess(s)
    BY <2>6 DEF StartProcess
  <2> QED BY <1>4, <2>1, <2>2, <2>3, <2>4, <2>5, <2>6 DEF Start
<1>5. ASSUME NEW s \in Session,
             AddActive(s) \/ RemoveActive(s) \/ Connect(s) \/ Exit(s) \/ CheckExit(s)
      PROVE  FieldTypes'
  BY <1>5 DEF AddActive, RemoveActive, Connect, Exit, CheckExit
<1>6. ASSUME NEW s \in Session, OpenvpnStopped(s)
      PROVE  FieldTypes'
  BY <1>6 DEF OpenvpnStopped, EndVpnService
<1> QED BY <1>0, <1>1, <1>2, <1>3, <1>4, <1>5, <1>6 DEF Next, Thread

(* Steps by what they change: the list, the sockets and who is told.       *)
Links == <<proc, told, active, socket, peer>>

Stops == StopOpenVPN /\ UNCHANGED <<proc, active, peer>>

LEMMA LinkCases ==
  ASSUME [Next]_vars
  PROVE  \/ UNCHANGED Links
         \/ Stops
         \/ \E s \in Session : \/ OpenManagement(s) \/ StartProcess(s) \/ AddActive(s)
                               \/ RemoveActive(s) \/ Connect(s) \/ Exit(s)
<1> USE DEF Links, Stops, env, fields, threadVars, socketVars, vars
<1>1. CASE StartCommand
  BY <1>1 DEF StartCommand
<1>2. CASE StopVPN \/ OnRevoke \/ OnDestroy
  BY <1>2 DEF StopVPN, OnRevoke, OnDestroy
<1>3. ASSUME NEW i \in Instance, RegisterReceiver(i)
      PROVE  UNCHANGED Links
  BY <1>3 DEF RegisterReceiver
<1>4. ASSUME NEW s \in Session, Start(s)
      PROVE  UNCHANGED Links \/ Stops \/ OpenManagement(s) \/ StartProcess(s)
  BY <1>4 DEF Start, ConfigFails, WriteConfig, FindOld, MarkOld, StopOld, Sleep, ForceStop, ForceSleep,
     OpenFails, EndFailed
<1>5. ASSUME NEW s \in Session, CheckExit(s) \/ OpenvpnStopped(s)
      PROVE  UNCHANGED Links
  BY <1>5 DEF CheckExit, OpenvpnStopped
<1> QED BY <1>1, <1>2, <1>3, <1>4, <1>5 DEF Next, Thread

(* A stop closes sockets and tells processes, never the other way round.   *)
LEMMA Stopped ==
  ASSUME ThreadTypes, SocketTypes, Stops
  PROVE  /\ socket' \in [Session -> {"none", "listening", "connected", "closed", "eof"}]
         /\ told' \in [Session -> BOOLEAN]
         /\ \A m \in Session : socket[m] # "connected" => socket'[m] = socket[m]
         /\ \A p \in Session : told[p] => told'[p]
         /\ \A m \in Session : m \in ToSet(active) /\ socket[m] = "connected" /\ peer[m] \in Session
              => told'[peer[m]]
<1> DEFINE stopped == {m \in Session : m \in ToSet(active) /\ socket[m] = "connected"}
           new(p) == told[p] \/ \E m \in stopped : peer[m] = p
<1>1. /\ socket' = [m \in Session |-> IF m \in stopped THEN "closed" ELSE socket[m]]
      /\ told' = [p \in Session |-> new(p)]
  BY DEF Stops, StopOpenVPN
<1>2. \A p \in Session : new(p) \in BOOLEAN
  OBVIOUS
<1>3. told' \in [Session -> BOOLEAN] /\ \A p \in Session : told'[p] = new(p)
  <2> HIDE DEF new
  <2> QED BY <1>1, <1>2
<1>4. socket' \in [Session -> {"none", "listening", "connected", "closed", "eof"}]
  BY <1>1 DEF SocketTypes
<1>5. \A m \in Session : socket[m] # "connected" => socket'[m] = socket[m]
  BY <1>1
<1> QED BY <1>3, <1>4, <1>5

LEMMA ThreadStep ==
  ASSUME TypeInv, [Next]_vars
  PROVE  ThreadTypes' /\ SocketTypes'
<1> USE DEF ThreadTypes, SocketTypes, threadVars, socketVars
<1> ThreadTypes /\ SocketTypes
  BY DEF TypeInv, Types
<1>0. CASE UNCHANGED vars
  BY <1>0 DEF vars
<1>1. CASE StartCommand
  BY <1>1 DEF StartCommand
<1>2. CASE StopVPN \/ OnRevoke \/ OnDestroy
  <2>1. Stops \/ UNCHANGED Links
    BY <1>2 DEF StopVPN, OnRevoke, OnDestroy, Stops, Links
  <2>2. UNCHANGED <<thr, mNoProcessExitStatus, interrupted, bound>>
    BY <1>2 DEF StopVPN, OnRevoke, OnDestroy
  <2> QED BY <2>1, <2>2, Stopped DEF Stops, Links, TypeInv, Types, EnvTypes
<1>3. ASSUME NEW i \in Instance, RegisterReceiver(i)
      PROVE  ThreadTypes' /\ SocketTypes'
  BY <1>3 DEF RegisterReceiver
<1>4. ASSUME NEW s \in Session, Start(s)
      PROVE  ThreadTypes' /\ SocketTypes'
  <2>1. CASE \/ ConfigFails(s) \/ EndFailed(s) \/ WriteConfig(s) \/ FindOld(s) \/ Sleep(s)
             \/ ForceSleep(s) \/ OpenFails(s)
    BY <2>1 DEF ConfigFails, EndFailed, WriteConfig, FindOld, Sleep, ForceSleep, OpenFails
  <2>2. CASE MarkOld(s)
    BY <2>2 DEF MarkOld
  <2>3. CASE StopOld(s)
    BY <2>3 DEF StopOld, StopOpenVPN
  <2>4. CASE ForceStop(s)
    BY <2>4 DEF ForceStop
  <2>5. CASE OpenManagement(s)
    BY <2>5 DEF OpenManagement, SessionOrNone
  <2>6. CASE StartProcess(s)
    BY <2>6 DEF StartProcess
  <2> QED BY <1>4, <2>1, <2>2, <2>3, <2>4, <2>5, <2>6 DEF Start
<1>5. ASSUME NEW s \in Session, AddActive(s)
      PROVE  ThreadTypes' /\ SocketTypes'
  BY <1>5, ListAppend DEF AddActive
<1>6. ASSUME NEW s \in Session, RemoveActive(s)
      PROVE  ThreadTypes' /\ SocketTypes'
  BY <1>6, ListRemove DEF RemoveActive
<1>7. ASSUME NEW s \in Session, Connect(s)
      PROVE  ThreadTypes' /\ SocketTypes'
  BY <1>7 DEF Connect, SessionOrNone
<1>8. ASSUME NEW s \in Session, Exit(s) \/ CheckExit(s) \/ OpenvpnStopped(s)
      PROVE  ThreadTypes' /\ SocketTypes'
  BY <1>8 DEF Exit, CheckExit, OpenvpnStopped
<1> QED BY <1>0, <1>1, <1>2, <1>3, <1>4, <1>5, <1>6, <1>7, <1>8 DEF Next, Thread

LEMMA BegunStep ==
  ASSUME TypeInv, [Next]_vars
  PROVE  Begun' /\ Managed'
<1> USE DEF Begun, Managed, Live, env, fields, threadVars, socketVars
<1> /\ EnvTypes /\ FieldTypes /\ ThreadTypes /\ SocketTypes /\ Begun /\ Managed
  BY DEF TypeInv, Types
<1>0. CASE UNCHANGED vars
  BY <1>0 DEF vars
<1>1. CASE StartCommand
  <2>1. /\ starts + 1 \in Session /\ starts' = starts + 1
        /\ inst' = [inst EXCEPT ![starts + 1] = service'] /\ service' \in Instance
        /\ pc' = [pc EXCEPT ![starts + 1] = "writeConfig"]
        /\ UNCHANGED <<mManagement, mProcessThread, thr, proc, socket>>
    BY <1>1, Numbers DEF StartCommand, Goto, EnvTypes
  <2> QED BY <2>1, Numbers DEF EnvTypes
<1>2. CASE StopVPN \/ OnRevoke \/ OnDestroy
  BY <1>2 DEF StopVPN, OnRevoke, OnDestroy, StopOpenVPN, EndVpnService, EnvTypes, FieldTypes
<1>3. ASSUME NEW i \in Instance, RegisterReceiver(i)
      PROVE  Begun' /\ Managed'
  BY <1>3 DEF RegisterReceiver
<1>4. ASSUME NEW s \in Session, Start(s)
      PROVE  Begun' /\ Managed'
  <2> USE DEF EnvTypes, Goto
  <2>0. pc[s] # "none" => inst[s] \in Instance
    OBVIOUS
  <2>1. CASE ConfigFails(s) \/ EndFailed(s)
    BY <2>1 DEF ConfigFails, EndFailed, EndVpnService, FieldTypes
  <2>2. CASE WriteConfig(s)
    BY <2>2 DEF WriteConfig
  <2>3. CASE FindOld(s) \/ MarkOld(s) \/ Sleep(s) \/ ForceSleep(s) \/ OpenFails(s)
    BY <2>3 DEF FindOld, MarkOld, Sleep, ForceSleep, OpenFails
  <2>4. CASE StopOld(s)
    BY <2>4 DEF StopOld, StopOpenVPN, SocketTypes
  <2>5. CASE ForceStop(s)
    BY <2>5 DEF ForceStop
  <2>6. CASE OpenManagement(s)
    <3>1. /\ pc[s] = "open" /\ pc' = [pc EXCEPT ![s] = "process"]
          /\ socket' = [socket EXCEPT ![s] = "listening"]
          /\ mManagement' = [mManagement EXCEPT ![inst[s]] = s]
          /\ UNCHANGED <<starts, inst, mProcessThread, thr, proc>>
      BY <2>6 DEF OpenManagement
    <3> QED BY <2>0, <3>1, Numbers DEF SocketTypes, FieldTypes
  <2>7. CASE StartProcess(s)
    <3>1. /\ pc[s] = "process" /\ pc' = [pc EXCEPT ![s] = "done"]
          /\ thr' = [thr EXCEPT ![s] = "reading"]
          /\ mProcessThread' = [mProcessThread EXCEPT ![inst[s]] = s]
          /\ proc' = [proc EXCEPT ![s] = "starting"]
          /\ UNCHANGED <<starts, inst, mManagement, socket>>
      BY <2>7 DEF StartProcess
    <3> QED BY <2>0, <3>1, Numbers DEF ThreadTypes, FieldTypes
  <2> QED BY <1>4, <2>1, <2>2, <2>3, <2>4, <2>5, <2>6, <2>7 DEF Start
<1>5. ASSUME NEW s \in Session, AddActive(s) \/ RemoveActive(s)
      PROVE  Begun' /\ Managed'
  BY <1>5 DEF AddActive, RemoveActive
<1>6. ASSUME NEW s \in Session, Connect(s)
      PROVE  Begun' /\ Managed'
  BY <1>6 DEF Connect, SocketTypes, ThreadTypes
<1>7. ASSUME NEW s \in Session, Exit(s)
      PROVE  Begun' /\ Managed'
  BY <1>7 DEF Exit, SocketTypes, ThreadTypes
<1>8. ASSUME NEW s \in Session, CheckExit(s)
      PROVE  Begun' /\ Managed'
  BY <1>8 DEF CheckExit, ThreadTypes
<1>9. ASSUME NEW s \in Session, OpenvpnStopped(s)
      PROVE  Begun' /\ Managed'
  BY <1>9 DEF OpenvpnStopped, EndVpnService, ThreadTypes, FieldTypes
<1> QED BY <1>0, <1>1, <1>2, <1>3, <1>4, <1>5, <1>6, <1>7, <1>8, <1>9 DEF Next, Thread

(* The sessions whose process thread has been started.                     *)
Launched == {s \in Session : thr[s] # "none"}

LEMMA LaunchedStep ==
  ASSUME TypeInv, [Next]_vars
  PROVE  \/ Launched' = Launched /\ \A i \in Instance : posted'[i] <= posted[i]
         \/ \E s \in Session \ Launched : Launched' = Launched \cup {s}
              /\ \A i \in Instance : posted'[i] <= posted[i] + 1
<1> USE DEF Launched, env, fields, threadVars, socketVars
<1> FieldTypes /\ ThreadTypes /\ Begun
  BY DEF TypeInv, Types
<1> DEFINE Same == Launched' = Launched /\ \A i \in Instance : posted'[i] <= posted[i]
<1>q. UNCHANGED <<thr, posted>> => Same
  BY DEF FieldTypes
<1>0. CASE UNCHANGED vars
  BY <1>0, <1>q DEF vars
<1>1. CASE StartCommand \/ StopVPN \/ OnRevoke \/ OnDestroy
  BY <1>1, <1>q DEF StartCommand, StopVPN, OnRevoke, OnDestroy, EndVpnService
<1>2. ASSUME NEW i \in Instance, RegisterReceiver(i)
      PROVE  Same
  BY <1>2 DEF RegisterReceiver, FieldTypes
<1>3. ASSUME NEW s \in Session, Start(s), ~StartProcess(s)
      PROVE  Same
  BY <1>3, <1>q DEF Start, ConfigFails, WriteConfig, FindOld, MarkOld, StopOld, Sleep, ForceStop, ForceSleep,
                    OpenManagement, OpenFails, EndFailed, EndVpnService
<1>4. ASSUME NEW s \in Session, StartProcess(s)
      PROVE  /\ s \in Session \ Launched /\ Launched' = Launched \cup {s}
             /\ \A i \in Instance : posted'[i] <= posted[i] + 1
  BY <1>4 DEF StartProcess, Begun, ThreadTypes, FieldTypes
<1>5. ASSUME NEW s \in Session, AddActive(s) \/ RemoveActive(s) \/ Connect(s)
      PROVE  Same
  BY <1>5, <1>q DEF AddActive, RemoveActive, Connect
<1>6. ASSUME NEW s \in Session, Exit(s) \/ CheckExit(s) \/ OpenvpnStopped(s)
      PROVE  Same
  <2>1. PICK t \in {"exited", "stopped", "done"} : thr' = [thr EXCEPT ![s] = t] /\ thr[s] # "none"
    BY <1>6 DEF Exit, CheckExit, OpenvpnStopped, Begun, Live
  <2>2. posted' = posted
    BY <1>6 DEF Exit, CheckExit, OpenvpnStopped, EndVpnService
  <2> QED BY <2>1, <2>2 DEF ThreadTypes, FieldTypes
<1> QED BY <1>0, <1>1, <1>2, <1>3, <1>4, <1>5, <1>6 DEF Next, Thread

LEMMA PostedStep ==
  ASSUME TypeInv, [Next]_vars
  PROVE  PostedOnce'
<1>1. FieldTypes /\ FieldTypes' /\ \A i \in Instance : posted[i] <= Cardinality(Launched)
  BY FieldStep DEF TypeInv, Types, PostedOnce, Launched
<1>2. IsFiniteSet(Launched) /\ Cardinality(Launched) \in Nat
  <2>1. IsFiniteSet(Session) /\ Launched \subseteq Session
    BY Numbers, FS_Interval DEF Session, Launched
  <2> QED BY <2>1, FS_Subset, FS_CardinalityType
<1>3. \A i \in Instance : posted'[i] <= Cardinality(Launched')
  <2>1. CASE Launched' = Launched /\ \A i \in Instance : posted'[i] <= posted[i]
    BY <1>1, <1>2, <2>1 DEF FieldTypes
  <2>2. ASSUME NEW s \in Session \ Launched, Launched' = Launched \cup {s},
               \A i \in Instance : posted'[i] <= posted[i] + 1
        PROVE  \A i \in Instance : posted'[i] <= Cardinality(Launched')
    <3>1. Cardinality(Launched') = Cardinality(Launched) + 1
      BY <1>2, <2>2, FS_AddElement
    <3> QED BY <1>1, <1>2, <2>2, <3>1 DEF FieldTypes
  <2> QED BY <2>1, <2>2, LaunchedStep
<1> QED BY <1>3 DEF PostedOnce, Launched

LEMMA TypesSuffice == TypeInv => TypeOK
<1> SUFFICES ASSUME TypeInv PROVE TypeOK
  OBVIOUS
<1>1. /\ EnvTypes /\ FieldTypes /\ ThreadTypes /\ SocketTypes
      /\ \A i \in Instance : mProcessThread[i] # None => mManagement[i] # None
  BY DEF TypeInv, Types, Managed
<1>2. posted \in [Instance -> 0..Sessions]
  <2>1. IsFiniteSet(Session) /\ Cardinality(Session) = Sessions /\ Launched \subseteq Session
    BY Numbers, FS_Interval DEF Session, Launched
  <2>2. Cardinality(Launched) \in Nat /\ Cardinality(Launched) <= Sessions
    BY <2>1, FS_Subset, FS_CardinalityType
  <2>3. \A i \in Instance : posted[i] \in 0..Sessions
    BY <1>1, <2>2, Numbers DEF FieldTypes, TypeInv, PostedOnce, Launched
  <2> QED BY <1>1, <2>3 DEF FieldTypes
<1>3. \A f \in {lock, mProcessThread, mOpenVPNThread, mManagement, mDeviceStateReceiver} :
        f \in [Instance -> SessionOrNone]
  BY <1>1 DEF FieldTypes
<1>4. \A f \in {mNoProcessExitStatus, told, interrupted} : f \in [Session -> BOOLEAN]
  BY <1>1 DEF ThreadTypes
<1> QED BY <1>1, <1>2, <1>3, <1>4 DEF TypeOK, EnvTypes, FieldTypes, ThreadTypes, SocketTypes

LEMMA TypeStep == TypeInv /\ [Next]_vars => TypeInv'
BY EnvStep, FieldStep, ThreadStep, BegunStep, PostedStep DEF TypeInv, Types

(* The fields of the service name sessions, no more registrations are      *)
(* posted than processes started, and whoever finds a process thread in    *)
(* onDestroy finds a management thread to call.                            *)
THEOREM LifecycleTypes == Spec => []TypeOK
BY InitTypes, TypeStep, TypesSuffice, PTL DEF Spec

-------------------------------------------------------------------------------
(* Who can be told to exit.                                                *)
ReachInv == TypeInv /\ ConnectedIsReachable

LEMMA InitReach == Init => ReachInv
BY InitTypes DEF Init, ReachInv, ConnectedIsReachable

LEMMA ReachStep ==
  ASSUME ReachInv, [Next]_vars
  PROVE  ConnectedIsReachable'
<1> SUFFICES ASSUME NEW p \in Session, proc'[p] = "connected", ~told'[p]
             PROVE  \E m \in ToSet(active') : socket'[m] = "connected" /\ peer'[m] = p
  BY DEF ConnectedIsReachable
<1>0. ThreadTypes /\ SocketTypes /\ Begun /\ ToSet(active) \subseteq Session
  BY LenProperties, ElementOfSeq DEF ReachInv, TypeInv, Types, SocketTypes, ToSet
<1>1. ASSUME proc[p] = "connected", ~told[p]
      PROVE  \E m \in ToSet(active) : socket[m] = "connected" /\ peer[m] = p
  BY <1>1 DEF ReachInv, ConnectedIsReachable
<1>2. CASE UNCHANGED Links
  BY <1>1, <1>2 DEF Links
<1>3. CASE Stops
  <2>1. proc[p] = "connected" /\ ~told[p] /\ UNCHANGED <<active, peer>>
    BY <1>0, <1>3, Stopped DEF Stops
  <2>2. PICK m \in ToSet(active) : socket[m] = "connected" /\ peer[m] = p
    BY <1>1, <2>1
  <2> QED BY <1>0, <1>3, <2>2, Stopped
<1>4. ASSUME NEW s \in Session, OpenManagement(s)
      PROVE  \E m \in ToSet(active') : socket'[m] = "connected" /\ peer'[m] = p
  <2>1. /\ pc[s] = "open" /\ socket' = [socket EXCEPT ![s] = "listening"]
        /\ UNCHANGED <<proc, told, active, peer>>
    BY <1>4 DEF OpenManagement, threadVars
  <2>2. PICK m \in ToSet(active) : socket[m] = "connected" /\ peer[m] = p
    BY <1>1, <2>1
  <2>3. socket[s] = "none"
    BY <1>0, <2>1 DEF Begun
  <2> QED BY <1>0, <2>1, <2>2, <2>3 DEF ThreadTypes, SocketTypes
<1>5. ASSUME NEW s \in Session, StartProcess(s)
      PROVE  \E m \in ToSet(active') : socket'[m] = "connected" /\ peer'[m] = p
  <2>1. proc' = [proc EXCEPT ![s] = "starting"] /\ UNCHANGED <<told, active, socket, peer>>
    BY <1>5 DEF StartProcess, socketVars
  <2>2. proc[p] = "connected"
    BY <1>0, <2>1 DEF ThreadTypes, SocketTypes
  <2> QED BY <1>1, <2>1, <2>2
<1>6. ASSUME NEW s \in Session, AddActive(s)
      PROVE  \E m \in ToSet(active') : socket'[m] = "connected" /\ peer'[m] = p
  <2>1. active' = Append(active, s) /\ UNCHANGED <<proc, told, socket, peer>>
    BY <1>6 DEF AddActive, threadVars
  <2>2. ToSet(active) \subseteq ToSet(active')
    BY <1>0, <2>1, ListAppend DEF ThreadTypes, SocketTypes
  <2> QED BY <1>1, <2>1, <2>2
<1>7. ASSUME NEW s \in Session, RemoveActive(s)
      PROVE  \E m \in ToSet(active') : socket'[m] = "connected" /\ peer'[m] = p
  <2>1. socket[s] = "closed" /\ UNCHANGED <<proc, told, socket, peer>>
    BY <1>7 DEF RemoveActive, threadVars
  <2>2. ToSet(active) \ {s} \subseteq ToSet(active')
    BY <1>0, <1>7, ListRemove DEF RemoveActive, SocketTypes
  <2>3. PICK m \in ToSet(active) : socket[m] = "connected" /\ peer[m] = p
    BY <1>1, <2>1
  <2> QED BY <2>1, <2>2, <2>3
<1>8. ASSUME NEW s \in Session, Connect(s)
      PROVE  \E m \in ToSet(active') : socket'[m] = "connected" /\ peer'[m] = p
  <2>1. /\ bound \in ToSet(active) /\ socket[bound] = "listening"
        /\ proc' = [proc EXCEPT ![s] = "connected"]
        /\ socket' = [socket EXCEPT ![bound] = "connected"]
        /\ peer' = [peer EXCEPT ![bound] = s]
        /\ UNCHANGED <<told, active>>
    BY <1>8 DEF Connect
  <2>2. CASE p = s
    BY <1>0, <2>1, <2>2 DEF ThreadTypes, SocketTypes
  <2>3. CASE p # s
    <3>1. PICK m \in ToSet(active) : socket[m] = "connected" /\ peer[m] = p
      BY <1>0, <1>1, <2>1, <2>3 DEF ThreadTypes, SocketTypes
    <3> QED BY <1>0, <2>1, <3>1 DEF ThreadTypes, SocketTypes
  <2> QED BY <2>2, <2>3
<1>9. ASSUME NEW s \in Session, Exit(s)
      PROVE  \E m \in ToSet(active') : socket'[m] = "connected" /\ peer'[m] = p
  <2>1. /\ proc' = [proc EXCEPT ![s] = "dead"]
        /\ socket' = [m \in Session |-> IF peer[m] = s /\ socket[m] = "connected"
                                        THEN "eof" ELSE socket[m]]
        /\ UNCHANGED <<told, active, peer>>
    BY <1>9 DEF Exit
  <2>2. p # s /\ proc[p] = "connected"
    BY <1>0, <2>1 DEF ThreadTypes, SocketTypes
  <2>3. PICK m \in ToSet(active) : socket[m] = "connected" /\ peer[m] = p
    BY <1>1, <2>1, <2>2
  <2> QED BY <1>0, <2>1, <2>2, <2>3
<1> QED BY <1>2, <1>3, <1>4, <1>5, <1>6, <1>7, <1>8, <1>9, LinkCases

(* Whatever comes in between, a process that is connected and not told to  *)
(* exit can be told by stopOpenVPN.                                        *)
THEOREM ConnectedIsAlwaysReachable == Spec => []ConnectedIsReachable
<1>1. ReachInv /\ [Next]_vars => ReachInv'
  BY TypeStep, ReachStep DEF ReachInv
<1>2. ReachInv => ConnectedIsReachable
  BY DEF ReachInv
<1> QED BY <1>1, <1>2, InitReach, PTL DEF Spec

-------------------------------------------------------------------------------
(* The service's fields name sessions whose process has been started, and  *)
(* only such a session is marked as replaced or interrupted.               *)
Seen ==
  /\ \A i \in Instance : mProcessThread[i] # None => thr[mProcessThread[i]] # "none"
  /\ \A i \in Instance : mOpenVPNThread[i] # None => thr[mOpenVPNThread[i]] # "none"
  /\ \A s \in Session : thr[s] = "none" => ~mNoProcessExitStatus[s] /\ ~interrupted[s]

LEMMA SeenStep ==
  ASSUME TypeInv, Seen, [Next]_vars
  PROVE  Seen'
<1> USE DEF Seen, env, fields, threadVars, socketVars
<1> EnvTypes /\ FieldTypes /\ ThreadTypes /\ Begun
  BY DEF TypeInv, Types
<1>0. CASE UNCHANGED vars
  BY <1>0 DEF vars
<1>1. CASE StartCommand
  BY <1>1 DEF StartCommand
<1>2. CASE StopVPN \/ OnRevoke \/ OnDestroy
  BY <1>2, Numbers DEF StopVPN, OnRevoke, OnDestroy, EndVpnService, FieldTypes, EnvTypes
<1>3. ASSUME NEW i \in Instance, RegisterReceiver(i)
      PROVE  Seen'
  BY <1>3 DEF RegisterReceiver
<1>4. ASSUME NEW s \in Session, Start(s)
      PROVE  Seen'
  <2>0. pc[s] # "none" => inst[s] \in Instance
    BY DEF Begun
  <2>1. CASE ConfigFails(s) \/ EndFailed(s)
    BY <2>0, <2>1 DEF ConfigFails, EndFailed, EndVpnService, FieldTypes
  <2>2. CASE \/ WriteConfig(s) \/ FindOld(s) \/ StopOld(s) \/ Sleep(s) \/ ForceSleep(s)
             \/ OpenManagement(s) \/ OpenFails(s)
    BY <2>2 DEF WriteConfig, FindOld, StopOld, Sleep, ForceSleep, OpenManagement, OpenFails
  <2>3. CASE MarkOld(s)
    <3>1. mNoProcessExitStatus' =
            [k \in Session |-> mNoProcessExitStatus[k] \/ k = mOpenVPNThread[inst[s]]]
      BY <2>3 DEF MarkOld
    <3>2. \A k \in Session : k = mOpenVPNThread[inst[s]] => thr[k] # "none"
      BY <2>0, <2>3, Numbers DEF MarkOld
    <3>3. UNCHANGED <<mProcessThread, mOpenVPNThread, thr, interrupted>>
      BY <2>3 DEF MarkOld
    <3>4. \A k \in Session : mNoProcessExitStatus'[k] => thr[k] # "none"
      <4>1. ASSUME NEW k \in Session, mNoProcessExitStatus'[k]
            PROVE  mNoProcessExitStatus[k] \/ k = mOpenVPNThread[inst[s]]
        BY <3>1, <4>1, Zenon
      <4> QED BY <3>2, <4>1
    <3> QED BY <3>3, <3>4
  <2>4. CASE ForceStop(s)
    BY <2>0, <2>4 DEF ForceStop, ThreadTypes
  <2>5. CASE StartProcess(s)
    BY <2>0, <2>5, Numbers DEF StartProcess, ThreadTypes, FieldTypes
  <2> QED BY <1>4, <2>1, <2>2, <2>3, <2>4, <2>5 DEF Start
<1>5. ASSUME NEW s \in Session, AddActive(s) \/ RemoveActive(s) \/ Connect(s)
      PROVE  Seen'
  BY <1>5 DEF AddActive, RemoveActive, Connect
<1>6. ASSUME NEW s \in Session, Exit(s) \/ CheckExit(s)
      PROVE  Seen'
  BY <1>6 DEF Exit, CheckExit, ThreadTypes, Begun, FieldTypes, SessionOrNone
<1>7. ASSUME NEW s \in Session, OpenvpnStopped(s)
      PROVE  Seen'
  BY <1>7, Numbers DEF OpenvpnStopped, EndVpnService, ThreadTypes, FieldTypes, SessionOrNone, Begun
<1> QED BY <1>0, <1>1, <1>2, <1>3, <1>4, <1>5, <1>6, <1>7 DEF Next, Thread

-------------------------------------------------------------------------------
(* Instances are numbered as they are created: none that is to come has a  *)
(* registration posted.                                                    *)
Numbered ==
  /\ service <= instances
  /\ \A s \in Session : inst[s] <= instances
  /\ \A i \in Instance : posted[i] > 0 => i <= instances

LEMMA NumberedStep ==
  ASSUME TypeInv, Numbered, [Next]_vars
  PROVE  Numbered'
<1> USE DEF Numbered, env, fields
<1> EnvTypes /\ FieldTypes /\ Begun
  BY DEF TypeInv, Types
<1>0. CASE UNCHANGED vars
  BY <1>0 DEF vars
<1>1. CASE StartCommand
  <2>1. /\ starts + 1 \in Session /\ inst' = [inst EXCEPT ![starts + 1] = service']
        /\ instances' \in Nat /\ instances <= instances' /\ service' <= instances'
        /\ UNCHANGED posted
    BY <1>1, Numbers DEF StartCommand, EnvTypes
  <2>2. \A s \in Session : inst'[s] = IF s = starts + 1 THEN service' ELSE inst[s]
    BY <2>1 DEF EnvTypes
  <2>3. instances \in Nat /\ \A s \in Session : inst[s] \in Nat
    BY Numbers DEF EnvTypes, None
  <2>4. \A s \in Session : inst'[s] <= instances'
    BY <2>1, <2>2, <2>3
  <2>5. \A i \in Instance : posted'[i] > 0 => i <= instances'
    BY <2>1, <2>3, Numbers
  <2> QED BY <2>1, <2>4, <2>5
<1>2. CASE StopVPN \/ OnRevoke \/ OnDestroy
  BY <1>2, Numbers DEF StopVPN, OnRevoke, OnDestroy, EndVpnService, EnvTypes, None
<1>3. ASSUME NEW i \in Instance, RegisterReceiver(i)
      PROVE  Numbered'
  BY <1>3 DEF RegisterReceiver, FieldTypes
<1>4. ASSUME NEW s \in Session, Start(s), ~StartProcess(s)
      PROVE  Numbered'
  BY <1>4 DEF Start, ConfigFails, WriteConfig, FindOld, MarkOld, StopOld, Sleep, ForceStop, ForceSleep,
              OpenManagement, OpenFails, EndFailed, EndVpnService
<1>5. ASSUME NEW s \in Session, StartProcess(s)
      PROVE  Numbered'
  BY <1>5 DEF StartProcess, Begun, FieldTypes
<1>6. ASSUME NEW s \in Session,
             AddActive(s) \/ RemoveActive(s) \/ Connect(s) \/ Exit(s) \/ CheckExit(s) \/ OpenvpnStopped(s)
      PROVE  Numbered'
  BY <1>6 DEF AddActive, RemoveActive, Connect, Exit, CheckExit, OpenvpnStopped, EndVpnService
<1> QED BY <1>0, <1>1, <1>2, <1>3, <1>4, <1>5, <1>6 DEF Next, Thread

-------------------------------------------------------------------------------
(* What there is of the sessions when nothing comes in between.            *)
Over(s) == thr[s] \in {"none", "done"}

Reachable(s) == proc[s] = "connected" /\ ~told[s]

(* The process of session s ended before it connected.                     *)
Missed(s) == s \in Session /\ proc[s] = "dead" /\ socket[s] = "listening"

(* The service and its fields are those of session s.                      *)
Owns(s) ==
  /\ service = inst[s] /\ ~stopSelf[service]
  /\ mProcessThread[service] = s /\ mOpenVPNThread[service] = s /\ mManagement[service] = s

IsClear(i) ==
  /\ mProcessThread[i] = None
  /\ mDeviceStateReceiver[i] # None => Missed(mDeviceStateReceiver[i])

Cleared == \A i \in Instance : IsClear(i)

(* Only the last start command is under way, and it does not throw.        *)
InTurn ==
  /\ \A s \in Session : s < starts => pc[s] = "done"
  /\ \A s \in Session : pc[s] # "thrown"

(* A session's process is the peer of its own management thread, which is  *)
(* in the list.                                                            *)
SocketsInTurn ==
  \A s \in Session :
    /\ socket[s] = "connected" => peer[s] = s /\ Reachable(s) /\ s \in ToSet(active)
    /\ Reachable(s) => socket[s] = "connected"
    /\ socket[s] = "listening" =>
         \/ s = starts /\ bound = s /\ (pc[s] = "process" \/ proc[s] = "starting")
         \/ proc[s] = "dead"
    /\ proc[s] = "starting" => socket[s] = "listening" /\ ~told[s]
    /\ proc[s] = "none" => ~told[s]

(* A registration is posted for the session that runs, or for one whose    *)
(* process ended before it connected.                                      *)
PostedInTurn ==
  \A i \in Instance : posted[i] > 0 =>
    /\ i = service => pc[starts] = "done"
    /\ \/ i = service /\ thr[starts] = "reading" /\ ~told[starts]
       \/ Missed(mManagement[i])

(* A destroyed service has been torn down before.                          *)
DeadCleared == \A i \in Instance : i # service => IsClear(i)

(* A start command that has not ended keeps the service.                   *)
Starting == pc[starts] # "done" => service = inst[starts] /\ ~stopSelf[service]

(* Until the old session is stopped it is whole; from markOld on it is     *)
(* marked as replaced.                                                     *)
OldIsWhole ==
  pc[starts] \in {"writeConfig", "findOld", "markOld", "stopOld"} =>
    /\ \A s \in Session :
         \/ Over(s)
         \/ /\ s # starts /\ Owns(s) /\ Reachable(s) /\ ~interrupted[s]
            /\ pc[starts] = "stopOld" => mNoProcessExitStatus[s]
    /\ (\A s \in Session : Over(s)) => Cleared
    /\ pc[starts] = "markOld" => mOpenVPNThread[service] # None

(* From the stop to the end of the sleeps the old session ends, and ends   *)
(* as one that was replaced.                                               *)
OldIsEnding ==
  pc[starts] \in {"sleep", "force", "forceSleep"} =>
    \A s \in Session :
      \/ Over(s)
      \/ /\ thr[s] \in {"reading", "exited"} /\ told[s] /\ mNoProcessExitStatus[s]
         /\ mProcessThread[service] = s

(* After the sleeps it has ended.                                          *)
OldIsOver ==
  pc[starts] \in {"open", "openFailed", "process"} => \A s \in Session : Over(s)

(* openManagementInterface leaves its own thread listening.                *)
Listening ==
  pc[starts] = "process" => mManagement[service] = starts /\ socket[starts] = "listening"

(* A session that has been started has the service until its end, which    *)
(* clears it.                                                              *)
CurrentIsWhole ==
  pc[starts] = "done" =>
    /\ \A s \in Session :
         \/ Over(s)
         \/ /\ s = starts /\ Owns(s) /\ ~mNoProcessExitStatus[s] /\ ~interrupted[s]
            /\ thr[s] = "reading" /\ ~told[s] => posted[service] > 0 \/ mDeviceStateReceiver[service] = s
    /\ Over(starts) => Cleared

Stages == starts # 0 => Starting /\ OldIsWhole /\ OldIsEnding /\ OldIsOver /\ Listening /\ CurrentIsWhole

Unused == starts = 0 => service = None /\ Cleared /\ \A s \in Session : Over(s)

InOrder == InTurn /\ SocketsInTurn /\ PostedInTurn /\ DeadCleared /\ Stages /\ Unused

TurnInv == calm => InOrder

LEMMA InitTurn == Init => TurnInv /\ Seen /\ Numbered
<1> SUFFICES ASSUME Init PROVE TurnInv /\ Seen /\ Numbered
  OBVIOUS
<1>1. InTurn /\ DeadCleared /\ Unused /\ Stages
  BY Numbers DEF Init, InTurn, DeadCleared, Unused, Stages, Cleared, IsClear, Over
<1>2. SocketsInTurn
  BY DEF Init, SocketsInTurn, Reachable
<1>3. PostedInTurn /\ Numbered
  BY DEF Init, PostedInTurn, Numbered, None
<1>4. Seen
  BY Numbers DEF Init, Seen
<1> QED BY <1>1, <1>2, <1>3, <1>4 DEF TurnInv, InOrder

(* What is known in a calm state.                                          *)
CalmState ==
  /\ EnvTypes /\ FieldTypes /\ ThreadTypes /\ SocketTypes /\ Begun /\ Seen /\ Numbered
  /\ InOrder

(* A management thread whose process has ended before it connected goes on *)
(* listening.                                                              *)
LEMMA MissedStays ==
  ASSUME CalmState, calm, [Next]_vars, NEW m \in Session, Missed(m)
  PROVE  Missed(m)'
<1> USE DEF Missed
<1>0. ThreadTypes /\ SocketTypes /\ Begun /\ SocketsInTurn
  BY DEF CalmState, InOrder
<1>1. CASE UNCHANGED Links
  BY <1>1 DEF Links
<1>2. CASE Stops
  BY <1>0, <1>2, Stopped DEF Stops
<1>3. ASSUME NEW s \in Session, OpenManagement(s)
      PROVE  Missed(m)'
  BY <1>0, <1>3 DEF OpenManagement, threadVars, SocketTypes
<1>4. ASSUME NEW s \in Session, StartProcess(s)
      PROVE  Missed(m)'
  BY <1>0, <1>4 DEF StartProcess, socketVars, Begun, ThreadTypes
<1>5. ASSUME NEW s \in Session, AddActive(s) \/ RemoveActive(s)
      PROVE  Missed(m)'
  BY <1>5 DEF AddActive, RemoveActive, threadVars
<1>6. ASSUME NEW s \in Session, Connect(s)
      PROVE  Missed(m)'
  BY <1>0, <1>6 DEF Connect, SocketsInTurn, ThreadTypes, SocketTypes
<1>7. ASSUME NEW s \in Session, Exit(s)
      PROVE  Missed(m)'
  BY <1>0, <1>7 DEF Exit, ThreadTypes, SocketTypes
<1> QED BY <1>1, <1>2, <1>3, <1>4, <1>5, <1>6, <1>7, LinkCases

(* The registrations stay in turn when nothing is posted and the last      *)
(* command goes on.                                                        *)
LEMMA PostedStays ==
  ASSUME CalmState, calm, [Next]_vars, pc[starts] # "done", starts' = starts,
         UNCHANGED <<posted, service>>,
         \A i \in Instance : i # service => mManagement'[i] = mManagement[i]
  PROVE  PostedInTurn'
<1> SUFFICES ASSUME NEW i \in Instance, posted[i] > 0
             PROVE  i # service /\ Missed(mManagement[i])'
  BY DEF PostedInTurn
<1>1. i # service /\ Missed(mManagement[i]) /\ mManagement'[i] = mManagement[i]
  BY DEF CalmState, InOrder, PostedInTurn
<1>2. PICK m \in Session : m = mManagement[i] /\ Missed(m)
  BY <1>1 DEF Missed
<1>3. Missed(m)'
  BY <1>2, MissedStays
<1> QED BY <1>1, <1>2, <1>3 DEF Missed

(* What is clear stays clear.                                              *)
LEMMA ClearStays ==
  ASSUME CalmState, calm, [Next]_vars, NEW i \in Instance, IsClear(i),
         mProcessThread'[i] = mProcessThread[i],
         mDeviceStateReceiver'[i] = mDeviceStateReceiver[i]
  PROVE  IsClear(i)'
<1>1. CASE mDeviceStateReceiver[i] = None
  BY <1>1 DEF IsClear
<1>2. CASE mDeviceStateReceiver[i] # None
  <2>1. PICK m \in Session : m = mDeviceStateReceiver[i] /\ Missed(m)
    BY <1>2 DEF IsClear, Missed
  <2>2. Missed(m)'
    BY <2>1, MissedStays
  <2> QED BY <2>1, <2>2 DEF IsClear, Missed
<1> QED BY <1>1, <1>2

(* The one start thread that is under way is that of the last command.     *)
LEMMA StartIsLast ==
  ASSUME CalmState, NEW s \in Session, pc[s] \notin {"none", "done"}
  PROVE  s = starts /\ starts # 0 /\ inst[s] \in Instance /\ inst[s] = service
         /\ thr[s] = "none" /\ proc[s] = "none" /\ ~stopSelf[service]
BY Numbers DEF CalmState, InOrder, InTurn, Begun, Stages, Starting, EnvTypes

LEMMA TurnStartCommand ==
  ASSUME CalmState, calm, [Next]_vars, StartCommand
  PROVE  InOrder'
<1> USE DEF InOrder
<1> DEFINE c == starts + 1
<1>1. /\ c \in Session /\ starts' = c /\ c # 0 /\ starts \in Nat /\ Quiet
      /\ inst' = [inst EXCEPT ![c] = service'] /\ service' \in Instance
      /\ pc' = [pc EXCEPT ![c] = "writeConfig"]
      /\ stopSelf' = [stopSelf EXCEPT ![service'] = FALSE]
      /\ service # None => service' = service
      /\ service = None => service' = instances + 1
      /\ UNCHANGED <<mProcessThread, mOpenVPNThread, mManagement, mDeviceStateReceiver, posted,
                     thr, mNoProcessExitStatus, interrupted, proc, told, active, socket, peer,
                     bound>>
  BY Numbers DEF CalmState, EnvTypes, StartCommand, Goto, Outside, threadVars, socketVars
<1>2. thr[c] = "none" /\ pc[c] = "none" /\ socket[c] = "none"
  BY <1>1 DEF CalmState, Begun
<1>3. starts # 0 => starts \in Session /\ pc[starts] = "done"
  BY <1>1, Numbers DEF CalmState, EnvTypes, Begun, Quiet, Settled
<1>4. \A s \in Session : Over(s) \/ (s = starts /\ Owns(s) /\ Reachable(s) /\ ~interrupted[s])
  BY <1>1, <1>3 DEF CalmState, Quiet, Settled, Stages, CurrentIsWhole, Unused, Over, Reachable
<1>5. (\A s \in Session : Over(s)) => Cleared
  BY <1>1, <1>3 DEF CalmState, Stages, CurrentIsWhole, Unused
<1>6. ~(posted[service'] > 0)
  <2>1. CASE service # None
    BY <1>1, <2>1 DEF Quiet, CalmState, FieldTypes
  <2>2. CASE service = None
    BY <1>1, <2>2, Numbers DEF CalmState, Numbered, EnvTypes
  <2> QED BY <2>1, <2>2
<1>c. \A i \in Instance : IsClear(i) => IsClear(i)'
  BY <1>1, ClearStays
<1>7. Stages'
  <2>1. \A s \in Session : Over(s)' \/ (s # c /\ Owns(s)' /\ Reachable(s)' /\ ~interrupted'[s])
    <3> TAKE s \in Session
    <3>1. CASE Over(s)
      BY <1>1, <3>1 DEF Over
    <3>2. CASE s = starts /\ Owns(s) /\ Reachable(s) /\ ~interrupted[s]
      <4>1. s # c /\ inst'[s] = inst[s] /\ inst[s] \in Instance
        BY <1>1, <1>3, <3>2 DEF CalmState, EnvTypes, Begun
      <4> QED BY <1>1, <3>2, <4>1, Numbers DEF Owns, Reachable, CalmState, FieldTypes
    <3> QED BY <1>4, <3>1, <3>2
  <2>2. (\A s \in Session : Over(s)') => Cleared'
    BY <1>1, <1>5, <1>c DEF Over, Cleared
  <2>3. pc'[c] = "writeConfig" /\ service' = inst'[c] /\ ~stopSelf'[service']
    BY <1>1 DEF CalmState, EnvTypes, FieldTypes
  <2> QED BY <1>1, <2>1, <2>2, <2>3
          DEF Stages, Starting, OldIsWhole, OldIsEnding, OldIsOver, Listening, CurrentIsWhole
<1>8. SocketsInTurn'
  <2>1. \A s \in Session : proc[s] # "starting" /\ (socket[s] = "listening" => proc[s] = "dead")
    BY <1>1, <1>2, <1>4 DEF CalmState, SocketsInTurn, Quiet, Settled, Over, Reachable, Begun, Live
  <2> QED BY <1>1, <2>1 DEF CalmState, SocketsInTurn, Reachable
<1>9. InTurn'
  <2>1. ASSUME NEW s \in Session, s < c
        PROVE pc'[s] = "done"
    BY <1>1, <1>3, <2>1, Numbers DEF CalmState, InTurn, EnvTypes
  <2> QED BY <1>1, <2>1 DEF InTurn, CalmState, EnvTypes
<1>10. PostedInTurn'
  <2> SUFFICES ASSUME NEW i \in Instance, posted[i] > 0
               PROVE  i # service' /\ Missed(mManagement[i])'
    BY <1>1 DEF PostedInTurn
  <2>1. i # service' /\ i # service
    BY <1>1, <1>6, Numbers
  <2>2. Missed(mManagement[i])
    BY <2>1 DEF CalmState, PostedInTurn
  <2> QED BY <1>1, <2>1, <2>2 DEF Missed
<1>11. DeadCleared' /\ Unused'
  <2>1. Unused'
    BY <1>1 DEF Unused
  <2>2. \A i \in Instance : i # service' => i # service
    BY <1>1, Numbers
  <2> QED BY <1>c, <2>1, <2>2 DEF CalmState, DeadCleared
<1> QED BY <1>7, <1>8, <1>9, <1>10, <1>11

(* Steps of the start thread before the old session is stopped.            *)
LEMMA TurnConfig ==
  ASSUME CalmState, calm, [Next]_vars, NEW s \in Session,
         ConfigFails(s) \/ WriteConfig(s) \/ FindOld(s) \/ MarkOld(s)
  PROVE  InOrder'
<1> USE DEF InOrder
<1>1. /\ s = starts /\ starts # 0 /\ inst[s] \in Instance /\ inst[s] = service
      /\ thr[s] = "none" /\ proc[s] = "none" /\ ~stopSelf[service]
  BY StartIsLast DEF ConfigFails, WriteConfig, FindOld, MarkOld
<1>2. /\ UNCHANGED <<starts, service, inst, posted, thr, proc, told, interrupted, active, socket,
                     peer, bound, mManagement>>
      /\ pc[s] \in {"writeConfig", "findOld", "markOld"}
  BY DEF ConfigFails, WriteConfig, FindOld, MarkOld, EndVpnService, env, threadVars, socketVars, fields
<1>t. pc[s] = "markOld" => mOpenVPNThread[service] # None
  BY <1>1 DEF CalmState, Stages, OldIsWhole
<1>3. PICK l \in {"done", "force", "findOld", "markOld", "stopOld"} : pc' = [pc EXCEPT ![s] = l]
  BY <1>1, <1>t DEF ConfigFails, WriteConfig, FindOld, MarkOld, Goto
<1>4. pc'[s] = l /\ \A k \in Session : k # s => pc'[k] = pc[k]
  BY <1>3 DEF CalmState, EnvTypes
<1>5. InTurn' /\ Unused'
  BY <1>1, <1>2, <1>4 DEF CalmState, InTurn, Unused, EnvTypes
<1>6. PostedInTurn'
  BY <1>1, <1>2, PostedStays
<1>7. SocketsInTurn'
  BY <1>1, <1>2, <1>4 DEF CalmState, SocketsInTurn, Reachable
<1>8. \A k \in Session : Over(k) \/ (k # s /\ Owns(k) /\ Reachable(k) /\ ~interrupted[k])
  BY <1>1, <1>2 DEF CalmState, Stages, OldIsWhole
<1>9. (\A k \in Session : Over(k)) => Cleared
  BY <1>1, <1>2 DEF CalmState, Stages, OldIsWhole
<1>10. CASE ConfigFails(s)
  <2>1. /\ \A k \in Session : ~Live(k)
        /\ mProcessThread' = [mProcessThread EXCEPT ![inst[s]] = None]
        /\ mDeviceStateReceiver' = [mDeviceStateReceiver EXCEPT ![inst[s]] = None]
        /\ pc'[s] = "done"
    BY <1>10, <1>4 DEF ConfigFails, EndVpnService, CalmState, EnvTypes, Goto
  <2>2. \A k \in Session : Over(k)
    BY <1>8, <2>1 DEF Reachable, Live
  <2>3. Cleared' /\ DeadCleared'
    <3>1. ASSUME NEW i \in Instance
          PROVE  IsClear(i)'
      <4>1. CASE i = inst[s]
        BY <2>1, <4>1 DEF IsClear, CalmState, FieldTypes
      <4>2. CASE i # inst[s]
        BY <1>9, <2>1, <2>2, <4>2, ClearStays DEF Cleared, CalmState, FieldTypes
      <4> QED BY <4>1, <4>2
    <3> QED BY <3>1 DEF Cleared, DeadCleared
  <2>4. Stages'
    BY <1>1, <1>2, <2>1, <2>2, <2>3 DEF Stages, Starting, OldIsWhole, OldIsEnding, OldIsOver,
                                        Listening, CurrentIsWhole, Over
  <2> QED BY <1>5, <1>6, <1>7, <2>3, <2>4
<1>11. CASE WriteConfig(s) \/ FindOld(s) \/ MarkOld(s)
  <2>1. /\ UNCHANGED <<mProcessThread, mOpenVPNThread, mDeviceStateReceiver, stopSelf>>
        /\ pc'[s] \in {"force", "findOld", "markOld", "stopOld"}
    BY <1>1, <1>4, <1>11, <1>t DEF WriteConfig, FindOld, MarkOld, CalmState, EnvTypes, Goto, fields
  <2>2. /\ DeadCleared'
        /\ \A k \in Session : Over(k)' \/ (k # s /\ Owns(k)' /\ Reachable(k)' /\ ~interrupted'[k])
        /\ (\A k \in Session : Over(k)') => Cleared'
    <3>1. \A i \in Instance : IsClear(i) => IsClear(i)'
      BY <2>1, ClearStays
    <3> QED BY <1>2, <1>8, <1>9, <2>1, <3>1 DEF CalmState, DeadCleared, Cleared, Over, Owns, Reachable
  <2>3. pc'[s] = "force" => \A k \in Session : Over(k)'
    <3>1. pc'[s] = "force" => mManagement[inst[s]] = None
      BY <1>1, <1>11, <1>t DEF WriteConfig, FindOld, MarkOld, CalmState, EnvTypes, Goto
    <3> QED BY <1>1, <1>2, <2>2, <3>1, Numbers DEF Owns
  <2>4. pc'[s] = "markOld" => mOpenVPNThread'[service'] # None
    BY <1>1, <1>2, <1>11, <2>1, <1>t DEF WriteConfig, FindOld, MarkOld, CalmState, EnvTypes, Goto
  <2>5. ASSUME pc'[s] = "stopOld", NEW k \in Session, Owns(k)'
        PROVE  mNoProcessExitStatus'[k]
    <3>1. mOpenVPNThread[inst[s]] = k
      BY <1>1, <1>2, <2>1, <2>5 DEF Owns
    <3>2. CASE MarkOld(s)
      <4>1. mNoProcessExitStatus' =
              [j \in Session |-> mNoProcessExitStatus[j] \/ j = mOpenVPNThread[inst[s]]]
        BY <3>2 DEF MarkOld
      <4>2. \A j \in Session : j = mOpenVPNThread[inst[s]] => mNoProcessExitStatus'[j]
        BY <4>1, Zenon
      <4> QED BY <3>1, <4>2
    <3>3. CASE WriteConfig(s) \/ FindOld(s)
      BY <2>5, <3>1, <3>3, Numbers DEF WriteConfig, FindOld, CalmState, EnvTypes, Goto
    <3> QED BY <1>11, <3>2, <3>3
  <2>6. Stages'
    BY <1>1, <1>2, <2>1, <2>2, <2>3, <2>4, <2>5 DEF Stages, Starting, OldIsWhole, OldIsEnding,
                                        OldIsOver, Listening, CurrentIsWhole
  <2> QED BY <1>5, <1>6, <1>7, <2>2, <2>6
<1> QED BY <1>10, <1>11

(* stopOpenVPN tells everyone who can be told.                             *)
LEMMA StoppedInTurn ==
  ASSUME CalmState, StopOpenVPN, UNCHANGED <<proc, active, peer, bound, starts>>,
         \A m \in Session : pc[m] = "process" => pc'[m] = "process"
  PROVE  /\ SocketsInTurn'
         /\ \A p \in Session : told'[p] <=> told[p] \/ Reachable(p)
<1> SocketTypes /\ ThreadTypes /\ SocketsInTurn
  BY DEF CalmState, InOrder
<1> DEFINE stopped == {m \in Session : m \in ToSet(active) /\ socket[m] = "connected"}
           new(p) == told[p] \/ \E m \in stopped : peer[m] = p
<1>1. socket' = [m \in Session |-> IF m \in stopped THEN "closed" ELSE socket[m]]
  BY DEF StopOpenVPN
<1>2. \A m \in Session : m \in stopped <=> Reachable(m)
  BY DEF SocketsInTurn, SocketTypes
<1>3. \A p \in Session : told'[p] <=> told[p] \/ Reachable(p)
  <2>1. told' = [p \in Session |-> new(p)]
    BY DEF StopOpenVPN
  <2>2. \A p \in Session : told'[p] <=> new(p)
    <3> HIDE DEF new
    <3> QED BY <2>1
  <2>3. \A p \in Session : (\E m \in stopped : peer[m] = p) <=> Reachable(p)
    BY <1>2 DEF SocketsInTurn
  <2> QED BY <2>2, <2>3
<1>4. /\ \A m \in Session : Reachable(m) => socket'[m] = "closed"
      /\ \A m \in Session : ~Reachable(m) => socket'[m] = socket[m] /\ socket[m] # "connected"
  <2> HIDE DEF stopped
  <2> QED BY <1>1, <1>2 DEF SocketsInTurn
<1>5. \A m \in Session : ~Reachable(m)'
  BY <1>3 DEF Reachable
<1> QED BY <1>3, <1>4, <1>5 DEF SocketsInTurn, Reachable

LEMMA TurnStop ==
  ASSUME CalmState, calm, [Next]_vars, NEW s \in Session, StopOld(s) \/ Sleep(s)
  PROVE  InOrder'
<1> USE DEF InOrder
<1>1. /\ s = starts /\ starts # 0 /\ inst[s] \in Instance /\ inst[s] = service
      /\ thr[s] = "none" /\ proc[s] = "none" /\ ~stopSelf[service]
  BY StartIsLast DEF StopOld, Sleep
<1>2. UNCHANGED <<starts, service, inst, posted, thr, proc, interrupted, active, peer, bound,
                  fields, mNoProcessExitStatus>>
  BY DEF StopOld, Sleep, fields, env, threadVars, socketVars
<1>3. PICK l \in {"sleep", "force"} : pc' = [pc EXCEPT ![s] = l]
  BY DEF StopOld, Sleep, Goto
<1>4. pc'[s] = l /\ \A k \in Session : k # s => pc'[k] = pc[k]
  BY <1>3 DEF CalmState, EnvTypes
<1>5. InTurn' /\ Unused'
  BY <1>1, <1>2, <1>4 DEF CalmState, InTurn, Unused, EnvTypes
<1>6. PostedInTurn' /\ DeadCleared'
  <2>1. pc[starts] # "done"
    BY <1>1 DEF StopOld, Sleep
  <2>2. PostedInTurn'
    BY <1>2, <2>1, PostedStays DEF fields
  <2>3. \A i \in Instance : IsClear(i) => IsClear(i)'
    BY <1>2, ClearStays DEF fields
  <2> QED BY <1>2, <2>2, <2>3 DEF CalmState, DeadCleared
<1>7. service' = inst'[starts'] /\ ~stopSelf'[service']
  BY <1>1, <1>2 DEF fields
<1>8. CASE StopOld(s)
  <2>0. pc[s] = "stopOld" /\ StopOpenVPN
    BY <1>8 DEF StopOld
  <2>1. SocketsInTurn' /\ \A p \in Session : told'[p] <=> told[p] \/ Reachable(p)
    BY <1>2, <1>4, <2>0, StoppedInTurn
  <2>2. \A k \in Session : Over(k) \/ (k # s /\ Owns(k) /\ Reachable(k) /\ mNoProcessExitStatus[k])
    BY <1>1, <2>0 DEF CalmState, Stages, OldIsWhole
  <2>4. \A k \in Session : (Reachable(k) => thr[k] = "reading") /\ (Owns(k) => mProcessThread'[service'] = k)
    BY <1>2 DEF Reachable, CalmState, Begun, Live, Owns, fields
  <2>5. Stages'
    BY <1>1, <1>2, <1>4, <1>7, <2>1, <2>2, <2>4
       DEF Stages, Starting, OldIsWhole, OldIsEnding, OldIsOver, Listening, CurrentIsWhole, Over
  <2> QED BY <1>5, <1>6, <2>1, <2>5
<1>9. CASE Sleep(s)
  <2>0. pc[s] = "sleep" /\ Slept /\ pc'[s] = "force" /\ UNCHANGED <<told, socket>>
    BY <1>9 DEF Sleep, CalmState, EnvTypes, Goto, threadVars, socketVars
  <2>1. \A k \in Session : Over(k)
    BY <1>1, <2>0 DEF CalmState, Stages, OldIsEnding, Slept, Begun
  <2>2. Stages'
    BY <1>1, <1>2, <1>7, <2>0, <2>1
       DEF Stages, Starting, OldIsWhole, OldIsEnding, OldIsOver, Listening, CurrentIsWhole, Over
  <2>3. SocketsInTurn'
    BY <1>1, <1>2, <1>4, <2>0 DEF CalmState, SocketsInTurn, Reachable
  <2> QED BY <1>5, <1>6, <2>2, <2>3
<1> QED BY <1>8, <1>9

LEMMA TurnForce ==
  ASSUME CalmState, calm, [Next]_vars, NEW s \in Session,
         ForceStop(s) \/ ForceSleep(s) \/ OpenFails(s) \/ EndFailed(s)
  PROVE  InOrder'
<1> USE DEF InOrder
<1>1. /\ s = starts /\ starts # 0 /\ inst[s] \in Instance /\ inst[s] = service
      /\ thr[s] = "none" /\ proc[s] = "none" /\ ~stopSelf[service]
  BY StartIsLast DEF ForceStop, ForceSleep, OpenFails, EndFailed
<1>2. /\ UNCHANGED <<starts, service, inst, posted, thr, proc, told, active, socket, peer, bound,
                     mNoProcessExitStatus, mManagement>>
      /\ pc[s] \in {"force", "forceSleep", "open", "openFailed"}
  BY DEF ForceStop, ForceSleep, OpenFails, EndFailed, EndVpnService, env, threadVars, socketVars
<1>3. PICK l \in {"forceSleep", "open", "openFailed", "done"} : pc' = [pc EXCEPT ![s] = l]
  BY DEF ForceStop, ForceSleep, OpenFails, EndFailed, Goto
<1>4. pc'[s] = l /\ \A k \in Session : k # s => pc'[k] = pc[k]
  BY <1>3 DEF CalmState, EnvTypes
<1>5. InTurn' /\ Unused'
  BY <1>1, <1>2, <1>4 DEF CalmState, InTurn, Unused, EnvTypes
<1>6. PostedInTurn'
  BY <1>1, <1>2, PostedStays
<1>7. SocketsInTurn'
  BY <1>1, <1>2, <1>4 DEF CalmState, SocketsInTurn, Reachable
<1>8. pc'[s] # "forceSleep" => \A k \in Session : Over(k) /\ Over(k)'
  <2>1. CASE ForceStop(s)
    <3>1. mProcessThread[service] = None \/ pc'[s] = "forceSleep"
      BY <1>1, <2>1 DEF ForceStop, CalmState, EnvTypes, Goto
    <3> QED BY <1>1, <1>2, <2>1, <3>1, Numbers DEF CalmState, Stages, OldIsEnding, Over, ForceStop
  <2>2. CASE ForceSleep(s)
    BY <1>1, <1>2, <2>2 DEF CalmState, Stages, OldIsEnding, Slept, Begun, Over, ForceSleep
  <2>3. CASE OpenFails(s) \/ EndFailed(s)
    BY <1>1, <1>2, <2>3 DEF CalmState, Stages, OldIsOver, Over, OpenFails, EndFailed
  <2> QED BY <2>1, <2>2, <2>3
<1>9. CASE EndFailed(s)
  <2>1. /\ mProcessThread' = [mProcessThread EXCEPT ![inst[s]] = None]
        /\ mDeviceStateReceiver' = [mDeviceStateReceiver EXCEPT ![inst[s]] = None]
        /\ pc'[s] = "done"
    BY <1>9, <1>4 DEF EndFailed, EndVpnService, CalmState, EnvTypes, Goto
  <2>2. Cleared' /\ DeadCleared'
    <3>1. ASSUME NEW i \in Instance
          PROVE  IsClear(i)'
      <4>1. CASE i = inst[s]
        BY <2>1, <4>1 DEF IsClear, CalmState, FieldTypes
      <4>2. CASE i # inst[s]
        BY <1>1, <2>1, <4>2, ClearStays DEF DeadCleared, CalmState, FieldTypes
      <4> QED BY <4>1, <4>2
    <3> QED BY <3>1 DEF Cleared, DeadCleared
  <2>3. Stages'
    BY <1>1, <1>2, <1>8, <2>1, <2>2
       DEF Stages, Starting, OldIsWhole, OldIsEnding, OldIsOver, Listening, CurrentIsWhole
  <2> QED BY <1>5, <1>6, <1>7, <2>2, <2>3
<1>10. CASE ForceStop(s) \/ ForceSleep(s) \/ OpenFails(s)
  <2>1. /\ UNCHANGED <<mProcessThread, mDeviceStateReceiver, stopSelf>>
        /\ pc'[s] \in {"forceSleep", "open", "openFailed"}
    BY <1>10, <1>4 DEF ForceStop, ForceSleep, OpenFails, CalmState, EnvTypes, Goto
  <2>2. DeadCleared'
    <3>1. \A i \in Instance : IsClear(i) => IsClear(i)'
      BY <2>1, ClearStays
    <3> QED BY <1>2, <3>1 DEF CalmState, DeadCleared
  <2>3. pc'[s] = "forceSleep" => pc[s] = "force"
    BY <1>10, <1>4 DEF ForceStop, ForceSleep, OpenFails, CalmState, EnvTypes, Goto
  <2>4. Stages'
    BY <1>1, <1>2, <1>8, <2>1, <2>3
       DEF CalmState, Stages, Starting, OldIsWhole, OldIsEnding, OldIsOver, Listening,
           CurrentIsWhole, Over
  <2> QED BY <1>5, <1>6, <1>7, <2>2, <2>4
<1> QED BY <1>9, <1>10

LEMMA TurnOpen ==
  ASSUME CalmState, calm, [Next]_vars, NEW s \in Session, OpenManagement(s)
  PROVE  InOrder'
<1> USE DEF InOrder
<1>1. /\ s = starts /\ starts # 0 /\ inst[s] \in Instance /\ inst[s] = service
      /\ thr[s] = "none" /\ proc[s] = "none" /\ ~stopSelf[service]
  BY StartIsLast DEF OpenManagement
<1>2. /\ UNCHANGED <<starts, service, inst, posted, thr, proc, told, active, peer,
                     mNoProcessExitStatus, mProcessThread, mDeviceStateReceiver, stopSelf>>
      /\ pc[s] = "open" /\ bound' = s
      /\ mManagement' = [mManagement EXCEPT ![inst[s]] = s]
      /\ socket' = [socket EXCEPT ![s] = "listening"]
      /\ pc' = [pc EXCEPT ![s] = "process"]
  BY DEF OpenManagement, env, threadVars, Goto
<1>3. pc'[s] = "process" /\ \A k \in Session : k # s => pc'[k] = pc[k]
  BY <1>2 DEF CalmState, EnvTypes
<1>4. InTurn' /\ Unused'
  BY <1>1, <1>2, <1>3 DEF CalmState, InTurn, Unused, EnvTypes
<1>5. PostedInTurn' /\ DeadCleared'
  <2>1. \A i \in Instance : i # service => mManagement'[i] = mManagement[i]
    BY <1>1, <1>2 DEF CalmState, FieldTypes
  <2>2. PostedInTurn'
    BY <1>1, <1>2, <2>1, PostedStays
  <2>3. \A i \in Instance : IsClear(i) => IsClear(i)'
    BY <1>2, ClearStays
  <2> QED BY <1>2, <2>2, <2>3 DEF CalmState, DeadCleared
<1>6. \A k \in Session : Over(k) /\ proc[k] \in {"none", "dead"}
  BY <1>1, <1>2 DEF CalmState, Stages, OldIsOver, Over, Begun, Live, ThreadTypes
<1>7. SocketsInTurn'
  <2>1. \A k \in Session : socket[k] # "connected" /\ (socket[k] = "listening" => proc[k] = "dead")
    BY <1>1, <1>2, <1>6 DEF CalmState, SocketsInTurn, Reachable, Begun
  <2>3. \A k \in Session : IF k = s THEN socket'[k] = "listening" ELSE socket'[k] = socket[k]
    BY <1>2 DEF CalmState, SocketTypes
  <2> QED BY <1>1, <1>2, <1>3, <1>6, <2>1, <2>3 DEF CalmState, SocketsInTurn, Reachable
<1>8. Stages'
  <2>1. mManagement'[service'] = s /\ socket'[s] = "listening"
    BY <1>1, <1>2 DEF CalmState, FieldTypes, SocketTypes
  <2> QED BY <1>1, <1>2, <1>3, <1>6, <2>1
          DEF Stages, Starting, OldIsWhole, OldIsEnding, OldIsOver, Listening, CurrentIsWhole, Over
<1> QED BY <1>4, <1>5, <1>7, <1>8

LEMMA TurnProcess ==
  ASSUME CalmState, calm, [Next]_vars, NEW s \in Session, StartProcess(s)
  PROVE  InOrder'
<1> USE DEF InOrder
<1>1. /\ s = starts /\ starts # 0 /\ inst[s] \in Instance /\ inst[s] = service
      /\ thr[s] = "none" /\ proc[s] = "none" /\ ~stopSelf[service]
  BY StartIsLast DEF StartProcess
<1>2. /\ UNCHANGED <<starts, service, inst, told, active, socket, peer, bound, interrupted,
                     mNoProcessExitStatus, mManagement, mDeviceStateReceiver, stopSelf>>
      /\ pc[s] = "process"
      /\ mProcessThread' = [mProcessThread EXCEPT ![service] = s]
      /\ mOpenVPNThread' = [mOpenVPNThread EXCEPT ![service] = s]
      /\ posted' = [posted EXCEPT ![service] = @ + 1]
      /\ thr' = [thr EXCEPT ![s] = "reading"]
      /\ proc' = [proc EXCEPT ![s] = "starting"]
      /\ pc' = [pc EXCEPT ![s] = "done"]
  BY <1>1 DEF StartProcess, env, socketVars, Goto
<1>3. pc'[s] = "done" /\ \A k \in Session : k # s => pc'[k] = pc[k]
  BY <1>2 DEF CalmState, EnvTypes
<1>4. InTurn' /\ Unused'
  BY <1>1, <1>2, <1>3 DEF CalmState, InTurn, Unused, EnvTypes
<1>5. /\ \A k \in Session : k # s => Over(k) /\ Over(k)'
      /\ thr'[s] = "reading"
  BY <1>1, <1>2 DEF CalmState, Stages, OldIsOver, Over, ThreadTypes
<1>6. ~mNoProcessExitStatus[s] /\ ~interrupted[s] /\ ~told[s] /\ socket[s] = "listening"
      /\ mManagement[service] = s
  BY <1>1, <1>2 DEF CalmState, Seen, SocketsInTurn, Stages, Listening
<1>7. PostedInTurn' /\ DeadCleared' /\ posted'[service'] > 0
  <2>2. \A i \in Instance : i # service => posted'[i] = posted[i]
    BY <1>1, <1>2 DEF CalmState, FieldTypes
  <2>3. posted'[service'] > 0
    BY <1>1, <1>2 DEF CalmState, FieldTypes
  <2>4. ASSUME NEW i \in Instance, i # service, posted'[i] > 0
        PROVE  Missed(mManagement[i])'
    <3>1. Missed(mManagement[i])
      BY <2>2, <2>4 DEF CalmState, PostedInTurn
    <3>2. PICK m \in Session : m = mManagement[i] /\ Missed(m)
      BY <3>1 DEF Missed
    <3>3. Missed(m)'
      BY <3>2, MissedStays
    <3> QED BY <1>2, <3>2, <3>3 DEF Missed
  <2>5. PostedInTurn'
    BY <1>1, <1>2, <1>3, <1>5, <1>6, <2>4 DEF PostedInTurn
  <2>6. DeadCleared'
    <3>1. \A i \in Instance : i # service /\ IsClear(i) => IsClear(i)'
      BY <1>1, <1>2, ClearStays DEF CalmState, FieldTypes
    <3> QED BY <1>2, <3>1 DEF CalmState, DeadCleared
  <2> QED BY <2>3, <2>5, <2>6
<1>8. Owns(s)'
  BY <1>1, <1>2, <1>6 DEF Owns, CalmState, FieldTypes
<1>9. SocketsInTurn'
  BY <1>1, <1>2, <1>3, <1>6 DEF CalmState, SocketsInTurn, Reachable, ThreadTypes
<1>10. Stages'
  BY <1>1, <1>2, <1>3, <1>5, <1>6, <1>7, <1>8
     DEF Stages, Starting, OldIsWhole, OldIsEnding, OldIsOver, Listening, CurrentIsWhole, Over
<1> QED BY <1>4, <1>7, <1>9, <1>10

LEMMA TurnRegister ==
  ASSUME CalmState, calm, [Next]_vars, NEW i \in Instance, RegisterReceiver(i)
  PROVE  InOrder'
<1> USE DEF InOrder
<1>1. /\ UNCHANGED <<starts, service, inst, pc, thr, proc, told, interrupted, mNoProcessExitStatus,
                     active, socket, peer, bound, mManagement, mProcessThread, mOpenVPNThread,
                     stopSelf>>
      /\ posted[i] > 0 /\ posted' = [posted EXCEPT ![i] = @ - 1]
      /\ mDeviceStateReceiver' = [mDeviceStateReceiver EXCEPT ![i] = mManagement[i]]
  BY DEF RegisterReceiver, env, threadVars, socketVars
<1>2. /\ i = service => pc[starts] = "done"
      /\ \/ i = service /\ thr[starts] = "reading" /\ ~told[starts]
         \/ Missed(mManagement[i])
  BY <1>1 DEF CalmState, PostedInTurn
<1>3. \A k \in Session : k = mManagement[i] => mDeviceStateReceiver'[i] = k
  BY <1>1 DEF CalmState, FieldTypes
<1>4. \A k \in Instance : IsClear(k) /\ (k = i => Missed(mManagement[i])) => IsClear(k)'
  BY <1>1 DEF IsClear, Missed, CalmState, FieldTypes
<1>5. PostedInTurn'
  BY <1>1, <1>2 DEF CalmState, PostedInTurn, FieldTypes, Missed
<1>6. InTurn' /\ SocketsInTurn'
  BY <1>1 DEF CalmState, InTurn, SocketsInTurn, Reachable
<1>7. i # service => Missed(mManagement[i])
  BY <1>2
<1>8. DeadCleared'
  BY <1>1, <1>4, <1>7 DEF CalmState, DeadCleared
<1>9. Unused'
  <2>1. starts = 0 => i # service
    BY Numbers DEF CalmState, Unused
  <2> QED BY <1>1, <1>4, <1>7, <2>1 DEF CalmState, Unused, Cleared, Over
<1>10. starts # 0 => starts \in Session
  BY Numbers DEF CalmState, EnvTypes
<1>11. ASSUME starts # 0, Cleared, pc[starts] # "done" \/ Over(starts)
       PROVE  Cleared'
  <2>1. Missed(mManagement[i])
    BY <1>2, <1>11 DEF Over
  <2> QED BY <1>4, <1>11, <2>1 DEF Cleared
<1>12. ASSUME starts # 0, pc[starts] = "done", ~Over(starts), thr[starts] = "reading", ~told[starts]
       PROVE  posted'[service] > 0 \/ mDeviceStateReceiver'[service] = starts
  <2>1. Owns(starts) /\ service \in Instance
    BY <1>10, <1>12 DEF CalmState, Stages, CurrentIsWhole, Owns, Begun
  <2>2. CASE i = service
    BY <1>3, <1>10, <1>12, <2>1, <2>2 DEF Owns
  <2>3. CASE i # service
    BY <1>1, <1>10, <1>12, <2>1, <2>3 DEF CalmState, Stages, CurrentIsWhole, FieldTypes
  <2> QED BY <2>2, <2>3
<1>13. ASSUME starts # 0
       PROVE  OldIsWhole' /\ CurrentIsWhole'
  <2>1. OldIsWhole /\ CurrentIsWhole
    BY <1>13 DEF CalmState, Stages
  <2>2. OldIsWhole'
    <3>1. ASSUME pc[starts] \in {"writeConfig", "findOld", "markOld", "stopOld"},
                 \A s \in Session : Over(s)
          PROVE  Cleared'
      BY <1>11, <1>13, <2>1, <3>1 DEF OldIsWhole
    <3> QED BY <1>1, <2>1, <3>1 DEF OldIsWhole, Over, Owns, Reachable
  <2>3. CurrentIsWhole'
    <3>1. ASSUME pc[starts] = "done", Over(starts)
          PROVE  Cleared'
      BY <1>11, <1>13, <2>1, <3>1 DEF CurrentIsWhole
    <3> QED BY <1>1, <1>12, <1>13, <2>1, <3>1 DEF CurrentIsWhole, Over, Owns
  <2> QED BY <2>2, <2>3
<1>14. Stages'
  BY <1>1, <1>13 DEF CalmState, Stages, Starting, OldIsEnding, OldIsOver, Listening, Over
<1> QED BY <1>5, <1>6, <1>8, <1>9, <1>14

LEMMA TurnDestroy ==
  ASSUME CalmState, calm, [Next]_vars, OnDestroy
  PROVE  InOrder'
<1> USE DEF InOrder
<1>1. /\ service \in Instance /\ stopSelf[service] /\ service' = None
      /\ UNCHANGED <<starts, inst, pc, fields, thr, proc, interrupted, mNoProcessExitStatus,
                     active, peer, bound>>
      /\ mProcessThread[service] = None => UNCHANGED <<socket, told>>
  BY DEF OnDestroy, CalmState, EnvTypes
<1>2. starts # 0 /\ pc[starts] = "done"
  BY <1>1, Numbers DEF CalmState, Unused, Stages, Starting
<1>3. \A s \in Session : Over(s)
  BY <1>1, <1>2 DEF CalmState, Stages, CurrentIsWhole, Owns
<1>4. Cleared
  <2>1. starts \in Session
    BY <1>2, Numbers DEF CalmState, EnvTypes
  <2> QED BY <1>2, <1>3, <2>1 DEF CalmState, Stages, CurrentIsWhole
<1>5. UNCHANGED <<socket, told>>
  BY <1>1, <1>4 DEF Cleared, IsClear
<1>6. \A i \in Instance : posted[i] > 0 => Missed(mManagement[i])
  <2>1. starts \in Session /\ thr[starts] # "reading"
    BY <1>2, <1>3, Numbers DEF CalmState, EnvTypes, Over
  <2> QED BY <2>1 DEF CalmState, PostedInTurn
<1>7. PostedInTurn' /\ Cleared' /\ DeadCleared'
  BY <1>1, <1>2, <1>4, <1>5, <1>6 DEF PostedInTurn, DeadCleared, Cleared, IsClear, Missed, fields
<1>8. Stages' /\ Unused'
  BY <1>1, <1>2, <1>3, <1>7
     DEF Stages, Starting, OldIsWhole, OldIsEnding, OldIsOver, Listening, CurrentIsWhole,
         Over, Unused
<1>9. InTurn' /\ SocketsInTurn'
  BY <1>1, <1>5 DEF CalmState, InTurn, SocketsInTurn, Reachable
<1> QED BY <1>7, <1>8, <1>9

LEMMA TurnStopVPN ==
  ASSUME CalmState, calm, [Next]_vars, StopVPN
  PROVE  InOrder'
<1> USE DEF InOrder
<1>1. /\ Quiet /\ service # None /\ StopOpenVPN
      /\ UNCHANGED <<env, pc, fields, thr, proc, interrupted, mNoProcessExitStatus,
                     active, peer, bound>>
  BY DEF StopVPN, Outside
<1>2. SocketsInTurn' /\ \A p \in Session : told'[p] <=> told[p] \/ Reachable(p)
  BY <1>1, StoppedInTurn DEF env
<1>3. pc[starts] = "done" \/ starts = 0
  BY <1>1, Numbers DEF CalmState, EnvTypes, Begun, Quiet, Settled
<1>4. \A i \in Instance : IsClear(i) => IsClear(i)'
  BY <1>1, ClearStays DEF fields
<1>5. PostedInTurn'
  <2> SUFFICES ASSUME NEW i \in Instance, posted[i] > 0
               PROVE  i # service /\ Missed(mManagement[i])'
    BY <1>1 DEF PostedInTurn, fields, env
  <2>1. i # service /\ Missed(mManagement[i])
    BY <1>1 DEF CalmState, PostedInTurn, Quiet
  <2>2. PICK m \in Session : m = mManagement[i] /\ Missed(m)
    BY <2>1 DEF Missed
  <2>3. Missed(m)'
    BY <2>2, MissedStays
  <2> QED BY <1>1, <2>1, <2>2, <2>3 DEF Missed, fields
<1>6. DeadCleared' /\ InTurn' /\ Unused'
  BY <1>1, <1>4 DEF CalmState, DeadCleared, InTurn, Unused, Cleared, Over, env, fields
<1>7. Stages'
  BY <1>1, <1>2, <1>3, <1>4
     DEF CalmState, Stages, Starting, OldIsWhole, OldIsEnding, OldIsOver, Listening, CurrentIsWhole,
         Over, Owns, Cleared, env, fields
<1> QED BY <1>2, <1>5, <1>6, <1>7

LEMMA TurnSocket ==
  ASSUME CalmState, calm, [Next]_vars, NEW s \in Session, AddActive(s) \/ RemoveActive(s) \/ Connect(s)
  PROVE  InOrder'
<1> USE DEF InOrder
<1>1. UNCHANGED <<starts, service, inst, pc, fields, thr, told, interrupted,
                  mNoProcessExitStatus, bound>>
  BY DEF AddActive, RemoveActive, Connect, env, threadVars, socketVars
<1>2. \A i \in Instance : IsClear(i) => IsClear(i)'
  BY <1>1, ClearStays DEF fields
<1>3. \A m \in Session : Missed(m) => Missed(m)'
  BY MissedStays
<1>4. PostedInTurn'
  <2> SUFFICES ASSUME NEW i \in Instance, Missed(mManagement[i])
               PROVE  Missed(mManagement[i])'
    BY <1>1 DEF CalmState, PostedInTurn, fields
  <2>1. PICK m \in Session : m = mManagement[i] /\ Missed(m)
    BY DEF Missed
  <2> QED BY <1>1, <1>3, <2>1 DEF Missed, fields
<1>5. DeadCleared' /\ InTurn' /\ Unused'
  BY <1>1, <1>2 DEF CalmState, DeadCleared, InTurn, Unused, Cleared, Over
<1>6. \A k \in Session : Reachable(k) => Reachable(k)'
  BY <1>1 DEF AddActive, RemoveActive, Connect, threadVars, Reachable, CalmState, ThreadTypes
<1>7. ASSUME UNCHANGED socket \/ pc[starts] = "done"
      PROVE  Stages'
  <2>1. Cleared => Cleared'
    BY <1>2 DEF Cleared
  <2>2. Starting' = Starting /\ OldIsEnding' = OldIsEnding /\ OldIsOver' = OldIsOver
    BY <1>1 DEF Starting, OldIsEnding, OldIsOver, Over, fields
  <2>3. OldIsWhole => OldIsWhole'
    BY <1>1, <1>6, <2>1 DEF OldIsWhole, Over, Owns, fields
  <2>4. CurrentIsWhole => CurrentIsWhole'
    BY <1>1, <2>1 DEF CurrentIsWhole, Over, Owns, fields
  <2>5. Listening => Listening'
    BY <1>1, <1>7 DEF Listening, fields
  <2> QED BY <1>1, <2>2, <2>3, <2>4, <2>5 DEF CalmState, Stages
<1>8. CASE AddActive(s)
  <2>1. active' = Append(active, s) /\ UNCHANGED <<proc, socket, peer>>
    BY <1>8 DEF AddActive, threadVars
  <2>2. ToSet(active') = ToSet(active) \cup {s}
    BY <2>1, ListAppend DEF CalmState, SocketTypes
  <2>3. SocketsInTurn'
    BY <1>1, <2>1, <2>2 DEF CalmState, SocketsInTurn, Reachable
  <2> QED BY <1>4, <1>5, <1>7, <2>1, <2>3
<1>9. CASE RemoveActive(s)
  <2>1. socket[s] = "closed" /\ UNCHANGED <<proc, socket, peer>>
    BY <1>9 DEF RemoveActive, threadVars
  <2>2. ToSet(active) \ {s} \subseteq ToSet(active')
    BY <1>9, ListRemove DEF RemoveActive, CalmState, SocketTypes
  <2>3. SocketsInTurn'
    BY <1>1, <2>1, <2>2 DEF CalmState, SocketsInTurn, Reachable
  <2> QED BY <1>4, <1>5, <1>7, <2>1, <2>3
<1>10. CASE Connect(s)
  <2>1. /\ proc[s] = "starting" /\ bound \in ToSet(active) /\ UNCHANGED active
        /\ proc' = [proc EXCEPT ![s] = "connected"]
        /\ socket' = [socket EXCEPT ![bound] = "connected"]
        /\ peer' = [peer EXCEPT ![bound] = s]
    BY <1>10 DEF Connect
  <2>2. s = starts /\ bound = s /\ pc[s] = "done" /\ socket[s] = "listening" /\ ~told[s]
    BY <2>1 DEF CalmState, SocketsInTurn, Begun
  <2>3. SocketsInTurn'
    BY <1>1, <2>1, <2>2 DEF CalmState, SocketsInTurn, Reachable, ThreadTypes, SocketTypes
  <2> QED BY <1>4, <1>5, <1>7, <2>2, <2>3
<1> QED BY <1>8, <1>9, <1>10

LEMMA TurnExit ==
  ASSUME CalmState, calm, [Next]_vars, NEW p \in Session, Exit(p)
  PROVE  InOrder'
<1> USE DEF InOrder
<1>1. /\ thr[p] = "reading" /\ thr' = [thr EXCEPT ![p] = "exited"]
      /\ proc' = [proc EXCEPT ![p] = "dead"]
      /\ socket' = [m \in Session |-> IF peer[m] = p /\ socket[m] = "connected"
                                      THEN "eof" ELSE socket[m]]
      /\ UNCHANGED <<starts, service, inst, pc, fields, told, interrupted, mNoProcessExitStatus,
                     active, peer, bound>>
  BY DEF Exit, env, CalmState, Begun
<1>2. starts # 0 /\ starts \in Session /\ ~Over(p)
  BY <1>1, Numbers DEF CalmState, Unused, Over, EnvTypes
<1>3. told[p] \/ interrupted[p] \/ proc[p] = "starting" \/ Quiet
  BY DEF Exit, Destroyed, Outside
<1>4. pc[starts] \in {"sleep", "force", "forceSleep", "done"}
  <2>1. pc[starts] \notin {"open", "openFailed", "process"}
    BY <1>2 DEF CalmState, Stages, OldIsOver
  <2>2. ASSUME pc[starts] \in {"writeConfig", "findOld", "markOld", "stopOld"}
        PROVE  FALSE
    <3>1. ~told[p] /\ ~interrupted[p] /\ proc[p] # "starting"
      BY <1>2, <2>2 DEF CalmState, Stages, OldIsWhole, Reachable
    <3>2. ~Quiet
      BY <1>2, <2>2 DEF Quiet, Settled
    <3> QED BY <1>3, <3>1, <3>2
  <2> QED BY <1>2, <2>1, <2>2 DEF CalmState, EnvTypes, Begun, InTurn
<1>5. \A m \in Session : Missed(m) => Missed(m)'
  BY MissedStays
<1>6. \A m \in Session : /\ socket'[m] = IF m = p /\ socket[m] = "connected" THEN "eof" ELSE socket[m]
                         /\ proc'[m] = IF m = p THEN "dead" ELSE proc[m]
  BY <1>1 DEF CalmState, SocketsInTurn, ThreadTypes, SocketTypes
<1>7. PostedInTurn'
  <2> SUFFICES ASSUME NEW i \in Instance, posted[i] > 0
               PROVE  Missed(mManagement[i])'
    BY <1>1 DEF CalmState, PostedInTurn, fields
  <2>1. CASE Missed(mManagement[i])
    <3>1. PICK m \in Session : m = mManagement[i] /\ Missed(m)
      BY <2>1 DEF Missed
    <3> QED BY <1>1, <1>5, <3>1 DEF Missed, fields
  <2>2. CASE ~Missed(mManagement[i])
    <3>1. i = service /\ pc[starts] = "done" /\ thr[starts] = "reading" /\ ~told[starts]
      BY <2>2 DEF CalmState, PostedInTurn
    <3>2. p = starts /\ Owns(p) /\ ~interrupted[p]
      BY <1>2, <3>1 DEF CalmState, Stages, CurrentIsWhole
    <3>3. ~Quiet
      BY <3>1, Numbers DEF Quiet
    <3>4. proc[p] = "starting" /\ socket[p] = "listening"
      BY <1>3, <3>1, <3>2, <3>3 DEF CalmState, SocketsInTurn
    <3> QED BY <1>1, <1>6, <3>1, <3>2, <3>4 DEF Missed, Owns, fields
  <2> QED BY <2>1, <2>2
<1>8. DeadCleared' /\ InTurn' /\ Unused' /\ (Cleared => Cleared')
  <2>1. \A i \in Instance : IsClear(i) => IsClear(i)'
    BY <1>1, ClearStays DEF fields
  <2> QED BY <1>1, <1>2, <2>1 DEF CalmState, DeadCleared, InTurn, Unused, Cleared
<1>9. SocketsInTurn'
  BY <1>1, <1>6 DEF CalmState, SocketsInTurn, Reachable
<1>10. \A s \in Session : thr'[s] = IF s = p THEN "exited" ELSE thr[s]
  BY <1>1 DEF CalmState, ThreadTypes
<1>11. Stages'
  <2>1. CASE pc[starts] \in {"sleep", "force", "forceSleep"}
    BY <1>1, <1>2, <1>10, <2>1
       DEF CalmState, Stages, Starting, OldIsWhole, OldIsEnding, OldIsOver, Listening,
           CurrentIsWhole,
           Over, fields
  <2>2. CASE pc[starts] = "done"
    BY <1>1, <1>2, <1>8, <1>10, <2>2
       DEF CalmState, Stages, Starting, OldIsWhole, OldIsEnding, OldIsOver, Listening,
           CurrentIsWhole,
           Over, Owns, fields
  <2> QED BY <1>4, <2>1, <2>2
<1> QED BY <1>7, <1>8, <1>9, <1>11

LEMMA TurnEnd ==
  ASSUME CalmState, calm, [Next]_vars, NEW p \in Session, CheckExit(p) \/ OpenvpnStopped(p)
  PROVE  InOrder'
<1> USE DEF InOrder
<1>1. /\ thr[p] \in {"exited", "stopped"}
      /\ UNCHANGED <<starts, service, inst, pc, posted, told, interrupted, mNoProcessExitStatus,
                     proc, active, socket, peer, bound, mManagement>>
  BY DEF CheckExit, OpenvpnStopped, EndVpnService, env, fields, socketVars
<1>2. starts # 0 /\ starts \in Session /\ ~Over(p)
  BY <1>1, Numbers DEF CalmState, Unused, Over, EnvTypes
<1>3. \/ pc[starts] = "done"
      \/ /\ pc[starts] \in {"sleep", "force", "forceSleep"}
         /\ thr[p] = "exited" /\ mNoProcessExitStatus[p]
  BY <1>1, <1>2 DEF CalmState, Stages, OldIsWhole, OldIsEnding, OldIsOver, Reachable, EnvTypes,
                    Begun, Live, InTurn
<1>4. pc[starts] = "done" => p = starts /\ Owns(p) /\ ~mNoProcessExitStatus[p]
  BY <1>2 DEF CalmState, Stages, CurrentIsWhole
<1>5. InTurn' /\ Unused' /\ SocketsInTurn'
  BY <1>1, <1>2 DEF CalmState, InTurn, Unused, SocketsInTurn, Reachable
<1>6. PostedInTurn'
  <2>1. \A i \in Instance : posted[i] > 0 => (i = service => pc[starts] = "done") /\ Missed(mManagement[i])
    BY <1>1, <1>3, <1>4 DEF CalmState, PostedInTurn
  <2> QED BY <1>1, <2>1 DEF PostedInTurn, Missed
<1>8. CASE CheckExit(p)
  <2>1. /\ \A s \in Session : thr'[s] = IF s # p THEN thr[s]
                                        ELSE IF mNoProcessExitStatus[p] THEN "done" ELSE "stopped"
        /\ UNCHANGED fields
    BY <1>8 DEF CheckExit, CalmState, ThreadTypes
  <2>2. DeadCleared'
    BY <1>1, <2>1 DEF CalmState, DeadCleared, IsClear, Missed, fields
  <2>3. CASE pc[starts] \in {"sleep", "force", "forceSleep"}
    <3>1. Stages'
      BY <1>1, <1>2, <1>3, <2>1, <2>3
         DEF CalmState, Stages, Starting, OldIsWhole, OldIsEnding, OldIsOver, Listening,
             CurrentIsWhole, Over, fields
    <3> QED BY <1>5, <1>6, <2>2, <3>1
  <2>4. CASE pc[starts] = "done"
    <3>1. Stages'
      BY <1>1, <1>2, <1>4, <2>1, <2>4
         DEF CalmState, Stages, Starting, OldIsWhole, OldIsEnding, OldIsOver, Listening,
             CurrentIsWhole, Over, Owns, fields
    <3> QED BY <1>5, <1>6, <2>2, <3>1
  <2> QED BY <1>3, <2>3, <2>4
<1>9. CASE OpenvpnStopped(p)
  <2>0. thr[p] = "stopped" /\ EndVpnService(inst[p]) /\ thr' = [thr EXCEPT ![p] = "done"]
    BY <1>9 DEF OpenvpnStopped
  <2>1. pc[starts] = "done" /\ inst[p] = service
    BY <1>3, <1>4, <2>0 DEF Owns
  <2>2. /\ \A s \in Session : Over(s)'
    BY <1>2, <1>4, <2>0, <2>1 DEF CalmState, Stages, CurrentIsWhole, Over, ThreadTypes
  <2>3. Cleared' /\ DeadCleared'
    BY <1>1, <2>0, <2>1 DEF EndVpnService, Cleared, DeadCleared, IsClear, Missed, CalmState, FieldTypes
  <2>4. Stages'
    BY <1>1, <1>2, <2>1, <2>2, <2>3
       DEF Stages, Starting, OldIsWhole, OldIsEnding, OldIsOver, Listening, CurrentIsWhole
  <2> QED BY <1>5, <1>6, <2>3, <2>4
<1> QED BY <1>8, <1>9

TurnsInv == TypeInv /\ Seen /\ Numbered /\ TurnInv

LEMMA CalmStays ==
  ASSUME [Next]_vars
  PROVE  calm' = calm
BY DEF vars, env, Next, Thread, Start, StartCommand, StopVPN, OnRevoke, OnDestroy, RegisterReceiver,
       ConfigFails, WriteConfig, FindOld, MarkOld, StopOld, Sleep, ForceStop, ForceSleep, OpenManagement, OpenFails,
       EndFailed, StartProcess, AddActive, RemoveActive, Connect, Exit, CheckExit, OpenvpnStopped

LEMMA TurnStep ==
  ASSUME TurnsInv, [Next]_vars
  PROVE  TurnsInv'
<1>1. TypeInv' /\ Seen' /\ Numbered'
  BY TypeStep, SeenStep, NumberedStep DEF TurnsInv
<1>2. calm' = calm
  BY CalmStays
<1>3. ASSUME calm
      PROVE  InOrder'
  <2>0. CalmState
    BY <1>3 DEF TurnsInv, TypeInv, Types, TurnInv, CalmState, InOrder
  <2>1. CASE UNCHANGED vars
    BY <2>0, <2>1 DEF vars, env, fields, threadVars, socketVars, CalmState, InOrder, Stages,
                      Starting, OldIsWhole,
                      OldIsEnding, OldIsOver, Listening, CurrentIsWhole, Over, Owns, Cleared,
                      IsClear, Missed, Reachable,
                      SocketsInTurn, InTurn, PostedInTurn, DeadCleared, Unused
  <2>2. ~OnRevoke
    BY <1>3 DEF OnRevoke
  <2>3. ASSUME NEW s \in Session, Start(s)
        PROVE  InOrder'
    BY <1>3, <2>0, <2>3, TurnConfig, TurnStop, TurnForce, TurnOpen, TurnProcess DEF Start
  <2> QED BY <1>3, <2>0, <2>1, <2>2, <2>3, TurnStartCommand, TurnRegister, TurnDestroy, TurnStopVPN, TurnSocket,
             TurnExit, TurnEnd DEF Next, Thread
<1> QED BY <1>1, <1>2, <1>3 DEF TurnsInv, TurnInv

LEMMA WholeWhenQuiet == TurnsInv => SessionIsWhole
<1> SUFFICES ASSUME TurnsInv, calm, Quiet
             PROVE  /\ \A s \in Session : Live(s) =>
                         /\ mProcessThread[inst[s]] = s /\ mOpenVPNThread[inst[s]] = s
                         /\ mManagement[inst[s]] = s /\ mDeviceStateReceiver[inst[s]] = s
                         /\ ~stopSelf[inst[s]] /\ service = inst[s]
                    /\ (\A s \in Session : ~Live(s)) =>
                         \A i \in Instance :
                           /\ mProcessThread[i] = None
                           /\ mDeviceStateReceiver[i] # None =>
                                socket[mDeviceStateReceiver[i]] = "listening"
  BY DEF SessionIsWhole
<1>0. CalmState
  BY DEF TurnsInv, TypeInv, Types, TurnInv, CalmState, InOrder
<1>1. starts # 0 => starts \in Session /\ pc[starts] = "done"
  BY <1>0, Numbers DEF CalmState, InOrder, EnvTypes, Begun, Quiet, Settled
<1>2. \A s \in Session : thr[s] = "reading" <=> Live(s)
  BY <1>0 DEF CalmState, InOrder, Begun
<1>3. ASSUME NEW s \in Session, Live(s)
      PROVE  /\ mProcessThread[inst[s]] = s /\ mOpenVPNThread[inst[s]] = s
             /\ mManagement[inst[s]] = s /\ mDeviceStateReceiver[inst[s]] = s
             /\ ~stopSelf[inst[s]] /\ service = inst[s]
  <2>1. thr[s] = "reading" /\ ~told[s]
    BY <1>2, <1>3 DEF Quiet, Settled
  <2>2. s = starts /\ Owns(s) /\ (posted[service] > 0 \/ mDeviceStateReceiver[service] = s)
    BY <1>0, <1>1, <2>1 DEF CalmState, InOrder, Stages, CurrentIsWhole, Unused, Over
  <2>3. ~(posted[service] > 0)
    <3>1. service # None
      BY <1>0, <1>1, <2>2, Numbers DEF Owns, CalmState, InOrder, Begun
    <3> QED BY <3>1 DEF Quiet
  <2> QED BY <2>2, <2>3 DEF Owns
<1>4. ASSUME \A s \in Session : ~Live(s)
      PROVE  Cleared
  <2>1. \A s \in Session : Over(s)
    BY <1>4 DEF Quiet, Settled, Over, Live
  <2> QED BY <1>0, <1>1, <2>1 DEF CalmState, InOrder, Stages, CurrentIsWhole, Unused
<1> QED BY <1>3, <1>4 DEF Cleared, IsClear, Missed

LEMMA TurnsHold == Spec => []TurnsInv
<1>1. Init => TurnsInv
  BY InitTypes, InitTurn DEF TurnsInv
<1>2. TurnsInv /\ [Next]_vars => TurnsInv'
  BY TurnStep
<1> QED BY <1>1, <1>2, PTL DEF Spec

(* If nothing comes in between, every start and every end leaves the       *)
(* service whole: with a process that runs all fields are of its session   *)
(* and the service stays; with none no process thread is left, and no      *)
(* receiver but of a process that ended before it connected.               *)
THEOREM SessionsAreWhole == Spec => []SessionIsWhole
BY TurnsHold, WholeWhenQuiet, PTL

-------------------------------------------------------------------------------
(* In a calm state no two processes run, and none while one is started.    *)
LEMMA OneLives ==
  ASSUME CalmState, NEW s \in Session, Live(s)
  PROVE  /\ \A k \in Session : Live(k) => k = s
         /\ pc[starts] # "process"
<1>1. \A k \in Session : Live(k) => ~Over(k)
  BY DEF CalmState, InOrder, Begun, Over
<1>2. starts # 0 /\ starts \in Session
  BY <1>1, Numbers DEF CalmState, InOrder, EnvTypes, Unused
<1>3. pc[starts] # "none"
  BY <1>2, Numbers DEF CalmState, InOrder, Begun, EnvTypes
<1> QED BY <1>1, <1>2, <1>3
        DEF CalmState, InOrder, EnvTypes, Stages, OldIsWhole, OldIsEnding, OldIsOver,
            CurrentIsWhole, Owns, InTurn

(* Who runs changes at the start and at the end of a process only.         *)
LEMMA LiveStep ==
  ASSUME TypeInv, [Next]_vars
  PROVE  \/ \A k \in Session : Live(k)' <=> Live(k)
         \/ \E s \in Session : StartProcess(s)
         \/ \E s \in Session : Exit(s)
<1>1. CASE UNCHANGED proc
  BY <1>1 DEF Live
<1>2. ASSUME NEW s \in Session, Connect(s)
      PROVE  \A k \in Session : Live(k)' <=> Live(k)
  BY <1>2 DEF Connect, Live, TypeInv, Types, ThreadTypes
<1>3. \/ UNCHANGED proc \/ \E s \in Session : StartProcess(s) \/ Exit(s) \/ Connect(s)
  BY LinkCases DEF Links, Stops, OpenManagement, AddActive, RemoveActive, threadVars
<1> QED BY <1>1, <1>2, <1>3

(* ServiceLifecycle implements OneSession: without interference the        *)
(* processes come one after another, each ended before the next begins.    *)
THEOREM OneAfterAnother == Spec => OneAtATime
<1> DEFINE running == {s \in Session : calm /\ Live(s)}
<1>1. Init => Sessions1!Init
  <2>1. Init => running = {}
    BY DEF Init, Live
  <2> QED BY <2>1 DEF Sessions1!Init
<1>2. TurnsInv /\ [Next]_vars => [Sessions1!Next]_running
  <2> SUFFICES ASSUME TurnsInv, [Next]_vars PROVE [Sessions1!Next]_running
    OBVIOUS
  <2>0. calm' = calm /\ TypeInv
    BY CalmStays DEF TurnsInv
  <2>1. CASE ~calm \/ \A k \in Session : Live(k)' <=> Live(k)
    <3>1. running' = running
      BY <2>0, <2>1
    <3> QED BY <3>1
  <2>2. ASSUME calm, NEW s \in Session, StartProcess(s)
        PROVE  Sessions1!Begin(s)
    <3>0. CalmState
      BY <2>2 DEF TurnsInv, TypeInv, Types, TurnInv, CalmState, InOrder
    <3>1. s = starts /\ pc[starts] = "process" /\ proc' = [proc EXCEPT ![s] = "starting"]
      BY <2>2, <3>0, StartIsLast DEF StartProcess
    <3>2. \A k \in Session : ~Live(k)
      BY <3>0, <3>1, OneLives
    <3>3. \A k \in Session : Live(k)' <=> k = s
      BY <3>0, <3>1, <3>2 DEF CalmState, InOrder, ThreadTypes, Live
    <3>4. running = {} /\ running' = {s}
      BY <2>0, <2>2, <3>2, <3>3
    <3> QED BY <3>4 DEF Sessions1!Begin
  <2>3. ASSUME calm, NEW s \in Session, Exit(s)
        PROVE  Sessions1!End(s)
    <3>0. CalmState
      BY <2>3 DEF TurnsInv, TypeInv, Types, TurnInv, CalmState, InOrder
    <3>1. Live(s) /\ proc' = [proc EXCEPT ![s] = "dead"]
      BY <2>3 DEF Exit
    <3>2. \A k \in Session : Live(k) <=> k = s
      BY <3>0, <3>1, OneLives
    <3>3. \A k \in Session : ~Live(k)'
      BY <3>0, <3>1, <3>2 DEF CalmState, InOrder, ThreadTypes, Live
    <3>4. running = {s} /\ running' = {}
      BY <2>0, <2>3, <3>2, <3>3
    <3> QED BY <3>4 DEF Sessions1!End
  <2> QED BY <2>0, <2>1, <2>2, <2>3, LiveStep DEF Sessions1!Next
<1> QED BY <1>1, <1>2, TurnsHold, PTL DEF Spec, OneAtATime, Sessions1!Spec
===============================================================================
