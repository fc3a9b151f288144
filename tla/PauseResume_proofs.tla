-------------------------- MODULE PauseResume_proofs --------------------------
(***************************************************************************)
(* Theorems about a pause that the user asked for, which only the user     *)
(* ends, and about wakeups, of which none is lost; each under assumptions  *)
(* that its section names and without which it is false.                   *)
(***************************************************************************)
EXTENDS PauseControl_proofs

-------------------------------------------------------------------------------
(* A pause asked for by the user, when pauses come from the main looper    *)
(* alone and a lost network does not pause the VPN (preference             *)
(* netchangereconnect is off).  Without the second assumption              *)
(* UserPauseIsKept is false: see the run PauseFlap.                        *)


(* Where a thread stands that has decided to end a hold, or that may yet   *)
(* decide to without looking at userpause again.                           *)
Resuming == {"resume", "netSame", "netDiff", "releaseHold", "clear",
             "clearResume", "write", "writeResume", "screenWasUp", "screenOnUp",
             "userWasDown"}

(* The inductive invariant: only main resumes, and only while the user     *)
(* wants the VPN; the delay after a network loss is never entered.         *)
OnlyMainResumes ==
  /\ network # "PENDINGDISCONNECT"
  /\ \A t \in Thread : pc[t] \in Resuming =>
                         t = "main" /\ userpause = "SHOULDBECONNECTED"

LEMMA ReceiverUser ==
  ASSUME NetChangeReconnect \subseteq {FALSE}, UserThreads \subseteq {"main"},
         TypeOK, OnlyMainResumes, Receiver
  PROVE  OnlyMainResumes'
<1> USE DEF OnlyMainResumes, Resuming, Thread, Idle, At, TypeOK, DsrTypeOK
<1>1. CASE networkStateChange
  <2>1. ASSUME NEW info \in Networks, NewNetwork(info)
        PROVE  OnlyMainResumes'
    <3>1. PICK l \in {"netDiff", "resume", "idle"} :
            Goto("main", l) /\ (l # "idle" => userpause' = "SHOULDBECONNECTED")
      BY <2>1 DEF NewNetwork, shouldBeConnected
    <3>2. network' # "PENDINGDISCONNECT" /\ userpause' = userpause
      BY <1>1, <2>1 DEF NewNetwork, networkStateChange
    <3> QED BY <3>1, <3>2, GotoPc
  <2>2. CASE NetworkLost
    <3>1. Goto("main", "idle") /\ UNCHANGED network
      BY <2>2 DEF NetworkLost
    <3> QED BY <1>1, <3>1, GotoPc DEF networkStateChange
  <2> QED BY <1>1, <2>1, <2>2 DEF networkStateChange, SameNetworkReturns
<1>2. CASE ScreenOff \/ ScreenOffDecide
  <2>1. UNCHANGED pc \/ Goto("main", "screenOff") \/ Goto("main", "idle")
    BY <1>2 DEF ScreenOff, ScreenOffDecide
  <2>2. UNCHANGED <<network, userpause>>
    BY <1>2 DEF ScreenOff, ScreenOffDecide
  <2> QED BY <2>1, <2>2, GotoPc
<1>3. CASE ScreenOn \/ ScreenOnWrite
  <2>1. PICK l \in {"screenWasUp", "screenWasDown", "screenOnUp", "screenOnDown"} :
          /\ Goto("main", l)
          /\ l \in {"screenWasUp", "screenOnUp"} => userpause = "SHOULDBECONNECTED"
    BY <1>3 DEF ScreenOn, ScreenOnWrite, shouldBeConnected
  <2>2. UNCHANGED <<network, userpause>>
    BY <1>3 DEF ScreenOn, ScreenOnWrite
  <2> QED BY <2>1, <2>2, GotoPc
<1>4. CASE ScreenOnDecide
  <2>1. PICK l \in {"resume", "pause", "idle"} :
          Goto("main", l) /\ (l = "resume" => userpause = "SHOULDBECONNECTED")
    BY <1>4 DEF ScreenOnDecide, shouldBeConnected
  <2>2. UNCHANGED <<network, userpause>>
    BY <1>4 DEF ScreenOnDecide, dsrVars
  <2> QED BY <2>1, <2>2, GotoPc
<1>5. ASSUME NEW t \in UserThreads, UserPause(t)
      PROVE  OnlyMainResumes'
  <2>1. t = "main" /\ Idle(t) /\ Goto(t, "pause") /\ UNCHANGED network
    BY <1>5 DEF UserPause
  <2> QED BY <2>1, GotoPc
<1>6. ASSUME NEW t \in UserThreads, UserResume(t)
      PROVE  OnlyMainResumes'
  <2>1. t = "main" /\ UNCHANGED network /\ userpause' = "SHOULDBECONNECTED"
    BY <1>6 DEF UserResume
  <2>2. PICK l \in {"userWasUp", "userWasDown"} : Goto(t, l)
    BY <1>6 DEF UserResume
  <2> QED BY <2>1, <2>2, GotoPc
<1>9. ASSUME NEW t \in UserThreads, UserResumeDecide(t)
      PROVE  OnlyMainResumes'
  <2>1. t = "main" /\ UNCHANGED <<network, userpause>>
    BY <1>9 DEF UserResumeDecide, dsrVars
  <2>2. PICK l \in {"resume", "pause"} :
          Goto(t, l) /\ (l = "resume" => userpause = "SHOULDBECONNECTED")
    BY <1>9 DEF UserResumeDecide, shouldBeConnected
  <2> QED BY <2>1, <2>2, GotoPc
<1>7. CASE ByteCountLow \/ ByteCountPause
  <2>1. PICK l \in {"byteCount", "pause"} : Goto("mgmt", l)
    BY <1>7 DEF ByteCountLow, ByteCountPause
  <2>2. UNCHANGED <<network, userpause>>
    BY <1>7 DEF ByteCountLow, ByteCountPause, dsrVars
  <2> QED BY <2>1, <2>2, GotoPc
<1>8. CASE DelayDisconnect
  BY <1>8 DEF DelayDisconnect
<1> QED BY <1>1, <1>2, <1>3, <1>4, <1>5, <1>6, <1>7, <1>8, <1>9 DEF Receiver

LEMMA CallsUser ==
  ASSUME TypeOK, OnlyMainResumes, NEW t \in Thread, Calls(t)
  PROVE  OnlyMainResumes'
<1>1. UNCHANGED <<network, userpause>>
  BY DEF Calls, dsrVars
<1>2. PICK l \in Label : Goto(t, l) /\ (l \in Resuming => pc[t] \in Resuming)
  <2> USE DEF At, Resuming, Label
  <2>1. CASE Pause(t) \/ SignalUsr1(t) \/ ResetReason(t) \/ SendDecided(t)
    BY <2>1 DEF Pause, SignalUsr1, ResetReason, SendDecided
  <2>2. CASE Resume(t) \/ NetworkChange(t) \/ ReleaseHold(t)
    BY <2>2 DEF Resume, NetworkChange, ReleaseHold
  <2>3. CASE ClearWaiting(t) \/ WriteRelease(t)
    BY <2>3 DEF ClearWaiting, WriteRelease, AfterRelease
  <2> QED BY <2>1, <2>2, <2>3 DEF Calls
<1> QED BY <1>1, <1>2, GotoPc DEF OnlyMainResumes, TypeOK

LEMMA OthersUser ==
  ASSUME TypeOK, OnlyMainResumes,
         RunResumeHold \/ Listen \/ HandleHoldStep \/ Register \/ OpenVpn
  PROVE  OnlyMainResumes'
<1> USE DEF OnlyMainResumes, TypeOK
<1>1. UNCHANGED <<network, userpause>>
  BY DEF RunResumeHold, Listen, HandleHoldStep, Register, OpenVpn, dsrVars
<1>2. CASE RunResumeHold
  <2>1. UNCHANGED pc \/ (Goto("main", "clear") /\ userpause = "SHOULDBECONNECTED")
    BY <1>2 DEF RunResumeHold, ResumeHold, shouldBeRunning, shouldBeConnected
  <2> QED BY <1>1, <2>1, GotoPc DEF Thread
<1>3. CASE Listen \/ HandleHoldStep \/ Register \/ OpenVpn
  <2>1. \/ UNCHANGED pc
        \/ \E t \in Thread, l \in Label : Goto(t, l) /\ l \notin Resuming
    <3> USE DEF Thread, Label, Resuming
    <3>1. CASE Listen
      BY <3>1 DEF Listen, HandleHold, ProcessState
    <3>2. CASE HandleHoldStep
      BY <3>2 DEF HandleHoldStep, HoldDecide, HoldPost, HoldShowPause
    <3>3. CASE Register
      BY <3>3 DEF Register, RegisterReceiver
    <3>4. CASE OpenVpn
      BY <3>4 DEF OpenVpn
    <3> QED BY <1>3, <3>1, <3>2, <3>3, <3>4
  <2> QED BY <1>1, <2>1, GotoPc
<1> QED BY <1>2, <1>3

LEMMA OnlyMainResumesAlways ==
  ASSUME NetChangeReconnect \subseteq {FALSE}, UserThreads \subseteq {"main"}
  PROVE  Spec => []OnlyMainResumes
<1>1. Init => OnlyMainResumes
  BY DEF Init, DsrInit, OnlyMainResumes, Resuming, Thread
<1>2. TypeOK /\ OnlyMainResumes /\ [Next]_vars => OnlyMainResumes'
  <2> SUFFICES ASSUME TypeOK, OnlyMainResumes, [Next]_vars PROVE OnlyMainResumes'
    OBVIOUS
  <2>1. CASE UNCHANGED vars
    BY <2>1 DEF vars, dsrVars, OnlyMainResumes
  <2> QED BY <2>1, ReceiverUser, CallsUser, OthersUser DEF Next
<1> QED BY <1>1, <1>2, TypeCorrect, PTL DEF Spec

-------------------------------------------------------------------------------
(* A "hold release" is written only by WriteRelease.                       *)
LEMMA AppendDiffers ==
  ASSUME NEW S, NEW s \in Seq(S), NEW c \in S
  PROVE  /\ Append(s, c) # s
         /\ s # <<>> => Append(s, c) # Tail(s)
         /\ \A d \in S : Append(s, d) = Append(s, c) => d = c
<1> DEFINE n == Len(s)
<1>1. n \in Nat
  OBVIOUS
<1>2. \A d \in S : Len(Append(s, d)) = n + 1 /\ Append(s, d)[n + 1] = d
  OBVIOUS
<1>3. ASSUME Append(s, c) = s PROVE FALSE
  <2>1. n = n + 1
    BY <1>2, <1>3
  <2> QED BY <1>1, <2>1
<1>4. ASSUME s # <<>>, Append(s, c) = Tail(s) PROVE FALSE
  <2>1. Len(Tail(s)) = n - 1
    BY <1>4
  <2>2. n - 1 = n + 1
    BY <1>2, <1>4, <2>1
  <2> QED BY <1>1, <2>2
<1> QED BY <1>2, <1>3, <1>4

LEMMA OnlyWriteReleases ==
  ASSUME TypeOK, [Next]_vars, cmds' = Append(cmds, "hold release")
  PROVE  \E t \in Thread : Releasing(t)
<1>0. cmds \in Seq(Command) /\ "hold release" \in Command
  BY DEF TypeOK, HoldTypeOK, Command
<1>1. cmds' # cmds /\ (cmds # <<>> => cmds' # Tail(cmds))
  BY <1>0, AppendDiffers
<1>2. ~ReadCommand
  BY <1>1 DEF ReadCommand
<1>3. PICK t \in Thread : Calls(t)
  BY <1>1, <1>2 DEF Next, vars, holdVars, Receiver, RunResumeHold, ResumeHold,
     Listen, HandleHoldStep, Register, OpenVpn, LeaveHold, Restart
<1>4. ASSUME NEW cmd \in Command, Send(cmd) PROVE cmd = "hold release"
  <2>1. Append(cmds, cmd) = Append(cmds, "hold release")
    BY <1>4 DEF Send
  <2> QED BY <1>0, <2>1, AppendDiffers
<1>5. UNCHANGED cmds \/ SendDecided(t) \/ WriteRelease(t)
  BY <1>3 DEF Calls, Pause, SignalUsr1, Resume, ResetReason, NetworkChange, ReleaseHold,
     ClearWaiting
<1>6. ~SendDecided(t)
  BY <1>4 DEF SendDecided, Command
<1> QED BY <1>1, <1>5, <1>6 DEF WriteRelease, Releasing

(* While the user has paused the VPN, no "hold release" is written.        *)
THEOREM UserPauseKept ==
  ASSUME NetChangeReconnect \subseteq {FALSE}, UserThreads \subseteq {"main"}
  PROVE  Spec => UserPauseIsKept
<1>1. TypeOK /\ OnlyMainResumes /\ [Next]_vars =>
        [cmds' = Append(cmds, "hold release")
           => userpause = "SHOULDBECONNECTED"]_vars
  BY OnlyWriteReleases DEF OnlyMainResumes, Releasing, Resuming
<1> QED BY <1>1, TypeCorrect, OnlyMainResumesAlways, PTL DEF Spec, UserPauseIsKept

-------------------------------------------------------------------------------
(* After a user pause: where the pause is until the client waits to release*)
(* a hold.                                                                 *)
PauseUnderway ==
  \/ mWaitingForRelease
  \/ Announced
  \/ usr1
  \/ Queued("signal SIGUSR1", cmds)
  \/ pc["main"] \in {"pause", "signalusr1", "sendUsr1"}

PauseArrives == userpause = "DISCONNECTED" => PauseUnderway

LEMMA ReceiverPauses ==
  ASSUME UserThreads \subseteq {"main"}, TypeOK, PauseArrives, Receiver
  PROVE  PauseArrives'
<1>1. UNCHANGED <<mWaitingForRelease, notes, cmds, usr1>>
  BY DEF Receiver, mgmtVars, holdVars
<1>2. /\ Announced' = Announced
      /\ Queued("signal SIGUSR1", cmds)' = Queued("signal SIGUSR1", cmds)
  BY <1>1 DEF Announced
<1> USE DEF Thread, TypeOK
<1>3. CASE \E t \in UserThreads : UserPause(t)
  <2>1. Goto("main", "pause")
    BY <1>3 DEF UserPause
  <2> QED BY <2>1, GotoPc DEF PauseArrives, PauseUnderway
<1>4. CASE \E t \in UserThreads : UserResume(t)
  BY <1>4 DEF UserResume, PauseArrives
<1>5. CASE ~\E t \in UserThreads : UserPause(t) \/ UserResume(t)
  <2>1. UNCHANGED userpause
    BY <1>5 DEF Receiver, networkStateChange, ScreenOff, ScreenOffDecide, ScreenOn,
       ScreenOnWrite, ByteCountLow, DelayDisconnect, ScreenOnDecide,
       UserResumeDecide, ByteCountPause, dsrVars
  <2>2. \/ pc'["main"] = pc["main"]
        \/ pc["main"] \notin {"pause", "signalusr1", "sendUsr1"}
    <3>1. CASE networkStateChange \/ ScreenOnDecide \/ ScreenOffDecide \/ ScreenOnWrite
      BY <3>1 DEF networkStateChange, ScreenOnDecide, ScreenOffDecide, ScreenOnWrite, At
    <3>2. CASE ScreenOff \/ ScreenOn \/ DelayDisconnect
      BY <3>2 DEF ScreenOff, ScreenOn, DelayDisconnect, Idle
    <3>3. CASE ByteCountLow \/ ByteCountPause
      BY <3>3, GotoPc DEF ByteCountLow, ByteCountPause
    <3>4. CASE \E t \in UserThreads : UserResumeDecide(t)
      BY <3>4 DEF UserResumeDecide
    <3> QED BY <1>5, <3>1, <3>2, <3>3, <3>4 DEF Receiver
  <2> QED BY <1>1, <1>2, <2>1, <2>2 DEF PauseArrives, PauseUnderway
<1> QED BY <1>3, <1>4, <1>5

LEMMA CallsPauses ==
  ASSUME TypeOK, OnlyMainResumes, PauseArrives, NEW t \in Thread, Calls(t)
  PROVE  PauseArrives'
<1>1. UNCHANGED <<userpause, notes, usr1>>
  BY DEF Calls, dsrVars
<1>2. Announced' = Announced
  BY <1>1 DEF Announced
<1>3. cmds \in Seq(Command) /\ pc \in [Thread -> Label]
  BY DEF TypeOK, HoldTypeOK
<1>4. Queued("signal SIGUSR1", cmds) => Queued("signal SIGUSR1", cmds)'
  <2>1. UNCHANGED cmds \/ \E cmd \in Command : Send(cmd)
    BY DEF Calls, Pause, SignalUsr1, Resume, ResetReason, NetworkChange, ReleaseHold,
           SendDecided, ClearWaiting, WriteRelease, Command
  <2> QED BY <1>3, <2>1, SendQueues
<1>5. CASE ClearWaiting(t)
  BY <1>1, <1>5 DEF ClearWaiting, OnlyMainResumes, Resuming, PauseArrives
<1>6. CASE SendDecided(t) /\ At(t, "sendUsr1")
  <2>1. Queued("signal SIGUSR1", cmds)'
    BY <1>3, <1>6, SendQueues DEF SendDecided, Command, At
  <2> QED BY <2>1 DEF PauseArrives, PauseUnderway
<1>7. CASE ~ClearWaiting(t) /\ ~(SendDecided(t) /\ At(t, "sendUsr1"))
  <2>1. UNCHANGED mWaitingForRelease
    BY <1>7 DEF Calls, Pause, SignalUsr1, Resume, ResetReason, NetworkChange, ReleaseHold,
       SendDecided, WriteRelease, mgmtVars
  <2>2. \/ pc'["main"] = pc["main"]
        \/ pc["main"] \notin {"pause", "signalusr1", "sendUsr1"}
        \/ pc'["main"] \in {"signalusr1", "sendUsr1"}
        \/ mWaitingForRelease
    <3>1. CASE Pause(t)
      BY <1>3, <3>1, GotoPc DEF Pause, Thread
    <3>2. CASE SignalUsr1(t)
      BY <1>3, <3>2, GotoPc DEF SignalUsr1, Thread
    <3>3. CASE ~Pause(t) /\ ~SignalUsr1(t)
      <4>1. pc[t] \notin {"pause", "signalusr1", "sendUsr1"}
        BY <1>7, <3>3 DEF Calls, Resume, ResetReason, NetworkChange, ReleaseHold,
               SendDecided,
           WriteRelease, At
      <4>2. \E l : Goto(t, l)
        BY <1>7, <3>3 DEF Calls, Resume, ResetReason, NetworkChange, ReleaseHold,
               SendDecided,
           WriteRelease
      <4> QED BY <1>3, <4>1, <4>2, GotoPc DEF Thread
    <3> QED BY <3>1, <3>2, <3>3
  <2> QED BY <1>1, <1>2, <1>4, <2>1, <2>2 DEF PauseArrives, PauseUnderway
<1> QED BY <1>5, <1>6, <1>7

LEMMA ListenPauses ==
  ASSUME TypeOK, PauseArrives, Listen
  PROVE  PauseArrives'
<1>1. UNCHANGED <<userpause, cmds, usr1>>
  BY DEF Listen, dsrVars
<1>2. CASE HandleHold
  BY <1>2 DEF HandleHold, PauseArrives, PauseUnderway
<1>3. CASE ProcessState
  <2>1. Announced => Announced' \/ mWaitingForRelease'
    BY ListenHold DEF HoldKept
  <2>2. UNCHANGED <<pc, mWaitingForRelease>>
    BY <1>3 DEF ProcessState
  <2> QED BY <1>1, <2>1, <2>2 DEF PauseArrives, PauseUnderway
<1> QED BY <1>2, <1>3 DEF Listen

LEMMA LooperPauses ==
  ASSUME TypeOK, PauseArrives, RunResumeHold \/ HandleHoldStep \/ Register
  PROVE  PauseArrives'
<1>1. UNCHANGED <<userpause, cmds, notes, usr1, mWaitingForRelease>>
  BY DEF RunResumeHold, Register, HandleHoldStep, ResumeHold, RegisterReceiver,
         HoldDecide, HoldPost, HoldShowPause, mgmtVars, holdVars, dsrVars
<1>2. \/ pc'["main"] = pc["main"]
      \/ pc["main"] \notin {"pause", "signalusr1", "sendUsr1"}
  <2>1. CASE HandleHoldStep
    <3>1. \E l \in Label : Goto("mgmt", l)
      BY <2>1 DEF HandleHoldStep, HoldDecide, HoldPost, HoldShowPause, Label
    <3> QED BY <3>1, GotoPc DEF TypeOK, Thread
  <2>2. CASE RunResumeHold \/ Register
    BY <2>2 DEF RunResumeHold, ResumeHold, Register, RegisterReceiver, Idle, At
  <2> QED BY <2>1, <2>2
<1> QED BY <1>1, <1>2 DEF PauseArrives, PauseUnderway, Announced

LEMMA OpenVpnPauses ==
  ASSUME TypeOK, PauseArrives, OpenVpn
  PROVE  PauseArrives'
<1>1. UNCHANGED <<pc, userpause, mWaitingForRelease>>
  BY DEF OpenVpn, dsrVars, mgmtVars
<1>2. <<"HOLD">> \in Seq(Notice) /\ <<"STATE">> \in Seq(Notice)
      /\ <<"STATE", "HOLD">> \in Seq(Notice) /\ notes \in Seq(Notice)
      /\ cmds \in Seq(Command)
  BY DEF Notice, TypeOK, HoldTypeOK
<1>3. CASE ReadCommand
  <2>1. Announced => Announced'
    <3>1. UNCHANGED notes \/ Announce(<<"HOLD">>)
      BY <1>3 DEF ReadCommand, Process, man_hold, man_signal, man_network_change
    <3> QED BY <1>2, <3>1, AnnounceQueues DEF Announced
  <2>2. usr1 => usr1'
    BY <1>3 DEF ReadCommand, Process, man_hold, man_signal, man_network_change
  <2>3. CASE Head(cmds) = "signal SIGUSR1"
    <3>1. usr1' \/ Announce(<<"HOLD">>)
      BY <1>3, <2>3 DEF ReadCommand, Process, man_signal
    <3>2. Queued("HOLD", <<"HOLD">>)
      <4>1. 1 \in 1..Len(<<"HOLD">>) /\ <<"HOLD">>[1] = "HOLD"
        OBVIOUS
      <4> QED BY <4>1 DEF Queued
    <3>3. usr1' \/ Announced'
      BY <1>2, <3>1, <3>2, AnnounceQueues DEF Announced
    <3> QED BY <3>3 DEF PauseArrives, PauseUnderway
  <2>4. CASE Head(cmds) # "signal SIGUSR1"
    <3>1. Queued("signal SIGUSR1", cmds) => Queued("signal SIGUSR1", cmds)'
      BY <1>2, <1>3, <2>4, QueuedTail DEF ReadCommand
    <3> QED BY <1>1, <2>1, <2>2, <3>1 DEF PauseArrives, PauseUnderway
  <2> QED BY <2>3, <2>4
<1>4. CASE LeaveHold
  <2>1. UNCHANGED <<cmds, usr1>> /\ (Announced => Announced')
    BY <1>2, <1>4, AnnounceQueues DEF LeaveHold, Announced
  <2> QED BY <1>1, <2>1 DEF PauseArrives, PauseUnderway
<1>5. CASE Restart
  <2>1. ~(held /\ holdRelease /\ ~held') /\ ~held /\ held'
    BY <1>5 DEF Restart
  <2>2. Announced'
    BY <2>1, HoldStep DEF Next, HoldKept
  <2> QED BY <2>2 DEF PauseArrives, PauseUnderway
<1> QED BY <1>3, <1>4, <1>5 DEF OpenVpn

(* A hold that the client has learned of in time stays until a thread has  *)
(* forgotten it again, which is the last thing before its release.         *)
Writing(t) == pc[t] \in {"write", "writeResume"}

KnownHold ==
  mWaitingForRelease /\ ~crossed =>
    /\ held /\ ~holdRelease
    /\ ~Queued("hold release", cmds)
    /\ \A t \in Thread : ~Writing(t)

LEMMA OthersKnow ==
  ASSUME TypeOK, KnownHold,
         UNCHANGED <<cmds, held, holdRelease, mWaitingForRelease, crossed>>,
         \/ UNCHANGED pc
         \/ \E t \in Thread : \E l \in Label \ {"write", "writeResume"} : Goto(t, l)
  PROVE  KnownHold'
<1>1. \A u \in Thread : Writing(u)' => Writing(u)
  BY GotoPc DEF Writing, TypeOK
<1> QED BY <1>1 DEF KnownHold

LEMMA ReceiverKnows ==
  ASSUME TypeOK, KnownHold, Receiver
  PROVE  KnownHold'
<1>1. UNCHANGED <<cmds, held, holdRelease, mWaitingForRelease, crossed>>
  BY DEF Receiver, mgmtVars, holdVars
<1>2. UserThreads \subseteq Thread /\ "main" \in Thread /\ "mgmt" \in Thread
  BY DsrAssumption DEF Thread
<1>3. \/ UNCHANGED pc
      \/ \E t \in Thread : \E l \in Label \ {"write", "writeResume"} : Goto(t, l)
  <2> USE DEF Label
  <2>1. CASE networkStateChange
    <3>1. ASSUME NEW info \in Networks, NewNetwork(info)
          PROVE  \E l \in {"netDiff", "resume", "idle"} : Goto("main", l)
      BY <3>1 DEF NewNetwork
    <3> QED BY <1>2, <2>1, <3>1 DEF networkStateChange, SameNetworkReturns, NetworkLost
  <2>2. CASE ScreenOff \/ ScreenOn \/ DelayDisconnect
    BY <1>2, <2>2 DEF ScreenOff, ScreenOn, DelayDisconnect
  <2>3. CASE ScreenOnDecide \/ ScreenOffDecide \/ ScreenOnWrite
    BY <1>2, <2>3 DEF ScreenOnDecide, ScreenOffDecide, ScreenOnWrite
  <2>4. CASE ByteCountLow \/ ByteCountPause
    BY <1>2, <2>4 DEF ByteCountLow, ByteCountPause
  <2>5. CASE \E t \in UserThreads : UserPause(t) \/ UserResume(t) \/ UserResumeDecide(t)
    BY <1>2, <2>5 DEF UserPause, UserResume, UserResumeDecide
  <2> QED BY <2>1, <2>2, <2>3, <2>4, <2>5 DEF Receiver
<1> QED BY <1>1, <1>3, OthersKnow

LEMMA CallsKnow ==
  ASSUME TypeOK, KnownHold, NEW t \in Thread, Calls(t)
  PROVE  KnownHold'
<1>0. cmds \in Seq(Command) /\ pc \in [Thread -> Label]
  BY DEF TypeOK, HoldTypeOK
<1>1. UNCHANGED <<held, holdRelease, crossed>>
  BY DEF Calls
<1>2. CASE ClearWaiting(t)
  BY <1>2 DEF ClearWaiting, KnownHold
<1>3. CASE WriteRelease(t)
  BY <1>1, <1>3 DEF WriteRelease, KnownHold, Writing, mgmtVars
<1>4. CASE SendDecided(t)
  <2>1. PICK cmd \in Command : cmd # "hold release" /\ Send(cmd)
    BY <1>4 DEF SendDecided, Command
  <2>2. Queued("hold release", cmds)' <=> Queued("hold release", cmds)
    BY <1>0, <2>1, SendQueues
  <2>3. Goto(t, "idle") /\ UNCHANGED mWaitingForRelease
    BY <1>4 DEF SendDecided, mgmtVars
  <2>4. \A u \in Thread : Writing(u)' => Writing(u)
    BY <1>0, <2>3, GotoPc DEF Writing
  <2> QED BY <1>1, <2>2, <2>3, <2>4 DEF KnownHold
<1>5. CASE \/ Pause(t) \/ SignalUsr1(t) \/ Resume(t) \/ ResetReason(t)
          \/ NetworkChange(t) \/ ReleaseHold(t)
  <2>1. UNCHANGED <<cmds, mWaitingForRelease>>
    BY <1>5 DEF Pause, SignalUsr1, Resume, ResetReason, NetworkChange, ReleaseHold,
           mgmtVars
  <2>2. \E l \in Label \ {"write", "writeResume"} : Goto(t, l)
    BY <1>5 DEF Pause, SignalUsr1, Resume, ResetReason, NetworkChange, ReleaseHold,
           Label
  <2> QED BY <1>1, <2>1, <2>2, OthersKnow
<1> QED BY <1>2, <1>3, <1>4, <1>5 DEF Calls

LEMMA LooperKnows ==
  ASSUME TypeOK, KnownHold, RunResumeHold \/ HandleHoldStep \/ Register
  PROVE  KnownHold'
<1>1. UNCHANGED <<cmds, held, holdRelease, mWaitingForRelease, crossed>>
  BY DEF RunResumeHold, Register, HandleHoldStep, ResumeHold, RegisterReceiver,
         HoldDecide, HoldPost, HoldShowPause, mgmtVars, holdVars
<1>2. \/ UNCHANGED pc
      \/ \E t \in Thread : \E l \in Label \ {"write", "writeResume"} : Goto(t, l)
  <2> USE DEF Thread, Label
  <2>1. CASE HandleHoldStep
    BY <2>1 DEF HandleHoldStep, HoldDecide, HoldPost, HoldShowPause
  <2>2. CASE RunResumeHold \/ Register
    BY <2>2 DEF RunResumeHold, ResumeHold, Register, RegisterReceiver
  <2> QED BY <2>1, <2>2
<1> QED BY <1>1, <1>2, OthersKnow

LEMMA ListenKnows ==
  ASSUME TypeOK, KnownHold, Listen
  PROVE  KnownHold'
<1>1. UNCHANGED <<cmds, held, holdRelease>>
  BY DEF Listen
<1>2. CASE HandleHold /\ crossed' = (~held \/ ReleaseUnderway)
  <2>1. \A u \in Thread : Writing(u)' => Writing(u)
    BY <1>2, GotoPc DEF HandleHold, Writing, TypeOK, Thread
  <2> QED BY <1>1, <1>2, <2>1 DEF KnownHold, ReleaseUnderway, Releasing, Writing
<1>3. CASE ProcessState /\ UNCHANGED crossed
  BY <1>1, <1>3, OthersKnow DEF ProcessState
<1> QED BY <1>2, <1>3 DEF Listen

LEMMA OpenVpnKnows ==
  ASSUME TypeOK, KnownHold, OpenVpn
  PROVE  KnownHold'
<1>1. UNCHANGED <<pc, mWaitingForRelease, crossed>>
  BY DEF OpenVpn, mgmtVars
<1>2. CASE ReadCommand
  <2>1. cmds \in Seq(Command) /\ cmds # <<>> /\ cmds' = Tail(cmds)
    BY <1>2 DEF ReadCommand, TypeOK, HoldTypeOK
  <2>2. Queued("hold release", cmds)' => Queued("hold release", cmds)
    BY <2>1, QueuedTail
  <2>3. ~Queued("hold release", cmds) => UNCHANGED <<held, holdRelease>>
    <3>1. Head(cmds) = "hold release" => Queued("hold release", cmds)
      BY <2>1, QueuedTail
    <3> QED BY <1>2, <3>1 DEF ReadCommand, Process, man_hold, man_signal, man_network_change
  <2> QED BY <1>1, <2>2, <2>3 DEF KnownHold, Writing
<1>3. CASE LeaveHold
  BY <1>1, <1>3 DEF LeaveHold, KnownHold
<1>4. CASE Restart
  BY <1>1, <1>4 DEF Restart, KnownHold
<1> QED BY <1>2, <1>3, <1>4 DEF OpenVpn

LEMMA KnownHoldAlways == Spec => []KnownHold
<1>1. Init => KnownHold
  BY DEF Init, MgmtInit, KnownHold
<1>2. TypeOK /\ KnownHold /\ [Next]_vars => KnownHold'
  <2> SUFFICES ASSUME TypeOK, KnownHold, [Next]_vars PROVE KnownHold'
    OBVIOUS
  <2>1. CASE UNCHANGED vars
    BY <2>1, OthersKnow DEF vars, mgmtVars, holdVars
  <2> QED BY <2>1, ReceiverKnows, CallsKnow, LooperKnows, ListenKnows, OpenVpnKnows
          DEF Next
<1> QED BY <1>1, <1>2, TypeCorrect, PTL DEF Spec

(* A pause by the user takes effect: when everything has come to rest,     *)
(* openvpn holds and nothing ends the hold, unless the client was told of  *)
(* a hold that was over or about to end.                                   *)
THEOREM PauseIsAlwaysHeld ==
  ASSUME NetChangeReconnect \subseteq {FALSE}, UserThreads \subseteq {"main"}
  PROVE  Spec => []PauseIsHeld
<1>1. Init => PauseArrives
  BY DEF Init, DsrInit, PauseArrives
<1>2. TypeOK /\ OnlyMainResumes /\ PauseArrives /\ [Next]_vars => PauseArrives'
  <2> SUFFICES ASSUME TypeOK, OnlyMainResumes, PauseArrives, [Next]_vars
               PROVE  PauseArrives'
    OBVIOUS
  <2>1. CASE UNCHANGED vars
    <3>1. UNCHANGED <<pc, userpause, mWaitingForRelease, cmds, notes, usr1>>
      BY <2>1 DEF vars, dsrVars, mgmtVars, holdVars
    <3> QED BY <3>1 DEF PauseArrives, PauseUnderway, Announced
  <2> QED BY <2>1, ReceiverPauses, CallsPauses, ListenPauses, LooperPauses,
             OpenVpnPauses DEF Next
<1>3. PauseArrives /\ KnownHold => PauseIsHeld
  BY DEF PauseArrives, PauseUnderway, KnownHold, PauseIsHeld, Quiet, Idle, Announced,
         Queued, Thread
<1> QED BY <1>1, <1>2, <1>3, TypeCorrect, OnlyMainResumesAlways, KnownHoldAlways, PTL
        DEF Spec

-------------------------------------------------------------------------------
(* No wakeup is lost when pauses and resumes come from the main looper,    *)
(* none is redundant, and the preference screenoff does not change.  With  *)
(* redundant calls it is false: a resume of a VPN that is not paused       *)
(* becomes a pause(), which removes the posted mResumeHoldRunnable.        *)


(* Where main stands when it is going to look at mWaitingForRelease and    *)
(* then to release, or has just decided to.                                *)
Waking == {"resume", "netSame", "netDiff", "releaseHold", "screenOnDown",
           "userWasDown", "clear", "clearResume"}

(* The methods each thread can be in.                                      *)
ThreadsAtHome ==
  /\ pc["binder"] = "idle"
  /\ pc["mgmt"] \notin Waking \cup
       {"screenOff", "screenWasUp", "screenWasDown", "screenOnUp", "userWasUp",
        "write", "writeResume", "resetReason", "register", "connectivity"}
  /\ pc["main"] \notin {"byteCount", "hold", "postResume", "showPause", "userWasUp"}

(* The management thread is never between its check and its write when     *)
(* SCREEN_ON finds everything up.                                          *)
ScreenInv ==
  /\ FALSE \in ScreenOffPause =>
       /\ screen = "SHOULDBECONNECTED"
       /\ pc["mgmt"] # "byteCount" /\ pc["main"] # "screenOff"
  /\ pc["main"] = "screenWasUp" =>
       screen = "SHOULDBECONNECTED" /\ pc["mgmt"] # "byteCount"
  /\ pc["main"] \in {"screenWasUp", "screenWasDown"} => lit
  /\ ~lit /\ screen = "SHOULDBECONNECTED" => pc["mgmt"] # "byteCount"

(* A posted callback, or one about to be posted, that no pause() on the    *)
(* management thread is about to remove.                                   *)
Posted ==
  /\ pc["mgmt"] # "pause"
  /\ resumePosted > 0 \/ pc["mgmt"] \in {"hold", "postResume"}

WakeupInv ==
  /\ ThreadsAtHome
  /\ ~mPauseCallback => network = "DISCONNECTED" /\ pc["main"] = "register"
  /\ pc["main"] = "pause" => ~shouldBeConnected
  /\ mWaitingForRelease /\ shouldBeRunning => pc["main"] \in Waking \/ Posted

(* Main leaves a point that is not in Waking, other threads stand still. *)
LEMMA MainMoves ==
  ASSUME TypeOK, WakeupInv, UNCHANGED mgmtVars,
         NEW l \in Label, Goto("main", l), pc["main"] \notin Waking,
         l \notin {"byteCount", "hold", "postResume", "showPause", "userWasUp"},
         l = "pause" => ~shouldBeConnected',
         pc["main"] # "register",
         shouldBeConnected' => shouldBeConnected \/ l \in Waking
  PROVE  WakeupInv'
<1>1. /\ pc'["main"] = l
      /\ pc'["mgmt"] = pc["mgmt"] /\ pc'["binder"] = pc["binder"]
  BY GotoPc DEF TypeOK, Thread
<1>2. ThreadsAtHome'
  BY <1>1 DEF WakeupInv, ThreadsAtHome
<1>3. UNCHANGED <<mWaitingForRelease, mPauseCallback, resumePosted>>
  BY DEF mgmtVars
<1>4. Posted' = Posted
  BY <1>1, <1>3 DEF Posted
<1>5. (mWaitingForRelease /\ shouldBeRunning)' => l \in Waking \/ Posted
  BY <1>3 DEF WakeupInv, shouldBeRunning
<1>6. mPauseCallback'
  BY <1>3 DEF WakeupInv
<1> QED BY <1>1, <1>2, <1>4, <1>5, <1>6 DEF WakeupInv

LEMMA NetworkWakes ==
  ASSUME TypeOK, WakeupInv, UNCHANGED mgmtVars, networkStateChange
  PROVE  WakeupInv'
<1>1. mPauseCallback' = mPauseCallback /\ mPauseCallback
  BY DEF mgmtVars, networkStateChange, WakeupInv
<1>2. pc["main"] \notin Waking \cup {"register"}
  BY DEF networkStateChange, Waking
<1>3. ASSUME NEW info \in Networks, SameNetworkReturns(info)
      PROVE  WakeupInv'
  BY <1>1, <1>2, <1>3, MainMoves DEF SameNetworkReturns, Label, Waking
<1>4. ASSUME NEW info \in Networks, NewNetwork(info)
      PROVE  WakeupInv'
  <2>1. PICK l \in {"netDiff", "resume", "idle"} :
          Goto("main", l) /\ (shouldBeConnected' => l # "idle")
    BY <1>4 DEF NewNetwork
  <2> QED BY <1>1, <1>2, <2>1, MainMoves DEF Label, Waking
<1>5. CASE NetworkLost
  <2>1. shouldBeConnected' => shouldBeConnected
    BY <1>5 DEF NetworkLost, networkStateChange, shouldBeConnected
  <2>2. Goto("main", "idle")
    BY <1>5 DEF NetworkLost
  <2> QED BY <1>1, <1>2, <2>1, <2>2, MainMoves DEF Label
<1> QED BY <1>3, <1>4, <1>5 DEF networkStateChange

LEMMA ScreenWakes ==
  ASSUME TypeOK, WakeupInv, ScreenInv, UNCHANGED mgmtVars,
         ScreenOff \/ ScreenOffDecide \/ ScreenOn \/ ScreenOnWrite \/ ScreenOnDecide
  PROVE  WakeupInv'
<1>1. UNCHANGED <<network, userpause>>
  BY DEF ScreenOff, ScreenOffDecide, ScreenOn, ScreenOnWrite, ScreenOnDecide,
         dsrVars
<1>2. CASE ScreenOff \/ ScreenOffDecide
  <2>1. shouldBeConnected' => shouldBeConnected
    BY <1>1, <1>2 DEF ScreenOff, ScreenOffDecide, shouldBeConnected
  <2>2. CASE UNCHANGED pc
    <3>1. UNCHANGED <<mWaitingForRelease, mPauseCallback, resumePosted>>
      BY DEF mgmtVars
    <3> QED BY <1>1, <2>1, <2>2, <3>1
            DEF WakeupInv, ThreadsAtHome, Posted, shouldBeRunning
  <2>3. CASE pc' # pc
    <3>1. pc["main"] \in {"idle", "screenOff"}
      BY <1>2 DEF ScreenOff, ScreenOffDecide, Idle, At
    <3>2. PICK l \in {"screenOff", "idle"} : Goto("main", l)
      BY <1>2, <2>3 DEF ScreenOff, ScreenOffDecide
    <3> QED BY <1>1, <2>1, <3>1, <3>2, MainMoves DEF Label, Waking
  <2> QED BY <2>2, <2>3
<1>3. CASE ScreenOn
  <2>1. PICK l \in {"screenWasUp", "screenWasDown"} : Goto("main", l)
    BY <1>3 DEF ScreenOn
  <2>2. pc["main"] = "idle" /\ shouldBeConnected' = shouldBeConnected
    BY <1>3 DEF ScreenOn, Idle, shouldBeConnected
  <2> QED BY <1>1, <2>1, <2>2, MainMoves DEF Label, Waking
<1>5. CASE ScreenOnWrite
  <2>1. CASE pc["main"] = "screenWasUp"
    <3>1. Goto("main", "screenOnUp") /\ screen' = screen
      BY <1>5, <2>1 DEF ScreenOnWrite, At, ScreenInv
    <3>2. shouldBeConnected' = shouldBeConnected
      BY <1>1, <3>1 DEF shouldBeConnected
    <3> QED BY <1>1, <2>1, <3>1, <3>2, MainMoves DEF Label, Waking
  <2>2. CASE pc["main"] = "screenWasDown"
    <3>1. Goto("main", "screenOnDown")
      BY <1>5, <2>2 DEF ScreenOnWrite, At
    <3> QED BY <1>1, <2>2, <3>1, MainMoves DEF Label, Waking
  <2> QED BY <1>5, <2>1, <2>2 DEF ScreenOnWrite
<1>4. CASE ScreenOnDecide
  <2>1. shouldBeConnected' = shouldBeConnected
    BY <1>4 DEF ScreenOnDecide, dsrVars, shouldBeConnected
  <2>2. CASE pc["main"] = "screenOnUp"
    <3>1. PICK l \in {"resume", "pause", "idle"} :
            Goto("main", l) /\ (l = "pause" => ~shouldBeConnected)
      BY <1>4 DEF ScreenOnDecide
    <3> QED BY <1>1, <2>1, <2>2, <3>1, MainMoves DEF Label, Waking
  <2>3. CASE pc["main"] = "screenOnDown"
    <3>1. PICK l \in {"resume", "pause"} :
            Goto("main", l) /\ (l = "resume" <=> shouldBeConnected)
      <4>1. At("main", "screenOnUp") = FALSE /\ shouldBeConnected \in BOOLEAN
        BY <2>3 DEF At, shouldBeConnected
      <4>2. CASE shouldBeConnected
        BY <1>4, <4>1, <4>2 DEF ScreenOnDecide
      <4>3. CASE ~shouldBeConnected
        BY <1>4, <4>1, <4>3 DEF ScreenOnDecide
      <4> QED BY <4>2, <4>3
    <3>2. /\ pc'["main"] = l
          /\ pc'["mgmt"] = pc["mgmt"] /\ pc'["binder"] = pc["binder"]
      BY <3>1, GotoPc DEF TypeOK, Thread
    <3>3. ThreadsAtHome'
      BY <3>2 DEF WakeupInv, ThreadsAtHome
    <3>4. mPauseCallback'
      BY <2>3 DEF WakeupInv, mgmtVars
    <3> QED BY <2>1, <3>1, <3>2, <3>3, <3>4 DEF WakeupInv, shouldBeRunning, Waking
  <2> QED BY <1>4, <2>2, <2>3 DEF ScreenOnDecide
<1> QED BY <1>2, <1>3, <1>4, <1>5

LEMMA UserWakes ==
  ASSUME Redundant = FALSE, TypeOK, WakeupInv, UNCHANGED mgmtVars,
         UserPause("main") \/ UserResume("main") \/ UserResumeDecide("main")
  PROVE  WakeupInv'
<1>1. mPauseCallback /\ UNCHANGED mPauseCallback
  BY DEF UserPause, UserResume, UserResumeDecide, Idle, WakeupInv, mgmtVars
<1>2. CASE UserPause("main")
  <2>1. Goto("main", "pause") /\ ~shouldBeConnected' /\ pc["main"] = "idle"
    BY <1>2 DEF UserPause, Idle, shouldBeConnected
  <2> QED BY <1>1, <2>1, MainMoves DEF Label, Waking
<1>3. CASE UserResume("main")
  <2>1. ~shouldBeConnected
    BY <1>3 DEF UserResume, shouldBeConnected
  <2>2. Goto("main", "userWasDown") /\ pc["main"] = "idle"
    BY <1>3, <2>1 DEF UserResume, Idle
  <2> QED BY <1>1, <2>2, MainMoves DEF Label, Waking
<1>4. CASE UserResumeDecide("main")
  <2>1. pc["main"] = "userWasDown"
    BY <1>4 DEF UserResumeDecide, WakeupInv, ThreadsAtHome
  <2>2. shouldBeConnected' = shouldBeConnected
    BY <1>4 DEF UserResumeDecide, dsrVars, shouldBeConnected
  <2>3. PICK l \in {"resume", "pause"} :
          Goto("main", l) /\ (l = "resume" <=> shouldBeConnected)
    BY <1>4, <2>1 DEF UserResumeDecide, At
  <2>4. /\ pc'["main"] = l
        /\ pc'["mgmt"] = pc["mgmt"] /\ pc'["binder"] = pc["binder"]
    BY <2>3, GotoPc DEF TypeOK, Thread
  <2>5. ThreadsAtHome'
    BY <2>4 DEF WakeupInv, ThreadsAtHome
  <2> QED BY <1>1, <2>2, <2>3, <2>4, <2>5 DEF WakeupInv, shouldBeRunning, Waking
<1> QED BY <1>2, <1>3, <1>4

LEMMA ByteCountWakes ==
  ASSUME TypeOK, WakeupInv, UNCHANGED mgmtVars, ByteCountLow \/ ByteCountPause
  PROVE  WakeupInv'
<1>1. PICK l \in {"byteCount", "pause"} : Goto("mgmt", l)
  BY DEF ByteCountLow, ByteCountPause
<1>2. /\ pc'["mgmt"] = l
      /\ pc'["main"] = pc["main"] /\ pc'["binder"] = pc["binder"]
  BY <1>1, GotoPc DEF TypeOK, Thread
<1>3. ThreadsAtHome'
  BY <1>2 DEF WakeupInv, ThreadsAtHome, Waking
<1>4. UNCHANGED <<mWaitingForRelease, mPauseCallback, resumePosted, network>>
  BY DEF ByteCountLow, ByteCountPause, dsrVars, mgmtVars
<1>5. CASE ByteCountLow
  <2>1. shouldBeConnected' = shouldBeConnected
    BY <1>5 DEF ByteCountLow, dsrVars, shouldBeConnected
  <2>2. pc["mgmt"] = "idle" /\ l = "byteCount"
    BY <1>5, <1>2, GotoPc DEF ByteCountLow, Idle, TypeOK, Thread
  <2>3. Posted => Posted'
    BY <1>2, <1>4, <2>2 DEF Posted
  <2> QED BY <1>2, <1>3, <1>4, <2>1, <2>3 DEF WakeupInv, shouldBeRunning
<1>6. CASE ByteCountPause
  <2>1. ~shouldBeConnected'
    BY <1>6 DEF ByteCountPause, shouldBeConnected
  <2> QED BY <1>2, <1>3, <1>4, <2>1 DEF WakeupInv, shouldBeRunning
<1> QED BY <1>5, <1>6

LEMMA DelayWakes ==
  ASSUME TypeOK, WakeupInv, UNCHANGED mgmtVars, DelayDisconnect
  PROVE  WakeupInv'
<1>1. mPauseCallback' = mPauseCallback /\ pc["main"] = "idle"
  BY DEF mgmtVars, DelayDisconnect, Idle
<1>2. CASE network = "PENDINGDISCONNECT"
  <2>1. Goto("main", "pause") /\ network' = "DISCONNECTED"
    BY <1>2 DEF DelayDisconnect
  <2>2. ~shouldBeConnected'
    BY <2>1 DEF shouldBeConnected
  <2> QED BY <1>1, <2>1, <2>2, MainMoves DEF Label, Waking
<1>3. CASE network # "PENDINGDISCONNECT"
  <2>1. UNCHANGED <<network, screen, userpause, pc>>
    BY <1>3 DEF DelayDisconnect
  <2>2. UNCHANGED <<mWaitingForRelease, resumePosted>>
    BY DEF mgmtVars
  <2> QED BY <1>1, <2>1, <2>2 DEF WakeupInv, ThreadsAtHome, Posted,
             shouldBeRunning, shouldBeConnected
<1> QED BY <1>2, <1>3

LEMMA ReceiverWakes ==
  ASSUME UserThreads \subseteq {"main"}, Redundant = FALSE,
         TypeOK, WakeupInv, ScreenInv, Receiver
  PROVE  WakeupInv'
<1>1. UNCHANGED mgmtVars
  BY DEF Receiver
<1> QED BY <1>1, NetworkWakes, ScreenWakes, UserWakes, ByteCountWakes, DelayWakes
        DEF Receiver

-------------------------------------------------------------------------------

LEMMA CallsWake ==
  ASSUME TypeOK, WakeupInv, NEW t \in Thread, Calls(t)
  PROVE  WakeupInv'
<1>1. UNCHANGED <<network, screen, userpause, mPauseCallback>>
  BY DEF Calls, dsrVars, Pause, SignalUsr1, Resume, ResetReason, NetworkChange, ReleaseHold,
         SendDecided, ClearWaiting, WriteRelease, mgmtVars
<1>2. shouldBeConnected' = shouldBeConnected /\ shouldBeRunning' = shouldBeRunning
  BY <1>1 DEF shouldBeConnected, shouldBeRunning
<1>3. pc \in [Thread -> Label]
  BY DEF TypeOK
<1>4. PICK l \in {"idle", "signalusr1", "sendUsr1", "releaseHold", "sendSame",
                  "sendDiff", "resetReason", "clear", "clearResume", "write", "writeResume"} :
        /\ Goto(t, l)
        /\ l \notin {"idle", "signalusr1", "sendUsr1"} =>
             pc[t] \in Waking \cup {"writeResume"}
  <2> USE DEF Waking
  <2>1. CASE Pause(t) \/ SignalUsr1(t) \/ ResetReason(t) \/ SendDecided(t)
    BY <2>1 DEF Pause, SignalUsr1, ResetReason, SendDecided
  <2>2. CASE Resume(t)
    BY <2>2 DEF Resume, At
  <2>3. CASE NetworkChange(t) \/ ReleaseHold(t)
    BY <2>3 DEF NetworkChange, ReleaseHold, At
  <2>4. CASE ClearWaiting(t)
    BY <2>4 DEF ClearWaiting
  <2>5. CASE WriteRelease(t)
    BY <2>5 DEF WriteRelease, AfterRelease, At
  <2> QED BY <2>1, <2>2, <2>3, <2>4, <2>5 DEF Calls
<1>5. pc'[t] = l /\ \A u \in Thread \ {t} : pc'[u] = pc[u]
  BY <1>3, <1>4, GotoPc
<1>6. t # "binder" /\ pc[t] \notin {"idle", "register"}
  BY DEF Calls, Pause, SignalUsr1, Resume, ResetReason, NetworkChange, ReleaseHold,
         SendDecided,
         ClearWaiting, WriteRelease, At, WakeupInv, ThreadsAtHome
<1>7. ThreadsAtHome'
  BY <1>4, <1>5, <1>6 DEF WakeupInv, ThreadsAtHome, Thread, Waking
<1>8. (pc["main"] = "pause")' => ~shouldBeConnected'
  BY <1>2, <1>4, <1>5 DEF WakeupInv, Thread
<1> DEFINE Due == mWaitingForRelease /\ shouldBeRunning
                    => pc["main"] \in Waking \/ Posted
<1>9. Due'
  <2> SUFFICES ASSUME mWaitingForRelease', shouldBeRunning' PROVE
               pc'["main"] \in Waking \/ Posted'
    OBVIOUS
  <2>1. CASE Pause(t)
    <3>1. mWaitingForRelease /\ pc[t] = "pause"
      BY <2>1 DEF Pause, At
    <3>2. t # "main"
      BY <1>2, <3>1 DEF WakeupInv, shouldBeRunning
    <3>3. t = "mgmt" /\ pc["main"] \in Waking
      BY <1>2, <1>6, <3>1, <3>2 DEF WakeupInv, Posted, Thread
    <3> QED BY <1>5, <3>3 DEF Thread
  <2>2. CASE SignalUsr1(t) \/ ResetReason(t) \/ SendDecided(t) \/ WriteRelease(t)
    <3>1. UNCHANGED <<mWaitingForRelease, resumePosted>>
      BY <2>2 DEF SignalUsr1, ResetReason, SendDecided, WriteRelease, mgmtVars
    <3>2. pc[t] \notin Waking \cup {"hold", "postResume", "pause"} /\ l # "pause"
      BY <1>4, <2>2 DEF SignalUsr1, ResetReason, SendDecided, WriteRelease, At,
         Waking
    <3>3. pc["main"] \in Waking => t # "main"
      BY <3>2
    <3>4. Posted => Posted'
      BY <1>5, <1>6, <3>1, <3>2 DEF Posted, Thread
    <3> QED BY <1>2, <1>5, <3>1, <3>3, <3>4 DEF WakeupInv, Thread
  <2>3. CASE Resume(t) \/ NetworkChange(t) \/ ReleaseHold(t)
    <3>1. mWaitingForRelease
      BY <2>3 DEF Resume, NetworkChange, ReleaseHold, mgmtVars
    <3>2. t = "main"
      BY <1>6, <2>3 DEF Resume, NetworkChange, ReleaseHold,
             At, WakeupInv, ThreadsAtHome,
         Waking, Thread
    <3>3. pc'["main"] \in {"releaseHold", "clear", "clearResume"}
      BY <1>3, <2>3, <3>1, <3>2, GotoPc DEF Resume, NetworkChange, ReleaseHold,
             Thread
    <3> QED BY <3>3 DEF Waking
  <2>4. CASE ClearWaiting(t)
    BY <2>4 DEF ClearWaiting
  <2> QED BY <2>1, <2>2, <2>3, <2>4 DEF Calls
<1>10. ~mPauseCallback' => network' = "DISCONNECTED" /\ pc'["main"] = "register"
  BY <1>1, <1>5, <1>6 DEF WakeupInv, Thread
<1> QED BY <1>7, <1>8, <1>9, <1>10 DEF WakeupInv

LEMMA MgmtWakes ==
  ASSUME TypeOK, WakeupInv, Listen \/ HandleHoldStep
  PROVE  WakeupInv'
<1>1. UNCHANGED <<network, screen, userpause, mPauseCallback>>
  BY DEF Listen, HandleHold, ProcessState, HandleHoldStep, HoldDecide, HoldPost,
         HoldShowPause, dsrVars, mgmtVars
<1>2. shouldBeConnected' = shouldBeConnected /\ shouldBeRunning' = shouldBeRunning
  BY <1>1 DEF shouldBeConnected, shouldBeRunning
<1>3. pc \in [Thread -> Label]
  BY DEF TypeOK
<1>4. PICK l \in {pc["mgmt"], "hold", "postResume", "showPause", "idle"} :
        /\ pc'["mgmt"] = l
        /\ pc'["main"] = pc["main"] /\ pc'["binder"] = pc["binder"]
  <2>1. UNCHANGED pc \/
        \E l \in {"hold", "postResume", "showPause", "idle"} : Goto("mgmt", l)
    <3>1. CASE Listen
      BY <3>1 DEF Listen, HandleHold, ProcessState
    <3>2. CASE HandleHoldStep
      BY <3>2 DEF HandleHoldStep, HoldDecide, HoldPost, HoldShowPause
    <3> QED BY <3>1, <3>2
  <2> QED BY <1>3, <2>1, GotoPc DEF Thread
<1>5. ThreadsAtHome'
  BY <1>4 DEF WakeupInv, ThreadsAtHome, Waking
<1>6. (pc["main"] = "pause")' => ~shouldBeConnected'
  BY <1>2, <1>4 DEF WakeupInv
<1> DEFINE Due == mWaitingForRelease /\ shouldBeRunning
                    => pc["main"] \in Waking \/ Posted
<1>7. Due'
  <2> USE DEF WakeupInv, Posted, Thread
  <2>1. CASE HandleHold
    BY <1>3, <2>1, GotoPc DEF HandleHold
  <2>2. CASE ProcessState
    BY <1>2, <2>2 DEF ProcessState
  <2>3. CASE HoldDecide
    <3>1. shouldBeRunning => pc'["mgmt"] = "postResume"
      BY <1>3, <2>3, GotoPc DEF HoldDecide
    <3> QED BY <1>2, <3>1
  <2>4. CASE HoldPost
    <3>1. pc'["mgmt"] = "idle"
      BY <1>3, <2>4, GotoPc DEF HoldPost
    <3>2. resumePosted' > 0
      BY <2>4 DEF HoldPost, TypeOK, MgmtTypeOK
    <3> QED BY <3>1, <3>2
  <2>5. CASE HoldShowPause
    <3>1. pc["mgmt"] = "showPause" /\ pc'["mgmt"] = "idle"
      BY <1>3, <2>5, GotoPc DEF HoldShowPause, At
    <3>2. UNCHANGED <<mWaitingForRelease, resumePosted>>
      BY <2>5 DEF HoldShowPause
    <3> QED BY <1>2, <1>4, <3>1, <3>2
  <2> QED BY <2>1, <2>2, <2>3, <2>4, <2>5 DEF Listen, HandleHoldStep
<1> QED BY <1>1, <1>4, <1>5, <1>6, <1>7 DEF WakeupInv

LEMMA LooperWakes ==
  ASSUME TypeOK, WakeupInv, RunResumeHold \/ Register
  PROVE  WakeupInv'
<1>1. UNCHANGED <<network, screen, userpause, mWaitingForRelease>>
  BY DEF RunResumeHold, ResumeHold, Register, RegisterReceiver, dsrVars
<1>2. shouldBeConnected' = shouldBeConnected
  BY <1>1 DEF shouldBeConnected
<1>3. CASE Register
  <2>1. Goto("main", "connectivity") /\ mPauseCallback'
    BY <1>3 DEF Register, RegisterReceiver
  <2>2. /\ pc'["main"] = "connectivity"
        /\ pc'["mgmt"] = pc["mgmt"] /\ pc'["binder"] = pc["binder"]
    BY <2>1, GotoPc DEF TypeOK, Thread
  <2>3. UNCHANGED resumePosted /\ pc["main"] = "register"
    BY <1>3 DEF Register, RegisterReceiver, At
  <2>4. shouldBeRunning' => mPauseCallback /\ shouldBeRunning
    BY <1>1, <1>2, <2>1 DEF shouldBeRunning, shouldBeConnected, WakeupInv
  <2>5. Posted' = Posted
    BY <2>2, <2>3 DEF Posted
  <2> QED BY <1>1, <2>1, <2>2, <2>3, <2>4, <2>5
          DEF WakeupInv, ThreadsAtHome, Waking
<1>4. CASE RunResumeHold
  <2>1. mPauseCallback' = mPauseCallback /\ pc["main"] = "idle"
    BY <1>4 DEF RunResumeHold, ResumeHold, Idle
  <2>2. CASE shouldBeRunning
    <3>1. Goto("main", "clear")
      BY <1>4, <2>2 DEF RunResumeHold, ResumeHold
    <3>2. /\ pc'["main"] = "clear"
          /\ pc'["mgmt"] = pc["mgmt"] /\ pc'["binder"] = pc["binder"]
      BY <3>1, GotoPc DEF TypeOK, Thread
    <3> QED BY <1>1, <2>1, <3>2 DEF WakeupInv, ThreadsAtHome, Waking
  <2>3. CASE ~shouldBeRunning
    <3>1. UNCHANGED pc /\ ~shouldBeRunning'
      BY <1>2, <1>4, <2>1, <2>3 DEF RunResumeHold, ResumeHold, shouldBeRunning
    <3> QED BY <1>1, <1>2, <2>1, <3>1 DEF WakeupInv, ThreadsAtHome
  <2> QED BY <2>2, <2>3
<1> QED BY <1>3, <1>4

LEMMA ScreenInvAlways ==
  ASSUME ScreenOffPause \subseteq {TRUE} \/ ScreenOffPause \subseteq {FALSE},
         UserThreads \subseteq {"main"}
  PROVE  Spec => []ScreenInv
<1>1. Init => ScreenInv
  BY DEF Init, DsrInit, ScreenInv, Thread
<1>2. TypeOK /\ ScreenInv /\ [Next]_vars => ScreenInv'
  <2> SUFFICES ASSUME TypeOK, ScreenInv, [Next]_vars PROVE ScreenInv'
    OBVIOUS
  <2>0. pc \in [Thread -> Label] /\ "main" \in Thread /\ "mgmt" \in Thread
    BY DEF TypeOK, Thread
  <2>1. ASSUME UNCHANGED <<screen, lit>>,
               NEW t \in Thread, NEW l, Goto(t, l),
               l \notin {"screenOff", "screenWasUp", "screenWasDown", "byteCount"}
        PROVE  ScreenInv'
    BY <2>0, <2>1, GotoPc DEF ScreenInv
  <2>2. CASE UNCHANGED <<pc, screen, lit>>
    BY <2>2 DEF ScreenInv
  <2>7. ASSUME lit' = lit, screen' = "DISCONNECTED", FALSE \notin ScreenOffPause,
               NEW l, Goto("main", l),
               l \notin {"screenOff", "screenWasUp", "screenWasDown", "byteCount"}
        PROVE  ScreenInv'
    BY <2>0, <2>7, GotoPc DEF ScreenInv
  <2>3. CASE Receiver
    <3>1. CASE networkStateChange
      <4>1. lit' = lit
        BY <3>1 DEF networkStateChange
      <4>2. PICK l \in {"netSame", "netDiff", "resume", "idle"} : Goto("main", l)
        <5>1. ASSUME NEW info \in Networks, NewNetwork(info)
              PROVE  \E l \in {"netDiff", "resume", "idle"} : Goto("main", l)
          BY <5>1 DEF NewNetwork
        <5> QED BY <3>1, <5>1 DEF networkStateChange, SameNetworkReturns, NetworkLost
      <4>3. CASE screen' = screen
        BY <2>0, <2>1, <4>1, <4>2, <4>3
      <4>4. CASE screen' # screen
        <5>1. screen = "PENDINGDISCONNECT" /\ screen' = "DISCONNECTED"
          <6>1. ASSUME NEW info \in Networks, NewNetwork(info)
                PROVE  ScreenGivesUp
            BY <6>1 DEF NewNetwork
          <6> QED BY <3>1, <4>4, <6>1
                  DEF networkStateChange, SameNetworkReturns, NetworkLost, ScreenGivesUp
        <5>2. FALSE \notin ScreenOffPause
          BY <5>1 DEF ScreenInv
        <5> QED BY <2>7, <4>1, <4>2, <5>1, <5>2
      <4> QED BY <4>3, <4>4
    <3>2. CASE DelayDisconnect
      <4>1. CASE network = "PENDINGDISCONNECT"
        <5>1. lit' = lit /\ Goto("main", "pause") /\ ScreenGivesUp
          BY <3>2, <4>1 DEF DelayDisconnect
        <5>2. CASE screen = "PENDINGDISCONNECT"
          <6>1. FALSE \notin ScreenOffPause /\ screen' = "DISCONNECTED"
            BY <5>1, <5>2 DEF ScreenInv, ScreenGivesUp
          <6> QED BY <2>7, <5>1, <6>1
        <5>3. CASE screen # "PENDINGDISCONNECT"
          BY <2>0, <2>1, <5>1, <5>3 DEF ScreenGivesUp
        <5> QED BY <5>2, <5>3
      <4>2. CASE network # "PENDINGDISCONNECT"
        BY <2>2, <3>2, <4>2 DEF DelayDisconnect
      <4> QED BY <4>1, <4>2
    <3>3. CASE ScreenOff
      <4>1. CASE screen' = "PENDINGDISCONNECT" /\ Goto("main", "screenOff")
                   /\ TRUE \in ScreenOffPause
        <5>1. FALSE \notin ScreenOffPause
          BY <4>1
        <5>2. pc'["main"] = "screenOff"
          BY <2>0, <4>1, GotoPc
        <5> QED BY <4>1, <5>1, <5>2 DEF ScreenInv
      <4>2. CASE UNCHANGED <<screen, pc>> /\ FALSE \in ScreenOffPause
        <5>1. pc["main"] = "idle"
          BY <3>3 DEF ScreenOff, Idle
        <5> QED BY <4>2, <5>1 DEF ScreenInv
      <4> QED BY <3>3, <4>1, <4>2 DEF ScreenOff
    <3>4. CASE ScreenOffDecide
      <4>1. FALSE \notin ScreenOffPause
        BY <3>4 DEF ScreenOffDecide, At, ScreenInv
      <4>2. Goto("main", "idle") /\ lit' = lit
        BY <3>4 DEF ScreenOffDecide
      <4>3. CASE screen' = screen
        BY <2>0, <2>1, <4>2, <4>3
      <4>4. CASE screen' = "DISCONNECTED"
        BY <2>7, <4>1, <4>2, <4>4
      <4> QED BY <3>4, <4>3, <4>4 DEF ScreenOffDecide
    <3>5. CASE ScreenOn
      <4>1. PICK l \in {"screenWasUp", "screenWasDown"} :
              /\ Goto("main", l)
              /\ l = "screenWasUp" => screen = "SHOULDBECONNECTED"
        BY <3>5 DEF ScreenOn, shouldBeConnected
      <4>2. lit' /\ ~lit /\ screen' = screen
        BY <3>5 DEF ScreenOn
      <4> QED BY <2>0, <4>1, <4>2, GotoPc DEF ScreenInv
    <3>6. CASE ScreenOnWrite
      <4>1. PICK l \in {"screenOnUp", "screenOnDown"} : Goto("main", l)
        BY <3>6 DEF ScreenOnWrite
      <4>2. lit /\ lit' = lit /\ screen' = "SHOULDBECONNECTED"
        BY <3>6 DEF ScreenOnWrite, ScreenInv
      <4> QED BY <2>0, <4>1, <4>2, GotoPc DEF ScreenInv
    <3>7. CASE ScreenOnDecide
      <4>1. PICK l \in {"resume", "pause", "idle"} : Goto("main", l)
        BY <3>7 DEF ScreenOnDecide
      <4>2. UNCHANGED <<screen, lit>>
        BY <3>7 DEF ScreenOnDecide, dsrVars
      <4> QED BY <2>0, <2>1, <4>1, <4>2
    <3>8. ASSUME NEW t \in UserThreads,
                 UserPause(t) \/ UserResume(t) \/ UserResumeDecide(t)
          PROVE  ScreenInv'
      <4>1. PICK l \in {"pause", "resume", "userWasUp", "userWasDown"} : Goto(t, l)
        BY <3>8 DEF UserPause, UserResume, UserResumeDecide
      <4>2. UNCHANGED <<screen, lit>>
        BY <3>8 DEF UserPause, UserResume, UserResumeDecide, dsrVars
      <4> QED BY <2>0, <2>1, <4>1, <4>2
    <3>9. CASE ByteCountLow
      <4>1. UNCHANGED <<screen, lit>> /\ Goto("mgmt", "byteCount")
            /\ screen = "PENDINGDISCONNECT"
        BY <3>9 DEF ByteCountLow, dsrVars
      <4> QED BY <2>0, <4>1, GotoPc DEF ScreenInv
    <3>10. CASE ByteCountPause
      <4>1. pc["mgmt"] = "byteCount" /\ Goto("mgmt", "pause") /\ lit' = lit
            /\ screen' = "DISCONNECTED"
        BY <3>10 DEF ByteCountPause, At
      <4> QED BY <2>0, <4>1, GotoPc DEF ScreenInv
    <3> QED BY <2>3, <3>1, <3>2, <3>3, <3>4, <3>5, <3>6, <3>7, <3>8, <3>9, <3>10
            DEF Receiver
  <2>4. ASSUME NEW t \in Thread, Calls(t) PROVE ScreenInv'
    <3>1. UNCHANGED <<screen, lit>>
      BY <2>4 DEF Calls, dsrVars
    <3>2. PICK l \in Label : /\ Goto(t, l)
                            /\ l \notin {"screenOff", "screenWasUp",
                                         "screenWasDown", "byteCount"}
      <4> USE DEF Label
      <4>1. CASE Pause(t) \/ SignalUsr1(t) \/ ResetReason(t) \/ SendDecided(t)
        BY <4>1 DEF Pause, SignalUsr1, ResetReason, SendDecided
      <4>2. CASE Resume(t) \/ NetworkChange(t) \/ ReleaseHold(t)
        BY <4>2 DEF Resume, NetworkChange, ReleaseHold
      <4>3. CASE ClearWaiting(t) \/ WriteRelease(t)
        BY <4>3 DEF ClearWaiting, WriteRelease, AfterRelease
      <4> QED BY <2>4, <4>1, <4>2, <4>3 DEF Calls
    <3> QED BY <2>1, <3>1, <3>2
  <2>5. CASE RunResumeHold \/ Listen \/ HandleHoldStep \/ Register \/ OpenVpn
    <3>1. UNCHANGED <<screen, lit>>
      BY <2>5 DEF RunResumeHold, Listen, HandleHoldStep, Register, OpenVpn, dsrVars
    <3>2. \/ UNCHANGED pc
          \/ \E t \in Thread :
               \E l \in {"clear", "hold", "postResume", "showPause", "idle",
                         "connectivity"} : Goto(t, l)
      <4>1. CASE RunResumeHold \/ Register
        BY <2>0, <4>1 DEF RunResumeHold, ResumeHold, Register, RegisterReceiver
      <4>2. CASE Listen \/ HandleHoldStep
        BY <2>0, <4>2 DEF Listen, HandleHold, ProcessState, HandleHoldStep,
           HoldDecide, HoldPost, HoldShowPause
      <4> QED BY <2>5, <4>1, <4>2 DEF OpenVpn
    <3> QED BY <2>1, <2>2, <3>1, <3>2
  <2>6. CASE UNCHANGED vars
    BY <2>2, <2>6 DEF vars, dsrVars
  <2> QED BY <2>3, <2>4, <2>5, <2>6 DEF Next
<1> QED BY <1>1, <1>2, TypeCorrect, PTL DEF Spec

(* A hold that should end has a release coming: the check-then-post of     *)
(* handleHold and the write-then-check of the looper never miss each other.*)
THEOREM WakeupsAreNotLost ==
  ASSUME UserThreads \subseteq {"main"}, Redundant = FALSE,
         ScreenOffPause \subseteq {TRUE} \/ ScreenOffPause \subseteq {FALSE}
  PROVE  Spec => []NoLostWakeup
<1>1. Init => WakeupInv
  BY DEF Init, DsrInit, MgmtInit, WakeupInv, ThreadsAtHome, Waking, Thread
<1>2. TypeOK /\ ScreenInv /\ WakeupInv /\ [Next]_vars => WakeupInv'
  <2> SUFFICES ASSUME TypeOK, ScreenInv, WakeupInv, [Next]_vars PROVE WakeupInv'
    OBVIOUS
  <2>1. CASE UNCHANGED vars \/ OpenVpn
    <3>1. UNCHANGED <<pc, network, screen, userpause, mWaitingForRelease,
                      mPauseCallback, resumePosted>>
      BY <2>1 DEF vars, OpenVpn, dsrVars, mgmtVars
    <3> QED BY <3>1 DEF WakeupInv, ThreadsAtHome, Posted, shouldBeRunning,
               shouldBeConnected
  <2> QED BY <2>1, ReceiverWakes, CallsWake, MgmtWakes, LooperWakes DEF Next
<1>3. WakeupInv => NoLostWakeup
  BY DEF WakeupInv, Posted, Waking, NoLostWakeup, WakeupDue, Releasing, Thread
<1> QED BY <1>1, <1>2, <1>3, TypeCorrect, ScreenInvAlways, PTL DEF Spec
===============================================================================
