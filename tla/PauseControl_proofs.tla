------------------------- MODULE PauseControl_proofs -------------------------
(***************************************************************************)
(* Theorems about PauseControl for every value of its constants.           *)
(***************************************************************************)
EXTENDS PauseControl, TLAPS



-------------------------------------------------------------------------------
(* Each component keeps the types of the variables it writes.              *)

LEMMA GotoTypes ==
  ASSUME pc \in [Thread -> Label], NEW t, NEW l \in Label, Goto(t, l)
  PROVE  pc' \in [Thread -> Label]
BY DEF Goto

LEMMA ReceiverTypes ==
  ASSUME TypeOK, Receiver
  PROVE  TypeOK'
<1>0. UNCHANGED <<mgmtVars, holdVars, crossed>>
  BY DEF Receiver
<1>1. (MgmtTypeOK /\ HoldTypeOK)'
  BY <1>0 DEF MgmtTypeOK, HoldTypeOK, mgmtVars, holdVars, TypeOK
<1> DEFINE Typed == pc \in [Thread -> Label] /\ DsrTypeOK
<1>2. Typed'
  <2> USE DEF TypeOK, DsrTypeOK, ConnectState
  <2>0. "main" \in Thread /\ "mgmt" \in Thread
    BY DEF Thread
  <2>1. CASE networkStateChange
    <3>1. ASSUME NEW info \in Networks, SameNetworkReturns(info)
          PROVE  Typed'
      <4>1. pc' \in [Thread -> Label]
        BY <3>1, GotoTypes DEF SameNetworkReturns, Label
      <4> QED BY <2>1, <3>1, <4>1, DsrAssumption
              DEF networkStateChange, SameNetworkReturns, removeCallbacks
    <3>2. ASSUME NEW info \in Networks, NewNetwork(info)
          PROVE  Typed'
      <4>1. pc' \in [Thread -> Label]
        <5>1. \E l \in Label : Goto("main", l)
          BY <3>2 DEF NewNetwork, Label
        <5> QED BY <5>1, GotoTypes
      <4>2. timers' \in 0..MaxTimers
        BY <3>2, DsrAssumption DEF NewNetwork, removeCallbacks, Goto
      <4>3. screen' \in ConnectState
        BY <3>2 DEF NewNetwork, ScreenGivesUp
      <4>4. network' \in ConnectState /\ lastConnectedNetwork' \in Networks
        BY <3>2 DEF NewNetwork
      <4> QED BY <2>1, <4>1, <4>2, <4>3, <4>4 DEF networkStateChange
    <3>3. CASE NetworkLost
      <4>1. pc' \in [Thread -> Label]
        BY <3>3, GotoTypes DEF NetworkLost, Label
      <4>2. network' \in ConnectState /\ timers' \in 0..MaxTimers
        BY <3>3, DsrAssumption DEF NetworkLost
      <4> QED BY <2>1, <3>3, <4>1, <4>2 DEF networkStateChange, NetworkLost
    <3> QED BY <2>1, <3>1, <3>2, <3>3 DEF networkStateChange
  <2>2. CASE ScreenOff \/ ScreenOffDecide
    <3>1. pc' \in [Thread -> Label]
      BY <2>2, GotoTypes DEF ScreenOff, ScreenOffDecide, Label
    <3>2. screen' \in ConnectState /\ lit' \in BOOLEAN
      BY <2>2 DEF ScreenOff, ScreenOffDecide
    <3> QED BY <2>2, <3>1, <3>2 DEF ScreenOff, ScreenOffDecide
  <2>3. CASE ScreenOn \/ ScreenOnWrite
    <3>1. \E l \in Label : Goto("main", l)
      BY <2>3 DEF ScreenOn, ScreenOnWrite, Label
    <3>2. pc' \in [Thread -> Label]
      BY <3>1, GotoTypes
    <3>3. timers' \in 0..MaxTimers
      BY <2>3, DsrAssumption DEF ScreenOn, ScreenOnWrite, removeCallbacks
    <3> QED BY <2>3, <3>2, <3>3 DEF ScreenOn, ScreenOnWrite
  <2>4. ASSUME NEW t \in UserThreads,
               UserPause(t) \/ UserResume(t) \/ UserResumeDecide(t)
        PROVE  Typed'
    <3>1. \E l \in Label : Goto(t, l)
      BY <2>4 DEF UserPause, UserResume, UserResumeDecide, Label
    <3>2. pc' \in [Thread -> Label]
      BY <3>1, GotoTypes
    <3> QED BY <2>4, <3>2 DEF UserPause, UserResume, UserResumeDecide, dsrVars
  <2>5. CASE ByteCountLow
    BY <2>5, GotoTypes DEF ByteCountLow, dsrVars, Label
  <2>6. CASE DelayDisconnect
    <3>1. pc' \in [Thread -> Label]
      BY <2>6, GotoTypes DEF DelayDisconnect, Label
    <3>2. timers' \in 0..MaxTimers
      BY <2>6, DsrAssumption DEF DelayDisconnect
    <3>3. screen' \in ConnectState /\ network' \in ConnectState
      BY <2>6 DEF DelayDisconnect, ScreenGivesUp
    <3> QED BY <2>6, <3>1, <3>2, <3>3 DEF DelayDisconnect
  <2>7. CASE ScreenOnDecide
    <3>1. \E l \in Label : Goto("main", l)
      BY <2>7 DEF ScreenOnDecide, Label
    <3> QED BY <2>7, <3>1, GotoTypes DEF ScreenOnDecide, dsrVars
  <2>8. CASE ByteCountPause
    BY <2>8, GotoTypes DEF ByteCountPause, Label
  <2> QED BY <2>1, <2>2, <2>3, <2>4, <2>5, <2>6, <2>7, <2>8 DEF Receiver
<1> QED BY <1>0, <1>1, <1>2 DEF TypeOK

LEMMA SendTypes ==
  ASSUME cmds \in Seq(Command), NEW cmd \in Command, Send(cmd)
  PROVE  cmds' \in Seq(Command)
BY DEF Send

LEMMA ReasonTypes == getPauseReason \in PauseReason
BY DEF getPauseReason, PauseReason

LEMMA CallsTypes ==
  ASSUME TypeOK, NEW t \in Thread, Calls(t)
  PROVE  TypeOK'
<1>0. UNCHANGED <<dsrVars, notes, held, holdRelease, usr1, crossed>>
  BY DEF Calls
<1>1. DsrTypeOK'
  BY <1>0 DEF DsrTypeOK, dsrVars, TypeOK
<1>2. pc' \in [Thread -> Label]
  <2>1. \E l \in Label : Goto(t, l)
    <3> USE DEF Label
    <3>1. CASE Pause(t) \/ SignalUsr1(t) \/ ResetReason(t)
      BY <3>1 DEF Pause, SignalUsr1, ResetReason
    <3>2. CASE Resume(t) \/ NetworkChange(t) \/ ReleaseHold(t)
      BY <3>2 DEF Resume, NetworkChange, ReleaseHold
    <3>3. CASE SendDecided(t) \/ ClearWaiting(t) \/ WriteRelease(t)
      BY <3>3 DEF SendDecided, ClearWaiting, WriteRelease, AfterRelease
    <3> QED BY <3>1, <3>2, <3>3 DEF Calls
  <2> QED BY <2>1, GotoTypes DEF TypeOK
<1>3. HoldTypeOK'
  <2>1. \/ UNCHANGED cmds
        \/ \E cmd \in Command : Send(cmd)
    BY DEF Calls, Pause, SignalUsr1, Resume, ResetReason, NetworkChange, ReleaseHold,
           SendDecided, ClearWaiting, WriteRelease, Command
  <2> QED BY <1>0, <2>1, SendTypes DEF TypeOK, HoldTypeOK
<1>4. MgmtTypeOK'
  <2> USE DEF TypeOK, MgmtTypeOK, PauseReason, Shown
  <2>1. CASE Pause(t)
    BY <2>1, ReasonTypes DEF Pause
  <2>2. CASE SignalUsr1(t)
    BY <2>2 DEF SignalUsr1
  <2>3. CASE Resume(t) \/ ReleaseHold(t)
    BY <2>3 DEF Resume, ReleaseHold
  <2>4. CASE ResetReason(t)
    BY <2>4 DEF ResetReason
  <2>5. CASE ClearWaiting(t)
    BY <2>5 DEF ClearWaiting
  <2>6. CASE SendDecided(t) \/ WriteRelease(t) \/ NetworkChange(t)
    BY <2>6 DEF SendDecided, WriteRelease, NetworkChange, mgmtVars
  <2> QED BY <2>1, <2>2, <2>3, <2>4, <2>5, <2>6 DEF Calls
<1> QED BY <1>0, <1>1, <1>2, <1>3, <1>4 DEF TypeOK

LEMMA LooperTypes ==
  ASSUME TypeOK, RunResumeHold \/ Register \/ HandleHoldStep
  PROVE  TypeOK'
<1>1. UNCHANGED <<dsrVars, holdVars, crossed>>
  BY DEF RunResumeHold, Register, HandleHoldStep, ResumeHold, HoldDecide,
         HoldPost, HoldShowPause, holdVars
<1>2. DsrTypeOK' /\ HoldTypeOK'
  BY <1>1 DEF TypeOK, DsrTypeOK, HoldTypeOK, dsrVars, holdVars
<1>3. pc' \in [Thread -> Label]
  <2>1. CASE RunResumeHold
    BY <2>1, GotoTypes DEF RunResumeHold, ResumeHold, TypeOK, Label
  <2>2. CASE Register
    BY <2>2, GotoTypes DEF Register, RegisterReceiver, TypeOK, Label
  <2>3. CASE HandleHoldStep
    <3>1. \E l \in Label : Goto("mgmt", l)
      BY <2>3 DEF HandleHoldStep, HoldDecide, HoldPost, HoldShowPause, Label
    <3> QED BY <3>1, GotoTypes DEF TypeOK
  <2> QED BY <2>1, <2>2, <2>3
<1>4. MgmtTypeOK'
  <2> USE DEF TypeOK, MgmtTypeOK, PauseReason, Shown
  <2>1. CASE RunResumeHold
    BY <2>1 DEF RunResumeHold, ResumeHold, Goto
  <2>2. CASE Register
    BY <2>2 DEF Register, RegisterReceiver
  <2>3. CASE HandleHoldStep
    BY <2>3 DEF HandleHoldStep, HoldDecide, HoldPost, HoldShowPause, mgmtVars
  <2> QED BY <2>1, <2>2, <2>3
<1> QED BY <1>1, <1>2, <1>3, <1>4 DEF TypeOK

LEMMA ListenTypes ==
  ASSUME TypeOK, Listen
  PROVE  TypeOK'
<1>1. UNCHANGED <<dsrVars, cmds, held, holdRelease, usr1>>
  BY DEF Listen
<1>2. notes' \in Seq(Notice)
  <2>1. notes # <<>> /\ notes' = Tail(notes)
    BY DEF Listen, HandleHold, ProcessState, Receive
  <2> QED BY <2>1 DEF TypeOK, HoldTypeOK
<1>3. pc' \in [Thread -> Label]
  BY GotoTypes DEF Listen, HandleHold, ProcessState, TypeOK, Label
<1>4. MgmtTypeOK'
  BY DEF Listen, HandleHold, ProcessState, TypeOK, MgmtTypeOK, Shown
<1>5. DsrTypeOK'
  BY <1>1 DEF TypeOK, DsrTypeOK, dsrVars
<1>6. crossed' \in BOOLEAN
  BY DEF Listen, TypeOK
<1> QED BY <1>1, <1>2, <1>3, <1>4, <1>5, <1>6 DEF TypeOK, HoldTypeOK

LEMMA AnnounceTypes ==
  ASSUME notes \in Seq(Notice), NEW lines \in Seq(Notice), Announce(lines)
  PROVE  notes' \in Seq(Notice)
BY DEF Announce

LEMMA OpenVpnTypes ==
  ASSUME TypeOK, OpenVpn
  PROVE  TypeOK'
<1>1. UNCHANGED <<pc, dsrVars, mgmtVars, crossed>>
  BY DEF OpenVpn
<1>2. (pc \in [Thread -> Label] /\ DsrTypeOK /\ MgmtTypeOK)'
  BY <1>1 DEF TypeOK, DsrTypeOK, MgmtTypeOK, dsrVars, mgmtVars
<1>3. <<"HOLD">> \in Seq(Notice) /\ <<"STATE">> \in Seq(Notice)
      /\ <<"STATE", "HOLD">> \in Seq(Notice)
  BY DEF Notice
<1>4. CASE ReadCommand
  <2>1. cmds' \in Seq(Command)
    BY <1>4 DEF ReadCommand, TypeOK, HoldTypeOK
  <2>2. notes' \in Seq(Notice)
    BY <1>3, <1>4, AnnounceTypes DEF ReadCommand, Process, man_hold, man_signal,
       man_network_change, TypeOK, HoldTypeOK
  <2>3. /\ usr1' \in BOOLEAN /\ holdRelease' \in BOOLEAN /\ held' \in BOOLEAN
        /\ held' => ~usr1'
    BY <1>4 DEF ReadCommand, Process, man_hold, man_signal, man_network_change,
       TypeOK, HoldTypeOK
  <2> QED BY <1>1, <1>2, <2>1, <2>2, <2>3 DEF TypeOK, HoldTypeOK
<1>5. CASE LeaveHold
  BY <1>1, <1>2, <1>3, <1>5, AnnounceTypes DEF LeaveHold, TypeOK, HoldTypeOK
<1>6. CASE Restart
  BY <1>1, <1>2, <1>3, <1>6, AnnounceTypes DEF Restart, TypeOK, HoldTypeOK
<1> QED BY <1>4, <1>5, <1>6 DEF OpenVpn

(* Every variable keeps its type, whatever the networks and the bounds.    *)
THEOREM TypeCorrect == Spec => []TypeOK
<1>1. Init => TypeOK
  <2> SUFFICES ASSUME Init PROVE TypeOK
    OBVIOUS
  <2>1. pc \in [Thread -> Label]
    BY DEF Init, Label
  <2>2. DsrTypeOK
    BY DsrAssumption DEF Init, DsrInit, DsrTypeOK, ConnectState
  <2>3. MgmtTypeOK
    <3>1. resumePosted \in Nat
      BY DEF Init, MgmtInit
    <3> QED BY <3>1 DEF Init, MgmtInit, MgmtTypeOK, PauseReason, Shown
  <2>4. HoldTypeOK
    <3>1. <<"HOLD">> \in Seq(Notice)
      BY DEF Notice
    <3>2. <<>> \in Seq(Command)
      OBVIOUS
    <3> QED BY <3>1, <3>2 DEF Init, HoldInit, HoldTypeOK
  <2> QED BY <2>1, <2>2, <2>3, <2>4 DEF TypeOK, Init
<1>2. TypeOK /\ [Next]_vars => TypeOK'
  <2> SUFFICES ASSUME TypeOK, [Next]_vars PROVE TypeOK'
    OBVIOUS
  <2>1. CASE UNCHANGED vars
    BY <2>1 DEF vars, TypeOK, DsrTypeOK, MgmtTypeOK, HoldTypeOK, dsrVars,
                mgmtVars, holdVars
  <2> QED BY <2>1, ReceiverTypes, CallsTypes, LooperTypes, ListenTypes,
             OpenVpnTypes DEF Next
<1> QED BY <1>1, <1>2, PTL DEF Spec
-------------------------------------------------------------------------------
(* The hold handshake.  One lemma says what a step can do to the facts     *)
(* NoLostHold and stage are made of; both theorems follow from it.         *)

LEMMA QueuedAppend ==
  ASSUME NEW S, NEW s \in Seq(S), NEW c \in S, NEW x
  PROVE  Queued(x, Append(s, c)) <=> Queued(x, s) \/ x = c
<1>1. ASSUME Queued(x, s) PROVE Queued(x, Append(s, c))
  BY <1>1 DEF Queued
<1>2. ASSUME x = c PROVE Queued(x, Append(s, c))
  <2>1. Append(s, c)[Len(s) + 1] = x /\ Len(s) + 1 \in 1..Len(Append(s, c))
    BY <1>2
  <2> QED BY <2>1 DEF Queued
<1>3. ASSUME Queued(x, Append(s, c)) PROVE Queued(x, s) \/ x = c
  BY <1>3 DEF Queued
<1> QED BY <1>1, <1>2, <1>3

LEMMA QueuedTail ==
  ASSUME NEW S, NEW s \in Seq(S), s # <<>>, NEW x
  PROVE  Queued(x, s) <=> x = Head(s) \/ Queued(x, Tail(s))
<1>1. ASSUME Queued(x, s), x # Head(s) PROVE Queued(x, Tail(s))
  <2>1. PICK i \in 1..Len(s) : s[i] = x
    BY <1>1 DEF Queued
  <2>2. i # 1
    BY <1>1, <2>1
  <2>3. i - 1 \in 1..Len(Tail(s)) /\ Tail(s)[i - 1] = x
    BY <2>1, <2>2
  <2> QED BY <2>3 DEF Queued
<1>2. ASSUME Queued(x, Tail(s)) PROVE Queued(x, s)
  <2>1. PICK i \in 1..Len(Tail(s)) : Tail(s)[i] = x
    BY <1>2 DEF Queued
  <2>2. i + 1 \in 1..Len(s) /\ s[i + 1] = x
    BY <2>1
  <2> QED BY <2>2 DEF Queued
<1>3. ASSUME x = Head(s) PROVE Queued(x, s)
  <2>1. 1 \in 1..Len(s) /\ s[1] = x
    BY <1>3
  <2> QED BY <2>1 DEF Queued
<1> QED BY <1>1, <1>2, <1>3

LEMMA QueuedConcat ==
  ASSUME NEW S, NEW s \in Seq(S), NEW r \in Seq(S), NEW x
  PROVE  Queued(x, s \o r) <=> Queued(x, s) \/ Queued(x, r)
<1>1. ASSUME Queued(x, s) PROVE Queued(x, s \o r)
  BY <1>1 DEF Queued
<1>2. ASSUME Queued(x, r) PROVE Queued(x, s \o r)
  <2>1. PICK i \in 1..Len(r) : r[i] = x
    BY <1>2 DEF Queued
  <2>2. Len(s) + i \in 1..Len(s \o r) /\ (s \o r)[Len(s) + i] = x
    BY <2>1
  <2> QED BY <2>2 DEF Queued
<1>3. ASSUME Queued(x, s \o r) PROVE Queued(x, s) \/ Queued(x, r)
  <2>1. PICK i \in 1..Len(s \o r) : (s \o r)[i] = x
    BY <1>3 DEF Queued
  <2>2. CASE i <= Len(s)
    BY <2>1, <2>2 DEF Queued
  <2>3. CASE i > Len(s)
    <3>1. i - Len(s) \in 1..Len(r) /\ r[i - Len(s)] = x
      BY <2>1, <2>3
    <3> QED BY <3>1 DEF Queued
  <2> QED BY <2>1, <2>2, <2>3
<1> QED BY <1>1, <1>2, <1>3

LEMMA SendQueues ==
  ASSUME cmds \in Seq(Command), NEW cmd \in Command, Send(cmd), NEW x
  PROVE  Queued(x, cmds)' <=> Queued(x, cmds) \/ x = cmd
<1>1. Queued(x, Append(cmds, cmd)) <=> Queued(x, cmds) \/ x = cmd
  BY QueuedAppend
<1> QED BY <1>1 DEF Send

LEMMA AnnounceQueues ==
  ASSUME notes \in Seq(Notice), NEW lines \in Seq(Notice), Announce(lines),
         NEW x
  PROVE  Queued(x, notes)' <=> Queued(x, notes) \/ Queued(x, lines)
<1>1. Queued(x, notes \o lines) <=> Queued(x, notes) \/ Queued(x, lines)
  BY QueuedConcat
<1> QED BY <1>1 DEF Announce

LEMMA ReleasingKept ==
  ASSUME pc \in [Thread -> Label], NEW t \in Thread, NEW l, Goto(t, l),
         ~Releasing(t)
  PROVE  \A u \in Thread : Releasing(u) => Releasing(u)'
BY DEF Goto, Releasing

LEMMA GotoReleasing ==
  ASSUME pc \in [Thread -> Label], NEW t \in Thread,
         NEW l \in {"clear", "clearResume", "write", "writeResume"}, Goto(t, l)
  PROVE  Releasing(t)'
BY DEF Goto, Releasing

(* What a step that neither enters nor leaves a hold preserves.            *)
HoldKept ==
  /\ held' = held
  /\ ReleaseUnderway => ReleaseUnderway'
  /\ mWaitingForRelease => mWaitingForRelease' \/ ReleaseUnderway'
  /\ Announced => Announced' \/ mWaitingForRelease'

LEMMA ReceiverHold ==
  ASSUME TypeOK, Receiver
  PROVE  HoldKept
<1>1. UNCHANGED <<mWaitingForRelease, cmds, notes, held, holdRelease>>
  BY DEF Receiver, mgmtVars, holdVars
<1>2. Announced' = Announced /\ held' = held
      /\ mWaitingForRelease' = mWaitingForRelease
  BY <1>1 DEF Announced
<1>3. UNCHANGED pc \/ \E t \in Thread, l \in Label : Goto(t, l) /\ ~Releasing(t)
  <2> USE DEF Thread, Label, Releasing, Idle, At
  <2>1. CASE networkStateChange
    BY <2>1 DEF networkStateChange, SameNetworkReturns, NewNetwork, NetworkLost
  <2>2. CASE ByteCountLow \/ DelayDisconnect \/ ByteCountPause
    BY <2>2 DEF ByteCountLow, DelayDisconnect, ByteCountPause
  <2>3. CASE ScreenOff \/ ScreenOffDecide
    BY <2>3 DEF ScreenOff, ScreenOffDecide
  <2>4. CASE ScreenOn \/ ScreenOnWrite
    BY <2>4 DEF ScreenOn, ScreenOnWrite
  <2>5. CASE ScreenOnDecide
    BY <2>5 DEF ScreenOnDecide
  <2>6. ASSUME NEW t \in UserThreads,
               UserPause(t) \/ UserResume(t) \/ UserResumeDecide(t)
        PROVE  \E l \in Label : Goto(t, l) /\ ~Releasing(t) /\ t \in Thread
    BY <2>6, DsrAssumption DEF UserPause, UserResume, UserResumeDecide
  <2> QED BY <2>1, <2>2, <2>3, <2>4, <2>5, <2>6 DEF Receiver
<1>4. \A u \in Thread : Releasing(u) => Releasing(u)'
  BY <1>3, ReleasingKept DEF TypeOK, Releasing
<1>5. ReleaseUnderway => ReleaseUnderway'
  BY <1>1, <1>4 DEF ReleaseUnderway
<1> QED BY <1>2, <1>5 DEF HoldKept

LEMMA CallsHold ==
  ASSUME TypeOK, NEW t \in Thread, Calls(t)
  PROVE  HoldKept
<1>1. UNCHANGED <<notes, held, holdRelease>>
  BY DEF Calls
<1>2. Announced' = Announced
  BY <1>1 DEF Announced
<1> USE DEF TypeOK, HoldTypeOK
<1>3. CASE ~ClearWaiting(t) /\ ~WriteRelease(t)
  <2> USE DEF Pause, SignalUsr1, Resume, ResetReason, NetworkChange, ReleaseHold,
         SendDecided
  <2>1. \A u \in Thread : Releasing(u) => Releasing(u)'
    <3>1. ~Releasing(t)
      BY <1>3 DEF Calls, Releasing, At
    <3>2. \E l : Goto(t, l)
      <4>1. CASE Pause(t) \/ SignalUsr1(t) \/ ResetReason(t) \/ SendDecided(t)
        BY <4>1
      <4>2. CASE Resume(t) \/ NetworkChange(t) \/ ReleaseHold(t)
        BY <4>2
      <4> QED BY <1>3, <4>1, <4>2 DEF Calls
    <3> QED BY <3>1, <3>2, ReleasingKept
  <2>2. UNCHANGED cmds \/ \E cmd \in Command : Send(cmd)
    BY <1>3 DEF Calls, Command
  <2>3. Queued("hold release", cmds) => Queued("hold release", cmds)'
    BY <2>2, SendQueues
  <2>4. UNCHANGED mWaitingForRelease
    BY <1>3 DEF Calls, mgmtVars
  <2> QED BY <1>1, <1>2, <2>1, <2>3, <2>4 DEF HoldKept, ReleaseUnderway
<1>4. CASE ClearWaiting(t)
  <2>1. Releasing(t)'
    BY <1>4, GotoReleasing DEF ClearWaiting
  <2> QED BY <1>1, <1>2, <2>1 DEF HoldKept, ReleaseUnderway
<1>5. CASE WriteRelease(t)
  <2>1. Queued("hold release", cmds)'
    BY <1>5, SendQueues DEF WriteRelease, Command
  <2> QED BY <1>1, <1>2, <2>1 DEF HoldKept, ReleaseUnderway
<1> QED BY <1>3, <1>4, <1>5

LEMMA LooperHold ==
  ASSUME TypeOK, RunResumeHold \/ Register \/ HandleHoldStep
  PROVE  HoldKept
<1>1. UNCHANGED <<mWaitingForRelease, cmds, notes, held, holdRelease>>
  BY DEF RunResumeHold, Register, HandleHoldStep, ResumeHold, RegisterReceiver,
         HoldDecide, HoldPost, HoldShowPause, mgmtVars, holdVars
<1>2. Announced' = Announced
  BY <1>1 DEF Announced
<1>3. UNCHANGED pc \/ \E t \in Thread : \E l : Goto(t, l) /\ ~Releasing(t)
  <2> USE DEF Thread, Releasing, Idle, At
  <2>1. CASE RunResumeHold
    BY <2>1 DEF RunResumeHold, ResumeHold
  <2>2. CASE Register
    BY <2>2 DEF Register, RegisterReceiver
  <2>3. CASE HandleHoldStep
    BY <2>3 DEF HandleHoldStep, HoldDecide, HoldPost, HoldShowPause
  <2> QED BY <2>1, <2>2, <2>3
<1>4. \A u \in Thread : Releasing(u) => Releasing(u)'
  BY <1>3, ReleasingKept DEF TypeOK, Releasing
<1> QED BY <1>1, <1>2, <1>4 DEF HoldKept, ReleaseUnderway

LEMMA ListenHold ==
  ASSUME TypeOK, Listen
  PROVE  HoldKept
<1>1. UNCHANGED <<cmds, held, holdRelease>>
  BY DEF Listen
<1>2. Idle("mgmt") /\ (UNCHANGED pc \/ Goto("mgmt", "hold"))
  BY DEF Listen, HandleHold, ProcessState, Receive
<1>3. \A u \in Thread : Releasing(u) => Releasing(u)'
  BY <1>2, ReleasingKept DEF TypeOK, Releasing, Idle, Thread
<1>4. mWaitingForRelease => mWaitingForRelease'
  BY DEF Listen, HandleHold, ProcessState
<1>5. Announced => Announced' \/ mWaitingForRelease'
  <2>1. CASE HandleHold
    BY <2>1 DEF HandleHold
  <2>2. CASE ProcessState
    <3>1. notes # <<>> /\ Head(notes) = "STATE" /\ notes' = Tail(notes)
      BY <2>2 DEF ProcessState, Receive
    <3>2. "HOLD" # Head(notes)
      BY <3>1
    <3> QED BY <3>1, <3>2, QueuedTail DEF Announced, TypeOK, HoldTypeOK
  <2> QED BY <2>1, <2>2 DEF Listen
<1> QED BY <1>1, <1>3, <1>4, <1>5 DEF HoldKept, ReleaseUnderway

LEMMA ReadHold ==
  ASSUME TypeOK, OpenVpn, ReadCommand
  PROVE  HoldKept
<1>1. UNCHANGED <<pc, mWaitingForRelease, held>>
  BY DEF OpenVpn, ReadCommand, mgmtVars
<1>2. cmds # <<>> /\ cmds' = Tail(cmds)
  BY DEF ReadCommand
<1>3. Queued("hold release", cmds) => Queued("hold release", cmds') \/ holdRelease'
  <2>1. Head(cmds) = "hold release" => holdRelease'
    BY DEF ReadCommand, Process, man_hold
  <2> QED BY <1>2, <2>1, QueuedTail DEF TypeOK, HoldTypeOK
<1>4. holdRelease => holdRelease'
  BY DEF ReadCommand, Process, man_hold, man_signal, man_network_change
<1>5. Announced => Announced'
  <2>1. UNCHANGED notes \/ Announce(<<"HOLD">>)
    BY DEF ReadCommand, Process, man_hold, man_signal, man_network_change
  <2>2. <<"HOLD">> \in Seq(Notice)
    BY DEF Notice
  <2> QED BY <2>1, <2>2, AnnounceQueues DEF Announced, TypeOK, HoldTypeOK
<1>6. (\E t \in Thread : Releasing(t)) => (\E t \in Thread : Releasing(t))'
  BY <1>1 DEF Releasing
<1> QED BY <1>1, <1>3, <1>4, <1>5, <1>6 DEF HoldKept, ReleaseUnderway

LEMMA HoldStep ==
  ASSUME TypeOK, [Next]_vars
  PROVE  \/ HoldKept
         \/ ~held /\ held' /\ Announced'
         \/ held /\ holdRelease /\ ~held'
<1>1. CASE UNCHANGED vars
  <2>1. UNCHANGED <<pc, mWaitingForRelease, cmds, notes, held, holdRelease>>
    BY <1>1 DEF vars, mgmtVars, holdVars
  <2> QED BY <2>1 DEF HoldKept, ReleaseUnderway, Announced, Releasing
<1>2. CASE OpenVpn
  <2>1. CASE LeaveHold
    BY <2>1 DEF LeaveHold
  <2>2. CASE Restart
    <3>1. <<"STATE", "HOLD">> \in Seq(Notice) /\ Queued("HOLD", <<"STATE", "HOLD">>)
      <4>1. 2 \in 1..Len(<<"STATE", "HOLD">>) /\ <<"STATE", "HOLD">>[2] = "HOLD"
        OBVIOUS
      <4> QED BY <4>1 DEF Notice, Queued
    <3>2. Announced'
      BY <2>2, <3>1, AnnounceQueues DEF Restart, Announced, TypeOK, HoldTypeOK
    <3> QED BY <2>2, <3>2 DEF Restart
  <2> QED BY <1>2, <2>1, <2>2, ReadHold DEF OpenVpn
<1> QED BY <1>1, <1>2, ReceiverHold, CallsHold, LooperHold, ListenHold DEF Next

(* No hold is lost: while openvpn holds, the client knows, is about to be  *)
(* told, or has a release on its way.                                      *)
THEOREM HoldsAreNotLost == Spec => []NoLostHold
<1>1. Init => NoLostHold
  BY DEF Init, HoldInit, NoLostHold, Announced, Queued
<1>2. TypeOK /\ NoLostHold /\ [Next]_vars => NoLostHold'
  BY HoldStep DEF HoldKept, NoLostHold, ReleaseUnderway
<1> QED BY <1>1, <1>2, TypeCorrect, PTL DEF Spec

(* PauseControl implements the safety part of HoldHandshake under the      *)
(* mapping stage.                                                          *)
THEOREM HandshakeImplemented == Spec => HandshakeSafety
<1>1. Init => Handshake!Init
  <2> SUFFICES ASSUME Init PROVE stage = "announced"
    BY DEF Handshake!Init
  <2>1. ~ReleaseUnderway
    BY DEF Init, HoldInit, ReleaseUnderway, Queued, Releasing
  <2> QED BY <2>1 DEF Init, HoldInit, MgmtInit, stage
<1>2. TypeOK /\ [Next]_vars => [Handshake!Next]_stage
  <2> SUFFICES ASSUME TypeOK, [Next]_vars PROVE [Handshake!Next]_stage
    OBVIOUS
  <2> USE DEF Handshake!Next, Handshake!Hibernate, Handshake!Learn,
              Handshake!Release, Handshake!Start, stage
  <2>1. CASE HoldKept
    BY <2>1 DEF HoldKept
  <2>2. CASE ~held /\ held'
    BY <2>2
  <2>3. CASE held /\ holdRelease /\ ~held'
    BY <2>3 DEF ReleaseUnderway
  <2> QED BY <2>1, <2>2, <2>3, HoldStep
<1> QED BY <1>1, <1>2, TypeCorrect, PTL DEF Spec, HandshakeSafety, Handshake!Safety

-------------------------------------------------------------------------------
(* A pause that the user asked for is shown.  What openvpn says of itself  *)
(* reaches VpnStatus in the order it was written, and in a hold the last   *)
(* thing it has written is the HOLD line: after a STATE there is one more  *)
(* HOLD to come, which shows the pause again.                              *)

LEMMA GotoPc ==
  ASSUME pc \in [Thread -> Label], NEW t \in Thread, NEW l, Goto(t, l)
  PROVE  /\ pc'[t] = l
         /\ \A u \in Thread \ {t} : pc'[u] = pc[u]
BY DEF Goto

LastNoticeIsHold ==
  held => notes = <<>> \/ notes[Len(notes)] = "HOLD"

(* Where a thread stands that is about to show a pause, or that leaves it  *)
(* to openvpn's answer to a SIGUSR1.                                       *)
Showing == {"hold", "showPause", "pause", "signalusr1", "sendUsr1"}

ShowUnderway ==
  \/ Announced
  \/ pc["mgmt"] \in {"hold", "showPause"}
  \/ \E t \in Thread : pc[t] \in {"pause", "signalusr1", "sendUsr1"}
  \/ Queued("signal SIGUSR1", cmds)

ShowArrives ==
  userpause = "DISCONNECTED" /\ held /\ shown = "STATE" => ShowUnderway

ShowInv == LastNoticeIsHold /\ ShowArrives

(* A thread that leaves none of the points of Showing disturbs nothing.    *)
LEMMA OthersShow ==
  ASSUME TypeOK, ShowInv,
         UNCHANGED <<userpause, cmds, notes, held>>,
         shown' = "STATE" => shown = "STATE",
         \/ UNCHANGED pc
         \/ \E t \in Thread : \E l : Goto(t, l) /\ pc[t] \notin Showing
  PROVE  ShowInv'
<1>1. Announced' = Announced
  BY DEF Announced
<1>2. ShowUnderway => ShowUnderway'
  <2>1. pc \in [Thread -> Label]
    BY DEF TypeOK
  <2>2. \A u \in Thread : pc[u] \in Showing => pc'[u] = pc[u]
    BY <2>1, GotoPc
  <2> QED BY <1>1, <2>2 DEF ShowUnderway, Showing, Thread
<1> QED BY <1>1, <1>2 DEF ShowInv, ShowArrives, LastNoticeIsHold

LEMMA ReceiverShows ==
  ASSUME TypeOK, ShowInv, Receiver
  PROVE  ShowInv'
<1>1. UNCHANGED <<cmds, notes, held, shown>>
  BY DEF Receiver, mgmtVars, holdVars
<1>2. UserThreads \subseteq Thread /\ "main" \in Thread /\ "mgmt" \in Thread
  BY DsrAssumption DEF Thread
<1>3. LastNoticeIsHold'
  BY <1>1 DEF ShowInv, LastNoticeIsHold
<1>4. CASE \E t \in UserThreads : UserPause(t)
  <2>1. \E t \in Thread : pc'[t] = "pause"
    BY <1>2, <1>4, GotoPc DEF UserPause, TypeOK
  <2> QED BY <1>3, <2>1 DEF ShowInv, ShowArrives, ShowUnderway
<1>5. CASE \E t \in UserThreads : UserResume(t)
  BY <1>3, <1>5 DEF UserResume, ShowInv, ShowArrives
<1>6. CASE ~\E t \in UserThreads : UserPause(t) \/ UserResume(t)
  <2> USE DEF Showing
  <2>1. UNCHANGED userpause
    BY <1>6 DEF Receiver, networkStateChange, ScreenOff, ScreenOffDecide, ScreenOn,
       ScreenOnWrite, ByteCountLow, DelayDisconnect, ScreenOnDecide,
       UserResumeDecide, ByteCountPause, dsrVars
  <2>2. UNCHANGED pc \/ \E t \in Thread : \E l : Goto(t, l) /\ pc[t] \notin Showing
    <3>1. CASE networkStateChange
      BY <1>2, <3>1 DEF networkStateChange, SameNetworkReturns, NewNetwork, NetworkLost
    <3>2. CASE ScreenOff \/ ScreenOn \/ DelayDisconnect
      BY <1>2, <3>2 DEF ScreenOff, ScreenOn, DelayDisconnect, Idle
    <3>3. CASE ScreenOnDecide \/ ScreenOffDecide \/ ScreenOnWrite
      BY <1>2, <3>3 DEF ScreenOnDecide, ScreenOffDecide, ScreenOnWrite, At
    <3>4. CASE ByteCountLow \/ ByteCountPause
      BY <1>2, <3>4 DEF ByteCountLow, ByteCountPause, Idle, At
    <3>5. CASE \E t \in UserThreads : UserResumeDecide(t)
      BY <1>2, <3>5 DEF UserResumeDecide
    <3> QED BY <1>6, <3>1, <3>2, <3>3, <3>4, <3>5 DEF Receiver
  <2> QED BY <1>1, <2>1, <2>2, OthersShow
<1> QED BY <1>4, <1>5, <1>6

LEMMA CallsShow ==
  ASSUME TypeOK, ShowInv, NEW t \in Thread, Calls(t)
  PROVE  ShowInv'
<1>1. UNCHANGED <<userpause, notes, held>>
  BY DEF Calls, dsrVars
<1>2. LastNoticeIsHold'
  BY <1>1 DEF ShowInv, LastNoticeIsHold
<1>3. cmds \in Seq(Command) /\ pc \in [Thread -> Label]
  BY DEF TypeOK, HoldTypeOK
<1>4. CASE Pause(t)
  <2>1. pc'[t] = "signalusr1"
    BY <1>3, <1>4, GotoPc DEF Pause
  <2> QED BY <1>2, <2>1 DEF ShowInv, ShowArrives, ShowUnderway
<1>5. CASE SignalUsr1(t)
  <2>1. CASE mWaitingForRelease
    <3>1. shown' # "STATE"
      BY <1>5, <2>1 DEF SignalUsr1, TypeOK, MgmtTypeOK, PauseReason
    <3> QED BY <1>2, <3>1 DEF ShowInv, ShowArrives
  <2>2. CASE ~mWaitingForRelease
    <3>1. pc'[t] = "sendUsr1"
      BY <1>3, <1>5, <2>2, GotoPc DEF SignalUsr1
    <3> QED BY <1>2, <3>1 DEF ShowInv, ShowArrives, ShowUnderway
  <2> QED BY <2>1, <2>2
<1>6. CASE SendDecided(t) /\ At(t, "sendUsr1")
  <2>1. Queued("signal SIGUSR1", cmds)'
    BY <1>3, <1>6, SendQueues DEF SendDecided, Command, At
  <2> QED BY <1>2, <2>1 DEF ShowInv, ShowArrives, ShowUnderway
<1>7. CASE ~Pause(t) /\ ~SignalUsr1(t) /\ ~(SendDecided(t) /\ At(t, "sendUsr1"))
  <2>1. UNCHANGED shown
    BY <1>7 DEF Calls, Resume, ResetReason, NetworkChange, ReleaseHold,
           SendDecided, ClearWaiting,
       WriteRelease, mgmtVars
  <2>2. pc[t] \notin Showing /\ \E l : Goto(t, l)
    BY <1>7 DEF Calls, Resume, ResetReason, NetworkChange, ReleaseHold,
           SendDecided, ClearWaiting,
       WriteRelease, At, Showing
  <2>3. Queued("signal SIGUSR1", cmds) => Queued("signal SIGUSR1", cmds)'
    <3>1. UNCHANGED cmds \/ \E cmd \in Command : Send(cmd)
      BY <1>7 DEF Calls, Resume, ResetReason, NetworkChange, ReleaseHold,
             SendDecided,
         ClearWaiting, WriteRelease, Command
    <3> QED BY <1>3, <3>1, SendQueues
  <2>4. \A u \in Thread : pc[u] \in Showing => pc'[u] = pc[u]
    BY <1>3, <2>2, GotoPc
  <2>5. Announced' = Announced
    BY <1>1 DEF Announced
  <2>6. ShowUnderway => ShowUnderway'
    BY <2>3, <2>4, <2>5 DEF ShowUnderway, Showing, Thread
  <2> QED BY <1>1, <1>2, <2>1, <2>6 DEF ShowInv, ShowArrives
<1> QED BY <1>4, <1>5, <1>6, <1>7

LEMMA ListenShows ==
  ASSUME TypeOK, ShowInv, Listen
  PROVE  ShowInv'
<1>1. UNCHANGED <<userpause, cmds, held>>
  BY DEF Listen, dsrVars
<1>2. /\ notes \in Seq(Notice) /\ notes # <<>> /\ notes' = Tail(notes)
      /\ pc \in [Thread -> Label] /\ "mgmt" \in Thread
  BY DEF Listen, HandleHold, ProcessState, Receive, TypeOK, HoldTypeOK, Thread
<1>3. ASSUME notes' # <<>>
      PROVE  /\ notes'[Len(notes')] = notes[Len(notes)]
             /\ Len(notes') \in 1..Len(notes')
  BY <1>2, <1>3
<1>4. LastNoticeIsHold'
  BY <1>1, <1>2, <1>3 DEF ShowInv, LastNoticeIsHold
<1>5. CASE HandleHold
  <2>1. pc'["mgmt"] = "hold"
    BY <1>2, <1>5, GotoPc DEF HandleHold
  <2> QED BY <1>4, <2>1 DEF ShowInv, ShowArrives, ShowUnderway
<1>6. CASE ProcessState
  <2>1. held => Announced'
    <3> SUFFICES ASSUME held PROVE Announced'
      OBVIOUS
    <3>1. notes[Len(notes)] = "HOLD" /\ notes[1] = "STATE"
      BY <1>2, <1>6 DEF ShowInv, LastNoticeIsHold, ProcessState, Receive
    <3>2. Len(notes) # 1 /\ Len(notes') = Len(notes) - 1 /\ Len(notes) \in Nat
      BY <1>2, <3>1
    <3>3. Len(notes) # 0
      BY <1>2
    <3>4. Len(notes') # 0
      BY <3>2, <3>3
    <3>5. notes' # <<>>
      BY <3>4
    <3> QED BY <1>3, <3>1, <3>5 DEF Announced, Queued
  <2> QED BY <1>1, <1>4, <2>1 DEF ShowInv, ShowArrives, ShowUnderway
<1> QED BY <1>5, <1>6 DEF Listen

LEMMA LooperShows ==
  ASSUME TypeOK, ShowInv, RunResumeHold \/ HandleHoldStep \/ Register
  PROVE  ShowInv'
<1>1. UNCHANGED <<userpause, cmds, notes, held>>
  BY DEF RunResumeHold, Register, HandleHoldStep, ResumeHold, RegisterReceiver,
         HoldDecide, HoldPost, HoldShowPause, mgmtVars, holdVars, dsrVars
<1>2. LastNoticeIsHold'
  BY <1>1 DEF ShowInv, LastNoticeIsHold
<1>3. pc \in [Thread -> Label] /\ "mgmt" \in Thread /\ "main" \in Thread
  BY DEF TypeOK, Thread
<1>4. CASE HandleHoldStep /\ HoldDecide
  <2>1. CASE shouldBeRunning
    BY <1>1, <1>2, <2>1 DEF shouldBeRunning, shouldBeConnected, ShowInv, ShowArrives
  <2>2. CASE ~shouldBeRunning
    <3>1. pc'["mgmt"] = "showPause"
      BY <1>3, <1>4, <2>2, GotoPc DEF HoldDecide
    <3> QED BY <1>2, <3>1 DEF ShowInv, ShowArrives, ShowUnderway
  <2> QED BY <2>1, <2>2
<1>5. CASE HandleHoldStep /\ HoldPost
  <2>1. shown' = "STATE" => shown = "STATE"
    BY <1>5 DEF HoldPost
  <2>2. Goto("mgmt", "idle") /\ pc["mgmt"] \notin Showing
    BY <1>5 DEF HoldPost, At, Showing
  <2> QED BY <1>1, <1>3, <2>1, <2>2, OthersShow
<1>6. CASE HandleHoldStep /\ HoldShowPause
  <2>1. shown' # "STATE"
    BY <1>6 DEF HoldShowPause, TypeOK, MgmtTypeOK, PauseReason
  <2> QED BY <1>2, <2>1 DEF ShowInv, ShowArrives
<1>7. CASE RunResumeHold \/ Register
  <2>1. UNCHANGED shown
    BY <1>7 DEF RunResumeHold, ResumeHold, Register, RegisterReceiver
  <2>2. UNCHANGED pc \/ \E l : Goto("main", l) /\ pc["main"] \notin Showing
    BY <1>7 DEF RunResumeHold, ResumeHold, Register, RegisterReceiver, Idle, At, Showing
  <2> QED BY <1>1, <1>3, <2>1, <2>2, OthersShow
<1> QED BY <1>4, <1>5, <1>6, <1>7 DEF HandleHoldStep

LEMMA OpenVpnShows ==
  ASSUME TypeOK, ShowInv, OpenVpn
  PROVE  ShowInv'
<1>1. UNCHANGED <<pc, userpause, shown>>
  BY DEF OpenVpn, dsrVars, mgmtVars
<1>2. cmds \in Seq(Command) /\ notes \in Seq(Notice)
  BY DEF TypeOK, HoldTypeOK
<1>3. ASSUME NEW q, q \in {<<"HOLD">>, <<"STATE", "HOLD">>}, Announce(q)
      PROVE  notes' # <<>> /\ notes'[Len(notes')] = "HOLD" /\ Announced'
  <2>1. q \in Seq(Notice) /\ Len(q) \in 1..Len(q) /\ q[Len(q)] = "HOLD"
    <3>1. CASE q = <<"HOLD">>
      BY <3>1 DEF Notice
    <3>2. CASE q = <<"STATE", "HOLD">>
      BY <3>2 DEF Notice
    <3> QED BY <1>3, <3>1, <3>2
  <2>2. /\ Len(notes') = Len(notes) + Len(q) /\ Len(notes) \in Nat
        /\ notes'[Len(notes) + Len(q)] = q[Len(q)]
    BY <1>2, <1>3, <2>1 DEF Announce
  <2>3. Len(notes') \in 1..Len(notes') /\ notes'[Len(notes')] = "HOLD"
    BY <2>1, <2>2
  <2> QED BY <2>3 DEF Announced, Queued
<1>4. CASE ReadCommand
  <2>1. CASE Announce(<<"HOLD">>)
    BY <1>3, <2>1 DEF ShowInv, ShowArrives, ShowUnderway, LastNoticeIsHold
  <2>2. CASE ~Announce(<<"HOLD">>)
    <3>1. UNCHANGED notes /\ held' = held /\ (held => Head(cmds) # "signal SIGUSR1")
      BY <1>4, <2>2 DEF ReadCommand, Process, man_hold, man_signal, man_network_change
    <3>2. held => (Queued("signal SIGUSR1", cmds) => Queued("signal SIGUSR1", cmds)')
      BY <1>2, <1>4, <3>1, QueuedTail DEF ReadCommand
    <3> QED BY <1>1, <3>1, <3>2 DEF ShowInv, ShowArrives, ShowUnderway,
               LastNoticeIsHold, Announced
  <2> QED BY <2>1, <2>2
<1>5. CASE LeaveHold
  BY <1>5 DEF LeaveHold, ShowInv, ShowArrives, LastNoticeIsHold
<1>6. CASE Restart
  <2>1. Announce(<<"STATE", "HOLD">>)
    BY <1>6 DEF Restart
  <2> QED BY <1>3, <2>1 DEF ShowInv, ShowArrives, ShowUnderway, LastNoticeIsHold
<1> QED BY <1>4, <1>5, <1>6 DEF OpenVpn

(* A pause the user asked for and openvpn follows is never left covered by *)
(* what openvpn said before it.                                            *)
THEOREM PauseIsAlwaysShown == Spec => []PauseIsShown
<1>1. Init => ShowInv
  BY DEF Init, DsrInit, HoldInit, ShowInv, ShowArrives, LastNoticeIsHold
<1>2. TypeOK /\ ShowInv /\ [Next]_vars => ShowInv'
  <2> SUFFICES ASSUME TypeOK, ShowInv, [Next]_vars PROVE ShowInv'
    OBVIOUS
  <2>1. CASE UNCHANGED vars
    BY <2>1, OthersShow DEF vars, dsrVars, mgmtVars, holdVars
  <2> QED BY <2>1, ReceiverShows, CallsShow, ListenShows, LooperShows,
             OpenVpnShows DEF Next
<1>3. ShowInv => PauseIsShown
  BY DEF ShowInv, ShowArrives, ShowUnderway, PauseIsShown, Quiet, Idle, Announced,
     Queued, Thread
<1> QED BY <1>1, <1>2, <1>3, TypeCorrect, PTL DEF Spec
================================================================================
