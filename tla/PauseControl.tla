----------------------------- MODULE PauseControl -----------------------------
(***************************************************************************)
(* Pausing and resuming a VPN session: DeviceStateReceiver on the main     *)
(* looper, OpenVpnManagementThread on the management thread, an API        *)
(* client's binder thread, and the openvpn process at the other end of the *)
(* management socket.  The session starts when openvpn has connected to    *)
(* the socket; stopping it is not part of this module.                     *)
(***************************************************************************)
EXTENDS OpenVpnManagementThread

CONSTANTS
  MaxLines,   \* bound: with so many unread lines nothing new happens
  MaxResume   \* bound: nor with so many posted mResumeHoldRunnables

ASSUME PauseAssumption == MaxLines \in Nat /\ MaxResume \in Nat

(* History: the HOLD line the client has read last was of a hold that was  *)
(* over, or about to be released, when it was read.                        *)
VARIABLE crossed

vars == <<pc, dsrVars, mgmtVars, holdVars, crossed>>

Init ==
  /\ pc = [t \in Thread |-> IF t = "main" THEN "register" ELSE "idle"]
  /\ DsrInit
  /\ MgmtInit
  /\ HoldInit
  /\ crossed = FALSE

(* The bounds are guards on what starts something: events and losses of    *)
(* the connection.  What has started is never held up by them.             *)
Room == Len(cmds) + Len(notes) < MaxLines /\ resumePosted < MaxResume

(* Something on its way will end the hold openvpn is in.                   *)
ReleaseUnderway ==
  \/ holdRelease
  \/ Queued("hold release", cmds)
  \/ \E t \in Thread : Releasing(t)

(* The receiver's handlers.  What starts one is bounded by Room, except    *)
(* the fetch of the network state at registration.                         *)
Receiver ==
  /\ \/ networkStateChange /\ (Room \/ At("main", "connectivity"))
     \/ /\ mPauseCallback /\ Room
        /\ \/ ScreenOff
           \/ ScreenOn
           \/ \E t \in UserThreads : UserPause(t) \/ UserResume(t)
           \/ ByteCountLow
     \/ DelayDisconnect
     \/ ScreenOffDecide
     \/ ScreenOnWrite
     \/ ScreenOnDecide
     \/ \E t \in UserThreads : UserResumeDecide(t)
     \/ ByteCountPause
  /\ UNCHANGED <<mgmtVars, holdVars, crossed>>

Calls(t) ==
  /\ \/ Pause(t)
     \/ SignalUsr1(t)
     \/ Resume(t)
     \/ ResetReason(t)
     \/ NetworkChange(t)
     \/ ReleaseHold(t)
     \/ SendDecided(t)
     \/ ClearWaiting(t)
     \/ WriteRelease(t)
  /\ UNCHANGED <<dsrVars, notes, held, holdRelease, usr1, crossed>>

RunResumeHold ==
  ResumeHold /\ UNCHANGED <<dsrVars, notes, held, holdRelease, usr1, crossed>>

Listen ==
  /\ \/ HandleHold /\ crossed' = (~held \/ ReleaseUnderway)
     \/ ProcessState /\ UNCHANGED crossed
  /\ UNCHANGED <<dsrVars, cmds, held, holdRelease, usr1>>

HandleHoldStep ==
  /\ HoldDecide \/ HoldPost \/ HoldShowPause
  /\ UNCHANGED <<dsrVars, cmds, held, holdRelease, usr1, crossed>>

Register == RegisterReceiver /\ UNCHANGED <<dsrVars, holdVars, crossed>>

OpenVpn ==
  /\ ReadCommand \/ LeaveHold \/ (Restart /\ (usr1 \/ Room))
  /\ UNCHANGED <<pc, dsrVars, mgmtVars, crossed>>

Next ==
  \/ Receiver
  \/ \E t \in Thread : Calls(t)
  \/ RunResumeHold
  \/ Listen
  \/ HandleHoldStep
  \/ Register
  \/ OpenVpn

(* What a thread in the middle of a method does next.                      *)
Continue(t) ==
  \/ Calls(t)
  \/ UserResumeDecide(t) /\ UNCHANGED <<mgmtVars, holdVars, crossed>>
  \/ /\ t = "main"
     /\ \/ Register
        \/ /\ \/ networkStateChange /\ At("main", "connectivity")
              \/ ScreenOffDecide \/ ScreenOnWrite \/ ScreenOnDecide
           /\ UNCHANGED <<mgmtVars, holdVars, crossed>>
  \/ /\ t = "mgmt"
     /\ \/ HandleHoldStep
        \/ ByteCountPause /\ UNCHANGED <<mgmtVars, holdVars, crossed>>

(* A thread in the middle of a method goes on; the looper's queue and the  *)
(* socket are FIFO, so a posted callback and a received line have their    *)
(* turn; openvpn reads its socket, leaves a released hold, and ends the    *)
(* tunnel on a thrown signal.                                              *)
Fairness ==
  /\ \A t \in Thread : WF_vars(Continue(t))
  /\ SF_vars(Listen)
  /\ SF_vars(RunResumeHold)
  /\ SF_vars(DelayDisconnect /\ UNCHANGED <<mgmtVars, holdVars, crossed>>)
  /\ WF_vars(ReadCommand /\ UNCHANGED <<pc, dsrVars, mgmtVars, crossed>>)
  /\ WF_vars(LeaveHold /\ UNCHANGED <<pc, dsrVars, mgmtVars, crossed>>)
  /\ WF_vars(RestartOnSignal /\ UNCHANGED <<pc, dsrVars, mgmtVars, crossed>>)

Spec == Init /\ [][Next]_vars

FairSpec == Spec /\ Fairness

-------------------------------------------------------------------------------
(* The types; and no signal waits for the end of a hold: openvpn ignores   *)
(* SIGUSR1 in management_hold.                                             *)
TypeOK ==
  /\ pc \in [Thread -> Label]
  /\ DsrTypeOK
  /\ MgmtTypeOK
  /\ HoldTypeOK
  /\ crossed \in BOOLEAN

Announced == Queued("HOLD", notes)

(* A hold is never lost between the two sides: while openvpn holds, either *)
(* the client knows (mWaitingForRelease), or it is about to be told, or a  *)
(* release is on its way.  handleHold, releaseHoldCmd, management_hold.    *)
NoLostHold ==
  held => mWaitingForRelease \/ Announced \/ ReleaseUnderway

(* Where the two sides stand, as HoldHandshake sees it.                    *)
stage ==
  IF ~held THEN "up"
  ELSE IF ReleaseUnderway THEN "releasing"
  ELSE IF mWaitingForRelease THEN "waiting"
  ELSE "announced"

Handshake == INSTANCE HoldHandshake WITH stage <- stage

(* The client and openvpn follow the documented hold handshake: once the   *)
(* client knows of a hold it forgets it only by releasing it, and openvpn  *)
(* comes up only by a release.                                             *)
HandshakeSafety == Handshake!Safety

(* They also make progress: announcements and releases arrive.             *)
HandshakeLive == Handshake!Spec

(* No wakeup is lost between handleHold, which reads shouldBeRunning() and *)
(* posts, and the looper, which changes the answer and then looks at       *)
(* mWaitingForRelease: a hold that should end has a release coming.        *)
WakeupDue ==
  \/ resumePosted > 0
  \/ pc["mgmt"] \in {"hold", "postResume"}
  \/ \E t \in Thread :
       \/ pc[t] \in {"resume", "netSame", "netDiff", "releaseHold", "screenOnDown",
                     "userWasDown"}
       \/ Releasing(t)

NoLostWakeup == mWaitingForRelease /\ shouldBeRunning => WakeupDue

(* While the user has paused the VPN, no "hold release" is written         *)
(* (userPause, shouldBeConnected and every path to releaseHoldCmd).        *)
UserPauseIsKept ==
  [][cmds' = Append(cmds, "hold release") => userpause = "SHOULDBECONNECTED"]_vars

(* Nothing is on its way in either direction and no thread is in a method. *)
Quiet ==
  /\ mPauseCallback
  /\ \A t \in Thread : Idle(t)
  /\ cmds = <<>> /\ notes = <<>>
  /\ ~usr1
  /\ ~(held /\ holdRelease)

(* A pause of the user's takes effect: signalusr1 brings openvpn into a    *)
(* hold, or finds it in one that nothing will end; unless a HOLD line told *)
(* the client of a hold that was over or had its release on the way.       *)
PauseIsHeld ==
  Quiet /\ userpause = "DISCONNECTED" /\ ~crossed => held

(* A pause the user asked for and openvpn follows is shown as one, or as   *)
(* the wait between two attempts; never as what openvpn said before        *)
(* (updateStatePause in signalusr1 and handleHold against processState).   *)
PauseIsShown ==
  Quiet /\ held /\ userpause = "DISCONNECTED" => shown # "STATE"

(* A VPN that should be connected does not stay in a hold for ever.        *)
ResumeReleases == []<>~held \/ []<>~shouldBeRunning

-------------------------------------------------------------------------------
(* What a doc, a comment or a message of the repository says and the code  *)
(* does not always do.  The run PauseFlap shows it of UserPauseIsKept with *)
(* netchangereconnect on; README.md gives the constants for the others.     *)

(* "VPN pause requested by user" (strings.xml:289): a paused VPN holds.    *)
PauseTakesEffect == Quiet /\ userpause = "DISCONNECTED" => held

(* "should be connected has changed because the screen is on now, connect  *)
(* the VPN" (DeviceStateReceiver.java:160).                                *)
ScreenOnWantsVpn == lit /\ Idle("main") => screen = "SHOULDBECONNECTED"

(* "Time to wait after network disconnect to pause the VPN"                *)
(* (DeviceStateReceiver.java:34): a lost network comes back or is given up *)
(* when the time is over.                                                  *)
LostNetworkIsResolved ==
  network = "PENDINGDISCONNECT" ~> network # "PENDINGDISCONNECT"
================================================================================
