----------------------- MODULE OpenVpnManagementThread -----------------------
(***************************************************************************)
(* core/OpenVpnManagementThread.java: the pause, resume and networkChange  *)
(* calls, made on the caller's thread, and the HOLD and STATE lines,       *)
(* handled on the management thread.                                       *)
(***************************************************************************)
EXTENDS DeviceStateReceiver, ManagementHold

VARIABLES
  mWaitingForRelease,
  lastPauseReason,
  mPauseCallback,   \* the DeviceStateReceiver has set itself as callback
  resumePosted,     \* mResumeHoldRunnables in the main looper's queue
  shown             \* what VpnStatus was last told: see Shown

mgmtVars == <<mWaitingForRelease, lastPauseReason, mPauseCallback,
              resumePosted, shown>>

(* "STATE" stands for whatever openvpn reports of itself.                  *)
Shown == PauseReason \cup {"STATE", "CONNECTRETRY"}

MgmtTypeOK ==
  /\ mWaitingForRelease \in BOOLEAN
  /\ lastPauseReason \in PauseReason
  /\ mPauseCallback \in BOOLEAN
  /\ resumePosted \in Nat
  /\ shown \in Shown

MgmtInit ==
  /\ mWaitingForRelease = FALSE
  /\ lastPauseReason = "noNetwork"
  /\ mPauseCallback = FALSE
  /\ resumePosted = 0
  /\ shown = "STATE"

shouldBeRunning == mPauseCallback /\ shouldBeConnected

-------------------------------------------------------------------------------
(* Calls on the caller's thread t.                                         *)

(* pause, up to the removal of the callback in signalusr1.  The reason is  *)
(* an argument: the receiver evaluates getPauseReason() just before.       *)
Pause(t) ==
  /\ At(t, "pause")
  /\ lastPauseReason' = getPauseReason
  /\ resumePosted' = 0
  /\ Goto(t, "signalusr1")
  /\ UNCHANGED <<mWaitingForRelease, mPauseCallback, shown, cmds>>

(* Fault models, like those named _... below.                              *)
SignalUsr1_Forgotten(t) ==
  /\ At(t, "signalusr1")
  /\ shown' = IF mWaitingForRelease THEN lastPauseReason ELSE shown
  /\ Goto(t, "idle")
  /\ UNCHANGED <<mWaitingForRelease, lastPauseReason, mPauseCallback,
                 resumePosted, cmds>>

SignalUsr1_Silent(t) ==
  /\ At(t, "signalusr1")
  /\ Goto(t, IF mWaitingForRelease THEN "idle" ELSE "sendUsr1")
  /\ UNCHANGED <<mgmtVars, cmds>>

SignalUsr1(t) ==
  /\ At(t, "signalusr1")
  /\ IF mWaitingForRelease
       THEN shown' = lastPauseReason /\ Goto(t, "idle")
       ELSE UNCHANGED shown /\ Goto(t, "sendUsr1")
  /\ UNCHANGED <<mWaitingForRelease, lastPauseReason, mPauseCallback,
                 resumePosted, cmds>>

(* resume: releaseHold, then the reset of the reason.                      *)
Resume(t) ==
  /\ At(t, "resume")
  /\ IF mWaitingForRelease
       THEN Goto(t, "clearResume") /\ resumePosted' = 0
       ELSE Goto(t, "resetReason") /\ UNCHANGED resumePosted
  /\ UNCHANGED <<mWaitingForRelease, lastPauseReason, mPauseCallback, shown, cmds>>

ResetReason(t) ==
  /\ At(t, "resetReason")
  /\ lastPauseReason' = "noNetwork"
  /\ Goto(t, "idle")
  /\ UNCHANGED <<mWaitingForRelease, mPauseCallback, resumePosted, shown, cmds>>

NetworkChange(t) ==
  /\ pc[t] \in {"netSame", "netDiff"}
  /\ IF mWaitingForRelease
       THEN Goto(t, "releaseHold")
       ELSE Goto(t, IF At(t, "netSame") THEN "sendSame" ELSE "sendDiff")
  /\ UNCHANGED <<mgmtVars, cmds>>

(* releaseHold looks at the flag again.                                    *)
ReleaseHold(t) ==
  /\ At(t, "releaseHold")
  /\ IF mWaitingForRelease
       THEN Goto(t, "clear") /\ resumePosted' = 0
       ELSE Goto(t, "idle") /\ UNCHANGED resumePosted
  /\ UNCHANGED <<mWaitingForRelease, lastPauseReason, mPauseCallback, shown, cmds>>

(* managmentCommand with what was decided before.                          *)
SendDecided(t) ==
  /\ \/ At(t, "sendUsr1") /\ Send("signal SIGUSR1")
     \/ At(t, "sendSame") /\ Send("network-change samenetwork")
     \/ At(t, "sendDiff") /\ Send("network-change")
  /\ Goto(t, "idle")
  /\ UNCHANGED mgmtVars

(* releaseHoldCmd has removed mResumeHoldRunnable and may sleep 3 s here.  *)
ClearWaiting(t) ==
  /\ pc[t] \in {"clear", "clearResume"}
  /\ mWaitingForRelease' = FALSE
  /\ Goto(t, IF At(t, "clear") THEN "write" ELSE "writeResume")
  /\ UNCHANGED <<lastPauseReason, mPauseCallback, resumePosted, shown, cmds>>

AfterRelease(t) == IF At(t, "write") THEN "idle" ELSE "resetReason"

WriteRelease_Lost(t) ==
  /\ pc[t] \in {"write", "writeResume"}
  /\ Goto(t, AfterRelease(t))
  /\ UNCHANGED <<mgmtVars, cmds>>

WriteRelease(t) ==
  /\ pc[t] \in {"write", "writeResume"}
  /\ Send("hold release")
  /\ Goto(t, AfterRelease(t))
  /\ UNCHANGED mgmtVars

(* mResumeHoldRunnable, run by the main looper.                            *)
ResumeHold ==
  /\ Idle("main")
  /\ resumePosted > 0
  /\ IF shouldBeRunning
       THEN Goto("main", "clear") /\ resumePosted' = 0
       ELSE UNCHANGED pc /\ resumePosted' = resumePosted - 1
  /\ UNCHANGED <<mWaitingForRelease, lastPauseReason, mPauseCallback, shown,
                 cmds>>

-------------------------------------------------------------------------------
(* Lines from openvpn, on the management thread.                           *)

Receive(line) ==
  /\ Idle("mgmt")
  /\ notes # <<>> /\ Head(notes) = line
  /\ notes' = Tail(notes)

HandleHold_NotWaiting ==
  /\ Receive("HOLD")
  /\ Goto("mgmt", "hold")
  /\ UNCHANGED mgmtVars

HandleHold ==
  /\ Receive("HOLD")
  /\ mWaitingForRelease' = TRUE
  /\ Goto("mgmt", "hold")
  /\ UNCHANGED <<lastPauseReason, mPauseCallback, resumePosted, shown>>

HoldDecide ==
  /\ At("mgmt", "hold")
  /\ Goto("mgmt", IF shouldBeRunning THEN "postResume" ELSE "showPause")
  /\ UNCHANGED <<notes, mgmtVars>>

HoldPost_Dropped ==
  /\ At("mgmt", "postResume")
  /\ Goto("mgmt", "idle")
  /\ UNCHANGED <<notes, mgmtVars>>

(* The wait time is openvpn's choice; a wait of more than 1 s is shown.    *)
HoldPost ==
  /\ At("mgmt", "postResume")
  /\ resumePosted' = resumePosted + 1
  /\ shown' \in {shown, "CONNECTRETRY"}
  /\ Goto("mgmt", "idle")
  /\ UNCHANGED <<mWaitingForRelease, lastPauseReason, mPauseCallback, notes>>

HoldShowPause ==
  /\ At("mgmt", "showPause")
  /\ shown' = lastPauseReason
  /\ Goto("mgmt", "idle")
  /\ UNCHANGED <<mWaitingForRelease, lastPauseReason, mPauseCallback,
                 resumePosted, notes>>

ProcessState ==
  /\ Receive("STATE")
  /\ shown' = "STATE"
  /\ UNCHANGED <<pc, mWaitingForRelease, lastPauseReason, mPauseCallback,
                 resumePosted>>

(* registerDeviceStateReceiver, posted to main by startOpenVPN: the new    *)
(* receiver sets itself as callback, then fetches the network state.       *)
RegisterReceiver ==
  /\ At("main", "register")
  /\ mPauseCallback' = TRUE
  /\ Goto("main", "connectivity")
  /\ UNCHANGED <<mWaitingForRelease, lastPauseReason, resumePosted, shown>>
================================================================================
