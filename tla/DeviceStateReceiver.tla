------------------------- MODULE DeviceStateReceiver -------------------------
(***************************************************************************)
(* core/DeviceStateReceiver.java: the broadcast receiver that decides from *)
(* the network, the screen and the user whether the VPN should run, and    *)
(* tells the management thread to pause, resume or rebind.                 *)
(*                                                                         *)
(* Every handler ends by naming, in pc, the call into mManagement it makes;*)
(* OpenVpnManagementThread.tla has those calls.                            *)
(***************************************************************************)
EXTENDS Naturals, ServiceThreads

CONSTANTS
  Networks,            \* the networks getActiveNetworkInfo may report
  NoNetwork,           \* a null NetworkInfo
  NetChangeReconnect,  \* the values preference "netchangereconnect" may have
  ScreenOffPause,      \* the values preference "screenoff" may have
  UserThreads,         \* threads that deliver userPause: intents, the AIDL API
  Redundant,           \* TRUE: a pause may find the VPN paused, a resume running
  MaxTimers            \* bound: posted mDelayDisconnectRunnables

ASSUME DsrAssumption ==
  /\ NoNetwork \notin Networks
  /\ NetChangeReconnect \subseteq BOOLEAN
  /\ ScreenOffPause \subseteq BOOLEAN
  /\ UserThreads \subseteq {"main", "binder"}
  /\ Redundant \in BOOLEAN
  /\ MaxTimers \in Nat

VARIABLES
  network, screen, userpause,  \* the three connectState fields
  lastConnectedNetwork,
  timers,  \* posted mDelayDisconnectRunnables
  lit      \* the last screen broadcast was SCREEN_ON

dsrVars == <<network, screen, userpause, lastConnectedNetwork, timers, lit>>

ConnectState == {"SHOULDBECONNECTED", "PENDINGDISCONNECT", "DISCONNECTED"}

PauseReason == {"noNetwork", "userPause", "screenOff"}

DsrTypeOK ==
  /\ network \in ConnectState
  /\ screen \in ConnectState
  /\ userpause \in {"SHOULDBECONNECTED", "DISCONNECTED"}
  /\ lastConnectedNetwork \in Networks \cup {NoNetwork}
  /\ timers \in 0..MaxTimers
  /\ lit \in BOOLEAN

DsrInit ==
  /\ network = "DISCONNECTED"
  /\ screen = "SHOULDBECONNECTED"
  /\ userpause = "SHOULDBECONNECTED"
  /\ lastConnectedNetwork = NoNetwork
  /\ timers = 0
  /\ lit \in BOOLEAN

shouldBeConnected ==
  /\ screen = "SHOULDBECONNECTED"
  /\ userpause = "SHOULDBECONNECTED"
  /\ network = "SHOULDBECONNECTED"

getPauseReason ==
  IF userpause = "DISCONNECTED" THEN "userPause"
  ELSE IF screen = "DISCONNECTED" THEN "screenOff"
  ELSE IF network = "DISCONNECTED" THEN "noNetwork"
  ELSE "userPause"

removeCallbacks == timers' = 0

(* PENDINGDISCONNECT turns into DISCONNECTED when the network goes.        *)
ScreenGivesUp ==
  screen' = IF screen = "PENDINGDISCONNECT" THEN "DISCONNECTED" ELSE screen

-------------------------------------------------------------------------------
(* networkStateChange: a connected network is reported.                    *)

SameNetworkReturns(info) ==
  /\ network = "PENDINGDISCONNECT"
  /\ lastConnectedNetwork = info
  /\ network' = "SHOULDBECONNECTED"
  /\ removeCallbacks
  /\ Goto("main", "netSame")
  /\ UNCHANGED <<screen, lastConnectedNetwork>>

(* Fault models, used to validate the properties.                          *)
NewNetwork_NoGuard(info) ==
  /\ ~(network = "PENDINGDISCONNECT" /\ lastConnectedNetwork = info)
  /\ network' = "SHOULDBECONNECTED"
  /\ ScreenGivesUp
  /\ lastConnectedNetwork' = info
  /\ removeCallbacks
  /\ Goto("main", IF lastConnectedNetwork # info THEN "netDiff" ELSE "resume")

NewNetwork(info) ==
  /\ ~(network = "PENDINGDISCONNECT" /\ lastConnectedNetwork = info)
  /\ network' = "SHOULDBECONNECTED"
  /\ ScreenGivesUp
  /\ lastConnectedNetwork' = info
  /\ IF shouldBeConnected'
       THEN /\ removeCallbacks
            /\ Goto("main", IF lastConnectedNetwork # info THEN "netDiff"
                                                           ELSE "resume")
       ELSE UNCHANGED timers /\ Goto("main", "idle")

(* networkStateChange with a null NetworkInfo.                             *)
NetworkLost ==
  /\ \E sendusr1 \in NetChangeReconnect :
       IF sendusr1
         THEN /\ timers < MaxTimers
              /\ network' = "PENDINGDISCONNECT"
              /\ timers' = timers + 1
         ELSE UNCHANGED <<network, timers>>
  /\ Goto("main", "idle")
  /\ UNCHANGED <<screen, lastConnectedNetwork>>

(* The receiver is registered with the network state fetched once; later   *)
(* calls come from CONNECTIVITY_ACTION.                                    *)
networkStateChange ==
  /\ pc["main"] \in {"idle", "connectivity"}
  /\ UNCHANGED <<userpause, lit>>
  /\ \/ \E info \in Networks : SameNetworkReturns(info) \/ NewNetwork(info)
     \/ NetworkLost

(* mDelayDisconnectRunnable, run by the main looper.                       *)
DelayDisconnect ==
  /\ Idle("main")
  /\ timers > 0
  /\ timers' = timers - 1
  /\ IF network = "PENDINGDISCONNECT"
       THEN network' = "DISCONNECTED" /\ ScreenGivesUp /\ Goto("main", "pause")
       ELSE UNCHANGED <<network, screen, pc>>
  /\ UNCHANGED <<userpause, lastConnectedNetwork, lit>>

-------------------------------------------------------------------------------
(* onReceive: the screen.                                                  *)

ScreenOff ==
  /\ Idle("main") /\ lit
  /\ lit' = FALSE
  /\ \E screenOffPause \in ScreenOffPause :
       IF screenOffPause
         THEN screen' = "PENDINGDISCONNECT" /\ Goto("main", "screenOff")
         ELSE UNCHANGED <<screen, pc>>
  /\ UNCHANGED <<network, userpause, lastConnectedNetwork, timers>>

ScreenOffDecide ==
  /\ At("main", "screenOff")
  /\ screen' = IF "DISCONNECTED" \in {network, userpause} THEN "DISCONNECTED"
                                                          ELSE screen
  /\ Goto("main", "idle")
  /\ UNCHANGED <<network, userpause, lastConnectedNetwork, timers, lit>>

(* SCREEN_ON.  updateByteCount on the management thread may write screen   *)
(* between any two of its statements.                                      *)
ScreenOn ==
  /\ Idle("main") /\ ~lit
  /\ lit' = TRUE
  /\ Goto("main", IF shouldBeConnected THEN "screenWasUp" ELSE "screenWasDown")
  /\ UNCHANGED <<network, screen, userpause, lastConnectedNetwork, timers>>

ScreenOnWrite ==
  /\ pc["main"] \in {"screenWasUp", "screenWasDown"}
  /\ screen' = "SHOULDBECONNECTED"
  /\ removeCallbacks
  /\ Goto("main", IF At("main", "screenWasUp") THEN "screenOnUp"
                                                ELSE "screenOnDown")
  /\ UNCHANGED <<network, userpause, lastConnectedNetwork, lit>>

ScreenOnDecide_NoResume ==
  /\ pc["main"] \in {"screenOnUp", "screenOnDown"}
  /\ Goto("main", IF ~shouldBeConnected THEN "pause" ELSE "idle")
  /\ UNCHANGED dsrVars

ScreenOnDecide ==
  /\ pc["main"] \in {"screenOnUp", "screenOnDown"}
  /\ Goto("main", IF shouldBeConnected # At("main", "screenOnUp") THEN "resume"
                  ELSE IF ~shouldBeConnected THEN "pause" ELSE "idle")
  /\ UNCHANGED dsrVars

-------------------------------------------------------------------------------
(* updateByteCount, called on the management thread for each BYTECOUNT.    *)
(* The window's traffic is data: it may be below the limit or not.         *)

ByteCountLow ==
  /\ Idle("mgmt")
  /\ screen = "PENDINGDISCONNECT"
  /\ Goto("mgmt", "byteCount")
  /\ UNCHANGED dsrVars

ByteCountPause ==
  /\ At("mgmt", "byteCount")
  /\ screen' = "DISCONNECTED"
  /\ Goto("mgmt", "pause")
  /\ UNCHANGED <<network, userpause, lastConnectedNetwork, timers, lit>>

-------------------------------------------------------------------------------
(* userPause, on the thread that delivers it.  The notification offers     *)
(* Pause or Resume by isUserPaused; an API client, or a second tap on a    *)
(* notification that has not been redrawn, may call either.                *)

UserPause(t) ==
  /\ Idle(t)
  /\ Redundant \/ userpause = "SHOULDBECONNECTED"
  /\ userpause' = "DISCONNECTED"
  /\ Goto(t, "pause")
  /\ UNCHANGED <<network, screen, lastConnectedNetwork, timers, lit>>

UserResume(t) ==
  /\ Idle(t)
  /\ Redundant \/ userpause = "DISCONNECTED"
  /\ userpause' = "SHOULDBECONNECTED"
  /\ Goto(t, IF shouldBeConnected THEN "userWasUp" ELSE "userWasDown")
  /\ UNCHANGED <<network, screen, lastConnectedNetwork, timers, lit>>

UserResumeDecide(t) ==
  /\ pc[t] \in {"userWasUp", "userWasDown"}
  /\ Goto(t, IF shouldBeConnected /\ At(t, "userWasDown") THEN "resume"
                                                         ELSE "pause")
  /\ UNCHANGED dsrVars
================================================================================
