---------------------------- MODULE ServiceThreads ----------------------------
(***************************************************************************)
(* The threads of the :openvpn process that run the pause machinery, and   *)
(* what each is in the middle of.                                          *)
(*                                                                         *)
(*   main    the main looper: broadcasts, intents, Handler callbacks       *)
(*   mgmt    OpenVpnManagementThread.run, which reads the mgmt socket      *)
(*   binder  a binder thread serving IOpenVPNServiceInternal               *)
(*                                                                         *)
(* pc[t] names the next statement of thread t.  A label stands for a point *)
(* between two statements at which another thread may run; statements that *)
(* touch only the thread's own data are grouped with their neighbours.     *)
(***************************************************************************)

VARIABLE pc

Thread == {"main", "mgmt", "binder"}

(* The points a thread can stand at.                                       *)
(*   register, connectivity : registerDeviceStateReceiver, on main         *)
(*   screenOff : SCREEN_OFF, before network and userpause are looked at    *)
(*   screenWasUp, screenWasDown : SCREEN_ON, before the write, with the    *)
(*       answer of the first shouldBeConnected()                           *)
(*   screenOnUp, screenOnDown : SCREEN_ON, before the second one           *)
(*   userWasUp, userWasDown : userPause(false), likewise                   *)
(*   byteCount : updateByteCount, between the check and the write          *)
(*   pause, resume, netSame, netDiff : calls into the management thread    *)
(*       object; signalusr1, sendUsr1, releaseHold, sendSame, sendDiff,    *)
(*       resetReason are the points inside them                            *)
(*   clear.., write.. : releaseHoldCmd; the suffix says that resume() has  *)
(*       its last assignment still to do                                   *)
(*   hold, postResume, showPause : handleHold                              *)
Label ==
  {"idle", "register", "connectivity", "screenOff", "screenWasUp",
   "screenWasDown", "screenOnUp", "screenOnDown", "userWasUp", "userWasDown",
   "byteCount", "pause", "signalusr1", "sendUsr1", "resume", "netSame",
   "netDiff", "releaseHold", "sendSame", "sendDiff", "resetReason",
   "clear", "clearResume", "write", "writeResume",
   "hold", "postResume", "showPause"}

Idle(t) == pc[t] = "idle"

At(t, l) == pc[t] = l

Goto(t, l) == pc' = [pc EXCEPT ![t] = l]

(* A thread that has decided to send "hold release" and has yet to do so.  *)
Releasing(t) == pc[t] \in {"clear", "clearResume", "write", "writeResume"}
================================================================================
