---------------------------- MODULE HoldHandshake ----------------------------
(***************************************************************************)
(* What the management protocol promises about holding                     *)
(* (openvpn/doc/management-notes.txt, COMMAND -- hold): on startup and on  *)
(* every restart openvpn hibernates and says so, until the client releases *)
(* the hold.  One variable says where the two sides stand:                 *)
(*   up         openvpn is not holding                                     *)
(*   announced  it holds, and the client has yet to hear of it             *)
(*   waiting    it holds and the client knows that a release is due        *)
(*   releasing  it holds, and a release is on its way                      *)
(***************************************************************************)
VARIABLE stage

Stage == {"up", "announced", "waiting", "releasing"}

Init == stage = "announced"

(* A restart finds a client that has heard nothing, or that still believes *)
(* in an earlier hold, or whose release of an earlier hold is in flight.   *)
Hibernate == stage = "up" /\ stage' \in {"announced", "waiting", "releasing"}

Learn == stage = "announced" /\ stage' = "waiting"

(* A client may also release on the strength of an earlier hold.           *)
Release == stage \in {"announced", "waiting"} /\ stage' = "releasing"

Start == stage = "releasing" /\ stage' = "up"

Next == Hibernate \/ Learn \/ Release \/ Start

Safety == Init /\ [][Next]_stage

(* An announcement reaches the client and a release reaches openvpn.       *)
Spec == Safety /\ WF_stage(Learn) /\ WF_stage(Start)
================================================================================
