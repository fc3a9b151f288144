----------------------------- MODULE OneSession -------------------------------
(***************************************************************************)
(* What the users of OpenVPNService count on: VPN sessions come one after  *)
(* another, each once.                                                     *)
(***************************************************************************)
CONSTANT Session

VARIABLE running    \* the sessions with a running process

Init == running = {}

Begin(s) == running = {} /\ running' = {s}

End(s) == running = {s} /\ running' = {}

Next == \E s \in Session : Begin(s) \/ End(s)

Spec == Init /\ [][Next]_running
===============================================================================
