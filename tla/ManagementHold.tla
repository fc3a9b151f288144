---------------------------- MODULE ManagementHold ----------------------------
(***************************************************************************)
(* The openvpn process behind the management socket, as far as holding is  *)
(* concerned: management_hold and the commands it answers (manage.c), the  *)
(* restart that leads to a hold (init.c, openvpn.c), and the two           *)
(* directions of the socket.                                               *)
(*                                                                         *)
(* man_read processes every line of what it has read before its caller     *)
(* looks at the outcome, so commands may still be processed after          *)
(* "hold release" and before the hold loop is left: LeaveHold is a step of *)
(* its own.                                                                *)
(***************************************************************************)
EXTENDS Naturals, Sequences

VARIABLES
  cmds,         \* client to openvpn
  notes,        \* openvpn to client
  held,         \* openvpn is in management_hold
  holdRelease,  \* man->persist.hold_release
  usr1          \* SIGUSR1 was thrown and the tunnel has not yet come down

holdVars == <<cmds, notes, held, holdRelease, usr1>>

Command == {"hold release", "signal SIGUSR1", "network-change",
            "network-change samenetwork"}

Notice == {"HOLD", "STATE"}

HoldTypeOK ==
  /\ cmds \in Seq(Command)
  /\ notes \in Seq(Notice)
  /\ held \in BOOLEAN
  /\ holdRelease \in BOOLEAN
  /\ usr1 \in BOOLEAN
  /\ held => ~usr1

(* open_management holds as soon as the client has connected.              *)
HoldInit ==
  /\ cmds = <<>>
  /\ notes = <<"HOLD">>
  /\ held = TRUE
  /\ holdRelease = FALSE
  /\ usr1 = FALSE

Announce(lines) == notes' = notes \o lines

Queued(line, lines) == \E i \in 1..Len(lines) : lines[i] = line

-------------------------------------------------------------------------------
(* managmentCommand.                                                       *)
Send(cmd) == cmds' = Append(cmds, cmd)

man_hold == holdRelease' = TRUE /\ UNCHANGED <<notes, usr1>>

(* Mutant: management_hold does not set MANSIG_IGNORE_USR1_HUP.            *)
man_signal_Thrown ==
  /\ usr1' = TRUE
  /\ UNCHANGED <<notes, holdRelease>>

(* man_signal while held: USR1 is ignored and special_state_msg, the       *)
(* >HOLD: line, is written again.                                          *)
man_signal ==
  /\ IF held THEN Announce(<<"HOLD">>) /\ UNCHANGED usr1
             ELSE usr1' = TRUE /\ UNCHANGED notes
  /\ UNCHANGED holdRelease

(* network_change answers -2, a SIGUSR1, only with an open socket that     *)
(* cannot be reused: another network and no peer-id.                       *)
man_network_change(samenetwork) ==
  /\ usr1' \in IF held \/ samenetwork THEN {usr1} ELSE {usr1, TRUE}
  /\ UNCHANGED <<notes, holdRelease>>

Process(cmd) ==
  \/ cmd = "hold release" /\ man_hold
  \/ cmd = "signal SIGUSR1" /\ man_signal
  \/ cmd = "network-change" /\ man_network_change(FALSE)
  \/ cmd = "network-change samenetwork" /\ man_network_change(TRUE)

ReadCommand ==
  /\ cmds # <<>>
  /\ Process(Head(cmds))
  /\ cmds' = Tail(cmds)
  /\ UNCHANGED held

-------------------------------------------------------------------------------
(* The loop of management_hold ends; the tunnel is initialised.            *)
LeaveHold ==
  /\ held /\ holdRelease
  /\ held' = FALSE
  /\ Announce(<<"STATE">>)
  /\ UNCHANGED <<cmds, holdRelease, usr1>>

(* The tunnel instance ends, by SIGUSR1 or by itself (a lost connection),  *)
(* management_clear_callback resets hold_release, and the next             *)
(* init_instance, after dropping any signal, holds in socket_restart_pause.*)
Restart ==
  /\ ~held
  /\ held' = TRUE
  /\ holdRelease' = FALSE
  /\ usr1' = FALSE
  /\ Announce(<<"STATE", "HOLD">>)
  /\ UNCHANGED cmds

RestartOnSignal == usr1 /\ Restart
================================================================================
