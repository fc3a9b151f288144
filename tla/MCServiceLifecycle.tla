------------------------- MODULE MCServiceLifecycle ---------------------------
(* Start commands of OpenVPNService, one after the other and in any order. *)
EXTENDS ServiceLifecycle

MCBoth == BOOLEAN
MCAny == {FALSE}
===============================================================================
