---------------------------- MODULE MCPauseControl ----------------------------
(* Small values for the constants of PauseControl.                         *)
EXTENDS PauseControl

On == {TRUE}
Off == {FALSE}
OnOrOff == BOOLEAN

MainOnly == {"main"}
BinderOnly == {"binder"}
MainAndBinder == {"main", "binder"}
================================================================================
