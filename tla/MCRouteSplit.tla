----------------------------- MODULE MCRouteSplit -----------------------------
(* Eight addresses for the constants of RouteSplit.                        *)
EXTENDS RouteSplit

ThreeBits == [m \in 0..3 |-> 2 ^ (3 - m)]
===============================================================================
