----------------------------- MODULE MCStatusFeed -----------------------------
(* Both kinds of client; the kind is chosen in the initial state.          *)
EXTENDS StatusFeed

MCKinds == {"app", "api"}
MCApp == {"app"}
===============================================================================
