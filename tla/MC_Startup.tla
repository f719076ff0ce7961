----------------------------- MODULE MC_Startup ------------------------------
(* An instance of Startup: two pids and two starts, so that two processes   *)
(* start at once, or one starts again with its pid after a fault; two       *)
(* tokens, so that a token is replaced by another.                          *)
EXTENDS Startup
=============================================================================
