--------------------------- MODULE MC_RateLimiter ---------------------------
(* Instances of RateLimiter: two senders, a limit of two requests in a      *)
(* window of two ticks, and enough requests and time for the window to      *)
(* slide over each sender's requests twice.                                 *)
EXTENDS RateLimiter, TLC

Symmetry == Permutations(Senders)
=============================================================================
