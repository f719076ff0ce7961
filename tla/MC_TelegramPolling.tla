------------------------ MODULE MC_TelegramPolling ------------------------
(***************************************************************************)
(* TLC instances of TelegramPolling.  Three updates and batches of two     *)
(* make a batch that is cut short, a second batch, and an update behind    *)
(* both.  Two faults suffice for a write that fails and a kill (or a lost  *)
(* answer) on top of it; the clock runs past the deduplication window, so  *)
(* that rows expire while their update is still unconfirmed.               *)
(***************************************************************************)
EXTENDS TelegramPolling
=============================================================================
