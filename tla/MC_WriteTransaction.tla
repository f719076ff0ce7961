------------------------- MODULE MC_WriteTransaction -------------------------
(* The instance of WriteTransaction: two connections contend for one file,  *)
(* with two calls each, so that a call can follow one that failed; two      *)
(* retries are the least that tell "the last attempt" from "the first".     *)
EXTENDS WriteTransaction
=============================================================================
