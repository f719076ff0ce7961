---------------------------- MODULE MC_EchoBridge ----------------------------
(* Instances of EchoBridge.  "spaced" is a text with two spaces in a row,   *)
(* as a message_prefix that ends in two spaces renders it; "plain" is what  *)
(* is left of it when spaces are squeezed.  "other" is an unrelated text.   *)
(* Two forwards and three messages make room for two equal texts, their     *)
(* echoes and a user's message between them; a clock of four with a window  *)
(* of two lets a row expire before, between and after them.                 *)
EXTENDS EchoBridge

TwoTexts == {"plain", "other"}
SpacedTexts == {"plain", "spaced"}

MCNormalized == [t \in {"plain", "other", "spaced"} |->
                   IF t = "spaced" THEN "plain" ELSE t]
NormalForm == [t \in Texts |-> MCNormalized[t]]
=============================================================================
