--------------------------- MODULE MC_HealthEvents ---------------------------
(* An instance of HealthEvents: one override, one database and one counter, *)
(* for what the setters do to the others is the same.  Two changes make     *)
(* room for one during a pause or a publication, and for one that takes it  *)
(* back; one fault for a publication that fails and whose event is fired    *)
(* too late, over a newer one, for a skipped write of the file, or for a    *)
(* restart of Home Assistant.                                               *)
EXTENDS HealthEvents
=============================================================================
