-------------------------- MODULE MC_HaEventStream ---------------------------
(* An instance of HaEventStream: three events and a queue of one, so that   *)
(* the reader blocks while an event is processed; the request for the       *)
(* entries, which takes the steps of every one-off request.  Two faults can *)
(* hit either connection at any step.                                       *)
EXTENDS HaEventStream
=============================================================================
