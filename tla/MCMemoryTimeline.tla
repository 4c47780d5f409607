-------------------------- MODULE MCMemoryTimeline --------------------------
(* Instance of MemoryTimeline for TLC. *)
EXTENDS MemoryTimeline
=============================================================================
