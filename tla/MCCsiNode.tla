------------------------------- MODULE MCCsiNode -------------------------------
(* CsiNode for TLC: two callers, so that a retry meets the call it repeats. *)
EXTENDS CsiNode
=============================================================================
