--------------------------- MODULE MCProcessor -----------------------------
(* Processor for TLC, see MCProcessor.cfg. *)
EXTENDS Processor
=============================================================================
