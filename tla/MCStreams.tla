----------------------------- MODULE MCStreams -----------------------------
(* An instance of StreamLayers for TLC. *)
EXTENDS StreamLayers

=============================================================================
