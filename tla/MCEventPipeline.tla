--------------------------- MODULE MCEventPipeline ---------------------------
(* EventPipeline with channels of one element, so that both of them fill.  *)
(* No symmetry: the runs check liveness.                                   *)
EXTENDS EventPipeline
=============================================================================
