--------------------------- MODULE MCEventStream ---------------------------
(* Instances of EventStream for TLC.                                        *)
EXTENDS EventStream, TLC

CONSTANTS k1, k2
=============================================================================
