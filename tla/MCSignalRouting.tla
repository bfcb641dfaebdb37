--------------------------- MODULE MCSignalRouting ---------------------------
(* Model-checking instance of SignalRouting.                               *)
EXTENDS SignalRouting

=============================================================================
