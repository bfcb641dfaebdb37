--------------------------- MODULE MCNodeRegistry ---------------------------
(* Model-checking instance of NodeRegistry.                                *)
EXTENDS NodeRegistry

=============================================================================
