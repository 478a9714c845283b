--------------------------- MODULE MCTagFreshness ---------------------------
(* Small instances of TagFreshness.                                         *)
EXTENDS TagFreshness

CONSTANTS t1, t2
=============================================================================
