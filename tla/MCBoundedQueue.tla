--------------------------- MODULE MCBoundedQueue ---------------------------
(* Small instances of BoundedQueue for TLC.                                *)
EXTENDS BoundedQueue

CONSTANTS p1, p2, g1, m1, m2

MCPutters == {p1, p2}
MCGetters == {g1}
MCMessages == {m1, m2}
=============================================================================
