----------------------------- MODULE MCHandover -----------------------------
(* Instances of Handover for TLC.                                            *)
EXTENDS Handover

CONSTANTS r1, p1, p2

MCRequests == {r1}
MCPresses == {p1, p2}
=============================================================================
