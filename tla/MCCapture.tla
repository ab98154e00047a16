----------------------------- MODULE MCCapture -----------------------------
(* Small instances of Capture for TLC. *)
EXTENDS Capture

CONSTANTS main, task, s1, g1, p1, p2, z1, r1, r2, r3
=============================================================================
