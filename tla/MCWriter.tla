------------------------------ MODULE MCWriter ------------------------------
(* Small instances of Writer for TLC. *)
EXTENDS WriterProofs, TLC

CONSTANTS h1, h2, c1, c2, j1, j2, j3, r1, r2

(* The third record comes from a stream finaliser; odd and even records are  *)
(* bound to different Recorders.                                             *)
QuietOnes == {j3}
TwoRecorders ==
  (j1 :> r1) @@ (j2 :> r2) @@ (j3 :> r1)
=============================================================================
