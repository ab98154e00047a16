--------------------------- MODULE MCSessionStore ---------------------------
(* Small instances of SessionStore for TLC. *)
EXTENDS SessionStore, TLC

CONSTANTS w1, w2, w3, r1, a1

(* The writers of one release are interchangeable. *)
WriterSymmetry == Permutations(Writers \ Newest)

OneAgentEach == [s \in Sessions |-> IF s = Old THEN NoLabel ELSE a1]
=============================================================================
