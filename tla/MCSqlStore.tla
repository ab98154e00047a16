----------------------------- MODULE MCSqlStore -----------------------------
(* Small instances of SqlStore for TLC. *)
EXTENDS SqlStoreProofs, TLC

CONSTANTS a, b, x, y, m1, m2

Turn(hs, m) == [blocks |-> hs, model |-> m]

(* Two runs that share their blocks in opposite orders, the shape of a       *)
(* deadlock; a's second call repeats its first block and changes the model.  *)
OppositeOrders ==
  (a :> <<Turn(<<x, y>>, m1), Turn(<<x>>, m2)>>) @@
  (b :> <<Turn(<<y, x>>, NoModel)>>)

(* One run whose model changes from call to call and comes back. *)
ChangingModels ==
  (a :> <<Turn(<<x>>, m1), Turn(<<x>>, m2), Turn(<<x>>, m1)>>)
=============================================================================
