--------------------------- MODULE MCCycleDetector ---------------------------
(* Small instances of CycleDetector for TLC. *)
EXTENDS CycleDetector

ThreeServices == 1 .. 3

(* Two cycles that share services, one of them the other's short cut, and  *)
(* a service that calls itself. *)
Tangle == {<<1, 2>>, <<2, 3>>, <<3, 1>>, <<1, 3>>, <<2, 2>>}

(* The same two cycles, and a caller that is on neither. *)
Outsider == {<<1, 2>>, <<2, 3>>, <<3, 1>>, <<1, 3>>, <<4, 1>>}
FourServices == 1 .. 4
=============================================================================
