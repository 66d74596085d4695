------------------------------ MODULE MCScreens ------------------------------
(* A small instance of Screens for TLC. *)
EXTENDS Screens

TwoServices == 1 .. 2

OneCall == {<<1, 2, "get">>}

(* With one row at the least, seven lines are just enough, and ten leave    *)
(* room for two rows.                                                       *)
LowAndHigh == {7, 10}
=============================================================================
