----------------------------- MODULE MCCallGraph -----------------------------
(* Small instances of CallGraph for TLC. *)
EXTENDS CallGraph

TwoServices == 1 .. 2

(* Two calls that close a cycle. *)
ThereAndBack == {<<1, 2, "get">>, <<2, 1, "get">>}
=============================================================================
