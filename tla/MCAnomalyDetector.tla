-------------------------- MODULE MCAnomalyDetector --------------------------
(* A small instance of AnomalyDetector for TLC. *)
EXTENDS AnomalyDetector

OneKey == {<<1, "latency">>}
=============================================================================
