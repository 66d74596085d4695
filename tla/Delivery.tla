------------------------------ MODULE Delivery ------------------------------
(***************************************************************************)
(* What a pipeline run promises about the events its sources hand to it,   *)
(* with the goroutines and channels left out.                              *)
(*                                                                         *)
(* The sink sees the accepted events in the order in which they were       *)
(* accepted, each once, without a gap.  A run that is not interrupted and  *)
(* reports no error has shown the sink every one of them; any other run    *)
(* may lose the last events, and nothing but the last.                     *)
(***************************************************************************)
EXTENDS Integers, Sequences

CONSTANT Event

VARIABLES accepted,   (* events the first channel has taken, in order      *)
          delivered,  (* events the sink has processed, in order           *)
          outcome     (* how the run ended, "running" until it has         *)

absVars == <<accepted, delivered, outcome>>

Init == accepted = <<>> /\ delivered = <<>> /\ outcome = "running"

(* A source hands over an event.  Sources outlive an interrupted or failed *)
(* run for a while, so this is possible after the run has returned.        *)
Accept(e) == /\ outcome # "ok"
             /\ accepted' = Append(accepted, e)
             /\ UNCHANGED <<delivered, outcome>>

(* The sink processes the next accepted event. *)
Deliver == /\ outcome = "running"
           /\ Len(delivered) < Len(accepted)
           /\ delivered' = Append(delivered, accepted[Len(delivered) + 1])
           /\ UNCHANGED <<accepted, outcome>>

(* The run returns. *)
Finish(o) == /\ outcome = "running"
             /\ o = "ok" => delivered = accepted
             /\ outcome' = o
             /\ UNCHANGED <<accepted, delivered>>

Next == \/ \E e \in Event : Accept(e)
        \/ Deliver
        \/ \E o \in {"ok", "error", "interrupted"} : Finish(o)

Spec == Init /\ [][Next]_absVars
=============================================================================
