---------------------------- MODULE PipelineInv ----------------------------
(***************************************************************************)
(* The inductive invariant of Pipeline: what GapFree, CleanFinish and      *)
(* ErrorReported rest on.                                                  *)
(***************************************************************************)
EXTENDS Pipeline

(* How many events a channel has ever carried. *)
Put(c) == taken[c] + Len(chan[c])

(* A channel is closed exactly when the goroutine that owns it is done. *)
CloseInv ==
  /\ "source" \in closed => \A s \in Sources : srcPc[s] = "done"
  /\ \A st \in Stages : Out(st) \in closed <=> stPc[st] = "end"
  /\ stPc["transform"] = "off" <=> ~transformOn
  /\ \A st \in {"parse", "forward"} :
       stPc[st] \in {"recv", "send", "close", "end"}

(* A channel holds a stretch of the accepted events: those after the ones  *)
(* that have left it. *)
Stretch(c) == /\ Put(c) <= Len(accepted)
              /\ \A i \in 1 .. Len(chan[c]) : chan[c][i] = accepted[taken[c] + i]

(* A stage has sent on all it has received, but for the event in its hand. *)
PassedOn(st) ==
  /\ stPc[st] = "recv" => Put(Out(st)) = taken[In(st)]
  /\ stPc[st] = "send" => /\ Put(Out(st)) + 1 = taken[In(st)]
                          /\ hand[st] = accepted[taken[In(st)]]

FlowInv ==
  /\ \A c \in Channels : Stretch(c)
  /\ Put("source") = Len(accepted)
  /\ \A st \in Stages : PassedOn(st)
  /\ sinkErr = "nil" => Len(delivered) = taken["out"]
  /\ runPc = "sink" => sinkErr = "nil"
  /\ GapFree

(* While Run has not returned, an error that was met is either still to be *)
(* pushed by the one who met it or on errCh, and a cancellation that is    *)
(* not the caller's comes after an error on errCh. *)
Reported == runPc # "returned" => errCh # <<>>
ErrInv ==
  /\ ctxDone => parentDone \/ Reported
  /\ \A s \in Sources : srcPc[s] = "cancel" => Reported
  /\ \A s \in Sources \cap failed :
       srcPc[s] \in {"report", "cancel"} \/ (srcPc[s] = "done" /\ Reported)
  /\ stPc["transform"] = "cancel" => Reported
  /\ "transform" \in failed => \/ stPc["transform"] = "report"
                               \/ stPc["transform"] \in {"cancel", "close", "end"}
                                  /\ Reported
  /\ runPc = "cancel" => Reported
  /\ "sink" \in failed <=> sinkErr = "sink"
  /\ runPc \in {"report", "cancel"} => sinkErr = "sink"
  /\ runPc = "select" /\ sinkErr = "sink" => Reported

(* While nobody has cancelled, a goroutine that ends has nothing left to   *)
(* receive and has passed on all it had, and every line is on its way. *)
OnItsWay(s) == \A n \in 1 .. made[s] :
                 n < made[s] \/ srcPc[s] # "send"
                   => \E i \in 1 .. Len(accepted) : accepted[i] = <<s, n>>
DrainInv ==
  ~ctxDone =>
    /\ \A st \in Stages : stPc[st] \in {"close", "end"} =>
         Drained(In(st)) /\ Put(Out(st)) = taken[In(st)]
    /\ runPc = "select" => Drained("out")
    /\ runPc # "returned"
    /\ \A s \in Sources : OnItsWay(s)

(* A clean run has left nothing behind, and nothing can start again. *)
FinInv == Clean => /\ \A s \in Sources : srcPc[s] = "done"
                   /\ \A st \in Stages : stPc[st] \in {"off", "end"}
                   /\ CleanFinish
                   /\ ErrorReported

Inv == TypeOK /\ CloseInv /\ FlowInv /\ ErrInv /\ DrainInv /\ FinInv
=============================================================================
