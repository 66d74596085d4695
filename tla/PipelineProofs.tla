--------------------------- MODULE PipelineProofs ---------------------------
(***************************************************************************)
(* Proofs about Pipeline, for every set of sources, every mix of kinds,    *)
(* every capacity and every bound on lines.                                *)
(***************************************************************************)
EXTENDS PipelineInv, SequenceTheorems, TLAPS

USE DEF conf, srcVars, stVars, chVars, ctxVars, errVars, runVars

(* What Send and Take do to the channels. *)
LEMMA SendFacts ==
  ASSUME TypeOK, NEW c \in Channels, NEW e \in Event, Send(c, e)
  PROVE  /\ chan' \in [Channels -> Seq(Event)]
         /\ chan'[c] = Append(chan[c], e)
         /\ Len(chan'[c]) = Len(chan[c]) + 1
         /\ \A i \in 1 .. Len(chan[c]) : chan'[c][i] = chan[c][i]
         /\ chan'[c][Len(chan[c]) + 1] = e
         /\ \A d \in Channels \ {c} : chan'[d] = chan[d]
         /\ \A d \in Channels : Len(chan'[d]) <= Cap
<1>1. chan[c] \in Seq(Event)
  BY DEF TypeOK
<1>2. chan' = [chan EXCEPT ![c] = Append(chan[c], e)] /\ Len(chan[c]) < Cap
  BY DEF Send
<1>3. chan'[c] = Append(chan[c], e) /\ \A d \in Channels \ {c} : chan'[d] = chan[d]
  BY <1>2 DEF TypeOK
<1>4. /\ Append(chan[c], e) \in Seq(Event)
      /\ Len(Append(chan[c], e)) = Len(chan[c]) + 1
      /\ \A i \in 1 .. Len(chan[c]) : Append(chan[c], e)[i] = chan[c][i]
      /\ Append(chan[c], e)[Len(chan[c]) + 1] = e
  BY <1>1
<1>5. chan' \in [Channels -> Seq(Event)]
  BY <1>2, <1>4 DEF TypeOK
<1>6. \A d \in Channels : Len(chan'[d]) <= Cap
  <2> SUFFICES ASSUME NEW d \in Channels PROVE Len(chan'[d]) <= Cap
    OBVIOUS
  <2>1. CASE d = c
    BY <1>1, <1>2, <1>3, <1>4, <2>1, SizesAssumption
  <2>2. CASE d # c
    BY <1>3, <2>2 DEF TypeOK
  <2> QED
    BY <2>1, <2>2
<1> QED
  BY <1>3, <1>4, <1>5, <1>6

(* Receiving from a channel removes its first event, and only that. *)
LEMMA TakeFacts ==
  ASSUME TypeOK, NEW c \in Channels, Take(c)
  PROVE  /\ chan' \in [Channels -> Seq(Event)]
         /\ taken' \in [Channels -> Nat]
         /\ Len(chan[c]) \in Nat /\ Len(chan[c]) > 0
         /\ Head(chan[c]) = chan[c][1] /\ Head(chan[c]) \in Event
         /\ Len(chan'[c]) = Len(chan[c]) - 1
         /\ \A i \in 1 .. Len(chan'[c]) : chan'[c][i] = chan[c][i + 1]
         /\ taken'[c] = taken[c] + 1
         /\ \A d \in Channels \ {c} : chan'[d] = chan[d] /\ taken'[d] = taken[d]
         /\ \A d \in Channels : Len(chan'[d]) <= Cap
<1>1. chan[c] \in Seq(Event) /\ chan[c] # <<>>
  BY DEF TypeOK, Take
<1>2. /\ chan' = [chan EXCEPT ![c] = Tail(chan[c])]
      /\ taken' = [taken EXCEPT ![c] = taken[c] + 1]
  BY DEF Take
<1>3. /\ chan'[c] = Tail(chan[c]) /\ taken'[c] = taken[c] + 1
      /\ \A d \in Channels \ {c} : chan'[d] = chan[d] /\ taken'[d] = taken[d]
  BY <1>2 DEF TypeOK
<1>4. /\ Tail(chan[c]) \in Seq(Event)
      /\ Len(chan[c]) \in Nat /\ Len(chan[c]) > 0
      /\ Head(chan[c]) = chan[c][1] /\ Head(chan[c]) \in Event
      /\ Len(Tail(chan[c])) = Len(chan[c]) - 1
      /\ \A i \in 1 .. Len(Tail(chan[c])) : Tail(chan[c])[i] = chan[c][i + 1]
  BY <1>1
<1>5. chan' \in [Channels -> Seq(Event)] /\ taken' \in [Channels -> Nat]
  BY <1>2, <1>4 DEF TypeOK
<1>6. \A d \in Channels : Len(chan'[d]) <= Cap
  <2> SUFFICES ASSUME NEW d \in Channels PROVE Len(chan'[d]) <= Cap
    OBVIOUS
  <2>1. CASE d = c
    BY <1>3, <1>4, <2>1, SizesAssumption DEF TypeOK
  <2>2. CASE d # c
    BY <1>3, <2>2 DEF TypeOK
  <2> QED
    BY <2>1, <2>2
<1> QED
  BY <1>3, <1>4, <1>5, <1>6

(* What a push does to errCh. *)
LEMMA PushFacts ==
  ASSUME TypeOK, NEW e \in Errs, PushErr(e)
  PROVE  /\ errCh' \in Seq(Errs)
         /\ Len(errCh') <= ErrCap
         /\ errCh' # <<>>
<1>1. errCh \in Seq(Errs) /\ Len(errCh) <= ErrCap /\ ErrCap \in Nat \ {0}
  BY SizesAssumption DEF TypeOK
<1>2. CASE Len(errCh) < ErrCap
  <2>1. errCh' = Append(errCh, e)
    BY <1>2 DEF PushErr
  <2>2. /\ Append(errCh, e) \in Seq(Errs)
        /\ Len(Append(errCh, e)) = Len(errCh) + 1
        /\ Append(errCh, e) # <<>>
    BY <1>1
  <2> QED
    BY <1>1, <1>2, <2>1, <2>2
<1>3. CASE ~(Len(errCh) < ErrCap)
  <2>1. errCh' = errCh /\ Len(errCh) # 0
    BY <1>1, <1>3 DEF PushErr
  <2> QED
    BY <1>1, <2>1
<1> QED
  BY <1>2, <1>3

(* What Return takes from errCh and gives its caller. *)
LEMMA ReturnFacts ==
  ASSUME TypeOK, Return
  PROVE  /\ errCh' \in Seq(Errs)
         /\ Len(errCh') <= ErrCap
         /\ result' \in Errs \cup {"nil"}
         /\ result' = "nil" => errCh = <<>> /\ sinkErr = "nil"
<1>1. errCh \in Seq(Errs) /\ Len(errCh) <= ErrCap /\ ErrCap \in Nat \ {0}
  BY SizesAssumption DEF TypeOK
<1>2. "nil" \notin Errs
  BY SourcesAssumption DEF Errs
<1>3. CASE errCh # <<>>
  <2>1. result' = Head(errCh) /\ errCh' = Tail(errCh)
    BY <1>3 DEF Return
  <2>2. /\ Head(errCh) \in Errs /\ Tail(errCh) \in Seq(Errs)
        /\ Len(Tail(errCh)) = Len(errCh) - 1 /\ Len(errCh) \in Nat
    BY <1>1, <1>3
  <2> QED
    BY <1>1, <1>2, <2>1, <2>2
<1>4. CASE errCh = <<>>
  <2>1. result' = sinkErr /\ errCh' = errCh
    BY <1>4 DEF Return
  <2> QED
    BY <1>1, <1>4, <2>1 DEF TypeOK, Errs
<1> QED
  BY <1>3, <1>4

(* Every variable keeps its type; in particular no channel and no error    *)
(* channel ever holds more than its capacity, and no event is sent that    *)
(* its source has not made.                                                *)
LEMMA TypeInit == Init => TypeOK
<1> SUFFICES ASSUME Init PROVE TypeOK
  OBVIOUS
<1> USE KindsAssumption, SizesAssumption DEF Init
<1>0. kind \in [Sources -> {"stdin", "file", "docker"}]
  OBVIOUS
<1>1. /\ srcPc \in [Sources -> {"open", "poll", "read", "send", "report",
                                "cancel", "done"}]
      /\ \A s \in Sources : srcPc[s] # "send"
      /\ made \in [Sources -> 0 .. MaxLines]
  OBVIOUS
<1>2. /\ stPc \in [Stages -> {"off", "recv", "send", "report", "cancel",
                              "close", "end"}]
      /\ \A st \in Stages : stPc[st] # "send"
  OBVIOUS
<1>3. hand \in [Stages -> Event \cup {<<>>}]
  OBVIOUS
<1>4. /\ <<>> \in Seq(Event) /\ <<>> \in Seq(Errs)
      /\ Len(<<>>) = 0
  OBVIOUS
<1>5. /\ chan \in [Channels -> Seq(Event)]
      /\ \A c \in Channels : Len(chan[c]) <= Cap
      /\ taken \in [Channels -> Nat]
  BY <1>4
<1>6. /\ errCh \in Seq(Errs) /\ Len(errCh) <= ErrCap
      /\ accepted \in Seq(Event) /\ delivered \in Seq(Event)
  BY <1>4
<1>7. /\ transformOn \in BOOLEAN /\ normalized \in BOOLEAN
      /\ ctxDone \in BOOLEAN /\ parentDone \in BOOLEAN
      /\ cut \subseteq Sources /\ closed \subseteq Channels
      /\ failed \subseteq Errs
  OBVIOUS
<1>8. /\ runPc \in {"sink", "report", "cancel", "select", "returned"}
      /\ sinkErr \in {"nil", "sink"}
      /\ result \in Errs \cup {"nil"}
  OBVIOUS
<1> HIDE DEF Init
<1> QED
  BY <1>0, <1>1, <1>2, <1>3, <1>4, <1>5, <1>6, <1>7, <1>8 DEF TypeOK

(* No step of any goroutine breaks a type or a capacity. *)
LEMMA TypeNext == TypeOK /\ [Next]_vars => TypeOK'
<1> SUFFICES ASSUME TypeOK, [Next]_vars PROVE TypeOK'
  OBVIOUS
<1> USE KindsAssumption, SizesAssumption
<1>1. CASE UNCHANGED vars
  BY <1>1 DEF TypeOK, vars
<1>2. ASSUME NEW s \in Sources, SourceStep(s) PROVE TypeOK'
  <2>1. CASE Open(s)
    BY <2>1 DEF TypeOK, Open, SrcGoto
  <2>2. CASE OpenFails(s)
    BY <2>2 DEF TypeOK, OpenFails, SrcFail, SrcGoto, Errs
  <2>3. CASE Poll(s)
    BY <2>3 DEF TypeOK, Poll, SrcGoto
  <2>4. CASE ReadCancelled(s)
    BY <2>4 DEF TypeOK, ReadCancelled, SrcGoto
  <2>5. CASE SourceSend(s)
    <3>1. made[s] \in 1 .. MaxLines
      BY <2>5 DEF TypeOK, SourceSend, SrcGoto
    <3> DEFINE e == <<s, made[s]>>
    <3>2. e \in Event
      BY <3>1 DEF Event, TypeOK
    <3>3. Append(accepted, e) \in Seq(Event)
      BY <3>2 DEF TypeOK
    <3>4. Send("source", e) /\ "source" \in Channels
      BY <2>5 DEF SourceSend, Channels
    <3>5. /\ chan' \in [Channels -> Seq(Event)]
          /\ \A d \in Channels : Len(chan'[d]) <= Cap
      BY <3>2, <3>4, SendFacts
    <3> QED
      BY <2>5, <3>3, <3>5 DEF TypeOK, SourceSend, SrcGoto
  <2>6. CASE SourceAbort(s)
    BY <2>6 DEF TypeOK, SourceAbort, SrcGoto
  <2>7. CASE SourceReport(s)
    BY <2>7, PushFacts DEF TypeOK, SourceReport, SrcGoto, Errs
  <2>8. CASE SourceCancel(s)
    BY <2>8 DEF TypeOK, SourceCancel, SrcGoto
  <2> QED
    BY <1>2, <2>1, <2>2, <2>3, <2>4, <2>5, <2>6, <2>7, <2>8 DEF SourceStep
<1>3. ASSUME NEW s \in Sources, SourceInput(s) PROVE TypeOK'
  <2>1. CASE ReadLine(s)
    BY <2>1 DEF TypeOK, ReadLine, SrcGoto
  <2>2. CASE ReadEnd(s)
    BY <2>2 DEF TypeOK, ReadEnd, SrcGoto
  <2>3. CASE ReadOverlong(s)
    BY <2>3 DEF TypeOK, ReadOverlong, SrcGoto
  <2>4. CASE ReadFails(s)
    BY <2>4 DEF TypeOK, ReadFails, SrcFail, SrcGoto, Errs
  <2> QED
    BY <1>3, <2>1, <2>2, <2>3, <2>4 DEF SourceInput
<1>4. CASE CloseSource
  BY <1>4 DEF TypeOK, CloseSource, Channels
<1>5. ASSUME NEW st \in Stages, StageStep(st) PROVE TypeOK'
  <2> In(st) \in Channels /\ Out(st) \in Channels
    BY DEF In, Out, Channels
  <2>1. CASE StageRecv(st)
    <3>1. Take(In(st)) /\ hand' = [hand EXCEPT ![st] = Head(chan[In(st)])]
      BY <2>1 DEF StageRecv
    <3>2. /\ chan' \in [Channels -> Seq(Event)]
          /\ taken' \in [Channels -> Nat]
          /\ Head(chan[In(st)]) \in Event
          /\ \A d \in Channels : Len(chan'[d]) <= Cap
      BY <3>1, TakeFacts
    <3>3. /\ hand' \in [Stages -> Event \cup {<<>>}]
          /\ hand'[st] \in Event
          /\ \A x \in Stages \ {st} : hand'[x] = hand[x]
      BY <3>1, <3>2 DEF TypeOK
    <3> QED
      BY <2>1, <3>2, <3>3 DEF TypeOK, StageRecv, StGoto
  <2>2. CASE StageEnd(st)
    BY <2>2 DEF TypeOK, StageEnd, StGoto
  <2>3. CASE StageStop(st)
    BY <2>3 DEF TypeOK, StageStop, StGoto
  <2>4. CASE StageSend(st)
    <3>1. hand[st] \in Event
      BY <2>4 DEF TypeOK, StageSend, StGoto
    <3>2. /\ chan' \in [Channels -> Seq(Event)]
          /\ \A d \in Channels : Len(chan'[d]) <= Cap
      BY <2>4, <3>1, SendFacts DEF StageSend
    <3> QED
      BY <2>4, <3>2 DEF TypeOK, StageSend, StGoto
  <2>5. CASE StageAbort(st)
    BY <2>5 DEF TypeOK, StageAbort, StGoto
  <2>6. CASE StageClose(st)
    BY <2>6 DEF TypeOK, StageClose, StGoto
  <2> QED
    BY <1>5, <2>1, <2>2, <2>3, <2>4, <2>5, <2>6 DEF StageStep
<1>6. CASE TransformStep
  <2>1. CASE TransformFails
    BY <2>1 DEF TypeOK, TransformFails, StGoto, Errs
  <2>2. CASE TransformReport
    BY <2>2, PushFacts DEF TypeOK, TransformReport, StGoto, Errs
  <2>3. CASE TransformCancel
    BY <2>3 DEF TypeOK, TransformCancel, StGoto
  <2> QED
    BY <1>6, <2>1, <2>2, <2>3 DEF TransformStep
<1>7. CASE RunStep
  <2>1. CASE SinkRecv
    <3>1. Take("out") /\ "out" \in Channels
      BY <2>1 DEF SinkRecv, Channels
    <3>2. /\ chan' \in [Channels -> Seq(Event)]
          /\ taken' \in [Channels -> Nat]
          /\ Head(chan["out"]) \in Event
          /\ \A d \in Channels : Len(chan'[d]) <= Cap
      BY <3>1, TakeFacts
    <3>3. delivered' \in Seq(Event)
      BY <2>1, <3>2 DEF TypeOK, SinkRecv
    <3> QED
      BY <2>1, <3>2, <3>3 DEF TypeOK, SinkRecv
  <2>2. CASE SinkFails
    <3>1. Take("out") /\ "out" \in Channels
      BY <2>2 DEF SinkFails, Channels
    <3>2. /\ chan' \in [Channels -> Seq(Event)]
          /\ taken' \in [Channels -> Nat]
          /\ \A d \in Channels : Len(chan'[d]) <= Cap
      BY <3>1, TakeFacts
    <3> QED
      BY <2>2, <3>2 DEF TypeOK, SinkFails, Errs
  <2>3. CASE SinkEnd
    BY <2>3 DEF TypeOK, SinkEnd
  <2>4. CASE SinkStop
    BY <2>4 DEF TypeOK, SinkStop
  <2>5. CASE SinkReport
    BY <2>5, PushFacts DEF TypeOK, SinkReport, Errs
  <2>6. CASE SinkCancel
    BY <2>6 DEF TypeOK, SinkCancel
  <2>7. CASE Return
    BY <2>7, ReturnFacts DEF TypeOK, Return
  <2> QED
    BY <1>7, <2>1, <2>2, <2>3, <2>4, <2>5, <2>6, <2>7 DEF RunStep
<1>8. CASE Interrupt
  BY <1>8 DEF TypeOK, Interrupt
<1>9. CASE Terminated
  BY <1>1, <1>9 DEF Terminated
<1> QED
  BY <1>1, <1>2, <1>3, <1>4, <1>5, <1>6, <1>7, <1>8, <1>9 DEF Next

(* With any number of sources and any capacities, no channel, and not      *)
(* errCh, ever holds more than its capacity, and every goroutine that is   *)
(* about to send holds an event.                                           *)
THEOREM TypeCorrect == Spec => []TypeOK
  BY TypeInit, TypeNext, PTL DEF Spec

-----------------------------------------------------------------------------
(* What a step of a source, of the run, or of the world leaves alone. *)
LEMMA SourceFrame ==
  ASSUME TypeOK, NEW s \in Sources, SourceStep(s) \/ SourceInput(s)
  PROVE  /\ srcPc[s] # "done"
         /\ \A x \in Sources \ {s} : srcPc'[x] = srcPc[x]
         /\ UNCHANGED <<conf, stVars, closed, taken, parentDone, runVars>>
  BY DEF TypeOK, SourceStep, SourceInput, Open, OpenFails, Poll, ReadCancelled,
     SourceSend, SourceAbort, SourceReport, SourceCancel, ReadLine, ReadEnd,
     ReadOverlong, ReadFails, SrcFail, SrcGoto

(* The caller of Run, and its own caller, touch no source and no stage. *)
LEMMA RunFrame ==
  ASSUME RunStep \/ Interrupt \/ Terminated \/ UNCHANGED vars
  PROVE  UNCHANGED <<conf, srcVars, stVars, closed, accepted>>
  BY DEF RunStep, SinkRecv, SinkFails, SinkEnd, SinkStop, SinkReport,
     SinkCancel, Return, Interrupt, Terminated, vars

(* Each channel is closed once, by the goroutine that owns it, and only    *)
(* after the last goroutine that sends on it has ended.                    *)
LEMMA CloseNext == TypeOK /\ CloseInv /\ [Next]_vars => CloseInv'
<1> SUFFICES ASSUME TypeOK, CloseInv, [Next]_vars PROVE CloseInv'
  OBVIOUS
<1>1. ASSUME NEW s \in Sources, SourceStep(s) \/ SourceInput(s) PROVE CloseInv'
  BY <1>1, SourceFrame DEF CloseInv, Out
<1>2. CASE CloseSource
  BY <1>2 DEF CloseInv, CloseSource, Out, Stages
<1>3. ASSUME NEW st \in Stages, StageStep(st) PROVE CloseInv'
  <2>1. /\ UNCHANGED <<conf, srcVars>>
        /\ \A x \in Stages \ {st} : stPc'[x] = stPc[x]
    BY <1>3 DEF StageStep, StageRecv, StageEnd, StageStop, StageSend, StageAbort,
       StageClose, StGoto, TypeOK
  <2>2. CASE StageClose(st)
    BY <2>1, <2>2 DEF CloseInv, StageClose, StGoto, Out, Stages, TypeOK
  <2>3. CASE ~StageClose(st)
    <3>1. /\ UNCHANGED closed
          /\ stPc[st] \in {"recv", "send"}
          /\ stPc'[st] \in {"recv", "send", "close"}
      BY <1>3, <2>3 DEF StageStep, StageRecv, StageEnd, StageStop, StageSend,
         StageAbort, StGoto, TypeOK
    <3> QED
      BY <2>1, <3>1 DEF CloseInv, Out, Stages
  <2> QED
    BY <2>2, <2>3
<1>4. CASE TransformStep
  BY <1>4 DEF CloseInv, TransformStep, TransformFails, TransformReport,
     TransformCancel, StGoto, Out, Stages, TypeOK
<1>5. CASE RunStep \/ Interrupt \/ Terminated \/ UNCHANGED vars
  BY <1>5, RunFrame DEF CloseInv, Out
<1> QED
  BY <1>1, <1>2, <1>3, <1>4, <1>5 DEF Next

(* No channel is closed when Run starts. *)
LEMMA CloseInit == Init => CloseInv
  BY DEF Init, CloseInv, Out, Stages

(* A channel is closed exactly when its owner is done: sourceChan after    *)
(* all sources, every other channel by the deferred close of its stage.    *)
THEOREM ClosesCorrect == Spec => []CloseInv
  BY TypeCorrect, CloseInit, CloseNext, PTL DEF Spec

(* No goroutine ever sends on a closed channel or closes one twice, with   *)
(* any number of sources and any capacity.                                 *)
THEOREM NeverPanics == Spec => []NoPanic
<1>1. CloseInv => NoPanic
  BY DEF CloseInv, NoPanic
<1> QED
  BY <1>1, ClosesCorrect, PTL

-----------------------------------------------------------------------------
(* How the stages are strung together. *)
LEMMA Wiring ==
  ASSUME TypeOK, CloseInv
  PROVE  /\ \A st \in Stages :
              /\ In(st) \in Channels \ {"out"}
              /\ Out(st) \in Channels \ {"source"}
              /\ In(st) # Out(st)
         /\ \A st, x \in Stages : st # x =>
              /\ Out(st) # Out(x)
              /\ stPc[st] # "off" /\ stPc[x] # "off" => In(st) # In(x)
  BY DEF In, Out, Stages, Channels, CloseInv, TypeOK

(* A new event at the end of a stretch, and one less at its head. *)
LEMMA StretchSend ==
  ASSUME TypeOK, NEW c \in Channels, NEW e \in Event, Send(c, e), Stretch(c),
         UNCHANGED taken, accepted' \in Seq(Event),
         Put(c) + 1 <= Len(accepted'), accepted'[Put(c) + 1] = e,
         \A i \in 1 .. Len(accepted) : accepted'[i] = accepted[i]
  PROVE  Stretch(c)' /\ Put(c)' = Put(c) + 1
<1>1. /\ Len(chan'[c]) = Len(chan[c]) + 1
      /\ \A i \in 1 .. Len(chan[c]) : chan'[c][i] = chan[c][i]
      /\ chan'[c][Len(chan[c]) + 1] = e
  BY SendFacts
<1>2. /\ taken[c] \in Nat /\ taken'[c] = taken[c] /\ Len(chan[c]) \in Nat
      /\ Len(accepted) \in Nat
  BY DEF TypeOK
<1>3. Put(c)' = Put(c) + 1
  BY <1>1, <1>2 DEF Put
<1>4. ASSUME NEW i \in 1 .. Len(chan'[c])
      PROVE  chan'[c][i] = accepted'[taken'[c] + i]
  <2>1. CASE i \in 1 .. Len(chan[c])
    <3>1. chan[c][i] = accepted[taken[c] + i] /\ taken[c] + i \in 1 .. Len(accepted)
      BY <1>2, <2>1 DEF Stretch, Put
    <3> QED
      BY <1>1, <1>2, <2>1, <3>1
  <2>2. CASE i = Len(chan[c]) + 1
    BY <1>1, <1>2, <2>2 DEF Put
  <2> QED
    BY <1>1, <1>2, <2>1, <2>2
<1> QED
  BY <1>3, <1>4 DEF Stretch

(* What is received is the next of the accepted events. *)
LEMMA StretchTake ==
  ASSUME TypeOK, NEW c \in Channels, Take(c), Stretch(c), UNCHANGED accepted
  PROVE  /\ Stretch(c)' /\ Put(c)' = Put(c)
         /\ taken[c] + 1 \in 1 .. Len(accepted)
         /\ Head(chan[c]) = accepted[taken[c] + 1]
<1>1. /\ Len(chan[c]) \in Nat /\ Len(chan[c]) > 0
      /\ Len(chan'[c]) = Len(chan[c]) - 1
      /\ taken'[c] = taken[c] + 1
  BY TakeFacts
<1>2. taken[c] \in Nat /\ Len(accepted) \in Nat
  BY DEF TypeOK
<1>3. Put(c)' = Put(c)
  <2>1. taken'[c] + Len(chan'[c]) = taken[c] + Len(chan[c])
    BY <1>1, <1>2
  <2> QED
    BY <2>1 DEF Put
<1>4. ASSUME NEW i \in 1 .. Len(chan'[c])
      PROVE  chan'[c][i] = accepted'[taken'[c] + i]
  <2>1. i + 1 \in 1 .. Len(chan[c]) /\ taken[c] + (i + 1) = taken'[c] + i
    BY <1>1, <1>2
  <2>2. chan[c][i + 1] = accepted[taken[c] + (i + 1)]
    BY <2>1 DEF Stretch
  <2>3. chan'[c][i] = chan[c][i + 1]
    BY TakeFacts
  <2> QED
    BY <2>1, <2>2, <2>3
<1>5. taken[c] + 1 \in 1 .. Len(accepted)
  <2>1. taken[c] + Len(chan[c]) <= Len(accepted)
    BY DEF Stretch, Put
  <2> QED
    BY <1>1, <1>2, <2>1
<1>6. Head(chan[c]) = accepted[taken[c] + 1]
  <2>1. Head(chan[c]) = chan[c][1]
    BY TakeFacts
  <2>2. 1 \in 1 .. Len(chan[c])
    BY <1>1
  <2> QED
    BY <2>1, <2>2 DEF Stretch
<1>7. Stretch(c)'
  BY <1>3, <1>4 DEF Stretch
<1> QED
  BY <1>3, <1>5, <1>6, <1>7

(* A channel that a step neither sends on nor takes from keeps its stretch. *)
LEMMA StretchKeep ==
  ASSUME TypeOK, NEW c \in Channels, Stretch(c),
         chan'[c] = chan[c], taken'[c] = taken[c],
         accepted' \in Seq(Event), Len(accepted') >= Len(accepted),
         \A i \in 1 .. Len(accepted) : accepted'[i] = accepted[i]
  PROVE  Stretch(c)' /\ Put(c)' = Put(c)
<1>1. taken[c] \in Nat /\ Len(chan[c]) \in Nat /\ Len(accepted) \in Nat
      /\ Len(accepted') \in Nat
  BY DEF TypeOK
<1>2. \A i \in 1 .. Len(chan[c]) : taken[c] + i \in 1 .. Len(accepted)
  BY <1>1 DEF Stretch, Put
<1> QED
  BY <1>1, <1>2 DEF Stretch, Put

(* A step that touches neither the channels nor the accepted events, and   *)
(* lets a stage at most give up, keeps the flow. *)
LEMMA FlowKeep ==
  ASSUME TypeOK, FlowInv, UNCHANGED <<transformOn, chan, taken, accepted, hand,
                                      sinkErr, delivered>>,
         \A st \in Stages : \/ stPc'[st] = stPc[st]
                            \/ stPc'[st] \notin {"recv", "send"},
         runPc' = runPc \/ runPc' # "sink"
  PROVE  FlowInv'
<1>1. \A c \in Channels : Stretch(c)' /\ Put(c)' = Put(c)
  BY DEF FlowInv, Stretch, Put
<1>2. \A st \in Stages : In(st)' = In(st) /\ Out(st)' = Out(st)
  BY DEF In, Out
<1>3. \A st \in Stages : Out(st) \in Channels
  BY DEF Out, Channels
<1>4. \A st \in Stages : PassedOn(st)'
  BY <1>1, <1>2, <1>3 DEF FlowInv, PassedOn
<1> QED
  BY <1>1, <1>4 DEF FlowInv, GapFree, Channels

(* The flow, when a source sends on sourceChan ... *)
LEMMA FlowSourceSend ==
  ASSUME TypeOK, TypeOK', CloseInv, FlowInv, NEW s \in Sources, SourceSend(s)
  PROVE  FlowInv'
<1> DEFINE e == <<s, made[s]>>
<1>1. e \in Event
  BY DEF TypeOK, SourceSend, SrcGoto, Event
<1>2. /\ Send("source", e) /\ "source" \in Channels
      /\ accepted' = Append(accepted, e)
      /\ UNCHANGED <<conf, stVars, taken, runVars>>
  BY DEF SourceSend, Channels
<1> HIDE DEF e
<1>3. /\ accepted' \in Seq(Event) /\ Len(accepted) \in Nat
      /\ Len(accepted') = Len(accepted) + 1
      /\ accepted'[Len(accepted) + 1] = e
      /\ \A i \in 1 .. Len(accepted) : accepted'[i] = accepted[i]
  BY <1>1, <1>2 DEF TypeOK
<1>4. Stretch("source")' /\ Put("source")' = Put("source") + 1
  BY <1>1, <1>2, <1>3, StretchSend DEF FlowInv
<1>5. \A c \in Channels \ {"source"} : chan'[c] = chan[c] /\ taken'[c] = taken[c]
  BY <1>1, <1>2, SendFacts
<1>6. \A c \in Channels \ {"source"} : Stretch(c)' /\ Put(c)' = Put(c)
  BY <1>3, <1>5, StretchKeep DEF FlowInv
<1>7. ASSUME NEW st \in Stages PROVE PassedOn(st)'
  <2>1. In(st)' = In(st) /\ Out(st)' = Out(st)
    BY <1>2 DEF In, Out
  <2>2. Out(st) \in Channels \ {"source"} /\ In(st) \in Channels
    BY Wiring
  <2>3. Put(Out(st))' = Put(Out(st)) /\ taken' = taken
    BY <1>2, <1>6, <2>2
  <2>4. stPc[st] = "send" => taken[In(st)] \in 1 .. Len(accepted)
    <3>1. /\ taken[In(st)] \in Nat /\ Len(chan[In(st)]) \in Nat
          /\ taken[Out(st)] \in Nat /\ Len(chan[Out(st)]) \in Nat
      BY <2>2 DEF TypeOK
    <3>2. taken[In(st)] + Len(chan[In(st)]) <= Len(accepted)
      BY <2>2 DEF FlowInv, Stretch, Put
    <3>3. stPc[st] = "send" => taken[Out(st)] + Len(chan[Out(st)]) + 1 = taken[In(st)]
      BY DEF FlowInv, PassedOn, Put
    <3> QED
      BY <1>3, <3>1, <3>2, <3>3
  <2> QED
    BY <1>2, <1>3, <2>1, <2>3, <2>4 DEF FlowInv, PassedOn
<1>8. GapFree'
  BY <1>2, <1>3 DEF FlowInv, GapFree, TypeOK
<1> QED
  BY <1>2, <1>3, <1>4, <1>6, <1>7, <1>8 DEF FlowInv

(* ... when a stage receives ... *)
LEMMA FlowStageRecv ==
  ASSUME TypeOK, TypeOK', CloseInv, FlowInv, NEW st \in Stages, StageRecv(st)
  PROVE  FlowInv'
<1>0. PICK c \in Channels \ {"out"} : c = In(st)
  BY Wiring
<1>1. /\ Take(c)
      /\ stPc[st] = "recv" /\ stPc' = [stPc EXCEPT ![st] = "send"]
      /\ hand' = [hand EXCEPT ![st] = Head(chan[c])]
      /\ UNCHANGED <<conf, accepted, runVars>>
  BY <1>0 DEF StageRecv, StGoto
<1>2. \A x \in Stages : In(x)' = In(x) /\ Out(x)' = Out(x)
  BY <1>1 DEF In, Out
<1>3. /\ Stretch(c)' /\ Put(c)' = Put(c)
      /\ Head(chan[c]) = accepted[taken[c] + 1]
  BY <1>1, StretchTake DEF FlowInv
<1>4. /\ taken'[c] = taken[c] + 1
      /\ \A d \in Channels \ {c} : chan'[d] = chan[d] /\ taken'[d] = taken[d]
  BY <1>1, TakeFacts
<1>5. accepted' \in Seq(Event) /\ Len(accepted) \in Nat
  BY DEF TypeOK
<1>6. \A d \in Channels \ {c} : Stretch(d)' /\ Put(d)' = Put(d)
  BY <1>1, <1>4, <1>5, StretchKeep DEF FlowInv
<1>7. ASSUME NEW x \in Stages PROVE PassedOn(x)'
  <2>1. Put(Out(x))' = Put(Out(x))
    BY <1>3, <1>6, Wiring
  <2>2. CASE x = st
    <3>1. stPc'[x] = "send" /\ hand'[x] = accepted[taken[c] + 1]
      BY <1>1, <1>3, <2>2 DEF TypeOK
    <3>2. Put(Out(x)) = taken[In(x)]
      BY <1>0, <1>1, <2>2 DEF FlowInv, PassedOn
    <3> QED
      BY <1>0, <1>1, <1>2, <1>4, <2>1, <2>2, <3>1, <3>2 DEF PassedOn
  <2>3. CASE x # st
    <3>1. stPc'[x] = stPc[x] /\ hand'[x] = hand[x]
      BY <1>1, <2>3 DEF TypeOK
    <3>2. stPc[x] # "off" => taken'[In(x)] = taken[In(x)]
      BY <1>0, <1>1, <1>4, <2>3, Wiring
    <3> QED
      BY <1>1, <1>2, <2>1, <3>1, <3>2 DEF FlowInv, PassedOn
  <2> QED
    BY <2>2, <2>3
<1>8. Put("source")' = Len(accepted') /\ taken'["out"] = taken["out"]
  BY <1>1, <1>3, <1>4, <1>6 DEF FlowInv, Channels
<1> QED
  BY <1>1, <1>3, <1>6, <1>7, <1>8 DEF FlowInv, GapFree

(* ... when a stage sends what it holds ... *)
LEMMA FlowStageSend ==
  ASSUME TypeOK, TypeOK', CloseInv, FlowInv, NEW st \in Stages, StageSend(st)
  PROVE  FlowInv'
<1> DEFINE c == Out(st)
           e == hand[st]
<1>1. /\ Send(c, e) /\ c \in Channels \ {"source"}
      /\ stPc[st] = "send" /\ stPc' = [stPc EXCEPT ![st] = "recv"]
      /\ UNCHANGED <<conf, hand, taken, accepted, runVars>>
  BY Wiring DEF StageSend, StGoto
<1>2. e \in Event
  BY <1>1 DEF TypeOK
<1>3. \A x \in Stages : In(x)' = In(x) /\ Out(x)' = Out(x)
  BY <1>1 DEF In, Out
<1>4. Put(c) + 1 = taken[In(st)] /\ e = accepted[taken[In(st)]]
  BY <1>1 DEF FlowInv, PassedOn
<1>5. accepted' \in Seq(Event) /\ Len(accepted) \in Nat
  BY DEF TypeOK
<1>6. Put(c) + 1 <= Len(accepted)
  <2>1. In(st) \in Channels
    BY Wiring
  <2>2. taken[In(st)] + Len(chan[In(st)]) <= Len(accepted)
    BY <2>1 DEF FlowInv, Stretch, Put
  <2>3. taken[In(st)] \in Nat /\ Len(chan[In(st)]) \in Nat
    BY <2>1 DEF TypeOK
  <2> QED
    BY <1>4, <1>5, <2>2, <2>3
<1> HIDE DEF c, e
<1>7. Stretch(c)' /\ Put(c)' = Put(c) + 1
  BY <1>1, <1>2, <1>4, <1>5, <1>6, StretchSend DEF FlowInv
<1>8. \A d \in Channels \ {c} : chan'[d] = chan[d]
  BY <1>1, <1>2, SendFacts
<1>9. \A d \in Channels \ {c} : Stretch(d)' /\ Put(d)' = Put(d)
  BY <1>1, <1>5, <1>8, StretchKeep DEF FlowInv
<1>10. ASSUME NEW x \in Stages PROVE PassedOn(x)'
  <2>1. CASE x = st
    <3>1. stPc'[x] = "recv" /\ Out(x) = c
      BY <1>1, <2>1 DEF TypeOK, c
    <3> QED
      BY <1>1, <1>3, <1>4, <1>7, <2>1, <3>1 DEF PassedOn
  <2>2. CASE x # st
    <3>1. stPc'[x] = stPc[x]
      BY <1>1, <2>2 DEF TypeOK
    <3>2. Put(Out(x))' = Put(Out(x))
      BY <1>9, <2>2, Wiring DEF c
    <3> QED
      BY <1>1, <1>3, <3>1, <3>2 DEF FlowInv, PassedOn
  <2> QED
    BY <2>1, <2>2
<1>11. Put("source")' = Len(accepted')
  BY <1>1, <1>9 DEF FlowInv, Channels
<1> QED
  BY <1>1, <1>7, <1>9, <1>10, <1>11 DEF FlowInv, GapFree

(* ... and when the sink takes an event, whether it can write it or not. *)
LEMMA FlowSinkTake ==
  ASSUME TypeOK, TypeOK', CloseInv, FlowInv, SinkRecv \/ SinkFails
  PROVE  FlowInv'
<1>1. /\ Take("out") /\ "out" \in Channels /\ runPc = "sink" /\ sinkErr = "nil"
      /\ UNCHANGED <<conf, stVars, accepted>>
  BY DEF SinkRecv, SinkFails, Channels, FlowInv
<1>2. \A x \in Stages : In(x)' = In(x) /\ Out(x)' = Out(x)
  BY <1>1 DEF In, Out
<1>3. /\ Stretch("out")' /\ Put("out")' = Put("out")
      /\ taken["out"] + 1 \in 1 .. Len(accepted)
      /\ Head(chan["out"]) = accepted[taken["out"] + 1]
  BY <1>1, StretchTake DEF FlowInv
<1>4. /\ taken'["out"] = taken["out"] + 1 /\ Head(chan["out"]) \in Event
      /\ \A d \in Channels \ {"out"} : chan'[d] = chan[d] /\ taken'[d] = taken[d]
  BY <1>1, TakeFacts
<1>5. accepted' \in Seq(Event) /\ Len(accepted) \in Nat
  BY DEF TypeOK
<1>6. \A d \in Channels \ {"out"} : Stretch(d)' /\ Put(d)' = Put(d)
  BY <1>1, <1>4, <1>5, StretchKeep DEF FlowInv
<1>7. ASSUME NEW x \in Stages PROVE PassedOn(x)'
  <2>1. Put(Out(x))' = Put(Out(x)) /\ taken'[In(x)] = taken[In(x)]
    BY <1>3, <1>4, <1>6, Wiring
  <2> QED
    BY <1>1, <1>2, <2>1 DEF FlowInv, PassedOn
<1>8. Put("source")' = Len(accepted')
  BY <1>1, <1>6 DEF FlowInv, Channels
<1>9. Len(delivered) = taken["out"] /\ GapFree
  BY <1>1 DEF FlowInv
<1>10. CASE SinkRecv
  <2>1. delivered' = Append(delivered, Head(chan["out"])) /\ UNCHANGED <<runPc, sinkErr>>
    BY <1>10 DEF SinkRecv
  <2>2. /\ Len(delivered') = Len(delivered) + 1
        /\ delivered'[Len(delivered) + 1] = Head(chan["out"])
        /\ \A i \in 1 .. Len(delivered) : delivered'[i] = delivered[i]
        /\ Len(delivered) \in Nat
    BY <1>4, <2>1 DEF TypeOK
  <2>3. GapFree'
    BY <1>1, <1>3, <1>5, <1>9, <2>2 DEF GapFree
  <2> QED
    BY <1>1, <1>3, <1>4, <1>6, <1>7, <1>8, <1>9, <2>1, <2>2, <2>3 DEF FlowInv
<1>11. CASE SinkFails
  <2>1. UNCHANGED delivered /\ sinkErr' = "sink" /\ runPc' = "report"
    BY <1>11 DEF SinkFails
  <2>2. GapFree'
    BY <1>1, <1>9, <2>1 DEF GapFree
  <2> QED
    BY <1>3, <1>6, <1>7, <1>8, <2>1, <2>2 DEF FlowInv
<1> QED
  BY <1>10, <1>11

(* No step makes a gap in what the channels and the stages carry. *)
LEMMA FlowNext == TypeOK /\ TypeOK' /\ CloseInv /\ FlowInv /\ [Next]_vars => FlowInv'
<1> SUFFICES ASSUME TypeOK, TypeOK', CloseInv, FlowInv, [Next]_vars PROVE FlowInv'
  OBVIOUS
<1>1. ASSUME NEW s \in Sources, SourceStep(s) \/ SourceInput(s) PROVE FlowInv'
  <2>1. CASE SourceSend(s)
    BY <2>1, FlowSourceSend
  <2>2. CASE ~SourceSend(s)
    <3>1. UNCHANGED <<transformOn, chan, taken, accepted, hand, sinkErr,
                      delivered, stPc, runPc>>
      BY <1>1, <2>2 DEF SourceStep, SourceInput, Open, OpenFails, Poll,
         ReadCancelled, SourceAbort, SourceReport, SourceCancel, ReadLine,
         ReadEnd, ReadOverlong, ReadFails
    <3> QED
      BY <3>1, FlowKeep
  <2> QED
    BY <2>1, <2>2
<1>2. CASE CloseSource
  BY <1>2, FlowKeep DEF CloseSource
<1>3. ASSUME NEW st \in Stages, StageStep(st) PROVE FlowInv'
  <2>1. CASE StageRecv(st)
    BY <2>1, FlowStageRecv
  <2>2. CASE StageSend(st)
    BY <2>2, FlowStageSend
  <2>3. CASE ~StageRecv(st) /\ ~StageSend(st)
    <3>1. /\ UNCHANGED <<transformOn, chan, taken, accepted, hand, sinkErr,
                         delivered, runPc>>
          /\ \A x \in Stages : \/ stPc'[x] = stPc[x]
                               \/ stPc'[x] \notin {"recv", "send"}
      BY <1>3, <2>3 DEF StageStep, StageEnd, StageStop, StageAbort, StageClose,
         StGoto, TypeOK
    <3> QED
      BY <3>1, FlowKeep
  <2> QED
    BY <2>1, <2>2, <2>3
<1>4. CASE TransformStep
  <2>1. /\ UNCHANGED <<transformOn, chan, taken, accepted, hand, sinkErr,
                       delivered, runPc>>
        /\ \A x \in Stages : \/ stPc'[x] = stPc[x]
                             \/ stPc'[x] \notin {"recv", "send"}
    BY <1>4 DEF TransformStep, TransformFails, TransformReport, TransformCancel,
       StGoto, TypeOK, Stages
  <2> QED
    BY <2>1, FlowKeep
<1>5. CASE RunStep
  <2>1. CASE SinkRecv \/ SinkFails
    BY <2>1, FlowSinkTake
  <2>2. CASE ~(SinkRecv \/ SinkFails)
    <3>1. /\ UNCHANGED <<transformOn, chan, taken, accepted, stVars, sinkErr,
                         delivered>>
          /\ runPc' # "sink"
      BY <1>5, <2>2 DEF RunStep, SinkEnd, SinkStop, SinkReport, SinkCancel, Return
    <3> QED
      BY <3>1, FlowKeep
  <2> QED
    BY <2>1, <2>2
<1>6. CASE Interrupt \/ Terminated \/ UNCHANGED vars
  BY <1>6, FlowKeep DEF Interrupt, Terminated, vars
<1> QED
  BY <1>1, <1>2, <1>3, <1>4, <1>5, <1>6 DEF Next

(* The channels are empty when Run starts. *)
LEMMA FlowInit == Init => FlowInv
<1>1. <<>> \in Seq(Event) /\ Len(<<>>) = 0
  OBVIOUS
<1> QED
  BY <1>1 DEF Init, FlowInv, Stretch, Put, PassedOn, GapFree, In, Out, Stages,
     Channels

(* Every channel holds a stretch of the accepted events, each stage holds  *)
(* the event between two stretches, and the sink has had all before them.  *)
THEOREM FlowCorrect == Spec => []FlowInv
  BY TypeCorrect, ClosesCorrect, FlowInit, FlowNext, PTL DEF Spec

(* What the sink sees is a prefix of what the first channel took, whatever *)
(* the number of sources, the capacities, the failures and cancellations.  *)
THEOREM NeverAGap == Spec => []GapFree
<1>1. FlowInv => GapFree
  BY DEF FlowInv
<1> QED
  BY <1>1, FlowCorrect, PTL

-----------------------------------------------------------------------------
(* Nothing but Return takes an error from errCh, and Run returns once. *)
LEMMA ReportedStays ==
  ASSUME TypeOK, [Next]_vars, Reported
  PROVE  Reported'
<1>1. ASSUME NEW s \in Sources, SourceStep(s) \/ SourceInput(s) PROVE Reported'
  <2>1. UNCHANGED runPc
    BY <1>1, SourceFrame
  <2>2. errCh' = errCh \/ SourceReport(s)
    BY <1>1 DEF SourceStep, SourceInput, Open, OpenFails, Poll, ReadCancelled,
       SourceSend, SourceAbort, SourceCancel, ReadLine, ReadEnd, ReadOverlong,
       ReadFails, SrcFail
  <2>3. SourceReport(s) => errCh' # <<>>
    BY PushFacts DEF SourceReport, Errs
  <2> QED
    BY <2>1, <2>2, <2>3 DEF Reported
<1>2. CASE CloseSource
  BY <1>2 DEF CloseSource, Reported
<1>3. ASSUME NEW st \in Stages, StageStep(st) PROVE Reported'
  BY <1>3 DEF StageStep, StageRecv, StageEnd, StageStop, StageSend, StageAbort,
     StageClose, Reported
<1>4. CASE TransformStep
  BY <1>4, PushFacts DEF TransformStep, TransformFails, TransformReport,
     TransformCancel, Reported, Errs
<1>5. CASE RunStep
  BY <1>5, PushFacts DEF RunStep, SinkRecv, SinkFails, SinkEnd, SinkStop,
     SinkReport, SinkCancel, Return, Reported, Errs
<1>6. CASE Interrupt \/ Terminated \/ UNCHANGED vars
  BY <1>6 DEF Interrupt, Terminated, vars, Reported
<1> QED
  BY <1>1, <1>2, <1>3, <1>4, <1>5, <1>6 DEF Next

(* An error is pushed before the cancellation that follows it. *)
LEMMA ErrNext == TypeOK /\ FlowInv /\ ErrInv /\ [Next]_vars => ErrInv'
<1> SUFFICES ASSUME TypeOK, FlowInv, ErrInv, [Next]_vars PROVE ErrInv'
  OBVIOUS
<1>1. Reported => Reported'
  BY ReportedStays
<1>2. "transform" \notin Sources /\ "sink" \notin Sources
  BY SourcesAssumption
<1>3. ASSUME NEW s \in Sources, SourceStep(s) \/ SourceInput(s) PROVE ErrInv'
  <2>1. /\ srcPc[s] # "done"
        /\ \A x \in Sources \ {s} : srcPc'[x] = srcPc[x]
        /\ UNCHANGED <<stPc, parentDone, runPc, sinkErr>>
    BY <1>3, SourceFrame
  <2>2. CASE SourceReport(s)
    <3>1. /\ errCh' # <<>>
          /\ srcPc' = [srcPc EXCEPT ![s] = "cancel"]
          /\ UNCHANGED <<ctxDone, failed>>
      BY <2>2, PushFacts DEF SourceReport, SrcGoto, Errs
    <3>2. Reported'
      BY <3>1 DEF Reported
    <3> QED
      BY <1>2, <2>1, <3>1, <3>2 DEF ErrInv, TypeOK
  <2>3. CASE SourceCancel(s)
    <3>1. /\ srcPc[s] = "cancel"
          /\ srcPc' = [srcPc EXCEPT ![s] = "done"]
          /\ UNCHANGED failed
      BY <2>3 DEF SourceCancel, SrcGoto
    <3>2. Reported'
      BY <1>1, <3>1 DEF ErrInv
    <3> QED
      BY <1>2, <2>1, <3>1, <3>2 DEF ErrInv, TypeOK
  <2>4. CASE OpenFails(s) \/ ReadFails(s)
    <3>1. /\ srcPc' = [srcPc EXCEPT ![s] = "report"]
          /\ failed' = failed \cup {s}
          /\ UNCHANGED ctxDone
      BY <2>4 DEF OpenFails, ReadFails, SrcFail, SrcGoto
    <3> QED
      BY <1>1, <1>2, <2>1, <3>1 DEF ErrInv, TypeOK
  <2>5. CASE ~(\/ SourceReport(s) \/ SourceCancel(s)
               \/ OpenFails(s) \/ ReadFails(s))
    <3>1. /\ srcPc[s] \notin {"report", "cancel"} /\ srcPc'[s] # "cancel"
          /\ UNCHANGED <<ctxDone, failed>>
      BY <1>3, <2>5 DEF SourceStep, SourceInput, Open, Poll, ReadCancelled,
         SourceSend, SourceAbort, ReadLine, ReadEnd, ReadOverlong, SrcGoto, TypeOK
    <3>2. s \notin failed
      BY <2>1, <3>1 DEF ErrInv
    <3> QED
      BY <1>1, <1>2, <2>1, <3>1, <3>2 DEF ErrInv
  <2> QED
    BY <2>2, <2>3, <2>4, <2>5
<1>4. CASE CloseSource
  BY <1>1, <1>4 DEF CloseSource, ErrInv
<1>5. ASSUME NEW st \in Stages, StageStep(st) PROVE ErrInv'
  <2>1. /\ UNCHANGED <<srcPc, ctxDone, parentDone, failed, runPc, sinkErr>>
        /\ stPc[st] \in {"recv", "send", "close"}
        /\ stPc'[st] \in {"recv", "send", "close", "end"}
        /\ stPc[st] = "close" => stPc'[st] = "end"
        /\ \A x \in Stages \ {st} : stPc'[x] = stPc[x]
    BY <1>5 DEF StageStep, StageRecv, StageEnd, StageStop, StageSend,
       StageAbort, StageClose, StGoto, TypeOK
  <2>2. "transform" \in Stages
    BY DEF Stages
  <2> QED
    BY <1>1, <2>1, <2>2 DEF ErrInv
<1>6. CASE TransformStep
  <2>1. UNCHANGED <<srcPc, parentDone, runPc, sinkErr>> /\ "transform" \in Stages
    BY <1>6 DEF TransformStep, TransformFails, TransformReport, TransformCancel,
       Stages
  <2>2. CASE TransformFails
    <3>1. /\ stPc'["transform"] = "report" /\ failed' = failed \cup {"transform"}
          /\ UNCHANGED ctxDone
      BY <2>1, <2>2 DEF TransformFails, StGoto, TypeOK
    <3> QED
      BY <1>1, <1>2, <2>1, <3>1 DEF ErrInv
  <2>3. CASE TransformReport
    <3>1. /\ stPc'["transform"] = "cancel" /\ errCh' # <<>>
          /\ UNCHANGED <<ctxDone, failed>>
      BY <2>1, <2>3, PushFacts DEF TransformReport, StGoto, TypeOK, Errs
    <3>2. Reported'
      BY <3>1 DEF Reported
    <3> QED
      BY <1>2, <2>1, <3>1, <3>2 DEF ErrInv
  <2>4. CASE TransformCancel
    <3>1. /\ stPc["transform"] = "cancel" /\ stPc'["transform"] = "close"
          /\ UNCHANGED failed
      BY <2>1, <2>4 DEF TransformCancel, StGoto, TypeOK
    <3>2. Reported'
      BY <1>1, <3>1 DEF ErrInv
    <3> QED
      BY <1>2, <2>1, <3>1, <3>2 DEF ErrInv
  <2> QED
    BY <1>6, <2>2, <2>3, <2>4 DEF TransformStep
<1>7. CASE RunStep
  <2>1. UNCHANGED <<srcPc, stPc, parentDone>>
    BY <1>7, RunFrame DEF RunStep, SinkRecv, SinkFails, SinkEnd, SinkStop,
       SinkReport, SinkCancel, Return
  <2>2. CASE SinkRecv
    BY <1>1, <2>1, <2>2 DEF SinkRecv, ErrInv
  <2>3. CASE SinkFails
    BY <1>1, <1>2, <2>1, <2>3 DEF SinkFails, ErrInv
  <2>4. CASE SinkEnd \/ SinkStop
    BY <1>1, <2>1, <2>4 DEF SinkEnd, SinkStop, ErrInv, FlowInv
  <2>5. CASE SinkReport
    <3>1. errCh' # <<>>
      BY <2>5, PushFacts DEF SinkReport, Errs
    <3>2. Reported'
      BY <3>1 DEF Reported
    <3> QED
      BY <2>1, <2>5, <3>2 DEF SinkReport, ErrInv
  <2>6. CASE SinkCancel
    <3>1. /\ runPc = "cancel" /\ runPc' = "select"
          /\ UNCHANGED <<failed, sinkErr>>
      BY <2>6 DEF SinkCancel
    <3>2. Reported'
      BY <1>1, <3>1 DEF ErrInv
    <3> QED
      BY <2>1, <3>1, <3>2 DEF ErrInv
  <2>7. CASE Return
    <3>1. Reported' /\ runPc' = "returned" /\ UNCHANGED <<failed, sinkErr>>
      BY <2>7 DEF Return, Reported
    <3> QED
      BY <2>1, <3>1 DEF ErrInv
  <2> QED
    BY <1>7, <2>2, <2>3, <2>4, <2>5, <2>6, <2>7 DEF RunStep
<1>8. CASE Interrupt
  BY <1>1, <1>8 DEF Interrupt, ErrInv
<1>9. CASE Terminated \/ UNCHANGED vars
  BY <1>1, <1>9 DEF Terminated, vars, ErrInv
<1> QED
  BY <1>3, <1>4, <1>5, <1>6, <1>7, <1>8, <1>9 DEF Next

(* There is no error when Run starts. *)
LEMMA ErrInit == Init => ErrInv
  BY DEF Init, ErrInv, Stages

(* An error that a goroutine has met is on errCh before the cancellation   *)
(* that it causes can end the sink.                                        *)
THEOREM ErrorsCorrect == Spec => []ErrInv
  BY TypeCorrect, FlowCorrect, ErrInit, ErrNext, PTL DEF Spec

-----------------------------------------------------------------------------
(* What a step does to a channel: it sends on it, takes from it, or leaves *)
(* it as it is; what is closed stays closed. *)
LEMMA ChannelStep ==
  ASSUME TypeOK, [Next]_vars, NEW c \in Channels
  PROVE  /\ closed \subseteq closed'
         /\ \/ chan'[c] = chan[c] /\ taken'[c] = taken[c]
            \/ Take(c)
            \/ taken'[c] = taken[c] /\ c = "source"
               /\ \E s \in Sources : SourceSend(s)
            \/ taken'[c] = taken[c]
               /\ \E st \in Stages : c = Out(st) /\ StageSend(st)
<1>1. ASSUME NEW s \in Sources, SourceSend(s)
      PROVE  /\ UNCHANGED <<closed, taken>>
             /\ c # "source" => chan'[c] = chan[c]
  BY <1>1 DEF SourceSend, Send, TypeOK
<1>2. ASSUME NEW s \in Sources, SourceStep(s) \/ SourceInput(s), ~SourceSend(s)
      PROVE  UNCHANGED <<closed, taken, chan>>
  BY <1>2 DEF SourceStep, SourceInput, Open, OpenFails, Poll, ReadCancelled,
     SourceAbort, SourceReport, SourceCancel, ReadLine, ReadEnd, ReadOverlong,
     ReadFails
<1>3. CloseSource => closed \subseteq closed' /\ UNCHANGED <<taken, chan>>
  BY DEF CloseSource
<1>4. ASSUME NEW st \in Stages, StageRecv(st)
      PROVE  /\ UNCHANGED closed
             /\ IF c = In(st) THEN Take(c)
                ELSE chan'[c] = chan[c] /\ taken'[c] = taken[c]
  <2>1. Take(In(st)) /\ UNCHANGED closed
    BY <1>4 DEF StageRecv
  <2>2. CASE c = In(st)
    BY <2>1, <2>2, Zenon
  <2>3. CASE c # In(st)
    BY <2>1, <2>3 DEF Take, TypeOK
  <2> QED
    BY <2>1, <2>2, <2>3
<1>5. ASSUME NEW st \in Stages, StageSend(st)
      PROVE  /\ UNCHANGED <<closed, taken>>
             /\ c # Out(st) => chan'[c] = chan[c]
  BY <1>5 DEF StageSend, Send, TypeOK
<1>6. ASSUME NEW st \in Stages, StageStep(st), ~StageRecv(st), ~StageSend(st)
      PROVE  closed \subseteq closed' /\ UNCHANGED <<taken, chan>>
  BY <1>6 DEF StageStep, StageEnd, StageStop, StageAbort, StageClose
<1>7. TransformStep => UNCHANGED <<closed, taken, chan>>
  BY DEF TransformStep, TransformFails, TransformReport, TransformCancel
<1>8. SinkRecv \/ SinkFails =>
        /\ UNCHANGED closed
        /\ IF c = "out" THEN Take(c)
           ELSE chan'[c] = chan[c] /\ taken'[c] = taken[c]
  BY DEF SinkRecv, SinkFails, Take, TypeOK
<1>9. \/ RunStep /\ ~SinkRecv /\ ~SinkFails
      \/ Interrupt \/ Terminated \/ UNCHANGED vars
      => UNCHANGED <<closed, taken, chan>>
  BY DEF RunStep, SinkEnd, SinkStop, SinkReport, SinkCancel, Return, Interrupt,
     Terminated, vars
<1> QED
  BY <1>1, <1>2, <1>3, <1>4, <1>5, <1>6, <1>7, <1>8, <1>9 DEF Next

(* A closed channel that is empty stays so, and an owner that has stopped  *)
(* sends no more. *)
LEMMA DrainedStays ==
  ASSUME TypeOK, CloseInv, [Next]_vars, NEW c \in Channels, Drained(c)
  PROVE  Drained(c)' /\ taken'[c] = taken[c]
<1>1. c \in closed /\ chan[c] = <<>>
  BY DEF Drained
<1>2. ~Take(c)
  BY <1>1 DEF Take
<1>3. ~(c = "source" /\ \E s \in Sources : SourceSend(s))
  BY <1>1 DEF CloseInv, SourceSend, SrcGoto
<1>4. ~\E st \in Stages : c = Out(st) /\ StageSend(st)
  BY <1>1 DEF CloseInv, StageSend, StGoto
<1> QED
  BY <1>1, <1>2, <1>3, <1>4, ChannelStep DEF Drained

(* Only the owner of a channel puts something on it. *)
LEMMA PutStays ==
  ASSUME TypeOK, CloseInv, FlowInv, [Next]_vars, NEW st \in Stages,
         stPc[st] # "send"
  PROVE  Put(Out(st))' = Put(Out(st))
<1> PICK c \in Channels \ {"source"} : c = Out(st)
  BY Wiring
<1>1. CASE chan'[c] = chan[c] /\ taken'[c] = taken[c]
  BY <1>1 DEF Put, Out
<1>2. CASE Take(c)
  <2>1. /\ Len(chan[c]) \in Nat /\ Len(chan'[c]) = Len(chan[c]) - 1
        /\ taken'[c] = taken[c] + 1 /\ taken[c] \in Nat
    BY <1>2, TakeFacts DEF TypeOK
  <2>2. taken'[c] + Len(chan'[c]) = taken[c] + Len(chan[c])
    BY <2>1
  <2> QED
    BY <2>2 DEF Put, Out
<1>3. ASSUME NEW x \in Stages, c = Out(x), StageSend(x) PROVE FALSE
  BY <1>3, Wiring DEF StageSend, StGoto
<1> QED
  BY <1>1, <1>2, <1>3, ChannelStep

(* While nobody has cancelled, every goroutine that ends has drained its   *)
(* channel into the next. *)
LEMMA DrainNext ==
  TypeOK /\ TypeOK' /\ CloseInv /\ FlowInv /\ DrainInv /\ [Next]_vars => DrainInv'
<1> SUFFICES ASSUME TypeOK, TypeOK', CloseInv, FlowInv, DrainInv, [Next]_vars,
                    ~ctxDone'
             PROVE  DrainInv'
  BY DEF DrainInv
<1> USE DEF Next
<1>1. ~ctxDone /\ UNCHANGED conf
  <2>1. ASSUME NEW s \in Sources, SourceStep(s) \/ SourceInput(s)
        PROVE  ~ctxDone /\ UNCHANGED conf
    BY <2>1 DEF SourceStep, SourceInput, Open, OpenFails, Poll, ReadCancelled,
       SourceSend, SourceAbort, SourceReport, SourceCancel, ReadLine, ReadEnd,
       ReadOverlong, ReadFails, SrcFail
  <2>2. ASSUME NEW st \in Stages, StageStep(st) PROVE ~ctxDone /\ UNCHANGED conf
    BY <2>2 DEF StageStep, StageRecv, StageEnd, StageStop, StageSend,
       StageAbort, StageClose
  <2>3. CloseSource \/ TransformStep => ~ctxDone /\ UNCHANGED conf
    BY DEF CloseSource, TransformStep, TransformFails, TransformReport,
       TransformCancel
  <2>4. RunStep => ~ctxDone /\ UNCHANGED conf
    BY DEF RunStep, SinkRecv, SinkFails, SinkEnd, SinkStop, SinkReport,
       SinkCancel, Return
  <2>5. Interrupt \/ Terminated \/ UNCHANGED vars => ~ctxDone /\ UNCHANGED conf
    BY DEF Interrupt, Terminated, vars
  <2> QED
    BY <2>1, <2>2, <2>3, <2>4, <2>5
<1>2. runPc' # "returned" /\ (runPc' = "select" => runPc = "select" \/ SinkEnd)
  <2>1. CASE RunStep
    BY <1>1, <2>1 DEF RunStep, SinkRecv, SinkFails, SinkEnd, SinkStop,
       SinkReport, SinkCancel, Return
  <2>2. CASE ~RunStep
    <3>1. UNCHANGED runPc
      BY <2>2, SourceFrame DEF CloseSource, StageStep, StageRecv, StageEnd,
         StageStop, StageSend, StageAbort, StageClose, TransformStep,
         TransformFails, TransformReport, TransformCancel, Interrupt,
         Terminated, vars
    <3> QED
      BY <1>1, <3>1 DEF DrainInv
  <2> QED
    BY <2>1, <2>2
<1>3. runPc' = "select" => Drained("out")'
  <2>1. "out" \in Channels
    BY DEF Channels
  <2>2. runPc' = "select" => Drained("out")
    BY <1>1, <1>2 DEF DrainInv, SinkEnd
  <2> QED
    BY <2>1, <2>2, DrainedStays
<1>4. ASSUME NEW st \in Stages, stPc'[st] \in {"close", "end"}
      PROVE  Drained(In(st))' /\ Put(Out(st))' = taken'[In(st)']
  <2> PICK c \in Channels : c = In(st)
    BY Wiring
  <2>1. \/ stPc[st] \in {"close", "end"}
        \/ StageEnd(st)
    <3>1. CASE \E x \in Stages : StageStep(x)
      BY <1>1, <1>4, <3>1 DEF StageStep, StageRecv, StageStop, StageSend,
         StageAbort, StageClose, StageEnd, StGoto, TypeOK
    <3>2. CASE TransformStep
      BY <1>1, <1>4, <3>2 DEF TransformStep, TransformFails, TransformReport,
         TransformCancel, StGoto, TypeOK
    <3>3. CASE ~(\E x \in Stages : StageStep(x)) /\ ~TransformStep
      <4>1. UNCHANGED stPc
        BY <3>3, SourceFrame, RunFrame DEF CloseSource
      <4> QED
        BY <1>4, <4>1
    <3> QED
      BY <3>1, <3>2, <3>3
  <2>2. /\ Drained(c) /\ Put(Out(st)) = taken[c]
        /\ stPc[st] # "send"
    BY <1>1, <2>1 DEF DrainInv, FlowInv, PassedOn, StageEnd, StGoto
  <2>3. Drained(c)' /\ taken'[c] = taken[c]
    BY <2>2, DrainedStays
  <2>4. Put(Out(st))' = Put(Out(st))
    BY <2>2, PutStays
  <2>5. In(st)' = c
    BY <1>1 DEF In
  <2>6. Drained(In(st))'
    BY <2>3, <2>5 DEF Drained
  <2> QED
    BY <2>2, <2>3, <2>4, <2>5, <2>6
<1>5. ASSUME NEW s \in Sources PROVE OnItsWay(s)'
  <2>1. \/ UNCHANGED <<accepted, made>>
           /\ (srcPc[s] # "send" \/ srcPc'[s] = "send")
        \/ \E x \in Sources : SourceSend(x)
        \/ \E x \in Sources : ReadLine(x)
    BY <1>1, RunFrame DEF SourceStep, SourceInput, Open, OpenFails, Poll,
       ReadCancelled, SourceAbort, SourceReport, SourceCancel, ReadEnd,
       ReadOverlong, ReadFails, SrcFail, SrcGoto, CloseSource, StageStep,
       StageRecv, StageEnd, StageStop, StageSend, StageAbort, StageClose,
       TransformStep, TransformFails, TransformReport, TransformCancel, TypeOK
  <2>2. OnItsWay(s) /\ made[s] \in Nat
    BY <1>1, SizesAssumption DEF DrainInv, TypeOK
  <2>3. CASE UNCHANGED <<accepted, made>> /\ (srcPc[s] # "send" \/ srcPc'[s] = "send")
    BY <2>2, <2>3 DEF OnItsWay
  <2>4. ASSUME NEW x \in Sources, SourceSend(x) PROVE OnItsWay(s)'
    <3>1. /\ accepted' = Append(accepted, <<x, made[x]>>) /\ made' = made
          /\ srcPc[x] = "send" /\ \A y \in Sources \ {x} : srcPc'[y] = srcPc[y]
      BY <2>4 DEF SourceSend, SrcGoto, TypeOK
    <3>2. <<x, made[x]>> \in Event
      BY <3>1 DEF TypeOK, Event
    <3>3. /\ Len(accepted') = Len(accepted) + 1 /\ Len(accepted) \in Nat
          /\ accepted'[Len(accepted) + 1] = <<x, made[x]>>
          /\ \A i \in 1 .. Len(accepted) : accepted'[i] = accepted[i]
      BY <3>1, <3>2 DEF TypeOK
    <3>4. \A n : (\E i \in 1 .. Len(accepted) : accepted[i] = <<s, n>>)
                 => \E i \in 1 .. Len(accepted') : accepted'[i] = <<s, n>>
      BY <3>3
    <3>5. CASE x = s
      <4>1. \E i \in 1 .. Len(accepted') : accepted'[i] = <<s, made[s]>>
        BY <3>3, <3>5
      <4>2. ASSUME NEW n \in 1 .. made[s], n # made[s]
            PROVE  \E i \in 1 .. Len(accepted) : accepted[i] = <<s, n>>
        <5>1. n < made[s]
          BY <2>2, <4>2
        <5> QED
          BY <2>2, <5>1 DEF OnItsWay
      <4>3. \A n \in 1 .. made[s] :
              \E i \in 1 .. Len(accepted') : accepted'[i] = <<s, n>>
        BY <3>4, <4>1, <4>2
      <4> QED
        BY <3>1, <4>3 DEF OnItsWay
    <3>6. CASE x # s
      BY <2>2, <3>1, <3>4, <3>6 DEF OnItsWay
    <3> QED
      BY <3>5, <3>6
  <2>5. ASSUME NEW x \in Sources, ReadLine(x) PROVE OnItsWay(s)'
    <3>1. /\ accepted' = accepted /\ made' = [made EXCEPT ![x] = made[x] + 1]
          /\ srcPc[x] = "read" /\ srcPc' = [srcPc EXCEPT ![x] = "send"]
      BY <2>5 DEF ReadLine, SrcGoto
    <3>2. CASE x = s
      <4>1. made'[s] = made[s] + 1 /\ srcPc[s] # "send" /\ srcPc'[s] = "send"
        BY <3>1, <3>2 DEF TypeOK
      <4>2. \A n \in 1 .. made[s] : \E i \in 1 .. Len(accepted) : accepted[i] = <<s, n>>
        BY <2>2, <4>1 DEF OnItsWay
      <4>3. \A n \in 1 .. made'[s] : n < made'[s] => n \in 1 .. made[s]
        BY <2>2, <4>1
      <4> QED
        BY <3>1, <4>1, <4>2, <4>3 DEF OnItsWay
    <3>3. CASE x # s
      BY <2>2, <3>1, <3>3 DEF OnItsWay, TypeOK
    <3> QED
      BY <3>2, <3>3
  <2> QED
    BY <2>1, <2>3, <2>4, <2>5
<1> QED
  BY <1>2, <1>3, <1>4, <1>5 DEF DrainInv

(* Nobody has ended when Run starts. *)
LEMMA DrainInit == Init => DrainInv
  BY DEF Init, DrainInv, OnItsWay, Stages

(* As long as nothing is cancelled, a goroutine that ends leaves nothing   *)
(* behind it.                                                              *)
THEOREM DrainsCorrect == Spec => []DrainInv
  BY TypeCorrect, ClosesCorrect, FlowCorrect, DrainInit, DrainNext, PTL DEF Spec

-----------------------------------------------------------------------------
(* The state in which Run returns nil, nobody having cancelled. *)
LEMMA CleanReturn ==
  ASSUME TypeOK, CloseInv, FlowInv, ErrInv, DrainInv, Return,
         result' = "nil", ~parentDone
  PROVE  /\ \A s \in Sources : srcPc[s] = "done"
         /\ \A st \in Stages : stPc[st] \in {"off", "end"}
         /\ delivered = accepted
         /\ \A s \in Sources : OnItsWay(s)
         /\ failed = {}
<1>1. /\ runPc = "select" /\ sinkErr = "nil" /\ ~Reported
  BY ReturnFacts DEF Return, Reported
<1>2. ~ctxDone
  BY <1>1 DEF ErrInv
<1>3. /\ Drained("out")
      /\ \A st \in Stages : stPc[st] = "end" =>
           Drained(In(st)) /\ Put(Out(st)) = taken[In(st)]
      /\ \A s \in Sources : OnItsWay(s)
  BY <1>1, <1>2 DEF DrainInv
<1>4. \A st \in Stages : Drained(Out(st)) => stPc[st] = "end"
  BY DEF CloseInv, Drained
<1>5. \A c \in Channels : Drained(c) => Put(c) = taken[c]
  <2> SUFFICES ASSUME NEW c \in Channels, Drained(c) PROVE Put(c) = taken[c]
    OBVIOUS
  <2>1. Len(chan[c]) = 0 /\ taken[c] \in Nat
    BY DEF Drained, TypeOK
  <2>2. taken[c] + 0 = taken[c]
    BY <2>1
  <2> QED
    BY <2>1, <2>2 DEF Put
<1>6. /\ Drained("source") /\ Put("out") = Put("source")
      /\ \A st \in Stages : stPc[st] \in {"off", "end"}
  <2>1. /\ "forward" \in Stages /\ "transform" \in Stages /\ "parse" \in Stages
        /\ Channels = {"source", "parsed", "tc", "out"}
        /\ In("parse") = "source" /\ Out("parse") = "parsed"
        /\ In("transform") = "parsed" /\ Out("transform") = "tc"
        /\ Out("forward") = "out"
    BY DEF Stages, In, Out, Channels
  <2>2. stPc["forward"] = "end"
    BY <1>3, <1>4, <2>1
  <2>3. /\ Drained("parsed") /\ Put("out") = Put("parsed")
        /\ stPc["transform"] \in {"off", "end"}
    <3>1. CASE transformOn
      <4>1. In("forward") = "tc"
        BY <3>1 DEF In
      <4>2. Drained("tc") /\ Put("out") = Put("tc")
        BY <1>3, <1>5, <2>1, <2>2, <4>1
      <4> QED
        BY <1>3, <1>4, <1>5, <2>1, <4>2
    <3>2. CASE ~transformOn
      <4>1. In("forward") = "parsed" /\ stPc["transform"] = "off"
        BY <3>2 DEF In, CloseInv
      <4> QED
        BY <1>3, <1>5, <2>1, <2>2, <4>1
    <3> QED
      BY <3>1, <3>2
  <2>4. stPc["parse"] = "end" /\ Drained("source") /\ Put("parsed") = Put("source")
    BY <1>3, <1>4, <1>5, <2>1, <2>3
  <2> QED
    BY <2>2, <2>3, <2>4 DEF Stages
<1>7. \A s \in Sources : srcPc[s] = "done"
  BY <1>6 DEF Drained, CloseInv
<1>8. delivered = accepted
  <2>1. Len(delivered) = taken["out"] /\ Put("source") = Len(accepted)
    BY <1>1 DEF FlowInv
  <2>2. Len(delivered) = Len(accepted)
    BY <1>3, <1>5, <1>6, <2>1 DEF Channels
  <2>3. delivered \in Seq(Event) /\ accepted \in Seq(Event)
    BY DEF TypeOK
  <2>4. \A i \in 1 .. Len(delivered) : delivered[i] = accepted[i]
    BY DEF FlowInv, GapFree
  <2> QED
    BY <2>2, <2>3, <2>4, SeqEqual
<1>9. failed = {}
  <2>1. \A s \in Sources : s \notin failed
    BY <1>1, <1>7 DEF ErrInv
  <2>2. "transform" \notin failed
    BY <1>1, <1>6 DEF ErrInv, Stages
  <2>3. "sink" \notin failed
    BY <1>1 DEF ErrInv
  <2> QED
    BY <2>1, <2>2, <2>3 DEF TypeOK, Errs
<1> QED
  BY <1>3, <1>6, <1>7, <1>8, <1>9

(* A clean run stays as it was when Run returned. *)
LEMMA FinNext ==
  TypeOK /\ CloseInv /\ FlowInv /\ ErrInv /\ DrainInv /\ FinInv /\ [Next]_vars
    => FinInv'
<1> SUFFICES ASSUME TypeOK, CloseInv, FlowInv, ErrInv, DrainInv, FinInv,
                    [Next]_vars, Clean'
             PROVE  FinInv'
  BY DEF FinInv
<1>1. CASE Return
  <2>1. /\ result' = "nil" /\ ~parentDone
        /\ UNCHANGED <<srcPc, made, stPc, delivered, accepted, failed>>
    BY <1>1 DEF Clean, Return
  <2>2. /\ \A s \in Sources : srcPc[s] = "done"
        /\ \A st \in Stages : stPc[st] \in {"off", "end"}
        /\ delivered = accepted
        /\ \A s \in Sources : OnItsWay(s)
        /\ failed = {}
    BY <1>1, <2>1, CleanReturn
  <2>3. \A s \in Sources : \A n \in 1 .. made[s] :
          \E i \in 1 .. Len(delivered) : delivered[i] = <<s, n>>
    BY <2>2 DEF OnItsWay
  <2>4. CleanFinish'
    BY <2>1, <2>2, <2>3 DEF CleanFinish
  <2> QED
    BY <2>1, <2>2, <2>4 DEF FinInv, ErrorReported
<1>2. CASE ~Return
  <2>1. Clean
    <3>1. CASE RunStep
      BY <1>2, <3>1 DEF Clean, RunStep, SinkRecv, SinkFails, SinkEnd, SinkStop,
         SinkReport, SinkCancel
    <3>2. CASE ~RunStep
      <4>1. UNCHANGED <<runPc, result>> /\ (parentDone' = parentDone \/ Interrupt)
        BY <3>2, SourceFrame DEF Next, CloseSource, StageStep, StageRecv,
           StageEnd, StageStop, StageSend, StageAbort, StageClose,
           TransformStep, TransformFails, TransformReport, TransformCancel,
           Interrupt, Terminated, vars
      <4> QED
        BY <4>1 DEF Clean, Interrupt
    <3> QED
      BY <3>1, <3>2
  <2>2. /\ \A s \in Sources : srcPc[s] = "done"
        /\ \A st \in Stages : stPc[st] \in {"off", "end"}
        /\ CleanFinish /\ ErrorReported /\ runPc = "returned"
    BY <2>1 DEF FinInv, Clean
  <2>3. CloseSource \/ Terminated \/ UNCHANGED vars
    <3>1. ~\E s \in Sources : SourceStep(s) \/ SourceInput(s)
      BY <2>2, SourceFrame
    <3>2. ~\E st \in Stages : StageStep(st)
      BY <2>2 DEF StageStep, StageRecv, StageEnd, StageStop, StageSend,
         StageAbort, StageClose, StGoto
    <3>3. ~TransformStep
      BY <2>2 DEF TransformStep, TransformFails, TransformReport,
         TransformCancel, StGoto, Stages
    <3>4. ~RunStep /\ ~Interrupt
      BY <2>2 DEF RunStep, SinkRecv, SinkFails, SinkEnd, SinkStop, SinkReport,
         SinkCancel, Return, Interrupt
    <3> QED
      BY <3>1, <3>2, <3>3, <3>4 DEF Next
  <2>4. UNCHANGED <<srcPc, made, stPc, delivered, accepted, failed, runPc, result,
                    parentDone>>
    BY <2>3 DEF CloseSource, Terminated, vars
  <2> QED
    BY <2>1, <2>2, <2>4 DEF FinInv, CleanFinish, ErrorReported, Clean
<1> QED
  BY <1>1, <1>2

(* Run has not returned when it starts. *)
LEMMA FinInit == Init => FinInv
  BY DEF Init, FinInv, Clean

(* A clean run has stopped every goroutine and left nothing behind. *)
THEOREM FinishesCorrect == Spec => []FinInv
  BY TypeCorrect, ClosesCorrect, FlowCorrect, ErrorsCorrect, DrainsCorrect,
     FinInit, FinNext, PTL DEF Spec

(* A run that returns nil without having been cancelled has shown the sink *)
(* every event of every source.                                            *)
THEOREM FinishesClean == Spec => []CleanFinish
<1>1. FinInv => CleanFinish
  BY DEF FinInv, CleanFinish
<1> QED
  BY <1>1, FinishesCorrect, PTL

(* A run in which any goroutine met an error returns an error, unless the  *)
(* caller had cancelled it: however small errCh is, the first error fits.  *)
THEOREM ErrorsAreReported == Spec => []ErrorReported
<1>1. FinInv => ErrorReported
  BY DEF FinInv, ErrorReported
<1> QED
  BY <1>1, FinishesCorrect, PTL

(* All parts of the inductive invariant hold together. *)
THEOREM InvCorrect == Spec => []Inv
  BY TypeCorrect, ClosesCorrect, FlowCorrect, ErrorsCorrect, DrainsCorrect,
     FinishesCorrect, PTL DEF Inv

-----------------------------------------------------------------------------
(* Every step of a run is a step of Delivery or leaves its state alone:    *)
(* the sink's event is the next accepted one, and a run that ends well has *)
(* delivered all and accepts no more.                                      *)
LEMMA StepDelivers ==
  ASSUME TypeOK, CloseInv, FlowInv, ErrInv, DrainInv, FinInv, [Next]_vars
  PROVE  [Abstract!Next]_(Abstract!absVars)
<1> USE DEF Abstract!absVars
<1>1. ASSUME NEW s \in Sources, SourceStep(s) \/ SourceInput(s)
      PROVE  [Abstract!Next]_(Abstract!absVars)
  <2>1. UNCHANGED <<delivered, Outcome>>
    BY <1>1, SourceFrame DEF Outcome
  <2>2. CASE SourceSend(s)
    <3>1. /\ accepted' = Append(accepted, <<s, made[s]>>)
          /\ <<s, made[s]>> \in Event /\ srcPc[s] # "done"
      BY <2>2 DEF SourceSend, SrcGoto, TypeOK, Event
    <3>2. Outcome # "ok"
      BY <3>1 DEF Outcome, FinInv, Clean
    <3>3. Abstract!Accept(<<s, made[s]>>)
      BY <2>1, <3>1, <3>2 DEF Abstract!Accept
    <3> QED
      BY <3>1, <3>3 DEF Abstract!Next
  <2>3. CASE ~SourceSend(s)
    <3>1. UNCHANGED accepted
      BY <1>1, <2>3 DEF SourceStep, SourceInput, Open, OpenFails, Poll,
         ReadCancelled, SourceAbort, SourceReport, SourceCancel, ReadLine,
         ReadEnd, ReadOverlong, ReadFails
    <3> QED
      BY <2>1, <3>1
  <2> QED
    BY <2>2, <2>3
<1>2. CASE CloseSource \/ TransformStep \/ \E st \in Stages : StageStep(st)
  <2>1. UNCHANGED <<accepted, delivered, runPc, result, parentDone>>
    BY <1>2 DEF CloseSource, TransformStep, TransformFails, TransformReport,
       TransformCancel, StageStep, StageRecv, StageEnd, StageStop, StageSend,
       StageAbort, StageClose
  <2> QED
    BY <2>1 DEF Outcome
<1>3. CASE RunStep
  <2>1. CASE SinkRecv
    <3>1. /\ Take("out") /\ "out" \in Channels /\ runPc = "sink" /\ sinkErr = "nil"
          /\ delivered' = Append(delivered, Head(chan["out"]))
          /\ UNCHANGED <<accepted, runPc, result, parentDone>>
      BY <2>1 DEF SinkRecv, Channels, FlowInv
    <3>2. /\ Len(delivered) + 1 \in 1 .. Len(accepted)
          /\ Head(chan["out"]) = accepted[Len(delivered) + 1]
      BY <3>1, StretchTake DEF FlowInv
    <3>3. Len(delivered) \in Nat /\ Len(accepted) \in Nat
      BY DEF TypeOK
    <3>4. Abstract!Deliver
      BY <3>1, <3>2, <3>3 DEF Abstract!Deliver, Outcome
    <3> QED
      BY <3>4 DEF Abstract!Next
  <2>2. CASE Return
    <3>1. /\ runPc = "select" /\ runPc' = "returned"
          /\ UNCHANGED <<accepted, delivered, parentDone>>
      BY <2>2 DEF Return
    <3>2. Outcome' = "ok" => delivered = accepted
      <4>1. Outcome' = "ok" => result' = "nil" /\ ~parentDone
        BY <3>1 DEF Outcome
      <4> QED
        BY <2>2, <4>1, CleanReturn
    <3>3. Outcome = "running" /\ Outcome' \in {"ok", "error", "interrupted"}
      BY <3>1 DEF Outcome
    <3>4. Abstract!Finish(Outcome')
      BY <3>1, <3>2, <3>3 DEF Abstract!Finish
    <3> QED
      BY <3>3, <3>4 DEF Abstract!Next
  <2>3. CASE RunStep /\ ~SinkRecv /\ ~Return
    <3>1. /\ UNCHANGED <<accepted, delivered>>
          /\ runPc # "returned" /\ runPc' # "returned"
      BY <2>3 DEF RunStep, SinkFails, SinkEnd, SinkStop, SinkReport, SinkCancel
    <3> QED
      BY <3>1 DEF Outcome
  <2> QED
    BY <1>3, <2>1, <2>2, <2>3
<1>4. CASE Interrupt
  BY <1>4 DEF Interrupt, Outcome
<1>5. CASE Terminated \/ UNCHANGED vars
  BY <1>5 DEF Terminated, vars, Outcome
<1> QED
  BY <1>1, <1>2, <1>3, <1>4, <1>5 DEF Next

(* A run implements the promise of Delivery: five goroutines, four bounded *)
(* channels, failures and cancellations behave as one queue.               *)
THEOREM RunDelivers == Spec => Delivers
<1>1. Init => Abstract!Init
  BY DEF Init, Abstract!Init, Outcome
<1> QED
  BY <1>1, StepDelivers, TypeCorrect, ClosesCorrect, FlowCorrect, ErrorsCorrect,
     DrainsCorrect, FinishesCorrect, PTL DEF Spec, Delivers, Abstract!Spec
=============================================================================
