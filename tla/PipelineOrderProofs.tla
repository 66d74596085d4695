-------------------------- MODULE PipelineOrderProofs --------------------------
(***************************************************************************)
(* Proofs about Pipeline, continued: the lines of a source reach the sink  *)
(* in their order, for every number of sources, every mix of kinds and     *)
(* every capacity.                                                         *)
(***************************************************************************)
EXTENDS PipelineProofs, FiniteSetTheorems

(* The events of s among the first i of a. *)
Of(a, s, i)    == {j \in 1 .. i : a[j][1] = s}
Count(a, s, i) == Cardinality(Of(a, s, i))

(* The accepted events of a source are numbered one after the other, and a *)
(* source that goes on has had all accepted that it has made, but for the  *)
(* event in its hands.  One that stopped in a send has not, and is done.   *)
AcceptInv ==
  /\ \A i \in 1 .. Len(accepted) : accepted[i][2] = Count(accepted, accepted[i][1], i)
  /\ \A s \in Sources :
       /\ srcPc[s] = "send" => made[s] = Count(accepted, s, Len(accepted)) + 1
       /\ srcPc[s] \in {"open", "poll", "read"} =>
            made[s] = Count(accepted, s, Len(accepted))

(* The events are finitely many. *)
LEMMA OfFinite ==
  ASSUME NEW a, NEW s, NEW i \in Nat
  PROVE  IsFiniteSet(Of(a, s, i)) /\ Count(a, s, i) \in Nat
<1>1. IsFiniteSet(1 .. i)
  BY FS_Interval
<1>2. Of(a, s, i) \subseteq 1 .. i
  BY DEF Of
<1> QED
  BY <1>1, <1>2, FS_Subset, FS_CardinalityType DEF Count

(* Only the first i events count. *)
LEMMA CountSame ==
  ASSUME NEW a, NEW b, NEW s, NEW i \in Nat, \A j \in 1 .. i : a[j] = b[j]
  PROVE  Count(a, s, i) = Count(b, s, i)
<1>1. Of(a, s, i) = Of(b, s, i)
  BY DEF Of
<1> QED
  BY <1>1 DEF Count

(* What the next event adds. *)
LEMMA CountNext ==
  ASSUME NEW a, NEW s, NEW i \in Nat
  PROVE  Count(a, s, i + 1) = IF a[i + 1][1] = s THEN Count(a, s, i) + 1 ELSE Count(a, s, i)
<1>1. i + 1 \notin Of(a, s, i)
  BY DEF Of
<1>2. CASE a[i + 1][1] = s
  <2>1. Of(a, s, i + 1) = Of(a, s, i) \cup {i + 1}
    BY <1>2 DEF Of
  <2>2. Cardinality(Of(a, s, i) \cup {i + 1}) = Cardinality(Of(a, s, i)) + 1
    BY <1>1, OfFinite, FS_AddElement
  <2> QED
    BY <1>2, <2>1, <2>2 DEF Count
<1>3. CASE a[i + 1][1] # s
  <2>1. Of(a, s, i + 1) = Of(a, s, i)
    BY <1>3 DEF Of
  <2> QED
    BY <1>3, <2>1 DEF Count
<1> QED
  BY <1>2, <1>3

(* A source hands over the event in its hands, which is its next. *)
LEMMA AcceptSend ==
  ASSUME TypeOK, AcceptInv, NEW s \in Sources, SourceSend(s)
  PROVE  AcceptInv'
<1> DEFINE n == Len(accepted)
           e == <<s, made[s]>>
<1>1. /\ accepted \in Seq(Event) /\ n \in Nat /\ made[s] \in Nat
      /\ e \in Event
  BY SizesAssumption DEF TypeOK, SourceSend, SrcGoto, Event
<1>2. /\ accepted' = Append(accepted, e) /\ made' = made /\ srcPc[s] = "send"
      /\ srcPc'[s] \in {"poll", "read"}
      /\ \A x \in Sources \ {s} : srcPc'[x] = srcPc[x]
  BY DEF SourceSend, SrcGoto, TypeOK
<1>3. /\ Len(accepted') = n + 1 /\ accepted'[n + 1] = e
      /\ \A i \in 1 .. n : accepted'[i] = accepted[i]
  BY <1>1, <1>2
<1>4. e[1] = s /\ e[2] = made[s]
  OBVIOUS
<1> HIDE DEF n, e
<1>5. ASSUME NEW x, NEW i \in 0 .. n PROVE Count(accepted', x, i) = Count(accepted, x, i)
  <2>1. i \in Nat /\ \A j \in 1 .. i : accepted'[j] = accepted[j]
    BY <1>1, <1>3
  <2> QED
    BY <2>1, CountSame
<1>6. ASSUME NEW x
      PROVE  Count(accepted', x, n + 1) = IF x = s THEN Count(accepted, x, n) + 1
                                          ELSE Count(accepted, x, n)
  <2>1. Count(accepted', x, n + 1) = IF accepted'[n + 1][1] = x THEN Count(accepted', x, n) + 1
                                     ELSE Count(accepted', x, n)
    BY <1>1, CountNext
  <2>2. Count(accepted', x, n) = Count(accepted, x, n)
    BY <1>1, <1>5
  <2> QED
    BY <1>3, <1>4, <2>1, <2>2
<1>7. made[s] = Count(accepted, s, n) + 1
  BY <1>2 DEF AcceptInv, n
<1>8. ASSUME NEW i \in 1 .. n + 1
      PROVE  accepted'[i][2] = Count(accepted', accepted'[i][1], i)
  <2>1. CASE i = n + 1
    BY <1>3, <1>4, <1>6, <1>7, <2>1
  <2>2. CASE i \in 1 .. n
    <3>1. accepted'[i] = accepted[i] /\ i \in 0 .. n
      BY <1>1, <1>3, <2>2
    <3>2. accepted[i][2] = Count(accepted, accepted[i][1], i)
      BY <2>2 DEF AcceptInv, n
    <3> QED
      BY <1>5, <3>1, <3>2
  <2> QED
    BY <1>1, <2>1, <2>2
<1>9. ASSUME NEW x \in Sources
      PROVE  /\ srcPc'[x] = "send" => made'[x] = Count(accepted', x, n + 1) + 1
             /\ srcPc'[x] \in {"open", "poll", "read"} => made'[x] = Count(accepted', x, n + 1)
  <2>1. CASE x = s
    BY <1>2, <1>6, <1>7, <2>1
  <2>2. CASE x # s
    <3>1. Count(accepted', x, n + 1) = Count(accepted, x, n) /\ srcPc'[x] = srcPc[x]
      BY <1>2, <1>6, <2>2
    <3> QED
      BY <1>2, <3>1 DEF AcceptInv, n
  <2> QED
    BY <2>1, <2>2
<1> QED
  BY <1>3, <1>8, <1>9 DEF AcceptInv

(* Any other step of a source makes a line, or keeps the source going with *)
(* what it has, or ends it. *)
LEMMA AcceptSource ==
  ASSUME TypeOK, AcceptInv, NEW s \in Sources, SourceStep(s) \/ SourceInput(s), ~SourceSend(s)
  PROVE  AcceptInv'
<1>1. accepted' = accepted /\ \A x \in Sources \ {s} : srcPc'[x] = srcPc[x] /\ made'[x] = made[x]
  BY DEF TypeOK, SourceStep, SourceInput, Open, OpenFails, Poll, ReadCancelled,
     SourceAbort, SourceReport, SourceCancel, ReadLine, ReadEnd,
     ReadOverlong, ReadFails, SrcFail, SrcGoto
<1>2. CASE ReadLine(s)
  <2>1. /\ srcPc[s] = "read" /\ srcPc'[s] = "send" /\ made'[s] = made[s] + 1
    BY <1>2 DEF ReadLine, SrcGoto, TypeOK
  <2>2. made[s] = Count(accepted, s, Len(accepted))
    BY <2>1 DEF AcceptInv
  <2> QED
    BY <1>1, <2>1, <2>2 DEF AcceptInv
<1>3. CASE ~ReadLine(s)
  <2>1. /\ made'[s] = made[s] /\ srcPc'[s] # "send"
        /\ srcPc'[s] \in {"open", "poll", "read"} => srcPc[s] \in {"open", "poll", "read"}
    BY <1>3 DEF TypeOK, SourceStep, SourceInput, Open, OpenFails, Poll, ReadCancelled,
       SourceAbort, SourceReport, SourceCancel, ReadEnd,
       ReadOverlong, ReadFails, SrcFail, SrcGoto
  <2> QED
    BY <1>1, <2>1 DEF AcceptInv
<1> QED
  BY <1>2, <1>3

(* AcceptInv is inductive. *)
LEMMA AcceptNext == TypeOK /\ AcceptInv /\ [Next]_vars => AcceptInv'
<1> SUFFICES ASSUME TypeOK, AcceptInv, [Next]_vars PROVE AcceptInv'
  OBVIOUS
<1>1. ASSUME NEW s \in Sources, SourceStep(s) \/ SourceInput(s) PROVE AcceptInv'
  BY <1>1, AcceptSend, AcceptSource
<1>2. CASE UNCHANGED <<srcVars, accepted>>
  BY <1>2 DEF AcceptInv, srcVars
<1>3. CASE CloseSource \/ TransformStep \/ \E st \in Stages : StageStep(st)
  <2>1. UNCHANGED <<srcVars, accepted>>
    BY <1>3 DEF CloseSource, TransformStep, TransformFails, TransformReport,
       TransformCancel, StageStep, StageRecv, StageEnd, StageStop, StageSend,
       StageAbort, StageClose
  <2> QED
    BY <1>2, <2>1
<1>4. CASE RunStep \/ Interrupt \/ Terminated \/ UNCHANGED vars
  BY <1>2, <1>4, RunFrame
<1> QED
  BY <1>1, <1>3, <1>4 DEF Next

(* No source has made anything at first. *)
LEMMA AcceptInit == Init => AcceptInv
<1> SUFFICES ASSUME Init PROVE AcceptInv
  OBVIOUS
<1>1. accepted = <<>> /\ Len(accepted) = 0 /\ \A s \in Sources : made[s] = 0 /\ srcPc[s] # "send"
  BY DEF Init
<1>2. ASSUME NEW s PROVE Count(accepted, s, 0) = 0
  <2>1. Of(accepted, s, 0) = {}
    BY DEF Of
  <2> QED
    BY <2>1, FS_EmptySet DEF Count
<1> QED
  BY <1>1, <1>2 DEF AcceptInv

(* The sink sees the lines of each source from the first on, in their      *)
(* order, none twice and none left out: a source hands over its events one *)
(* by one, never goes on after one it had to give up, and what the sink    *)
(* sees is a prefix of what was handed over (NeverAGap).                   *)
THEOREM EverySourceInOrder == Spec => []LinesInOrder
<1>1. TypeOK /\ AcceptInv /\ GapFree => LinesInOrder
  <2> SUFFICES ASSUME TypeOK, AcceptInv, GapFree, NEW i \in 1 .. Len(delivered)
               PROVE  delivered[i][2] =
                        Cardinality({j \in 1 .. i : delivered[j][1] = delivered[i][1]})
    BY DEF LinesInOrder
  <2>1. i \in Nat /\ i \in 1 .. Len(accepted) /\ \A j \in 1 .. i : delivered[j] = accepted[j]
    BY DEF GapFree, TypeOK
  <2>2. accepted[i][2] = Count(accepted, accepted[i][1], i) /\ delivered[i] = accepted[i]
    BY <2>1 DEF AcceptInv, GapFree
  <2>3. Count(delivered, delivered[i][1], i) = Count(accepted, delivered[i][1], i)
    BY <2>1, CountSame
  <2> QED
    BY <2>2, <2>3 DEF Count, Of
<1> QED
  BY <1>1, AcceptInit, AcceptNext, TypeCorrect, NeverAGap, PTL DEF Spec
=============================================================================
