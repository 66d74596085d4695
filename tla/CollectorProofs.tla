--------------------------- MODULE CollectorProofs ---------------------------
(***************************************************************************)
(* Proofs about Collector, for every set of configurations and of lines.   *)
(***************************************************************************)
EXTENDS Collector, FiniteSetTheorems, TLAPS

USE DEF ends

(* Before its ends main has no exit status, and a pipeline that has ended   *)
(* stays ended.                                                            *)
LEMMA ExitStep == ExitTells /\ [Next]_vars => ExitTells'
<1> SUFFICES ASSUME ExitTells, [Next]_vars, main' = "exit 0" PROVE pipe' = "nil"
  BY DEF ExitTells
<1>1. CASE UNCHANGED <<main, pipe>>
  BY <1>1 DEF ExitTells
<1>2. CASE LoadConfig \/ LoadFails \/ BuildFails \/ Start \/ UIFailed \/ UIDone
  BY <1>2 DEF LoadConfig, LoadFails, BuildFails, Start, UIFailed, UIDone
<1>3. CASE RunReturns \/ ResultTaken
  BY <1>3 DEF RunReturns, ResultTaken, Exit
<1>4. ASSUME NEW result \in Results, PipelineEnds(result) PROVE pipe' = "nil"
  BY <1>4 DEF PipelineEnds, Exited
<1>5. CASE Signal \/ PressQuit \/ UIFails \/ ServerStep \/ Handle \/ Deliver
           \/ (\E result \in Results : UIReturns(result)) \/ UNCHANGED vars
  BY <1>1, <1>5 DEF Signal, PressQuit, UIFails, ServerStep, Handle, Deliver, UIReturns, vars
<1> QED
  BY <1>2, <1>3, <1>4, <1>5 DEF Next, MainStep

(* The exit status 0 tells that the pipeline has ended and had no error,   *)
(* whatever mode the collector runs in and in whatever order the pipeline, *)
(* the UI, the signal and the metrics server come to their ends.           *)
THEOREM ExitStatusTells == Spec => []ExitTells
<1>1. Init => ExitTells
  BY DEF Init, ExitTells
<1> QED
  BY <1>1, ExitStep, PTL DEF Spec

-----------------------------------------------------------------------------
(* What the pipeline is built from *)

BuiltFor == IF mode = "plain" THEN buildPipeline ELSE buildPipelineWithSink

WiredInv == cfg \in Configs /\ WiredAsConfigured

(* A listing of a finite set lists its elements. *)
LEMMA ListsItsSet ==
  ASSUME NEW S, IsFiniteSet(S), NEW q \in SetToSeqs(S)
  PROVE  ToSet(q) \subseteq S
<1>1. q \in [1 .. Cardinality(S) -> S]
  BY DEF SetToSeqs
<1> QED
  BY <1>1 DEF ToSet

(* There is no second transform. *)
LEMMA OnlyTransform ==
  ASSUME cfg \in Configs, Cardinality(DOMAIN cfg.transforms) <= 1,
         NEW t \in DOMAIN cfg.transforms, NEW u \in DOMAIN cfg.transforms
  PROVE  t = u
<1> DEFINE D == DOMAIN cfg.transforms
<1>1. IsFiniteSet(D)
  BY ConfigsAssumption
<1> HIDE DEF D
<1>2. SUFFICES ASSUME t # u PROVE FALSE
  OBVIOUS
<1>3. {t, u} \subseteq D
  BY DEF D
<1>4. Cardinality({t, u}) <= Cardinality(D) /\ IsFiniteSet({t, u})
  BY <1>1, <1>3, FS_Subset
<1>5. IsFiniteSet({t}) /\ Cardinality({t}) = 1
  BY FS_Singleton
<1>6. Cardinality({t} \cup {u}) = Cardinality({t}) + 1
  BY <1>2, <1>5, FS_AddElement
<1>7. {t} \cup {u} = {t, u}
  OBVIOUS
<1>8. Cardinality({t, u}) = 2
  BY <1>5, <1>6, <1>7
<1>9. Cardinality(D) \in Nat /\ Cardinality(D) <= 1
  BY <1>1, FS_CardinalityType DEF D
<1> QED
  BY <1>4, <1>8, <1>9

(* Without a transform the pipeline takes sources of the configuration.    *)
LEMMA BuiltOfSources ==
  ASSUME cfg \in Configs, ~hasTransform, NEW q \in BuiltFor
  PROVE  ToSet(q) \subseteq DOMAIN cfg.sources
<1>1. q \in buildSourcesAndTransform
  BY DEF BuiltFor, buildPipeline, buildPipelineWithSink
<1>2. q \in SetToSeqs(DOMAIN cfg.sources)
  BY <1>1 DEF buildSourcesAndTransform
<1> QED
  BY <1>2, ListsItsSet, ConfigsAssumption

(* With one it takes the inputs of the transform, which are sources.       *)
LEMMA BuiltOfInputs ==
  ASSUME cfg \in Configs, hasTransform, NEW q \in BuiltFor
  PROVE  /\ ToSet(q) \subseteq DOMAIN cfg.sources
         /\ \E t \in DOMAIN cfg.transforms :
              /\ ToSet(q) = ToSet(cfg.transforms[t].inputs)
              /\ mode = "plain" => \A s \in DOMAIN cfg.sinks : t \in ToSet(cfg.sinks[s].inputs)
<1>1. q \in buildSourcesAndTransform /\ Cardinality(DOMAIN cfg.transforms) <= 1
  BY DEF BuiltFor, buildPipeline, buildPipelineWithSink
<1>2. PICK t \in DOMAIN cfg.transforms :
        SourceInputs(cfg.transforms[t]) /\ q = cfg.transforms[t].inputs
  BY <1>1 DEF buildSourcesAndTransform
<1>3. ToSet(q) \subseteq DOMAIN cfg.sources
  BY <1>2 DEF SourceInputs, ToSet
<1>4. ASSUME mode = "plain", NEW s \in DOMAIN cfg.sinks
      PROVE  t \in ToSet(cfg.sinks[s].inputs)
  <2>1. validateSinkInputs(cfg.sinks[s])
    BY <1>4 DEF BuiltFor, buildPipeline
  <2>2. PICK i \in DOMAIN cfg.sinks[s].inputs : cfg.sinks[s].inputs[i] \in DOMAIN cfg.transforms
    BY <2>1 DEF validateSinkInputs
  <2>3. cfg.sinks[s].inputs[i] = t
    BY <1>1, <1>2, <2>2, OnlyTransform
  <2> QED
    BY <2>2, <2>3 DEF ToSet
<1> QED
  BY <1>2, <1>3, <1>4

(* What has been built stays, and so does what it was built from.          *)
LEMMA WiredStep == WiredInv /\ [Next]_vars => WiredInv'
<1> SUFFICES ASSUME WiredInv, [Next]_vars PROVE WiredInv'
  OBVIOUS
<1>1. CASE UNCHANGED <<mode, cfg, selected>>
  BY <1>1 DEF WiredInv, WiredAsConfigured, hasTransform
<1>2. CASE Start
  <2>1. cfg \in Configs /\ UNCHANGED <<mode, cfg>> /\ selected' \in BuiltFor
    BY <1>2 DEF WiredInv, Start, BuiltFor
  <2>2. CASE hasTransform
    <3>1. /\ ToSet(selected') \subseteq DOMAIN cfg.sources
          /\ \E t \in DOMAIN cfg.transforms :
               /\ ToSet(selected') = ToSet(cfg.transforms[t].inputs)
               /\ mode = "plain" => \A s \in DOMAIN cfg.sinks : t \in ToSet(cfg.sinks[s].inputs)
      BY <2>1, <2>2, BuiltOfInputs
    <3> QED
      BY <2>1, <3>1 DEF WiredInv, WiredAsConfigured, hasTransform
  <2>3. CASE ~hasTransform
    <3>1. ToSet(selected') \subseteq DOMAIN cfg.sources
      BY <2>1, <2>3, BuiltOfSources
    <3> QED
      BY <2>1, <2>3, <3>1 DEF WiredInv, WiredAsConfigured, hasTransform
  <2> QED
    BY <2>2, <2>3
<1>3. CASE LoadConfig \/ LoadFails \/ BuildFails \/ RunReturns \/ UIFailed \/ UIDone \/ ResultTaken
  BY <1>1, <1>3 DEF LoadConfig, LoadFails, BuildFails, RunReturns, UIFailed, UIDone, ResultTaken
<1>4. CASE Signal \/ PressQuit \/ UIFails \/ ServerStep \/ Handle \/ Deliver
           \/ (\E result \in Results : PipelineEnds(result) \/ UIReturns(result))
           \/ UNCHANGED vars
  BY <1>1, <1>4 DEF Signal, PressQuit, UIFails, ServerStep, Handle, Deliver, PipelineEnds,
     UIReturns, vars
<1> QED
  BY <1>2, <1>3, <1>4 DEF Next, MainStep

(* Whatever the configuration says, a pipeline that runs reads sources of  *)
(* it only; with a transform, just those that feed the transform, and the  *)
(* sink of the plain mode listens to it.  That there is no second transform *)
(* for the sink to listen to is what makes the three checks, made one by   *)
(* one on names, amount to a pipeline without a gap. *)
THEOREM RunsWhatIsConfigured == Spec => []WiredAsConfigured
<1>1. Init => WiredInv
  <2>1. ToSet(<<>>) = {}
    BY DEF ToSet
  <2> QED
    BY <2>1 DEF Init, WiredInv, WiredAsConfigured
<1>2. WiredInv => WiredAsConfigured
  BY DEF WiredInv
<1> QED
  BY <1>1, <1>2, WiredStep, PTL DEF Spec

-----------------------------------------------------------------------------
(* Three ways to an event *)

(* Values of one kind, and whole numbers: LinesAssumption for one line. *)
Whole(raw) == \A k \in DOMAIN raw :
                /\ DOMAIN raw[k] \in {{"text"}, {"number"}, {"object"}, {"other"}}
                /\ "number" \in DOMAIN raw[k] => raw[k].number \in Int

(* The canonical names of texts, with the time. *)
CanonicalNames == CanonicalTexts \cup {"ts"}

(* What a canonical line has under a canonical name: a text that is not     *)
(* empty, or a positive number. *)
LEMMA Values ==
  ASSUME NEW raw, Canonical(raw), Whole(raw), NEW k
  PROVE  /\ k \notin DOMAIN raw => /\ stringVal(raw, k) = ""
                                   /\ ~Has(raw, k, "text") /\ ~Has(raw, k, "number")
         /\ k \in DOMAIN raw \cap CanonicalNumbers =>
              /\ Has(raw, k, "number") /\ ~Has(raw, k, "text") /\ stringVal(raw, k) = ""
              /\ raw[k].number \in Nat \ {0}
         /\ k \in DOMAIN raw \cap CanonicalNames =>
              /\ Has(raw, k, "text") /\ ~Has(raw, k, "number")
              /\ stringVal(raw, k) = raw[k].text /\ stringVal(raw, k) # ""
<1>1. ASSUME k \notin DOMAIN raw
      PROVE  stringVal(raw, k) = "" /\ ~Has(raw, k, "text") /\ ~Has(raw, k, "number")
  BY <1>1 DEF stringVal, Has
<1>2. ASSUME k \in DOMAIN raw
      PROVE  /\ DOMAIN raw[k] \in {{"text"}, {"number"}, {"object"}, {"other"}}
             /\ "number" \in DOMAIN raw[k] => raw[k].number \in Int
  BY <1>2 DEF Whole
<1>3. ASSUME k \in DOMAIN raw, k \in CanonicalNumbers
      PROVE  /\ Has(raw, k, "number") /\ ~Has(raw, k, "text") /\ stringVal(raw, k) = ""
             /\ raw[k].number \in Nat \ {0}
  <2>1. Has(raw, k, "number") /\ raw[k].number > 0
    BY <1>3 DEF Canonical
  <2>2. "number" \in DOMAIN raw[k]
    BY <2>1 DEF Has
  <2>3. DOMAIN raw[k] = {"number"} /\ raw[k].number \in Int
    BY <1>2, <1>3, <2>2
  <2>4. ~Has(raw, k, "text")
    BY <2>3 DEF Has
  <2> QED
    BY <2>1, <2>3, <2>4 DEF stringVal
<1>4. ASSUME k \in DOMAIN raw, k \in CanonicalNames
      PROVE  /\ Has(raw, k, "text") /\ ~Has(raw, k, "number")
             /\ stringVal(raw, k) = raw[k].text /\ stringVal(raw, k) # ""
  <2>1. stringVal(raw, k) # ""
    <3>1. k = "ts" => stringVal(raw, k) \in Times
      BY <1>4 DEF Canonical
    <3>2. k # "ts" => stringVal(raw, k) # ""
      BY <1>4 DEF Canonical, CanonicalNames
    <3> QED
      BY <3>1, <3>2, TextsAssumption
  <2>2. Has(raw, k, "text") /\ stringVal(raw, k) = raw[k].text
    BY <2>1 DEF stringVal
  <2>3. "text" \in DOMAIN raw[k]
    BY <2>2 DEF Has
  <2>4. DOMAIN raw[k] = {"text"}
    BY <1>2, <1>4, <2>3
  <2>5. ~Has(raw, k, "number")
    BY <2>4 DEF Has
  <2> QED
    BY <2>1, <2>2, <2>5
<1> QED
  BY <1>1, <1>3, <1>4

(* No alias stands in the place of its canonical name. *)
LEMMA Beside ==
  ASSUME NEW raw, Canonical(raw), NEW c, NEW A, <<c, A>> \in Aliases, c \notin DOMAIN raw
  PROVE  A \cap DOMAIN raw = {}
BY DEF Canonical

(* The least element of a set of positions. *)
LEMMA LeastIs ==
  ASSUME NEW H, H \subseteq Nat, NEW i \in H, \A j \in H : i <= j
  PROVE  Min(H) = i
<1>1. Min(H) \in H /\ \A j \in H : Min(H) <= j
  BY DEF Min
<1> DEFINE l == Min(H)
<1>2. l \in Nat /\ i \in Nat /\ l <= i /\ i <= l
  BY <1>1
<1> HIDE DEF l
<1>3. l = i
  BY <1>2
<1> QED
  BY <1>3 DEF l

(* Of two positions one is before the other. *)
LEMMA NotBefore ==
  ASSUME NEW i \in Nat, NEW j \in Nat, ~(j < i)
  PROVE  i <= j
OBVIOUS

(* The first text is that of a key before which there is none, and without *)
(* which there is none after it. *)
LEMMA StringAt ==
  ASSUME NEW m, NEW keys, DOMAIN keys \subseteq Nat, NEW i \in DOMAIN keys,
         \A j \in DOMAIN keys : j < i => stringVal(m, keys[j]) = "",
         stringVal(m, keys[i]) = "" => \A j \in DOMAIN keys : stringVal(m, keys[j]) = ""
  PROVE  firstString(m, keys) = stringVal(m, keys[i])
<1> DEFINE H == {j \in DOMAIN keys : stringVal(m, keys[j]) # ""}
<1>1. firstString(m, keys) = IF H = {} THEN "" ELSE stringVal(m, keys[Min(H)])
  BY DEF firstString, FirstOf
<1>2. CASE stringVal(m, keys[i]) = ""
  BY <1>1, <1>2
<1>3. CASE stringVal(m, keys[i]) # ""
  <2>1. H \subseteq Nat /\ i \in H
    BY <1>3
  <2>3. ASSUME NEW j \in H PROVE i <= j
    <3>1. j \in DOMAIN keys /\ ~(j < i) /\ j \in Nat /\ i \in Nat
      OBVIOUS
    <3> QED
      BY <3>1, NotBefore, Zenon
  <2> HIDE DEF H
  <2>2. Min(H) = i
    BY <2>1, <2>3, LeastIs
  <2> QED
    BY <1>1, <2>1, <2>2
<1> QED
  BY <1>2, <1>3

(* The same for a number, *)
LEMMA NumberAt ==
  ASSUME NEW m, NEW keys, DOMAIN keys \subseteq Nat, NEW i \in DOMAIN keys,
         \A j \in DOMAIN keys : j < i => ~Has(m, keys[j], "number"),
         Has(m, keys[i], "number")
  PROVE  firstNumber(m, keys) = m[keys[i]].number
<1> DEFINE H == {j \in DOMAIN keys : Has(m, keys[j], "number")}
<1>1. firstNumber(m, keys) = IF H = {} THEN 0 ELSE m[keys[Min(H)]].number
  BY DEF firstNumber, FirstOf
<1>2. H \subseteq Nat /\ i \in H /\ \A j \in H : i <= j
  OBVIOUS
<1> HIDE DEF H
<1>3. Min(H) = i
  BY <1>2, LeastIs
<1> QED
  BY <1>1, <1>2, <1>3

(* for the want of one, *)
LEMMA NoNumber ==
  ASSUME NEW m, NEW keys, \A j \in DOMAIN keys : ~Has(m, keys[j], "number")
  PROVE  firstNumber(m, keys) = 0
BY DEF firstNumber, FirstOf

(* and for a time. *)
LEMMA TimeAt ==
  ASSUME NEW m, NEW keys, NEW none, DOMAIN keys \subseteq Nat, NEW i \in DOMAIN keys,
         \A j \in DOMAIN keys : j < i => stringVal(m, keys[j]) \notin Times,
         stringVal(m, keys[i]) \notin Times =>
           \A j \in DOMAIN keys : stringVal(m, keys[j]) \notin Times
  PROVE  firstTime(m, keys, none) =
           IF stringVal(m, keys[i]) \in Times THEN m[keys[i]].text ELSE none
<1> DEFINE H == {j \in DOMAIN keys : stringVal(m, keys[j]) \in Times}
<1>1. firstTime(m, keys, none) = IF H = {} THEN none ELSE m[keys[Min(H)]].text
  BY DEF firstTime, FirstOf
<1>2. CASE stringVal(m, keys[i]) \notin Times
  BY <1>1, <1>2
<1>3. CASE stringVal(m, keys[i]) \in Times
  <2>1. H \subseteq Nat /\ i \in H
    BY <1>3
  <2>3. ASSUME NEW j \in H PROVE i <= j
    <3>1. j \in DOMAIN keys /\ ~(j < i) /\ j \in Nat /\ i \in Nat
      OBVIOUS
    <3> QED
      BY <3>1, NotBefore, Zenon
  <2> HIDE DEF H
  <2>2. Min(H) = i
    BY <2>1, <2>3, LeastIs
  <2> QED
    BY <1>1, <1>3, <2>1, <2>2
<1> QED
  BY <1>2, <1>3

(* Of the names that are read for something else, none is there. *)
Gone == Misread \cup {"@timestamp", "log.level"}

LEMMA NotThere ==
  ASSUME NEW raw, Canonical(raw) PROVE Gone \cap DOMAIN raw = {}
BY DEF Canonical, IsECS, Gone

(* The other names of a service stand beside one. *)
Named == Aliases \cup {<<"service", {"service_name", "app", "application", "component",
                                     "service.name", "source"}>>}

(* A way looks for a canonical name, and only after it for its aliases. *)
Reads(keys, i, c, A) ==
  /\ DOMAIN keys \subseteq Nat /\ i \in DOMAIN keys /\ keys[i] = c
  /\ \A j \in DOMAIN keys : /\ j < i => keys[j] \in Gone
                            /\ j # i => keys[j] \in A \cup Gone

(* Without the canonical name there is none of the names that are read. *)
LEMMA AllGone ==
  ASSUME NEW raw, Canonical(raw), NEW c, NEW A, <<c, A>> \in Named,
         NEW keys, NEW i, Reads(keys, i, c, A), c \notin DOMAIN raw,
         NEW j \in DOMAIN keys
  PROVE  keys[j] \notin DOMAIN raw
<1>1. c # "service"
  BY DEF Canonical
<1>2. <<c, A>> \in Aliases
  BY <1>1 DEF Named
<1>3. (A \cup Gone) \cap DOMAIN raw = {}
  BY <1>2, Beside, NotThere
<1> QED
  BY <1>3 DEF Reads

(* A text that stands alone, or before its aliases. *)
LEMMA NamedText ==
  ASSUME NEW raw, Canonical(raw), Whole(raw), NEW c, c \in CanonicalNames,
         NEW A, <<c, A>> \in Named, NEW keys, NEW i, Reads(keys, i, c, A)
  PROVE  firstString(raw, keys) = stringVal(raw, c)
<1>1. DOMAIN keys \subseteq Nat /\ i \in DOMAIN keys /\ keys[i] = c
  BY DEF Reads
<1>2. ASSUME NEW j \in DOMAIN keys, j < i PROVE stringVal(raw, keys[j]) = ""
  <2>1. keys[j] \notin DOMAIN raw
    BY <1>2, NotThere DEF Reads
  <2> QED
    BY <2>1, Values
<1>3. ASSUME stringVal(raw, keys[i]) = "", NEW j \in DOMAIN keys
      PROVE  stringVal(raw, keys[j]) = ""
  <2>1. c \notin DOMAIN raw
    BY <1>1, <1>3, Values
  <2>2. keys[j] \notin DOMAIN raw
    BY <2>1, AllGone
  <2> QED
    BY <2>2, Values
<1> QED
  BY <1>1, <1>2, <1>3, StringAt

-----------------------------------------------------------------------------
(* The names, as each way looks for them *)

(* The texts of an event. *)
LEMMA Texts ==
  ASSUME NEW raw, Canonical(raw), Whole(raw)
  PROVE  /\ firstString(raw, <<"level", "severity", "lvl", "log_level">>) = stringVal(raw,
              "level")
         /\ firstString(raw, <<"level", "log.level", "severity">>) = stringVal(raw, "level")
         /\ firstString(raw, <<"service", "service_name", "app", "application", "component">>)
              = stringVal(raw, "service")
         /\ firstString(raw, <<"src_service", "service", "service.name", "source">>) =
              stringVal(raw, "service")
         /\ firstString(raw, <<"trace_id", "traceId", "trace.id", "X-Trace-Id", "x-trace-id">>)
              = stringVal(raw, "trace_id")
         /\ firstString(raw, <<"span_id", "spanId", "span.id">>) = stringVal(raw, "span_id")
         /\ firstString(raw, <<"upstream", "target", "remote_service", "peer.service",
              "dst_service">>) = stringVal(raw, "dst_service")
         /\ firstString(raw, <<"dst_service", "destination", "peer.service">>) = stringVal(raw,
              "dst_service")
         /\ firstString(raw, <<"operation", "event", "rpc.method">>) = stringVal(raw,
              "operation")
         /\ firstString(raw, <<"operation", "method", "http.method", "request">>) =
              stringVal(raw, "operation")
<1> DEFINE Is(keys, c) == firstString(raw, keys) = stringVal(raw, c)
<1>n1. <<"level", {"severity", "lvl", "log_level"}>> \in Named /\ "level" \in CanonicalNames
  BY DEF Named, Aliases, CanonicalNames, CanonicalTexts
<1>1. Is(<<"level", "severity", "lvl", "log_level">>, "level")
  <2>1. Reads(<<"level", "severity", "lvl", "log_level">>, 1, "level", {"severity", "lvl",
          "log_level"})
    BY DEF Reads, Gone, Misread
  <2> QED
    BY <2>1, <1>n1, NamedText
<1>2. Is(<<"level", "log.level", "severity">>, "level")
  <2>1. Reads(<<"level", "log.level", "severity">>, 1, "level", {"severity", "lvl",
          "log_level"})
    BY DEF Reads, Gone, Misread
  <2> QED
    BY <2>1, <1>n1, NamedText
<1>n2. <<"trace_id", {"traceId", "trace.id", "X-Trace-Id", "x-trace-id"}>> \in Named 
        /\ "trace_id" \in CanonicalNames
  BY DEF Named, Aliases, CanonicalNames, CanonicalTexts
<1>5. Is(<<"trace_id", "traceId", "trace.id", "X-Trace-Id", "x-trace-id">>, "trace_id")
  <2>1. Reads(<<"trace_id", "traceId", "trace.id", "X-Trace-Id", "x-trace-id">>, 1, "trace_id",
          {"traceId", "trace.id", "X-Trace-Id", "x-trace-id"})
    BY DEF Reads, Gone, Misread
  <2> QED
    BY <2>1, <1>n2, NamedText
<1>n3. <<"span_id", {"spanId", "span.id"}>> \in Named /\ "span_id" \in CanonicalNames
  BY DEF Named, Aliases, CanonicalNames, CanonicalTexts
<1>6. Is(<<"span_id", "spanId", "span.id">>, "span_id")
  <2>1. Reads(<<"span_id", "spanId", "span.id">>, 1, "span_id", {"spanId", "span.id"})
    BY DEF Reads, Gone, Misread
  <2> QED
    BY <2>1, <1>n3, NamedText
<1>n4. <<"dst_service", {"destination"}>> \in Named /\ "dst_service" \in CanonicalNames
  BY DEF Named, Aliases, CanonicalNames, CanonicalTexts
<1>7. Is(<<"upstream", "target", "remote_service", "peer.service", "dst_service">>,
        "dst_service")
  <2>1. Reads(<<"upstream", "target", "remote_service", "peer.service", "dst_service">>, 5,
          "dst_service", {"destination"})
    BY DEF Reads, Gone, Misread
  <2> QED
    BY <2>1, <1>n4, NamedText
<1>8. Is(<<"dst_service", "destination", "peer.service">>, "dst_service")
  <2>1. Reads(<<"dst_service", "destination", "peer.service">>, 1, "dst_service",
          {"destination"})
    BY DEF Reads, Gone, Misread
  <2> QED
    BY <2>1, <1>n4, NamedText
<1>n5. <<"operation", {"event", "rpc.method", "method", "http.method", "request", "url",
        "path", "uri", "http.url", "http.path"}>> \in Named /\ "operation" \in CanonicalNames
  BY DEF Named, Aliases, CanonicalNames, CanonicalTexts
<1>9. Is(<<"operation", "event", "rpc.method">>, "operation")
  <2>1. Reads(<<"operation", "event", "rpc.method">>, 1, "operation", {"event", "rpc.method",
          "method", "http.method", "request", "url", "path", "uri", "http.url", "http.path"})
    BY DEF Reads, Gone, Misread
  <2> QED
    BY <2>1, <1>n5, NamedText
<1>10. Is(<<"operation", "method", "http.method", "request">>, "operation")
  <2>1. Reads(<<"operation", "method", "http.method", "request">>, 1, "operation", {"event",
          "rpc.method", "method", "http.method", "request", "url", "path", "uri", "http.url",
          "http.path"})
    BY DEF Reads, Gone, Misread
  <2> QED
    BY <2>1, <1>n5, NamedText
<1>n6. <<"service", {"service_name", "app", "application", "component", "service.name",
        "source"}>> \in Named /\ "service" \in CanonicalNames
  BY DEF Named, Aliases, CanonicalNames, CanonicalTexts
<1>3. Is(<<"service", "service_name", "app", "application", "component">>, "service")
  <2>1. Reads(<<"service", "service_name", "app", "application", "component">>, 1, "service",
          {"service_name", "app", "application", "component", "service.name", "source"})
    BY DEF Reads, Gone, Misread
  <2> QED
    BY <2>1, <1>n6, NamedText
<1>4. Is(<<"src_service", "service", "service.name", "source">>, "service")
  <2>1. Reads(<<"src_service", "service", "service.name", "source">>, 2, "service",
          {"service_name", "app", "application", "component", "service.name", "source"})
    BY DEF Reads, Gone, Misread
  <2> QED
    BY <2>1, <1>n6, NamedText
<1> QED
  BY <1>1, <1>2, <1>3, <1>4, <1>5, <1>6, <1>7, <1>8, <1>9, <1>10

-----------------------------------------------------------------------------
(* The numbers and the time, as each way looks for them *)

(* The first two positions. *)
LEMMA FirstTwo ==
  ASSUME NEW H, H \subseteq Nat \ {0}
  PROVE  /\ 1 \in H => Min(H) = 1
         /\ 1 \notin H /\ 2 \in H => Min(H) = 2
<1>1. ASSUME 1 \in H PROVE Min(H) = 1
  <2>1. H \subseteq Nat /\ \A j \in H : 1 <= j
    OBVIOUS
  <2> QED
    BY <1>1, <2>1, LeastIs
<1>2. ASSUME 1 \notin H, 2 \in H PROVE Min(H) = 2
  <2>1. H \subseteq Nat /\ \A j \in H : 2 <= j
    BY <1>2
  <2> QED
    BY <1>2, <2>1, LeastIs
<1> QED
  BY <1>1, <1>2

(* The status of a canonical line, and its latency. *)
StatusOf(raw) == IF "status_code" \in DOMAIN raw THEN raw["status_code"].number
                 ELSE IF "status" \in DOMAIN raw THEN raw["status"].number ELSE 0

LatencyOf(raw) == IF "latency" \in DOMAIN raw THEN raw["latency"].number * Millisecond ELSE 0

(* The attributes of an event hold what its line does under these keys. *)
Keeps(m, raw, keys) ==
  \A j \in DOMAIN keys : /\ keys[j] \in DOMAIN m <=> keys[j] \in DOMAIN raw
                         /\ keys[j] \in DOMAIN raw => m[keys[j]] = raw[keys[j]]

(* A status is a number under the first of two names, or the second. *)
LEMMA Statuses ==
  ASSUME NEW raw, Canonical(raw), Whole(raw)
  PROVE  /\ \A m : Keeps(m, raw, StatusKeys) => attrsStatusCode(m) = StatusOf(raw)
         /\ extractStatusCode(raw) = StatusOf(raw)
         /\ FirstOf(<<"status_code", "status", "http.status_code", "code">>,
                    LAMBDA k : Has(raw, k, "number") /\ raw[k].number # 0,
                    LAMBDA k : raw[k].number, 0) = StatusOf(raw)
<1> DEFINE a == "status_code"
           b == "status"
           rest == {"http.status", "code", "http_status", "http.status_code"}
<1>1. a \notin DOMAIN raw => rest \cap DOMAIN raw = {}
  <2>1. <<"status_code", rest>> \in Aliases
    BY DEF Aliases
  <2> QED
    BY <2>1, Beside
<1>2. /\ a \in DOMAIN raw => Has(raw, a, "number") /\ raw[a].number \in Nat \ {0}
      /\ b \in DOMAIN raw => Has(raw, b, "number") /\ raw[b].number \in Nat \ {0}
      /\ ~Has(raw, a, "text") /\ ~Has(raw, b, "text")
      /\ stringVal(raw, a) \notin DOMAIN Numerals /\ stringVal(raw, b) \notin DOMAIN Numerals
  BY Values, TextsAssumption DEF CanonicalNumbers
<1>3. \A k : k \notin DOMAIN raw => ~Has(raw, k, "number") /\ stringVal(raw, k) \notin DOMAIN Numerals
  BY Values, TextsAssumption
<1>k. /\ DOMAIN StatusKeys = 1 .. 5 /\ StatusKeys[1] = a /\ StatusKeys[2] = b
      /\ \A j \in 3 .. 5 : StatusKeys[j] \in rest
  BY DEF StatusKeys
<1>4. ASSUME NEW m, Keeps(m, raw, StatusKeys) PROVE attrsStatusCode(m) = StatusOf(raw)
  <2> DEFINE H == {j \in DOMAIN StatusKeys : Has(m, StatusKeys[j], "number")}
  <2>1. attrsStatusCode(m) = IF H = {} THEN 0 ELSE m[StatusKeys[Min(H)]].number
    BY DEF attrsStatusCode, firstNumber, FirstOf
  <2>2. \A j \in 1 .. 5 : j \in H <=> Has(raw, StatusKeys[j], "number")
    BY <1>4, <1>k DEF Keeps, Has
  <2>3. H \subseteq 1 .. 5
    BY <1>k
  <2>4. 1 \in H <=> a \in DOMAIN raw
    BY <1>2, <1>3, <1>k, <2>2
  <2>5. 2 \in H <=> b \in DOMAIN raw
    BY <1>2, <1>3, <1>k, <2>2
  <2>6. a \notin DOMAIN raw => H \subseteq {2}
    <3>1. ASSUME a \notin DOMAIN raw, NEW j \in 3 .. 5 PROVE j \notin H
      BY <1>1, <1>3, <1>k, <2>2, <3>1
    <3> QED
      BY <2>3, <2>4, <3>1
  <2>7. /\ a \in DOMAIN raw => m[a] = raw[a]
        /\ b \in DOMAIN raw => m[b] = raw[b]
    BY <1>4, <1>k DEF Keeps
  <2> HIDE DEF H
  <2>8. H \subseteq Nat \ {0}
    BY <2>3
  <2>9. /\ 1 \in H => Min(H) = 1
        /\ 1 \notin H /\ 2 \in H => Min(H) = 2
    BY <2>8, FirstTwo
  <2> QED
    BY <1>k, <2>1, <2>4, <2>5, <2>6, <2>7, <2>9 DEF StatusOf
<1>5. extractStatusCode(raw) = StatusOf(raw)
  <2> DEFINE P(k) == Has(raw, k, "number") \/ stringVal(raw, k) \in DOMAIN Numerals
             H == {j \in DOMAIN StatusKeys : P(StatusKeys[j])}
             F(k) == IF Has(raw, k, "number") THEN raw[k].number ELSE Numerals[raw[k].text]
  <2>1. extractStatusCode(raw) = IF H = {} THEN 0 ELSE F(StatusKeys[Min(H)])
    BY DEF extractStatusCode, FirstOf
  <2>2. H \subseteq 1 .. 5 /\ \A j \in 1 .. 5 : j \in H <=> P(StatusKeys[j])
    BY <1>k
  <2>4. 1 \in H <=> a \in DOMAIN raw
    BY <1>2, <1>3, <1>k, <2>2
  <2>5. 2 \in H <=> b \in DOMAIN raw
    BY <1>2, <1>3, <1>k, <2>2
  <2>6. a \notin DOMAIN raw => H \subseteq {2}
    <3>1. ASSUME a \notin DOMAIN raw, NEW j \in 3 .. 5 PROVE j \notin H
      BY <1>1, <1>3, <1>k, <2>2, <3>1
    <3> QED
      BY <2>2, <2>4, <3>1
  <2>7. /\ a \in DOMAIN raw => F(a) = raw[a].number
        /\ b \in DOMAIN raw => F(b) = raw[b].number
    BY <1>2
  <2> HIDE DEF H, F, P
  <2>9. /\ 1 \in H => Min(H) = 1
        /\ 1 \notin H /\ 2 \in H => Min(H) = 2
    <3>1. H \subseteq Nat \ {0}
      BY <2>2
    <3> QED
      BY <3>1, FirstTwo
  <2> QED
    BY <1>k, <2>1, <2>4, <2>5, <2>6, <2>7, <2>9 DEF StatusOf
<1>6. FirstOf(<<"status_code", "status", "http.status_code", "code">>,
              LAMBDA k : Has(raw, k, "number") /\ raw[k].number # 0,
              LAMBDA k : raw[k].number, 0) = StatusOf(raw)
  <2> DEFINE keys == <<"status_code", "status", "http.status_code", "code">>
             P(k) == Has(raw, k, "number") /\ raw[k].number # 0
             H == {j \in DOMAIN keys : P(keys[j])}
  <2>1. FirstOf(keys, LAMBDA k : Has(raw, k, "number") /\ raw[k].number # 0,
                LAMBDA k : raw[k].number, 0) = IF H = {} THEN 0 ELSE raw[keys[Min(H)]].number
    BY DEF FirstOf
  <2>k. /\ DOMAIN keys = 1 .. 4 /\ keys[1] = a /\ keys[2] = b
        /\ \A j \in 3 .. 4 : keys[j] \in rest
    OBVIOUS
  <2> HIDE DEF keys
  <2>2. H \subseteq 1 .. 4 /\ \A j \in 1 .. 4 : j \in H <=> P(keys[j])
    BY <2>k
  <2>4. 1 \in H <=> a \in DOMAIN raw
    BY <1>2, <1>3, <2>k, <2>2
  <2>5. 2 \in H <=> b \in DOMAIN raw
    BY <1>2, <1>3, <2>k, <2>2
  <2>6. a \notin DOMAIN raw => H \subseteq {2}
    <3>1. ASSUME a \notin DOMAIN raw, NEW j \in 3 .. 4 PROVE j \notin H
      BY <1>1, <1>3, <2>k, <2>2, <3>1
    <3> QED
      BY <2>2, <2>4, <3>1
  <2> HIDE DEF H, P
  <2>9. /\ 1 \in H => Min(H) = 1
        /\ 1 \notin H /\ 2 \in H => Min(H) = 2
    <3>1. H \subseteq Nat \ {0}
      BY <2>2
    <3> QED
      BY <3>1, FirstTwo
  <2> QED
    BY <2>k, <2>1, <2>4, <2>5, <2>6, <2>9 DEF StatusOf, keys
<1> QED
  BY <1>4, <1>5, <1>6

LatencyKeys == <<"latency_ms", "duration_ms", "elapsed_ms", "latency", "duration", "elapsed">>

(* A latency is a number under one name; the names that the pipeline reads  *)
(* before it are not there, and without it nor are those after it. *)
LEMMA Latencies ==
  ASSUME NEW raw, Canonical(raw), Whole(raw)
  PROVE  /\ \A m : Keeps(m, raw, LatencyKeys) => attrsLatency(m) = LatencyOf(raw)
         /\ extractLatency(raw) = LatencyOf(raw)
         /\ FirstOf(<<"latency", "duration", "elapsed", "response_time">>,
                    LAMBDA k : Has(raw, k, "number") /\ raw[k].number # 0,
                    LAMBDA k : raw[k].number * Millisecond, 0) = LatencyOf(raw)
<1> DEFINE a == "latency"
           first == {"latency_ms", "duration_ms", "elapsed_ms"}
           after == {"latency_s", "duration_s", "duration", "elapsed", "response_time",
                     "request_time"}
           rest == first \cup after
<1>0. first \cap DOMAIN raw = {}
  BY NotThere DEF Gone, Misread
<1>1. a \notin DOMAIN raw => rest \cap DOMAIN raw = {}
  <2>1. <<"latency", after>> \in Aliases
    BY DEF Aliases
  <2> QED
    BY <2>1, <1>0, Beside
<1>2. /\ a \in DOMAIN raw => Has(raw, a, "number") /\ raw[a].number \in Nat \ {0}
      /\ ~Has(raw, a, "text")
      /\ a \notin DOMAIN raw => ~Has(raw, a, "number")
      /\ stringVal(raw, a) \notin DOMAIN Durations
  BY Values, TextsAssumption DEF CanonicalNumbers
<1>3. \A k \in first : ~Has(raw, k, "number")
  BY <1>0, Values
<1>4. a \notin DOMAIN raw =>
        \A k \in rest \cup {a} : ~Has(raw, k, "number") /\ stringVal(raw, k) \notin DOMAIN Durations
  <2>1. ASSUME a \notin DOMAIN raw, NEW k \in rest \cup {a}
        PROVE  ~Has(raw, k, "number") /\ stringVal(raw, k) \notin DOMAIN Durations
    <3>1. k \notin DOMAIN raw
      BY <1>1, <2>1
    <3> HIDE DEF rest
    <3> QED
      BY <3>1, Values, TextsAssumption
  <2> QED
    BY <2>1
<1>5. ASSUME NEW m, Keeps(m, raw, LatencyKeys) PROVE attrsLatency(m) = LatencyOf(raw)
  <2>1. attrsLatency(m) = Millisecond * firstNumber(m, LatencyKeys)
    BY DEF attrsLatency, LatencyKeys
  <2>k. /\ DOMAIN LatencyKeys = 1 .. 6 /\ LatencyKeys[4] = a
        /\ \A j \in 1 .. 3 : LatencyKeys[j] \in first
        /\ \A j \in 1 .. 6 : LatencyKeys[j] \in rest \cup {a}
    BY DEF LatencyKeys
  <2>2. \A j \in 1 .. 6 : Has(m, LatencyKeys[j], "number") <=> Has(raw, LatencyKeys[j], "number")
    BY <1>5, <2>k DEF Keeps, Has
  <2>3. CASE a \in DOMAIN raw
    <3>1. /\ \A j \in DOMAIN LatencyKeys : j < 4 => ~Has(m, LatencyKeys[j], "number")
          /\ Has(m, LatencyKeys[4], "number") /\ m[a] = raw[a]
      BY <1>2, <1>3, <1>5, <2>2, <2>3, <2>k DEF Keeps
    <3>2. firstNumber(m, LatencyKeys) = m[LatencyKeys[4]].number
      BY <2>k, <3>1, NumberAt
    <3>3. firstNumber(m, LatencyKeys) = raw[a].number
      BY <2>k, <3>1, <3>2
    <3>4. raw[a].number \in Int /\ Millisecond \in Int
      BY <1>2, <2>3 DEF Millisecond
    <3> DEFINE x == raw[a].number
    <3>5. LatencyOf(raw) = x * Millisecond /\ attrsLatency(m) = Millisecond * x
      BY <2>1, <2>3, <3>3 DEF LatencyOf
    <3> HIDE DEF x
    <3>6. x * Millisecond = Millisecond * x
      BY <3>4 DEF x, Millisecond
    <3> QED
      BY <3>5, <3>6
  <2>4. CASE a \notin DOMAIN raw
    <3>1. \A j \in DOMAIN LatencyKeys : ~Has(m, LatencyKeys[j], "number")
      BY <1>4, <2>2, <2>4, <2>k
    <3>2. firstNumber(m, LatencyKeys) = 0
      BY <3>1, NoNumber
    <3> QED
      BY <2>1, <2>4, <3>2 DEF LatencyOf, Millisecond
  <2> QED
    BY <2>3, <2>4
<1>6. extractLatency(raw) = LatencyOf(raw)
  <2> DEFINE keys == <<"latency", "duration", "elapsed", "response_time", "latency_ms",
                       "duration_ms", "elapsed_ms", "latency_s", "duration_s", "request_time">>
             P(k) == Has(raw, k, "number") \/ stringVal(raw, k) \in DOMAIN Durations
             H == {j \in DOMAIN keys : P(keys[j])}
             F(k) == IF Has(raw, k, "text") THEN Durations[raw[k].text]
                     ELSE IF k \in {"latency_s", "duration_s"}
                     THEN raw[k].number * 1000 * Millisecond ELSE raw[k].number * Millisecond
  <2>1. extractLatency(raw) = IF H = {} THEN 0 ELSE F(keys[Min(H)])
    BY DEF extractLatency, FirstOf
  <2>k. /\ DOMAIN keys = 1 .. 10 /\ keys[1] = a
        /\ \A j \in 1 .. 10 : keys[j] \in rest \cup {a}
    OBVIOUS
  <2> HIDE DEF keys
  <2>2. H \subseteq 1 .. 10 /\ \A j \in 1 .. 10 : j \in H <=> P(keys[j])
    BY <2>k
  <2>3. CASE a \in DOMAIN raw
    <3>1. 1 \in H /\ F(a) = raw[a].number * Millisecond
      BY <1>2, <2>2, <2>3, <2>k
    <3> HIDE DEF H, P, F
    <3>2. H \subseteq Nat \ {0}
      BY <2>2
    <3>3. Min(H) = 1
      BY <3>1, <3>2, FirstTwo
    <3> QED
      BY <2>1, <2>3, <2>k, <3>1, <3>3 DEF LatencyOf
  <2>4. CASE a \notin DOMAIN raw
    <3>1. H = {}
      <4>1. ASSUME NEW j \in 1 .. 10 PROVE j \notin H
        <5>1. ~P(keys[j])
          BY <1>4, <2>4, <2>k
        <5> QED
          BY <2>2, <5>1
      <4> HIDE DEF H, P
      <4> QED
        BY <2>2, <4>1
    <3> QED
      BY <2>1, <2>4, <3>1 DEF LatencyOf
  <2> QED
    BY <2>3, <2>4
<1>7. FirstOf(<<"latency", "duration", "elapsed", "response_time">>,
              LAMBDA k : Has(raw, k, "number") /\ raw[k].number # 0,
              LAMBDA k : raw[k].number * Millisecond, 0) = LatencyOf(raw)
  <2> DEFINE keys == <<"latency", "duration", "elapsed", "response_time">>
             P(k) == Has(raw, k, "number") /\ raw[k].number # 0
             H == {j \in DOMAIN keys : P(keys[j])}
  <2>1. FirstOf(keys, LAMBDA k : Has(raw, k, "number") /\ raw[k].number # 0,
                LAMBDA k : raw[k].number * Millisecond, 0)
        = IF H = {} THEN 0 ELSE raw[keys[Min(H)]].number * Millisecond
    BY DEF FirstOf
  <2>k. /\ DOMAIN keys = 1 .. 4 /\ keys[1] = a
        /\ \A j \in 1 .. 4 : keys[j] \in rest \cup {a}
    OBVIOUS
  <2> HIDE DEF keys
  <2>2. H \subseteq 1 .. 4 /\ \A j \in 1 .. 4 : j \in H <=> P(keys[j])
    BY <2>k
  <2>3. CASE a \in DOMAIN raw
    <3>1. 1 \in H
      BY <1>2, <2>2, <2>3, <2>k
    <3> HIDE DEF H, P
    <3>2. H \subseteq Nat \ {0}
      BY <2>2
    <3>3. Min(H) = 1
      BY <3>1, <3>2, FirstTwo
    <3>4. H # {}
      BY <3>1
    <3> QED
      BY <2>1, <2>3, <2>k, <3>3, <3>4 DEF LatencyOf, keys
  <2>4. CASE a \notin DOMAIN raw
    <3>1. H = {}
      <4>1. ASSUME NEW j \in 1 .. 4 PROVE j \notin H
        <5>1. ~P(keys[j])
          BY <1>4, <2>4, <2>k
        <5> QED
          BY <2>2, <5>1
      <4> HIDE DEF H, P
      <4> QED
        BY <2>2, <4>1
    <3> QED
      BY <2>1, <2>4, <3>1 DEF LatencyOf, keys
  <2> QED
    BY <2>3, <2>4
<1> QED
  BY <1>5, <1>6, <1>7

TimeOf(raw) == IF "ts" \in DOMAIN raw THEN raw["ts"].text ELSE Now

(* A time in RFC 3339 under one name, and under the others none without it. *)
LEMMA InTime ==
  ASSUME NEW raw, Canonical(raw), Whole(raw)
  PROVE  /\ firstTime(raw, <<"ts", "time", "@timestamp">>, Now) = TimeOf(raw)
         /\ firstTime(raw, <<"timestamp", "ts", "@timestamp", "time">>, Now) = TimeOf(raw)
         /\ extractTimestamp(raw) = TimeOf(raw)
<1> DEFINE a == "ts"
           A == {"time", "datetime"}
<1>1. a \notin DOMAIN raw => (A \cup Gone) \cap DOMAIN raw = {}
  <2>1. <<"ts", A>> \in Aliases
    BY DEF Aliases
  <2> QED
    BY <2>1, Beside, NotThere
<1>2. a \in DOMAIN raw => /\ stringVal(raw, a) \in Times /\ Has(raw, a, "text")
                          /\ ~Has(raw, a, "number")
  BY Values DEF CanonicalNames, Canonical
<1>3. \A k : k \notin DOMAIN raw => stringVal(raw, k) \notin Times /\ ~Has(raw, k, "number")
  BY Values, TextsAssumption
<1>4. \A k \in Gone : k \notin DOMAIN raw
  BY NotThere
<1>5. "timestamp" \in Gone /\ "@timestamp" \in Gone
  BY DEF Gone, Misread
<1>6. firstTime(raw, <<"ts", "time", "@timestamp">>, Now) = TimeOf(raw)
  <2> DEFINE keys == <<"ts", "time", "@timestamp">>
  <2>k. /\ DOMAIN keys = 1 .. 3 /\ keys[1] = a
        /\ \A j \in 1 .. 3 : keys[j] \in A \cup Gone \cup {a}
    BY <1>5
  <2> HIDE DEF keys
  <2>1. stringVal(raw, a) \notin Times => \A j \in DOMAIN keys : stringVal(raw, keys[j]) \notin Times
    BY <1>1, <1>2, <1>3, <2>k
  <2>2. firstTime(raw, keys, Now) = IF stringVal(raw, keys[1]) \in Times THEN raw[keys[1]].text ELSE Now
    <3>1. DOMAIN keys \subseteq Nat /\ 1 \in DOMAIN keys /\ \A j \in DOMAIN keys : ~(j < 1)
      BY <2>k
    <3> QED
      BY <2>1, <2>k, <3>1, TimeAt
  <2> QED
    BY <1>2, <1>3, <2>2, <2>k DEF TimeOf, keys
<1>7. firstTime(raw, <<"timestamp", "ts", "@timestamp", "time">>, Now) = TimeOf(raw)
  <2> DEFINE keys == <<"timestamp", "ts", "@timestamp", "time">>
  <2>k. /\ DOMAIN keys = 1 .. 4 /\ keys[1] = "timestamp" /\ keys[2] = a
        /\ \A j \in 1 .. 4 : keys[j] \in A \cup Gone \cup {a}
    BY <1>5
  <2> HIDE DEF keys
  <2>1. stringVal(raw, a) \notin Times => \A j \in DOMAIN keys : stringVal(raw, keys[j]) \notin Times
    BY <1>1, <1>2, <1>3, <2>k
  <2>2. firstTime(raw, keys, Now) = IF stringVal(raw, keys[2]) \in Times THEN raw[keys[2]].text ELSE Now
    <3>1. DOMAIN keys \subseteq Nat /\ 2 \in DOMAIN keys /\ \A j \in DOMAIN keys : j < 2 => j = 1
      BY <2>k
    <3>2. stringVal(raw, keys[1]) \notin Times
      BY <1>3, <1>4, <1>5, <2>k
    <3> QED
      BY <2>1, <2>k, <3>1, <3>2, TimeAt
  <2> QED
    BY <1>2, <1>3, <2>2, <2>k DEF TimeOf, keys
<1>8. extractTimestamp(raw) = TimeOf(raw)
  <2> DEFINE keys == <<"ts", "time", "@timestamp", "timestamp", "datetime">>
             P(k) == stringVal(raw, k) \in Times \/ Has(raw, k, "number")
             H == {j \in DOMAIN keys : P(keys[j])}
             F(k) == IF Has(raw, k, "text") THEN raw[k].text ELSE "epoch"
  <2>1. extractTimestamp(raw) = IF H = {} THEN Now ELSE F(keys[Min(H)])
    BY DEF extractTimestamp, FirstOf
  <2>k. /\ DOMAIN keys = 1 .. 5 /\ keys[1] = a
        /\ \A j \in 1 .. 5 : keys[j] \in A \cup Gone \cup {a}
    BY <1>5
  <2> HIDE DEF keys
  <2>2. H \subseteq 1 .. 5 /\ \A j \in 1 .. 5 : j \in H <=> P(keys[j])
    BY <2>k
  <2>3. CASE a \in DOMAIN raw
    <3>1. 1 \in H /\ F(a) = raw[a].text
      BY <1>2, <2>2, <2>3, <2>k
    <3> HIDE DEF H, P, F
    <3>2. H \subseteq Nat \ {0}
      BY <2>2
    <3>3. Min(H) = 1
      BY <3>1, <3>2, FirstTwo
    <3> QED
      BY <2>1, <2>3, <2>k, <3>1, <3>3 DEF TimeOf
  <2>4. CASE a \notin DOMAIN raw
    <3>1. H = {}
      <4>1. ASSUME NEW j \in 1 .. 5 PROVE j \notin H
        <5>1. keys[j] \notin DOMAIN raw
          BY <1>1, <2>4, <2>k
        <5> QED
          BY <1>3, <2>2, <5>1
      <4> HIDE DEF H, P
      <4> QED
        BY <2>2, <4>1
    <3> QED
      BY <2>1, <2>4, <3>1 DEF TimeOf
  <2> QED
    BY <2>3, <2>4
<1> QED
  BY <1>6, <1>7, <1>8

-----------------------------------------------------------------------------
(* The three ways *)

(* The event of a canonical line from the standard input. *)
EventOf(raw) ==
  [ts |-> TimeOf(raw), src |-> stringVal(raw, "service"), level |-> stringVal(raw, "level"),
   sourceName |-> "stdin", format |-> "json", trace |-> stringVal(raw, "trace_id"),
   span |-> stringVal(raw, "span_id"), dst |-> stringVal(raw, "dst_service"),
   operation |-> stringVal(raw, "operation"), status |-> StatusOf(raw),
   latency |-> LatencyOf(raw)]

(* A level is in lower case as it is, and so is none. *)
LEMMA LevelIsLower ==
  ASSUME NEW raw, Canonical(raw)
  PROVE  lower(stringVal(raw, "level")) = stringVal(raw, "level")
BY DEF Canonical

(* Fields that the parser has no use for become attributes as they are.    *)
LEMMA AttrsKeep ==
  ASSUME NEW raw, NEW e, e.attrs = <<>>, NEW named, NEW keys,
         \A j \in DOMAIN keys : keys[j] \notin named \cup {"format"}
  PROVE  Keeps(Attrs(e, "json", raw, named), raw, keys)
<1> DEFINE own == Restrict(raw, DOMAIN raw \ named)
           rest == Over([format |-> Text("json")], e.attrs)
           m == Over(own, rest)
<1>1. /\ DOMAIN own = DOMAIN raw \ named
      /\ \A k \in DOMAIN raw \ named : own[k] = raw[k]
  BY DEF Restrict
<1>2. DOMAIN rest = {"format"}
  BY DEF Over
<1> HIDE DEF own, rest
<1>3. /\ DOMAIN m = DOMAIN own \cup DOMAIN rest
      /\ \A k \in DOMAIN own : m[k] = own[k]
  BY DEF Over
<1>4. Attrs(e, "json", raw, named) = m
  BY DEF Attrs, own, rest
<1> HIDE DEF m
<1> QED
  BY <1>1, <1>2, <1>3, <1>4 DEF Keeps

(* The pipeline's way: the parser, then Normalize. *)
LEMMA LiveWay ==
  ASSUME NEW line, line.form = "json", Canonical(line.raw), Whole(line.raw)
  PROVE  Normalize(ParseEvent(SourceEvent([type |-> "stdin", service |-> ""]), line))
         = EventOf(line.raw)
<1> DEFINE raw == line.raw
           e == SourceEvent([type |-> "stdin", service |-> ""])
           named == {"ts", "time", "@timestamp", "message", "msg", "level", "severity", "lvl",
                     "log_level", "service", "service_name", "app"}
           m == Attrs(e, "json", raw, named)
           p == ParseJSON(e, raw)
<1>1. /\ e.ts = Now /\ e.source = "stdin" /\ e.service = "" /\ e.type = "log" /\ e.level = ""
      /\ e.attrs = <<>>
      /\ DOMAIN e = {"ts", "source", "service", "type", "level", "message", "metric", "attrs"}
  BY DEF SourceEvent
<1>2. ParseEvent(e, line) = p
  <2>1. ~IsMetric(raw) /\ ~IsECS(raw)
    <3>1. "metric" \notin DOMAIN raw
      BY NotThere DEF Gone, Misread
    <3>2. stringVal(raw, "metric") = ""
      BY <3>1, Values
    <3> QED
      BY <3>2 DEF IsMetric, Canonical
  <2> HIDE DEF e
  <2> QED
    BY <2>1 DEF ParseEvent
<1> HIDE DEF e
<1>3. extractLevel(raw) = stringVal(raw, "level") /\ extractService(raw) = stringVal(raw, "service")
  BY Texts, LevelIsLower DEF extractLevel, extractService
<1>4. applyTimestamp(e, raw) = TimeOf(raw)
  BY <1>1, InTime DEF applyTimestamp
<1>5. /\ p.ts = TimeOf(raw) /\ p.level = stringVal(raw, "level")
      /\ p.service = stringVal(raw, "service") /\ p.attrs = m
      /\ p.source = "stdin" /\ p.type = "log"
  <2> DEFINE msg == e.message \/ HasMessage(raw)
             lev == IF extractLevel(raw) # "" THEN extractLevel(raw) ELSE e.level
             srv == IF extractService(raw) # "" THEN extractService(raw) ELSE e.service
  <2>1. p = [e EXCEPT !.message = msg, !.ts = applyTimestamp(e, raw), !.level = lev,
                      !.service = srv, !.attrs = m]
    BY DEF ParseJSON
  <2>2. lev = stringVal(raw, "level") /\ srv = stringVal(raw, "service")
    BY <1>1, <1>3
  <2> HIDE DEF msg, lev, srv, m, p
  <2> QED
    BY <1>1, <1>4, <2>1, <2>2
<1>6. \A keys : (\A j \in DOMAIN keys : keys[j] \notin named \cup {"format"}) => Keeps(m, raw, keys)
  BY <1>1, AttrsKeep
<1> HIDE DEF m, p
<1>7. \A k \in {"trace_id", "span_id", "dst_service", "operation"} :
        stringVal(m, k) = stringVal(raw, k)
  <2>1. ASSUME NEW k \in {"trace_id", "span_id", "dst_service", "operation"}
        PROVE  stringVal(m, k) = stringVal(raw, k)
    <3> DEFINE keys == <<k>>
    <3>1. DOMAIN keys = {1} /\ keys[1] = k
      OBVIOUS
    <3>2. k \notin named \cup {"format"}
      OBVIOUS
    <3> HIDE DEF keys, named
    <3>3. Keeps(m, raw, keys)
      BY <1>6, <3>1, <3>2
    <3> QED
      BY <3>1, <3>3 DEF Keeps, stringVal, Has
  <2> QED
    BY <2>1
<1>8. stringVal(m, "format") = "json"
  <2>1. "format" \notin DOMAIN raw
    BY NotThere DEF Gone, Misread
  <2> DEFINE own == Restrict(raw, DOMAIN raw \ named)
             rest == Over([format |-> Text("json")], e.attrs)
  <2>2. "format" \notin DOMAIN own
    BY <2>1 DEF Restrict
  <2>3. "format" \in DOMAIN rest /\ rest["format"] = Text("json")
    BY DEF Over
  <2> HIDE DEF own, rest
  <2>4. m = Over(own, rest)
    BY DEF m, Attrs, own, rest
  <2>5. "format" \in DOMAIN m /\ m["format"] = Text("json")
    BY <2>2, <2>3, <2>4 DEF Over
  <2> QED
    BY <2>5 DEF stringVal, Has, Text
<1>9. attrsStatusCode(m) = StatusOf(raw)
  <2>1. \A j \in DOMAIN StatusKeys : StatusKeys[j] \notin named \cup {"format"}
    BY DEF StatusKeys
  <2> QED
    BY <1>6, <2>1, Statuses
<1>10. attrsLatency(m) = LatencyOf(raw)
  <2>1. \A j \in DOMAIN LatencyKeys : LatencyKeys[j] \notin named \cup {"format"}
    BY DEF LatencyKeys
  <2> QED
    BY <1>6, <2>1, Latencies
<1>11. Normalize(p) = EventOf(raw)
  BY <1>5, <1>7, <1>8, <1>9, <1>10 DEF Normalize, EventOf
<1> QED
  BY <1>2, <1>11 DEF e

(* ParseNormalized. *)
LEMMA DirectWay ==
  ASSUME NEW line, line.form = "json", Canonical(line.raw), Whole(line.raw)
  PROVE  ParseNormalized(line, "stdin") = EventOf(line.raw)
<1> DEFINE raw == line.raw
<1>1. ParseNormalized(line, "stdin") = ParseJSONNormalized(raw, "stdin")
  <2>1. "metric" \notin DOMAIN raw
    BY NotThere DEF Gone, Misread
  <2> QED
    BY <2>1 DEF ParseNormalized, Canonical
<1>2. /\ extractLevel(raw) = stringVal(raw, "level")
      /\ extractService(raw) = stringVal(raw, "service")
  BY Texts, LevelIsLower DEF extractLevel, extractService
<1> DEFINE named == firstString(raw, <<"operation", "event", "rpc.method">>)
           joined == Joined(firstString(raw, <<"method", "http.method">>),
                            firstString(raw, <<"url", "path", "uri", "http.url", "http.path">>))
<1>3. named = "" => joined = ""
  <2>1. SUFFICES ASSUME named = "" PROVE joined = ""
    OBVIOUS
  <2> DEFINE A == {"event", "rpc.method", "method", "http.method", "request", "url", "path",
                   "uri", "http.url", "http.path"}
  <2>2. A \cap DOMAIN raw = {}
    <3>1. "operation" \notin DOMAIN raw
      BY <2>1, Texts, Values DEF CanonicalNames, CanonicalTexts
    <3>2. <<"operation", A>> \in Aliases
      BY DEF Aliases
    <3> QED
      BY <3>1, <3>2, Beside
  <2>3. \A k \in A : stringVal(raw, k) = ""
    BY <2>2, Values
  <2>4. firstString(raw, <<"method", "http.method">>) = ""
    <3> DEFINE keys == <<"method", "http.method">>
    <3>1. \A j \in DOMAIN keys : keys[j] \in A
      OBVIOUS
    <3> HIDE DEF keys
    <3>2. {j \in DOMAIN keys : stringVal(raw, keys[j]) # ""} = {}
      BY <2>3, <3>1
    <3>3. firstString(raw, keys) = ""
      BY <3>2 DEF firstString, FirstOf
    <3> QED
      BY <3>3 DEF keys
  <2>5. firstString(raw, <<"url", "path", "uri", "http.url", "http.path">>) = ""
    <3> DEFINE keys == <<"url", "path", "uri", "http.url", "http.path">>
    <3>1. \A j \in DOMAIN keys : keys[j] \in A
      OBVIOUS
    <3> HIDE DEF keys
    <3>2. {j \in DOMAIN keys : stringVal(raw, keys[j]) # ""} = {}
      BY <2>3, <3>1
    <3>3. firstString(raw, keys) = ""
      BY <3>2 DEF firstString, FirstOf
    <3> QED
      BY <3>3 DEF keys
  <2> QED
    BY <2>4, <2>5 DEF Joined
<1>4. /\ named = stringVal(raw, "operation")
      /\ firstString(raw, <<"trace_id", "traceId", "trace.id", "X-Trace-Id", "x-trace-id">>)
         = stringVal(raw, "trace_id")
      /\ firstString(raw, <<"span_id", "spanId", "span.id">>) = stringVal(raw, "span_id")
      /\ firstString(raw, <<"upstream", "target", "remote_service", "peer.service",
                            "dst_service">>) = stringVal(raw, "dst_service")
  BY Texts
<1>5. (IF named # "" THEN named ELSE joined) = stringVal(raw, "operation")
  BY <1>3, <1>4
<1>6. extractTimestamp(raw) = TimeOf(raw) /\ extractStatusCode(raw) = StatusOf(raw)
      /\ extractLatency(raw) = LatencyOf(raw)
  BY InTime, Statuses, Latencies
<1>7. ParseJSONNormalized(raw, "stdin")
      = [EmptyEvent("json", "stdin") EXCEPT
           !.ts = TimeOf(raw), !.level = stringVal(raw, "level"),
           !.src = stringVal(raw, "service"), !.trace = stringVal(raw, "trace_id"),
           !.span = stringVal(raw, "span_id"), !.dst = stringVal(raw, "dst_service"),
           !.status = StatusOf(raw), !.latency = LatencyOf(raw),
           !.operation = IF named # "" THEN named ELSE joined]
  BY <1>2, <1>4, <1>6, Zenon DEF ParseJSONNormalized
<1> HIDE DEF named, joined
<1>8. ParseJSONNormalized(raw, "stdin") = EventOf(raw)
  BY <1>5, <1>7 DEF EmptyEvent, EventOf
<1> QED
  BY <1>1, <1>8

(* NewFromRaw, which does not know the format. *)
LEMMA RawWay ==
  ASSUME NEW raw, Canonical(raw), Whole(raw)
  PROVE  /\ [NewFromRaw(raw, "stdin") EXCEPT !.format = "json"] = EventOf(raw)
         /\ Valid(NewFromRaw(raw, "stdin"))
<1> DEFINE n == NewFromRaw(raw, "stdin")
<1>1. /\ n.ts = TimeOf(raw) /\ n.status = StatusOf(raw) /\ n.latency = LatencyOf(raw)
  BY InTime, Statuses, Latencies DEF NewFromRaw
<1>2. /\ n.src = stringVal(raw, "service") /\ n.level = stringVal(raw, "level")
      /\ n.dst = stringVal(raw, "dst_service") /\ n.operation = stringVal(raw, "operation")
  BY Texts DEF NewFromRaw
<1>3. /\ n.sourceName = "stdin" /\ n.trace = stringVal(raw, "trace_id")
      /\ n.span = stringVal(raw, "span_id")
  BY DEF NewFromRaw
<1>4. n = [ts |-> n.ts, src |-> n.src, level |-> n.level, sourceName |-> n.sourceName,
           format |-> n.format, trace |-> n.trace, span |-> n.span, dst |-> n.dst,
           operation |-> n.operation, status |-> n.status, latency |-> n.latency]
  BY DEF NewFromRaw
<1> HIDE DEF n
<1>5. [n EXCEPT !.format = "json"] = EventOf(raw)
  <2> DEFINE f == n.format
  <2>1. n = [ts |-> TimeOf(raw), src |-> stringVal(raw, "service"),
             level |-> stringVal(raw, "level"), sourceName |-> "stdin", format |-> f,
             trace |-> stringVal(raw, "trace_id"), span |-> stringVal(raw, "span_id"),
             dst |-> stringVal(raw, "dst_service"),
             operation |-> stringVal(raw, "operation"), status |-> StatusOf(raw),
             latency |-> LatencyOf(raw)]
    BY <1>1, <1>2, <1>3, <1>4
  <2> HIDE DEF f
  <2> QED
    BY <2>1 DEF EventOf
<1>6. stringVal(raw, "service") # ""
  <2>1. "service" \in DOMAIN raw /\ "service" \in CanonicalNames
    BY DEF Canonical, CanonicalNames, CanonicalTexts
  <2> QED
    BY <2>1, Values
<1> QED
  BY <1>2, <1>5, <1>6 DEF n, Valid

(* The line that is in the pipeline is one that a source has read. *)
LineRead == flow # <<>> => flow.line \in Lines

LEMMA LineStep == LineRead /\ [Next]_vars => LineRead'
<1> SUFFICES ASSUME LineRead, [Next]_vars PROVE LineRead'
  OBVIOUS
<1>1. CASE flow' \in {flow, <<>>}
  BY <1>1 DEF LineRead
<1>2. CASE Handle
  <2>1. \E line \in Lines : \E c : flow' = [line |-> line, call |-> c]
    BY <1>2 DEF Handle
  <2> QED
    BY <2>1 DEF LineRead
<1>3. CASE LoadConfig \/ LoadFails \/ BuildFails \/ Start \/ RunReturns \/ UIFailed \/ UIDone
           \/ ResultTaken \/ Deliver \/ Signal \/ PressQuit \/ UIFails \/ ServerStep
           \/ (\E result \in Results : PipelineEnds(result) \/ UIReturns(result))
           \/ UNCHANGED vars
  BY <1>1, <1>3 DEF LoadConfig, LoadFails, BuildFails, Start, RunReturns, UIFailed, UIDone,
     ResultTaken, Deliver, Signal, PressQuit, UIFails, ServerStep, PipelineEnds, UIReturns, vars
<1> QED
  BY <1>2, <1>3 DEF Next, MainStep

(* Every canonical line makes the same event on the pipeline's way and on   *)
(* the two others, whatever stands beside its names but those of Misread:   *)
(* each way looks in an order of its own, and in each the first value that  *)
(* it takes is the one under the canonical name, be the aliases after it    *)
(* texts, numbers or objects. *)
THEOREM ThreeWaysAgree == Spec => []PathsAgree
<1>1. Init => LineRead
  BY DEF Init, LineRead
<1>2. LineRead => PathsAgree
  <2> SUFFICES ASSUME LineRead, flow # <<>>, flow.line.form = "json", Canonical(flow.line.raw)
               PROVE  LET live  == Normalize(ParseEvent(SourceEvent([type |-> "stdin",
                                                                     service |-> ""]), flow.line))
                          other == NewFromRaw(flow.line.raw, "stdin")
                      IN  /\ Valid(other)
                          /\ live = ParseNormalized(flow.line, "stdin")
                          /\ live = [other EXCEPT !.format = "json"]
    BY DEF PathsAgree
  <2>1. Whole(flow.line.raw)
    BY LinesAssumption DEF LineRead, Whole
  <2> QED
    BY <2>1, LiveWay, DirectWay, RawWay
<1> QED
  BY <1>1, <1>2, LineStep, PTL DEF Spec
=============================================================================
