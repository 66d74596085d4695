------------------------------ MODULE Collector ------------------------------
(***************************************************************************)
(* The whole program (src/cmd/collector, src/internal/app): it loads and   *)
(* checks a configuration, builds the pipeline, and runs it in one of      *)
(* three ways: plain, with the terminal UI, or with a metrics endpoint.    *)
(*                                                                         *)
(* Pipeline models the inside of a run: here it is something that handles  *)
(* lines and ends, with a result, by itself or when cancelled.  Screens    *)
(* models the inside of the UI: here it is something that is quit.         *)
(***************************************************************************)
EXTENDS Ingest

CONSTANTS Configs, (* configurations, see MCCollector                       *)
          Lines    (* lines that a source may read                          *)

(* What a file names is not endless. *)
ASSUME ConfigsAssumption ==
  \A c \in Configs : /\ IsFiniteSet(DOMAIN c.sources) /\ IsFiniteSet(DOMAIN c.transforms)
                     /\ IsFiniteSet(DOMAIN c.sinks)

(* A value in a line is of one kind, and its numbers are whole. *)
ASSUME LinesAssumption ==
  \A line \in Lines : line.form = "json" =>
    \A k \in DOMAIN line.raw :
      /\ DOMAIN line.raw[k] \in {{"text"}, {"number"}, {"object"}, {"other"}}
      /\ "number" \in DOMAIN line.raw[k] => line.raw[k].number \in Int

Modes == {"plain", "tui", "metrics"}

VARIABLES mode,     (* how the collector was started                        *)
          cfg,      (* what the file says                                   *)
          main,     (* where main is; "exit 0" and "exit 1" are its ends    *)
          selected, (* names of the sources of the pipeline                 *)
          pipe,     (* the pipeline: "none", "running", or its result       *)
          cancelled,(* whether the context is done                          *)
          signal,   (* whether a signal has come                            *)
          quitting, (* whether the UI has been told to quit: "no", or by what *)
          ui,       (* the UI: "none", "up", or its result                  *)
          server,   (* the metrics server                                   *)
          flow      (* the line that is in the pipeline, and the call made of it *)

ends == <<pipe, cancelled, signal, quitting, ui, server>>
vars == <<mode, cfg, main, selected, ends, flow>>

Init ==
  /\ mode \in Modes /\ cfg \in Configs /\ main = "load"
  /\ selected = <<>> /\ flow = <<>>
  /\ pipe = "none" /\ ui = "none" /\ server = "off"
  /\ cancelled = FALSE /\ signal = FALSE /\ quitting = "no"

Exited == main \in {"exit 0", "exit 1"}

Exit(result) == main' = IF result = "nil" THEN "exit 0" ELSE "exit 1"

-----------------------------------------------------------------------------
(* The configuration. *)
componentExists(name) == name \in DOMAIN cfg.sources \cup DOMAIN cfg.transforms

ValidInputs(inputs) == inputs # <<>> /\ \A i \in DOMAIN inputs : componentExists(inputs[i])

Validate ==
  /\ cfg.sources # <<>> /\ cfg.sinks # <<>>
  /\ \A name \in DOMAIN cfg.transforms : ValidInputs(cfg.transforms[name].inputs)
  /\ \A name \in DOMAIN cfg.sinks : ValidInputs(cfg.sinks[name].inputs)

hasTransform == cfg.transforms # <<>>

(* A mutation: what may feed a transform is what Validate lets pass.        *)
KnownInputs(t) == \A i \in DOMAIN t.inputs : componentExists(t.inputs[i])

SourceInputs(t) == \A i \in DOMAIN t.inputs : t.inputs[i] \in DOMAIN cfg.sources

(* The sources of the pipeline: the inputs of the transform as they are     *)
(* listed, or all sources in the order of a map.  Nothing on an error.      *)
buildSourcesAndTransform ==
  IF \E name \in DOMAIN cfg.sources : cfg.sources[name].type \notin {"stdin", "file", "docker"}
  THEN {}
  ELSE IF ~hasTransform THEN SetToSeqs(DOMAIN cfg.sources)
  ELSE {cfg.transforms[name].inputs :
          name \in {n \in DOMAIN cfg.transforms : /\ cfg.transforms[n].type = "remap-lite"
                                                  /\ SourceInputs(cfg.transforms[n])}}

validateSinkInputs(sink) ==
  hasTransform => \E i \in DOMAIN sink.inputs : sink.inputs[i] \in DOMAIN cfg.transforms

buildPipeline ==
  IF /\ Cardinality(DOMAIN cfg.transforms) <= 1 /\ Cardinality(DOMAIN cfg.sinks) = 1
     /\ \A name \in DOMAIN cfg.sinks : /\ validateSinkInputs(cfg.sinks[name])
                                       /\ cfg.sinks[name].type = "stdout"
  THEN buildSourcesAndTransform ELSE {}

buildPipelineWithSink ==
  IF Cardinality(DOMAIN cfg.transforms) <= 1 THEN buildSourcesAndTransform ELSE {}

-----------------------------------------------------------------------------
(* main, App.Run, App.RunWithTUI and App.RunMetrics. *)
LoadConfig == /\ main = "load"
              /\ main' = IF Validate THEN "build" ELSE "exit 1"
              /\ UNCHANGED <<mode, cfg, selected, ends, flow>>

(* The file cannot be read, or is no YAML.                                  *)
LoadFails == /\ main = "load" /\ main' = "exit 1"
             /\ UNCHANGED <<mode, cfg, selected, ends, flow>>

(* The daemon's client may fail, and with it the resolver.                  *)
ResolverFails == cfg.docker

BuildFails ==
  /\ main = "build"
  /\ ResolverFails \/ {} = IF mode = "plain" THEN buildPipeline ELSE buildPipelineWithSink
  /\ main' = "exit 1" /\ cancelled' = (cancelled \/ mode # "plain")
  /\ UNCHANGED <<mode, cfg, selected, pipe, signal, quitting, ui, server, flow>>

Start ==
  /\ main = "build"
  /\ selected' \in IF mode = "plain" THEN buildPipeline ELSE buildPipelineWithSink
  /\ pipe' = "running"
  /\ main' = IF mode = "tui" THEN "ui" ELSE "run"
  /\ ui' = IF mode = "tui" THEN "up" ELSE ui
  /\ server' = IF mode = "metrics" THEN "starting" ELSE server
  /\ UNCHANGED <<mode, cfg, cancelled, signal, quitting, flow>>

(* A mutation: main waits for the server to be shut down, too.              *)
RunAwaitsServer ==
  /\ main = "run" /\ pipe \in {"nil", "error"} /\ (mode = "metrics" => server = "closed")
  /\ Exit(pipe)
  /\ UNCHANGED <<mode, cfg, selected, ends, flow>>

(* Plain and metrics: main waits in p.Run.                                  *)
RunReturns ==
  /\ main = "run" /\ pipe \in {"nil", "error"}
  /\ Exit(pipe) /\ cancelled' = (cancelled \/ mode = "metrics")
  /\ UNCHANGED <<mode, cfg, selected, pipe, signal, quitting, ui, server, flow>>

(* With the UI, main waits for it, and then for the pipeline.               *)
UIFailed == /\ main = "ui" /\ ui = "error"
            /\ cancelled' = TRUE /\ main' = "exit 1"
            /\ UNCHANGED <<mode, cfg, selected, pipe, signal, quitting, ui, server, flow>>

(* A mutation: nobody looks at what the pipeline returned.                  *)
UIDoneExits == /\ main = "ui" /\ ui = "nil"
               /\ cancelled' = TRUE /\ main' = "exit 0"
               /\ UNCHANGED <<mode, cfg, selected, pipe, signal, quitting, ui, server, flow>>

UIDone == /\ main = "ui" /\ ui = "nil"
          /\ cancelled' = TRUE /\ main' = "wait"
          /\ UNCHANGED <<mode, cfg, selected, pipe, signal, quitting, ui, server, flow>>

ResultTaken == /\ main = "wait" /\ pipe \in {"nil", "error"} /\ Exit(pipe)
               /\ UNCHANGED <<mode, cfg, selected, ends, flow>>

MainStep == LoadConfig \/ BuildFails \/ Start \/ RunReturns \/ UIFailed \/ UIDone
            \/ ResultTaken

-----------------------------------------------------------------------------
(* What runs beside main. *)

(* The event a source makes of a line.                                      *)
SourceEvent(src) ==
  [ts |-> Now, source |-> src.type, service |-> src.service, type |-> "log",
   level |-> IF src.type = "stdin" THEN "" ELSE "info", message |-> TRUE, metric |-> "",
   attrs |-> CASE src.type = "stdin"  -> <<>>
               [] src.type = "file"   -> [path |-> Text("file")]
               [] src.type = "docker" -> [container_id |-> Text("container")]]

Added == IF hasTransform THEN cfg.transforms[CHOOSE n \in DOMAIN cfg.transforms : TRUE].add
         ELSE <<>>

Normalized(line, src) ==
  resolve(Normalize(Remap(ParseEvent(SourceEvent(src), line), Added)), cfg.static)

(* A line goes through the pipeline, and the sink takes what it has become.  *)
(* The sink of the plain mode writes it out and makes no call of it.        *)
Handle ==
  /\ ~Exited /\ pipe = "running" /\ flow = <<>>
  /\ \E name \in ToSet(selected), line \in Lines :
       /\ cfg.sources[name].type = "docker" => line.form # "blank"
       /\ flow' = [line |-> line, call |-> IF mode = "plain" THEN <<>>
                                          ELSE Call(Normalized(line, cfg.sources[name]))]
  /\ UNCHANGED <<mode, cfg, main, selected, ends>>

Deliver == /\ ~Exited /\ pipe = "running" /\ flow # <<>>
           /\ flow' = <<>>
           /\ UNCHANGED <<mode, cfg, main, selected, ends>>

PipelineEnds(result) == /\ ~Exited /\ pipe = "running" /\ pipe' = result /\ flow' = <<>>
                        /\ UNCHANGED <<mode, cfg, main, selected, cancelled, signal, quitting,
                                       ui, server>>

(* A signal reaches main's context and, once it is up, the UI, which has a  *)
(* handler of its own.  One that comes before the UI is up is not seen by it. *)
Signal == /\ main \notin {"load", "exit 0", "exit 1"} /\ ~signal
          /\ signal' = TRUE /\ cancelled' = TRUE
          /\ quitting' = IF ui = "up" THEN "signal" ELSE quitting
          /\ UNCHANGED <<mode, cfg, main, selected, pipe, ui, server, flow>>

(* The key: Model.Update cancels and tells Bubble Tea to quit.              *)
PressQuit == /\ ~Exited /\ ui = "up" /\ quitting = "no"
             /\ quitting' = "key" /\ cancelled' = TRUE
             /\ UNCHANGED <<mode, cfg, main, selected, pipe, signal, ui, server, flow>>

(* Bubble Tea returns an error for one of the signals, and nil otherwise.   *)
UIReturns(result) ==
  /\ ~Exited /\ ui = "up"
  /\ quitting = "signal" \/ (quitting = "key" /\ result = "nil")
  /\ ui' = result
  /\ UNCHANGED <<mode, cfg, main, selected, pipe, cancelled, signal, quitting, server, flow>>

(* The terminal cannot be used, or the UI panics.                          *)
UIFails == /\ ~Exited /\ ui = "up" /\ ui' = "error"
           /\ UNCHANGED <<mode, cfg, main, selected, pipe, cancelled, signal, quitting, server,
                          flow>>

(* The server of the metrics listens, or cannot, and is shut down at the    *)
(* end.  Whatever becomes of it is only logged.                             *)
ServerStep ==
  /\ ~Exited
  /\ \/ server = "starting" /\ server' \in {"listening", "failed"}
     \/ server \in {"starting", "listening"} /\ cancelled /\ server' = "closed"
  /\ UNCHANGED <<mode, cfg, main, selected, pipe, cancelled, signal, quitting, ui, flow>>

Results == {"nil", "error"}

Next == \/ MainStep \/ LoadFails \/ Signal \/ PressQuit \/ UIFails \/ ServerStep \/ Handle \/ Deliver
        \/ \E result \in Results : PipelineEnds(result) \/ UIReturns(result)

Spec == Init /\ [][Next]_vars

(* Main goes on; a run that is cancelled ends (Pipeline.CancelEnds); Bubble *)
(* Tea obeys a key or a signal.  Nothing else has to happen.                *)
Fairness == /\ WF_vars(MainStep)
            /\ WF_vars(cancelled /\ \E result \in Results : PipelineEnds(result))
            /\ WF_vars(\E result \in Results : UIReturns(result))

FairSpec == Spec /\ Fairness

-----------------------------------------------------------------------------
(* The exit status tells how the run went: 0 only if the pipeline has ended *)
(* and had no error, in whatever order it ended, was cancelled and the UI   *)
(* was quit.  With the UI the error waits in a channel until main, which    *)
(* may be in the UI for hours, comes to fetch it (App.RunWithTUI).          *)
ExitTells == main = "exit 0" => pipe = "nil"

(* After a signal or the key the collector exits: every wait of main is one *)
(* that the cancellation ends (README.md:12).  A signal that comes before   *)
(* the UI is up is left out: it ends the pipeline and leaves the UI.        *)
ToldToEnds == (quitting # "no" \/ (signal /\ mode # "tui")) ~> Exited

(* What the pipeline was built from is in the configuration: every source   *)
(* of it is configured, with a transform it is an input of the transform,   *)
(* and the plain mode's sink listens to the transform, so that nothing that *)
(* is read ends nowhere (App.buildSourcesAndTransform, validateSinkInputs). *)
WiredAsConfigured ==
  /\ ToSet(selected) \subseteq DOMAIN cfg.sources
  /\ selected # <<>> /\ hasTransform =>
       \E t \in DOMAIN cfg.transforms :
         /\ ToSet(selected) = ToSet(cfg.transforms[t].inputs)
         /\ mode = "plain" => \A s \in DOMAIN cfg.sinks : t \in ToSet(cfg.sinks[s].inputs)

(* Where a line has none of the canonical names on the left, one or the     *)
(* other way looks for those on the right.                                  *)
Aliases == {
  <<"ts",          {"time", "datetime"}>>,
  <<"level",       {"severity", "lvl", "log_level"}>>,
  <<"trace_id",    {"traceId", "trace.id", "X-Trace-Id", "x-trace-id"}>>,
  <<"span_id",     {"spanId", "span.id"}>>,
  <<"dst_service", {"destination"}>>,
  <<"operation",   {"event", "rpc.method", "method", "http.method", "request", "url", "path",
                    "uri", "http.url", "http.path"}>>,
  <<"status_code", {"http.status", "code", "http_status", "http.status_code"}>>,
  <<"latency",     {"latency_s", "duration_s", "duration", "elapsed", "response_time",
                    "request_time"}>>}

(* Names that some way reads before the canonical one, or for something    *)
(* else.  {"latency": 1, "latency_ms": 2} is 2 ms in the pipeline, which    *)
(* reads the three names in milliseconds first (helpers.go:151), and 1 ms   *)
(* for the other two.                                                      *)
Misread == {"timestamp", "src_service", "upstream", "target", "remote_service",
            "peer.service", "latency_ms", "duration_ms", "elapsed_ms", "metric", "format"}

CanonicalNumbers == {"status_code", "status", "latency"}
CanonicalTexts   == {"service", "level", "trace_id", "span_id", "dst_service", "operation"}

(* Lines on which the three ways to a normalised event have to agree: JSON  *)
(* with a service, that is not of the Elastic Common Schema, has none of    *)
(* the misread names, and has under the canonical names values of their     *)
(* kinds: positive numbers, texts that are not empty, a level in lower case *)
(* and a time in RFC 3339.  Aliases may stand beside a canonical name, with *)
(* values of any kind, but not in its place; other fields may be anything.  *)
Canonical(raw) ==
  /\ ~IsECS(raw) /\ Misread \cap DOMAIN raw = {} /\ "service" \in DOMAIN raw
  /\ \A k \in CanonicalNumbers \cap DOMAIN raw : Has(raw, k, "number") /\ raw[k].number > 0
  /\ \A k \in CanonicalTexts \cap DOMAIN raw : stringVal(raw, k) # ""
  /\ stringVal(raw, "level") = lower(stringVal(raw, "level"))
  /\ "ts" \in DOMAIN raw => stringVal(raw, "ts") \in Times
  /\ \A a \in Aliases : a[2] \cap DOMAIN raw # {} => a[1] \in DOMAIN raw

(* ParseEvent followed by Normalize, ParseNormalized and NewFromRaw, which  *)
(* each have their own order of aliases, make the same event of a canonical *)
(* line, but for the format, which the last takes from the line.            *)
PathsAgree ==
  flow # <<>> /\ flow.line.form = "json" /\ Canonical(flow.line.raw) =>
    LET live  == Normalize(ParseEvent(SourceEvent([type |-> "stdin", service |-> ""]),
                                      flow.line))
        other == NewFromRaw(flow.line.raw, "stdin")
    IN  /\ Valid(other)
        /\ live = ParseNormalized(flow.line, "stdin")
        /\ live = [other EXCEPT !.format = "json"]
=============================================================================
