----------------------------- MODULE MCCollector -----------------------------
(* A small instance of Collector for TLC. *)
EXTENDS Collector

SomeTimes     == {"10:00"}
SomeNumerals  == "500" :> 500
SomeDurations == "1ms" :> Millisecond
SomeCases     == ("WARN" :> "warn") @@ ("GET" :> "get")

(* A field that may be missing.                                             *)
Maybe(key, values) == {<<>>} \cup {key :> v : v \in values}

Merge(A, B) == {a @@ b : a \in A, b \in B}

Json(A) == {[form |-> "json", raw |-> a] : a \in A}

(* JSON with the canonical names, and with aliases of every kind beside     *)
(* them or instead.                                                        *)
Figures == Merge(Maybe("status_code", {Num(500), Text("500")}),
           Merge(Maybe("status", {Num(200)}), Merge(Maybe("code", {Text("500"), Num(404)}),
           Merge(Maybe("latency", {Num(1), Text("1ms")}),
           Merge(Maybe("latency_ms", {Num(2)}), Maybe("duration", {Num(3), Text("1ms")}))))))

Names == Merge(Maybe("service", {Text("api"), Object("name" :> Text("api")), Other}),
         Merge(Maybe("app", {Text("web"), Num(1)}),
         Merge(Maybe("dst_service", {Text("db")}),
         Merge(Maybe("upstream", {Text("cache")}),
         Merge(Maybe("operation", {Text("read")}), Maybe("method", {Text("GET"), Other}))))))

Levels == Merge(Maybe("level", {Text("warn"), Text("WARN"), Num(3)}),
                Maybe("severity", {Text("info"), Text("WARN"), Num(3)}))

TimesAndTraces == Merge(Maybe("ts", {Text("10:00"), Text("noon"), Num(1)}),
                  Merge(Maybe("time", {Text("10:00"), Num(1)}),
                  Merge(Maybe("trace_id", {Text("t")}), Maybe("traceId", {Text("u"), Num(7)}))))

Ids == {"service" :> Text("api")}

(* The Elastic Common Schema, metrics, and a field called "format".         *)
Ecs == Merge(Maybe("@timestamp", {Text("10:00"), Text("noon")}),
       Merge(Maybe("log", {Object("level" :> Text("WARN")), Text("x")}),
       Merge(Maybe("log.level", {Text("info")}),
       Merge(Maybe("service", {Object("name" :> Text("api")), Text("api")}),
       Merge(Maybe("destination", {Object("address" :> Text("db"))}),
             Maybe("http", {Object("request" :> Object("method" :> Text("get")))}))))))

Metrics == Merge(Maybe("metric", {Text("cpu"), Other}),
           Merge(Maybe("value", {Num(1), Text("1")}),
           Merge(Maybe("format", {Text("own")}), Maybe("dst_service", {Text("db")}))))

SomeLines == {[form |-> "blank"], [form |-> "plain"]}
             \cup Json(Names \cup Ecs \cup Metrics)
             \cup Json(Merge(Ids, Figures \cup Levels \cup TimesAndTraces))

-----------------------------------------------------------------------------
Source(type, service) == [type |-> type, service |-> service]
Remaps(inputs)  == [type |-> "remap-lite", inputs |-> inputs,
                    add |-> "dst_service" :> Text("db")]
Stdout(inputs)  == [type |-> "stdout", inputs |-> inputs]

Config(sources, transforms, sinks, static, docker) ==
  [sources |-> sources, transforms |-> transforms, sinks |-> sinks, static |-> static,
   docker |-> docker]

In  == "in" :> Source("stdin", "")
Out(inputs) == "out" :> Stdout(inputs)
Two == In @@ ("app" :> Source("file", "api"))
Known == ("stdin" :> "shell") @@ ("db" :> "postgres")

SomeConfigs == {
  Config(In, <<>>, Out(<<"in">>), Known, FALSE),
  Config("box" :> Source("docker", "box"), <<>>, Out(<<"box">>), <<>>, TRUE),
  (* Only one of the sources feeds the sink, or the transform.               *)
  Config(Two, <<>>, Out(<<"app">>), <<>>, FALSE),
  Config(Two, "map" :> Remaps(<<"app">>), Out(<<"map">>), <<>>, FALSE),
  (* A source listed twice; a transform of itself; a sink past the transform. *)
  Config(In, "map" :> Remaps(<<"in", "in">>), Out(<<"in", "map">>), <<>>, FALSE),
  Config(In, "map" :> Remaps(<<"map", "in">>), Out(<<"map">>), <<>>, FALSE),
  Config(In, "map" :> Remaps(<<"in">>), Out(<<"in">>), <<>>, FALSE),
  (* What nobody knows, and too much of everything.                          *)
  Config("in" :> Source("socket", ""), <<>>, Out(<<"in">>), <<>>, FALSE),
  Config(In, <<>>, Out(<<"nowhere">>), <<>>, FALSE),
  Config(In, <<>>, "out" :> [type |-> "kafka", inputs |-> <<"in">>], <<>>, FALSE),
  Config(In, <<>>, Out(<<"in">>) @@ ("log" :> Stdout(<<"in">>)), <<>>, FALSE),
  Config(In, ("map" :> Remaps(<<"in">>)) @@ ("mop" :> Remaps(<<"in">>)), Out(<<"map">>),
         <<>>, FALSE),
  Config(<<>>, <<>>, Out(<<"in">>), <<>>, FALSE)}
=============================================================================
