------------------------------- MODULE Ingest -------------------------------
(***************************************************************************)
(* What becomes of one line: the parsers (src/internal/parse), the remap   *)
(* transform, the conversion to a normalised event (src/internal/event)    *)
(* and the resolver, as operators.                                         *)
(*                                                                         *)
(* A JSON object is a function from keys to values, and a value is a text, *)
(* a number, an object or something else.  The texts that are times,       *)
(* numerals or durations are constants; a duration is in nanoseconds.      *)
(* What a message says is left out: an event has one or not.               *)
(***************************************************************************)
EXTENDS Integers, Sequences, SequencesExt

CONSTANTS Times,     (* texts that are times in RFC 3339                    *)
          Numerals,  (* texts that strconv.Atoi accepts, with the number    *)
          Durations, (* texts like "1ms", with the duration                 *)
          LowerCase  (* texts that are not in lower case, in lower case     *)

(* The empty text is none of them. *)
ASSUME TextsAssumption ==
  "" \notin Times \cup DOMAIN Numerals \cup DOMAIN Durations \cup DOMAIN LowerCase

Text(v)   == [text |-> v]
Num(v)    == [number |-> v]
Object(v) == [object |-> v]
Other     == [other |-> TRUE]

Millisecond == 1000000

(* The time of an event whose line has none: when it was received.         *)
Now == "now"

Has(m, k, type) == k \in DOMAIN m /\ type \in DOMAIN m[k]
stringVal(m, k) == IF Has(m, k, "text") THEN m[k].text ELSE ""
Inner(m, k)     == IF Has(m, k, "object") THEN m[k].object ELSE <<>>
lower(s)        == IF s \in DOMAIN LowerCase THEN LowerCase[s] ELSE s

upper(s)        == IF \E u \in DOMAIN LowerCase : LowerCase[u] = s
                   THEN CHOOSE u \in DOMAIN LowerCase : LowerCase[u] = s ELSE s

(* The fields of a, and those of b that a does not have.                    *)
Over(a, b) == [k \in DOMAIN a \cup DOMAIN b |-> IF k \in DOMAIN a THEN a[k] ELSE b[k]]

(* The value F of the first of the keys that satisfies P.                   *)
FirstOf(keys, P(_), F(_), none) ==
  LET hits == {i \in DOMAIN keys : P(keys[i])}
  IN  IF hits = {} THEN none ELSE F(keys[Min(hits)])

firstString(m, keys) ==
  FirstOf(keys, LAMBDA k : stringVal(m, k) # "", LAMBDA k : stringVal(m, k), "")
firstNumber(m, keys) ==
  FirstOf(keys, LAMBDA k : Has(m, k, "number"), LAMBDA k : m[k].number, 0)
firstTime(m, keys, none) ==
  FirstOf(keys, LAMBDA k : stringVal(m, k) \in Times, LAMBDA k : m[k].text, none)

-----------------------------------------------------------------------------
(* ParseEvent: the parser of the pipeline. *)
StatusKeys == <<"status_code", "status", "http.status", "code", "http_status">>

extractLevel(raw)   == lower(firstString(raw, <<"level", "severity", "lvl", "log_level">>))
extractService(raw) ==
  firstString(raw, <<"service", "service_name", "app", "application", "component">>)
ecsService(raw)     == stringVal(Inner(raw, "service"), "name")

applyTimestamp(e, raw) == firstTime(raw, <<"ts", "time", "@timestamp">>, e.ts)

IsECS(raw) == {"@timestamp", "ecs.version", "log.level"} \cap DOMAIN raw # {}
              \/ "level" \in DOMAIN Inner(raw, "log")

(* The fields that are not named elsewhere, over what the source had given;  *)
(* a field called "format" takes the place of the format.                    *)
Attrs(e, format, raw, named) ==
  Over(Restrict(raw, DOMAIN raw \ named), Over([format |-> Text(format)], e.attrs))

HasMessage(raw) == firstString(raw, <<"message", "msg">>) # ""

IsMetric(raw) == stringVal(raw, "metric") # "" /\ Has(raw, "value", "number")

ParseMetric(e, raw) ==
  [e EXCEPT !.type = "metric", !.metric = stringVal(raw, "metric"), !.message = FALSE,
            !.ts = applyTimestamp(e, raw),
            !.attrs = Attrs(e, "metric_json", raw, {"ts", "time", "@timestamp", "metric",
                                                    "value", "message", "msg"})]

ParseECS(e, raw) ==
  LET flat  == lower(stringVal(raw, "log.level"))
      inner == lower(stringVal(Inner(raw, "log"), "level"))
  IN  [e EXCEPT !.message = @ \/ HasMessage(raw), !.ts = applyTimestamp(e, raw),
                !.level   = IF flat # "" THEN flat ELSE IF inner # "" THEN inner ELSE @,
                !.service = IF ecsService(raw) # "" THEN ecsService(raw) ELSE @,
                !.attrs   = Attrs(e, "ecs_json", raw, {"ts", "time", "@timestamp", "message",
                                                       "msg", "log.level", "log"})]

ParseJSON(e, raw) ==
  [e EXCEPT !.message = @ \/ HasMessage(raw), !.ts = applyTimestamp(e, raw),
            !.level   = IF extractLevel(raw) # "" THEN extractLevel(raw) ELSE @,
            !.service = IF extractService(raw) # "" THEN extractService(raw) ELSE @,
            !.attrs   = Attrs(e, "json", raw, {"ts", "time", "@timestamp", "message", "msg",
                                               "level", "severity", "lvl", "log_level",
                                               "service", "service_name", "app"})]

(* A line is blank, plain text, or a JSON object. *)
ParseEvent(e, line) ==
  CASE line.form = "blank" -> [e EXCEPT !.attrs = Attrs(e, "empty", <<>>, {})]
    [] line.form = "plain" -> [e EXCEPT !.attrs = Attrs(e, "plain", <<>>, {})]
    [] IsMetric(line.raw)  -> ParseMetric(e, line.raw)
    [] IsECS(line.raw)     -> ParseECS(e, line.raw)
    [] OTHER               -> ParseJSON(e, line.raw)

-----------------------------------------------------------------------------
(* RemapTransform, on one event.  Fields it adds replace the line's own. *)
Remap(e, addFields) == [e EXCEPT !.attrs = Over(addFields, @)]

(* A mutation: the short name of a status first. *)
StatusFirst(attrs) == firstNumber(attrs, <<"status", "status_code", "http.status", "code",
                                           "http_status">>)

attrsStatusCode(attrs) == firstNumber(attrs, StatusKeys)

attrsLatency(attrs) ==
  Millisecond * firstNumber(attrs, <<"latency_ms", "duration_ms", "elapsed_ms",
                                     "latency", "duration", "elapsed">>)

Normalize(e) ==
  [ts |-> e.ts, src |-> e.service, level |-> e.level, sourceName |-> e.source,
   format    |-> stringVal(e.attrs, "format"),
   trace     |-> stringVal(e.attrs, "trace_id"),
   span      |-> stringVal(e.attrs, "span_id"),
   dst       |-> stringVal(e.attrs, "dst_service"),
   operation |-> IF e.type = "metric" THEN e.metric ELSE stringVal(e.attrs, "operation"),
   status    |-> attrsStatusCode(e.attrs),
   latency   |-> attrsLatency(e.attrs)]

(* A source without a service takes the name its kind resolves to.          *)
resolve(n, table) ==
  [n EXCEPT !.dst = IF @ \in DOMAIN table THEN table[@] ELSE @,
            !.src = IF @ = "" /\ n.sourceName \in DOMAIN table THEN table[n.sourceName]
                    ELSE @]

(* What graphSink hands to CallGraph.Feed: the call, or nothing.            *)
Call(n) == IF n.src # "" /\ n.dst # ""
           THEN [key |-> <<n.src, n.dst, n.operation>>, isError |-> n.status >= 500,
                 latency |-> n.latency, at |-> n.ts]
           ELSE <<>>

-----------------------------------------------------------------------------
(* ParseNormalized: from the line to the normalised event in one go.  Tests *)
(* and callers of the package use it, the pipeline does not.                *)
extractStatusCode(raw) ==
  FirstOf(StatusKeys,
          LAMBDA k : Has(raw, k, "number") \/ stringVal(raw, k) \in DOMAIN Numerals,
          LAMBDA k : IF Has(raw, k, "number") THEN raw[k].number
                     ELSE Numerals[raw[k].text], 0)

extractLatency(raw) ==
  FirstOf(<<"latency", "duration", "elapsed", "response_time", "latency_ms", "duration_ms",
            "elapsed_ms", "latency_s", "duration_s", "request_time">>,
          LAMBDA k : Has(raw, k, "number") \/ stringVal(raw, k) \in DOMAIN Durations,
          LAMBDA k : IF Has(raw, k, "text") THEN Durations[raw[k].text]
                     ELSE IF k \in {"latency_s", "duration_s"}
                     THEN raw[k].number * 1000 * Millisecond ELSE raw[k].number * Millisecond, 0)

(* A number is the seconds, or milliseconds, since the epoch.               *)
extractTimestamp(raw) ==
  FirstOf(<<"ts", "time", "@timestamp", "timestamp", "datetime">>,
          LAMBDA k : stringVal(raw, k) \in Times \/ Has(raw, k, "number"),
          LAMBDA k : IF Has(raw, k, "text") THEN raw[k].text ELSE "epoch", Now)

Joined(method, url) == IF method = "" THEN url
                       ELSE IF url = "" THEN method ELSE method \o " " \o url

EmptyEvent(format, sourceName) ==
  [ts |-> Now, src |-> "", level |-> "", sourceName |-> sourceName, format |-> format,
   trace |-> "", span |-> "", dst |-> "", operation |-> "", status |-> 0, latency |-> 0]

metricNormalized(raw, sourceName) ==
  [EmptyEvent("metric_json", sourceName) EXCEPT
     !.ts = extractTimestamp(raw), !.src = extractService(raw),
     !.operation = stringVal(raw, "metric")]

ParseECSNormalized(raw, sourceName) ==
  LET http   == Inner(raw, "http")
      inner  == lower(stringVal(Inner(raw, "log"), "level"))
      method == upper(stringVal(Inner(http, "request"), "method"))
      url    == firstString(Inner(raw, "url"), <<"path", "full">>)
      nanos  == firstNumber(Inner(raw, "event"), <<"duration">>)
      target == stringVal(Inner(raw, "destination"), "address")
  IN  [EmptyEvent("ecs_json", sourceName) EXCEPT
         !.ts        = firstTime(raw, <<"@timestamp">>, Now),
         !.level     = IF inner # "" THEN inner ELSE lower(stringVal(raw, "log.level")),
         !.src       = ecsService(raw),
         !.trace     = stringVal(Inner(raw, "trace"), "id"),
         !.span      = stringVal(Inner(raw, "span"), "id"),
         !.status    = firstNumber(Inner(http, "response"), <<"status_code">>),
         !.latency   = IF nanos > 0 THEN nanos ELSE 0,
         !.operation = IF method # "" THEN Joined(method, url) ELSE "",
         !.dst       = IF target # "" THEN target
                       ELSE stringVal(Inner(raw, "server"), "address")]

ParseJSONNormalized(raw, sourceName) ==
  LET named == firstString(raw, <<"operation", "event", "rpc.method">>)
  IN  [EmptyEvent("json", sourceName) EXCEPT
         !.ts      = extractTimestamp(raw),
         !.level   = extractLevel(raw),
         !.src     = extractService(raw),
         !.trace   = firstString(raw, <<"trace_id", "traceId", "trace.id", "X-Trace-Id",
                                        "x-trace-id">>),
         !.span    = firstString(raw, <<"span_id", "spanId", "span.id">>),
         !.dst     = firstString(raw, <<"upstream", "target", "remote_service",
                                        "peer.service", "dst_service">>),
         !.status  = extractStatusCode(raw),
         !.latency = extractLatency(raw),
         !.operation = IF named # "" THEN named
                       ELSE Joined(firstString(raw, <<"method", "http.method">>),
                                   firstString(raw, <<"url", "path", "uri", "http.url",
                                                      "http.path">>))]

ParseNormalized(line, sourceName) ==
  CASE line.form = "blank" -> EmptyEvent("empty", sourceName)
    [] line.form = "plain" -> EmptyEvent("plain", sourceName)
    [] {"metric", "value"} \subseteq DOMAIN line.raw -> metricNormalized(line.raw, sourceName)
    [] IsECS(line.raw)     -> ParseECSNormalized(line.raw, sourceName)
    [] OTHER               -> ParseJSONNormalized(line.raw, sourceName)

(* event.NewFromRaw, the third way; without a source the event is refused.  *)
NewFromRaw(raw, sourceName) ==
  [ts        |-> firstTime(raw, <<"timestamp", "ts", "@timestamp", "time">>, Now),
   src       |-> firstString(raw, <<"src_service", "service", "service.name", "source">>),
   level     |-> firstString(raw, <<"level", "log.level", "severity">>),
   sourceName |-> sourceName,
   format    |-> stringVal(raw, "format"),
   trace     |-> stringVal(raw, "trace_id"),
   span      |-> stringVal(raw, "span_id"),
   dst       |-> firstString(raw, <<"dst_service", "destination", "peer.service">>),
   operation |-> firstString(raw, <<"operation", "method", "http.method", "request">>),
   status    |-> FirstOf(<<"status_code", "status", "http.status_code", "code">>,
                         LAMBDA k : Has(raw, k, "number") /\ raw[k].number # 0,
                         LAMBDA k : raw[k].number, 0),
   latency   |-> FirstOf(<<"latency", "duration", "elapsed", "response_time">>,
                         LAMBDA k : Has(raw, k, "number") /\ raw[k].number # 0,
                         LAMBDA k : raw[k].number * Millisecond, 0)]

Valid(n) == n.src # ""
=============================================================================
