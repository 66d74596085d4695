------------------------------ MODULE Pipeline ------------------------------
(***************************************************************************)
(* Pipeline.Run (src/internal/pipeline/pipeline.go): source goroutines     *)
(* feed a chain of stages over bounded channels and a sink, run by the     *)
(* caller, empties the last of them.                                       *)
(*                                                                         *)
(*   sources -source-> parse -parsed-> [transform -tc->] forward -out-> sink *)
(*                                                                         *)
(* Channel "out" is normalChan when the sink is normalized (graphSink in   *)
(* app.go) and legacyChan when it is not (StdoutSink).  An event is its    *)
(* source and its number among the events of that source; what a stage     *)
(* does to the contents of an event is left out.  A step of a goroutine is *)
(* what it does between two operations on channels or on the context.      *)
(***************************************************************************)
EXTENDS Integers, Sequences, FiniteSets

CONSTANTS Sources,   (* the configured sources                              *)
          Kinds,     (* kinds a source may have: "stdin", "file", "docker"  *)
          Cap,       (* capacity of each channel; 100 in the code           *)
          ErrCap,    (* capacity of errCh; 8 in the code                    *)
          MaxLines,  (* bound: events a source makes                        *)
          MayFail,   (* sources, "transform", "sink": those that may fail   *)
          Interrupts (* whether the caller may cancel the context it passed *)

Stages   == {"parse", "transform", "forward"}
Channels == {"source", "parsed", "tc", "out"}
Errs     == Sources \cup {"transform", "sink"}
Event    == Sources \X (1 .. MaxLines)

ASSUME KindsAssumption   == Kinds \subseteq {"stdin", "file", "docker"}
ASSUME SizesAssumption   == /\ Cap \in Nat \ {0}
                            /\ ErrCap \in Nat \ {0}
                            /\ MaxLines \in Nat
ASSUME SourcesAssumption == /\ Sources # {}
                            /\ Sources \cap {"nil", "transform", "sink"} = {}

VARIABLES kind,        (* the kind of each source                            *)
          transformOn, (* whether Transform is set                           *)
          normalized,  (* whether NormalizedSink is set                      *)
          srcPc,       (* where each source goroutine is                     *)
          made,        (* events each source has made                        *)
          cut,         (* stdin sources that stopped at an over-long line    *)
          stPc,        (* where each stage goroutine is                      *)
          hand,        (* the event a stage holds                            *)
          chan,        (* contents of the channels                           *)
          closed,      (* channels that are closed                           *)
          ctxDone,     (* whether the run's context is cancelled             *)
          parentDone,  (* whether the caller's context is cancelled          *)
          errCh,       (* contents of errCh                                  *)
          runPc,       (* where the caller of Run is                         *)
          sinkErr,     (* what the sink has returned                         *)
          result,      (* what Run has returned                              *)
          (* What has happened, for the properties; no step depends on it.   *)
          failed,      (* sources and stages that have met an error          *)
          accepted,    (* events sent on channel "source", in order          *)
          taken,       (* how many events have left each channel             *)
          delivered    (* events the sink has processed, in order            *)

conf    == <<kind, transformOn, normalized>>
srcVars == <<srcPc, made, cut>>
stVars  == <<stPc, hand>>
chVars  == <<chan, closed, taken>>
ctxVars == <<ctxDone, parentDone>>
errVars == <<errCh, failed>>
runVars == <<runPc, sinkErr, result, delivered>>
vars    == <<conf, srcVars, stVars, chVars, ctxVars, errVars, runVars, accepted>>

(* The channel a stage receives from and the one it sends on. *)
In(st)  == CASE st = "parse"     -> "source"
             [] st = "transform" -> "parsed"
             [] OTHER            -> IF transformOn THEN "tc" ELSE "parsed"
Out(st) == CASE st = "parse"     -> "parsed"
             [] st = "transform" -> "tc"
             [] OTHER            -> "out"

Init ==
  /\ kind \in [Sources -> Kinds]
  /\ transformOn \in BOOLEAN
  /\ normalized \in BOOLEAN
  /\ srcPc = [s \in Sources |-> IF kind[s] = "stdin" THEN "poll" ELSE "open"]
  /\ made = [s \in Sources |-> 0]
  /\ cut = {}
  /\ stPc = [st \in Stages |->
               IF st = "transform" /\ ~transformOn THEN "off" ELSE "recv"]
  /\ hand = [st \in Stages |-> <<>>]
  /\ chan = [c \in Channels |-> <<>>]
  /\ closed = {}
  /\ ctxDone = FALSE
  /\ parentDone = FALSE
  /\ errCh = <<>>
  /\ runPc = "sink"
  /\ sinkErr = "nil"
  /\ result = "nil"
  /\ failed = {}
  /\ accepted = <<>>
  /\ taken = [c \in Channels |-> 0]
  /\ delivered = <<>>

(* select { case errCh <- err: default: } *)
PushErr(e) == errCh' = IF Len(errCh) < ErrCap THEN Append(errCh, e) ELSE errCh

Send(c, e) == /\ Len(chan[c]) < Cap
              /\ chan' = [chan EXCEPT ![c] = Append(@, e)]
Take(c)    == /\ chan[c] # <<>>
              /\ chan' = [chan EXCEPT ![c] = Tail(@)]
              /\ taken' = [taken EXCEPT ![c] = @ + 1]
(* A mutation: a closed channel is taken for an empty one. *)
ClosedNotEmpty(c) == c \in closed

Drained(c) == c \in closed /\ chan[c] = <<>>

-----------------------------------------------------------------------------
(* Sources *)

SrcGoto(s, from, to) == /\ srcPc[s] = from
                        /\ srcPc' = [srcPc EXCEPT ![s] = to]

(* A source stops with an error. *)
SrcFail(s, from) == /\ SrcGoto(s, from, "report")
                    /\ failed' = failed \cup {s}
                    /\ UNCHANGED errCh

(* TailFile, or NewClientWithOpts and ContainerLogs, has succeeded ... *)
Open(s) == /\ SrcGoto(s, "open", "read")
           /\ UNCHANGED <<conf, made, cut, stVars, chVars, ctxVars, errVars,
                          runVars, accepted>>

(* ... or not. *)
OpenFails(s) == /\ s \in MayFail
                /\ SrcFail(s, "open")
                /\ UNCHANGED <<conf, made, cut, stVars, chVars, ctxVars,
                               runVars, accepted>>

(* StdinSource looks at the context only before it reads a line. *)
Poll(s) == /\ SrcGoto(s, "poll", IF ctxDone THEN "done" ELSE "read")
           /\ UNCHANGED <<conf, made, cut, stVars, chVars, ctxVars, errVars,
                          runVars, accepted>>

(* A line is read and an event made of it.  Lines without an event (an     *)
(* empty one from a container, a tail error) leave the state as it is.     *)
ReadLine(s) == /\ SrcGoto(s, "read", "send")
               /\ made[s] < MaxLines
               /\ made' = [made EXCEPT ![s] = @ + 1]
               /\ UNCHANGED <<conf, cut, stVars, chVars, ctxVars, errVars,
                              runVars, accepted>>

(* The input ends. *)
ReadEnd(s) == /\ SrcGoto(s, "read", "done")
              /\ UNCHANGED <<conf, made, cut, stVars, chVars, ctxVars, errVars,
                             runVars, accepted>>

(* A line over the scanner's limit on stdin: Scan returns false, and Run   *)
(* returns nil without a look at the scanner's error.                      *)
ReadOverlong(s) == /\ kind[s] = "stdin"
                   /\ SrcGoto(s, "read", "done")
                   /\ cut' = cut \cup {s}
                   /\ UNCHANGED <<conf, made, stVars, chVars, ctxVars, errVars,
                                  runVars, accepted>>

(* The stream of a container breaks, or carries an over-long line. *)
ReadFails(s) == /\ kind[s] = "docker"
                /\ s \in MayFail
                /\ SrcFail(s, "read")
                /\ UNCHANGED <<conf, made, cut, stVars, chVars, ctxVars,
                               runVars, accepted>>

(* A mutation: the wait for a line of a file is not cancelled. *)
FileReadNotCancelled(s) ==
  /\ kind[s] = "docker"
  /\ ctxDone
  /\ SrcGoto(s, "read", "done")
  /\ UNCHANGED <<conf, made, cut, stVars, chVars, ctxVars, errVars, runVars,
                 accepted>>

(* A cancelled context ends the wait for a line of a file (select) and of  *)
(* a container (the request's context); nothing ends a read of stdin.      *)
ReadCancelled(s) == /\ kind[s] # "stdin"
                    /\ ctxDone
                    /\ SrcGoto(s, "read", "done")
                    /\ UNCHANGED <<conf, made, cut, stVars, chVars, ctxVars,
                                   errVars, runVars, accepted>>

SourceSend(s) == /\ SrcGoto(s, "send",
                            IF kind[s] = "stdin" THEN "poll" ELSE "read")
                 /\ Send("source", <<s, made[s]>>)
                 /\ accepted' = Append(accepted, <<s, made[s]>>)
                 /\ UNCHANGED <<conf, made, cut, stVars, closed, taken, ctxVars,
                                errVars, runVars>>

(* A mutation: a source that cannot send goes on with the next line. *)
SkipUnsent(s) ==
  /\ ctxDone
  /\ SrcGoto(s, "send", "read")
  /\ UNCHANGED <<conf, made, cut, stVars, chVars, ctxVars, errVars, runVars,
                 accepted>>

SourceAbort(s) == /\ ctxDone
                  /\ SrcGoto(s, "send", "done")
                  /\ UNCHANGED <<conf, made, cut, stVars, chVars, ctxVars,
                                 errVars, runVars, accepted>>

SourceReport(s) == /\ SrcGoto(s, "report", "cancel")
                   /\ PushErr(s)
                   /\ UNCHANGED <<conf, made, cut, stVars, chVars, ctxVars,
                                  failed, runVars, accepted>>

SourceCancel(s) == /\ SrcGoto(s, "cancel", "done")
                   /\ ctxDone' = TRUE
                   /\ UNCHANGED <<conf, made, cut, stVars, chVars, parentDone,
                                  errVars, runVars, accepted>>

(* A mutation: the first source to end closes the channel. *)
CloseEarly == /\ \E s \in Sources : srcPc[s] = "done"
              /\ "source" \notin closed
              /\ closed' = closed \cup {"source"}
              /\ UNCHANGED <<conf, srcVars, stVars, chan, taken, ctxVars,
                             errVars, runVars, accepted>>

(* The goroutine that waits for all sources and closes their channel. *)
CloseSource == /\ \A s \in Sources : srcPc[s] = "done"
               /\ "source" \notin closed
               /\ closed' = closed \cup {"source"}
               /\ UNCHANGED <<conf, srcVars, stVars, chan, taken, ctxVars,
                              errVars, runVars, accepted>>

-----------------------------------------------------------------------------
(* Stages *)

StGoto(st, from, to) == /\ stPc[st] = from
                        /\ stPc' = [stPc EXCEPT ![st] = to]

StageRecv(st) == /\ StGoto(st, "recv", "send")
                 /\ Take(In(st))
                 /\ hand' = [hand EXCEPT ![st] = Head(chan[In(st)])]
                 /\ UNCHANGED <<conf, srcVars, closed, ctxVars, errVars,
                                runVars, accepted>>

StageEnd(st) == /\ StGoto(st, "recv", "close")
                /\ Drained(In(st))
                /\ UNCHANGED <<conf, srcVars, hand, chVars, ctxVars, errVars,
                               runVars, accepted>>

(* A mutation: the stages range over their channels, as RemapTransform does. *)
RangeOverInput(st) == st \notin Stages /\ UNCHANGED vars

(* RemapTransform ranges over its channel: only the others stop here. *)
StageStop(st) == /\ st # "transform"
                 /\ ctxDone
                 /\ StGoto(st, "recv", "close")
                 /\ UNCHANGED <<conf, srcVars, hand, chVars, ctxVars, errVars,
                                runVars, accepted>>

StageSend(st) == /\ StGoto(st, "send", "recv")
                 /\ Send(Out(st), hand[st])
                 /\ UNCHANGED <<conf, srcVars, hand, closed, taken, ctxVars,
                                errVars, runVars, accepted>>

(* A mutation: a stage that cannot send drops the event and goes on. *)
DropAndGoOn(st) ==
  /\ ctxDone
  /\ StGoto(st, "send", "recv")
  /\ UNCHANGED <<conf, srcVars, hand, chVars, ctxVars, errVars, runVars,
                 accepted>>

StageAbort(st) == /\ ctxDone
                  /\ StGoto(st, "send", "close")
                  /\ UNCHANGED <<conf, srcVars, hand, chVars, ctxVars, errVars,
                                 runVars, accepted>>

(* A mutation: the transform goroutine does not close its channel. *)
TransformLeavesOpen(st) ==
  /\ StGoto(st, "close", "end")
  /\ closed' = IF st = "transform" THEN closed ELSE closed \cup {Out(st)}
  /\ UNCHANGED <<conf, srcVars, hand, chan, taken, ctxVars, errVars, runVars,
                 accepted>>

StageClose(st) == /\ StGoto(st, "close", "end")
                  /\ closed' = closed \cup {Out(st)}
                  /\ UNCHANGED <<conf, srcVars, hand, chan, taken, ctxVars,
                                 errVars, runVars, accepted>>

(* A Transformer may return an error, with or without an event in hand.    *)
TransformFails == /\ "transform" \in MayFail
                  /\ \/ StGoto("transform", "recv", "report")
                     \/ StGoto("transform", "send", "report")
                  /\ failed' = failed \cup {"transform"}
                  /\ UNCHANGED <<conf, srcVars, hand, chVars, ctxVars, errCh,
                                 runVars, accepted>>

TransformReport == /\ StGoto("transform", "report", "cancel")
                   /\ PushErr("transform")
                   /\ UNCHANGED <<conf, srcVars, hand, chVars, ctxVars, failed,
                                  runVars, accepted>>

TransformCancel == /\ StGoto("transform", "cancel", "close")
                   /\ ctxDone' = TRUE
                   /\ UNCHANGED <<conf, srcVars, hand, chVars, parentDone,
                                  errVars, runVars, accepted>>

-----------------------------------------------------------------------------
(* The caller of Run: the sink, then the report of its error, then the     *)
(* choice of the result.                                                   *)

SinkRecv == /\ runPc = "sink"
            /\ Take("out")
            /\ delivered' = Append(delivered, Head(chan["out"]))
            /\ UNCHANGED <<conf, srcVars, stVars, closed, ctxVars, errVars,
                           runPc, sinkErr, result, accepted>>

(* StdoutSink cannot write the event it has taken. *)
SinkFails == /\ runPc = "sink"
             /\ ~normalized
             /\ "sink" \in MayFail
             /\ Take("out")
             /\ runPc' = "report"
             /\ sinkErr' = "sink"
             /\ failed' = failed \cup {"sink"}
             /\ UNCHANGED <<conf, srcVars, stVars, closed, ctxVars, errCh,
                            result, delivered, accepted>>

SinkEnd == /\ runPc = "sink"
           /\ Drained("out")
           /\ runPc' = "select"
           /\ UNCHANGED <<conf, srcVars, stVars, chVars, ctxVars, errVars,
                          sinkErr, result, delivered, accepted>>

(* graphSink also returns on a cancelled context; StdoutSink does not. *)
SinkStop == /\ runPc = "sink"
            /\ normalized
            /\ ctxDone
            /\ runPc' = "select"
            /\ UNCHANGED <<conf, srcVars, stVars, chVars, ctxVars, errVars,
                           sinkErr, result, delivered, accepted>>

SinkReport == /\ runPc = "report"
              /\ runPc' = "cancel"
              /\ PushErr("sink")
              /\ UNCHANGED <<conf, srcVars, stVars, chVars, ctxVars, failed,
                             sinkErr, result, delivered, accepted>>

SinkCancel == /\ runPc = "cancel"
              /\ runPc' = "select"
              /\ ctxDone' = TRUE
              /\ UNCHANGED <<conf, srcVars, stVars, chVars, parentDone, errVars,
                             sinkErr, result, delivered, accepted>>

(* A mutation: only the sink's error is returned. *)
ReturnSinkErr == /\ runPc = "select"
                 /\ runPc' = "returned"
                 /\ result' = sinkErr
                 /\ ctxDone' = TRUE
                 /\ UNCHANGED <<conf, srcVars, stVars, chVars, parentDone,
                                errVars, sinkErr, delivered, accepted>>

(* Run returns the first error reported, if there is one, else what the    *)
(* sink returned; its deferred cancel follows.                             *)
Return == /\ runPc = "select"
          /\ runPc' = "returned"
          /\ IF errCh # <<>>
               THEN result' = Head(errCh) /\ errCh' = Tail(errCh)
               ELSE result' = sinkErr /\ UNCHANGED errCh
          /\ ctxDone' = TRUE
          /\ UNCHANGED <<conf, srcVars, stVars, chVars, parentDone, failed,
                         sinkErr, delivered, accepted>>

(* The caller's context is cancelled: a signal, or the quit key. *)
Interrupt == /\ Interrupts
             /\ runPc # "returned"
             /\ ~parentDone
             /\ parentDone' = TRUE
             /\ ctxDone' = TRUE
             /\ UNCHANGED <<conf, srcVars, stVars, chVars, errVars, runVars,
                            accepted>>

(* Nothing is left to do: Run has returned and every goroutine has ended.  *)
Terminated == /\ runPc = "returned"
              /\ "source" \in closed
              /\ \A st \in Stages : stPc[st] \in {"off", "end"}
              /\ UNCHANGED vars

-----------------------------------------------------------------------------
(* What the scheduler lets a source do, and what it waits for the world to *)
(* do: input may stay away for ever.                                       *)
SourceStep(s) == \/ Open(s) \/ OpenFails(s) \/ Poll(s) \/ ReadCancelled(s)
                 \/ SourceSend(s) \/ SourceAbort(s)
                 \/ SourceReport(s) \/ SourceCancel(s)
SourceInput(s) == ReadLine(s) \/ ReadEnd(s) \/ ReadOverlong(s) \/ ReadFails(s)

StageStep(st) == \/ StageRecv(st) \/ StageEnd(st) \/ StageStop(st)
                 \/ StageSend(st) \/ StageAbort(st) \/ StageClose(st)

TransformStep == TransformFails \/ TransformReport \/ TransformCancel

RunStep == \/ SinkRecv \/ SinkFails \/ SinkEnd \/ SinkStop
           \/ SinkReport \/ SinkCancel \/ Return

Next == \/ \E s \in Sources : SourceStep(s) \/ SourceInput(s)
        \/ CloseSource
        \/ \E st \in Stages : StageStep(st)
        \/ TransformStep
        \/ RunStep
        \/ Interrupt
        \/ Terminated

Spec == Init /\ [][Next]_vars

(* Every goroutine that can take a step takes one in the end.  Nothing     *)
(* makes input arrive, a transformer fail, or the caller cancel.           *)
Fairness == /\ \A s \in Sources : WF_vars(SourceStep(s))
            /\ WF_vars(CloseSource)
            /\ \A st \in Stages : WF_vars(StageStep(st))
            /\ WF_vars(TransformReport \/ TransformCancel)
            /\ WF_vars(RunStep)

FairSpec == Spec /\ Fairness
-----------------------------------------------------------------------------
(* Properties *)

(* The types: in particular no channel holds more than its capacity, and a *)
(* goroutine that is about to send holds an event.                         *)
TypeOK ==
  /\ kind \in [Sources -> {"stdin", "file", "docker"}]
  /\ transformOn \in BOOLEAN
  /\ normalized \in BOOLEAN
  /\ srcPc \in [Sources -> {"open", "poll", "read", "send", "report", "cancel",
                            "done"}]
  /\ made \in [Sources -> 0 .. MaxLines]
  /\ \A s \in Sources : srcPc[s] = "send" => made[s] > 0
  /\ cut \subseteq Sources
  /\ stPc \in [Stages -> {"off", "recv", "send", "report", "cancel", "close",
                          "end"}]
  /\ hand \in [Stages -> Event \cup {<<>>}]
  /\ \A st \in Stages : stPc[st] = "send" => hand[st] \in Event
  /\ chan \in [Channels -> Seq(Event)]
  /\ \A c \in Channels : Len(chan[c]) <= Cap
  /\ closed \subseteq Channels
  /\ ctxDone \in BOOLEAN
  /\ parentDone \in BOOLEAN
  /\ errCh \in Seq(Errs)
  /\ Len(errCh) <= ErrCap
  /\ runPc \in {"sink", "report", "cancel", "select", "returned"}
  /\ sinkErr \in {"nil", "sink"}
  /\ result \in Errs \cup {"nil"}
  /\ failed \subseteq Errs
  /\ accepted \in Seq(Event)
  /\ taken \in [Channels -> Nat]
  /\ delivered \in Seq(Event)

(* No goroutine sends on a channel that is closed, and none closes a       *)
(* channel twice: either panics and takes the collector down.  A channel   *)
(* has one closer, and nobody may still want to send when it closes.       *)
NoPanic ==
  /\ \A s \in Sources : srcPc[s] = "send" => "source" \notin closed
  /\ \A st \in Stages : stPc[st] \in {"send", "close"} => Out(st) \notin closed

(* Events leave by the sink in the order in which the first channel took   *)
(* them, each once and without a gap, whatever is cancelled and whichever  *)
(* goroutine fails: five goroutines and four channels drop no event in the *)
(* middle of the stream.                                                   *)
GapFree == /\ Len(delivered) <= Len(accepted)
           /\ \A i \in 1 .. Len(delivered) : delivered[i] = accepted[i]

(* The sink sees the lines of each source from the first, in their order,  *)
(* none twice and none left out.                                           *)
LinesInOrder ==
  \A i \in 1 .. Len(delivered) :
    LET s == delivered[i][1]
    IN  delivered[i][2] = Cardinality({j \in 1 .. i : delivered[j][1] = s})

(* When Run returns nil and the caller has not cancelled, every event that *)
(* a source has made has reached the sink: nothing is left in a channel or *)
(* in the hands of a goroutine.                                            *)
Clean == runPc = "returned" /\ result = "nil" /\ ~parentDone
CleanFinish ==
  Clean => /\ delivered = accepted
           /\ \A s \in Sources : \A n \in 1 .. made[s] :
                \E i \in 1 .. Len(delivered) : delivered[i] = <<s, n>>

(* An error of any goroutine makes Run return an error, unless the caller  *)
(* had cancelled: no error is lost between errCh, which drops what it has  *)
(* no room for, and the cancellation that ends the sink without an error.  *)
ErrorReported == Clean => failed = {}

(* A cancelled context makes Run return: no goroutine on the way waits for *)
(* a channel that nobody will serve again.                                 *)
CancelEnds == ctxDone ~> runPc = "returned"

(* When all sources have ended, so does Run.                               *)
DrainEnds == (\A s \in Sources : srcPc[s] = "done") ~> runPc = "returned"

(* After the return every goroutine ends, except for a source that sits in *)
(* a read of stdin, which nothing interrupts, and with it the goroutine    *)
(* that waits for the sources.                                             *)
StuckInRead(s) == kind[s] = "stdin" /\ srcPc[s] = "read"
AllStop ==
  runPc = "returned" ~>
    /\ \A st \in Stages : stPc[st] \in {"off", "end"}
    /\ \A s \in Sources : srcPc[s] = "done" \/ StuckInRead(s)
    /\ (\A s \in Sources : srcPc[s] = "done") => "source" \in closed

(* A run keeps the promise of Delivery.                                    *)
Outcome == IF runPc # "returned" THEN "running"
           ELSE IF result # "nil" THEN "error"
           ELSE IF parentDone THEN "interrupted" ELSE "ok"
Abstract  == INSTANCE Delivery WITH outcome <- Outcome
Delivers  == Abstract!Spec

(* docs/normalization-spec.md: "Every input line produces exactly one      *)
(* Event"; a run that ends cleanly has left no line of its input unread.   *)
NoLineDropped == Clean => cut = {}
=============================================================================
