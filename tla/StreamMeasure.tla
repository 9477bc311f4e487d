----------------------------- MODULE StreamMeasure -----------------------------
(***************************************************************************)
(* One streamed chat completion, as the benchmark measures it: the lines a *)
(* server sends, cut into events (sse.py _parse_sse_events), validated and *)
(* added up (measure_sse), and the transport around them (transport.py,    *)
(* benchmark_runner.py _run_one_request).                                  *)
(*                                                                         *)
(* A reply is [open, http, lines]: open is "opened", or "timeout" or       *)
(* "refused" when no response came.  A line is [kind |-> ...]:             *)
(*   "blank", "other"        an empty line; a comment or another field     *)
(*   "data" with a piece     a data: line                                  *)
(*   "fault"                 the read itself fails                         *)
(* A piece is [form |-> ...]: "done" is [DONE]; "object" is a whole JSON   *)
(* object; "head" and "tail" are one object cut in two; "oversized" takes  *)
(* the event over its limit; "junk" is anything else.  What an object says *)
(* is the rest of the piece: whether its envelope is valid, the text and   *)
(* the tool call it adds, and its usage.  The clock is taken to advance    *)
(* between two reads.                                                      *)
(***************************************************************************)
EXTENDS Integers, Sequences

Unmeasurable == "UNMEASURABLE"
NoUsage == -1          \* validated usage is never negative
SuccessStatuses == {"success", "success_no_usage"}
ConnectivityStatuses == {"timeout", "connection_failure"}
Ok2xx == 200..299

\* The lines of a reply; usage is validated when it is read.
IsStream(lines) ==
    /\ lines \in Seq({lines[i] : i \in DOMAIN lines})
    /\ \A i \in DOMAIN lines :
         /\ lines[i].kind \in {"blank", "data", "fault", "other"}
         /\ lines[i].kind = "data" /\ lines[i].piece.form \in {"object", "head"} =>
              lines[i].piece.usage \in Nat \cup {NoUsage}

-----------------------------------------------------------------------------
(* Framing: several data: lines may make one event, and one line may.      *)

\* The pending text is one balanced {...}.
ObjectComplete(pending) ==
    \/ Len(pending) = 1 /\ pending[1].form = "object"
    \/ Len(pending) = 2 /\ pending[1].form = "head" /\ pending[2].form = "tail"

Payload(pending) ==
    IF pending[1].form = "done" /\ Len(pending) = 1 THEN "done"
    ELSE IF ObjectComplete(pending) /\ pending[1].valid THEN "chunk"
    ELSE "malformed"

Reading == [phase |-> "reading", pending |-> <<>>, text |-> <<>>, calls |-> <<>>,
            ttft |-> FALSE, usage |-> NoUsage]

\* One chunk: text, tool call fragments, and the usage of this chunk, which
\* replaces that of the chunks before it.
Absorb(st, chunk) ==
    [st EXCEPT !.pending = <<>>,
               !.text = IF chunk.text = "" THEN @ ELSE Append(@, chunk.text),
               !.ttft = @ \/ chunk.text # "",
               !.calls = IF chunk.call = "" THEN @ ELSE Append(@, chunk.call),
               !.usage = chunk.usage]

\* flush(), and what measure_sse does with the event it yields.
Flush(st) ==
    IF st.pending = <<>> THEN st
    ELSE CASE Payload(st.pending) = "done"      -> [st EXCEPT !.phase = "done"]
           [] Payload(st.pending) = "malformed" -> [st EXCEPT !.phase = "malformed"]
           [] OTHER                             -> Absorb(st, st.pending[1])

\* A data line starts a new event when the pending text is whole.
TakeData(st, piece) ==
    LET ready == IF st.pending # <<>> /\ ObjectComplete(st.pending) THEN Flush(st) ELSE st
    IN  IF ready.phase # "reading" THEN ready
        ELSE IF piece.form = "oversized" THEN [ready EXCEPT !.phase = "malformed"]
        ELSE [ready EXCEPT !.pending = Append(@, piece)]

\* Nothing is read once the stream is done, malformed or broken.
ReadLine(st, line) ==
    IF st.phase # "reading" THEN st
    ELSE CASE line.kind = "blank" -> Flush(st)
           [] line.kind = "data"  -> TakeData(st, line.piece)
           [] line.kind = "fault" -> [st EXCEPT !.phase = "timeout"]
           [] line.kind = "other" -> st

\* The events up to [DONE]; a stream that ends without it is malformed.
ReadStream(lines) ==
    LET st[n \in 0..Len(lines)] == IF n = 0 THEN Reading ELSE ReadLine(st[n - 1], lines[n])
        read == st[Len(lines)]
        last == IF read.phase = "reading" THEN Flush(read) ELSE read
    IN  IF last.phase = "reading" THEN [last EXCEPT !.phase = "malformed"] ELSE last

-----------------------------------------------------------------------------
(* Measurement.                                                            *)

NoMeasurement(status) ==
    [status |-> status, tokens |-> NoUsage, ttft |-> FALSE, rate |-> FALSE,
     text |-> <<>>, calls |-> <<>>]

\* ttft and rate say whether the first-token time and the end-to-end rate are
\* numbers.
Measured(st) ==
    [status |-> CASE st.usage = NoUsage -> "success_no_usage"
                  [] st.usage = 0       -> "zero_tokens"
                  [] OTHER              -> "success",
     tokens |-> st.usage, ttft |-> st.ttft, rate |-> st.usage \notin {NoUsage, 0},
     text |-> st.text, calls |-> st.calls]

\* _run_one_request: a transport error while the body is read counts as a
\* timeout, whatever it was.
Measure(reply) ==
    IF reply.open = "timeout" THEN NoMeasurement("timeout")
    ELSE IF reply.open = "refused" THEN NoMeasurement("connection_failure")
    ELSE IF reply.http \notin Ok2xx THEN NoMeasurement("http_error")
    ELSE LET st == ReadStream(reply.lines)
         IN  CASE st.phase = "timeout"   -> NoMeasurement("timeout")
               [] st.phase = "malformed" -> NoMeasurement("malformed_sse")
               [] OTHER                  -> Measured(st)

\* grade_arithmetic and grade_tool_call: the whole text is the expected number,
\* the only call names the tool and its arguments validate.
RightNumber(m) == m.text = <<"number">>
RightCall(m)   == m.calls = <<"call">>

=============================================================================
