---------------------------- MODULE MCABExperiment ----------------------------
(* One request of each kind and a group of two; an endpoint that answers     *)
(* right, wrong, without usage, in pieces, not to the end, or not at all.    *)
EXTENDS ABExperiment

MCPlan == [k \in Kinds |-> IF k = "concurrency" THEN 2 ELSE 1]

\* The candidate's endpoint may report another model than the baseline's.
MCServed == [a \in Arms |-> IF a = "baseline" THEN {"m1"} ELSE {"m1", "m2"}]

Object(text, call, usage) ==
    [form |-> "object", valid |-> TRUE, text |-> text, call |-> call, usage |-> usage]
Data(piece) == [kind |-> "data", piece |-> piece]
Done == Data([form |-> "done"])
Blank == [kind |-> "blank"]

\* Text that answers the arithmetic and a call that answers the tool request.
Right == <<Data(Object("number", "call", NoUsage)), Data(Object("", "", 4)), Blank, Done, Blank>>
RightNoUsage == <<Data(Object("number", "call", NoUsage)), Blank, Done>>
Broken == <<Data(Object("number", "", 4)), Blank>>
Stalled == <<Data(Object("number", "", 4)), [kind |-> "fault"]>>

\* Two data lines make one event; the text comes in two pieces.
Wrong == <<Data(Object("number", "", 4)), Data([Object("number", "", 4) EXCEPT !.form = "head"]),
           Data([form |-> "tail"]), Done>>

Refused == [open |-> "refused", http |-> 0, lines |-> <<>>]
Reply(lines) == [open |-> "opened", http |-> 200, lines |-> lines]

MCReplies ==
    [k \in Kinds |->
       CASE k = "warmup"             -> {Reply(Right), Refused}
         [] k = "serial_fresh"       -> {Reply(Right), Reply(Stalled)}
         [] k = "serial_edit"        -> {Reply(RightNoUsage)}
         [] k = "concurrency"        -> {Reply(Right), Reply(RightNoUsage), Reply(Broken)}
         [] k = "quality_arithmetic" -> {Reply(Right), Reply(Wrong)}
         [] k = "quality_tool_call"  -> {Reply(Right)}]

-----------------------------------------------------------------------------
(* ReadStream against the grammar of a complete stream, over every stream of *)
(* up to five lines.                                                         *)

Usage(n) == Data(Object("t", "", n))
FirstHalf == Data([Object("t", "", 4) EXCEPT !.form = "head"])
SecondHalf == Data([form |-> "tail"])
Lines == {Blank, Done, Usage(NoUsage), Usage(4), FirstHalf, SecondHalf, Data([form |-> "junk"]),
          [kind |-> "fault"]}
Streams == UNION {[1..n -> Lines] : n \in 0..5}
Whole == {Usage(NoUsage), Usage(4)}

\* [DONE] stands alone, ended by a blank line or the end, and what comes before
\* it is blank lines and objects, a head right before its tail.
CompleteAt(lines, d) ==
    /\ lines[d] = Done
    /\ d < Len(lines) => lines[d + 1] = Blank
    /\ \A i \in 1..(d - 1) :
         \/ lines[i] \in Whole \cup {Blank}
         \/ lines[i] = FirstHalf /\ lines[i + 1] = SecondHalf
         \/ lines[i] = SecondHalf /\ i > 1 /\ lines[i - 1] = FirstHalf

\* The usage of a complete stream is that of its last chunk.
LastChunk(lines, d) ==
    LET chunks == {i \in 1..(d - 1) : lines[i] \in Whole \cup {FirstHalf}}
    IN  IF chunks = {} THEN NoUsage
        ELSE lines[CHOOSE i \in chunks : \A j \in chunks : j <= i].piece.usage

ASSUME StreamsAreReadRight ==
    \A lines \in Streams :
      LET st == ReadStream(lines)
          ends == {d \in DOMAIN lines : CompleteAt(lines, d)}
      IN  /\ st.phase = "done" <=> ends # {}
          /\ \A d \in ends : st.usage = LastChunk(lines, CHOOSE e \in ends : \A f \in ends : e <= f)

=============================================================================
