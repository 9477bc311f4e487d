--------------------------- MODULE ReplayRegression ---------------------------
(***************************************************************************)
(* A workload replayed against a baseline and a candidate through an       *)
(* injected executor (replay.py run_replay), each replay sealed into an    *)
(* artifact, and the gate that compares the two (replay_gate.py).          *)
(* Times and rates are natural numbers in units of 0.01; medians are kept  *)
(* doubled.  Rates and thresholds are percentages.                         *)
(***************************************************************************)
EXTENDS Integers, Sequences, FiniteSets, Medians

CONSTANTS
    Answers,      \* what the executor may return for a request (RawAnswer)
    CaseCount,    \* how many cases of the workload are selected
    Protocols,    \* executor tag, redaction policy, seed and sample size
    Workloads     \* workload hashes

Unmeasured == -1    \* None: no measurement is negative
Measurements == Nat \cup {Unmeasured}

\* RawExecutionResult: accepted says whether its fields normalize; quality is
\* its pass rate in percent, tools the combined status of its tools.
RawAnswer ==
    [status: {"success", "error"}, accepted: BOOLEAN, usage: BOOLEAN,
     tools: {"none", "ok", "skipped", "error"},
     quality: -1..100, ttft_s: Measurements, decode_tokens_per_s: Measurements]

ASSUME AnswersAssumption == Answers \subseteq RawAnswer
ASSUME CaseCountAssumption == CaseCount \in Nat \ {0}

VARIABLES
    replaying,    \* the arm that is replayed, then "gate", "decided" or "raised"
    artifact,     \* the artifact of each arm: protocol, workload, entries, intact
    ruling        \* the gate's decision and its reasons

replayVars == <<replaying, artifact, ruling>>

ReplayArms == {"baseline", "candidate"}
NoRuling == [decision |-> "none", reasons |-> {}]

ReplayInit ==
    /\ replaying = "baseline"
    /\ artifact \in [ReplayArms -> [protocol: Protocols, workload: Workloads,
                                    entries: {<<>>}, intact: {TRUE}]]
    /\ ruling = NoRuling

-----------------------------------------------------------------------------
(* run_replay.                                                             *)

FailedEntry ==
    [succeeded |-> FALSE, usage |-> FALSE, tools |-> "none", quality |-> Unmeasured,
     ttft_s |-> Unmeasured, decode_tokens_per_s |-> Unmeasured]

\* _normalize_entry: nothing of an error but that it was one.
Entry(raw) ==
    IF raw.status = "error" THEN FailedEntry
    ELSE [succeeded |-> TRUE, usage |-> raw.usage, tools |-> raw.tools, quality |-> raw.quality,
          ttft_s |-> raw.ttft_s, decode_tokens_per_s |-> raw.decode_tokens_per_s]

\* The redaction callback raises, or breaks the structure of the messages, or
\* the executor's answer does not normalize: no artifact is made.
ReplayRaises ==
    /\ replaying \in ReplayArms
    /\ replaying' = "raised"
    /\ UNCHANGED <<artifact, ruling>>

\* One case: redacted, executed (an exception of the executor is an error) and
\* normalized; after the last one the artifact is sealed.
ReplayCase ==
    /\ replaying \in ReplayArms
    /\ \E raw \in Answers :
         /\ raw.accepted
         /\ artifact' = [artifact EXCEPT ![replaying].entries = Append(@, Entry(raw))]
    /\ replaying' = IF Len(artifact[replaying].entries) + 1 < CaseCount THEN replaying
                    ELSE IF replaying = "baseline" THEN "candidate" ELSE "gate"
    /\ UNCHANGED ruling

-----------------------------------------------------------------------------
(* The aggregates of an artifact.                                          *)

SucceededIn(entries) == {i \in DOMAIN entries : entries[i].succeeded}

\* Twice the median of the measurements of the requests that succeeded.
Typical(entries, metric) ==
    LET measured == {i \in SucceededIn(entries) : entries[i][metric] # Unmeasured}
    IN  IF measured = {} THEN Unmeasured ELSE Median2([i \in measured |-> entries[i][metric]])

RequestsFail(entries) == 100 * Cardinality(SucceededIn(entries)) < 99 * Len(entries)

ToolsFail(entries) ==
    LET checked == {i \in DOMAIN entries : entries[i].tools # "none"}
        good    == {i \in checked : entries[i].tools \in {"ok", "skipped"}}
    IN  checked # {} /\ 100 * Cardinality(good) < 95 * Cardinality(checked)

\* The worst pass rate; a candidate without any is below the minimum too.
QualityFails(entries) ==
    LET rated == {i \in SucceededIn(entries) : entries[i].quality # Unmeasured}
    IN  rated = {} \/ \E i \in rated : entries[i].quality < 90

UsageMissing(entries) == \E i \in DOMAIN entries : entries[i].succeeded /\ ~entries[i].usage

-----------------------------------------------------------------------------
(* ReplayGate.evaluate.                                                    *)

Metrics == {"ttft_s", "decode_tokens_per_s"}

\* Percent by which a metric may grow, and by which it may shrink; the end-to-end
\* rate has the limits of the decode rate.
Growth == [m \in Metrics |-> IF m = "ttft_s" THEN 10 ELSE 5]
Shrinkage == [m \in Metrics |-> IF m = "ttft_s" THEN 20 ELSE 50]

\* Below 0.01 the change itself is compared; it has to stay within the limit of
\* the baseline all the same.
Grows(m, b, c) == 100 * (c - b) > Growth[m] * b
Shrinks(m, b, c) == 100 * (b - c) > Shrinkage[m] * b

\* Variant with a fault, for the mutation runs: growth is not looked at.
MetricReasons_shrinking_only(base, cand) ==
    {<<m, "improvement">> : m \in {x \in Metrics :
        /\ Typical(base, x) # Unmeasured /\ Typical(cand, x) # Unmeasured
        /\ Shrinks(x, Typical(base, x), Typical(cand, x))}}

\* The metrics both sides have, one reason each; growth is called a regression
\* and shrinking an improvement whatever the metric, and both of them fail.
MetricReasons(base, cand) ==
    LET both == {m \in Metrics : Typical(base, m) # Unmeasured /\ Typical(cand, m) # Unmeasured}
    IN  {<<m, "regression">> : m \in {x \in both : Grows(x, Typical(base, x), Typical(cand, x))}}
        \cup
        {<<m, "improvement">> : m \in {x \in both : Shrinks(x, Typical(base, x), Typical(cand, x))}}

HardReasons(entries) ==
    {r \in {"request_success_below_min", "tool_failure", "quality_below_min"} :
       CASE r = "request_success_below_min" -> RequestsFail(entries)
         [] r = "tool_failure"              -> ToolsFail(entries)
         [] r = "quality_below_min"         -> QualityFails(entries)}

Mismatches(base, cand) ==
    {r \in {"protocol_mismatch", "workload_hash_mismatch"} :
       IF r = "protocol_mismatch" THEN base.protocol # cand.protocol
       ELSE base.workload # cand.workload}

\* The first group of reasons that is not empty decides.
Evaluate(base, cand) ==
    LET mismatches == Mismatches(base, cand)
        hard       == HardReasons(cand.entries)
        metric     == MetricReasons(base.entries, cand.entries)
    IN  IF mismatches # {} THEN [decision |-> "INCONCLUSIVE", reasons |-> mismatches]
        ELSE IF UsageMissing(base.entries) \/ UsageMissing(cand.entries)
             THEN [decision |-> "INCONCLUSIVE", reasons |-> {"usage_missing"}]
        ELSE IF hard # {}   THEN [decision |-> "FAIL", reasons |-> hard]
        ELSE IF metric # {} THEN [decision |-> "FAIL", reasons |-> metric]
        ELSE [decision |-> "PASS", reasons |-> {}]

\* verify_artifact of both, then the evaluation.
ReplayGate ==
    /\ replaying = "gate"
    /\ IF \A a \in ReplayArms : artifact[a].intact
       THEN /\ ruling' = Evaluate(artifact["baseline"], artifact["candidate"])
            /\ replaying' = "decided"
       ELSE replaying' = "raised" /\ UNCHANGED ruling
    /\ UNCHANGED artifact

\* A stored artifact is edited: here an entry of it is made a success.
EditArtifact ==
    /\ replaying = "gate"
    /\ \E a \in ReplayArms : \E i \in DOMAIN artifact[a].entries :
         /\ ~artifact[a].entries[i].succeeded
         /\ artifact' = [artifact EXCEPT ![a].entries[i] = [@ EXCEPT !.succeeded = TRUE],
                                         ![a].intact = FALSE]
    /\ UNCHANGED <<replaying, ruling>>

ReplayNext == ReplayCase \/ ReplayRaises \/ ReplayGate \/ EditArtifact
ReplaySpec == ReplayInit /\ [][ReplayNext]_replayVars

-----------------------------------------------------------------------------
(* Properties.                                                             *)

\* What a PASS vouches for: one protocol and one workload; of the candidate's
\* requests at most 1% failed and of those that used tools at most 5% in error
\* (none, when there are fewer than 100 and fewer than 20); the others all with
\* usage, and at quality 0.9 or more; and where both sides were measured, first
\* tokens between a fifth sooner and a tenth later, and a decode rate between half
\* of the baseline's and a twentieth above it: the gate also fails what grows or
\* shrinks in the good direction (replay_gate.py 182-278).
ReplayPassIsClean ==
    ruling.decision = "PASS" =>
      LET base == artifact["baseline"]
          cand == artifact["candidate"]
          requests == DOMAIN cand.entries
          failed == {i \in requests : ~cand.entries[i].succeeded}
          within(m, least, most) ==
            \/ Unmeasured \in {Typical(base.entries, m), Typical(cand.entries, m)}
            \/ /\ 100 * Typical(cand.entries, m) >= least * Typical(base.entries, m)
               /\ 100 * Typical(cand.entries, m) <= most * Typical(base.entries, m)
      IN  /\ base.protocol = cand.protocol /\ base.workload = cand.workload
          /\ Len(cand.entries) = Len(base.entries)
          /\ 100 * Cardinality(failed) <= Cardinality(requests)
          /\ 20 * Cardinality({i \in requests : cand.entries[i].tools = "error"})
               <= Cardinality({i \in requests : cand.entries[i].tools # "none"})
          /\ \A i \in requests \ failed :
               cand.entries[i].usage /\ cand.entries[i].quality \in {Unmeasured} \cup 90..100
          /\ within("ttft_s", 80, 110) /\ within("decode_tokens_per_s", 50, 105)

\* The reading the module's docstring gives ("Direction-aware regression/
\* improvement thresholds", replay_gate.py 7): a candidate that passes decodes no
\* more than the regression threshold of 5% slower than its baseline.
SlowdownsFail ==
    ruling.decision = "PASS" =>
      LET base == Typical(artifact["baseline"].entries, "decode_tokens_per_s")
          cand == Typical(artifact["candidate"].entries, "decode_tokens_per_s")
      IN  base # Unmeasured /\ cand # Unmeasured => 100 * (base - cand) <= 5 * base

=============================================================================
