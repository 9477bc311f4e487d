----------------------------- MODULE VerdictEngine -----------------------------
(***************************************************************************)
(* The decision the importer draws from two evidence documents: the        *)
(* samples of a document (adapters.py), the gates (engine.py import_case)  *)
(* and the rules in their order (engine.py decide), as operators on data.  *)
(*                                                                         *)
(* A document is [form, plain, middle, rows].  form is "known", "unknown"  *)
(* (no such schema), "nonfinite" or "undecodable".  Its one block of a     *)
(* workload has two scalars per metric, "median_<m>" (middle) and "<m>"    *)
(* (plain), and its rows are requests [finish, tokens, plain, middle].     *)
(* Values are natural numbers, Absent where the key is missing; medians    *)
(* are kept doubled.  Thresholds are percentages; NaN is a float that YAML *)
(* can spell and no comparison accepts.                                    *)
(***************************************************************************)
EXTENDS Integers, Sequences, FiniteSets, SequencesExt, Medians

Absent == -1
NaN == -1

LowerBetter == {"ttft_s", "api_latency_s"}
SerialMetrics == {"decode_tokens_per_s", "e2e_output_tokens_per_s"} \cup LowerBetter

Readings == [SerialMetrics -> Nat \cup {Absent}]
Documents ==
    [form: {"known", "unknown", "nonfinite", "undecodable"}, plain: Readings, middle: Readings,
     rows: Seq([finish: STRING, tokens: Nat, plain: Readings, middle: Readings])]

-----------------------------------------------------------------------------
(* adapters.py                                                             *)

\* The block's scalar, or the median of the rows that have a value.
BlockMedian(scalar, column) ==
    LET present == {i \in DOMAIN column : column[i] # Absent}
    IN  IF scalar # Absent THEN 2 * scalar
        ELSE IF present = {} THEN Absent ELSE Median2([i \in present |-> column[i]])

\* "a or b": a missing value and 0.0 both give way to the second key.
Sample(doc, m) ==
    LET middle == BlockMedian(doc.middle[m], [i \in DOMAIN doc.rows |-> doc.rows[i].middle[m]])
        plain  == BlockMedian(doc.plain[m], [i \in DOMAIN doc.rows |-> doc.rows[i].plain[m]])
    IN  IF middle \in {Absent, 0} THEN plain ELSE middle

\* The one dimension that varies with the document.
OutputBudget(doc) ==
    FoldLeft(LAMBDA most, row : IF row.tokens > most THEN row.tokens ELSE most, 0, doc.rows)

\* _request_success: every request ended at its token budget.
RequestSuccess(doc) ==
    IF \A i \in DOMAIN doc.rows : doc.rows[i].finish = "length" THEN "pass" ELSE "fail"

\* adapt(): a side is unsupported, or recognized with what it says.
Side(doc) ==
    IF doc.form = "unknown" THEN [schema |-> "unsupported"]
    ELSE [schema |-> "recognized", budget |-> OutputBudget(doc),
          samples |-> [m \in SerialMetrics |-> Sample(doc, m)],
          machine |-> RequestSuccess(doc)]

-----------------------------------------------------------------------------
(* Gates.                                                                  *)

\* _combine_gate_statuses
Combine(statuses) ==
    CASE statuses = {}       -> "missing"
      [] "fail" \in statuses -> "fail"
      [] OTHER               -> "pass"

\* The machine's word on request_success from the recognized sides comes first,
\* then the operator's attestation, if its evidence could be verified.
GateStatus(gate, base, cand, attested) ==
    LET statuses == {s.machine : s \in {x \in {base, cand} : x.schema = "recognized"}}
    IN  IF gate = "request_success" /\ statuses # {} THEN Combine(statuses)
        ELSE IF gate \in DOMAIN attested THEN attested[gate] ELSE "missing"

-----------------------------------------------------------------------------
(* decide()                                                                *)

Comparable(base, cand, m) ==
    /\ base.budget = cand.budget
    /\ base.samples[m] # Absent /\ cand.samples[m] # Absent

\* gain < min_relative_improvement, in the direction that is good for the metric.
GainBelow(m, b, c, least) ==
    least # NaN /\ 100 * (IF m \in LowerBetter THEN b - c ELSE c - b) < least * b

\* Rule 5 applies to a number, and to a positive baseline.
TTFTRegressed(b, c, most) == b > 0 /\ 100 * (c - b) > most * b

\* The rules in order; the first that applies decides.
Ruling(policy, base, cand, gates) ==
    LET m == policy.primary
        b == base.samples[m]
        c == cand.samples[m]
        ttftKnown == Comparable(base, cand, "ttft_s")
        late == TTFTRegressed(base.samples["ttft_s"], cand.samples["ttft_s"], policy.most)
    IN
    IF "unsupported" \in {base.schema, cand.schema}
                                       THEN <<"INCONCLUSIVE", "UNSUPPORTED_SCHEMA">>
    ELSE IF ~Comparable(base, cand, m) THEN <<"INCONCLUSIVE", "METRIC_NOT_COMPARABLE">>
    ELSE IF "fail" \in gates           THEN <<"REJECT", "HARD_GATE_FAILED">>
    ELSE IF "missing" \in gates        THEN <<"INCONCLUSIVE", "REQUIRED_GATE_MISSING">>
    ELSE IF policy.most # NaN /\ ~ttftKnown
                                       THEN <<"INCONCLUSIVE", "METRIC_NOT_COMPARABLE">>
    ELSE IF policy.most # NaN /\ late  THEN <<"REJECT", "TTFT_REGRESSION">>
    ELSE IF b = 0                      THEN <<"INCONCLUSIVE", "METRIC_NOT_COMPARABLE">>
    ELSE IF GainBelow(m, b, c, policy.least)
                                       THEN <<"REJECT", "INSUFFICIENT_EFFECT">>
    ELSE <<"PROMOTE", "PRIMARY_EFFECT_PASSED">>

=============================================================================
