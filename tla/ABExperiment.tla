----------------------------- MODULE ABExperiment -----------------------------
(***************************************************************************)
(* run_ab_experiment and verify_ab_experiment (ab_experiment.py) with the  *)
(* statistics they rest on (statistics.py): alternating trials of two      *)
(* arms, each trial one run of the benchmark, the decision drawn from      *)
(* them, and the check of the manifest before it is returned.              *)
(* A rate is a whole number of tokens per second.  The seeded bootstrap    *)
(* may return any interval whose ends are resampled effects.               *)
(***************************************************************************)
EXTENDS BenchmarkRun

CONSTANTS
    Served,     \* model names the endpoint of each arm may report
    Trials,     \* spec.trials; min_trials of the statistics is the same
    Threshold   \* spec.threshold, in percent of the baseline

ASSUME TrialsAssumption == Trials \in 2..20
ASSUME ThresholdAssumption == Threshold \in Nat

VARIABLES
    exp,        \* where the experiment is: its pc, the trial and the run in it
    runs,       \* the artifacts of each arm, in the order of its trials
    context,    \* expected_context: the model served, or "none"
    result      \* the manifest once it is built

expVars == <<exp, runs, context, result>>
vars == <<exp, runs, context, result, runVars>>

-----------------------------------------------------------------------------

Arms == {"baseline", "candidate"}

ASSUME ServedAssumption == \A a \in Arms : "none" \notin Served[a]

\* Even trial indexes, which are odd trials here, run the baseline first.
Order(trial) == IF trial % 2 = 1 THEN <<"baseline", "candidate">>
                ELSE <<"candidate", "baseline">>
Arm == Order(exp.trial)[exp.run]

NoResult == [verdict |-> "none", reason |-> "none", statistics |-> "none"]

Init ==
    /\ RunInit
    /\ exp = [pc |-> "next", trial |-> 1, run |-> 1]
    /\ runs = [a \in Arms |-> <<>>]
    /\ context = "none"
    /\ result = NoResult

-----------------------------------------------------------------------------
(* The statistics: evaluate.                                               *)

Numeric(rs) == \A a \in Arms : \A i \in DOMAIN rs[a] : rs[a][i].metric = "number"

\* The sums of the resamples of an arm, drawn with replacement; means are sums
\* over Trials values.
Resamples(values) ==
    LET sums[n \in 0..Trials] ==
          IF n = 0 THEN {0} ELSE {s + values[i] : s \in sums[n - 1], i \in DOMAIN values}
    IN  sums[Trials]

Rates(rs, arm) == [i \in DOMAIN rs[arm] |-> rs[arm][i].rate]

\* The relative improvement (c - b) / b of one pair of resamples is at least
\* the threshold.
Meets(b, c) == 100 * (c - b) >= Threshold * b

Effects(rs) ==
    Resamples(Rates(rs, "baseline")) \X Resamples(Rates(rs, "candidate"))
SomeEffect(rs, good) == \E e \in Effects(rs) : Meets(e[1], e[2]) = good

\* The verdicts some seed can give: the interval lies above the threshold,
\* below it, or across it.
Statistics(rs) ==
    IF \E i \in DOMAIN rs["baseline"] : rs["baseline"][i].rate = 0
    THEN {"NONPOSITIVE_BASELINE_STATISTIC"}
    ELSE {v \in {"PROMOTE_ELIGIBLE", "REJECT_INSUFFICIENT_EFFECT",
                 "INCONCLUSIVE_STATISTICAL_UNCERTAINTY"} :
            /\ v # "REJECT_INSUFFICIENT_EFFECT" => SomeEffect(rs, TRUE)
            /\ v # "PROMOTE_ELIGIBLE" => SomeEffect(rs, FALSE)}

VerdictOf(statistics) ==
    CASE statistics = "PROMOTE_ELIGIBLE"           -> "PROMOTE"
      [] statistics = "REJECT_INSUFFICIENT_EFFECT" -> "REJECT"
      [] OTHER                                     -> "INCONCLUSIVE"

-----------------------------------------------------------------------------
(* The decision.                                                           *)

AllOk(rs, arm) == \A i \in DOMAIN rs[arm] : rs[arm][i].status = "ok"

\* Variant with a fault, for the mutation runs: the candidate's gate comes first.
HardGate_candidate_first(rs) ==
    IF ~AllOk(rs, "candidate") THEN <<"REJECT", "CANDIDATE_HARD_GATE_FAILED">>
    ELSE IF ~AllOk(rs, "baseline") THEN <<"INCONCLUSIVE", "BASELINE_HARD_GATE_FAILED">>
    ELSE <<>>

\* _hard_gate_decision: a baseline that failed says nothing of the candidate.
HardGate(rs) ==
    IF ~AllOk(rs, "baseline") THEN <<"INCONCLUSIVE", "BASELINE_HARD_GATE_FAILED">>
    ELSE IF ~AllOk(rs, "candidate") THEN <<"REJECT", "CANDIDATE_HARD_GATE_FAILED">>
    ELSE <<>>

\* The decision on these runs, given what the statistics say ("none" when some
\* sample is no number).
DecisionOn(rs, statistics) ==
    LET hard == HardGate(rs)
    IN  IF hard # <<>> THEN hard
        ELSE IF statistics = "none" THEN <<"INCONCLUSIVE", "METRIC_UNMEASURABLE">>
        ELSE <<VerdictOf(statistics), statistics>>

Manifest(rs, statistics) ==
    LET decision == DecisionOn(rs, statistics)
    IN  [verdict |-> decision[1], reason |-> decision[2], statistics |-> statistics]

\* verify_ab_experiment on the documents it was built from: every arm has its
\* trials, all in one context, with supported statuses; statistics if and only
\* if every sample is a number; and the decision they imply.
Verified(m, rs) ==
    /\ \A a \in Arms :
         /\ Len(rs[a]) = Trials
         /\ \A i \in DOMAIN rs[a] :
              /\ rs[a][i].status \in {"ok", "degraded"}
              /\ rs[a][i].served = rs["baseline"][1].served
    /\ m.statistics = "none" <=> ~Numeric(rs)
    /\ m.statistics # "none" => m.statistics \in Statistics(rs)
    /\ <<m.verdict, m.reason>> = DecisionOn(rs, m.statistics)

-----------------------------------------------------------------------------
(* The steps.                                                              *)

\* The runner is called for the next run of the trial.
CallRunner ==
    /\ exp.pc = "next" /\ exp.trial <= Trials
    /\ Call
    /\ exp' = [exp EXCEPT !.pc = "running"]
    /\ UNCHANGED <<runs, context, result>>

\* Variant with a fault, for the mutation runs: one context per arm.
SameContext_per_arm == runs[Arm] = <<>> \/ runs[Arm][1].served = artifact.served

SameContext == context \in {"none", artifact.served}

\* The run is sealed: its context is that of the runs before it, or the
\* experiment ends here with an error.
TakeRun ==
    /\ exp.pc = "running" /\ phase = "sealed"
    /\ IF SameContext
       THEN /\ runs' = [runs EXCEPT ![Arm] = Append(@, artifact)]
            /\ context' = artifact.served
            /\ exp' = IF exp.run = 1 THEN [exp EXCEPT !.pc = "next", !.run = 2]
                      ELSE [pc |-> "next", trial |-> exp.trial + 1, run |-> 1]
       ELSE exp' = [exp EXCEPT !.pc = "context_changed"] /\ UNCHANGED <<runs, context>>
    /\ UNCHANGED <<result, runVars>>

\* An exception of the runner is not caught: nothing is sealed.
RunnerRaises ==
    /\ exp.pc = "running" /\ phase = "failed"
    /\ exp' = [exp EXCEPT !.pc = "runner_failed"]
    /\ UNCHANGED <<runs, context, result, runVars>>

\* Statistics whenever all samples are numbers, the decision, the manifest and
\* its own verification before it is returned.
Decide ==
    /\ exp.pc = "next" /\ exp.trial > Trials
    /\ \E s \in (IF Numeric(runs) THEN Statistics(runs) ELSE {"none"}) :
         result' = Manifest(runs, s)
    /\ exp' = [exp EXCEPT !.pc = IF Verified(result', runs) THEN "sealed" ELSE "refused"]
    /\ UNCHANGED <<runs, context, runVars>>

BenchmarkStep == exp.pc = "running" /\ RunStep(Served[Arm]) /\ UNCHANGED expVars
ExperimentStep == CallRunner \/ TakeRun \/ RunnerRaises \/ Decide

Next == BenchmarkStep \/ ExperimentStep

\* The threads of the pool run, and the timeouts of the barrier and of
\* future.result expire.  Nothing obliges the endpoint to end a reply: the HTTP
\* timeout is one per read, so no step that waits for a reply is fair.
Fairness ==
    /\ WF_vars(ExperimentStep)
    /\ WF_vars(exp.pc = "running" /\ PoolStep /\ UNCHANGED expVars)
    /\ WF_vars(exp.pc = "running" /\ TimerStep /\ UNCHANGED expVars)
    /\ \A w \in Workers : WF_vars(exp.pc = "running" /\ Arrive(w) /\ UNCHANGED expVars)

Spec == Init /\ [][Next]_vars /\ Fairness

-----------------------------------------------------------------------------
(* Properties.                                                             *)

\* A sealed run has one outcome for every request of the profile, and the group
\* sent all of its requests together or the run sealed nothing: no member
\* answered unless every member had reached the barrier (benchmark_runner.py
\* 195-238, 445-624).
EvidenceIsComplete ==
    /\ phase = "sealed" => \A k \in Kinds : Len(outcomes[k]) = Plan[k]
    /\ (\E w \in Workers : worker[w] = "done") =>
         \A w \in Workers : worker[w] \in {"sending", "done"}

\* The arms never load the endpoint together: while a request of the group is
\* under way the main thread is still inside the group's pool, also after a
\* timeout has made the run fail (benchmark_runner.py 226-231).
ArmsDoNotOverlap ==
    (\E w \in Workers : worker[w] \in Busy) => phase = "concurrency" /\ exp.pc = "running"

\* A PROMOTE rests on complete, healthy arms measured in one context and on an
\* improvement that some resample shows; a REJECT is never the baseline's fault
\* (ab_experiment.py 188-217, 220-360).
DecisionIsEarned ==
    exp.pc = "sealed" =>
      /\ result.verdict # "INCONCLUSIVE" =>
           /\ AllOk(runs, "baseline")
           /\ \A a, b \in Arms : \A i, j \in 1..Trials : runs[a][i].served = runs[b][j].served
      /\ result.verdict = "PROMOTE" =>
           /\ AllOk(runs, "candidate") /\ Numeric(runs)
           /\ \E i, j \in 1..Trials :
                Meets(runs["baseline"][i].rate, runs["candidate"][j].rate)
      /\ result.verdict = "REJECT" =>
           \E i, j \in 1..Trials :
              \/ runs["candidate"][i].status = "degraded"
              \/ ~Meets(runs["baseline"][i].rate, runs["candidate"][j].rate)

\* A manifest that was just built passes its own verification
\* (ab_experiment.py 359).
ManifestVerifies == exp.pc # "refused"

\* A reply of the endpoint is outstanding.
Requesting ==
    /\ exp.pc = "running"
    /\ \/ phase \in SerialKinds \cup {"preflight", "probe"}
       \/ \E w \in Workers : worker[w] = "sending"

\* The experiment never waits on itself: it ends, unless the endpoint never ends
\* some reply.  No broken barrier, thread that did not start, late result or exit
\* of the pool keeps it (benchmark_runner.py 195-238; ab_experiment.py 279-360).
ExperimentEnds ==
    \/ <>[](exp.pc \in {"sealed", "runner_failed", "context_changed", "refused"})
    \/ <>[]Requesting

=============================================================================
