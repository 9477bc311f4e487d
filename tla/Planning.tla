------------------------------- MODULE Planning -------------------------------
(***************************************************************************)
(* The pure planners: capacity.py (does a model fit, and how many requests *)
(* at once), compare.py (two sealed summaries against gates), pareto.py    *)
(* (the frontier of evaluated trials) and sweep.py (which trials to run).  *)
(* Measurements are natural numbers; Unmeasurable stands for the sentinel, *)
(* NotThere for a metric the summary does not have.  Thresholds are        *)
(* integers: percentages where they are relative.                          *)
(***************************************************************************)
EXTENDS Integers, FiniteSets

Unmeasurable == -1
NotThere == -2

Lower == "lower_better"
Higher == "higher_better"

\* The change from base to cand in the direction that is good for the metric.
Improvement(direction, base, cand) ==
    IF direction = Lower THEN base - cand ELSE cand - base

-----------------------------------------------------------------------------
(* capacity.py                                                             *)

\* A geometry [layers, kvHeads, headDim, kvBytes, params, weightBytes] of
\* positive integers.
WeightsBytes(g) == g.params * g.weightBytes
KvBytesPerToken(g) == 2 * g.layers * g.kvHeads * g.headDim * g.kvBytes

\* plan_capacity from the sizes it computes: weights, reserve and worst-case
\* cache of one request, the memory and the concurrency asked for.
SafeMax(weights, reserve, request, memory) ==
    IF memory > weights + reserve THEN (memory - weights - reserve) \div request ELSE 0

Load(weights, reserve, request, target) == weights + reserve + target * request

\* round(load / memory, 6), in millionths.  The one tie that decides anything is
\* 0.8500005, which rounds up as a double.
Millionths(load, memory) == (2000000 * load + memory) \div (2 * memory)

\* INVALID stands for CapacityInputError: a reserve larger than the memory.
Classification(weights, reserve, request, memory, target) ==
    IF reserve > memory THEN "INVALID"
    ELSE IF target > SafeMax(weights, reserve, request, memory) THEN "NO_FIT"
    ELSE IF Millionths(Load(weights, reserve, request, target), memory) > 850000 THEN "RISK"
    ELSE "FIT"

PlanCapacity(g, memory, reserve, tokens, target) ==
    Classification(WeightsBytes(g), reserve, KvBytesPerToken(g) * tokens, memory, target)

-----------------------------------------------------------------------------
(* compare.py                                                              *)

\* A gate [metric, relative, absolute]; NoBound where a bound is not set.
NoBound == -1000

\* _gate_outcome: both bounds that are set have to be met.
MeetsGate(direction, gate, base, cand) ==
    LET gain == Improvement(direction, base, cand)
    IN  /\ gate.absolute # NoBound => gain >= gate.absolute
        /\ gate.relative # NoBound => 100 * gain >= gate.relative * base

\* What stops the comparison at a gate: "none" when nothing does.
Obstacle(gate, base, cand) ==
    IF NotThere \in {base, cand} THEN "METRIC_MISSING"
    ELSE IF Unmeasurable \in {base, cand} THEN "METRIC_UNMEASURABLE"
    ELSE IF base = 0 /\ gate.relative # NoBound THEN "ZERO_BASELINE"
    ELSE "none"

\* compare_summaries for summaries [context, values], a set of performance gates
\* and at most one quality gate, which is looked at before them.
CompareSummaries(direction, base, cand, gates, quality) ==
    LET all == gates \cup quality
        met(g) == MeetsGate(direction[g.metric], g, base.values[g.metric], cand.values[g.metric])
        stopped(g) == Obstacle(g, base.values[g.metric], cand.values[g.metric]) # "none"
    IN  IF base.context # cand.context \/ \E g \in all : stopped(g) THEN "INCONCLUSIVE"
        ELSE IF \E g \in all : ~met(g) THEN "REJECT"
        ELSE "PROMOTE"

-----------------------------------------------------------------------------
(* pareto.py                                                               *)

\* A trial maps each objective to a measurement; bounds map some objectives to
\* the interval [least, most] their value has to lie in.
Feasible(trial, bounds) ==
    /\ \A m \in DOMAIN trial : trial[m] # Unmeasurable
    /\ \A m \in DOMAIN bounds : trial[m] >= bounds[m].least /\ trial[m] <= bounds[m].most

Better(direction, x, y) == Improvement(direction, y, x) > 0
AsGood(direction, x, y) == Improvement(direction, y, x) >= 0

Dominates(direction, a, b) ==
    /\ \A m \in DOMAIN direction : AsGood(direction[m], a[m], b[m])
    /\ \E m \in DOMAIN direction : Better(direction[m], a[m], b[m])

\* compute_pareto_frontier over trials by their ids, which are unique: the
\* constraints filter first, then domination.  The frontier holds ids.
FeasibleIds(trials, bounds) == {t \in DOMAIN trials : Feasible(trials[t], bounds)}

Frontier(direction, trials, bounds) ==
    LET feasible == FeasibleIds(trials, bounds)
    IN  {b \in feasible : ~\E a \in feasible : Dominates(direction, trials[a], trials[b])}

Winner(direction, trials, bounds) ==
    LET frontier == Frontier(direction, trials, bounds)
    IN  IF frontier = {} THEN "NO_FEASIBLE_TRIALS"
        ELSE IF \E t \in frontier : frontier = {t} THEN "SINGLE_WINNER"
        ELSE "NO_SINGLE_WINNER"

-----------------------------------------------------------------------------
(* sweep.py                                                                *)

\* The points that change one parameter of the baseline, within its range.
SweepPoints(baseline, ranges) ==
    UNION {{[baseline EXCEPT ![p] = v] : v \in ranges[p] \ {baseline[p]}} : p \in DOMAIN baseline}

\* plan_sweep: the seed picks which points come first, max_trials how many.
SweepPlans(baseline, ranges, maxTrials) ==
    LET points == SweepPoints(baseline, ranges)
        size   == IF Cardinality(points) < maxTrials THEN Cardinality(points) ELSE maxTrials
    IN  {plan \in SUBSET points : Cardinality(plan) = size}

=============================================================================
