------------------------------ MODULE MCOffline ------------------------------
(* Small documents, one trusted key and another, two publishing processes,   *)
(* replays of two requests.                                                  *)
EXTENDS Offline

P == INSTANCE Planning

CONSTANTS w1, w2

-----------------------------------------------------------------------------
(* The import: decode rates and first-token times around the thresholds.     *)

NoValue == [m \in SerialMetrics |-> Absent]
Rates(decode, ttft) ==
    [m \in SerialMetrics |-> CASE m = "decode_tokens_per_s" -> decode
                               [] m = "ttft_s" -> ttft
                               [] OTHER -> Absent]
Row(finish, tokens, values) ==
    [finish |-> finish, tokens |-> tokens, plain |-> NoValue, middle |-> values]
Known(plain, middle, rows) == [form |-> "known", plain |-> plain, middle |-> middle, rows |-> rows]
Block(decode, ttft) == Known(NoValue, Rates(decode, ttft), <<Row("length", 8, NoValue)>>)
OfForm(form) == [Block(10, 10) EXCEPT !.form = form]

MCDocOf ==
    [d \in {"base", "zero", "blank", "faster", "same", "late", "stopped", "longer", "rows",
            "plain", "unknown", "nonfinite", "undecodable", "word"} |->
       CASE d = "base"    -> Block(10, 10)
         [] d = "zero"    -> Block(0, 0)
         [] d = "blank"   -> Block(10, Absent)
         [] d = "faster"  -> Block(12, 10)
         [] d = "same"    -> Block(11, 9)
         [] d = "late"    -> Block(12, 12)
         [] d = "stopped" -> Known(NoValue, Rates(12, 10), <<Row("stop", 8, NoValue)>>)
         [] d = "longer"  -> Known(NoValue, Rates(12, 10), <<Row("length", 9, NoValue)>>)
         [] d = "rows"    -> Known(NoValue, NoValue, <<Row("length", 8, Rates(10, 10)),
                                                        Row("length", 8, Rates(15, 12))>>)
         [] d = "plain"   -> Known(Rates(12, 10), Rates(0, Absent), <<Row("length", 8, NoValue)>>)
         [] OTHER         -> OfForm(d)]

MCContents ==
    [f \in Files |->
       CASE f = "baseline"    -> {"base", "zero", "unknown"}
         [] f = "candidate"   -> DOMAIN MCDocOf \ {"zero", "word", "unknown"}
         [] f = "attestation" -> {"word", "undecodable"}]

Policy(primary, least, gates) == [primary |-> primary, least |-> least, most |-> 10, gates |-> gates]
AllGates == {"request_success", "quality"}
MCPolicies ==
    {Policy("decode_tokens_per_s", 20, AllGates), Policy("decode_tokens_per_s", 0, {"request_success"}),
     Policy("ttft_s", 0, {"quality"}), Policy("ttft_s", 20, {"request_success"}),
     [Policy("decode_tokens_per_s", NaN, {"request_success"}) EXCEPT !.most = NaN]}

-----------------------------------------------------------------------------
(* The replays.                                                              *)

Answer(decode, ttft) ==
    [status |-> "success", accepted |-> TRUE, usage |-> TRUE, tools |-> "none", quality |-> 95,
     ttft_s |-> ttft, decode_tokens_per_s |-> decode]
MCAnswers ==
    {Answer(20, 10), Answer(18, 11), Answer(22, 12), Answer(9, 0),
     [Answer(20, 10) EXCEPT !.usage = FALSE],
     [Answer(20, 10) EXCEPT !.tools = "error"],
     [Answer(20, 10) EXCEPT !.tools = "skipped", !.quality = -1],
     [Answer(20, 10) EXCEPT !.quality = 80],
     [Answer(20, Unmeasured) EXCEPT !.tools = "ok"],
     [Answer(20, 10) EXCEPT !.status = "error"],
     [Answer(20, 10) EXCEPT !.accepted = FALSE]}

-----------------------------------------------------------------------------
(* The planners, over small inputs.                                          *)

Directions == [{"x", "y"} -> {P!Lower, P!Higher}]
Trials == [{"x", "y"} -> {P!Unmeasurable, 0, 1}]
NoLimits == [m \in {} |-> [least |-> 0, most |-> 0]]
Limits == {NoLimits, [m \in {"x"} |-> [least |-> 1, most |-> 1]]}

\* A feasible trial is outside the frontier only when a trial of the frontier
\* dominates it, no trial of the frontier dominates another, and there is a
\* frontier as soon as a trial is feasible.  A trial wins exactly when it dominates
\* every other feasible one, so of two equal trials none does (pareto.py 125-179).
ASSUME FrontierIsRight ==
    \A direction \in Directions, bounds \in Limits, trials \in [1..3 -> Trials] :
      LET frontier == P!Frontier(direction, trials, bounds)
          feasible == {t \in 1..3 : P!Feasible(trials[t], bounds)}
          over(a, b) == P!Dominates(direction, trials[a], trials[b])
          winner == P!Winner(direction, trials, bounds)
      IN  /\ \A t \in feasible \ frontier : \E f \in frontier : over(f, t)
          /\ \A f, g \in frontier : ~over(f, g)
          /\ winner = "NO_FEASIBLE_TRIALS" <=> feasible = {}
          /\ winner = "SINGLE_WINNER"
               <=> \E t \in feasible : \A u \in feasible \ {t} : over(t, u)

\* The plan says NO_FIT exactly when the weights, the reserve and the caches of
\* the requests asked for do not fit, and FIT when they use less than 0.8500005
\* of the memory: the utilization is rounded to millionths before it is compared
\* with 0.85.  A reserve over the memory is an error (capacity.py 139-206).
ASSUME CapacityIsRight ==
    \A memory, reserve, request \in 1..12, weights \in {3, 8}, target \in 1..4 :
      LET load == P!Load(weights, reserve, request, target)
          class == P!Classification(weights, reserve, request, memory, target)
      IN  /\ class = "INVALID" <=> reserve > memory
          /\ class = "NO_FIT" <=> reserve <= memory /\ load > memory
          /\ class = "FIT" <=> 2000000 * load < 1700001 * memory

\* Each trial of a sweep differs from the baseline in one parameter, and there
\* are as many as there may be (sweep.py 122-187).
ASSUME SweepIsRight ==
    \A baseline \in [{"x", "y"} -> 1..2], rx, ry \in SUBSET (1..3) \ {{}}, most \in 1..5 :
      LET ranges == [p \in {"x", "y"} |-> IF p = "x" THEN rx ELSE ry]
          points == P!SweepPoints(baseline, ranges)
      IN  \A plan \in P!SweepPlans(baseline, ranges, most) :
            /\ \A t \in plan : Cardinality({p \in {"x", "y"} : t[p] # baseline[p]}) = 1
            /\ plan = points \/ Cardinality(plan) = most

\* A candidate is promoted over a baseline exactly when both were measured under
\* one context, every gated metric has a number in both, and the change in the
\* good direction meets each bound that is set: a negative bound, as the one of the
\* quality gate here, lets a regression pass (compare.py 144-228).
ASSUME ComparisonIsRight ==
    \A dx, dy \in {P!Lower, P!Higher}, bx, cx, by, cy \in {P!NotThere, P!Unmeasurable, 0, 10, 12},
       other \in {"k", "l"} :
      LET direction == [m \in {"x", "y"} |-> IF m = "x" THEN dx ELSE dy]
          gates == {[metric |-> "x", relative |-> 20, absolute |-> P!NoBound]}
          quality == {[metric |-> "y", relative |-> P!NoBound, absolute |-> -2]}
          summary(context, x, y) ==
            [context |-> context, values |-> [m \in {"x", "y"} |-> IF m = "x" THEN x ELSE y]]
          gain(d, b, c) == IF d = P!Lower THEN b - c ELSE c - b
      IN  P!CompareSummaries(direction, summary("k", bx, by), summary(other, cx, cy), gates, quality)
              = "PROMOTE"
          <=> /\ other = "k" /\ bx > 0 /\ {cx, by, cy} \subseteq Nat
              /\ 100 * gain(dx, bx, cx) >= 20 * bx
              /\ gain(dy, by, cy) >= -2

=============================================================================
