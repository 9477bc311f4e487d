--------------------------- MODULE ABExperiment_proofs ---------------------------
(***************************************************************************)
(* A sealed run is complete, its group was sent together, the arms never   *)
(* load the endpoint at once, and the decision drawn from the runs is      *)
(* earned and verifies, for any plan, any replies, any number of trials    *)
(* and any threshold.  The inductive invariant has three parts.            *)
(*   RunInv     where the requests of each kind stand at each phase, and   *)
(*              that a thread of the group is busy only inside its pool;   *)
(*              nobody is past the barrier while somebody has not come;    *)
(*   Measuring  what the run has for its artifact at each phase;           *)
(*   Underway   how many runs each arm has, all in one context.            *)
(* The decision also needs what streams, groups and resamples add up to,   *)
(* which is shown by induction over their lengths.                         *)
(***************************************************************************)
EXTENDS ABExperiment, SequenceTheorems, WellFoundedInduction, TLAPS

Replied == UNION {Measurements[k] : k \in Kinds}
Outcomes == Replied \cup {NoAnswer}

\* The phases of a run in their order.
Rank(ph) ==
    CASE ph = "preflight"          -> 0
      [] ph = "warmup"             -> 1
      [] ph = "serial_fresh"       -> 2
      [] ph = "serial_edit"        -> 3
      [] ph = "concurrency"        -> 4
      [] ph = "quality_arithmetic" -> 5
      [] ph = "quality_tool_call"  -> 6
      [] ph = "probe"              -> 7
      [] ph = "sealed"             -> 8

Active == Kinds \cup {"preflight", "probe"}
Phases == Active \cup {"idle", "sealed", "failed"}
Inside == {"submit", "collect", "close"}
PoolStates == Inside \cup {"none", "closed"}
WorkerStates == {"none", "started", "waiting", "sending", "broken", "done"}
ExpStates == {"next", "running", "context_changed", "runner_failed", "sealed", "refused"}

RunTypes ==
    /\ phase \in Phases
    /\ outcomes \in [Kinds -> Seq(Outcomes)]
    /\ pool \in [pc: PoolStates, next: Workers, raised: BOOLEAN, broken: BOOLEAN]
    /\ worker \in [Workers -> WorkerStates]
    /\ answers \in [Workers -> Outcomes]
    /\ exp \in [pc: ExpStates, trial: Nat, run: {1, 2}]

\* The requests of the kinds before this phase are made, those after it are not.
Progress ==
    phase \in Active \cup {"sealed"} =>
      \A k \in Kinds :
        /\ Rank(k) < Rank(phase) => Len(outcomes[k]) = Plan[k]
        /\ k = phase => Len(outcomes[k]) < Plan[k]
        /\ Rank(k) > Rank(phase) => Len(outcomes[k]) = 0

PoolInPhase ==
    /\ phase \in Active => exp.pc = "running"
    /\ pool.pc \in Inside => phase = "concurrency"
    /\ phase \in {"preflight", "warmup", "serial_fresh", "serial_edit"} => pool.pc = "none"
    /\ phase = "concurrency" => pool.pc # "closed"

PastBarrier == {"sending", "done"}

Threads ==
    /\ pool.pc \notin Inside => \A w \in Workers : worker[w] \notin Busy
    /\ pool.pc = "none" => \A w \in Workers : worker[w] = "none"
    /\ pool.pc = "submit" => \A w \in Workers : w >= pool.next => worker[w] = "none"
    /\ (\E w \in Workers : worker[w] \in PastBarrier) => \A w \in Workers : worker[w] \in PastBarrier

RunInv == RunTypes /\ Progress /\ PoolInPhase /\ Threads

-----------------------------------------------------------------------------

LEMMA PlanFacts ==
    /\ \A k \in Kinds : Plan[k] \in Nat /\ Plan[k] > 0
    /\ 1 \in Workers /\ Workers \subseteq Nat /\ Workers = 1..Plan["concurrency"]
BY PlanAssumption DEF Workers, Kinds

LEMMA NoAnswerIsOutcome == NoAnswer \in Outcomes
BY DEF Outcomes

LEMMA KindFacts ==
    /\ Kinds = {"warmup", "serial_fresh", "serial_edit", "concurrency",
                "quality_arithmetic", "quality_tool_call"}
    /\ SerialKinds = Kinds \ {"concurrency"}
BY DEF Kinds, SerialKinds

LEMMA RankFacts ==
    /\ Rank("preflight") = 0 /\ Rank("probe") = 7 /\ Rank("sealed") = 8
    /\ Rank("warmup") = 1 /\ Rank("serial_fresh") = 2 /\ Rank("serial_edit") = 3
    /\ Rank("concurrency") = 4 /\ Rank("quality_arithmetic") = 5
    /\ Rank("quality_tool_call") = 6
BY DEF Rank

\* A kind is followed by the next phase.
LEMMA FollowingFacts ==
    ASSUME NEW k \in Kinds
    PROVE  /\ Following(k) \in Active /\ Following(k) # "preflight"
           /\ Rank(k) \in Nat /\ Rank(Following(k)) = Rank(k) + 1
           /\ \A j \in Kinds : Rank(j) \in Nat /\ (Rank(j) = Rank(k) => j = k)
<1>1. \A j \in Kinds : Rank(j) \in Nat /\ (Rank(j) = Rank(k) => j = k)
    BY KindFacts, RankFacts
<1>2. Following(k) \in {"serial_fresh", "serial_edit", "concurrency", "quality_arithmetic",
                        "quality_tool_call", "probe"}
      /\ Rank(Following(k)) = Rank(k) + 1
    BY KindFacts, RankFacts DEF Following
<1> QED BY <1>1, <1>2, KindFacts DEF Active

\* The phase moves on once the requests of its kind are made.
LEMMA MovesOn ==
    ASSUME NEW k \in Kinds, phase = k, Progress, RunTypes,
           phase' = Following(k), outcomes' \in [Kinds -> Seq(Outcomes)],
           Len(outcomes'[k]) = Plan[k],
           \A j \in Kinds \ {k} : outcomes'[j] = outcomes[j]
    PROVE  Progress'
<1>1. /\ Rank(phase') = Rank(k) + 1 /\ Rank(k) \in Nat
      /\ \A j \in Kinds : Rank(j) \in Nat /\ (Rank(j) = Rank(k) => j = k)
    BY FollowingFacts
<1>2. k \in Active
    BY DEF Active
<1>3. ASSUME NEW j \in Kinds
      PROVE  /\ Rank(j) < Rank(phase') => Len(outcomes'[j]) = Plan[j]
             /\ j = phase' => Len(outcomes'[j]) < Plan[j]
             /\ Rank(j) > Rank(phase') => Len(outcomes'[j]) = 0
    <2>1. CASE j = k
        BY <1>1, <2>1
    <2>2. CASE j # k
        <3>1. outcomes'[j] = outcomes[j] /\ Rank(j) # Rank(k)
            BY <1>1, <2>2
        <3>2. Rank(j) < Rank(phase') => Rank(j) < Rank(k)
            BY <1>1, <3>1
        <3>3. j = phase' \/ Rank(j) > Rank(phase') => Rank(j) > Rank(k)
            BY <1>1
        <3>4. /\ Rank(j) < Rank(k) => Len(outcomes[j]) = Plan[j]
              /\ Rank(j) > Rank(k) => Len(outcomes[j]) = 0
            BY <1>2 DEF Progress
        <3>5. Plan[j] > 0
            BY PlanFacts
        <3> QED BY <3>1, <3>2, <3>3, <3>4, <3>5
    <2> QED BY <2>1, <2>2
<1> QED BY <1>3 DEF Progress

-----------------------------------------------------------------------------
(* The steps of a run.                                                     *)

LEMMA RunInvInit == Init => RunInv
<1> SUFFICES ASSUME Init PROVE RunInv
    OBVIOUS
<1>1. RunTypes
    <2>1. phase \in Phases /\ exp \in [pc: ExpStates, trial: Nat, run: {1, 2}]
        BY DEF Init, RunInit, Phases, ExpStates
    <2>2. outcomes \in [Kinds -> Seq(Outcomes)]
        BY DEF Init, RunInit
    <2>3. pool \in [pc: PoolStates, next: Workers, raised: BOOLEAN, broken: BOOLEAN]
        <3>1. pool = [pc |-> "none", next |-> 1, raised |-> FALSE, broken |-> FALSE]
            BY DEF Init, RunInit, NoPool
        <3>2. "none" \in PoolStates /\ 1 \in Workers
            BY PlanFacts DEF PoolStates
        <3> QED BY <3>1, <3>2
    <2>4. worker \in [Workers -> WorkerStates] /\ answers \in [Workers -> Outcomes]
        BY NoAnswerIsOutcome DEF Init, RunInit, WorkerStates
    <2> QED BY <2>1, <2>2, <2>3, <2>4 DEF RunTypes
<1>2. Progress /\ PoolInPhase
    BY KindFacts DEF Init, RunInit, NoPool, Progress, PoolInPhase, Active, Inside
<1>3. Threads
    BY DEF Init, RunInit, NoPool, Threads, Busy, PastBarrier, Inside
<1> QED BY <1>1, <1>2, <1>3 DEF RunInv

\* Steps of the pool and its threads move neither the phase nor the outcomes.
LEMMA InsideFrame ==
    ASSUME RunInv, UNCHANGED <<phase, outcomes, exp>>, phase = "concurrency",
           pool' \in [pc: PoolStates, next: Workers, raised: BOOLEAN, broken: BOOLEAN],
           pool'.pc \in Inside, worker' \in [Workers -> WorkerStates],
           answers' \in [Workers -> Outcomes], Threads'
    PROVE  RunInv'
<1>1. RunTypes'
    BY DEF RunInv, RunTypes
<1>2. Progress'
    BY DEF RunInv, Progress
<1>3. PoolInPhase'
    BY DEF RunInv, PoolInPhase, Inside
<1> QED BY <1>1, <1>2, <1>3 DEF RunInv

\* The next thread to be started has not been.
LEMMA NextIsNone ==
    ASSUME RunInv, pool.pc = "submit"
    PROVE  pool.next \in Workers /\ pool.next \in Nat /\ worker[pool.next] = "none"
<1>1. pool.next \in Workers /\ pool.next \in Nat
    BY PlanFacts DEF RunInv, RunTypes
<1>2. pool.next >= pool.next
    BY <1>1
<1> QED BY <1>1, <1>2 DEF RunInv, Threads

\* A busy thread has a pool around it.
LEMMA BusyInside ==
    ASSUME RunInv, NEW w \in Workers, worker[w] \in Busy
    PROVE  pool.pc \in Inside /\ phase = "concurrency"
BY DEF RunInv, Threads, PoolInPhase

LEMMA PoolSteps ==
    ASSUME RunInv, UNCHANGED exp, OpenPool \/ Submit \/ SubmitFails \/ Collect \/ ResultTimesOut
    PROVE  RunInv'
<1>0. /\ pool \in [pc: PoolStates, next: Workers, raised: BOOLEAN, broken: BOOLEAN]
      /\ worker \in [Workers -> WorkerStates] /\ answers \in [Workers -> Outcomes]
      /\ Workers \subseteq Nat /\ 1 \in Workers
    BY PlanFacts DEF RunInv, RunTypes
<1>t. Threads
    BY DEF RunInv
<1>1. CASE OpenPool
    <2>1. /\ phase = "concurrency" /\ pool.pc = "none"
          /\ pool' = [pc |-> "submit", next |-> 1, raised |-> FALSE, broken |-> FALSE]
          /\ UNCHANGED <<phase, outcomes, worker, answers>>
        BY <1>1 DEF OpenPool, NoPool
    <2>2. Threads'
        BY <1>t, <2>1 DEF Threads, Inside
    <2>3. pool' \in [pc: PoolStates, next: Workers, raised: BOOLEAN, broken: BOOLEAN]
        BY <1>0, <2>1 DEF PoolStates, Inside
    <2> QED BY <1>0, <2>1, <2>2, <2>3, InsideFrame DEF Inside
<1>2. CASE Submit
    <2>1. /\ pool.pc = "submit" /\ worker' = [worker EXCEPT ![pool.next] = "started"]
          /\ UNCHANGED <<phase, outcomes, answers>>
        BY <1>2 DEF Submit
    <2>2. phase = "concurrency"
        BY <2>1 DEF RunInv, PoolInPhase, Inside
    <2>3. /\ pool' \in [pc: PoolStates, next: Workers, raised: BOOLEAN, broken: BOOLEAN]
          /\ \/ pool'.pc = "submit" /\ pool'.next = pool.next + 1
             \/ pool'.pc = "collect"
        <3>1. CASE pool.next \in Workers /\ pool.next + 1 \in Workers
            <4>1. pool' = [pool EXCEPT !.next = pool.next + 1]
                BY <1>2, <3>1 DEF Submit
            <4> QED BY <1>0, <2>1, <3>1, <4>1
        <3>2. CASE ~(pool.next \in Workers /\ pool.next + 1 \in Workers)
            <4>1. pool' = [pool EXCEPT !.pc = "collect", !.next = 1]
                BY <1>2, <3>2 DEF Submit
            <4> QED BY <1>0, <4>1 DEF PoolStates, Inside
        <3> QED BY <3>1, <3>2
    <2>4. worker[pool.next] = "none" /\ pool.next \in Workers
        BY <2>1, NextIsNone
    <2>5. \A w \in Workers : worker[w] \notin PastBarrier
        BY <1>t, <2>4 DEF Threads, PastBarrier
    <2>6. \A w \in Workers : worker'[w] = IF w = pool.next THEN "started" ELSE worker[w]
        BY <1>0, <2>1
    <2>7. \A w \in Workers : worker'[w] \notin PastBarrier
        BY <2>5, <2>6 DEF PastBarrier
    <2>8. pool'.pc = "submit" => \A w \in Workers : w >= pool'.next => worker'[w] = "none"
        <3> SUFFICES ASSUME pool'.pc = "submit", NEW w \in Workers, w >= pool'.next
                     PROVE  worker'[w] = "none"
            OBVIOUS
        <3>1. pool'.next = pool.next + 1 /\ pool.next \in Nat /\ w \in Nat
            BY <1>0, <2>1, <2>3, NextIsNone
        <3>2. w >= pool.next /\ w # pool.next
            BY <3>1
        <3> QED BY <1>t, <2>1, <2>6, <3>2 DEF Threads
    <2>9. Threads'
        BY <2>3, <2>7, <2>8 DEF Threads, Inside
    <2>10. worker' \in [Workers -> WorkerStates]
        BY <1>0, <2>1 DEF WorkerStates
    <2> QED BY <1>0, <2>1, <2>2, <2>3, <2>9, <2>10, InsideFrame DEF Inside
<1>3. ASSUME pool.pc \in Inside, Leave, UNCHANGED <<phase, outcomes, worker, answers>>
      PROVE  RunInv'
    <2>1. phase = "concurrency"
        BY <1>3 DEF RunInv, PoolInPhase
    <2>2. /\ pool'.pc = "close"
          /\ pool' \in [pc: PoolStates, next: Workers, raised: BOOLEAN, broken: BOOLEAN]
        BY <1>0, <1>3 DEF Leave, PoolStates, Inside
    <2>3. Threads'
        BY <1>t, <1>3, <2>2 DEF Threads, Inside
    <2> QED BY <1>0, <1>3, <2>1, <2>2, <2>3, InsideFrame DEF Inside
<1>4. CASE SubmitFails
    BY <1>3, <1>4 DEF SubmitFails, Inside
<1>5. CASE ResultTimesOut
    BY <1>3, <1>5 DEF ResultTimesOut, Inside
<1>6. CASE Collect
    <2>1. pool.pc = "collect" /\ UNCHANGED <<phase, outcomes, worker, answers>>
        BY <1>6 DEF Collect
    <2>2. CASE Leave
        BY <1>3, <2>1, <2>2 DEF Inside
    <2>3. CASE ~Leave
        <3>1. /\ pool'.pc \in {"collect", "close"}
              /\ pool' \in [pc: PoolStates, next: Workers, raised: BOOLEAN, broken: BOOLEAN]
            <4>1. pool' = IF pool.next + 1 \in Workers THEN [pool EXCEPT !.next = pool.next + 1]
                          ELSE [pool EXCEPT !.pc = "close"]
                BY <1>6, <2>3 DEF Collect
            <4>2. CASE pool.next + 1 \in Workers
                BY <1>0, <2>1, <4>1, <4>2
            <4>3. CASE pool.next + 1 \notin Workers
                BY <1>0, <4>1, <4>3 DEF PoolStates, Inside
            <4> QED BY <4>2, <4>3
        <3>2. phase = "concurrency"
            BY <2>1 DEF RunInv, PoolInPhase, Inside
        <3>3. Threads'
            BY <1>t, <2>1, <3>1 DEF Threads, Inside
        <3> QED BY <1>0, <2>1, <3>1, <3>2, <3>3, InsideFrame DEF Inside
    <2> QED BY <2>2, <2>3
<1> QED BY <1>1, <1>2, <1>4, <1>5, <1>6

LEMMA ThreadSteps ==
    ASSUME RunInv, UNCHANGED exp, WorkerStep \/ BarrierTimesOut
    PROVE  RunInv'
<1>0. /\ pool \in [pc: PoolStates, next: Workers, raised: BOOLEAN, broken: BOOLEAN]
      /\ worker \in [Workers -> WorkerStates] /\ answers \in [Workers -> Outcomes]
      /\ Workers \subseteq Nat
    BY PlanFacts DEF RunInv, RunTypes
<1>t. Threads
    BY DEF RunInv
<1>1. ASSUME NEW w \in Workers, Arrive(w) PROVE RunInv'
    <2>1. worker[w] = "started" /\ UNCHANGED <<phase, outcomes, pool, answers>>
        BY <1>1 DEF Arrive
    <2>2. pool.pc \in Inside /\ phase = "concurrency"
        BY <2>1, BusyInside DEF Busy
    <2>3. \A v \in Workers : worker[v] \notin PastBarrier
        BY <1>t, <2>1 DEF Threads, PastBarrier
    <2>4. CASE ~pool.broken /\ \A v \in Workers \ {w} : worker[v] = "waiting"
        <3>1. worker' = [v \in Workers |-> "sending"]
            BY <1>1, <2>4 DEF Arrive
        <3>2. \A v \in Workers : worker[v] # "none"
            BY <2>1, <2>4
        <3>3. pool.pc # "submit"
            BY <3>2, NextIsNone
        <3>4. Threads'
            BY <2>1, <2>2, <3>1, <3>3 DEF Threads, PastBarrier, Inside
        <3>5. worker' \in [Workers -> WorkerStates]
            BY <3>1 DEF WorkerStates
        <3> QED BY <1>0, <2>1, <2>2, <3>4, <3>5, InsideFrame
    <2>5. CASE ~(~pool.broken /\ \A v \in Workers \ {w} : worker[v] = "waiting")
        <3>1. PICK new \in {"broken", "waiting"} : worker' = [worker EXCEPT ![w] = new]
            BY <1>1, <2>5 DEF Arrive
        <3>2. \A v \in Workers : worker'[v] = IF v = w THEN new ELSE worker[v]
            BY <1>0, <3>1
        <3>3. \A v \in Workers : worker'[v] \notin PastBarrier
            BY <2>3, <3>2 DEF PastBarrier
        <3>4. pool.pc = "submit" => \A v \in Workers : v >= pool.next => worker'[v] = "none"
            BY <1>t, <2>1, <3>2 DEF Threads
        <3>5. Threads'
            BY <2>1, <2>2, <3>3, <3>4 DEF Threads, Inside
        <3>6. worker' \in [Workers -> WorkerStates]
            BY <1>0, <3>1 DEF WorkerStates
        <3> QED BY <1>0, <2>1, <2>2, <3>5, <3>6, InsideFrame
    <2> QED BY <2>4, <2>5
<1>2. ASSUME NEW w \in Workers, Answered(w) PROVE RunInv'
    <2>1. /\ worker[w] = "sending" /\ UNCHANGED <<phase, outcomes, pool>>
          /\ worker' = [worker EXCEPT ![w] = "done"]
        BY <1>2 DEF Answered
    <2>2. pool.pc \in Inside /\ phase = "concurrency"
        BY <2>1, BusyInside DEF Busy
    <2>3. answers' \in [Workers -> Outcomes]
        <3>1. PICK m \in Measurements["concurrency"] : answers' = [answers EXCEPT ![w] = m]
            BY <1>2 DEF Answered
        <3>2. m \in Outcomes
            BY KindFacts DEF Outcomes, Replied
        <3> QED BY <1>0, <3>1, <3>2
    <2>4. \A v \in Workers : worker'[v] = IF v = w THEN "done" ELSE worker[v]
        BY <1>0, <2>1
    <2>5. \A v \in Workers : worker[v] \in PastBarrier /\ worker'[v] \in PastBarrier
        BY <1>t, <2>1, <2>4 DEF Threads, PastBarrier
    <2>6. pool.pc # "submit"
        BY <2>5, NextIsNone DEF PastBarrier
    <2>7. Threads'
        BY <2>1, <2>2, <2>5, <2>6 DEF Threads, Inside
    <2>8. worker' \in [Workers -> WorkerStates]
        BY <1>0, <2>1 DEF WorkerStates
    <2> QED BY <1>0, <2>1, <2>2, <2>3, <2>7, <2>8, InsideFrame
<1>3. CASE BarrierTimesOut
    <2>1. PICK w \in Workers : worker[w] = "waiting"
        BY <1>3 DEF BarrierTimesOut
    <2>2. /\ worker' = [v \in Workers |-> IF worker[v] = "waiting" THEN "broken" ELSE worker[v]]
          /\ pool' = [pool EXCEPT !.broken = TRUE] /\ UNCHANGED <<phase, outcomes, answers>>
        BY <1>3 DEF BarrierTimesOut
    <2>3. pool.pc \in Inside /\ phase = "concurrency"
        BY <2>1, BusyInside DEF Busy
    <2>4. \A v \in Workers : worker[v] \notin PastBarrier
        BY <1>t, <2>1 DEF Threads, PastBarrier
    <2>5. \A v \in Workers : worker'[v] \notin PastBarrier
        BY <2>2, <2>4 DEF PastBarrier
    <2>6. /\ pool'.pc = pool.pc /\ pool'.next = pool.next
          /\ pool' \in [pc: PoolStates, next: Workers, raised: BOOLEAN, broken: BOOLEAN]
        BY <1>0, <2>2
    <2>7. pool.pc = "submit" => \A v \in Workers : v >= pool.next => worker'[v] = "none"
        BY <1>t, <2>2 DEF Threads
    <2>8. Threads'
        BY <2>3, <2>5, <2>6, <2>7 DEF Threads, Inside
    <2>9. worker' \in [Workers -> WorkerStates]
        BY <1>0, <2>2 DEF WorkerStates
    <2> QED BY <1>0, <2>2, <2>3, <2>6, <2>8, <2>9, InsideFrame
<1> QED BY <1>1, <1>2, <1>3 DEF WorkerStep

-----------------------------------------------------------------------------
(* The steps of the main thread outside the pool, and of the experiment.   *)

\* Outside the pool no thread is busy, and a step there moves none.
LEMMA OutsideFrame ==
    ASSUME RunInv, UNCHANGED <<pool, worker, answers>>, pool.pc \notin Inside,
           phase' \in Phases, outcomes' \in [Kinds -> Seq(Outcomes)],
           exp' \in [pc: ExpStates, trial: Nat, run: {1, 2}], Progress',
           phase' \in Active => exp'.pc = "running",
           phase' \in {"preflight", "warmup", "serial_fresh", "serial_edit"} => pool.pc = "none",
           phase' = "concurrency" => pool.pc # "closed"
    PROVE  RunInv'
<1>1. RunTypes'
    BY DEF RunInv, RunTypes
<1>2. PoolInPhase'
    BY DEF PoolInPhase
<1>3. Threads'
    BY DEF RunInv, Threads
<1> QED BY <1>1, <1>2, <1>3 DEF RunInv

LEMMA MainSteps ==
    ASSUME RunInv, UNCHANGED exp, exp.pc = "running", NEW names,
           Preflight(names) \/ SerialRequest \/ ProbeAndSeal
    PROVE  RunInv'
<1>0. /\ outcomes \in [Kinds -> Seq(Outcomes)] /\ exp \in [pc: ExpStates, trial: Nat, run: {1, 2}]
      /\ pool.pc \in Inside => phase = "concurrency"
      /\ phase \in {"preflight", "warmup", "serial_fresh", "serial_edit"} => pool.pc = "none"
    BY DEF RunInv, RunTypes, PoolInPhase
<1>1. CASE Preflight(names)
    <2>1. /\ phase = "preflight" /\ phase' \in {"warmup", "failed"}
          /\ UNCHANGED <<outcomes, pool, worker, answers>>
        BY <1>1 DEF Preflight
    <2>2. \A k \in Kinds : Rank(k) > 0 /\ (Rank(k) > 1 \/ k = "warmup") /\ Rank(k) \in Nat
        BY KindFacts, RankFacts
    <2>3. \A k \in Kinds : Len(outcomes[k]) = 0
        BY <2>1, <2>2, RankFacts DEF RunInv, Progress, Active
    <2>4. Progress'
        BY <2>1, <2>2, <2>3, PlanFacts, RankFacts, KindFacts, SMTT(20) DEF Progress, Active
    <2> QED BY <1>0, <2>1, <2>4, OutsideFrame, KindFacts DEF Phases, Active, Inside
<1>2. CASE SerialRequest
    <2>1. phase \in SerialKinds /\ UNCHANGED <<pool, worker, answers>>
        BY <1>2 DEF SerialRequest
    <2>2. phase \in Kinds \ {"concurrency"}
        BY <2>1, KindFacts
    <2>3. PICK m \in Measurements[phase] : outcomes' = [outcomes EXCEPT ![phase] = Append(outcomes[phase], m)]
        BY <1>2 DEF SerialRequest
    <2>4. m \in Outcomes
        BY <2>2 DEF Outcomes, Replied
    <2> DEFINE longer == Append(outcomes[phase], m)
    <2>5. longer \in Seq(Outcomes) /\ Len(longer) = Len(outcomes[phase]) + 1
        BY <1>0, <2>2, <2>4, AppendProperties
    <2>6. outcomes' = [outcomes EXCEPT ![phase] = longer]
        BY <2>3
    <2> HIDE DEF longer
    <2>7. /\ outcomes' \in [Kinds -> Seq(Outcomes)] /\ outcomes'[phase] = longer
          /\ \A k \in Kinds \ {phase} : outcomes'[k] = outcomes[k]
        BY <1>0, <2>2, <2>5, <2>6
    <2>8. Len(outcomes[phase]) < Plan[phase] /\ Len(outcomes[phase]) \in Nat /\ Plan[phase] \in Nat
        BY <1>0, <2>2, PlanFacts DEF RunInv, Progress, Active
    <2>9. pool.pc \notin Inside
        BY <1>0, <2>2
    <2>10. CASE Len(outcomes[phase]) + 1 < Plan[phase]
        <3>1. phase' = phase
            BY <1>2, <2>10 DEF SerialRequest
        <3>2. \A k \in Kinds : Rank(k) = Rank(phase) => k = phase
            BY <2>2, FollowingFacts
        <3>3. Progress'
            <4> SUFFICES ASSUME NEW k \in Kinds
                         PROVE  /\ Rank(k) < Rank(phase) => Len(outcomes'[k]) = Plan[k]
                                /\ k = phase => Len(outcomes'[k]) < Plan[k]
                                /\ Rank(k) > Rank(phase) => Len(outcomes'[k]) = 0
                BY <3>1 DEF Progress
            <4>1. CASE k = phase
                <5>1. Rank(phase) \in Nat
                    BY <2>2, FollowingFacts
                <5> QED BY <2>5, <2>7, <2>10, <4>1, <5>1
            <4>2. CASE k # phase
                BY <2>2, <2>7, <4>2 DEF RunInv, Progress, Active
            <4> QED BY <4>1, <4>2
        <3> QED BY <1>0, <2>1, <2>2, <2>7, <2>9, <3>1, <3>3, OutsideFrame DEF Phases, Active
    <2>11. CASE ~(Len(outcomes[phase]) + 1 < Plan[phase])
        <3>1. phase' = Following(phase)
            BY <1>2, <2>11 DEF SerialRequest
        <3>2. Len(outcomes'[phase]) = Plan[phase]
            BY <2>5, <2>7, <2>8, <2>11
        <3>3. Progress'
            BY <2>2, <2>7, <3>1, <3>2, MovesOn DEF RunInv
        <3>4. /\ phase' \in Active
              /\ phase' \in {"preflight", "warmup", "serial_fresh", "serial_edit", "concurrency"} =>
                   phase \in {"warmup", "serial_fresh", "serial_edit"}
            BY <2>2, <3>1, KindFacts DEF Following, Active
        <3> QED BY <1>0, <2>1, <2>7, <2>9, <3>3, <3>4, OutsideFrame DEF Phases
    <2> QED BY <2>10, <2>11
<1>3. CASE ProbeAndSeal
    <2>1. phase = "probe" /\ phase' = "sealed" /\ UNCHANGED <<outcomes, pool, worker, answers>>
        BY <1>3 DEF ProbeAndSeal
    <2>2. \A k \in Kinds : Rank(k) < 7 /\ Rank(k) \in Nat
        BY KindFacts, RankFacts
    <2>3. \A k \in Kinds : Len(outcomes[k]) = Plan[k]
        BY <2>1, <2>2, RankFacts DEF RunInv, Progress, Active
    <2>4. "sealed" \notin Active
        BY KindFacts DEF Active
    <2>5. Progress'
        BY <2>1, <2>2, <2>3, <2>4, RankFacts, KindFacts, SMTT(20) DEF Progress
    <2> QED BY <1>0, <2>1, <2>4, <2>5, OutsideFrame DEF Phases
<1> QED BY <1>1, <1>2, <1>3

\* The pool closes: its answers are the outcomes, or the run fails.
LEMMA CloseKeeps ==
    ASSUME RunInv, UNCHANGED exp, ClosePool
    PROVE  RunInv'
<1>0. /\ outcomes \in [Kinds -> Seq(Outcomes)] /\ answers \in [Workers -> Outcomes]
      /\ pool \in [pc: PoolStates, next: Workers, raised: BOOLEAN, broken: BOOLEAN]
    BY DEF RunInv, RunTypes
<1>1. /\ pool.pc = "close" /\ pool' = [pool EXCEPT !.pc = "closed"]
      /\ \A w \in Workers : worker[w] \notin Busy
      /\ UNCHANGED <<worker, answers>>
    BY DEF ClosePool, PoolIdle
<1>2. phase = "concurrency" /\ exp.pc = "running"
    BY <1>1, KindFacts DEF RunInv, PoolInPhase, Inside, Active
<1>3. /\ pool'.pc = "closed"
      /\ pool' \in [pc: PoolStates, next: Workers, raised: BOOLEAN, broken: BOOLEAN]
    BY <1>0, <1>1 DEF PoolStates
<1>4. Threads'
    BY <1>1, <1>3 DEF RunInv, Threads, Inside
<1>5. CASE phase' = "failed" /\ UNCHANGED outcomes
    <2>1. "failed" \notin Active \cup {"sealed"}
        BY KindFacts DEF Active
    <2>2. Progress' /\ PoolInPhase'
        BY <1>3, <1>5, <2>1 DEF Progress, PoolInPhase, Inside
    <2>3. RunTypes'
        BY <1>1, <1>3, <1>5 DEF RunInv, RunTypes, Phases
    <2> QED BY <1>4, <2>2, <2>3 DEF RunInv
<1>6. CASE /\ phase' = Following("concurrency")
           /\ outcomes' = [outcomes EXCEPT !["concurrency"] = [w \in Workers |-> answers[w]]]
    <2> DEFINE all == [w \in Workers |-> answers[w]]
    <2>1. all \in Seq(Outcomes) /\ Len(all) = Plan["concurrency"]
        <3>1. all \in [1..Plan["concurrency"] -> Outcomes] /\ Plan["concurrency"] \in Nat
            BY <1>0, PlanFacts, KindFacts
        <3> HIDE DEF all
        <3> QED BY <3>1, LenProperties, SeqDef
    <2>2. "concurrency" \in Kinds
        BY KindFacts
    <2>3. outcomes' = [outcomes EXCEPT !["concurrency"] = all]
        BY <1>6
    <2> HIDE DEF all
    <2>4. /\ outcomes' \in [Kinds -> Seq(Outcomes)] /\ outcomes'["concurrency"] = all
          /\ \A k \in Kinds \ {"concurrency"} : outcomes'[k] = outcomes[k]
        BY <1>0, <2>1, <2>2, <2>3
    <2>5. Progress'
        BY <1>2, <1>6, <2>1, <2>2, <2>4, MovesOn DEF RunInv
    <2>6. phase' = "quality_arithmetic"
        BY <1>6 DEF Following
    <2>7. PoolInPhase'
        BY <1>2, <1>3, <2>6 DEF PoolInPhase, Inside
    <2>8. RunTypes'
        BY <1>1, <1>3, <2>4, <2>6, KindFacts DEF RunInv, RunTypes, Phases, Active
    <2> QED BY <1>4, <2>5, <2>7, <2>8 DEF RunInv
<1> QED BY <1>5, <1>6 DEF ClosePool

LEMMA ExperimentSteps ==
    ASSUME RunInv, ExperimentStep
    PROVE  RunInv'
<1>0. exp \in [pc: ExpStates, trial: Nat, run: {1, 2}]
    BY DEF RunInv, RunTypes
<1>1. CASE CallRunner
    <2>1. /\ phase' = "preflight" /\ outcomes' = [k \in Kinds |-> <<>>] /\ pool' = NoPool
          /\ worker' = [w \in Workers |-> "none"] /\ answers' = [w \in Workers |-> NoAnswer]
          /\ exp' = [exp EXCEPT !.pc = "running"]
        BY <1>1 DEF CallRunner, Call
    <2>2. exp' \in [pc: ExpStates, trial: Nat, run: {1, 2}] /\ exp'.pc = "running"
        BY <1>0, <2>1 DEF ExpStates
    <2>3. /\ pool' \in [pc: PoolStates, next: Workers, raised: BOOLEAN, broken: BOOLEAN]
          /\ pool'.pc = "none"
        <3>1. pool' = [pc |-> "none", next |-> 1, raised |-> FALSE, broken |-> FALSE]
            BY <2>1 DEF NoPool
        <3>2. "none" \in PoolStates /\ 1 \in Workers
            BY PlanFacts DEF PoolStates
        <3> QED BY <3>1, <3>2
    <2>4. outcomes' \in [Kinds -> Seq(Outcomes)]
        BY <2>1
    <2>5. worker' \in [Workers -> WorkerStates] /\ answers' \in [Workers -> Outcomes]
        BY <2>1, NoAnswerIsOutcome DEF WorkerStates
    <2>6. RunTypes'
        BY <2>1, <2>2, <2>3, <2>4, <2>5 DEF RunTypes, Phases, Active
    <2>7. \A k \in Kinds : Rank(k) > 0 /\ Rank(k) \in Nat /\ k # "preflight"
        BY KindFacts, RankFacts
    <2>8. Progress'
        BY <2>1, <2>7, RankFacts DEF Progress
    <2>9. PoolInPhase'
        BY <2>1, <2>2, <2>3 DEF PoolInPhase, Inside
    <2>10. Threads'
        BY <2>1, <2>3 DEF Threads, Inside, Busy, PastBarrier
    <2> QED BY <2>6, <2>8, <2>9, <2>10 DEF RunInv
<1>2. ASSUME UNCHANGED runVars, phase \notin Active,
             exp' \in [pc: ExpStates, trial: Nat, run: {1, 2}]
      PROVE  RunInv'
    <2>1. RunTypes'
        BY <1>2 DEF runVars, RunInv, RunTypes
    <2>2. Progress' /\ Threads'
        BY <1>2 DEF runVars, RunInv, Progress, Threads
    <2>3. PoolInPhase'
        BY <1>2 DEF runVars, RunInv, PoolInPhase
    <2> QED BY <2>1, <2>2, <2>3 DEF RunInv
<1>3. CASE TakeRun
    <2>1. phase = "sealed" /\ UNCHANGED runVars
        BY <1>3 DEF TakeRun
    <2>2. exp' \in [pc: ExpStates, trial: Nat, run: {1, 2}]
        <3>1. \/ exp' = [exp EXCEPT !.pc = "next", !.run = 2]
              \/ exp' = [pc |-> "next", trial |-> exp.trial + 1, run |-> 1]
              \/ exp' = [exp EXCEPT !.pc = "context_changed"]
            BY <1>3 DEF TakeRun
        <3>2. {"next", "context_changed"} \subseteq ExpStates /\ exp.trial \in Nat
            BY <1>0 DEF ExpStates
        <3>3. CASE exp' = [exp EXCEPT !.pc = "next", !.run = 2]
            BY <1>0, <3>2, <3>3
        <3>4. CASE exp' = [pc |-> "next", trial |-> exp.trial + 1, run |-> 1]
            BY <3>2, <3>4
        <3>5. CASE exp' = [exp EXCEPT !.pc = "context_changed"]
            BY <1>0, <3>2, <3>5
        <3> QED BY <3>1, <3>3, <3>4, <3>5
    <2> QED BY <1>2, <2>1, <2>2, KindFacts DEF Active
<1>4. CASE RunnerRaises
    <2>1. phase = "failed" /\ UNCHANGED runVars /\ exp' = [exp EXCEPT !.pc = "runner_failed"]
        BY <1>4 DEF RunnerRaises
    <2>2. exp' \in [pc: ExpStates, trial: Nat, run: {1, 2}]
        BY <1>0, <2>1 DEF ExpStates
    <2> QED BY <1>2, <2>1, <2>2, KindFacts DEF Active
<1>5. CASE Decide
    <2>1. /\ exp.pc = "next" /\ UNCHANGED runVars
          /\ exp' = [exp EXCEPT !.pc = IF Verified(result', runs) THEN "sealed" ELSE "refused"]
        BY <1>5 DEF Decide
    <2>2. exp' \in [pc: ExpStates, trial: Nat, run: {1, 2}]
        BY <1>0, <2>1 DEF ExpStates
    <2>3. phase \notin Active
        BY <2>1 DEF RunInv, PoolInPhase
    <2> QED BY <1>2, <2>1, <2>2, <2>3
<1> QED BY <1>1, <1>3, <1>4, <1>5 DEF ExperimentStep

-----------------------------------------------------------------------------

LEMMA RunInvStep == RunInv /\ [Next]_vars => RunInv'
<1> SUFFICES ASSUME RunInv, [Next]_vars PROVE RunInv'
    OBVIOUS
<1>1. CASE BenchmarkStep
    <2>1. exp.pc = "running" /\ RunStep(Served[Arm]) /\ UNCHANGED exp
        BY <1>1 DEF BenchmarkStep, expVars
    <2>2. CASE WorkerStep \/ BarrierTimesOut
        BY <2>1, <2>2, ThreadSteps
    <2>3. CASE OpenPool \/ Submit \/ SubmitFails \/ Collect \/ ResultTimesOut
        BY <2>1, <2>3, PoolSteps
    <2>4. CASE Preflight(Served[Arm]) \/ SerialRequest \/ ProbeAndSeal
        BY <2>1, <2>4, MainSteps
    <2>5. CASE ClosePool
        BY <2>1, <2>5, CloseKeeps
    <2> QED BY <2>1, <2>2, <2>3, <2>4, <2>5 DEF RunStep, MainStep, PoolStep, TimerStep
<1>2. CASE UNCHANGED vars
    <2>1. UNCHANGED <<phase, outcomes, pool, worker, answers, exp>>
        BY <1>2 DEF vars, runVars
    <2> QED BY <2>1 DEF RunInv, RunTypes, Progress, PoolInPhase, Threads
<1> QED BY <1>1, <1>2, ExperimentSteps DEF Next

-----------------------------------------------------------------------------
(* Induction over the data: the least number at which something fails.     *)

LEMMA SmallestOf ==
    ASSUME NEW S \in SUBSET Nat, S # {}
    PROVE  \E m \in S : \A g \in S : m <= g
<1> DEFINE less == {ss \in Nat \X Nat : ss[1] < ss[2]}
<1>1. IsWellFoundedOn(less, Nat)
    BY NatLessThanWellFounded DEF OpToRel
<1>2. PICK m \in S : \A g \in S : <<g, m>> \notin less
    <2> HIDE DEF less
    <2> QED BY <1>1, WFMin
<1>3. ASSUME NEW g \in S PROVE m <= g
    <2>1. <<g, m>> \in Nat \X Nat /\ ~(<<g, m>> \in less)
        BY <1>2
    <2>2. ~(<<g, m>>[1] < <<g, m>>[2])
        BY <2>1
    <2>3. ~(g < m) /\ g \in Nat /\ m \in Nat
        BY <2>1, <2>2
    <2> QED BY <2>3
<1> QED BY <1>3

\* A set with 0, and with the successor below the bound of what it has.
LEMMA UpTo ==
    ASSUME NEW N \in Nat, NEW S, 0 \in S,
           \A n \in 1..N : n - 1 \in S => n \in S
    PROVE  \A n \in 0..N : n \in S
<1> DEFINE T == {n \in 0..N : n \notin S}
<1> SUFFICES ASSUME T # {} PROVE FALSE
    OBVIOUS
<1>1. T \in SUBSET Nat
    OBVIOUS
<1>2. PICK n \in T : \A g \in T : n <= g
    <2> HIDE DEF T
    <2> QED BY <1>1, SmallestOf
<1>3. n \in 1..N /\ n - 1 \in 0..N /\ ~(n <= n - 1)
    BY <1>2
<1>4. n - 1 \in S
    BY <1>2, <1>3
<1> QED BY <1>2, <1>3, <1>4

-----------------------------------------------------------------------------
(* A stream and what it measures.                                          *)

Usages == Nat \cup {NoUsage}
IsPiece(p) == p.form \in {"object", "head"} => p.usage \in Usages

\* What reading has made of lines whose pieces are in P.
IsState(st, P) ==
    /\ st = [phase |-> st.phase, pending |-> st.pending, text |-> st.text,
             calls |-> st.calls, ttft |-> st.ttft, usage |-> st.usage]
    /\ st.pending \in Seq(P) /\ st.usage \in Usages

LEMMA StateOf ==
    ASSUME NEW P, NEW ph, NEW pending \in Seq(P), NEW text, NEW calls, NEW ttft,
           NEW usage \in Usages, NEW st,
           st = [phase |-> ph, pending |-> pending, text |-> text, calls |-> calls,
                 ttft |-> ttft, usage |-> usage]
    PROVE  IsState(st, P)
BY DEF IsState

LEMMA EndState ==
    ASSUME NEW P, NEW st, IsState(st, P), NEW ph
    PROVE  IsState([st EXCEPT !.phase = ph], P)
<1> DEFINE ended == [st EXCEPT !.phase = ph]
<1>1. ended
        = [phase |-> ph, pending |-> st.pending, text |-> st.text, calls |-> st.calls,
           ttft |-> st.ttft, usage |-> st.usage]
    BY DEF IsState
<1>2. st.pending \in Seq(P) /\ st.usage \in Usages
    BY DEF IsState
<1> HIDE DEF ended
<1>3. IsState(ended, P)
    BY <1>1, <1>2, StateOf
<1> QED BY <1>3 DEF ended

LEMMA FlushState ==
    ASSUME NEW P, \A p \in P : IsPiece(p), NEW st, IsState(st, P)
    PROVE  IsState(Flush(st), P)
<1>1. CASE st.pending = <<>>
    BY <1>1 DEF Flush
<1>2. CASE st.pending # <<>> /\ Payload(st.pending) \in {"done", "malformed"}
    BY <1>2, EndState DEF Flush
<1>3. CASE st.pending # <<>> /\ Payload(st.pending) \notin {"done", "malformed"}
    <2> DEFINE chunk == st.pending[1]
    <2>1. ObjectComplete(st.pending)
        BY <1>3 DEF Payload
    <2>2. chunk.form \in {"object", "head"} /\ chunk \in P
        BY <2>1 DEF ObjectComplete, IsState
    <2>3. chunk.usage \in Usages
        BY <2>2 DEF IsPiece
    <2> HIDE DEF chunk
    <2>4. \E text, calls, ttft :
            Absorb(st, chunk) = [phase |-> st.phase, pending |-> <<>>, text |-> text,
                                 calls |-> calls, ttft |-> ttft, usage |-> chunk.usage]
        <3> DEFINE text == IF chunk.text = "" THEN st.text ELSE Append(st.text, chunk.text)
                   calls == IF chunk.call = "" THEN st.calls ELSE Append(st.calls, chunk.call)
                   ttft == st.ttft \/ chunk.text # ""
        <3>1. Absorb(st, chunk) = [st EXCEPT !.pending = <<>>, !.text = text, !.ttft = ttft,
                                             !.calls = calls, !.usage = chunk.usage]
            BY Zenon DEF Absorb
        <3> HIDE DEF text, calls, ttft
        <3>2. Absorb(st, chunk) = [phase |-> st.phase, pending |-> <<>>, text |-> text,
                                   calls |-> calls, ttft |-> ttft, usage |-> chunk.usage]
            BY <3>1 DEF IsState
        <3> QED BY <3>2
    <2>5. <<>> \in Seq(P)
        OBVIOUS
    <2>6. IsState(Absorb(st, chunk), P)
        BY <2>3, <2>4, <2>5, StateOf
    <2> QED BY <1>3, <2>6 DEF Flush, chunk
<1> QED BY <1>1, <1>2, <1>3

LEMMA ReadLineState ==
    ASSUME NEW P, \A p \in P : IsPiece(p), NEW st, IsState(st, P), NEW line,
           line.kind = "data" => line.piece \in P, line.kind \in {"blank", "data", "fault", "other"}
    PROVE  IsState(ReadLine(st, line), P)
<1>1. CASE line.kind = "data"
    <2> DEFINE ready == IF st.pending # <<>> /\ ObjectComplete(st.pending) THEN Flush(st) ELSE st
    <2>1. IsState(ready, P)
        BY FlushState
    <2>2. TakeData(st, line.piece) =
            IF ready.phase # "reading" THEN ready
            ELSE IF line.piece.form = "oversized" THEN [ready EXCEPT !.phase = "malformed"]
            ELSE [ready EXCEPT !.pending = Append(ready.pending, line.piece)]
        BY DEF TakeData
    <2> HIDE DEF ready
    <2>3. IsState([ready EXCEPT !.phase = "malformed"], P)
        BY <2>1, EndState
    <2>4. IsState([ready EXCEPT !.pending = Append(ready.pending, line.piece)], P)
        <3> DEFINE longer == Append(ready.pending, line.piece)
                   taken == [ready EXCEPT !.pending = longer]
        <3>1. longer \in Seq(P) /\ ready.usage \in Usages
            BY <1>1, <2>1, AppendProperties DEF IsState
        <3> HIDE DEF longer
        <3>2. taken
                = [phase |-> ready.phase, pending |-> longer, text |-> ready.text,
                   calls |-> ready.calls, ttft |-> ready.ttft, usage |-> ready.usage]
            BY <2>1 DEF IsState
        <3> HIDE DEF taken
        <3>3. IsState(taken, P)
            BY <3>1, <3>2, StateOf
        <3> QED BY <3>3 DEF longer, taken
    <2>5. IsState(TakeData(st, line.piece), P)
        BY <2>1, <2>2, <2>3, <2>4
    <2> QED BY <1>1, <2>5 DEF ReadLine
<1>2. CASE line.kind = "blank"
    BY <1>2, FlushState DEF ReadLine
<1>3. CASE line.kind = "fault"
    BY <1>3, EndState DEF ReadLine
<1>4. CASE line.kind = "other"
    BY <1>4 DEF ReadLine
<1> QED BY <1>1, <1>2, <1>3, <1>4

\* A recursive function is there for any length: one for the least length that has
\* none would extend the one for the length before it.
LEMMA ReadingDefined ==
    ASSUME NEW lines, NEW N \in Nat
    PROVE  \E st : st = [n \in 0..N |-> IF n = 0 THEN Reading ELSE ReadLine(st[n - 1], lines[n])]
<1> DEFINE Reads(st, n) == st = [k \in 0..n |-> IF k = 0 THEN Reading ELSE ReadLine(st[k - 1], lines[k])]
           S == {n \in Nat : \E st : Reads(st, n)}
<1>1. 0 \in S
    <2> DEFINE st == [k \in 0..0 |-> Reading]
    <2>1. Reads(st, 0)
        OBVIOUS
    <2> HIDE DEF Reads, st
    <2> QED BY <2>1
<1>2. ASSUME NEW n \in 1..N, n - 1 \in S PROVE n \in S
    <2>1. PICK st : Reads(st, n - 1)
        BY <1>2
    <2> DEFINE more == [k \in 0..n |-> IF k = n THEN ReadLine(st[n - 1], lines[n]) ELSE st[k]]
    <2>2. \A k \in 0..n : more[k] = IF k = 0 THEN Reading ELSE ReadLine(more[k - 1], lines[k])
        <3> SUFFICES ASSUME NEW k \in 0..n
                     PROVE  more[k] = IF k = 0 THEN Reading ELSE ReadLine(more[k - 1], lines[k])
            OBVIOUS
        <3>1. k # 0 => more[k - 1] = st[k - 1]
            OBVIOUS
        <3>2. CASE k = n
            BY <1>2, <3>1, <3>2
        <3>3. CASE k # n
            <4>1. k \in 0..(n - 1) /\ more[k] = st[k]
                BY <1>2, <3>3
            <4> HIDE DEF more
            <4> QED BY <2>1, <3>1, <4>1
        <3> QED BY <3>2, <3>3
    <2>3. more = [k \in 0..n |-> more[k]]
        OBVIOUS
    <2> HIDE DEF more
    <2>4. Reads(more, n)
        BY <2>2, <2>3
    <2>5. n \in Nat
        BY <1>2
    <2> HIDE DEF Reads
    <2> QED BY <2>4, <2>5
<1>3. N \in S
    <2> HIDE DEF S
    <2>1. \A n \in 0..N : n \in S
        BY <1>1, <1>2, UpTo
    <2> QED BY <2>1
<1> QED BY <1>3

\* The usage of a stream is that of its last chunk, or none.
LEMMA StreamUsage ==
    ASSUME NEW lines, IsStream(lines)
    PROVE  ReadStream(lines).usage \in Usages
<1> DEFINE N == Len(lines)
           P == {lines[i].piece : i \in {j \in DOMAIN lines : lines[j].kind = "data"}}
           st == CHOOSE st : st = [n \in 0..N |-> IF n = 0 THEN Reading ELSE ReadLine(st[n - 1], lines[n])]
           last == IF st[N].phase = "reading" THEN Flush(st[N]) ELSE st[N]
           S == {n \in 0..N : IsState(st[n], P)}
<1>1. N \in Nat /\ DOMAIN lines = 1..N
    BY DEF IsStream
<1>2. st = [n \in 0..N |-> IF n = 0 THEN Reading ELSE ReadLine(st[n - 1], lines[n])]
    BY <1>1, ReadingDefined
<1>3. \A p \in P : IsPiece(p)
    BY DEF IsStream, IsPiece, Usages
<1>4. ReadStream(lines) = IF last.phase = "reading" THEN [last EXCEPT !.phase = "malformed"] ELSE last
    BY DEF ReadStream
<1>5. \A i \in 1..N : /\ lines[i].kind = "data" => lines[i].piece \in P
                      /\ lines[i].kind \in {"blank", "data", "fault", "other"}
    BY <1>1 DEF IsStream
<1> HIDE DEF N, P, st
<1>6. 0 \in S
    <2>1. <<>> \in Seq(P) /\ NoUsage \in Usages
        BY DEF Usages
    <2>2. IsState(Reading, P)
        BY <2>1 DEF IsState, Reading
    <2>3. st[0] = Reading
        BY <1>1, <1>2
    <2> QED BY <1>1, <2>2, <2>3
<1>7. \A n \in 1..N : n - 1 \in S => n \in S
    <2> SUFFICES ASSUME NEW n \in 1..N, n - 1 \in S PROVE n \in S
        OBVIOUS
    <2>1. n \in 0..N /\ n # 0 /\ IsState(st[n - 1], P)
        BY <1>1
    <2>2. st[n] = ReadLine(st[n - 1], lines[n])
        BY <1>2, <2>1
    <2>3. IsState(ReadLine(st[n - 1], lines[n]), P)
        BY <1>3, <1>5, <2>1, ReadLineState
    <2> QED BY <2>1, <2>2, <2>3
<1>8. N \in S
    <2> HIDE DEF S
    <2>1. \A n \in 0..N : n \in S
        BY <1>1, <1>6, <1>7, UpTo
    <2> QED BY <1>1, <2>1
<1>9. IsState(last, P)
    BY <1>3, <1>8, FlushState
<1> HIDE DEF last
<1>10. IsState([last EXCEPT !.phase = "malformed"], P)
    BY <1>9, EndState
<1> QED BY <1>4, <1>9, <1>10 DEF IsState

\* A measurement counts tokens or has no usage.
LEMMA MeasureTokens ==
    ASSUME NEW reply, IsStream(reply.lines)
    PROVE  Measure(reply).tokens \in Usages
<1>1. \A status : NoMeasurement(status).tokens \in Usages
    BY DEF NoMeasurement, Usages
<1>2. ReadStream(reply.lines).usage \in Usages
    BY StreamUsage
<1>3. \A st : Measured(st).tokens = st.usage
    BY DEF Measured
<1> DEFINE read == ReadStream(reply.lines)
<1>4. Measured(read).tokens \in Usages
    BY <1>2, <1>3
<1>5. \/ Measure(reply) = Measured(read)
      \/ \E status : Measure(reply) = NoMeasurement(status)
    <2> HIDE DEF read
    <2> DEFINE m == CASE read.phase = "timeout"   -> NoMeasurement("timeout")
                      [] read.phase = "malformed" -> NoMeasurement("malformed_sse")
                      [] OTHER                    -> Measured(read)
    <2>1. m \in {NoMeasurement("timeout"), NoMeasurement("malformed_sse"), Measured(read)}
        OBVIOUS
    <2>2. Measure(reply) \in {NoMeasurement("timeout"), NoMeasurement("connection_failure"),
                              NoMeasurement("http_error"), m}
        BY DEF Measure, read
    <2> QED BY <2>1, <2>2
<1> QED BY <1>1, <1>4, <1>5

LEMMA OutcomeTokens == \A o \in Outcomes : o.tokens \in Int
<1>1. \A k \in Kinds : \A m \in Measurements[k] : m.tokens \in Usages
    BY MeasureTokens, RepliesAssumption DEF Measurements
<1>2. NoAnswer.tokens \in Usages
    BY DEF NoAnswer, NoMeasurement, Usages
<1>3. \A u \in Usages : u \in Int
    BY DEF Usages, NoUsage
<1> QED BY <1>1, <1>2, <1>3 DEF Outcomes, Replied

-----------------------------------------------------------------------------
(* Sums.                                                                   *)

\* Each value is made from the one before.
IsRecursion(f, N, base, F) == f = [n \in 0..N |-> IF n = 0 THEN base ELSE F[n][f[n - 1]]]

\* A recursion over the numbers up to N, with its values in A.
LEMMA Recursion ==
    ASSUME NEW N \in Nat, NEW A, NEW base \in A, NEW F \in [1..N -> [A -> A]]
    PROVE  \E f : IsRecursion(f, N, base, F) /\ \A n \in 0..N : f[n] \in A
<1> DEFINE Goes(f, n) == f = [k \in 0..n |-> IF k = 0 THEN base ELSE F[k][f[k - 1]]]
           S == {n \in Nat : \E f : Goes(f, n)}
<1>1. 0 \in S
    <2> DEFINE f == [k \in 0..0 |-> base]
    <2>1. Goes(f, 0)
        OBVIOUS
    <2> HIDE DEF Goes, f
    <2> QED BY <2>1
<1>2. ASSUME NEW n \in 1..N, n - 1 \in S PROVE n \in S
    <2>1. PICK f : Goes(f, n - 1)
        BY <1>2
    <2> DEFINE more == [k \in 0..n |-> IF k = n THEN F[n][f[n - 1]] ELSE f[k]]
    <2>2. \A k \in 0..n : more[k] = IF k = 0 THEN base ELSE F[k][more[k - 1]]
        <3> SUFFICES ASSUME NEW k \in 0..n
                     PROVE  more[k] = IF k = 0 THEN base ELSE F[k][more[k - 1]]
            OBVIOUS
        <3>1. k # 0 => more[k - 1] = f[k - 1]
            OBVIOUS
        <3>2. CASE k = n
            BY <1>2, <3>1, <3>2
        <3>3. CASE k # n
            <4>1. k \in 0..(n - 1) /\ more[k] = f[k]
                BY <1>2, <3>3
            <4> HIDE DEF more
            <4> QED BY <2>1, <3>1, <4>1
        <3> QED BY <3>2, <3>3
    <2>3. more = [k \in 0..n |-> more[k]]
        OBVIOUS
    <2> HIDE DEF more
    <2>4. Goes(more, n)
        BY <2>2, <2>3
    <2>5. n \in Nat
        BY <1>2
    <2> HIDE DEF Goes
    <2> QED BY <2>4, <2>5
<1>3. N \in S
    <2> HIDE DEF S
    <2>1. \A n \in 0..N : n \in S
        BY <1>1, <1>2, UpTo
    <2> QED BY <2>1
<1>4. PICK f : Goes(f, N)
    BY <1>3
<1> DEFINE I == {n \in 0..N : f[n] \in A}
<1>5. 0 \in I
    BY <1>4
<1>6. ASSUME NEW n \in 1..N, n - 1 \in I PROVE n \in I
    <2>1. f[n] = F[n][f[n - 1]] /\ f[n - 1] \in A /\ n \in 0..N
        BY <1>4, <1>6
    <2> QED BY <2>1
<1>7. \A n \in 0..N : n \in I
    <2> HIDE DEF I
    <2> QED BY <1>5, <1>6, UpTo
<1> QED BY <1>4, <1>7 DEF IsRecursion

\* The tokens of a group are an integer.
LEMMA TokensAreInt ==
    ASSUME NEW ms \in Seq(Outcomes)
    PROVE  TokensOf(ms) \in Int
<1> DEFINE N == Len(ms)
           gain(n) == IF Succeeded(ms[n]) THEN ms[n].tokens ELSE 0
           F == [n \in 1..N |-> [s \in Int |-> s + gain(n)]]
           total == CHOOSE t : t = [n \in 0..N |-> IF n = 0 THEN 0 ELSE t[n - 1] + gain(n)]
           S == {n \in 0..N : total[n] \in Int}
<1>1. N \in Nat /\ \A n \in 1..N : gain(n) \in Int
    BY OutcomeTokens, ElementOfSeq
<1> HIDE DEF gain
<1>2. F \in [1..N -> [Int -> Int]] /\ 0 \in Int
    BY <1>1
<1> HIDE DEF N, F
<1>3. \E f : IsRecursion(f, N, 0, F) /\ \A n \in 0..N : f[n] \in Int
    BY <1>1, <1>2, Recursion
<1>4. PICK f : /\ f = [n \in 0..N |-> IF n = 0 THEN 0 ELSE F[n][f[n - 1]]]
               /\ \A n \in 0..N : f[n] \in Int
    BY <1>3 DEF IsRecursion
<1>5. f = [n \in 0..N |-> IF n = 0 THEN 0 ELSE f[n - 1] + gain(n)]
    <2>1. \A n \in 1..N : n - 1 \in 0..N /\ F[n][f[n - 1]] = f[n - 1] + gain(n)
        <3> SUFFICES ASSUME NEW n \in 1..N
                     PROVE  n - 1 \in 0..N /\ F[n][f[n - 1]] = f[n - 1] + gain(n)
            OBVIOUS
        <3>1. n - 1 \in 0..N
            BY <1>1
        <3>2. f[n - 1] \in Int
            BY <1>4, <3>1
        <3>3. F[n] = [s \in Int |-> s + gain(n)]
            BY DEF F
        <3> QED BY <3>1, <3>2, <3>3
    <2>2. f = [n \in 0..N |-> f[n]]
        <3> DEFINE body(n) == IF n = 0 THEN 0 ELSE F[n][f[n - 1]]
        <3>1. f = [n \in 0..N |-> body(n)]
            BY <1>4
        <3> HIDE DEF body
        <3> QED BY <3>1
    <2>3. \A n \in 0..N : f[n] = IF n = 0 THEN 0 ELSE f[n - 1] + gain(n)
        <3> SUFFICES ASSUME NEW n \in 0..N PROVE f[n] = IF n = 0 THEN 0 ELSE f[n - 1] + gain(n)
            OBVIOUS
        <3>1. f[n] = IF n = 0 THEN 0 ELSE F[n][f[n - 1]]
            BY <1>4
        <3>2. n # 0 => n \in 1..N
            BY <1>1
        <3> QED BY <2>1, <3>1, <3>2
    <2> QED BY <2>2, <2>3
<1>6. total = [n \in 0..N |-> IF n = 0 THEN 0 ELSE total[n - 1] + gain(n)]
    BY <1>5
<1>7. TokensOf(ms) = total[N]
    BY DEF TokensOf, gain, N
<1> HIDE DEF total
<1>8. 0 \in S /\ \A n \in 1..N : n - 1 \in S => n \in S
    BY <1>1, <1>6
<1>9. \A n \in 0..N : n \in S
    <2> HIDE DEF S
    <2> QED BY <1>1, <1>8, UpTo
<1> QED BY <1>1, <1>7, <1>9

\* The sums of n draws, for n up to the number of trials.
Draws(sums, values) ==
    /\ sums[0] = {0}
    /\ \A n \in 1..Trials :
         sums[n] = {s + values[i] : s \in sums[n - 1], i \in DOMAIN values}
    /\ \A n \in 0..Trials : \A s \in sums[n] : s \in Int

LEMMA ResamplesAreDraws ==
    ASSUME NEW D, NEW values \in [D -> Int]
    PROVE  \E sums : Draws(sums, values) /\ Resamples(values) = sums[Trials]
<1> DEFINE more(S) == {s + values[i] : s \in S, i \in DOMAIN values}
           base == {0}
           F == [n \in 1..Trials |-> [S \in SUBSET Int |-> more(S)]]
           sums == CHOOSE t : t = [n \in 0..Trials |-> IF n = 0 THEN base ELSE more(t[n - 1])]
<1>1. Trials \in Nat
    BY TrialsAssumption
<1>2. base \in SUBSET Int
    OBVIOUS
<1>3. \A S \in SUBSET Int : more(S) \in SUBSET Int
    <2> SUFFICES ASSUME NEW S \in SUBSET Int, NEW s \in S, NEW i \in DOMAIN values
                 PROVE  s + values[i] \in Int
        OBVIOUS
    <2> QED OBVIOUS
<1> HIDE DEF more, base
<1>4. F \in [1..Trials -> [SUBSET Int -> SUBSET Int]]
    BY <1>3
<1> HIDE DEF F
<1>5. \E f : IsRecursion(f, Trials, base, F) /\ \A n \in 0..Trials : f[n] \in SUBSET Int
    BY <1>1, <1>2, <1>4, Recursion
<1>6. PICK f : /\ f = [n \in 0..Trials |-> IF n = 0 THEN base ELSE F[n][f[n - 1]]]
               /\ \A n \in 0..Trials : f[n] \in SUBSET Int
    BY <1>5 DEF IsRecursion
<1>7. f = [n \in 0..Trials |-> IF n = 0 THEN base ELSE more(f[n - 1])]
    <2>1. \A n \in 0..Trials : f[n] = IF n = 0 THEN base ELSE more(f[n - 1])
        <3> SUFFICES ASSUME NEW n \in 0..Trials PROVE f[n] = IF n = 0 THEN base ELSE more(f[n - 1])
            OBVIOUS
        <3>1. f[n] = IF n = 0 THEN base ELSE F[n][f[n - 1]]
            BY <1>6
        <3>2. ASSUME n # 0 PROVE F[n][f[n - 1]] = more(f[n - 1])
            <4>1. n \in 1..Trials /\ n - 1 \in 0..Trials
                BY <1>1, <3>2
            <4>2. f[n - 1] \in SUBSET Int
                BY <1>6, <4>1
            <4>3. F[n] = [S \in SUBSET Int |-> more(S)]
                BY <4>1 DEF F
            <4> QED BY <4>2, <4>3
        <3> QED BY <3>1, <3>2
    <2>2. f = [n \in 0..Trials |-> f[n]]
        <3> DEFINE body(n) == IF n = 0 THEN base ELSE F[n][f[n - 1]]
        <3>1. f = [n \in 0..Trials |-> body(n)]
            BY <1>6
        <3> HIDE DEF body
        <3> QED BY <3>1
    <2> QED BY <2>1, <2>2
<1>8. sums = [n \in 0..Trials |-> IF n = 0 THEN base ELSE more(sums[n - 1])]
    BY <1>7
<1>9. Resamples(values) = sums[Trials]
    BY DEF Resamples, more, base
<1> HIDE DEF sums
<1>10. sums[0] = base /\ \A n \in 1..Trials : sums[n] = more(sums[n - 1])
    <2>1. 0 \in 0..Trials /\ \A n \in 1..Trials : n \in 0..Trials /\ n # 0
        BY <1>1
    <2> QED BY <1>8, <2>1
<1> DEFINE S == {n \in 0..Trials : sums[n] \in SUBSET Int}
<1>11. 0 \in S /\ \A n \in 1..Trials : n - 1 \in S => n \in S
    <2>1. 0 \in S
        BY <1>1, <1>2, <1>10
    <2>2. ASSUME NEW n \in 1..Trials, n - 1 \in S PROVE n \in S
        <3>1. n \in 0..Trials /\ sums[n - 1] \in SUBSET Int /\ sums[n] = more(sums[n - 1])
            BY <1>1, <1>10, <2>2
        <3>2. sums[n] \in SUBSET Int
            BY <1>3, <3>1
        <3> QED BY <3>1, <3>2
    <2> QED BY <2>1, <2>2
<1>12. \A n \in 0..Trials : n \in S
    <2> HIDE DEF S
    <2> QED BY <1>1, <1>11, UpTo
<1>13. Draws(sums, values)
    BY <1>10, <1>12 DEF Draws, more, base
<1> QED BY <1>9, <1>13

\* How far a pair is above the threshold; the effects of two draws add up.
Margin(b, c) == 100 * (c - b) - Threshold * b

LEMMA MarginAdds ==
    ASSUME NEW b \in Int, NEW c \in Int, NEW u \in Int, NEW v \in Int,
           NEW s, s = b + u, NEW t, t = c + v
    PROVE  /\ Margin(b, c) \in Int /\ Margin(u, v) \in Int
           /\ Margin(s, t) = Margin(b, c) + Margin(u, v)
           /\ Meets(b, c) <=> Margin(b, c) >= 0
<1>1. Threshold \in Int
    BY ThresholdAssumption
<1> DEFINE tb == Threshold * b
           tu == Threshold * u
<1>2. tb \in Int /\ tu \in Int /\ Threshold * (b + u) = tb + tu
    BY <1>1
<1>3. /\ Margin(b, c) = 100 * (c - b) - tb /\ Margin(u, v) = 100 * (v - u) - tu
      /\ Margin(s, t) = 100 * ((c + v) - (b + u)) - Threshold * (b + u)
      /\ Meets(b, c) <=> 100 * (c - b) >= tb
    BY DEF Margin, Meets
<1> HIDE DEF tb, tu
<1>4. Margin(s, t) = 100 * ((c + v) - (b + u)) - (tb + tu)
    BY <1>2, <1>3
<1> QED BY <1>2, <1>3, <1>4

LEMMA MarginMeets ==
    ASSUME NEW b \in Int, NEW c \in Int
    PROVE  Margin(b, c) \in Int /\ (Meets(b, c) <=> Margin(b, c) >= 0)
<1>1. Margin(b + b, c + c) = Margin(b, c) + Margin(b, c)
    BY MarginAdds
<1> QED BY <1>1, MarginAdds

\* The means of two resamples meet the threshold only if some pair of values
\* does, and miss it only if some pair does.
LEMMA SomePair ==
    ASSUME NEW base \in [1..Trials -> Int], NEW cand \in [1..Trials -> Int],
           NEW B \in Resamples(base), NEW C \in Resamples(cand)
    PROVE  \E i, j \in 1..Trials : Meets(base[i], cand[j]) = Meets(B, C)
<1>1. PICK bs : Draws(bs, base) /\ Resamples(base) = bs[Trials]
    BY ResamplesAreDraws
<1>2. PICK cs : Draws(cs, cand) /\ Resamples(cand) = cs[Trials]
    BY ResamplesAreDraws
<1> DEFINE m(i, j) == Margin(base[i], cand[j])
           S == {n \in 0..Trials :
                   \A b \in bs[n], c \in cs[n] :
                     /\ (\A i, j \in 1..Trials : m(i, j) >= 0) => Margin(b, c) >= 0
                     /\ (\A i, j \in 1..Trials : m(i, j) < 0) => (n = 0 \/ Margin(b, c) < 0)
                     /\ (\A i, j \in 1..Trials : m(i, j) < 0) => Margin(b, c) <= 0}
<1>0. Trials \in Nat /\ Trials # 0 /\ Trials \in 0..Trials /\ \A i, j \in 1..Trials : m(i, j) \in Int
    <2>1. Trials \in Nat /\ Trials # 0
        BY TrialsAssumption
    <2>2. \A i, j \in 1..Trials : base[i] \in Int /\ cand[j] \in Int
        OBVIOUS
    <2> QED BY <2>1, <2>2, MarginMeets
<1>t. \A n \in 0..Trials : (\A b \in bs[n] : b \in Int) /\ (\A c \in cs[n] : c \in Int)
    BY <1>1, <1>2 DEF Draws
<1>3. 0 \in S
    <2>1. Margin(0, 0) = 0
        BY ThresholdAssumption DEF Margin
    <2>2. 0 \in 0..Trials /\ bs[0] = {0} /\ cs[0] = {0}
        BY <1>0, <1>1, <1>2 DEF Draws
    <2>3. \A b \in bs[0], c \in cs[0] : Margin(b, c) = 0
        BY <2>1, <2>2
    <2> HIDE DEF m
    <2> QED BY <2>2, <2>3
<1>4. ASSUME NEW n \in 1..Trials, n - 1 \in S PROVE n \in S
    <2>1. ASSUME NEW b \in bs[n], NEW c \in cs[n]
          PROVE  /\ Margin(b, c) \in Int
                 /\ (\A i, j \in 1..Trials : m(i, j) >= 0) => Margin(b, c) >= 0
                 /\ (\A i, j \in 1..Trials : m(i, j) < 0) => Margin(b, c) < 0
        <3>0. n - 1 \in 0..Trials
            BY <1>0
        <3>1. PICK x \in Int, i \in 1..Trials : x \in bs[n - 1] /\ b = x + base[i]
            <4>1. bs[n] = {s + base[k] : s \in bs[n - 1], k \in DOMAIN base} /\ DOMAIN base = 1..Trials
                BY <1>1, <1>4 DEF Draws
            <4> QED BY <1>t, <3>0, <4>1
        <3>2. PICK y \in Int, j \in 1..Trials : y \in cs[n - 1] /\ c = y + cand[j]
            <4>1. cs[n] = {s + cand[k] : s \in cs[n - 1], k \in DOMAIN cand} /\ DOMAIN cand = 1..Trials
                BY <1>2, <1>4 DEF Draws
            <4> QED BY <1>t, <3>0, <4>1
        <3>3. PICK u \in Int, v \in Int : u = base[i] /\ v = cand[j]
            OBVIOUS
        <3>4. Margin(b, c) = Margin(x, y) + m(i, j) /\ Margin(x, y) \in Int /\ m(i, j) \in Int
            <4>1. b = x + u /\ c = y + v
                BY <3>1, <3>2, <3>3
            <4>2. Margin(x, y) \in Int /\ Margin(u, v) \in Int
                BY MarginMeets
            <4>4. Margin(b, c) = Margin(x, y) + Margin(u, v)
                BY <4>1, MarginAdds
            <4>3. m(i, j) = Margin(u, v)
                BY <3>3
            <4> HIDE DEF m
            <4> QED BY <4>2, <4>3, <4>4
        <3>5. /\ (\A k, l \in 1..Trials : m(k, l) >= 0) => Margin(x, y) >= 0
              /\ (\A k, l \in 1..Trials : m(k, l) < 0) => Margin(x, y) <= 0
            BY <1>4, <3>1, <3>2
        <3> HIDE DEF m
        <3> QED BY <3>1, <3>2, <3>4, <3>5, SMTT(20)
    <2>2. n \in 0..Trials
        BY <1>0
    <2> HIDE DEF m
    <2>3. \A b \in bs[n], c \in cs[n] :
            /\ (\A i, j \in 1..Trials : m(i, j) >= 0) => Margin(b, c) >= 0
            /\ (\A i, j \in 1..Trials : m(i, j) < 0) => (n = 0 \/ Margin(b, c) < 0)
            /\ (\A i, j \in 1..Trials : m(i, j) < 0) => Margin(b, c) <= 0
        BY <2>1
    <2> QED BY <2>2, <2>3
<1>5. Trials \in S
    <2> HIDE DEF S
    <2>1. \A n \in 0..Trials : n \in S
        BY <1>0, <1>3, <1>4, UpTo
    <2> QED BY <1>0, <2>1
<1>6. B \in Int /\ C \in Int
    BY <1>0, <1>1, <1>2, <1>t
<1>7. Margin(B, C) \in Int /\ (Meets(B, C) <=> Margin(B, C) >= 0)
    BY <1>6, MarginMeets
<1>8. \A i, j \in 1..Trials : Meets(base[i], cand[j]) <=> m(i, j) >= 0
    <2>1. \A i, j \in 1..Trials : base[i] \in Int /\ cand[j] \in Int
        OBVIOUS
    <2> QED BY <2>1, MarginMeets
<1> HIDE DEF m
<1>9. /\ (\A i, j \in 1..Trials : m(i, j) >= 0) => Margin(B, C) >= 0
      /\ (\A i, j \in 1..Trials : m(i, j) < 0) => Margin(B, C) < 0
    BY <1>0, <1>1, <1>2, <1>5
<1>10. \E i, j \in 1..Trials : m(i, j) >= 0 <=> Margin(B, C) >= 0
    <2>1. CASE Margin(B, C) >= 0
        <3>1. \E i, j \in 1..Trials : ~(m(i, j) < 0)
            BY <1>7, <1>9, <2>1
        <3>2. PICK i \in 1..Trials, j \in 1..Trials : ~(m(i, j) < 0)
            BY <3>1
        <3>3. m(i, j) \in Int
            BY <1>0
        <3>4. m(i, j) >= 0
            BY <3>2, <3>3
        <3> QED BY <2>1, <3>4
    <2>2. CASE Margin(B, C) < 0
        <3>1. \E i, j \in 1..Trials : ~(m(i, j) >= 0)
            BY <1>7, <1>9, <2>2
        <3> QED BY <1>7, <2>2, <3>1
    <2>3. Margin(B, C) >= 0 \/ Margin(B, C) < 0
        BY <1>7
    <2> QED BY <2>1, <2>2, <2>3
<1>11. \A i, j \in 1..Trials : Meets(base[i], cand[j]) \in BOOLEAN /\ Meets(B, C) \in BOOLEAN
    BY DEF Meets
<1> QED BY <1>7, <1>8, <1>10, <1>11

-----------------------------------------------------------------------------
(* The experiment: what its runs are, and what the manifest says of them.  *)

ModelNames == UNION {Served[a] : a \in Arms}
Artifacts == [status: {"ok", "degraded"}, metric: {"number", Unmeasurable}, rate: Int,
              served: ModelNames]

Measuring ==
    /\ phase \in {"quality_arithmetic", "quality_tool_call", "probe"} => wall \in Walls
    /\ phase \in Active \ {"preflight"} => served \in ModelNames
    /\ phase = "sealed" => artifact \in Artifacts

\* How many runs of an arm are taken.
Taken(a) == exp.trial - 1 + IF exp.run = 2 /\ a = Order(exp.trial)[1] THEN 1 ELSE 0

Underway ==
    /\ runs \in [Arms -> Seq(Artifacts)]
    /\ \A a \in Arms : \A i \in 1..Len(runs[a]) : runs[a][i].served = context
    /\ exp.pc \in {"next", "running"} =>
         /\ exp.trial \in 1..(Trials + 1)
         /\ exp.trial = Trials + 1 => exp.pc = "next" /\ exp.run = 1
         /\ \A a \in Arms : Len(runs[a]) = Taken(a)
    /\ exp.pc = "sealed" => Verified(result, runs)
    /\ exp.pc # "refused"

ExperimentInv == RunInv /\ Measuring /\ Underway

LEMMA OrderFacts ==
    ASSUME NEW trial \in Nat
    PROVE  /\ Order(trial)[1] \in Arms /\ Order(trial)[2] \in Arms
           /\ \A a \in Arms : a = Order(trial)[1] <=> a # Order(trial)[2]
BY DEF Order, Arms

LEMMA ArmIsArm == RunTypes => Arm \in Arms /\ Arm = Order(exp.trial)[exp.run]
BY OrderFacts DEF RunTypes, Arm

LEMMA ExperimentInitial == Init => ExperimentInv
<1> SUFFICES ASSUME Init PROVE ExperimentInv
    OBVIOUS
<1>1. RunInv
    BY RunInvInit
<1>2. Measuring
    BY KindFacts DEF Init, RunInit, Measuring, Active
<1>3. Underway
    <2>1. runs = [a \in Arms |-> <<>>] /\ exp = [pc |-> "next", trial |-> 1, run |-> 1]
        BY DEF Init
    <2>2. Trials \in Nat /\ Trials >= 2
        BY TrialsAssumption
    <2>3. \A a \in Arms : Len(runs[a]) = 0 /\ Taken(a) = 0
        BY <2>1 DEF Taken
    <2> QED BY <2>1, <2>2, <2>3 DEF Underway
<1> QED BY <1>1, <1>2, <1>3 DEF ExperimentInv

\* What a run seals.
LEMMA SealedArtifact ==
    ASSUME RunInv, Measuring, ProbeAndSeal
    PROVE  artifact' \in Artifacts
<1>1. phase = "probe" /\ wall \in Walls /\ served \in ModelNames
    BY KindFacts DEF ProbeAndSeal, Measuring, Active
<1>2. GroupTokens \in Int
    <2>1. outcomes["concurrency"] \in Seq(Outcomes)
        BY KindFacts DEF RunInv, RunTypes
    <2> QED BY <2>1, TokensAreInt DEF GroupTokens
<1>3. wall \in Nat \ {0}
    BY <1>1, WallsAssumption
<1> DEFINE rate == IF GroupCounted THEN GroupTokens \div wall ELSE 0
           metric == IF GroupCounted THEN "number" ELSE Unmeasurable
<1>4. rate \in Int /\ metric \in {"number", Unmeasurable}
    BY <1>2, <1>3
<1> HIDE DEF rate, metric
<1>5. PICK status \in {"ok", "degraded"} :
        artifact' = [status |-> status, metric |-> metric, rate |-> rate, served |-> served]
    <2>1. PICK probe \in {"rejected", "accepted", "unreachable"} :
            artifact' = [status |-> IF RunOk(probe) THEN "ok" ELSE "degraded",
                         metric |-> metric, rate |-> rate, served |-> served]
        BY DEF ProbeAndSeal, rate, metric
    <2> QED BY <2>1
<1> QED BY <1>1, <1>4, <1>5 DEF Artifacts

LEMMA MeasuringStep ==
    ASSUME RunInv, Measuring, [Next]_vars
    PROVE  Measuring'
<1>1. ASSUME UNCHANGED <<phase, served, wall, artifact>> PROVE Measuring'
    BY <1>1 DEF Measuring
<1>2. CASE BenchmarkStep
    <2>1. exp.pc = "running" /\ RunStep(Served[Arm])
        BY <1>2 DEF BenchmarkStep
    <2>2. CASE WorkerStep \/ TimerStep \/ SubmitFails \/ OpenPool \/ Submit \/ Collect
        <3>1. UNCHANGED <<phase, served, wall, artifact>>
            BY <2>2 DEF WorkerStep, TimerStep, SubmitFails, OpenPool, Submit, Collect, Arrive,
                        Answered, BarrierTimesOut, ResultTimesOut
        <3> QED BY <1>1, <3>1
    <2>3. CASE Preflight(Served[Arm])
        <3>1. Served[Arm] \subseteq ModelNames
            BY ArmIsArm DEF RunInv, ModelNames
        <3>2. phase' = "failed" \/ (phase' = "warmup" /\ served' \in ModelNames)
            BY <2>3, <3>1 DEF Preflight
        <3> QED BY <3>2, KindFacts DEF Measuring, Active
    <2>4. CASE SerialRequest
        <3>1. /\ phase \in SerialKinds /\ phase' \in {phase, Following(phase)}
              /\ UNCHANGED <<served, wall, artifact>>
            BY <2>4 DEF SerialRequest
        <3>2. /\ phase \in Active \ {"preflight"} /\ phase' # "sealed"
              /\ phase' \in {"quality_arithmetic", "quality_tool_call", "probe"} =>
                   phase \in {"quality_arithmetic", "quality_tool_call"}
            BY <3>1, KindFacts DEF Following, Active
        <3> QED BY <3>1, <3>2 DEF Measuring
    <2>5. CASE ClosePool
        <3>1. phase = "concurrency" /\ phase \in Active \ {"preflight"}
            BY <2>5, KindFacts DEF ClosePool, RunInv, PoolInPhase, Inside, Active
        <3>2. /\ phase' = "failed" \/ (phase' = "quality_arithmetic" /\ wall' \in Walls)
              /\ UNCHANGED <<served, artifact>>
            BY <2>5 DEF ClosePool, Following
        <3> QED BY <3>1, <3>2, KindFacts DEF Measuring, Active
    <2>6. CASE ProbeAndSeal
        <3>1. phase' = "sealed" /\ artifact' \in Artifacts
            BY <2>6, SealedArtifact DEF ProbeAndSeal
        <3> QED BY <3>1, KindFacts DEF Measuring, Active
    <2> QED BY <2>1, <2>2, <2>3, <2>4, <2>5, <2>6 DEF RunStep, MainStep, PoolStep
<1>3. CASE ExperimentStep
    <2>1. CASE CallRunner
        <3>1. phase' = "preflight"
            BY <2>1 DEF CallRunner, Call
        <3> QED BY <3>1 DEF Measuring
    <2>2. CASE TakeRun \/ RunnerRaises \/ Decide
        BY <1>1, <2>2 DEF TakeRun, RunnerRaises, Decide, runVars
    <2> QED BY <1>3, <2>1, <2>2 DEF ExperimentStep
<1>4. CASE UNCHANGED vars
    BY <1>1, <1>4 DEF vars, runVars
<1> QED BY <1>2, <1>3, <1>4 DEF Next

\* A run is taken: it is one more of its arm, in the one context of them all.
LEMMA TakeRunKeeps ==
    ASSUME ExperimentInv, TakeRun
    PROVE  Underway'
<1>1. /\ exp \in [pc: ExpStates, trial: Nat, run: {1, 2}]
      /\ runs \in [Arms -> Seq(Artifacts)] /\ artifact \in Artifacts
      /\ exp.pc = "running" /\ exp.trial \in 1..Trials /\ Trials \in Nat
      /\ \A a \in Arms : Len(runs[a]) = Taken(a)
      /\ \A a \in Arms : \A i \in 1..Len(runs[a]) : runs[a][i].served = context
    BY TrialsAssumption, SMTT(20)
    DEF TakeRun, ExperimentInv, RunInv, RunTypes, Measuring, Underway
<1>2. Arm \in Arms /\ Arm = Order(exp.trial)[exp.run]
    BY ArmIsArm DEF ExperimentInv, RunInv
<1>3. CASE SameContext
    <2> DEFINE more == Append(runs[Arm], artifact)
    <2>1. runs' = [runs EXCEPT ![Arm] = more] /\ context' = artifact.served /\ UNCHANGED result
        BY <1>3 DEF TakeRun
    <2>2. /\ more \in Seq(Artifacts) /\ Len(more) = Len(runs[Arm]) + 1
          /\ more[Len(runs[Arm]) + 1] = artifact
          /\ \A i \in 1..Len(runs[Arm]) : more[i] = runs[Arm][i]
        BY <1>1, <1>2, AppendProperties
    <2>3. Len(runs[Arm]) \in Nat
        BY <1>1, <1>2
    <2> HIDE DEF more
    <2>4. /\ runs' \in [Arms -> Seq(Artifacts)] /\ runs'[Arm] = more
          /\ \A a \in Arms \ {Arm} : runs'[a] = runs[a]
        BY <1>1, <1>2, <2>1, <2>2
    <2>5. \A a \in Arms : \A i \in 1..Len(runs[a]) : runs[a][i].served = artifact.served
        <3> SUFFICES ASSUME NEW a \in Arms, NEW i \in 1..Len(runs[a])
                     PROVE  runs[a][i].served = artifact.served
            OBVIOUS
        <3>1. runs[a][i] \in Artifacts /\ runs[a][i].served = context
            BY <1>1, ElementOfSeq
        <3>2. context # "none"
            BY <3>1, ServedAssumption DEF Artifacts, ModelNames
        <3> QED BY <1>3, <3>1, <3>2 DEF SameContext
    <2>6. \A a \in Arms : \A i \in 1..Len(runs'[a]) : runs'[a][i].served = context'
        <3> SUFFICES ASSUME NEW a \in Arms, NEW i \in 1..Len(runs'[a])
                     PROVE  runs'[a][i].served = artifact.served
            BY <2>1
        <3>1. CASE a = Arm
            <4>1. i \in 1..Len(runs[Arm]) \/ i = Len(runs[Arm]) + 1
                BY <2>2, <2>3, <2>4, <3>1
            <4> QED BY <1>2, <2>2, <2>4, <2>5, <3>1, <4>1, SMTT(20)
        <3>2. CASE a # Arm
            BY <2>4, <2>5, <3>2
        <3> QED BY <3>1, <3>2
    <2>7. \A a \in Arms : Len(runs'[a]) = Taken(a) + IF a = Arm THEN 1 ELSE 0
        <3>1. \A a \in Arms : Len(runs[a]) \in Nat
            BY <1>1
        <3> QED BY <1>1, <1>2, <2>2, <2>4, <3>1
    <2>8. exp'.pc = "next"
          /\ \/ exp.run = 1 /\ exp'.trial = exp.trial /\ exp'.run = 2
             \/ exp.run = 2 /\ exp'.trial = exp.trial + 1 /\ exp'.run = 1
        <3>1. exp' = IF exp.run = 1 THEN [exp EXCEPT !.pc = "next", !.run = 2]
                     ELSE [pc |-> "next", trial |-> exp.trial + 1, run |-> 1]
            BY <1>3 DEF TakeRun
        <3>2. CASE exp.run = 1
            <4>1. exp' = [exp EXCEPT !.pc = "next", !.run = 2]
                BY <3>1, <3>2
            <4> QED BY <1>1, <3>2, <4>1
        <3>3. CASE exp.run = 2
            <4>1. exp' = [pc |-> "next", trial |-> exp.trial + 1, run |-> 1]
                BY <3>1, <3>3
            <4> QED BY <3>3, <4>1
        <3> QED BY <1>1, <3>2, <3>3
    <2>9. \A a \in Arms : Len(runs'[a]) = Taken(a)'
        <3> SUFFICES ASSUME NEW a \in Arms PROVE Len(runs'[a]) = Taken(a)'
            OBVIOUS
        <3>1. a = Order(exp.trial)[1] <=> a # Order(exp.trial)[2]
            BY <1>1, OrderFacts
        <3>2. CASE exp.run = 1
            <4>1. Taken(a) = exp.trial - 1
                BY <3>2, <1>1 DEF Taken
            <4>2. Taken(a)' = exp.trial - 1 + IF a = Arm THEN 1 ELSE 0
                BY <1>2, <2>8, <3>2 DEF Taken
            <4> QED BY <2>7, <4>1, <4>2
        <3>3. CASE exp.run = 2
            <4>1. Taken(a) = exp.trial - 1 + IF a = Arm THEN 0 ELSE 1
                BY <1>2, <3>1, <3>3 DEF Taken
            <4>2. Taken(a)' = exp.trial
                BY <1>1, <2>8, <3>3 DEF Taken
            <4> QED BY <1>1, <2>7, <4>1, <4>2
        <3> QED BY <1>1, <3>2, <3>3
    <2>10. /\ exp'.trial \in 1..(Trials + 1)
           /\ exp'.trial = Trials + 1 => exp'.run = 1
        BY <1>1, <2>8
    <2> QED BY <2>4, <2>6, <2>8, <2>9, <2>10 DEF Underway
<1>4. CASE ~SameContext
    <2>1. exp'.pc = "context_changed" /\ UNCHANGED <<runs, context>>
        BY <1>1, <1>4 DEF TakeRun
    <2> QED BY <1>1, <2>1 DEF Underway
<1> QED BY <1>3, <1>4

\* The manifest is built of what its own verification looks for.
LEMMA DecideKeeps ==
    ASSUME ExperimentInv, Decide
    PROVE  Underway'
<1>1. /\ exp \in [pc: ExpStates, trial: Nat, run: {1, 2}]
      /\ runs \in [Arms -> Seq(Artifacts)] /\ Trials \in Nat \ {0}
      /\ exp.pc = "next" /\ exp.trial \in 1..(Trials + 1) /\ exp.trial > Trials
      /\ exp.trial = Trials + 1 => exp.run = 1
      /\ \A a \in Arms : Len(runs[a]) = Taken(a)
      /\ \A a \in Arms : \A i \in 1..Len(runs[a]) : runs[a][i].served = context
    BY TrialsAssumption, SMTT(20) DEF Decide, ExperimentInv, RunInv, RunTypes, Underway
<1>2. \A a \in Arms : Len(runs[a]) = Trials
    BY <1>1 DEF Taken
<1>3. PICK s \in (IF Numeric(runs) THEN Statistics(runs) ELSE {"none"}) :
        result' = Manifest(runs, s)
    BY DEF Decide
<1>4. /\ result'.statistics = s
      /\ <<result'.verdict, result'.reason>> = DecisionOn(runs, s)
    <2>1. DecisionOn(runs, s) = <<DecisionOn(runs, s)[1], DecisionOn(runs, s)[2]>>
        <3>1. HardGate(runs) \in {<<"INCONCLUSIVE", "BASELINE_HARD_GATE_FAILED">>,
                                  <<"REJECT", "CANDIDATE_HARD_GATE_FAILED">>, <<>>}
            BY DEF HardGate
        <3>2. \/ DecisionOn(runs, s) = <<"INCONCLUSIVE", "BASELINE_HARD_GATE_FAILED">>
              \/ DecisionOn(runs, s) = <<"REJECT", "CANDIDATE_HARD_GATE_FAILED">>
              \/ DecisionOn(runs, s) = <<"INCONCLUSIVE", "METRIC_UNMEASURABLE">>
              \/ DecisionOn(runs, s) = <<VerdictOf(s), s>>
            BY <3>1 DEF DecisionOn
        <3> QED BY <3>2
    <2> DEFINE decision == DecisionOn(runs, s)
    <2>2. result' = [verdict |-> decision[1], reason |-> decision[2], statistics |-> s]
        BY <1>3 DEF Manifest
    <2> HIDE DEF decision
    <2> QED BY <2>1, <2>2 DEF decision
<1>5. s = "none" <=> ~Numeric(runs)
    <2>1. "none" \notin Statistics(runs)
        BY DEF Statistics
    <2> QED BY <1>3, <2>1
<1>6. s # "none" => s \in Statistics(runs)
    BY <1>3, <1>5
<1>7. \A a \in Arms : \A i \in DOMAIN runs[a] :
        /\ runs[a][i].status \in {"ok", "degraded"}
        /\ runs[a][i].served = runs["baseline"][1].served
    <2> SUFFICES ASSUME NEW a \in Arms, NEW i \in DOMAIN runs[a]
                 PROVE  /\ runs[a][i].status \in {"ok", "degraded"}
                        /\ runs[a][i].served = runs["baseline"][1].served
        OBVIOUS
    <2>1. i \in 1..Len(runs[a]) /\ runs[a][i] \in Artifacts
        BY <1>1, ElementOfSeq
    <2>2. "baseline" \in Arms /\ 1 \in 1..Len(runs["baseline"])
        BY <1>1, <1>2 DEF Arms
    <2> QED BY <1>1, <2>1, <2>2 DEF Artifacts
<1>8. Verified(result', runs)
    BY <1>2, <1>4, <1>5, <1>6, <1>7, Zenon DEF Verified
<1>9. exp'.pc = "sealed" /\ UNCHANGED <<runs, context>>
    BY <1>1, <1>8 DEF Decide
<1> QED BY <1>1, <1>8, <1>9 DEF Underway

LEMMA UnderwayStep ==
    ASSUME ExperimentInv, [Next]_vars
    PROVE  Underway'
<1>1. ASSUME UNCHANGED <<exp, runs, context, result>> PROVE Underway'
    BY <1>1 DEF ExperimentInv, Underway, Taken
<1>2. CASE BenchmarkStep
    BY <1>1, <1>2 DEF BenchmarkStep, expVars
<1>3. CASE CallRunner
    <2>1. /\ exp \in [pc: ExpStates, trial: Nat, run: {1, 2}] /\ Trials \in Nat
          /\ exp.pc = "next" /\ exp.trial <= Trials
          /\ exp' = [exp EXCEPT !.pc = "running"] /\ UNCHANGED <<runs, context, result>>
        BY <1>3, TrialsAssumption DEF CallRunner, ExperimentInv, RunInv, RunTypes
    <2>2. exp'.pc = "running" /\ exp'.trial = exp.trial /\ exp'.run = exp.run
        BY <2>1
    <2>3. exp.trial # Trials + 1
        BY <2>1
    <2> QED BY <2>1, <2>2, <2>3 DEF ExperimentInv, Underway, Taken
<1>4. CASE RunnerRaises
    <2>1. exp'.pc = "runner_failed" /\ UNCHANGED <<runs, context, result>>
        BY <1>4 DEF RunnerRaises, ExperimentInv, RunInv, RunTypes
    <2> QED BY <2>1 DEF ExperimentInv, Underway
<1>5. CASE UNCHANGED vars
    BY <1>1, <1>5 DEF vars
<1> QED BY <1>2, <1>3, <1>4, <1>5, TakeRunKeeps, DecideKeeps DEF Next, ExperimentStep

LEMMA ExperimentInvStep == ExperimentInv /\ [Next]_vars => ExperimentInv'
BY RunInvStep, MeasuringStep, UnderwayStep DEF ExperimentInv

-----------------------------------------------------------------------------
(* The decision.                                                           *)

\* A resample that meets the threshold, or misses it, shows a pair of runs that does.
LEMMA EffectShown ==
    ASSUME runs \in [Arms -> Seq(Artifacts)], \A a \in Arms : Len(runs[a]) = Trials,
           NEW good \in BOOLEAN, SomeEffect(runs, good)
    PROVE  \E i, j \in 1..Trials :
             Meets(runs["baseline"][i].rate, runs["candidate"][j].rate) = good
<1> DEFINE base == Rates(runs, "baseline")
           cand == Rates(runs, "candidate")
<1>1. \A a \in Arms : /\ DOMAIN runs[a] = 1..Trials
                      /\ \A i \in 1..Trials : runs[a][i] \in Artifacts
    <2> SUFFICES ASSUME NEW a \in Arms
                 PROVE  /\ DOMAIN runs[a] = 1..Trials
                        /\ \A i \in 1..Trials : runs[a][i] \in Artifacts
        OBVIOUS
    <2>1. runs[a] \in Seq(Artifacts) /\ Len(runs[a]) = Trials
        OBVIOUS
    <2> QED BY <2>1, LenProperties, ElementOfSeq
<1>2. /\ base \in [1..Trials -> Int] /\ cand \in [1..Trials -> Int]
      /\ \A i \in 1..Trials : base[i] = runs["baseline"][i].rate /\ cand[i] = runs["candidate"][i].rate
    <2>1. "baseline" \in Arms /\ "candidate" \in Arms
        BY DEF Arms
    <2>2. \A a \in Arms : \A i \in 1..Trials : runs[a][i].rate \in Int
        BY <1>1 DEF Artifacts
    <2> QED BY <1>1, <2>1, <2>2 DEF Rates
<1>3. PICK B \in Resamples(base), C \in Resamples(cand) : Meets(B, C) = good
    <2>1. PICK e \in Effects(runs) : Meets(e[1], e[2]) = good
        BY DEF SomeEffect
    <2> QED BY <2>1 DEF Effects
<1> HIDE DEF base, cand
<1>4. PICK i \in 1..Trials, j \in 1..Trials : Meets(base[i], cand[j]) = Meets(B, C)
    BY <1>2, <1>3, SomePair
<1> QED BY <1>2, <1>3, <1>4

LEMMA SealedIsEarned == ExperimentInv => DecisionIsEarned
<1> SUFFICES ASSUME ExperimentInv, exp.pc = "sealed"
             PROVE  /\ result.verdict # "INCONCLUSIVE" =>
                         /\ AllOk(runs, "baseline")
                         /\ \A a, b \in Arms : \A i, j \in 1..Trials :
                              runs[a][i].served = runs[b][j].served
                    /\ result.verdict = "PROMOTE" =>
                         /\ AllOk(runs, "candidate") /\ Numeric(runs)
                         /\ \E i, j \in 1..Trials :
                              Meets(runs["baseline"][i].rate, runs["candidate"][j].rate)
                    /\ result.verdict = "REJECT" =>
                         \E i, j \in 1..Trials :
                            \/ runs["candidate"][i].status = "degraded"
                            \/ ~Meets(runs["baseline"][i].rate, runs["candidate"][j].rate)
    BY DEF DecisionIsEarned
<1>1. /\ runs \in [Arms -> Seq(Artifacts)] /\ Verified(result, runs)
      /\ \A a \in Arms : \A i \in 1..Len(runs[a]) : runs[a][i].served = context
    BY DEF ExperimentInv, Underway
<1>2. /\ \A a \in Arms : Len(runs[a]) = Trials
      /\ result.statistics = "none" <=> ~Numeric(runs)
      /\ result.statistics # "none" => result.statistics \in Statistics(runs)
      /\ <<result.verdict, result.reason>> = DecisionOn(runs, result.statistics)
    BY <1>1 DEF Verified
<1> DEFINE s == result.statistics
           hard == HardGate(runs)
<1>3. \/ hard = <<"INCONCLUSIVE", "BASELINE_HARD_GATE_FAILED">>
      \/ /\ AllOk(runs, "baseline") /\ ~AllOk(runs, "candidate")
         /\ hard = <<"REJECT", "CANDIDATE_HARD_GATE_FAILED">>
      \/ AllOk(runs, "baseline") /\ AllOk(runs, "candidate") /\ hard = <<>>
    BY DEF HardGate
<1>4. /\ hard # <<>> => <<result.verdict, result.reason>> = hard
      /\ hard = <<>> /\ s = "none" => result.verdict = "INCONCLUSIVE"
      /\ hard = <<>> /\ s # "none" => result.verdict = VerdictOf(s)
    BY <1>2 DEF DecisionOn
<1>5. "baseline" \in Arms /\ "candidate" \in Arms
    BY DEF Arms
<1>6. \A a, b \in Arms : \A i, j \in 1..Trials : runs[a][i].served = runs[b][j].served
    BY <1>1, <1>2
<1>7. ASSUME ~AllOk(runs, "candidate")
      PROVE  \E i \in 1..Trials : runs["candidate"][i].status = "degraded"
    <2>1. PICK i \in DOMAIN runs["candidate"] : runs["candidate"][i].status # "ok"
        BY <1>7 DEF AllOk
    <2>2. i \in 1..Trials /\ runs["candidate"][i] \in Artifacts
        BY <1>1, <1>2, <1>5, LenProperties, ElementOfSeq
    <2> QED BY <2>1, <2>2 DEF Artifacts
<1>8. s = "PROMOTE_ELIGIBLE" =>
        \E i, j \in 1..Trials : Meets(runs["baseline"][i].rate, runs["candidate"][j].rate)
    <2>1. s = "PROMOTE_ELIGIBLE" => SomeEffect(runs, TRUE)
        BY <1>2 DEF Statistics
    <2>2. SomeEffect(runs, TRUE) => \E i, j \in 1..Trials :
            Meets(runs["baseline"][i].rate, runs["candidate"][j].rate) = TRUE
        BY <1>1, <1>2, EffectShown
    <2> QED BY <2>1, <2>2
<1>9. s = "REJECT_INSUFFICIENT_EFFECT" =>
        \E i, j \in 1..Trials : ~Meets(runs["baseline"][i].rate, runs["candidate"][j].rate)
    <2>1. s = "REJECT_INSUFFICIENT_EFFECT" => SomeEffect(runs, FALSE)
        BY <1>2 DEF Statistics
    <2>2. SomeEffect(runs, FALSE) => \E i, j \in 1..Trials :
            Meets(runs["baseline"][i].rate, runs["candidate"][j].rate) = FALSE
        BY <1>1, <1>2, EffectShown
    <2> QED BY <2>1, <2>2
<1>10. /\ VerdictOf(s) = "PROMOTE" => s = "PROMOTE_ELIGIBLE"
       /\ VerdictOf(s) = "REJECT" => s = "REJECT_INSUFFICIENT_EFFECT"
    BY DEF VerdictOf
<1>11. Trials \in Nat /\ 1 \in 1..Trials
    BY TrialsAssumption
<1> HIDE DEF s, hard
<1>12. CASE hard = <<"INCONCLUSIVE", "BASELINE_HARD_GATE_FAILED">>
    BY <1>4, <1>12
<1>13. CASE /\ AllOk(runs, "baseline") /\ ~AllOk(runs, "candidate")
            /\ hard = <<"REJECT", "CANDIDATE_HARD_GATE_FAILED">>
    BY <1>4, <1>6, <1>7, <1>11, <1>13
<1>14. CASE AllOk(runs, "baseline") /\ AllOk(runs, "candidate") /\ hard = <<>>
    <2>1. CASE s = "none"
        BY <1>4, <1>14, <2>1
    <2>2. CASE s # "none"
        <3>1. result.verdict = VerdictOf(s) /\ Numeric(runs)
            BY <1>2, <1>4, <1>14, <2>2 DEF s
        <3> QED BY <1>6, <1>8, <1>9, <1>10, <1>14, <3>1
    <2> QED BY <2>1, <2>2
<1> QED BY <1>3, <1>12, <1>13, <1>14

-----------------------------------------------------------------------------

\* A sealed run has one outcome for every request its profile asks for, and no
\* thread of the group has sent before all have come to the barrier, for any plan
\* (run_quick_benchmark, _run_concurrency_group).
THEOREM SealedIsComplete == Spec => []EvidenceIsComplete
<1>1. RunInv => EvidenceIsComplete
    <2> SUFFICES ASSUME RunInv PROVE EvidenceIsComplete
        OBVIOUS
    <2>1. \A k \in Kinds : Rank(k) < 8
        BY KindFacts, RankFacts
    <2>2. phase = "sealed" => \A k \in Kinds : Len(outcomes[k]) = Plan[k]
        BY <2>1, RankFacts DEF RunInv, Progress
    <2>3. (\E w \in Workers : worker[w] = "done") => \A w \in Workers : worker[w] \in {"sending", "done"}
        BY DEF RunInv, Threads, PastBarrier
    <2> QED BY <2>2, <2>3 DEF EvidenceIsComplete
<1> QED BY <1>1, RunInvInit, RunInvStep, PTL DEF Spec

\* A thread with a request under way has the main thread in its pool and in the
\* run of its own arm, whatever timed out: the next arm does not start beside it
\* (run_ab_experiment, _run_concurrency_group).
THEOREM OneArmAtOnce == Spec => []ArmsDoNotOverlap
<1>1. RunInv => ArmsDoNotOverlap
    <2> SUFFICES ASSUME RunInv, NEW w \in Workers, worker[w] \in Busy
                 PROVE  phase = "concurrency" /\ exp.pc = "running"
        BY DEF ArmsDoNotOverlap
    <2>1. phase = "concurrency"
        BY BusyInside
    <2>2. phase \in Active
        BY <2>1, KindFacts DEF Active
    <2> QED BY <2>1, <2>2 DEF RunInv, PoolInPhase
<1> QED BY <1>1, RunInvInit, RunInvStep, PTL DEF Spec

\* For any plan, replies, number of trials and threshold: a manifest that promotes
\* or rejects has a healthy baseline and runs of one context; a promotion has some
\* pair of runs that shows the improvement, a rejection some failed run or some pair
\* that does not (run_ab_experiment, statistics.evaluate).
THEOREM DecisionEarned == Spec => []DecisionIsEarned
<1> QED BY ExperimentInitial, ExperimentInvStep, SealedIsEarned, PTL DEF Spec

\* The manifest run_ab_experiment builds is never refused by the verification it ends
\* with: every arm has its trials, in one context, and the decision is recomputed.
THEOREM ManifestHolds == Spec => []ManifestVerifies
<1>1. ExperimentInv => ManifestVerifies
    BY DEF ExperimentInv, Underway, ManifestVerifies
<1> QED BY <1>1, ExperimentInitial, ExperimentInvStep, PTL DEF Spec

=============================================================================
