----------------------------- MODULE BenchmarkRun -----------------------------
(***************************************************************************)
(* run_quick_benchmark (benchmark_runner.py): preflight, warmup, the       *)
(* serial requests, one group of requests fired together by a pool of      *)
(* threads, the quality requests, the probe with a wrong key, and the      *)
(* artifact that is sealed from what was measured.  The main thread and    *)
(* the workers of the pool interleave; the endpoint answers as it likes.   *)
(***************************************************************************)
EXTENDS StreamMeasure, FiniteSets

CONSTANTS
    Plan,      \* how many requests of each kind the profile asks for
    Replies,   \* what the endpoint may answer to each kind (StreamMeasure)
    Walls      \* seconds a group may take

SerialKinds == {"warmup", "serial_fresh", "serial_edit", "quality_arithmetic",
                "quality_tool_call"}
Kinds == SerialKinds \cup {"concurrency"}

ASSUME PlanAssumption == Plan \in [Kinds -> Nat \ {0}]
ASSUME WallsAssumption == Walls \subseteq Nat \ {0}
ASSUME RepliesAssumption == \A k \in Kinds : \A reply \in Replies[k] : IsStream(reply.lines)

VARIABLES
    phase,      \* where the main thread is; "idle" between runs
    served,     \* preflight.served_model
    outcomes,   \* the measurements of each kind, in the order they were made
    pool,       \* the main thread inside the group, and what it has raised
    worker,     \* the threads of the group
    answers,    \* what each of them measured
    wall,       \* the wall interval of the group
    artifact    \* the sealed artifact

runVars == <<phase, served, outcomes, pool, worker, answers, wall, artifact>>

-----------------------------------------------------------------------------

Workers == 1..Plan["concurrency"]
Measurements == [k \in Kinds |-> {Measure(reply) : reply \in Replies[k]}]
NoAnswer == NoMeasurement("none")
Succeeded(m) == m.status \in SuccessStatuses

Following(kind) ==
    CASE kind = "warmup"             -> "serial_fresh"
      [] kind = "serial_fresh"       -> "serial_edit"
      [] kind = "serial_edit"        -> "concurrency"
      [] kind = "concurrency"        -> "quality_arithmetic"
      [] kind = "quality_arithmetic" -> "quality_tool_call"
      [] kind = "quality_tool_call"  -> "probe"

NoArtifact == [status |-> "none", metric |-> Unmeasurable, rate |-> 0, served |-> "none"]
NoPool == [pc |-> "none", next |-> 1, raised |-> FALSE, broken |-> FALSE]

RunInit ==
    /\ phase = "idle"
    /\ served = "none"
    /\ outcomes = [k \in Kinds |-> <<>>]
    /\ pool = NoPool
    /\ worker = [w \in Workers |-> "none"]
    /\ answers = [w \in Workers |-> NoAnswer]
    /\ wall = 0
    /\ artifact = NoArtifact

\* run_quick_benchmark is called: everything it keeps is local.
Call ==
    /\ phase \in {"idle", "sealed"}
    /\ phase' = "preflight"
    /\ served' = "none"
    /\ outcomes' = [k \in Kinds |-> <<>>]
    /\ pool' = NoPool
    /\ worker' = [w \in Workers |-> "none"]
    /\ answers' = [w \in Workers |-> NoAnswer]
    /\ wall' = 0
    /\ artifact' = NoArtifact

\* preflight_endpoint: the models and chat probes, or BenchmarkRunError;
\* names are those the endpoint may report.
Preflight(names) ==
    /\ phase = "preflight"
    /\ \/ \E name \in names : served' = name /\ phase' = "warmup"
       \/ phase' = "failed" /\ UNCHANGED served
    /\ UNCHANGED <<outcomes, pool, worker, answers, wall, artifact>>

\* _run_serial: one request at a time, whatever the ones before it gave.
SerialRequest ==
    /\ phase \in SerialKinds
    /\ \E m \in Measurements[phase] :
         outcomes' = [outcomes EXCEPT ![phase] = Append(@, m)]
    /\ IF Len(outcomes[phase]) + 1 < Plan[phase]
       THEN UNCHANGED phase ELSE phase' = Following(phase)
    /\ UNCHANGED <<served, pool, worker, answers, wall, artifact>>

-----------------------------------------------------------------------------
(* _run_concurrency_group: the pool is opened, every request gets a thread,  *)
(* and the threads meet at a barrier before they send.                       *)

OpenPool ==
    /\ phase = "concurrency" /\ pool.pc = "none"
    /\ pool' = [NoPool EXCEPT !.pc = "submit"]
    /\ UNCHANGED <<phase, served, outcomes, worker, answers, wall, artifact>>

Submit ==
    /\ pool.pc = "submit"
    /\ worker' = [worker EXCEPT ![pool.next] = "started"]
    /\ pool' = IF pool.next \in Workers /\ pool.next + 1 \in Workers
               THEN [pool EXCEPT !.next = @ + 1]
               ELSE [pool EXCEPT !.pc = "collect", !.next = 1]
    /\ UNCHANGED <<phase, served, outcomes, answers, wall, artifact>>

\* The exception leaves the with block, which waits for the threads it has.
Leave == pool' = [pool EXCEPT !.pc = "close", !.raised = TRUE]

\* A thread cannot be started.
SubmitFails ==
    /\ pool.pc = "submit" /\ Leave
    /\ UNCHANGED <<phase, served, outcomes, worker, answers, wall, artifact>>

\* Variant with a fault, for the mutation runs: the requests go without a barrier.
Arrive_ungated(w) ==
    /\ worker[w] = "started"
    /\ worker' = [worker EXCEPT ![w] = "sending"]
    /\ UNCHANGED <<phase, served, outcomes, pool, answers, wall, artifact>>

\* barrier.wait: the last one to come lets all of them go; a broken barrier
\* raises at once.
Arrive(w) ==
    /\ worker[w] = "started"
    /\ worker' = IF pool.broken THEN [worker EXCEPT ![w] = "broken"]
                 ELSE IF \A v \in Workers \ {w} : worker[v] = "waiting"
                 THEN [v \in Workers |-> "sending"]
                 ELSE [worker EXCEPT ![w] = "waiting"]
    /\ UNCHANGED <<phase, served, outcomes, pool, answers, wall, artifact>>

\* Variant with a fault, for the mutation runs: the wait has no timeout.
BarrierTimesOut_never == FALSE /\ UNCHANGED runVars

\* A waiter's timeout breaks the barrier for all that wait.
BarrierTimesOut ==
    /\ \E w \in Workers : worker[w] = "waiting"
    /\ worker' = [w \in Workers |-> IF worker[w] = "waiting" THEN "broken" ELSE worker[w]]
    /\ pool' = [pool EXCEPT !.broken = TRUE]
    /\ UNCHANGED <<phase, served, outcomes, answers, wall, artifact>>

\* The stream of a request ends.  The timeout is one per read of the socket
\* (transport.py 53, 96): an endpoint that keeps trickling never ends it.
Answered(w) ==
    /\ worker[w] = "sending"
    /\ \E m \in Measurements["concurrency"] : answers' = [answers EXCEPT ![w] = m]
    /\ worker' = [worker EXCEPT ![w] = "done"]
    /\ UNCHANGED <<phase, served, outcomes, pool, wall, artifact>>

\* future.result(): a result, or the exception of the worker.
Collect ==
    /\ pool.pc = "collect" /\ worker[pool.next] \in {"done", "broken"}
    /\ IF worker[pool.next] = "broken" THEN Leave
       ELSE pool' = IF pool.next + 1 \in Workers THEN [pool EXCEPT !.next = @ + 1]
                    ELSE [pool EXCEPT !.pc = "close"]
    /\ UNCHANGED <<phase, served, outcomes, worker, answers, wall, artifact>>

\* The stream outlasts the wait for its result: a waiter at the barrier would
\* have timed out long before.
ResultTimesOut ==
    /\ pool.pc = "collect" /\ worker[pool.next] = "sending" /\ Leave
    /\ UNCHANGED <<phase, served, outcomes, worker, answers, wall, artifact>>

Busy == {"started", "waiting", "sending"}

\* Variant with a fault, for the mutation runs: the pool is left without waiting.
PoolIdle_abandoned == TRUE

PoolIdle == \A w \in Workers : worker[w] \notin Busy

\* The pool has shut down: an exception escapes the run, or the outcomes count.
ClosePool ==
    /\ pool.pc = "close" /\ PoolIdle
    /\ IF pool.raised
       THEN phase' = "failed" /\ UNCHANGED <<outcomes, wall>>
       ELSE /\ phase' = Following("concurrency")
            /\ outcomes' = [outcomes EXCEPT !["concurrency"] = [w \in Workers |-> answers[w]]]
            /\ wall' \in Walls
    /\ pool' = [pool EXCEPT !.pc = "closed"]
    /\ UNCHANGED <<served, worker, answers, artifact>>

-----------------------------------------------------------------------------
(* The artifact.                                                           *)

All(kinds, Test(_)) == \A k \in kinds : \A i \in DOMAIN outcomes[k] : Test(outcomes[k][i])

\* _concurrency_block: the tokens of the requests that succeeded, unless one of
\* them has no count.  With no success at all the sum is 0.
TokensOf(ms) ==
    LET total[n \in 0..Len(ms)] ==
          IF n = 0 THEN 0 ELSE total[n - 1] + IF Succeeded(ms[n]) THEN ms[n].tokens ELSE 0
    IN  total[Len(ms)]
GroupTokens == TokensOf(outcomes["concurrency"])

GroupCounted ==
    \A i \in DOMAIN outcomes["concurrency"] :
       Succeeded(outcomes["concurrency"][i]) => outcomes["concurrency"][i].tokens # NoUsage

ArithmeticGate ==
    All({"quality_arithmetic"}, LAMBDA m : Succeeded(m) /\ RightNumber(m))
ToolCallGate ==
    Succeeded(outcomes["quality_tool_call"][1]) /\ RightCall(outcomes["quality_tool_call"][1])

\* run_status: the warmups, the probe, connectivity, quality and the rate.
RunOk(probe) ==
    /\ All({"warmup"}, Succeeded)
    /\ probe = "rejected"
    /\ All(Kinds \ {"warmup"}, LAMBDA m : m.status \notin ConnectivityStatuses)
    /\ ArithmeticGate /\ ToolCallGate
    /\ All(Kinds \ {"warmup"}, Succeeded)

\* _run_error_probe, then the aggregates, the gates and the sealed artifact.
\* Only a response that is not 2xx is a rejection.
ProbeAndSeal ==
    /\ phase = "probe"
    /\ \E probe \in {"rejected", "accepted", "unreachable"} :
         artifact' = [status |-> IF RunOk(probe) THEN "ok" ELSE "degraded",
                      metric |-> IF GroupCounted THEN "number" ELSE Unmeasurable,
                      rate   |-> IF GroupCounted THEN GroupTokens \div wall ELSE 0,
                      served |-> served]
    /\ phase' = "sealed"
    /\ UNCHANGED <<served, outcomes, pool, worker, answers, wall>>

WorkerStep == \E w \in Workers : Arrive(w) \/ Answered(w)
PoolStep == OpenPool \/ Submit \/ Collect \/ ClosePool
MainStep(names) == Preflight(names) \/ SerialRequest \/ PoolStep \/ ProbeAndSeal
TimerStep == BarrierTimesOut \/ ResultTimesOut
RunStep(names) == WorkerStep \/ MainStep(names) \/ TimerStep \/ SubmitFails

=============================================================================
