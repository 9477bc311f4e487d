---------------------------- MODULE AutomationJobs ----------------------------
(***************************************************************************)
(* JobManager (automation.py): the quick-benchmark jobs of the local UI,   *)
(* one worker thread, and a runner that owns its own deadlines and knows   *)
(* nothing of cancellation.  Every action is one critical section under    *)
(* job._lock or the manager's lock.                                        *)
(***************************************************************************)
EXTENDS Integers, Sequences

CONSTANTS
    Jobs,            \* job identifiers, each drawn at most once
    MaxJobs,         \* max_jobs: retained jobs
    RunnerEscapes    \* may the runner raise a BaseException?

ASSUME MaxJobsAssumption == MaxJobs \in Nat \ {0}
ASSUME EscapesAssumption == RunnerEscapes \in BOOLEAN

VARIABLES
    retained,   \* _jobs: the identifiers in insertion order
    job,        \* the AutomationJob objects, reachable or not
    queue,      \* the pool's work queue
    call,       \* what the worker did with the job
    asking      \* cancel requests between get() and job._lock

vars == <<retained, job, queue, call, asking>>

-----------------------------------------------------------------------------

TERMINAL_STATES == {"SUCCEEDED", "FAILED", "CANCELLED"}

Job == [state: {"QUEUED", "RUNNING", "CANCEL_REQUESTED"} \cup TERMINAL_STATES,
        cancelRequested: BOOLEAN, result: BOOLEAN,
        error: {"none", "benchmark_failed"}]

Queued == [state |-> "QUEUED", cancelRequested |-> FALSE, result |-> FALSE,
           error |-> "none"]

Started(j) == call[j] # "none"
Active(j) == Started(j) /\ job[j].state \notin TERMINAL_STATES

Init ==
    /\ retained = <<>>
    /\ job = [j \in Jobs |-> Queued]
    /\ queue = <<>>
    /\ call = [j \in Jobs |-> "none"]
    /\ asking = {}

-----------------------------------------------------------------------------
(* The clients.                                                            *)

\* _evict_terminal makes room for one more; all retained jobs are terminal.
Evicted(q) == IF Len(q) < MaxJobs THEN q
              ELSE SubSeq(q, Len(q) - MaxJobs + 2, Len(q))

\* Variant with a fault: a job that was asked to cancel counts as over.
Start_over_cancelled(j) ==
    /\ ~Started(j)
    /\ \A i \in DOMAIN retained :
          job[retained[i]].state \in TERMINAL_STATES \cup {"CANCEL_REQUESTED"}
    /\ retained' = Append(Evicted(retained), j)
    /\ queue' = Append(queue, j)
    /\ call' = [call EXCEPT ![j] = "queued"]
    /\ UNCHANGED <<job, asking>>

Start(j) ==
    /\ ~Started(j)
    /\ \A i \in DOMAIN retained : job[retained[i]].state \in TERMINAL_STATES
    /\ retained' = Append(Evicted(retained), j)
    /\ queue' = Append(queue, j)
    /\ call' = [call EXCEPT ![j] = "queued"]
    /\ UNCHANGED <<job, asking>>

\* cancel(): get() under the manager's lock, then the job's own lock.
LookUp(j) ==
    /\ \E i \in DOMAIN retained : retained[i] = j
    /\ j \notin asking
    /\ asking' = asking \cup {j}
    /\ UNCHANGED <<retained, job, queue, call>>

Cancel(j) ==
    /\ j \in asking
    /\ asking' = asking \ {j}
    /\ job' = IF job[j].state \in TERMINAL_STATES THEN job
              ELSE [job EXCEPT ![j].cancelRequested = TRUE,
                               ![j].state = "CANCEL_REQUESTED"]
    /\ UNCHANGED <<retained, queue, call>>

-----------------------------------------------------------------------------
(* The worker: _run.                                                       *)

TakeJob(j) ==
    /\ \A k \in Jobs : call[k] # "running"
    /\ queue # <<>> /\ Head(queue) = j
    /\ queue' = Tail(queue)
    /\ UNCHANGED <<retained, asking>>

RunCancelled(j) ==
    /\ TakeJob(j)
    /\ job[j].cancelRequested
    /\ job' = [job EXCEPT ![j].state = "CANCELLED"]
    /\ call' = [call EXCEPT ![j] = "over"]

RunStarts(j) ==
    /\ TakeJob(j)
    /\ ~job[j].cancelRequested
    /\ job' = [job EXCEPT ![j].state = "RUNNING"]
    /\ call' = [call EXCEPT ![j] = "running"]

RunnerEnds(j) ==
    /\ call[j] = "running"
    /\ call' = [call EXCEPT ![j] = "over"]
    /\ UNCHANGED <<retained, queue, asking>>


RunnerRaises(j) ==
    /\ RunnerEnds(j)
    /\ job' = [job EXCEPT ![j] =
          IF @.cancelRequested
          THEN [@ EXCEPT !.state = "CANCELLED", !.error = "none"]
          ELSE [@ EXCEPT !.state = "FAILED", !.error = "benchmark_failed"]]

\* Variant with a fault: a late result overrides the request to cancel.
RunnerReturns_late_result(j) ==
    /\ RunnerEnds(j)
    /\ job' = [job EXCEPT ![j].state = "SUCCEEDED", ![j].result = TRUE]

RunnerReturns(j) ==
    /\ RunnerEnds(j)
    /\ job' = [job EXCEPT ![j] =
          IF @.cancelRequested
          THEN [@ EXCEPT !.state = "CANCELLED", !.result = FALSE]
          ELSE [@ EXCEPT !.state = "SUCCEEDED", !.result = TRUE]]

\* A BaseException stays in the future that nobody reads: the job never ends.
RunnerVanishes(j) ==
    /\ RunnerEscapes
    /\ call[j] = "running"
    /\ call' = [call EXCEPT ![j] = "escaped"]
    /\ UNCHANGED <<retained, job, queue, asking>>

-----------------------------------------------------------------------------

WorkerStep(j) ==
    \/ RunCancelled(j)
    \/ RunStarts(j)
    \/ RunnerRaises(j)
    \/ RunnerReturns(j)
    \/ RunnerVanishes(j)

Next == \E j \in Jobs : Start(j) \/ LookUp(j) \/ Cancel(j) \/ WorkerStep(j)

\* The pool's thread runs what is queued and the runner ends at its deadlines.
Spec == Init /\ [][Next]_vars /\ \A j \in Jobs : WF_vars(WorkerStep(j))

-----------------------------------------------------------------------------
(* Properties.                                                             *)

\* What the clients can tell of a job, and the jobs that show a result.
StatusOf(j) ==
    IF Started(j)
    THEN IF job[j].state \in TERMINAL_STATES THEN "closed"
         ELSE IF job[j].cancelRequested THEN "cancelling" ELSE "live"
    ELSE "new"

Shown == {j \in Jobs : job[j].state = "SUCCEEDED" /\ job[j].result}

Contract == INSTANCE JobContract WITH
    status <- [j \in Jobs |-> StatusOf(j)],
    published <- Shown

\* Same contract as the Lab jobs: one job at a time, ends once, and a cancelled
\* job never shows the result its runner came back with.
KeepsContract == Contract!ContractSafety

\* Every accepted job ends, so that the manager comes to accept another one,
\* unless its runner let a BaseException escape.
JobsEnd == \A j \in Jobs : Active(j) ~> ~Active(j) \/ call[j] = "escaped"

=============================================================================
