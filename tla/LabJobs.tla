------------------------------- MODULE LabJobs -------------------------------
(***************************************************************************)
(* LabJobManager (lab_jobs.py): the HTTP handlers that start, read and     *)
(* cancel Lab jobs, the single worker thread of the pool, and the executor *)
(* with the progress and live callbacks it was handed (and may have leaked *)
(* to threads of its own).  Every action is one critical section under     *)
(* job.lock or the manager's lock.  Jobs are the identifiers uuid4 may     *)
(* draw; a state of a job that was never started is not visible.           *)
(***************************************************************************)
EXTENDS Integers, Sequences, FiniteSets

CONSTANTS
    Jobs,             \* job identifiers, each drawn at most once
    MaxJobs,          \* max_jobs: retained jobs
    EventBound,       \* the literal 64 of lines 360, 412 and 433
    MaxSamples,       \* telemetry_max_samples of the request
    MaxUpdates,       \* bound of the exploration: live updates per job
    Reported,         \* bound of the exploration: phases an executor reports
    ExecutorEscapes   \* may the executor raise a BaseException?

ASSUME MaxJobsAssumption == MaxJobs \in Nat \ {0}
ASSUME EventBoundAssumption == EventBound \in Nat /\ EventBound >= 2
ASSUME SamplesAssumption == MaxSamples \in Nat \ {0} /\ MaxUpdates \in Nat
ASSUME EscapesAssumption == ExecutorEscapes \in BOOLEAN
ASSUME ReportedAssumption ==
    Reported \subseteq {"PULLING", "NETWORK_CREATING", "STARTING", "READY",
                         "BENCHMARKING", "FINALIZING", "STOPPING"}

VARIABLES
    retained,   \* _jobs: the identifiers in insertion order
    job,        \* the LabJob objects, reachable or not
    queue,      \* the pool's work queue
    call,       \* what the worker did with the job: "none", "queued",
                \* "executing", "over", "escaped"
    open,       \* callbacks_open of the job's _run
    asking      \* cancel requests between get() and job.lock

vars == <<retained, job, queue, call, open, asking>>

-----------------------------------------------------------------------------
(* Values.                                                                 *)

Terminal == {"SUCCEEDED", "FAILED", "CANCELLED", "CLEANUP_FAILED"}
Phases == <<"PULLING", "NETWORK_CREATING", "STARTING", "READY",
            "BENCHMARKING", "FINALIZING", "STOPPING">>
ProgressStates == {Phases[i] : i \in DOMAIN Phases}
State == {"PLANNED", "CANCEL_REQUESTED"} \cup ProgressStates \cup Terminal

\* _PROGRESS_ORDER
Order(s) == CHOOSE i \in DOMAIN Phases : Phases[i] = s

ErrorKind == {"none", "executor_failed", "lifecycle_failed", "work_failed",
              "cleanup_failed", "finalization_failed"}

Job == [state: State, cancelRequested: BOOLEAN, cleanupVerified: BOOLEAN,
        result: BOOLEAN, error: ErrorKind, events: Seq(State),
        sequence: Nat, samples: Nat]

Planned == [state |-> "PLANNED", cancelRequested |-> FALSE,
            cleanupVerified |-> FALSE, result |-> FALSE, error |-> "none",
            events |-> <<"PLANNED">>, sequence |-> 0, samples |-> 0]

\* The outcomes LabExecutionOutcome.__post_init__ lets through.
Outcome ==
    {o \in [state: Terminal, artifact: BOOLEAN, error: ErrorKind, verified: BOOLEAN] :
        IF o.state = "SUCCEEDED"
        THEN o.verified /\ o.artifact /\ o.error = "none"
        ELSE ~o.artifact}

Started(j) == call[j] # "none"
Active(j) == Started(j) /\ job[j].state \notin Terminal

Init ==
    /\ retained = <<>>
    /\ job = [j \in Jobs |-> Planned]
    /\ queue = <<>>
    /\ call = [j \in Jobs |-> "none"]
    /\ open = [j \in Jobs |-> FALSE]
    /\ asking = {}

-----------------------------------------------------------------------------
(* The clients.                                                            *)

\* The jobs in _jobs after the oldest ones made room for one more.
Evicted(q) == IF Len(q) < MaxJobs THEN q
              ELSE SubSeq(q, Len(q) - MaxJobs + 2, Len(q))

\* Variant with a fault: a job that was asked to cancel counts as over.
Start_over_cancelled(j) ==
    /\ ~Started(j)
    /\ \A i \in DOMAIN retained :
          job[retained[i]].state \in Terminal \cup {"CANCEL_REQUESTED"}
    /\ retained' = Append(Evicted(retained), j)
    /\ queue' = Append(queue, j)
    /\ call' = [call EXCEPT ![j] = "queued"]
    /\ UNCHANGED <<job, open, asking>>

\* start(): single flight among the retained jobs, eviction, submission.
Start(j) ==
    /\ ~Started(j)
    /\ \A i \in DOMAIN retained : job[retained[i]].state \in Terminal
    /\ retained' = Append(Evicted(retained), j)
    /\ queue' = Append(queue, j)
    /\ call' = [call EXCEPT ![j] = "queued"]
    /\ UNCHANGED <<job, open, asking>>

\* cancel(), first half: get() finds the job under the manager's lock.
LookUp(j) ==
    /\ \E i \in DOMAIN retained : retained[i] = j
    /\ j \notin asking
    /\ asking' = asking \cup {j}
    /\ UNCHANGED <<retained, job, queue, call, open>>

\* An event is recorded while there is room.
Recorded(ev, s) == IF Len(ev) < EventBound THEN Append(ev, s) ELSE ev

\* Variant with a fault: a finished job is cancelled as well.
Cancel_unchecked(j) ==
    /\ j \in asking
    /\ asking' = asking \ {j}
    /\ job' = [job EXCEPT ![j].cancelRequested = TRUE,
                          ![j].state = "CANCEL_REQUESTED",
                          ![j].events = Recorded(@, "CANCEL_REQUESTED")]
    /\ UNCHANGED <<retained, queue, call, open>>

\* cancel(), second half, under job.lock: a terminal job is left alone.
Cancel(j) ==
    /\ j \in asking
    /\ asking' = asking \ {j}
    /\ IF job[j].state \in Terminal
       THEN UNCHANGED job
       ELSE job' = [job EXCEPT ![j].cancelRequested = TRUE,
                               ![j].state = "CANCEL_REQUESTED",
                               ![j].events = Recorded(@, "CANCEL_REQUESTED")]
    /\ UNCHANGED <<retained, queue, call, open>>

-----------------------------------------------------------------------------
(* The worker: _run.                                                       *)

Idle == \A j \in Jobs : call[j] # "executing"

TakeJob(j) ==
    /\ Idle /\ queue # <<>> /\ Head(queue) = j
    /\ queue' = Tail(queue)
    /\ UNCHANGED <<retained, asking>>

\* Variant with a fault: returns without recording the end.
RunCancelled_returns_early(j) ==
    /\ TakeJob(j)
    /\ job[j].cancelRequested
    /\ call' = [call EXCEPT ![j] = "over"]
    /\ UNCHANGED <<job, open>>

\* Cancelled while it waited: the executor is never called.
RunCancelled(j) ==
    /\ TakeJob(j)
    /\ job[j].cancelRequested
    /\ job' = [job EXCEPT ![j].state = "CANCELLED",
                          ![j].events = Append(@, "CANCELLED")]
    /\ call' = [call EXCEPT ![j] = "over"]
    /\ UNCHANGED open

RunStarts(j) ==
    /\ TakeJob(j)
    /\ ~job[j].cancelRequested
    /\ job' = [job EXCEPT ![j].state = "PULLING",
                          ![j].events = Append(@, "PULLING")]
    /\ call' = [call EXCEPT ![j] = "executing"]
    /\ open' = [open EXCEPT ![j] = TRUE]

-----------------------------------------------------------------------------
(* The callbacks: called by the executor or by a thread it leaked.  A call  *)
(* that raises, or that a cancelled job ignores, changes nothing.          *)

Listening(j) == open[j] /\ ~job[j].cancelRequested

\* Variant with a fault: a phase may be reported again.
Progress_backwards(j, s) ==
    /\ Listening(j)
    /\ job[j].state \in ProgressStates
    /\ job' = [job EXCEPT ![j].state = s,
                          ![j].events = IF @[Len(@)] = s THEN @ ELSE Recorded(@, s)]
    /\ UNCHANGED <<retained, queue, call, open, asking>>

\* progress(): state and phase move before the bound is looked at.
Progress(j, s) ==
    /\ Listening(j)
    /\ job[j].state \in ProgressStates
    /\ Order(s) >= Order(job[j].state)
    /\ job' = [job EXCEPT ![j].state = s,
                          ![j].events = IF @[Len(@)] = s THEN @ ELSE Recorded(@, s)]
    /\ UNCHANGED <<retained, queue, call, open, asking>>

\* live(): the snapshot is replaced and numbered.
Live(j, n) ==
    /\ Listening(j)
    /\ n <= MaxSamples
    /\ job[j].sequence < MaxUpdates
    /\ job' = [job EXCEPT ![j].sequence = @ + 1, ![j].samples = n]
    /\ UNCHANGED <<retained, queue, call, open, asking>>

-----------------------------------------------------------------------------
(* The end of the executor.                                                *)

\* Variant with a fault: a late result overrides the request to cancel.
Final_ignores_cancel(b, o) ==
    IF o.state = "CLEANUP_FAILED" \/ ~o.verified
    THEN [b EXCEPT !.state = "CLEANUP_FAILED", !.result = FALSE,
                   !.error = "cleanup_failed"]
    ELSE [b EXCEPT !.state = o.state, !.result = o.artifact, !.error = o.error]

\* The precedence of lines 396-411: an unproved cleanup, then cancellation.
Final(b, o) ==
    CASE o.state = "CLEANUP_FAILED" \/ ~o.verified ->
            [b EXCEPT !.state = "CLEANUP_FAILED", !.result = FALSE,
                      !.error = "cleanup_failed"]
      [] o.state # "CLEANUP_FAILED" /\ o.verified
            /\ (b.cancelRequested \/ o.state = "CANCELLED") ->
            [b EXCEPT !.state = "CANCELLED", !.result = FALSE, !.error = "none"]
      [] OTHER ->
            [b EXCEPT !.state = o.state, !.result = o.artifact, !.error = o.error]

\* Variant with a fault: the callbacks are not closed.
ExecutorReturns_stays_open(j, o) ==
    LET f == Final(job[j], o) IN
    /\ call[j] = "executing"
    /\ job' = [job EXCEPT ![j] = [f EXCEPT !.cleanupVerified = o.verified,
                                           !.events = Recorded(@, f.state)]]
    /\ call' = [call EXCEPT ![j] = "over"]
    /\ UNCHANGED <<retained, queue, open, asking>>

\* The executor returned a valid outcome.
ExecutorReturns(j, o) ==
    LET f == Final(job[j], o) IN
    /\ call[j] = "executing"
    /\ job' = [job EXCEPT ![j] = [f EXCEPT !.cleanupVerified = o.verified,
                                           !.events = Recorded(@, f.state)]]
    /\ call' = [call EXCEPT ![j] = "over"]
    /\ open' = [open EXCEPT ![j] = FALSE]
    /\ UNCHANGED <<retained, queue, asking>>

\* It raised an Exception, or returned something else: FAILED, also when the
\* job was cancelled, and the event is appended without a look at the bound.
ExecutorRaises(j) ==
    /\ call[j] = "executing"
    /\ job' = [job EXCEPT ![j].state = "FAILED", ![j].result = FALSE,
                          ![j].error = "executor_failed",
                          ![j].cleanupVerified = FALSE,
                          ![j].events = Append(@, "FAILED")]
    /\ call' = [call EXCEPT ![j] = "over"]
    /\ open' = [open EXCEPT ![j] = FALSE]
    /\ UNCHANGED <<retained, queue, asking>>

\* It raised a BaseException (the lifecycle re-raises one): the pool keeps it
\* in the future that nobody reads, and the job stays as it was.
ExecutorVanishes(j) ==
    /\ ExecutorEscapes
    /\ call[j] = "executing"
    /\ call' = [call EXCEPT ![j] = "escaped"]
    /\ UNCHANGED <<retained, job, queue, open, asking>>

-----------------------------------------------------------------------------

ClientStep(j) == Start(j) \/ LookUp(j) \/ Cancel(j)

CallbackStep(j) ==
    \/ \E s \in Reported : Progress(j, s)
    \/ \E n \in 0..(MaxSamples + 1) : Live(j, n)

WorkerStep(j) ==
    \/ RunCancelled(j)
    \/ RunStarts(j)
    \/ \E o \in Outcome : ExecutorReturns(j, o)
    \/ ExecutorRaises(j)
    \/ ExecutorVanishes(j)

Next == \E j \in Jobs : ClientStep(j) \/ CallbackStep(j) \/ WorkerStep(j)

\* The pool's thread runs what is queued, and an executor ends (its run is
\* bounded by deadlines); clients and callbacks owe nothing.
Spec == Init /\ [][Next]_vars /\ \A j \in Jobs : WF_vars(WorkerStep(j))

-----------------------------------------------------------------------------
(* Properties.                                                             *)

\* Types, and the retention bound start() enforces (lines 324-325).
LabJobsTypeOK ==
    /\ job \in [Jobs -> Job]
    /\ retained \in Seq(Jobs) /\ Len(retained) <= MaxJobs
    /\ queue \in Seq(Jobs)
    /\ call \in [Jobs -> {"none", "queued", "executing", "over",
                        "escaped"}]
    /\ open \in [Jobs -> BOOLEAN]
    /\ asking \subseteq Jobs

\* One Lab job at a time: two jobs are never both unfinished, the eviction of
\* start() never drops the unfinished one (its client could not cancel it any
\* more, and the next start() would not see it), and the worker thread has
\* nothing in its hands or its queue but that job.
OneActive ==
    \A j \in Jobs :
        /\ Active(j) => /\ \A k \in Jobs : Active(k) => k = j
                        /\ \E i \in DOMAIN retained : retained[i] = j
        /\ call[j] \in {"queued", "executing"} => Active(j)

\* What public_payload() may show: a result belongs to a job that succeeded,
\* with its cleanup proved, without an error, that nobody had cancelled before
\* it finished ("a cancelled job discards a late successful artifact").
ResultExposure ==
    \A j \in Jobs :
        job[j].result \/ job[j].state = "SUCCEEDED" =>
            /\ job[j].result /\ job[j].state = "SUCCEEDED"
            /\ job[j].cleanupVerified
            /\ ~job[j].cancelRequested
            /\ job[j].error = "none"

Rank(s) ==
    CASE s = "PLANNED" -> 0
      [] s \in ProgressStates -> Order(s)
      [] s = "CANCEL_REQUESTED" -> Len(Phases) + 1
      [] OTHER -> Len(Phases) + 2

\* The event log never goes back: phases advance, no phase is logged after a
\* cancel request, and nothing is logged after the end; only the request to
\* cancel may be repeated.  progress(), cancel() and _run all append to it.
EventsInOrder ==
    \A j \in Jobs : \A i \in 1..(Len(job[j].events) - 1) :
        LET a == job[j].events[i]
            b == job[j].events[i + 1]
        IN  \/ Rank(a) < Rank(b)
            \/ a = "CANCEL_REQUESTED" /\ b = a

\* "executor callbacks close at terminal return and cannot mutate later
\* snapshots": a finished job is never written again, neither by a callback
\* the executor leaked nor by a cancel request that was already looking it up.
TerminalFrozen ==
    [][\A j \in Jobs : job[j].state \in Terminal => job'[j] = job[j]]_vars

\* What the clients can tell of a job, and the jobs that show a result.
StatusOf(j) ==
    IF Started(j)
    THEN IF job[j].state \in Terminal THEN "closed"
         ELSE IF job[j].cancelRequested THEN "cancelling" ELSE "live"
    ELSE "new"

Shown == {j \in Jobs : job[j].state = "SUCCEEDED" /\ job[j].result}

Contract == INSTANCE JobContract WITH
    status <- [j \in Jobs |-> StatusOf(j)],
    published <- Shown

\* The contract of the job API: one job at a time, a job ends once, a cancelled
\* job never shows a result, and what a finished job shows does not change.
KeepsContract == Contract!ContractSafety

\* Every accepted job ends, so that the manager comes to accept another one,
\* unless its executor let a BaseException escape (line 384 catches Exception).
JobsEnd == \A j \in Jobs : Active(j) ~> ~Active(j) \/ call[j] = "escaped"

=============================================================================
