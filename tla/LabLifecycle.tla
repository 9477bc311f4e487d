---------------------------- MODULE LabLifecycle ----------------------------
(***************************************************************************)
(* One LabLifecycle object (lab_lifecycle.py) and the threads that call    *)
(* execute() on it.  A member of Runs is one such call, with a cancel      *)
(* event of its own.  The backend is the injected LabBackend protocol: here *)
(* a call may return, raise an Exception or raise a BaseException, and     *)
(* verify_absent may answer either way.  DockerLab.tla composes the same   *)
(* actions with the Docker backend.                                        *)
(***************************************************************************)
EXTENDS Sequences

CONSTANTS
    Runs,               \* calls of execute() on the one lifecycle object
    NoRun,              \* "nobody": the free lock
    CleanupInterrupts   \* may a BaseException strike inside a cleanup call?

ASSUME NoRunAssumption == NoRun \notin Runs
ASSUME CleanupInterruptsAssumption == CleanupInterrupts \in BOOLEAN

VARIABLES
    lock,      \* _active_lock: the run that owns it, or NoRun
    cancel,    \* the runs whose cancel_event is set
    run,       \* the local variables of _execute_owned, per run
    outcome    \* what execute() gave back: a LifecycleResult or an exception

lifecycleVars == <<lock, cancel, run, outcome>>

-----------------------------------------------------------------------------
(* Values.                                                                 *)

\* How a backend call, or work(), ended.
Endings == {"ok", "exception", "base"}

LabState == {"PLANNED", "PULLING", "NETWORK_CREATING", "STARTING", "READY",
             "BENCHMARKING", "FINALIZING", "CANCEL_REQUESTED", "STOPPING",
             "SUCCEEDED", "FAILED", "CANCELLED", "CLEANUP_FAILED"}

Startup == {"inspect", "pull", "pulled", "create_network", "create_container",
            "start_container", "wait_ready", "ready"}
Working == {"work", "worked"}
Cleanup == {"stop_container", "remove_container", "remove_network",
            "verify_absent"}
Active  == Startup \cup Working \cup Cleanup \cup {"return"}
Steps   == Active \cup {"idle", "done"}

ErrorKind == {"none", "work_failed", "lifecycle_failed", "cleanup_failed"}

LocalState ==
    [pc: Steps, events: Seq(LabState), attempted: SUBSET {"net", "ctr"},
     cancelled: BOOLEAN, error: ErrorKind, base: BOOLEAN,
     cleanupOk: BOOLEAN, result: BOOLEAN, calls: SUBSET Cleanup]

Outcome ==
    [state: {"none", "REJECTED", "RAISED", "SUCCEEDED", "FAILED", "CANCELLED",
             "CLEANUP_FAILED"},
     result: BOOLEAN, error: ErrorKind, verified: BOOLEAN]

NoOutcome == [state |-> "none", result |-> FALSE, error |-> "none",
              verified |-> FALSE]

Fresh == [pc |-> "idle", events |-> <<"PLANNED">>, attempted |-> {},
          cancelled |-> FALSE, error |-> "none", base |-> FALSE,
          cleanupOk |-> TRUE, result |-> FALSE, calls |-> {}]

LifecycleInit ==
    /\ lock = NoRun
    /\ cancel = {}
    /\ run = [r \in Runs |-> Fresh]
    /\ outcome = [r \in Runs |-> NoOutcome]

-----------------------------------------------------------------------------
(* Steps of the local state.                                               *)

Log(l, s) == [l EXCEPT !.events = Append(@, s)]

\* The finally block: what is cleaned up depends on what was attempted.
EnterCleanup(l) ==
    [Log(l, "STOPPING") EXCEPT
        !.pc = IF "ctr" \in l.attempted THEN "stop_container"
               ELSE IF "net" \in l.attempted THEN "remove_network"
               ELSE "verify_absent"]

Abort(l, e) == IF e = "base"
               THEN EnterCleanup([l EXCEPT !.base = TRUE])
               ELSE EnterCleanup([l EXCEPT !.error = "lifecycle_failed"])

\* A startup call that ended with e and is followed, when it returned, by next.
AfterCall(l, e, next) == IF e = "ok" THEN next ELSE Abort(l, e)

\* The two identical guards "if cancel.is_set(): cancelled = True".
CancelOr(r, l, next) ==
    IF r \in cancel THEN EnterCleanup([l EXCEPT !.cancelled = TRUE]) ELSE next

Becomes(r, l) ==
    /\ run' = [run EXCEPT ![r] = l]
    /\ UNCHANGED <<lock, cancel, outcome>>

-----------------------------------------------------------------------------
(* The caller and the canceller.                                           *)

\* Whoever holds the event (a request handler, the job manager) sets it.
RequestCancel(r) ==
    /\ r \notin cancel
    /\ cancel' = cancel \cup {r}
    /\ UNCHANGED <<lock, run, outcome>>

\* execute(), cancelled before it took the lock: no backend call at all.
ExecuteCancelled(r) ==
    /\ run[r].pc = "idle" /\ r \in cancel
    /\ run' = [run EXCEPT ![r] = Log([@ EXCEPT !.pc = "done"], "CANCELLED")]
    /\ outcome' = [outcome EXCEPT ![r] =
                     [NoOutcome EXCEPT !.state = "CANCELLED", !.verified = TRUE]]
    /\ UNCHANGED <<lock, cancel>>

\* execute() while another lab is active: LifecycleError, nothing done.
ExecuteRejected(r) ==
    /\ run[r].pc = "idle" /\ r \notin cancel /\ lock # NoRun
    /\ run' = [run EXCEPT ![r].pc = "done"]
    /\ outcome' = [outcome EXCEPT ![r] = [NoOutcome EXCEPT !.state = "REJECTED"]]
    /\ UNCHANGED <<lock, cancel>>

\* Variant with a fault, for the mutation runs: the lock is not asked for.
ExecuteStarts_unlocked(r) ==
    /\ run[r].pc = "idle" /\ r \notin cancel
    /\ lock' = r
    /\ run' = [run EXCEPT ![r] = Log([@ EXCEPT !.pc = "inspect"], "PULLING")]
    /\ UNCHANGED <<cancel, outcome>>

ExecuteStarts(r) ==
    /\ run[r].pc = "idle" /\ r \notin cancel /\ lock = NoRun
    /\ lock' = r
    /\ run' = [run EXCEPT ![r] = Log([@ EXCEPT !.pc = "inspect"], "PULLING")]
    /\ UNCHANGED <<cancel, outcome>>

-----------------------------------------------------------------------------
(* _execute_owned, one action per backend call or cancellation check.      *)

Inspect(r, e) ==
    LET l == run[r] IN
    /\ l.pc = "inspect"
    /\ Becomes(r, AfterCall(l, e, [l EXCEPT !.pc = "pull"]))

Pull(r, e) ==
    LET l == run[r] IN
    /\ l.pc = "pull"
    /\ Becomes(r, AfterCall(l, e, [l EXCEPT !.pc = "pulled"]))

CheckPulled(r) ==
    LET l == run[r] IN
    /\ l.pc = "pulled"
    /\ Becomes(r, CancelOr(r, l,
         Log([l EXCEPT !.pc = "create_network", !.attempted = {"net"}],
             "NETWORK_CREATING")))

CreateNetwork(r, e) ==
    LET l == run[r] IN
    /\ l.pc = "create_network"
    /\ Becomes(r, AfterCall(l, e,
         Log([l EXCEPT !.pc = "create_container", !.attempted = {"net", "ctr"}],
             "STARTING")))

CreateContainer(r, e) ==
    LET l == run[r] IN
    /\ l.pc = "create_container"
    /\ Becomes(r, AfterCall(l, e, [l EXCEPT !.pc = "start_container"]))

StartContainer(r, e) ==
    LET l == run[r] IN
    /\ l.pc = "start_container"
    /\ Becomes(r, AfterCall(l, e, [l EXCEPT !.pc = "wait_ready"]))

WaitReady(r, e) ==
    LET l == run[r] IN
    /\ l.pc = "wait_ready"
    /\ Becomes(r, AfterCall(l, e, Log([l EXCEPT !.pc = "ready"], "READY")))

CheckReady(r) ==
    LET l == run[r] IN
    /\ l.pc = "ready"
    /\ Becomes(r, CancelOr(r, l, Log([l EXCEPT !.pc = "work"], "BENCHMARKING")))

\* work(): an Exception is caught here, a BaseException by the outer handler.
Work(r, e) ==
    LET l == run[r] IN
    /\ l.pc = "work"
    /\ Becomes(r, CASE e = "ok"        -> [l EXCEPT !.pc = "worked"]
                    [] e = "exception" -> EnterCleanup([l EXCEPT !.error = "work_failed"])
                    [] e = "base"      -> EnterCleanup([l EXCEPT !.base = TRUE]))

\* Variant with a fault: the result is kept without looking at the event again.
CheckWorked_unconditional(r) ==
    LET l == run[r] IN
    /\ l.pc = "worked"
    /\ Becomes(r, EnterCleanup(Log([l EXCEPT !.result = TRUE], "FINALIZING")))

\* The late check: a cancelled run drops the candidate result.
CheckWorked(r) ==
    LET l == run[r] IN
    /\ l.pc = "worked"
    /\ Becomes(r, IF r \in cancel
                  THEN EnterCleanup(Log([l EXCEPT !.cancelled = TRUE], "CANCEL_REQUESTED"))
                  ELSE EnterCleanup(Log([l EXCEPT !.result = TRUE], "FINALIZING")))

-----------------------------------------------------------------------------
(* The finally block.                                                      *)

\* A BaseException inside a cleanup call leaves the finally block at once:
\* the calls that were to follow are not made, and the lock is released.
Escape(r, call) ==
    /\ CleanupInterrupts
    /\ run' = [run EXCEPT ![r].pc = "done", ![r].calls = @ \cup {call}]
    /\ outcome' = [outcome EXCEPT ![r] = [NoOutcome EXCEPT !.state = "RAISED"]]
    /\ lock' = NoRun
    /\ UNCHANGED cancel

\* Variant with a fault: one try block around all the cleanup calls.
CleanupCall_one_try(r, call, e, next) ==
    /\ run[r].pc = call
    /\ IF e = "base"
       THEN Escape(r, call)
       ELSE Becomes(r, [run[r] EXCEPT !.pc = IF e = "ok" THEN next ELSE "return",
                                      !.calls = @ \cup {call},
                                      !.cleanupOk = @ /\ e = "ok"])

\* An Exception is swallowed: it only clears cleanup_ok.
CleanupCall(r, call, e, next) ==
    /\ run[r].pc = call
    /\ IF e = "base"
       THEN Escape(r, call)
       ELSE Becomes(r, [run[r] EXCEPT !.pc = next,
                                      !.calls = @ \cup {call},
                                      !.cleanupOk = @ /\ e = "ok"])

StopContainer(r, e)   == CleanupCall(r, "stop_container", e, "remove_container")
RemoveContainer(r, e) == CleanupCall(r, "remove_container", e, "remove_network")
RemoveNetwork(r, e)   == CleanupCall(r, "remove_network", e, "verify_absent")

\* verify_absent: answering False counts as a failed cleanup.
VerifyAbsent(r, e, absent) ==
    CleanupCall(r, "verify_absent",
                IF e = "ok" /\ ~absent THEN "exception" ELSE e, "return")

\* Variant with a fault: a result in hand is published whatever the cleanup did.
Verdict_result_first(l) ==
    IF l.result
    THEN [state |-> "SUCCEEDED", result |-> TRUE, error |-> "none", verified |-> TRUE]
    ELSE [state |-> IF l.cancelled THEN "CANCELLED" ELSE "FAILED",
          result |-> FALSE, error |-> l.error, verified |-> l.cleanupOk]

\* Lines 240-272: the precedence of the terminal states.
Verdict(l) ==
    CASE ~l.cleanupOk ->
            [state |-> "CLEANUP_FAILED", result |-> FALSE,
             error |-> "cleanup_failed", verified |-> FALSE]
      [] l.cleanupOk /\ l.cancelled ->
            [state |-> "CANCELLED", result |-> FALSE,
             error |-> "none", verified |-> TRUE]
      [] l.cleanupOk /\ ~l.cancelled /\ l.error # "none" ->
            [state |-> "FAILED", result |-> FALSE,
             error |-> l.error, verified |-> TRUE]
      [] OTHER ->
            [state |-> "SUCCEEDED", result |-> l.result,
             error |-> "none", verified |-> TRUE]

\* Leaving execute(): the pending BaseException wins, the lock is released.
Return(r) ==
    LET l == run[r]
        o == IF l.base THEN [NoOutcome EXCEPT !.state = "RAISED"] ELSE Verdict(l)
    IN  /\ l.pc = "return"
        /\ outcome' = [outcome EXCEPT ![r] = o]
        /\ run' = [run EXCEPT ![r] =
                     IF l.base THEN [l EXCEPT !.pc = "done"]
                     ELSE Log([l EXCEPT !.pc = "done"], o.state)]
        /\ lock' = NoRun
        /\ UNCHANGED cancel

-----------------------------------------------------------------------------
(* The lifecycle over any backend.                                         *)

StartupStep(r, e) ==
    \/ Inspect(r, e)
    \/ Pull(r, e)
    \/ CreateNetwork(r, e)
    \/ CreateContainer(r, e)
    \/ StartContainer(r, e)
    \/ WaitReady(r, e)
    \/ Work(r, e)

CleanupStep(r, e) ==
    \/ StopContainer(r, e)
    \/ RemoveContainer(r, e)
    \/ RemoveNetwork(r, e)
    \/ \E absent \in BOOLEAN : VerifyAbsent(r, e, absent)

\* The thread inside execute(): everything but the decision to call it.
Progress(r) ==
    \/ CheckPulled(r)
    \/ CheckReady(r)
    \/ CheckWorked(r)
    \/ Return(r)
    \/ \E e \in Endings : StartupStep(r, e) \/ CleanupStep(r, e)

LifecycleNext ==
    \E r \in Runs :
        \/ RequestCancel(r)
        \/ ExecuteCancelled(r)
        \/ ExecuteRejected(r)
        \/ ExecuteStarts(r)
        \/ Progress(r)

LifecycleSafety == LifecycleInit /\ [][LifecycleNext]_lifecycleVars

\* Every backend call carries a deadline and work() owns its own; callers and
\* cancellers owe nothing.
LifecycleSpec == LifecycleSafety /\ \A r \in Runs : WF_lifecycleVars(Progress(r))

-----------------------------------------------------------------------------
(* Properties.                                                             *)

LifecycleTypeOK ==
    /\ lock \in Runs \cup {NoRun}
    /\ cancel \subseteq Runs
    /\ run \in [Runs -> LocalState]
    /\ outcome \in [Runs -> Outcome]

\* One lifecycle runs at most one lab: two calls are never both between the
\* acquisition and the release of _active_lock, whichever of them is cleaning
\* up, and the lock names the one that is.
SingleFlight ==
    /\ \A r, s \in Runs : run[r].pc \in Active /\ run[s].pc \in Active => r = s
    /\ \A r \in Runs : run[r].pc \in Active <=> lock = r

\* What the finally block owes for what was attempted.
Owed(attempted) ==
    {"verify_absent"}
        \cup (IF "ctr" \in attempted THEN {"stop_container", "remove_container"} ELSE {})
        \cup (IF "net" \in attempted THEN {"remove_network"} ELSE {})

\* A call that took the lock and returned a LifecycleResult made every cleanup
\* call it owed, whichever of the earlier ones raised: one failed cleanup call
\* never skips a later one.
FinalizerComplete ==
    \A r \in Runs :
        outcome[r].state \in {"SUCCEEDED", "FAILED", "CANCELLED", "CLEANUP_FAILED"}
            => \/ run[r].calls = Owed(run[r].attempted)
               \/ run[r].events = <<"PLANNED", "CANCELLED">>

\* A result is released only by a run whose work returned, which was not seen
\* cancelled, and whose every cleanup call succeeded; and such a run went
\* through every documented phase in order.
ResultIsEarned ==
    \A r \in Runs :
        (outcome[r].result \/ outcome[r].state = "SUCCEEDED") =>
            /\ outcome[r].result /\ outcome[r].state = "SUCCEEDED"
            /\ run[r].cleanupOk /\ run[r].error = "none"
            /\ run[r].events =
                 <<"PLANNED", "PULLING", "NETWORK_CREATING", "STARTING", "READY",
                   "BENCHMARKING", "FINALIZING", "STOPPING", "SUCCEEDED">>

\* A cancellation that arrives while the run is starting up or working is never
\* lost: whatever happens afterwards, that run does not succeed.
CancelIsNeverLost ==
    \A r \in Runs :
        [](r \in cancel /\ run[r].pc \in Startup \cup Working
             => [](outcome[r].state # "SUCCEEDED"))

=============================================================================
