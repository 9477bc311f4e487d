------------------------------ MODULE DockerLab ------------------------------
(***************************************************************************)
(* The Inference Lab lifecycle driving the Docker backend: every backend   *)
(* call of LabLifecycle is the DockerBackend method of the same name, and  *)
(* the two agree on how the call ended.  Between the calls the daemon may  *)
(* carry out abandoned commands and the container may die.                 *)
(***************************************************************************)
EXTENDS LabLifecycle, DockerBackend

ASSUME CreatorsAssumption == Creators = Runs /\ Nobody = NoRun

vars == <<lock, cancel, run, outcome,
          networks, containers, hostPort, net, ctr, running, late, elapsed>>

Init == LifecycleInit /\ BackendInit

-----------------------------------------------------------------------------

\* The steps of a run that call no backend method.
LocalStep(r) ==
    \/ CheckPulled(r)
    \/ CheckReady(r)
    \/ CheckWorked(r)
    \/ \E e \in Endings : Work(r, e)
    \/ Return(r)

StartupCall(r, e) ==
    \/ Inspect(r, e) /\ inspect_capabilities(r, e)
    \/ Pull(r, e) /\ pull_image(r, e)
    \/ CreateNetwork(r, e) /\ create_network(r, e)
    \/ CreateContainer(r, e) /\ create_container(r, e)
    \/ StartContainer(r, e) /\ start_container(r, e)
    \/ WaitReady(r, e) /\ wait_ready(r, e)

CleanupCalls(r, e) ==
    \/ StopContainer(r, e) /\ stop_container(r, e)
    \/ RemoveContainer(r, e) /\ remove_container(r, e)
    \/ RemoveNetwork(r, e) /\ remove_network(r, e)
    \/ \E absent \in BOOLEAN :
          VerifyAbsent(r, e, absent) /\ verify_absent(r, e, absent)

Call(r, e) == (StartupCall(r, e) \/ CleanupCalls(r, e)) /\ elapsed' = 0

\* The call of wait_ready goes on.
KeepsWaiting(r) == run[r].pc = "wait_ready" /\ probe /\ UNCHANGED lifecycleVars

RunStep(r) ==
    \/ LocalStep(r) /\ UNCHANGED <<backendVars, elapsed>>
    \/ \E e \in Endings : Call(r, e)
    \/ KeepsWaiting(r)

CallerStep(r) ==
    \/ RequestCancel(r)
    \/ ExecuteCancelled(r)
    \/ ExecuteRejected(r)
    \/ ExecuteStarts(r)

DaemonStep == ContainerExits \/ \E c \in late : LateEffect(c)

Next ==
    \/ \E r \in Runs : RunStep(r)
    \/ \E r \in Runs : CallerStep(r) /\ UNCHANGED <<backendVars, elapsed>>
    \/ DaemonStep /\ UNCHANGED <<lifecycleVars, elapsed>>

\* The run waits for a reply of the served model.  The timeout of a probe is one
\* per read of its socket (docker_lab_backend.py 67-75), so a container that
\* trickles its reply keeps the probe, and wait_ready past its deadline.
InProbe(r) == run[r].pc = "wait_ready" /\ elapsed < ReadyDeadline /\ Served

\* What a run does when nothing interrupts it and no container keeps it.
UndisturbedStep(r) ==
    /\ ~InProbe(r)
    /\ \/ LocalStep(r) /\ UNCHANGED <<backendVars, elapsed>>
       \/ \E e \in Endings \ {"base"} : Call(r, e)
       \/ KeepsWaiting(r)

\* Deadlines bound every command of a run, and a probe that nothing answers; the
\* daemon, the callers, the cancellers and the served model may do nothing.
Spec == Init /\ [][Next]_vars /\ \A r \in Runs : WF_vars(UndisturbedStep(r))

-----------------------------------------------------------------------------
(* Properties.                                                             *)

TypeOK == LifecycleTypeOK /\ BackendTypeOK /\ elapsed \in 0..ReadyDeadline

Verified(r) == outcome[r].verified
OwnsNothing(r) == net # r /\ ctr # r

\* SUCCEEDED means that nothing the run created is left on the daemon, and that
\* no abandoned creation of its own can bring anything back: for ever, whatever
\* later runs on the same backend or late daemon effects do.
SuccessLeavesNothing ==
    \A r \in Runs : outcome[r].state = "SUCCEEDED" =>
        /\ OwnsNothing(r)
        /\ \A c \in late : c.obj = r => c.verb \notin {"network create", "create"}

\* cleanup_verified = True of any state (FAILED and CANCELLED too) means that
\* nothing the run created is left.  It holds when the daemon never carries out
\* a command after its client gave up.
VerifiedLeavesNothing ==
    \A r \in Runs : Verified(r) => OwnsNothing(r)

\* work() never talks to a container of another run or to a stale endpoint: the
\* published port, the held handles and the daemon's objects are the run's own.
WorkSeesOwnEndpoint ==
    \A r \in Runs : run[r].pc \in {"ready", "work"} =>
        hostPort = r /\ containers = r /\ networks = r /\ ctr = r /\ net = r

\* A removal that the daemon carried out while its reply was lost leaves a handle
\* without an object.  The backend fails closed: every run that starts from then
\* on is refused by create and fails its cleanup, so none of them succeeds.
StaleHandle == \/ containers # Nobody /\ ctr # containers
               \/ networks # Nobody /\ net # networks

StaleHandleFailsClosed ==
    \A s \in Runs :
        [](run[s].pc = "idle" /\ StaleHandle => [](outcome[s].state # "SUCCEEDED"))

\* The composition is a lifecycle over one particular backend: it takes no step
\* the lifecycle does not allow, and no backend method leaves a run stuck, but for
\* a wait_ready that the served model keeps in a probe.
ImplementsLifecycle ==
    LifecycleSafety /\ \A r \in Runs : WF_lifecycleVars(Progress(r)) \/ <>[]InProbe(r)

\* Every call of execute() that took the lock comes back, and the lock with it,
\* with the same exception: the loop of wait_ready ends at its deadline whether
\* the container dies, never listens or answers with errors
\* (docker_lab_backend.py 410-424, lab_lifecycle.py 136-272).
ExecuteReturns ==
    \A r \in Runs : (run[r].pc \in Active ~> lock # r) \/ <>[]InProbe(r)

=============================================================================
