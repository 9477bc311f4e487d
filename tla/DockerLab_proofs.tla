-------------------------- MODULE DockerLab_proofs --------------------------
(***************************************************************************)
(* Proofs about the lifecycle, first for any number of calls of execute()  *)
(* and any backend (LifecycleSpec), then on the Docker backend (Spec),     *)
(* with lost replies, late daemon effects and interrupted cleanups.        *)
(***************************************************************************)
EXTENDS DockerLab, SequenceTheorems, TLAPS

-----------------------------------------------------------------------------
(* The lifecycle over any backend.                                         *)

\* Logging a state and entering the finally block keep the local variables
\* within their types.
LEMMA LogType ==
    ASSUME NEW l \in LocalState, NEW s \in LabState
    PROVE  Log(l, s) \in LocalState
<1>1. Append(l.events, s) \in Seq(LabState)
  BY DEF LocalState
<1> DEFINE x == Append(l.events, s)
<1>2. x \in Seq(LabState) => [l EXCEPT !.events = x] \in LocalState
  <2> HIDE DEF x
  <2> QED BY DEF LocalState
<1> QED
  BY <1>1, <1>2 DEF Log

LEMMA EnterCleanupType ==
    ASSUME NEW l \in LocalState
    PROVE  EnterCleanup(l) \in LocalState
<1>1. Log(l, "STOPPING") \in LocalState
  BY LogType DEF LabState
<1>2. \A p \in Cleanup : [Log(l, "STOPPING") EXCEPT !.pc = p] \in LocalState
  BY <1>1 DEF LocalState, Steps, Active
<1> QED
  BY <1>2 DEF EnterCleanup, Cleanup

LEMMA AbortType ==
    ASSUME NEW l \in LocalState, NEW e
    PROVE  Abort(l, e) \in LocalState
<1>1. [l EXCEPT !.base = TRUE] \in LocalState
  BY DEF LocalState
<1>2. [l EXCEPT !.error = "lifecycle_failed"] \in LocalState
  BY DEF LocalState, ErrorKind
<1> QED
  BY <1>1, <1>2, EnterCleanupType DEF Abort

\* Where the finally block starts.
LEMMA EnterCleanupStep ==
    ASSUME NEW l \in LocalState
    PROVE  EnterCleanup(l).pc \in Cleanup
<1>1. Log(l, "STOPPING") \in LocalState
  BY LogType DEF LabState
<1> QED
  BY <1>1 DEF EnterCleanup, Cleanup, LocalState

LEMMA VerdictType ==
    ASSUME NEW l \in LocalState
    PROVE  Verdict(l) \in Outcome /\ Verdict(l).state \in LabState
<1>1. /\ l.cleanupOk \in BOOLEAN /\ l.cancelled \in BOOLEAN
      /\ l.result \in BOOLEAN /\ l.error \in ErrorKind
  BY DEF LocalState
<1> QED
  BY <1>1 DEF Verdict, Outcome, ErrorKind, LabState

-----------------------------------------------------------------------------
(* Types.                                                                  *)

\* A step of the local state of one run keeps the types.
LEMMA BecomesType ==
    ASSUME LifecycleTypeOK, NEW r \in Runs, NEW l \in LocalState, Becomes(r, l)
    PROVE  LifecycleTypeOK'
BY DEF Becomes, LifecycleTypeOK

\* A startup call that returns moves to a well-typed state; one that raises
\* enters the finally block.
LEMMA StartupCallType ==
    ASSUME LifecycleTypeOK, NEW r \in Runs, NEW e, NEW n \in LocalState,
           Becomes(r, AfterCall(run[r], e, n))
    PROVE  LifecycleTypeOK'
<1>1. run[r] \in LocalState
  BY DEF LifecycleTypeOK
<1>2. AfterCall(run[r], e, n) \in LocalState
  BY <1>1, AbortType DEF AfterCall
<1> QED
  BY <1>2, BecomesType

LEMMA CancelOrType ==
    ASSUME NEW r, NEW l \in LocalState, NEW n \in LocalState
    PROVE  CancelOr(r, l, n) \in LocalState
<1>1. [l EXCEPT !.cancelled = TRUE] \in LocalState
  BY DEF LocalState
<1> QED
  BY <1>1, EnterCleanupType DEF CancelOr

LEMMA CleanupCallType ==
    ASSUME LifecycleTypeOK, NEW r \in Runs, NEW e, NEW call \in Cleanup,
           NEW next \in Steps, CleanupCall(r, call, e, next)
    PROVE  LifecycleTypeOK'
<1>1. run[r] \in LocalState
  BY DEF LifecycleTypeOK
<1>2. CASE e = "base"
  <2> DEFINE l == [run[r] EXCEPT !.pc = "done", !.calls = @ \cup {call}]
  <2>1. l \in LocalState
    BY <1>1 DEF LocalState, Steps
  <2>2. [NoOutcome EXCEPT !.state = "RAISED"] \in Outcome
    BY DEF NoOutcome, Outcome, ErrorKind
  <2>3. Escape(r, call)
    BY <1>2 DEF CleanupCall
  <2>4. run' = [run EXCEPT ![r] = l]
    BY <2>3 DEF Escape
  <2>6. run' \in [Runs -> LocalState]
    <3> HIDE DEF l
    <3> QED BY <2>1, <2>4 DEF LifecycleTypeOK
  <2>5. outcome' \in [Runs -> Outcome]
    BY <2>2, <2>3 DEF Escape, LifecycleTypeOK
  <2> QED
    BY <2>3, <2>5, <2>6 DEF Escape, LifecycleTypeOK
<1>3. CASE e # "base"
  <2> DEFINE l == [run[r] EXCEPT !.pc = next, !.calls = @ \cup {call},
                                 !.cleanupOk = @ /\ e = "ok"]
  <2>1. l \in LocalState
    BY <1>1 DEF LocalState
  <2>2. Becomes(r, l)
    BY <1>3 DEF CleanupCall
  <2> QED
    BY <2>1, <2>2, BecomesType
<1> QED
  BY <1>2, <1>3

LEMMA TypeInit == LifecycleInit => LifecycleTypeOK
<1>1. Fresh \in LocalState
  BY DEF Fresh, LocalState, Steps, ErrorKind, LabState
<1>2. NoOutcome \in Outcome
  BY DEF NoOutcome, Outcome, ErrorKind
<1> QED
  BY <1>1, <1>2 DEF LifecycleInit, LifecycleTypeOK

LEMMA TypeStep ==
    LifecycleTypeOK /\ [LifecycleNext]_lifecycleVars => LifecycleTypeOK'
<1> SUFFICES ASSUME LifecycleTypeOK, [LifecycleNext]_lifecycleVars
             PROVE  LifecycleTypeOK'
  OBVIOUS
<1>1. CASE UNCHANGED lifecycleVars
  BY <1>1 DEF lifecycleVars, LifecycleTypeOK
<1>2. ASSUME NEW r \in Runs, RequestCancel(r)
      PROVE  LifecycleTypeOK'
  BY <1>2 DEF RequestCancel, LifecycleTypeOK
<1>3. ASSUME NEW r \in Runs, ExecuteCancelled(r)
      PROVE  LifecycleTypeOK'
  <2>1. [run[r] EXCEPT !.pc = "done"] \in LocalState
    BY ZenonT(40) DEF LifecycleTypeOK, LocalState, Steps
  <2>2. Log([run[r] EXCEPT !.pc = "done"], "CANCELLED") \in LocalState
    BY <2>1, LogType DEF LabState
  <2>3. [NoOutcome EXCEPT !.state = "CANCELLED", !.verified = TRUE] \in Outcome
    BY DEF NoOutcome, Outcome, ErrorKind
  <2> QED
    BY <1>3, <2>2, <2>3 DEF ExecuteCancelled, LifecycleTypeOK
<1>4. ASSUME NEW r \in Runs, ExecuteRejected(r)
      PROVE  LifecycleTypeOK'
  <2>1. [run[r] EXCEPT !.pc = "done"] \in LocalState
    BY ZenonT(40) DEF LifecycleTypeOK, LocalState, Steps
  <2>2. [NoOutcome EXCEPT !.state = "REJECTED"] \in Outcome
    BY DEF NoOutcome, Outcome, ErrorKind
  <2> QED
    BY <1>4, <2>1, <2>2 DEF ExecuteRejected, LifecycleTypeOK
<1>5. ASSUME NEW r \in Runs, ExecuteStarts(r)
      PROVE  LifecycleTypeOK'
  <2>1. [run[r] EXCEPT !.pc = "inspect"] \in LocalState
    BY ZenonT(40) DEF LifecycleTypeOK, LocalState, Steps, Active, Startup
  <2>2. Log([run[r] EXCEPT !.pc = "inspect"], "PULLING") \in LocalState
    BY <2>1, LogType DEF LabState
  <2> QED
    BY <1>5, <2>2 DEF ExecuteStarts, LifecycleTypeOK
<1>6. ASSUME NEW r \in Runs, NEW e \in Endings, StartupStep(r, e)
      PROVE  LifecycleTypeOK'
  <2>0. run[r] \in LocalState
    BY DEF LifecycleTypeOK
  <2>1. \A p \in Steps : [run[r] EXCEPT !.pc = p] \in LocalState
    BY <2>0 DEF LocalState
  <2>2. CASE Inspect(r, e)
    BY <2>1, <2>2, StartupCallType DEF Inspect, Steps, Active, Startup
  <2>3. CASE Pull(r, e)
    BY <2>1, <2>3, StartupCallType DEF Pull, Steps, Active, Startup
  <2>4. CASE CreateNetwork(r, e)
    <3>1. [run[r] EXCEPT !.pc = "create_container",
                         !.attempted = {"net", "ctr"}] \in LocalState
      BY <2>0 DEF LocalState, Steps, Active, Startup
    <3> QED
      BY <2>4, <3>1, LogType, StartupCallType DEF CreateNetwork, LabState
  <2>5. CASE CreateContainer(r, e)
    BY <2>1, <2>5, StartupCallType DEF CreateContainer, Steps, Active, Startup
  <2>6. CASE StartContainer(r, e)
    BY <2>1, <2>6, StartupCallType DEF StartContainer, Steps, Active, Startup
  <2>7. CASE WaitReady(r, e)
    <3>1. Log([run[r] EXCEPT !.pc = "ready"], "READY") \in LocalState
      BY <2>1, LogType DEF LabState, Steps, Active, Startup
    <3> QED
      BY <2>7, <3>1, StartupCallType DEF WaitReady
  <2>8. CASE Work(r, e)
    <3>1. [run[r] EXCEPT !.error = "work_failed"] \in LocalState
      BY <2>0 DEF LocalState, ErrorKind
    <3>2. [run[r] EXCEPT !.base = TRUE] \in LocalState
      BY <2>0 DEF LocalState
    <3>3. [run[r] EXCEPT !.pc = "worked"] \in LocalState
      BY <2>1 DEF Steps, Active, Working
    <3>4. \E l \in LocalState : Becomes(r, l)
      BY <2>8, <3>1, <3>2, <3>3, EnterCleanupType DEF Work, Endings
    <3> QED
      BY <3>4, BecomesType
  <2> QED
    BY <1>6, <2>2, <2>3, <2>4, <2>5, <2>6, <2>7, <2>8 DEF StartupStep
<1>7. ASSUME NEW r \in Runs, NEW e \in Endings, CleanupStep(r, e)
      PROVE  LifecycleTypeOK'
  <2>1. CASE StopContainer(r, e)
    BY <2>1, CleanupCallType DEF StopContainer, Cleanup, Steps, Active
  <2>2. CASE RemoveContainer(r, e)
    BY <2>2, CleanupCallType DEF RemoveContainer, Cleanup, Steps, Active
  <2>3. CASE RemoveNetwork(r, e)
    BY <2>3, CleanupCallType DEF RemoveNetwork, Cleanup, Steps, Active
  <2>4. CASE \E absent \in BOOLEAN : VerifyAbsent(r, e, absent)
    BY <2>4, CleanupCallType DEF VerifyAbsent, Cleanup, Steps, Active
  <2> QED
    BY <1>7, <2>1, <2>2, <2>3, <2>4 DEF CleanupStep
<1>8. ASSUME NEW r \in Runs, CheckPulled(r)
      PROVE  LifecycleTypeOK'
  <2> DEFINE n == [run[r] EXCEPT !.pc = "create_network", !.attempted = {"net"}]
  <2>1. run[r] \in LocalState
    BY DEF LifecycleTypeOK
  <2>2. n \in LocalState
    BY <2>1 DEF LocalState, Steps, Active, Startup
  <2>3. CancelOr(r, run[r], Log(n, "NETWORK_CREATING")) \in LocalState
    BY <2>1, <2>2, LogType, CancelOrType DEF LabState
  <2> QED
    BY <1>8, <2>3, BecomesType DEF CheckPulled
<1>9. ASSUME NEW r \in Runs, CheckReady(r)
      PROVE  LifecycleTypeOK'
  <2> DEFINE n == [run[r] EXCEPT !.pc = "work"]
  <2>1. run[r] \in LocalState
    BY DEF LifecycleTypeOK
  <2>2. n \in LocalState
    BY <2>1 DEF LocalState, Steps, Active, Working
  <2>3. CancelOr(r, run[r], Log(n, "BENCHMARKING")) \in LocalState
    BY <2>1, <2>2, LogType, CancelOrType DEF LabState
  <2> QED
    BY <1>9, <2>3, BecomesType DEF CheckReady
<1>10. ASSUME NEW r \in Runs, CheckWorked(r)
       PROVE  LifecycleTypeOK'
  <2>1. run[r] \in LocalState
    BY DEF LifecycleTypeOK
  <2>2. [run[r] EXCEPT !.cancelled = TRUE] \in LocalState
    BY <2>1 DEF LocalState
  <2>3. [run[r] EXCEPT !.result = TRUE] \in LocalState
    BY <2>1 DEF LocalState
  <2>4. \E l \in LocalState : Becomes(r, l)
    BY <1>10, <2>2, <2>3, LogType, EnterCleanupType DEF CheckWorked, LabState
  <2> QED
    BY <2>4, BecomesType
<1>11. ASSUME NEW r \in Runs, Return(r)
       PROVE  LifecycleTypeOK'
  <2>1. run[r] \in LocalState
    BY DEF LifecycleTypeOK
  <2>2. [NoOutcome EXCEPT !.state = "RAISED"] \in Outcome
    BY DEF NoOutcome, Outcome, ErrorKind
  <2>3. [run[r] EXCEPT !.pc = "done"] \in LocalState
    BY <2>1 DEF LocalState, Steps
  <2>4. Log([run[r] EXCEPT !.pc = "done"], Verdict(run[r]).state) \in LocalState
    BY <2>1, <2>3, LogType, VerdictType
  <2> QED
    BY <1>11, <2>1, <2>2, <2>3, <2>4, VerdictType DEF Return, LifecycleTypeOK
<1> QED
  BY <1>1, <1>2, <1>3, <1>4, <1>5, <1>6, <1>7, <1>8, <1>9, <1>10, <1>11
  DEF LifecycleNext, Progress

\* The local variables of every run, the lock and the outcomes keep their types,
\* for any number of runs and any backend.
THEOREM LifecycleTypeCorrect == LifecycleSafety => []LifecycleTypeOK
<1> QED
  BY TypeInit, TypeStep, PTL DEF LifecycleSafety

-----------------------------------------------------------------------------
(* Single flight.                                                          *)

\* The lock names the one run that is between its acquisition and its release.
FlightInv == \A r \in Runs : run[r].pc \in Active <=> lock = r

\* A step inside the region that stays inside it keeps the invariant.
LEMMA StayActive ==
    ASSUME LifecycleTypeOK, FlightInv, NEW r \in Runs, NEW l, Becomes(r, l),
           run[r].pc \in Active, l.pc \in Active
    PROVE  FlightInv'
BY DEF LifecycleTypeOK, FlightInv, Becomes

\* A step that leaves the region and gives the lock back keeps it too.
LEMMA LeaveActive ==
    ASSUME LifecycleTypeOK, FlightInv, NEW r \in Runs, NEW l,
           run' = [run EXCEPT ![r] = l], l.pc = "done", lock' = NoRun,
           run[r].pc \in Active
    PROVE  FlightInv'
<1>1. "done" \notin Active
  BY DEF Active, Startup, Working, Cleanup
<1> QED
  BY <1>1, NoRunAssumption DEF LifecycleTypeOK, FlightInv

\* A step of a run that is idle before and done after it.
LEMMA NeverActive ==
    ASSUME LifecycleTypeOK, FlightInv, NEW r \in Runs, NEW l,
           run' = [run EXCEPT ![r] = l], l.pc = "done", UNCHANGED lock,
           run[r].pc = "idle"
    PROVE  FlightInv'
<1>1. "done" \notin Active /\ "idle" \notin Active
  BY DEF Active, Startup, Working, Cleanup
<1> QED
  BY <1>1, NoRunAssumption DEF LifecycleTypeOK, FlightInv

LEMMA LogStep ==
    ASSUME NEW l \in LocalState, NEW s
    PROVE  Log(l, s).pc = l.pc
BY DEF Log, LocalState

LEMMA LogAfterMove ==
    ASSUME NEW l \in LocalState, NEW p \in Steps, NEW s
    PROVE  Log([l EXCEPT !.pc = p], s).pc = p
<1>1. [l EXCEPT !.pc = p] \in LocalState /\ [l EXCEPT !.pc = p].pc = p
  BY DEF LocalState
<1> QED
  BY <1>1, LogStep

LEMMA StartupCallActive ==
    ASSUME LifecycleTypeOK, NEW r \in Runs, NEW e, NEW n, n.pc \in Active
    PROVE  AfterCall(run[r], e, n).pc \in Active
<1>1. run[r] \in LocalState
  BY DEF LifecycleTypeOK
<1>2. /\ [run[r] EXCEPT !.base = TRUE] \in LocalState
      /\ [run[r] EXCEPT !.error = "lifecycle_failed"] \in LocalState
  BY <1>1 DEF LocalState, ErrorKind
<1> QED
  BY <1>2, EnterCleanupStep DEF AfterCall, Abort, Active

LEMMA CancelOrActive ==
    ASSUME NEW r, NEW l \in LocalState, NEW n, n.pc \in Active
    PROVE  CancelOr(r, l, n).pc \in Active
<1>1. [l EXCEPT !.cancelled = TRUE] \in LocalState
  BY DEF LocalState
<1> QED
  BY <1>1, EnterCleanupStep DEF CancelOr, Active

LEMMA CleanupCallFlight ==
    ASSUME LifecycleTypeOK, FlightInv, NEW r \in Runs, NEW e, NEW call \in Cleanup,
           NEW next \in Active, CleanupCall(r, call, e, next)
    PROVE  FlightInv'
<1>1. run[r] \in LocalState /\ run[r].pc = call /\ call \in Active
  BY DEF LifecycleTypeOK, CleanupCall, Active
<1>2. CASE e = "base"
  <2>1. PICK l : run' = [run EXCEPT ![r] = l] /\ l.pc = "done"
    <3> DEFINE l == [run[r] EXCEPT !.pc = "done", !.calls = run[r].calls \cup {call}]
    <3>1. l.pc = "done"
      BY <1>1 DEF LocalState
    <3>2. run' = [run EXCEPT ![r] = l]
      BY <1>1, <1>2 DEF CleanupCall, Escape, LifecycleTypeOK, LocalState
    <3> QED
      BY <3>1, <3>2
  <2>2. lock' = NoRun
    BY <1>2 DEF CleanupCall, Escape
  <2> QED
    BY <1>1, <2>1, <2>2, LeaveActive
<1>3. CASE e # "base"
  <2> DEFINE l == [run[r] EXCEPT !.pc = next, !.calls = @ \cup {call},
                                 !.cleanupOk = @ /\ e = "ok"]
  <2>1. l.pc = next
    BY <1>1 DEF LocalState
  <2>2. Becomes(r, l)
    BY <1>3 DEF CleanupCall
  <2> QED
    BY <1>1, <2>1, <2>2, StayActive
<1> QED
  BY <1>2, <1>3

LEMMA FlightInit == LifecycleInit => FlightInv
<1>1. Fresh.pc \notin Active
  BY DEF Fresh, Active, Startup, Working, Cleanup
<1> QED
  BY <1>1, NoRunAssumption DEF LifecycleInit, FlightInv

LEMMA FlightStep ==
    LifecycleTypeOK /\ FlightInv /\ [LifecycleNext]_lifecycleVars => FlightInv'
<1> SUFFICES ASSUME LifecycleTypeOK, FlightInv, [LifecycleNext]_lifecycleVars
             PROVE  FlightInv'
  OBVIOUS
<1>a. \A r \in Runs : run[r] \in LocalState
  BY DEF LifecycleTypeOK
<1>b. \A r \in Runs, p \in Steps : [run[r] EXCEPT !.pc = p].pc = p
                                 /\ [run[r] EXCEPT !.pc = p] \in LocalState
  BY <1>a DEF LocalState
<1>1. CASE UNCHANGED lifecycleVars
  BY <1>1 DEF lifecycleVars, FlightInv
<1>2. ASSUME NEW r \in Runs, RequestCancel(r)
      PROVE  FlightInv'
  BY <1>2 DEF RequestCancel, FlightInv
<1>3. ASSUME NEW r \in Runs, ExecuteCancelled(r)
      PROVE  FlightInv'
  <2>1. Log([run[r] EXCEPT !.pc = "done"], "CANCELLED").pc = "done"
    BY <1>a, LogAfterMove DEF Steps
  <2> QED
    BY <1>3, <2>1, NeverActive DEF ExecuteCancelled
<1>4. ASSUME NEW r \in Runs, ExecuteRejected(r)
      PROVE  FlightInv'
  BY <1>4, <1>b, NeverActive DEF ExecuteRejected, Steps
<1>5. ASSUME NEW r \in Runs, ExecuteStarts(r)
      PROVE  FlightInv'
  <2> DEFINE l == Log([run[r] EXCEPT !.pc = "inspect"], "PULLING")
  <2>0. l.pc = "inspect"
    BY <1>a, LogAfterMove DEF Steps, Active, Startup
  <2>1. l.pc \in Active /\ run' = [run EXCEPT ![r] = l] /\ lock' = r
    BY <1>5, <2>0 DEF ExecuteStarts, Active, Startup
  <2>2. \A s \in Runs : run[s].pc \notin Active
    BY <1>5, NoRunAssumption DEF ExecuteStarts, FlightInv
  <2> HIDE DEF l
  <2> QED
    BY <2>1, <2>2 DEF FlightInv, LifecycleTypeOK
<1>6. ASSUME NEW r \in Runs, NEW e \in Endings, StartupStep(r, e)
      PROVE  FlightInv'
  <2>1. ASSUME NEW n, n.pc \in Active, run[r].pc \in Active,
               Becomes(r, AfterCall(run[r], e, n))
        PROVE  FlightInv'
    BY <2>1, StartupCallActive, StayActive
  <2>2. CASE Inspect(r, e)
    BY <2>1, <2>2, <1>b DEF Inspect, Steps, Active, Startup
  <2>3. CASE Pull(r, e)
    BY <2>1, <2>3, <1>b DEF Pull, Steps, Active, Startup
  <2>4. CASE CreateNetwork(r, e)
    <3> DEFINE m == [run[r] EXCEPT !.pc = "create_container",
                                   !.attempted = {"net", "ctr"}]
    <3>1. m \in LocalState /\ m.pc = "create_container"
      BY <1>a DEF LocalState, Steps, Active, Startup
    <3>2. Log(m, "STARTING").pc = "create_container"
      BY <3>1, LogStep
    <3> QED
      BY <2>1, <2>4, <3>2 DEF CreateNetwork, Active, Startup
  <2>5. CASE CreateContainer(r, e)
    BY <2>1, <2>5, <1>b DEF CreateContainer, Steps, Active, Startup
  <2>6. CASE StartContainer(r, e)
    BY <2>1, <2>6, <1>b DEF StartContainer, Steps, Active, Startup
  <2>7. CASE WaitReady(r, e)
    <3>1. Log([run[r] EXCEPT !.pc = "ready"], "READY").pc = "ready"
      BY <1>a, LogAfterMove DEF Steps, Active, Startup
    <3> QED
      BY <2>1, <2>7, <3>1 DEF WaitReady, Active, Startup
  <2>8. CASE Work(r, e)
    <3>1. /\ [run[r] EXCEPT !.error = "work_failed"] \in LocalState
          /\ [run[r] EXCEPT !.base = TRUE] \in LocalState
      BY <1>a DEF LocalState, ErrorKind
    <3>0. [run[r] EXCEPT !.pc = "worked"].pc = "worked"
      BY <1>a DEF LocalState
    <3>2. \E l : Becomes(r, l) /\ l.pc \in Active
      BY <2>8, <3>0, <3>1, EnterCleanupStep DEF Work, Endings, Active, Working
    <3> QED
      BY <2>8, <3>2, StayActive DEF Work, Active, Working
  <2> QED
    BY <1>6, <2>2, <2>3, <2>4, <2>5, <2>6, <2>7, <2>8 DEF StartupStep
<1>7. ASSUME NEW r \in Runs, NEW e \in Endings, CleanupStep(r, e)
      PROVE  FlightInv'
  <2>1. CASE StopContainer(r, e)
    BY <2>1, CleanupCallFlight DEF StopContainer, Cleanup, Active
  <2>2. CASE RemoveContainer(r, e)
    BY <2>2, CleanupCallFlight DEF RemoveContainer, Cleanup, Active
  <2>3. CASE RemoveNetwork(r, e)
    BY <2>3, CleanupCallFlight DEF RemoveNetwork, Cleanup, Active
  <2>4. CASE \E absent \in BOOLEAN : VerifyAbsent(r, e, absent)
    BY <2>4, CleanupCallFlight DEF VerifyAbsent, Cleanup, Active
  <2> QED
    BY <1>7, <2>1, <2>2, <2>3, <2>4 DEF CleanupStep
<1>8. ASSUME NEW r \in Runs, CheckPulled(r)
      PROVE  FlightInv'
  <2> DEFINE n == [run[r] EXCEPT !.pc = "create_network", !.attempted = {"net"}]
  <2>1. n \in LocalState /\ n.pc = "create_network"
    BY <1>a DEF LocalState, Steps, Active, Startup
  <2>2. Log(n, "NETWORK_CREATING").pc \in Active
    BY <2>1, LogStep DEF Active, Startup
  <2> QED
    BY <1>8, <1>a, <2>2, CancelOrActive, StayActive DEF CheckPulled, Active, Startup
<1>9. ASSUME NEW r \in Runs, CheckReady(r)
      PROVE  FlightInv'
  <2>0. Log([run[r] EXCEPT !.pc = "work"], "BENCHMARKING").pc = "work"
    BY <1>a, LogAfterMove DEF Steps, Active, Working
  <2>1. Log([run[r] EXCEPT !.pc = "work"], "BENCHMARKING").pc \in Active
    BY <2>0 DEF Active, Working
  <2> QED
    BY <1>9, <1>a, <2>1, CancelOrActive, StayActive
    DEF CheckReady, Active, Startup
<1>10. ASSUME NEW r \in Runs, CheckWorked(r)
       PROVE  FlightInv'
  <2>1. /\ [run[r] EXCEPT !.cancelled = TRUE] \in LocalState
        /\ [run[r] EXCEPT !.result = TRUE] \in LocalState
    BY <1>a DEF LocalState
  <2>2. \E l : Becomes(r, l) /\ l.pc \in Active
    BY <1>10, <2>1, LogType, EnterCleanupStep DEF CheckWorked, LabState, Active
  <2> QED
    BY <1>10, <2>2, StayActive DEF CheckWorked, Active, Working
<1>11. ASSUME NEW r \in Runs, Return(r)
       PROVE  FlightInv'
  <2>a. [run[r] EXCEPT !.pc = "done"].pc = "done"
    BY <1>a DEF LocalState
  <2>b. \A s : Log([run[r] EXCEPT !.pc = "done"], s).pc = "done"
    BY <1>a, LogAfterMove DEF Steps
  <2>1. \E l : run' = [run EXCEPT ![r] = l] /\ l.pc = "done"
    BY <1>11, <2>a, <2>b DEF Return
  <2> QED
    BY <1>11, <2>1, LeaveActive DEF Return, Active
<1> QED
  BY <1>1, <1>2, <1>3, <1>4, <1>5, <1>6, <1>7, <1>8, <1>9, <1>10, <1>11
  DEF LifecycleNext, Progress

\* One lifecycle runs at most one lab at a time, for any number of callers and
\* whatever the backend does.
THEOREM LifecycleSingleFlight == LifecycleSafety => []SingleFlight
<1>1. FlightInv => SingleFlight
  BY DEF FlightInv, SingleFlight
<1> QED
  BY <1>1, TypeInit, TypeStep, FlightInit, FlightStep, PTL DEF LifecycleSafety

-----------------------------------------------------------------------------
(* The finally block and the result.                                       *)

\* What is logged when a run that nothing has stopped is at p.
Pulling == <<"PLANNED", "PULLING">>
Networking == Append(Pulling, "NETWORK_CREATING")
Starting == Append(Networking, "STARTING")
Ready == Append(Starting, "READY")
Benchmarking == Append(Ready, "BENCHMARKING")

Trail(p) ==
    CASE p \in {"inspect", "pull", "pulled"}                             -> Pulling
      [] p = "create_network"                                            -> Networking
      [] p \in {"create_container", "start_container", "wait_ready"}     -> Starting
      [] p = "ready"                                                     -> Ready
      [] p \in {"work", "worked"}                                        -> Benchmarking

\* And after the finally block was entered with a result.
FullTrail == Append(Append(Benchmarking, "FINALIZING"), "STOPPING")

\* Nothing has gone wrong yet and nothing is cleaned up.
Unspoilt(l) ==
    /\ l.calls = {} /\ l.cleanupOk
    /\ ~l.result /\ l.error = "none" /\ ~l.cancelled /\ ~l.base
    /\ l.pc = "idle" => l.events = <<"PLANNED">>
    /\ l.pc # "idle" => l.events = Trail(l.pc)

\* The cleanup calls that are still to come.
Remaining(p) ==
    CASE p = "stop_container"   -> Cleanup
      [] p = "remove_container" -> Cleanup \ {"stop_container"}
      [] p = "remove_network"   -> {"remove_network", "verify_absent"}
      [] p = "verify_absent"    -> {"verify_absent"}
      [] p = "return"           -> {}

\* What was owed and is not still to come was called; a result has its trail,
\* and without one there is a reason.
CleaningUp(l) ==
    /\ l.pc # "return" => l.pc \in Owed(l.attempted)
    /\ l.calls = Owed(l.attempted) \ Remaining(l.pc)
    /\ l.result => l.events = FullTrail /\ ~l.cancelled /\ l.error = "none"
    /\ ~l.result => l.cancelled \/ l.error # "none" \/ l.base

LocalInv(l) ==
    /\ "ctr" \in l.attempted => "net" \in l.attempted
    /\ l.pc \in {"idle"} \cup Startup \cup Working => Unspoilt(l)
    /\ l.pc \in Cleanup \cup {"return"} => CleaningUp(l)

\* What the two properties say of one run.
Finished(l, o) ==
    /\ o.state \in {"SUCCEEDED", "FAILED", "CANCELLED", "CLEANUP_FAILED"} =>
         l.calls = Owed(l.attempted) \/ l.events = <<"PLANNED", "CANCELLED">>
    /\ o.result \/ o.state = "SUCCEEDED" =>
         /\ o.result /\ o.state = "SUCCEEDED" /\ l.cleanupOk /\ l.error = "none"
         /\ l.events = Append(FullTrail, "SUCCEEDED")

ResultInv ==
    \A r \in Runs :
        /\ LocalInv(run[r])
        /\ run[r].pc # "done" => outcome[r] = NoOutcome
        /\ run[r].pc = "done" => Finished(run[r], outcome[r])

\* Sequences are compared entry by entry.
LEMMA CancelledTrail == Append(<<"PLANNED">>, "CANCELLED") = <<"PLANNED", "CANCELLED">>
<1> DEFINE s == Append(<<"PLANNED">>, "CANCELLED")
           t == <<"PLANNED", "CANCELLED">>
<1>1. <<"PLANNED">> \in Seq(LabState) /\ Len(<<"PLANNED">>) = 1 /\ "CANCELLED" \in LabState
  BY DEF LabState
<1>2. s \in Seq(LabState) /\ Len(s) = 2 /\ s[1] = "PLANNED" /\ s[2] = "CANCELLED"
  BY <1>1, AppendProperties
<1>3. t \in Seq(LabState) /\ Len(t) = 2 /\ t[1] = "PLANNED" /\ t[2] = "CANCELLED"
  BY DEF LabState
<1> HIDE DEF s, t
<1>4. \A i \in 1..Len(s) : s[i] = t[i]
  <2>1. \A i \in 1..2 : i = 1 \/ i = 2
    OBVIOUS
  <2> QED
    BY <1>2, <1>3, <2>1
<1>5. s = t
  BY <1>2, <1>3, <1>4, SeqEqual
<1> QED
  BY <1>5 DEF s, t

LEMMA SucceededTrail ==
    Append(FullTrail, "SUCCEEDED") =
      <<"PLANNED", "PULLING", "NETWORK_CREATING", "STARTING", "READY",
        "BENCHMARKING", "FINALIZING", "STOPPING", "SUCCEEDED">>
<1> DEFINE t == <<"PLANNED", "PULLING", "NETWORK_CREATING", "STARTING", "READY",
                  "BENCHMARKING", "FINALIZING", "STOPPING", "SUCCEEDED">>
           Agree(s, n) == s \in Seq(LabState) /\ Len(s) = n /\ \A i \in 1..n : s[i] = t[i]
<1>1. /\ t \in Seq(LabState) /\ Len(t) = 9
      /\ t[1] = "PLANNED" /\ t[2] = "PULLING" /\ t[3] = "NETWORK_CREATING"
      /\ t[4] = "STARTING" /\ t[5] = "READY" /\ t[6] = "BENCHMARKING"
      /\ t[7] = "FINALIZING" /\ t[8] = "STOPPING" /\ t[9] = "SUCCEEDED"
  BY DEF LabState
<1>2. \A i \in 1..9 : t[i] \in LabState
  BY <1>1
<1>3. Agree(Pulling, 2)
  <2>1. /\ Pulling \in Seq(LabState) /\ Len(Pulling) = 2
        /\ Pulling[1] = "PLANNED" /\ Pulling[2] = "PULLING"
    BY DEF Pulling, LabState
  <2>2. \A i \in 1..2 : i = 1 \/ i = 2
    OBVIOUS
  <2> HIDE DEF t
  <2> QED
    BY <1>1, <2>1, <2>2
<1> HIDE DEF t
<1>4. ASSUME NEW s, NEW n \in 2..8, Agree(s, n)
      PROVE  Agree(Append(s, t[n + 1]), n + 1)
  <2>1. /\ Append(s, t[n + 1]) \in Seq(LabState) /\ Len(Append(s, t[n + 1])) = n + 1
        /\ \A i \in 1..n : Append(s, t[n + 1])[i] = s[i]
        /\ Append(s, t[n + 1])[n + 1] = t[n + 1]
    BY <1>2, <1>4, AppendProperties
  <2>2. \A i \in 1..(n + 1) : i \in 1..n \/ i = n + 1
    OBVIOUS
  <2> QED
    BY <1>4, <2>1, <2>2
<1> HIDE DEF Agree
<1>5. Agree(Networking, 3)
  BY <1>1, <1>3, <1>4 DEF Networking
<1>6. Agree(Starting, 4)
  BY <1>1, <1>5, <1>4 DEF Starting
<1>7. Agree(Ready, 5)
  BY <1>1, <1>6, <1>4 DEF Ready
<1>8. Agree(Benchmarking, 6)
  BY <1>1, <1>7, <1>4 DEF Benchmarking
<1>9. Agree(Append(Benchmarking, "FINALIZING"), 7)
  BY <1>1, <1>8, <1>4
<1>10. Agree(FullTrail, 8)
  BY <1>1, <1>9, <1>4 DEF FullTrail
<1>11. Agree(Append(FullTrail, "SUCCEEDED"), 9)
  BY <1>1, <1>10, <1>4
<1>12. Append(FullTrail, "SUCCEEDED") = t
  BY <1>1, <1>11, SeqEqual DEF Agree
<1> QED
  BY <1>12 DEF t

LEMMA RunKeeps ==
    ASSUME LifecycleTypeOK, ResultInv, NEW r \in Runs, NEW l \in LocalState, Becomes(r, l),
           run[r].pc # "done", l.pc # "done", LocalInv(l)
    PROVE  ResultInv'
BY DEF LifecycleTypeOK, ResultInv, Becomes

LEMMA FinallyKeeps ==
    ASSUME NEW l \in LocalState, l.calls = {}, "ctr" \in l.attempted => "net" \in l.attempted,
           l.result => Append(l.events, "STOPPING") = FullTrail /\ ~l.cancelled /\ l.error = "none",
           ~l.result => l.cancelled \/ l.error # "none" \/ l.base
    PROVE  LocalInv(EnterCleanup(l)) /\ EnterCleanup(l).pc # "done"
<1> DEFINE p == IF "ctr" \in l.attempted THEN "stop_container"
                ELSE IF "net" \in l.attempted THEN "remove_network" ELSE "verify_absent"
           m == EnterCleanup(l)
           trail == Append(l.events, "STOPPING")
<1>1. /\ m.pc = p /\ m.calls = {} /\ m.attempted = l.attempted /\ m.events = trail
      /\ m.result = l.result /\ m.cancelled = l.cancelled /\ m.error = l.error /\ m.base = l.base
  <2>1. Log(l, "STOPPING") = [l EXCEPT !.events = trail]
    BY DEF Log
  <2>2. m = [Log(l, "STOPPING") EXCEPT !.pc = p]
    BY <2>1 DEF EnterCleanup, LocalState
  <2> HIDE DEF m, p, trail
  <2> QED
    BY <2>1, <2>2 DEF LocalState
<1> HIDE DEF m, trail
<1>2. l.attempted \subseteq {"net", "ctr"}
  BY DEF LocalState
<1>3. p \in Owed(l.attempted) /\ Owed(l.attempted) \ Remaining(p) = {}
  BY <1>2 DEF Owed, Remaining, Cleanup
<1>4. p \in Cleanup /\ p # "return" /\ p # "done"
  BY DEF Cleanup
<1>5. p \notin {"idle"} \cup Startup \cup Working
  BY DEF Startup, Working
<1> HIDE DEF p
<1>6. CleaningUp(m)
  BY <1>1, <1>3 DEF CleaningUp, trail
<1>7. LocalInv(m) /\ m.pc # "done"
  BY <1>1, <1>4, <1>5, <1>6 DEF LocalInv
<1> QED
  BY <1>7 DEF m

\* A call, or work(), that raises.
LEMMA SpoiltKeeps ==
    ASSUME NEW l \in LocalState, LocalInv(l), l.pc \in Startup \cup Working
    PROVE  /\ \A e \in {"work_failed", "lifecycle_failed"} :
                LET m == EnterCleanup([l EXCEPT !.error = e])
                IN  m \in LocalState /\ LocalInv(m) /\ m.pc # "done"
           /\ LET m == EnterCleanup([l EXCEPT !.base = TRUE])
              IN  m \in LocalState /\ LocalInv(m) /\ m.pc # "done"
           /\ LET m == EnterCleanup([l EXCEPT !.cancelled = TRUE])
              IN  m \in LocalState /\ LocalInv(m) /\ m.pc # "done"
<1>1. Unspoilt(l) /\ ("ctr" \in l.attempted => "net" \in l.attempted)
  BY DEF LocalInv
<1>2. ASSUME NEW e \in {"work_failed", "lifecycle_failed"}
      PROVE  LET m == EnterCleanup([l EXCEPT !.error = e])
             IN  m \in LocalState /\ LocalInv(m) /\ m.pc # "done"
  <2> DEFINE n == [l EXCEPT !.error = e]
  <2>1. /\ n \in LocalState /\ n.error = e /\ n.calls = l.calls /\ n.attempted = l.attempted
        /\ n.result = l.result
    BY DEF LocalState, ErrorKind
  <2> HIDE DEF n
  <2>2. EnterCleanup(n) \in LocalState /\ LocalInv(EnterCleanup(n)) /\ EnterCleanup(n).pc # "done"
    BY <1>1, <2>1, EnterCleanupType, FinallyKeeps DEF Unspoilt
  <2> QED
    BY <2>2 DEF n
<1>3. LET m == EnterCleanup([l EXCEPT !.base = TRUE])
      IN  m \in LocalState /\ LocalInv(m) /\ m.pc # "done"
  <2> DEFINE n == [l EXCEPT !.base = TRUE]
  <2>1. /\ n \in LocalState /\ n.base /\ n.calls = l.calls /\ n.attempted = l.attempted
        /\ n.result = l.result
    BY DEF LocalState
  <2> HIDE DEF n
  <2>2. EnterCleanup(n) \in LocalState /\ LocalInv(EnterCleanup(n)) /\ EnterCleanup(n).pc # "done"
    BY <1>1, <2>1, EnterCleanupType, FinallyKeeps DEF Unspoilt
  <2> QED
    BY <2>2 DEF n
<1>4. LET m == EnterCleanup([l EXCEPT !.cancelled = TRUE])
      IN  m \in LocalState /\ LocalInv(m) /\ m.pc # "done"
  <2> DEFINE n == [l EXCEPT !.cancelled = TRUE]
  <2>1. /\ n \in LocalState /\ n.cancelled /\ n.calls = l.calls /\ n.attempted = l.attempted
        /\ n.result = l.result
    BY DEF LocalState
  <2> HIDE DEF n
  <2>2. EnterCleanup(n) \in LocalState /\ LocalInv(EnterCleanup(n)) /\ EnterCleanup(n).pc # "done"
    BY <1>1, <2>1, EnterCleanupType, FinallyKeeps DEF Unspoilt
  <2> QED
    BY <2>2 DEF n
<1> QED
  BY <1>2, <1>3, <1>4

\* A run that goes on without a fault: to p, having logged what is logged there.
LEMMA OnwardKeeps ==
    ASSUME NEW l \in LocalState, LocalInv(l), l.pc \in {"idle"} \cup Startup \cup Working,
           NEW n \in LocalState, n.pc \in Startup \cup Working,
           n.events = Trail(n.pc), "ctr" \in n.attempted => "net" \in n.attempted,
           n.calls = l.calls, n.cleanupOk = l.cleanupOk, n.result = l.result,
           n.error = l.error, n.cancelled = l.cancelled, n.base = l.base
    PROVE  LocalInv(n) /\ n.pc # "done"
<1>1. Unspoilt(l)
  BY DEF LocalInv
<1>2. n.pc \notin Cleanup \cup {"return", "idle", "done"}
  BY DEF Startup, Working, Cleanup
<1> QED
  BY <1>1, <1>2 DEF LocalInv, Unspoilt

\* A step that ends the call of execute().
LEMMA EndKeeps ==
    ASSUME LifecycleTypeOK, ResultInv, NEW r \in Runs, NEW l \in LocalState, NEW o,
           run' = [run EXCEPT ![r] = l], outcome' = [outcome EXCEPT ![r] = o],
           l.pc = "done", "ctr" \in l.attempted => "net" \in l.attempted, Finished(l, o)
    PROVE  ResultInv'
<1>1. "done" \notin {"idle", "return"} \cup Startup \cup Working \cup Cleanup
  BY DEF Startup, Working, Cleanup
<1>2. LocalInv(l)
  BY <1>1 DEF LocalInv
<1> QED
  BY <1>2 DEF LifecycleTypeOK, ResultInv

LEMMA CallKeeps ==
    ASSUME LifecycleTypeOK, ResultInv, NEW r \in Runs, NEW e, run[r].pc \in Startup,
           NEW n \in LocalState, LocalInv(n), n.pc # "done",
           Becomes(r, AfterCall(run[r], e, n))
    PROVE  ResultInv'
<1>1. run[r] \in LocalState /\ LocalInv(run[r]) /\ run[r].pc # "done"
  BY DEF LifecycleTypeOK, ResultInv, Startup
<1>2. /\ AfterCall(run[r], e, n) \in LocalState /\ LocalInv(AfterCall(run[r], e, n))
      /\ AfterCall(run[r], e, n).pc # "done"
  BY <1>1, SpoiltKeeps DEF AfterCall, Abort
<1> QED
  BY <1>1, <1>2, RunKeeps

\* A startup step that logs nothing.
LEMMA MoveKeeps ==
    ASSUME NEW l \in LocalState, LocalInv(l), l.pc \in Startup \cup Working,
           NEW p \in Startup \cup Working, Trail(p) = Trail(l.pc)
    PROVE  LET n == [l EXCEPT !.pc = p]
           IN  n \in LocalState /\ LocalInv(n) /\ n.pc # "done"
<1> DEFINE n == [l EXCEPT !.pc = p]
<1>1. p \in Steps /\ l.pc # "idle"
  BY DEF Steps, Active, Startup, Working
<1>2. /\ n \in LocalState /\ n.pc = p /\ n.events = l.events /\ n.attempted = l.attempted
      /\ n.calls = l.calls /\ n.cleanupOk = l.cleanupOk /\ n.result = l.result
      /\ n.error = l.error /\ n.cancelled = l.cancelled /\ n.base = l.base
  BY <1>1 DEF LocalState
<1>3. l.events = Trail(l.pc) /\ ("ctr" \in l.attempted => "net" \in l.attempted)
  BY <1>1 DEF LocalInv, Unspoilt
<1> HIDE DEF n
<1>4. LocalInv(n) /\ n.pc # "done"
  BY <1>2, <1>3, OnwardKeeps
<1> QED
  BY <1>2, <1>4 DEF n

\* A step that logs s and has attempted what is in a.
LEMMA LoggedKeeps ==
    ASSUME NEW l \in LocalState, LocalInv(l), l.pc \in {"idle"} \cup Startup \cup Working,
           NEW p \in Startup \cup Working, NEW s \in LabState, NEW n \in LocalState,
           n.pc = p, n.events = l.events, "ctr" \in n.attempted => "net" \in n.attempted,
           n.calls = l.calls, n.cleanupOk = l.cleanupOk, n.result = l.result,
           n.error = l.error, n.cancelled = l.cancelled, n.base = l.base,
           Append(l.events, s) = Trail(p)
    PROVE  Log(n, s) \in LocalState /\ LocalInv(Log(n, s)) /\ Log(n, s).pc # "done"
<1> DEFINE m == Log(n, s)
           trail == Append(n.events, s)
<1>1. m \in LocalState
  BY LogType
<1>2. m = [n EXCEPT !.events = trail]
  BY DEF Log
<1>3. trail = Trail(p)
  OBVIOUS
<1> HIDE DEF m, trail
<1>4. /\ m.pc = p /\ m.events = trail /\ m.attempted = n.attempted
      /\ m.calls = n.calls /\ m.cleanupOk = n.cleanupOk /\ m.result = n.result
      /\ m.error = n.error /\ m.cancelled = n.cancelled /\ m.base = n.base
  BY <1>2 DEF LocalState
<1>5. LocalInv(m) /\ m.pc # "done"
  BY <1>1, <1>3, <1>4, OnwardKeeps
<1> QED
  BY <1>1, <1>5 DEF m

\* The trail at a step is what the run has logged there.
LEMMA TrailIs ==
    ASSUME NEW l, LocalInv(l), l.pc \in Startup \cup Working
    PROVE  l.events = Trail(l.pc) /\ l.calls = {}
BY DEF LocalInv, Unspoilt, Startup, Working

LEMMA CleanupCallKeeps ==
    ASSUME LifecycleTypeOK, ResultInv, NEW r \in Runs, NEW e, NEW call \in Cleanup,
           NEW next, next = (CASE call = "stop_container"   -> "remove_container"
                               [] call = "remove_container" -> "remove_network"
                               [] call = "remove_network"   -> "verify_absent"
                               [] call = "verify_absent"    -> "return"),
           CleanupCall(r, call, e, next)
    PROVE  ResultInv'
<1> DEFINE l == run[r]
<1>0. l \in LocalState /\ LocalInv(l) /\ l.pc = call
  BY DEF LifecycleTypeOK, ResultInv, CleanupCall
<1>1. CleaningUp(l) /\ ("ctr" \in l.attempted => "net" \in l.attempted)
  BY <1>0 DEF LocalInv
<1>2. call # "return" /\ call # "done" /\ next \in Cleanup \cup {"return"}
  BY DEF Cleanup
<1>3. CASE e = "base"
  <2> DEFINE m == [l EXCEPT !.pc = "done", !.calls = l.calls \cup {call}]
             o == [NoOutcome EXCEPT !.state = "RAISED"]
  <2>1. run' = [run EXCEPT ![r] = m] /\ outcome' = [outcome EXCEPT ![r] = o]
    BY <1>0, <1>3 DEF CleanupCall, Escape, LifecycleTypeOK, LocalState
  <2>2. m \in LocalState /\ m.pc = "done" /\ m.attempted = l.attempted
    BY <1>0 DEF LocalState, Steps
  <2>3. o.state = "RAISED" /\ o.result = FALSE
    BY DEF NoOutcome
  <2>4. Finished(m, o)
    BY <2>3 DEF Finished
  <2> HIDE DEF m, o, l
  <2> QED
    BY <1>1, <2>1, <2>2, <2>4, EndKeeps
<1>4. CASE e # "base"
  <2> DEFINE m == [l EXCEPT !.pc = next, !.calls = l.calls \cup {call},
                            !.cleanupOk = l.cleanupOk /\ e = "ok"]
  <2>1. Becomes(r, m)
    BY <1>4 DEF CleanupCall
  <2>2. next \in Steps
    BY <1>2 DEF Steps, Active
  <2>3. /\ m \in LocalState /\ m.pc = next /\ m.calls = l.calls \cup {call}
        /\ m.attempted = l.attempted /\ m.events = l.events /\ m.result = l.result
        /\ m.cancelled = l.cancelled /\ m.error = l.error /\ m.base = l.base
    BY <1>0, <2>2 DEF LocalState
  <2> HIDE DEF m
  <2>4. l.attempted \subseteq {"net", "ctr"}
    BY <1>0 DEF LocalState
  <2>5. /\ call \in Owed(l.attempted) /\ l.calls = Owed(l.attempted) \ Remaining(call)
        /\ l.result => l.events = FullTrail /\ ~l.cancelled /\ l.error = "none"
        /\ ~l.result => l.cancelled \/ l.error # "none" \/ l.base
    BY <1>0, <1>1, <1>2 DEF CleaningUp
  <2> HIDE DEF l
  <2>6. Remaining(next) = Remaining(call) \ {call}
    BY DEF Remaining, Cleanup
  <2>7. m.calls = Owed(l.attempted) \ Remaining(next)
    BY <2>3, <2>5, <2>6
  <2>8. next # "return" => next \in Owed(l.attempted)
    BY <1>1, <2>5 DEF Owed, Cleanup
  <2>9. CleaningUp(m)
    BY <2>3, <2>5, <2>7, <2>8 DEF CleaningUp
  <2>10. next \notin {"idle", "done"} \cup Startup \cup Working
    BY <1>2 DEF Startup, Working, Cleanup
  <2>11. LocalInv(m) /\ m.pc # "done"
    BY <1>1, <2>3, <2>9, <2>10 DEF LocalInv
  <2>12. run[r].pc # "done"
    BY <1>0, <1>2 DEF l
  <2> QED
    BY <2>1, <2>3, <2>11, <2>12, RunKeeps
<1> QED
  BY <1>3, <1>4

\* A result leaves execute() only through the last clause of the verdict.
LEMMA ReturnKeeps ==
    ASSUME LifecycleTypeOK, ResultInv, NEW r \in Runs, Return(r)
    PROVE  ResultInv'
<1> DEFINE l == run[r]
           m == [l EXCEPT !.pc = "done"]
<1>0. l \in LocalState /\ LocalInv(l) /\ l.pc = "return"
  BY DEF LifecycleTypeOK, ResultInv, Return
<1>1. CleaningUp(l) /\ ("ctr" \in l.attempted => "net" \in l.attempted)
  BY <1>0 DEF LocalInv
<1>2. /\ m \in LocalState /\ m.pc = "done" /\ m.attempted = l.attempted /\ m.calls = l.calls
      /\ m.events = l.events /\ m.cleanupOk = l.cleanupOk /\ m.error = l.error
  BY <1>0 DEF LocalState, Steps
<1>3. CASE l.base
  <2> DEFINE o == [NoOutcome EXCEPT !.state = "RAISED"]
  <2>1. run' = [run EXCEPT ![r] = m] /\ outcome' = [outcome EXCEPT ![r] = o]
    BY <1>3 DEF Return
  <2>2. o.state = "RAISED" /\ o.result = FALSE
    BY DEF NoOutcome
  <2>3. Finished(m, o)
    BY <2>2 DEF Finished
  <2> HIDE DEF m, o, l
  <2> QED
    BY <1>1, <1>2, <2>1, <2>3, EndKeeps
<1>4. CASE ~l.base
  <2> DEFINE o == Verdict(l)
             n == Log(m, o.state)
  <2>1. run' = [run EXCEPT ![r] = n] /\ outcome' = [outcome EXCEPT ![r] = o]
    BY <1>4 DEF Return
  <2>2. o.state \in LabState
    BY <1>0, VerdictType
  <2>3. n \in LocalState
    BY <1>2, <2>2, LogType
  <2>4. /\ n.pc = "done" /\ n.attempted = l.attempted /\ n.calls = l.calls
        /\ n.events = Append(l.events, o.state) /\ n.cleanupOk = l.cleanupOk
        /\ n.error = l.error
    <3> DEFINE trail == Append(m.events, o.state)
    <3>1. n = [m EXCEPT !.events = trail] /\ trail = Append(l.events, o.state)
      BY <1>2 DEF Log
    <3> HIDE DEF trail, m, n, o
    <3> QED
      BY <1>2, <3>1 DEF LocalState
  <2>5. l.calls = Owed(l.attempted)
    BY <1>0, <1>1 DEF CleaningUp, Remaining
  <2>6. o.result \/ o.state = "SUCCEEDED" =>
          l.cleanupOk /\ ~l.cancelled /\ l.error = "none"
          /\ o.state = "SUCCEEDED" /\ o.result = l.result
    <3>1. l.cleanupOk \in BOOLEAN /\ l.cancelled \in BOOLEAN /\ l.error \in ErrorKind
      BY <1>0 DEF LocalState
    <3> HIDE DEF l
    <3> QED
      BY <3>1 DEF Verdict
  <2>7. ~l.cancelled /\ l.error = "none" => l.result /\ l.events = FullTrail
    BY <1>1, <1>4 DEF CleaningUp
  <2>8. Finished(n, o)
    <3> HIDE DEF l, n, o
    <3> QED
      BY <2>4, <2>5, <2>6, <2>7 DEF Finished
  <2> HIDE DEF l, n, o
  <2> QED
    BY <1>1, <2>1, <2>3, <2>4, <2>8, EndKeeps
<1> QED
  BY <1>3, <1>4

LEMMA ResultInit == LifecycleInit => ResultInv
<1>1. LocalInv(Fresh) /\ Fresh.pc # "done"
  BY DEF Fresh, LocalInv, Unspoilt, Startup, Working, Cleanup
<1> QED
  BY <1>1 DEF LifecycleInit, ResultInv

LEMMA ResultStartupKeeps ==
    ASSUME LifecycleTypeOK, ResultInv, NEW r \in Runs, NEW e \in Endings, StartupStep(r, e)
    PROVE  ResultInv'
<1> DEFINE l == run[r]
<1>0. l \in LocalState /\ LocalInv(l)
  BY DEF LifecycleTypeOK, ResultInv
<1>1. ASSUME NEW p \in Startup, l.pc \in Startup, Trail(p) = Trail(l.pc),
             Becomes(r, AfterCall(run[r], e, [l EXCEPT !.pc = p]))
      PROVE  ResultInv'
  BY <1>0, <1>1, MoveKeeps, CallKeeps
<1>2. CASE Inspect(r, e)
  <2>1. l.pc = "inspect" /\ Becomes(r, AfterCall(run[r], e, [l EXCEPT !.pc = "pull"]))
    BY <1>2 DEF Inspect
  <2>2. Trail("inspect") = Trail("pull") /\ {"inspect", "pull"} \subseteq Startup
    BY DEF Trail, Startup
  <2> QED
    BY <1>1, <2>1, <2>2
<1>3. CASE Pull(r, e)
  <2>1. l.pc = "pull" /\ Becomes(r, AfterCall(run[r], e, [l EXCEPT !.pc = "pulled"]))
    BY <1>3 DEF Pull
  <2>2. Trail("pull") = Trail("pulled") /\ {"pull", "pulled"} \subseteq Startup
    BY DEF Trail, Startup
  <2> QED
    BY <1>1, <2>1, <2>2
<1>4. CASE CreateNetwork(r, e)
  <2> DEFINE n == [l EXCEPT !.pc = "create_container", !.attempted = {"net", "ctr"}]
  <2>1. l.pc = "create_network" /\ Becomes(r, AfterCall(run[r], e, Log(n, "STARTING")))
    BY <1>4 DEF CreateNetwork
  <2>2. {"create_network", "create_container"} \subseteq Startup /\ "create_container" \in Steps
    BY DEF Startup, Steps, Active
  <2>3. /\ n \in LocalState /\ n.pc = "create_container" /\ n.events = l.events
        /\ n.attempted = {"net", "ctr"} /\ n.calls = l.calls /\ n.cleanupOk = l.cleanupOk
        /\ n.result = l.result /\ n.error = l.error /\ n.cancelled = l.cancelled /\ n.base = l.base
    BY <1>0, <2>2 DEF LocalState
  <2>4. l.events = Trail("create_network")
    BY <1>0, <2>1, <2>2, TrailIs
  <2>5. Append(Trail("create_network"), "STARTING") = Trail("create_container")
    BY DEF Trail, Starting
  <2>6. "STARTING" \in LabState
    BY DEF LabState
  <2> HIDE DEF n, l
  <2>7. Log(n, "STARTING") \in LocalState /\ LocalInv(Log(n, "STARTING")) /\ Log(n, "STARTING").pc # "done"
    BY <1>0, <2>1, <2>2, <2>3, <2>4, <2>5, <2>6, LoggedKeeps
  <2> QED
    BY <2>1, <2>2, <2>7, CallKeeps DEF l
<1>5. CASE CreateContainer(r, e)
  <2>1. l.pc = "create_container" /\ Becomes(r, AfterCall(run[r], e, [l EXCEPT !.pc = "start_container"]))
    BY <1>5 DEF CreateContainer
  <2>2. /\ Trail("create_container") = Trail("start_container")
        /\ {"create_container", "start_container"} \subseteq Startup
    BY DEF Trail, Startup
  <2> QED
    BY <1>1, <2>1, <2>2
<1>6. CASE StartContainer(r, e)
  <2>1. l.pc = "start_container" /\ Becomes(r, AfterCall(run[r], e, [l EXCEPT !.pc = "wait_ready"]))
    BY <1>6 DEF StartContainer
  <2>2. /\ Trail("start_container") = Trail("wait_ready")
        /\ {"start_container", "wait_ready"} \subseteq Startup
    BY DEF Trail, Startup
  <2> QED
    BY <1>1, <2>1, <2>2
<1>7. CASE WaitReady(r, e)
  <2> DEFINE n == [l EXCEPT !.pc = "ready"]
  <2>1. l.pc = "wait_ready" /\ Becomes(r, AfterCall(run[r], e, Log(n, "READY")))
    BY <1>7 DEF WaitReady
  <2>2. {"wait_ready", "ready"} \subseteq Startup /\ "ready" \in Steps
    BY DEF Startup, Steps, Active
  <2>3. /\ n \in LocalState /\ n.pc = "ready" /\ n.events = l.events
        /\ n.attempted = l.attempted /\ n.calls = l.calls /\ n.cleanupOk = l.cleanupOk
        /\ n.result = l.result /\ n.error = l.error /\ n.cancelled = l.cancelled /\ n.base = l.base
    BY <1>0, <2>2 DEF LocalState
  <2>4. l.events = Trail("wait_ready") /\ ("ctr" \in l.attempted => "net" \in l.attempted)
    BY <1>0, <2>1, <2>2, TrailIs DEF LocalInv
  <2>5. Append(Trail("wait_ready"), "READY") = Trail("ready")
    BY DEF Trail, Ready
  <2>6. "READY" \in LabState
    BY DEF LabState
  <2> HIDE DEF n, l
  <2>7. Log(n, "READY") \in LocalState /\ LocalInv(Log(n, "READY")) /\ Log(n, "READY").pc # "done"
    BY <1>0, <2>1, <2>2, <2>3, <2>4, <2>5, <2>6, LoggedKeeps
  <2> QED
    BY <2>1, <2>2, <2>7, CallKeeps DEF l
<1>8. CASE Work(r, e)
  <2>1. l.pc = "work" /\ "work" \in Startup \cup Working /\ "worked" \in Startup \cup Working
        /\ Trail("worked") = Trail("work") /\ run[r].pc # "done"
    BY <1>8 DEF Work, Working, Trail
  <2>2. \E m \in LocalState : Becomes(r, m) /\ LocalInv(m) /\ m.pc # "done"
    <3>1. CASE e = "ok"
      <4>1. Becomes(r, [l EXCEPT !.pc = "worked"])
        BY <1>8, <3>1 DEF Work
      <4> QED
        BY <1>0, <2>1, <4>1, MoveKeeps
    <3>2. CASE e = "exception"
      <4>1. Becomes(r, EnterCleanup([l EXCEPT !.error = "work_failed"]))
        BY <1>8, <3>2 DEF Work
      <4> QED
        BY <1>0, <2>1, <4>1, SpoiltKeeps
    <3>3. CASE e = "base"
      <4>1. Becomes(r, EnterCleanup([l EXCEPT !.base = TRUE]))
        BY <1>8, <3>3 DEF Work
      <4> QED
        BY <1>0, <2>1, <4>1, SpoiltKeeps
    <3> QED
      BY <3>1, <3>2, <3>3 DEF Endings
  <2> QED
    BY <2>1, <2>2, RunKeeps
<1> QED
  BY <1>2, <1>3, <1>4, <1>5, <1>6, <1>7, <1>8 DEF StartupStep

LEMMA CheckKeeps ==
    ASSUME LifecycleTypeOK, ResultInv, NEW r \in Runs,
           CheckPulled(r) \/ CheckReady(r) \/ CheckWorked(r)
    PROVE  ResultInv'
<1> DEFINE l == run[r]
<1>0. l \in LocalState /\ LocalInv(l)
  BY DEF LifecycleTypeOK, ResultInv
<1>1. ASSUME l.pc \in Startup \cup Working, NEW n \in LocalState, LocalInv(n), n.pc # "done",
             Becomes(r, CancelOr(r, l, n))
      PROVE  ResultInv'
  <2>1. /\ CancelOr(r, l, n) \in LocalState /\ LocalInv(CancelOr(r, l, n))
        /\ CancelOr(r, l, n).pc # "done"
    BY <1>0, <1>1, SpoiltKeeps DEF CancelOr
  <2>2. run[r].pc # "done"
    BY <1>1 DEF Startup, Working
  <2> QED
    BY <1>1, <2>1, <2>2, RunKeeps
<1>2. CASE CheckPulled(r)
  <2> DEFINE n == [l EXCEPT !.pc = "create_network", !.attempted = {"net"}]
  <2>1. l.pc = "pulled" /\ Becomes(r, CancelOr(r, l, Log(n, "NETWORK_CREATING")))
    BY <1>2 DEF CheckPulled
  <2>2. {"pulled", "create_network"} \subseteq Startup /\ "create_network" \in Steps
    BY DEF Startup, Steps, Active
  <2>3. /\ n \in LocalState /\ n.pc = "create_network" /\ n.events = l.events
        /\ n.attempted = {"net"} /\ n.calls = l.calls /\ n.cleanupOk = l.cleanupOk
        /\ n.result = l.result /\ n.error = l.error /\ n.cancelled = l.cancelled /\ n.base = l.base
    BY <1>0, <2>2 DEF LocalState
  <2>4. l.events = Trail("pulled")
    BY <1>0, <2>1, <2>2, TrailIs
  <2>5. Append(Trail("pulled"), "NETWORK_CREATING") = Trail("create_network")
    BY DEF Trail, Networking
  <2>6. "NETWORK_CREATING" \in LabState
    BY DEF LabState
  <2> DEFINE m == Log(n, "NETWORK_CREATING")
  <2> HIDE DEF n, l
  <2>7. m \in LocalState /\ LocalInv(m) /\ m.pc # "done"
    BY <1>0, <2>1, <2>2, <2>3, <2>4, <2>5, <2>6, LoggedKeeps
  <2> QED
    BY <1>1, <2>1, <2>2, <2>7
<1>3. CASE CheckReady(r)
  <2> DEFINE n == [l EXCEPT !.pc = "work"]
  <2>1. l.pc = "ready" /\ Becomes(r, CancelOr(r, l, Log(n, "BENCHMARKING")))
    BY <1>3 DEF CheckReady
  <2>2. "ready" \in Startup /\ "work" \in Working /\ "work" \in Steps
    BY DEF Startup, Working, Steps, Active
  <2>3. /\ n \in LocalState /\ n.pc = "work" /\ n.events = l.events
        /\ n.attempted = l.attempted /\ n.calls = l.calls /\ n.cleanupOk = l.cleanupOk
        /\ n.result = l.result /\ n.error = l.error /\ n.cancelled = l.cancelled /\ n.base = l.base
    BY <1>0, <2>2 DEF LocalState
  <2>4. l.events = Trail("ready") /\ ("ctr" \in l.attempted => "net" \in l.attempted)
    BY <1>0, <2>1, <2>2, TrailIs DEF LocalInv
  <2>5. Append(Trail("ready"), "BENCHMARKING") = Trail("work")
    BY DEF Trail, Benchmarking
  <2>6. "BENCHMARKING" \in LabState
    BY DEF LabState
  <2> DEFINE m == Log(n, "BENCHMARKING")
  <2> HIDE DEF n, l
  <2>7. m \in LocalState /\ LocalInv(m) /\ m.pc # "done"
    BY <1>0, <2>1, <2>2, <2>3, <2>4, <2>5, <2>6, LoggedKeeps
  <2> QED
    BY <1>1, <2>1, <2>2, <2>7
<1>4. CASE CheckWorked(r)
  <2>1. l.pc = "worked" /\ "worked" \in Working /\ run[r].pc # "done"
    BY <1>4 DEF CheckWorked, Working
  <2>2. /\ l.events = Trail("worked") /\ Unspoilt(l)
        /\ ("ctr" \in l.attempted => "net" \in l.attempted)
    BY <1>0, <2>1, TrailIs DEF LocalInv
  <2>3. ASSUME NEW n \in LocalState, NEW s \in LabState, n.attempted = l.attempted,
               n.calls = l.calls, n.events = l.events, n.error = l.error,
               Becomes(r, EnterCleanup(Log(n, s))),
               n.result => ~n.cancelled /\ s = "FINALIZING", ~n.result => n.cancelled
        PROVE  ResultInv'
    <3> DEFINE m == Log(n, s)
               trail == Append(n.events, s)
    <3>1. m \in LocalState /\ m = [n EXCEPT !.events = trail]
      BY <2>3, LogType DEF Log
    <3>2. n.result => Append(trail, "STOPPING") = FullTrail
      BY <2>1, <2>2, <2>3 DEF Trail, FullTrail
    <3> HIDE DEF m, trail
    <3>3. /\ m.events = trail /\ m.attempted = n.attempted /\ m.calls = n.calls
          /\ m.result = n.result /\ m.cancelled = n.cancelled /\ m.error = n.error
      BY <2>3, <3>1 DEF LocalState
    <3>4. l.calls = {} /\ l.error = "none"
      BY <2>2 DEF Unspoilt
    <3>5. LocalInv(EnterCleanup(m)) /\ EnterCleanup(m).pc # "done"
      BY <2>2, <2>3, <3>1, <3>2, <3>3, <3>4, FinallyKeeps
    <3>6. EnterCleanup(m) \in LocalState
      BY <3>1, EnterCleanupType
    <3>7. Becomes(r, EnterCleanup(m))
      BY <2>3 DEF m
    <3> QED
      BY <2>1, <3>5, <3>6, <3>7, RunKeeps
  <2>4. CASE r \in cancel
    <3> DEFINE n == [l EXCEPT !.cancelled = TRUE]
    <3>1. Becomes(r, EnterCleanup(Log(n, "CANCEL_REQUESTED")))
      BY <1>4, <2>4 DEF CheckWorked
    <3>2. /\ n \in LocalState /\ n.attempted = l.attempted /\ n.calls = l.calls
          /\ n.events = l.events /\ n.error = l.error /\ n.cancelled /\ n.result = l.result
      BY <1>0 DEF LocalState
    <3>3. ~l.result /\ "CANCEL_REQUESTED" \in LabState
      BY <2>2 DEF Unspoilt, LabState
    <3> HIDE DEF n, l
    <3> QED
      BY <2>3, <3>1, <3>2, <3>3
  <2>5. CASE r \notin cancel
    <3> DEFINE n == [l EXCEPT !.result = TRUE]
    <3>1. Becomes(r, EnterCleanup(Log(n, "FINALIZING")))
      BY <1>4, <2>5 DEF CheckWorked
    <3>2. /\ n \in LocalState /\ n.attempted = l.attempted /\ n.calls = l.calls
          /\ n.events = l.events /\ n.error = l.error /\ n.cancelled = l.cancelled /\ n.result
      BY <1>0 DEF LocalState
    <3>3. ~l.cancelled /\ "FINALIZING" \in LabState
      BY <2>2 DEF Unspoilt, LabState
    <3> HIDE DEF n, l
    <3> QED
      BY <2>3, <3>1, <3>2, <3>3
  <2> QED
    BY <2>4, <2>5
<1> QED
  BY <1>2, <1>3, <1>4

LEMMA ResultCleanupKeeps ==
    ASSUME LifecycleTypeOK, ResultInv, NEW r \in Runs, NEW e \in Endings, CleanupStep(r, e)
    PROVE  ResultInv'
<1>1. CASE StopContainer(r, e)
  BY <1>1, CleanupCallKeeps DEF StopContainer, Cleanup
<1>2. CASE RemoveContainer(r, e)
  BY <1>2, CleanupCallKeeps DEF RemoveContainer, Cleanup
<1>3. CASE RemoveNetwork(r, e)
  BY <1>3, CleanupCallKeeps DEF RemoveNetwork, Cleanup
<1>4. CASE \E absent \in BOOLEAN : VerifyAbsent(r, e, absent)
  BY <1>4, CleanupCallKeeps DEF VerifyAbsent, Cleanup
<1> QED
  BY <1>1, <1>2, <1>3, <1>4 DEF CleanupStep

\* The three ways a call of execute() begins.
LEMMA ExecuteKeeps ==
    ASSUME LifecycleTypeOK, ResultInv, NEW r \in Runs,
           ExecuteCancelled(r) \/ ExecuteRejected(r) \/ ExecuteStarts(r)
    PROVE  ResultInv'
<1> DEFINE l == run[r]
           d == [l EXCEPT !.pc = "done"]
<1>0. l \in LocalState /\ LocalInv(l) /\ l.pc = "idle"
  BY DEF LifecycleTypeOK, ResultInv, ExecuteCancelled, ExecuteRejected, ExecuteStarts
<1>1. Unspoilt(l) /\ l.events = <<"PLANNED">> /\ ("ctr" \in l.attempted => "net" \in l.attempted)
  BY <1>0 DEF LocalInv, Unspoilt
<1>2. d \in LocalState /\ d.pc = "done" /\ d.events = l.events /\ d.attempted = l.attempted
  BY <1>0 DEF LocalState, Steps
<1>3. CASE ExecuteCancelled(r)
  <2> DEFINE m == Log(d, "CANCELLED")
             o == [NoOutcome EXCEPT !.state = "CANCELLED", !.verified = TRUE]
             trail == Append(d.events, "CANCELLED")
  <2>1. run' = [run EXCEPT ![r] = m] /\ outcome' = [outcome EXCEPT ![r] = o]
    BY <1>3 DEF ExecuteCancelled
  <2>2. m \in LocalState
    BY <1>2, LogType DEF LabState
  <2>3. m = [d EXCEPT !.events = trail] /\ trail = <<"PLANNED", "CANCELLED">>
    BY <1>1, <1>2, CancelledTrail DEF Log
  <2>4. o.state = "CANCELLED" /\ o.result = FALSE
    BY DEF NoOutcome
  <2> HIDE DEF m, o, d, trail
  <2>5. m.events = trail /\ m.pc = "done" /\ m.attempted = l.attempted
    BY <1>2, <2>3 DEF LocalState
  <2>6. Finished(m, o)
    BY <2>3, <2>4, <2>5 DEF Finished
  <2> HIDE DEF l
  <2> QED
    BY <1>1, <2>1, <2>2, <2>5, <2>6, EndKeeps
<1>4. CASE ExecuteRejected(r)
  <2> DEFINE o == [NoOutcome EXCEPT !.state = "REJECTED"]
  <2>1. run' = [run EXCEPT ![r] = d] /\ outcome' = [outcome EXCEPT ![r] = o]
    BY <1>4 DEF ExecuteRejected
  <2>2. o.state = "REJECTED" /\ o.result = FALSE
    BY DEF NoOutcome
  <2> HIDE DEF o, d, l
  <2>3. Finished(d, o)
    BY <2>2 DEF Finished
  <2> QED
    BY <1>1, <1>2, <2>1, <2>3, EndKeeps
<1>5. CASE ExecuteStarts(r)
  <2> DEFINE n == [l EXCEPT !.pc = "inspect"]
  <2>1. run' = [run EXCEPT ![r] = Log(n, "PULLING")] /\ UNCHANGED outcome
    BY <1>5 DEF ExecuteStarts
  <2>2. "inspect" \in Startup \cup Working /\ "inspect" \in Steps /\ "PULLING" \in LabState
    BY DEF Startup, Steps, Active, LabState
  <2>3. /\ n \in LocalState /\ n.pc = "inspect" /\ n.events = l.events
        /\ n.attempted = l.attempted /\ n.calls = l.calls /\ n.cleanupOk = l.cleanupOk
        /\ n.result = l.result /\ n.error = l.error /\ n.cancelled = l.cancelled /\ n.base = l.base
    BY <1>0, <2>2 DEF LocalState
  <2>4. Append(l.events, "PULLING") = Trail("inspect")
    <3> DEFINE s == Append(<<"PLANNED">>, "PULLING")
    <3>1. <<"PLANNED">> \in Seq(LabState) /\ Len(<<"PLANNED">>) = 1
      BY DEF LabState
    <3>2. s \in Seq(LabState) /\ Len(s) = 2 /\ s[1] = "PLANNED" /\ s[2] = "PULLING"
      BY <2>2, <3>1, AppendProperties
    <3>3. /\ Pulling \in Seq(LabState) /\ Len(Pulling) = 2
          /\ Pulling[1] = "PLANNED" /\ Pulling[2] = "PULLING"
      BY DEF Pulling, LabState
    <3> HIDE DEF s
    <3>4. \A i \in 1..Len(s) : s[i] = Pulling[i]
      <4>1. \A i \in 1..2 : i = 1 \/ i = 2
        OBVIOUS
      <4> QED
        BY <3>2, <3>3, <4>1
    <3>5. s = Pulling
      BY <3>2, <3>3, <3>4, SeqEqual
    <3> QED
      BY <1>1, <3>5 DEF s, Trail
  <2> DEFINE m == Log(n, "PULLING")
  <2> HIDE DEF n, l
  <2>5. m \in LocalState /\ LocalInv(m) /\ m.pc # "done"
    BY <1>0, <1>1, <2>2, <2>3, <2>4, LoggedKeeps
  <2>6. run' = [run EXCEPT ![r] = m] /\ run[r].pc # "done"
    BY <1>0, <2>1 DEF l
  <2> HIDE DEF m
  <2> QED
    BY <2>1, <2>5, <2>6 DEF ResultInv, LifecycleTypeOK
<1> QED
  BY <1>3, <1>4, <1>5

LEMMA ResultStep ==
    LifecycleTypeOK /\ ResultInv /\ [LifecycleNext]_lifecycleVars => ResultInv'
<1> SUFFICES ASSUME LifecycleTypeOK, ResultInv, [LifecycleNext]_lifecycleVars
             PROVE  ResultInv'
  OBVIOUS
<1>1. CASE UNCHANGED lifecycleVars
  BY <1>1 DEF lifecycleVars, ResultInv
<1>2. ASSUME NEW r \in Runs, RequestCancel(r)
      PROVE  ResultInv'
  BY <1>2 DEF RequestCancel, ResultInv
<1>3. ASSUME NEW r \in Runs, Progress(r)
      PROVE  ResultInv'
  BY <1>3, CheckKeeps, ReturnKeeps, ResultStartupKeeps, ResultCleanupKeeps DEF Progress
<1> QED
  BY <1>1, <1>2, <1>3, ExecuteKeeps DEF LifecycleNext

\* Whatever the calls of the finally block do, a run that returns a
\* LifecycleResult has made every one it owed, and no other, for any number of
\* callers (_execute_owned, lines 209-238).
THEOREM LifecycleFinalizes == LifecycleSafety => []FinalizerComplete
<1>1. ResultInv => FinalizerComplete
  <2> SUFFICES ASSUME ResultInv, NEW r \in Runs,
                      outcome[r].state \in {"SUCCEEDED", "FAILED", "CANCELLED", "CLEANUP_FAILED"}
               PROVE  \/ run[r].calls = Owed(run[r].attempted)
                      \/ run[r].events = <<"PLANNED", "CANCELLED">>
    BY DEF FinalizerComplete
  <2>1. run[r].pc = "done"
    BY DEF ResultInv, NoOutcome
  <2> QED
    BY <2>1 DEF ResultInv, Finished
<1> QED
  BY <1>1, TypeInit, TypeStep, ResultInit, ResultStep, PTL DEF LifecycleSafety

\* A result is released only by a run that went through every phase in order and
\* whose whole cleanup succeeded (_execute_owned, lines 240-272).
THEOREM LifecycleResultEarned == LifecycleSafety => []ResultIsEarned
<1>1. ResultInv => ResultIsEarned
  <2> SUFFICES ASSUME ResultInv, NEW r \in Runs,
                      outcome[r].result \/ outcome[r].state = "SUCCEEDED"
               PROVE  /\ outcome[r].result /\ outcome[r].state = "SUCCEEDED"
                      /\ run[r].cleanupOk /\ run[r].error = "none"
                      /\ run[r].events = Append(FullTrail, "SUCCEEDED")
    BY SucceededTrail DEF ResultIsEarned
  <2>1. run[r].pc = "done"
    BY DEF ResultInv, NoOutcome
  <2> QED
    BY <2>1 DEF ResultInv, Finished
<1> QED
  BY <1>1, TypeInit, TypeStep, ResultInit, ResultStep, PTL DEF LifecycleSafety


-----------------------------------------------------------------------------
(* A cancellation is not lost.                                             *)

\* A run that has no result, and one that was cancelled before it had one.
NoResult(r) == ~run[r].result /\ ~outcome[r].result
Doomed(r) == r \in cancel /\ NoResult(r)

\* Logging, aborting and entering the finally block give nobody a result.
LEMMA LogResult ==
    ASSUME NEW l \in LocalState, NEW s
    PROVE  Log(l, s).result = l.result
BY DEF Log, LocalState

LEMMA FinallyResult ==
    ASSUME NEW l \in LocalState
    PROVE  EnterCleanup(l).result = l.result
<1>1. Log(l, "STOPPING") \in LocalState
  BY LogType DEF LabState
<1>2. EnterCleanup(l).result = Log(l, "STOPPING").result
  BY <1>1 DEF EnterCleanup, LocalState
<1> QED
  BY <1>2, LogResult

LEMMA SpoiltResult ==
    ASSUME NEW l \in LocalState
    PROVE  /\ EnterCleanup([l EXCEPT !.base = TRUE]).result = l.result
           /\ EnterCleanup([l EXCEPT !.cancelled = TRUE]).result = l.result
           /\ \A k \in ErrorKind : EnterCleanup([l EXCEPT !.error = k]).result = l.result
<1>1. /\ [l EXCEPT !.base = TRUE] \in LocalState
      /\ [l EXCEPT !.base = TRUE].result = l.result
      /\ [l EXCEPT !.cancelled = TRUE] \in LocalState
      /\ [l EXCEPT !.cancelled = TRUE].result = l.result
  BY DEF LocalState
<1>2. ASSUME NEW k \in ErrorKind
      PROVE  [l EXCEPT !.error = k] \in LocalState /\ [l EXCEPT !.error = k].result = l.result
  BY DEF LocalState
<1> QED
  BY <1>1, <1>2, FinallyResult

LEMMA CallResult ==
    ASSUME LifecycleTypeOK, NEW r \in Runs, NEW e, NEW n, n.result = run[r].result,
           Becomes(r, AfterCall(run[r], e, n)) \/ Becomes(r, CancelOr(r, run[r], n))
    PROVE  run'[r].result = run[r].result /\ outcome'[r] = outcome[r]
<1>1. run[r] \in LocalState /\ "lifecycle_failed" \in ErrorKind
  BY DEF LifecycleTypeOK, ErrorKind
<1>2. /\ AfterCall(run[r], e, n).result = run[r].result
      /\ CancelOr(r, run[r], n).result = run[r].result
  BY <1>1, SpoiltResult DEF AfterCall, Abort, CancelOr
<1> QED
  BY <1>2 DEF Becomes, LifecycleTypeOK

\* The result is set by CheckWorked only, which looks at the event first.
LEMMA StartupResult ==
    ASSUME LifecycleTypeOK, NEW r \in Runs, NEW e \in Endings,
           StartupStep(r, e) \/ CheckPulled(r) \/ CheckReady(r)
    PROVE  run'[r].result = run[r].result /\ outcome'[r] = outcome[r]
<1>0. run[r] \in LocalState
  BY DEF LifecycleTypeOK
<1>1. ASSUME NEW p \in Startup \cup Working
      PROVE  [run[r] EXCEPT !.pc = p].result = run[r].result
  BY <1>0 DEF LocalState
<1>a. ASSUME NEW m \in LocalState, m.result = run[r].result, NEW s,
             \/ Becomes(r, AfterCall(run[r], e, Log(m, s)))
             \/ Becomes(r, CancelOr(r, run[r], Log(m, s)))
      PROVE  run'[r].result = run[r].result /\ outcome'[r] = outcome[r]
  BY <1>a, LogResult, CallResult
<1>b. {"create_network", "create_container", "ready", "work"} \subseteq Steps
  BY DEF Steps, Active, Startup, Working
<1>2. CASE Inspect(r, e) \/ Pull(r, e) \/ CreateContainer(r, e) \/ StartContainer(r, e)
  BY <1>1, <1>2, CallResult
  DEF Inspect, Pull, CreateContainer, StartContainer, Startup
<1>3. CASE CreateNetwork(r, e)
  <2> DEFINE m == [run[r] EXCEPT !.pc = "create_container", !.attempted = {"net", "ctr"}]
  <2>1. m \in LocalState /\ m.result = run[r].result
    BY <1>0, <1>b DEF LocalState
  <2>2. Becomes(r, AfterCall(run[r], e, Log(m, "STARTING")))
    BY <1>3 DEF CreateNetwork
  <2> HIDE DEF m
  <2> QED
    BY <1>a, <2>1, <2>2
<1>4. CASE WaitReady(r, e)
  <2> DEFINE m == [run[r] EXCEPT !.pc = "ready"]
  <2>1. m \in LocalState /\ m.result = run[r].result
    BY <1>0, <1>b DEF LocalState
  <2>2. Becomes(r, AfterCall(run[r], e, Log(m, "READY")))
    BY <1>4 DEF WaitReady
  <2> HIDE DEF m
  <2> QED
    BY <1>a, <2>1, <2>2
<1>5. CASE Work(r, e)
  <2> DEFINE n == [run[r] EXCEPT !.pc = "worked"]
             f == EnterCleanup([run[r] EXCEPT !.error = "work_failed"])
             b == EnterCleanup([run[r] EXCEPT !.base = TRUE])
  <2>1. Becomes(r, n) \/ Becomes(r, f) \/ Becomes(r, b)
    BY <1>5 DEF Work, Endings
  <2>2. n.result = run[r].result
    BY <1>1 DEF Working
  <2>3. "work_failed" \in ErrorKind
    BY DEF ErrorKind
  <2>4. f.result = run[r].result /\ b.result = run[r].result
    BY <1>0, <2>3, SpoiltResult
  <2> HIDE DEF n, f, b
  <2> QED
    BY <2>1, <2>2, <2>4 DEF Becomes, LifecycleTypeOK
<1>6. CASE CheckPulled(r)
  <2> DEFINE m == [run[r] EXCEPT !.pc = "create_network", !.attempted = {"net"}]
  <2>1. m \in LocalState /\ m.result = run[r].result
    BY <1>0, <1>b DEF LocalState
  <2>2. Becomes(r, CancelOr(r, run[r], Log(m, "NETWORK_CREATING")))
    BY <1>6 DEF CheckPulled
  <2> HIDE DEF m
  <2> QED
    BY <1>a, <2>1, <2>2
<1>7. CASE CheckReady(r)
  <2> DEFINE m == [run[r] EXCEPT !.pc = "work"]
  <2>1. m \in LocalState /\ m.result = run[r].result
    BY <1>0, <1>b DEF LocalState
  <2>2. Becomes(r, CancelOr(r, run[r], Log(m, "BENCHMARKING")))
    BY <1>7 DEF CheckReady
  <2> HIDE DEF m
  <2> QED
    BY <1>a, <2>1, <2>2
<1> QED
  BY <1>2, <1>3, <1>4, <1>5, <1>6, <1>7 DEF StartupStep

\* A step of another run leaves this one alone.
LEMMA OthersStep ==
    ASSUME LifecycleTypeOK, NEW r \in Runs, NEW s \in Runs \ {r},
           \/ RequestCancel(s) \/ ExecuteCancelled(s) \/ ExecuteRejected(s)
           \/ ExecuteStarts(s) \/ Progress(s)
    PROVE  run'[r] = run[r] /\ outcome'[r] = outcome[r]
<1>1. ASSUME NEW l, Becomes(s, l)
      PROVE  run'[r] = run[r] /\ outcome'[r] = outcome[r]
  BY <1>1 DEF Becomes, LifecycleTypeOK
<1>2. ASSUME NEW e, NEW call, NEW next, CleanupCall(s, call, e, next)
      PROVE  run'[r] = run[r] /\ outcome'[r] = outcome[r]
  BY <1>1, <1>2 DEF CleanupCall, Escape, LifecycleTypeOK
<1>3. CASE RequestCancel(s) \/ ExecuteCancelled(s) \/ ExecuteRejected(s) \/ ExecuteStarts(s)
           \/ Return(s)
  BY <1>3
  DEF RequestCancel, ExecuteCancelled, ExecuteRejected, ExecuteStarts, Return, LifecycleTypeOK
<1>4. CASE CheckPulled(s) \/ CheckReady(s) \/ CheckWorked(s)
  BY <1>1, <1>4 DEF CheckPulled, CheckReady, CheckWorked
<1>5. ASSUME NEW e \in Endings, StartupStep(s, e)
      PROVE  run'[r] = run[r] /\ outcome'[r] = outcome[r]
  BY <1>1, <1>5
  DEF StartupStep, Inspect, Pull, CreateNetwork, CreateContainer, StartContainer,
      WaitReady, Work
<1>6. ASSUME NEW e \in Endings, CleanupStep(s, e)
      PROVE  run'[r] = run[r] /\ outcome'[r] = outcome[r]
  BY <1>2, <1>6
  DEF CleanupStep, StopContainer, RemoveContainer, RemoveNetwork, VerifyAbsent
<1> QED
  BY <1>3, <1>4, <1>5, <1>6 DEF Progress

LEMMA NoResultStep ==
    ASSUME LifecycleTypeOK, [LifecycleNext]_lifecycleVars, NEW r \in Runs, NoResult(r),
           r \in cancel \/ run[r].pc # "worked"
    PROVE  NoResult(r)'
<1>0. run[r] \in LocalState /\ ~run[r].result /\ ~outcome[r].result
  BY DEF LifecycleTypeOK, NoResult
<1>1. CASE UNCHANGED lifecycleVars
  BY <1>1 DEF NoResult, lifecycleVars
<1>3. ASSUME NEW s \in Runs \ {r},
             \/ RequestCancel(s) \/ ExecuteCancelled(s) \/ ExecuteRejected(s)
             \/ ExecuteStarts(s) \/ Progress(s)
      PROVE  NoResult(r)'
  BY <1>0, <1>3, OthersStep DEF NoResult
<1>4. CASE RequestCancel(r) \/ ExecuteRejected(r) \/ ExecuteStarts(r)
  <2> DEFINE m == [run[r] EXCEPT !.pc = "inspect"]
             d == [run[r] EXCEPT !.pc = "done"]
  <2>1. m \in LocalState /\ m.result = run[r].result /\ d.result = run[r].result
    BY <1>0 DEF LocalState, Steps, Active, Startup
  <2>2. /\ run'[r] = run[r] \/ run'[r] = d \/ run'[r] = Log(m, "PULLING")
        /\ ~outcome'[r].result
    BY <1>0, <1>4
    DEF RequestCancel, ExecuteRejected, ExecuteStarts, NoOutcome, LifecycleTypeOK
  <2> HIDE DEF m, d
  <2> QED
    BY <1>0, <2>1, <2>2, LogResult DEF NoResult
<1>5. CASE ExecuteCancelled(r)
  <2> DEFINE d == [run[r] EXCEPT !.pc = "done"]
  <2>1. d \in LocalState /\ d.result = run[r].result
    BY <1>0 DEF LocalState, Steps
  <2>2. run'[r] = Log(d, "CANCELLED") /\ ~outcome'[r].result
    BY <1>5 DEF ExecuteCancelled, NoOutcome, LifecycleTypeOK
  <2> HIDE DEF d
  <2> QED
    BY <1>0, <2>1, <2>2, LogResult DEF NoResult
<1>6. ASSUME NEW e \in Endings, StartupStep(r, e) \/ CheckPulled(r) \/ CheckReady(r)
      PROVE  NoResult(r)'
  <2>1. run'[r].result = run[r].result /\ outcome'[r] = outcome[r]
    BY <1>6, StartupResult
  <2> QED
    BY <1>0, <2>1 DEF NoResult
<1>7. CASE CheckWorked(r)
  <2> DEFINE c == [run[r] EXCEPT !.cancelled = TRUE]
  <2>1. c \in LocalState /\ c.result = run[r].result
    BY <1>0 DEF LocalState
  <2>2. Becomes(r, EnterCleanup(Log(c, "CANCEL_REQUESTED")))
    BY <1>7 DEF CheckWorked
  <2> HIDE DEF c
  <2>3. /\ Log(c, "CANCEL_REQUESTED") \in LocalState
        /\ Log(c, "CANCEL_REQUESTED").result = run[r].result
    BY <2>1, LogType, LogResult DEF LabState
  <2>4. EnterCleanup(Log(c, "CANCEL_REQUESTED")).result = run[r].result
    BY <2>3, FinallyResult
  <2> QED
    BY <1>0, <2>2, <2>4 DEF Becomes, NoResult, LifecycleTypeOK
<1>8. ASSUME NEW e \in Endings, CleanupStep(r, e)
      PROVE  NoResult(r)'
  <2>1. ASSUME NEW call, NEW f, NEW next, CleanupCall(r, call, f, next)
        PROVE  ~run'[r].result /\ ~outcome'[r].result
    <3>1. CASE f = "base"
      <4>1. run'[r] = [run[r] EXCEPT !.pc = "done", !.calls = @ \cup {call}]
        BY <2>1, <3>1 DEF CleanupCall, Escape, LifecycleTypeOK
      <4>2. ~outcome'[r].result
        BY <2>1, <3>1 DEF CleanupCall, Escape, NoOutcome, LifecycleTypeOK
      <4> QED
        BY <1>0, <4>1, <4>2 DEF LocalState
    <3>2. CASE f # "base"
      <4>1. /\ run'[r] = [run[r] EXCEPT !.pc = next, !.calls = @ \cup {call},
                                        !.cleanupOk = @ /\ f = "ok"]
            /\ outcome'[r] = outcome[r]
        BY <2>1, <3>2 DEF CleanupCall, Becomes, LifecycleTypeOK
      <4> QED
        BY <1>0, <4>1 DEF LocalState
    <3> QED
      BY <3>1, <3>2
  <2> QED
    BY <1>8, <2>1
    DEF NoResult, CleanupStep, StopContainer, RemoveContainer, RemoveNetwork, VerifyAbsent
<1>9. CASE Return(r)
  <2> DEFINE d == [run[r] EXCEPT !.pc = "done"]
  <2>1. d \in LocalState /\ d.result = run[r].result
    BY <1>0 DEF LocalState, Steps
  <2>2. run'[r] = d \/ \E s : run'[r] = Log(d, s)
    BY <1>9 DEF Return, LifecycleTypeOK
  <2>3. ~outcome'[r].result
    BY <1>0, <1>9 DEF Return, Verdict, NoOutcome, LifecycleTypeOK
  <2> HIDE DEF d
  <2> QED
    BY <1>0, <2>1, <2>2, <2>3, LogResult DEF NoResult
<1> QED
  BY <1>1, <1>3, <1>4, <1>5, <1>6, <1>7, <1>8, <1>9
  DEF LifecycleNext, Progress, Endings

\* A request to cancel is not taken back.
LEMMA CancelStays ==
    ASSUME [LifecycleNext]_lifecycleVars
    PROVE  cancel \subseteq cancel'
<1>1. ASSUME NEW s \in Runs, NEW e, CleanupStep(s, e)
      PROVE  UNCHANGED cancel
  BY <1>1
  DEF CleanupStep, StopContainer, RemoveContainer, RemoveNetwork, VerifyAbsent,
      CleanupCall, Escape, Becomes
<1>2. ASSUME NEW s \in Runs, NEW e, StartupStep(s, e)
      PROVE  UNCHANGED cancel
  BY <1>2
  DEF StartupStep, Inspect, Pull, CreateNetwork, CreateContainer, StartContainer,
      WaitReady, Work, Becomes
<1>3. ASSUME NEW s \in Runs,
             CheckPulled(s) \/ CheckReady(s) \/ CheckWorked(s) \/ Return(s)
      PROVE  UNCHANGED cancel
  BY <1>3 DEF CheckPulled, CheckReady, CheckWorked, Return, Becomes
<1>4. ASSUME NEW s \in Runs,
             RequestCancel(s) \/ ExecuteCancelled(s) \/ ExecuteRejected(s) \/ ExecuteStarts(s)
      PROVE  cancel \subseteq cancel'
  BY <1>4 DEF RequestCancel, ExecuteCancelled, ExecuteRejected, ExecuteStarts
<1> QED
  BY <1>1, <1>2, <1>3, <1>4 DEF LifecycleNext, Progress, lifecycleVars

LEMMA DoomedStep ==
    ASSUME LifecycleTypeOK, [LifecycleNext]_lifecycleVars, NEW r \in Runs, Doomed(r)
    PROVE  Doomed(r)'
BY NoResultStep, CancelStays DEF Doomed

\* A cancellation that finds the run starting up or at work keeps it from ever
\* succeeding, for any number of callers (_execute_owned, lines 170-204: the
\* event is looked at before work() and once more after it).
THEOREM LifecycleCancelHolds == LifecycleSafety => CancelIsNeverLost
<1> SUFFICES ASSUME NEW r \in Runs
             PROVE  LifecycleSafety =>
                        [](r \in cancel /\ run[r].pc \in Startup \cup Working
                             => [](outcome[r].state # "SUCCEEDED"))
  BY DEF CancelIsNeverLost
<1>1. ResultInv /\ r \in cancel /\ run[r].pc \in Startup \cup Working => Doomed(r)
  BY DEF ResultInv, LocalInv, Unspoilt, Doomed, NoResult, NoOutcome, Startup, Working
<1>2. LifecycleTypeOK /\ Doomed(r) /\ [LifecycleNext]_lifecycleVars => Doomed(r)'
  BY DoomedStep
<1>3. ResultIsEarned /\ Doomed(r) => outcome[r].state # "SUCCEEDED"
  BY DEF ResultIsEarned, Doomed, NoResult
<1>4. LifecycleSafety => []ResultInv
  BY TypeInit, TypeStep, ResultInit, ResultStep, PTL DEF LifecycleSafety
<1> QED
  BY <1>1, <1>2, <1>3, <1>4, LifecycleTypeCorrect, LifecycleResultEarned, PTL
  DEF LifecycleSafety

-----------------------------------------------------------------------------
(* The Docker backend: every step is a step of the lifecycle, or a stutter. *)

\* What a step may be; time that passes in wait_ready changes nothing else.
LEMMA StepCases ==
    ASSUME [Next]_vars
    PROVE  \/ \E r \in Runs : LocalStep(r) /\ UNCHANGED backendVars
           \/ \E r \in Runs, e \in Endings : StartupCall(r, e) \/ CleanupCalls(r, e)
           \/ \E r \in Runs : CallerStep(r) /\ UNCHANGED backendVars
           \/ DaemonStep /\ UNCHANGED lifecycleVars
           \/ UNCHANGED lifecycleVars /\ UNCHANGED backendVars
<1>1. CASE UNCHANGED vars
  BY <1>1 DEF vars, lifecycleVars, backendVars
<1>2. ASSUME NEW r \in Runs, RunStep(r)
      PROVE  \/ LocalStep(r) /\ UNCHANGED backendVars
             \/ \E e \in Endings : StartupCall(r, e) \/ CleanupCalls(r, e)
             \/ UNCHANGED lifecycleVars /\ UNCHANGED backendVars
  BY <1>2 DEF RunStep, Call, KeepsWaiting, probe
<1> QED
  BY <1>1, <1>2 DEF Next

LEMMA LifecycleStep == [Next]_vars => [LifecycleNext]_lifecycleVars
<1> SUFFICES ASSUME [Next]_vars PROVE [LifecycleNext]_lifecycleVars
  OBVIOUS
<1>1. ASSUME NEW r \in Runs, LocalStep(r) PROVE Progress(r)
  BY <1>1 DEF LocalStep, Progress, StartupStep
<1>2. ASSUME NEW r \in Runs, NEW e \in Endings, StartupCall(r, e) \/ CleanupCalls(r, e)
      PROVE  Progress(r)
  BY <1>2 DEF StartupCall, CleanupCalls, Progress, StartupStep, CleanupStep
<1>3. ASSUME NEW r \in Runs, CallerStep(r)
      PROVE  LifecycleNext
  BY <1>3 DEF CallerStep, LifecycleNext
<1> QED
  BY <1>1, <1>2, <1>3, StepCases DEF LifecycleNext

\* The composition takes lifecycle steps only, by the way it is put together, so
\* what holds of the lifecycle holds of it.
LEMMA ImplementsLifecycleSafety == Spec => LifecycleSafety
<1>1. Init => LifecycleInit
  BY DEF Init
<1> QED
  BY <1>1, LifecycleStep, PTL DEF Spec, LifecycleSafety

\* The single flight of the lifecycle is therefore that of the composition.
THEOREM DockerLabSingleFlight == Spec => []SingleFlight
BY ImplementsLifecycleSafety, LifecycleSingleFlight, PTL

\* So is its complete finalizer, whatever the daemon loses or carries out late
\* (_execute_owned, lines 209-238).
THEOREM DockerLabFinalizes == Spec => []FinalizerComplete
BY ImplementsLifecycleSafety, LifecycleFinalizes, PTL

\* A result over Docker is released only by a run whose whole cleanup succeeded
\* (_execute_owned, lines 240-272).
THEOREM DockerLabResultEarned == Spec => []ResultIsEarned
BY ImplementsLifecycleSafety, LifecycleResultEarned, PTL

\* And a cancellation over Docker is not lost (_execute_owned, lines 170-204).
THEOREM DockerLabCancelHolds == Spec => CancelIsNeverLost
BY ImplementsLifecycleSafety, LifecycleCancelHolds, PTL

-----------------------------------------------------------------------------
(* Types.                                                                  *)

LEMMA CmdType ==
    ASSUME NEW v \in Verbs, NEW r \in Creators
    PROVE  Cmd(v, r) \in Command /\ Cmd(v, r).verb = v /\ Cmd(v, r).obj = r
BY DEF Cmd, Command

\* What a command can do to the daemon, whether or not the client learns of it.
LEMMA IssueEffect ==
    ASSUME NEW c \in Command, NEW e, Issue(c, e)
    PROVE  /\ net' \in {net, Nobody} \/ (c.verb = "network create" /\ net' = c.obj)
           /\ ctr' \in {ctr, Nobody} \/ (c.verb = "create" /\ ctr' = c.obj)
           /\ running' \in {running, TRUE, FALSE}
           /\ late' = late \/ (e # "ok" /\ late' = late \cup {c})
<1>1. ASSUME Carries(c)
      PROVE  /\ net' \in {net, Nobody} \/ (c.verb = "network create" /\ net' = c.obj)
             /\ ctr' \in {ctr, Nobody} \/ (c.verb = "create" /\ ctr' = c.obj)
             /\ running' \in {running, TRUE, FALSE}
  BY <1>1 DEF Carries, Command, Verbs
<1> QED
  BY <1>1 DEF Issue, Confirmed, Unconfirmed, NoEffect

LEMMA OnHandleEffect ==
    ASSUME NEW h \in Creators, NEW e, NEW v \in Verbs,
           v \notin {"network create", "create"}, NoEffect \/ Issue(Cmd(v, h), e)
    PROVE  /\ net' \in {net, Nobody}
           /\ ctr' \in {ctr, Nobody}
           /\ running' \in {running, TRUE, FALSE}
           /\ late' = late \/ late' = late \cup {Cmd(v, h)}
<1>1. CASE NoEffect
  BY <1>1 DEF NoEffect
<1>2. CASE Issue(Cmd(v, h), e)
  <2>1. Cmd(v, h) \in Command /\ Cmd(v, h).verb \notin {"network create", "create"}
    BY CmdType
  <2> QED
    BY <1>2, <2>1, IssueEffect
<1> QED
  BY <1>1, <1>2

\* Every backend method, on its own, keeps the types of the backend; and only
\* the two creations can put an object on the daemon or abandon a creation.
Creates == {"network create", "create"}

LEMMA StartupEffect ==
    ASSUME BackendTypeOK, NEW r \in Creators, NEW e \in Endings,
           \/ inspect_capabilities(r, e) \/ pull_image(r, e)
           \/ create_network(r, e) \/ create_container(r, e)
           \/ start_container(r, e) \/ wait_ready(r, e)
    PROVE  /\ BackendTypeOK'
           /\ net' \in {net, Nobody, r}
           /\ ctr' \in {ctr, Nobody, r}
           /\ \A c \in late' : c.verb \in Creates => c \in late \/ (c.obj = r /\ e # "ok")
<1>1. CASE UNCHANGED backendVars
  BY <1>1 DEF backendVars, BackendTypeOK
<1>2. CASE networks = Nobody /\ create_network(r, e)
  <2>1. Cmd("network create", r) \in Command /\ Cmd("network create", r).obj = r
    BY CmdType DEF Verbs
  <2>2. \/ Issue(Cmd("network create", r), e) /\ UNCHANGED <<containers, hostPort>>
        \/ UNCHANGED backendVars
    BY <1>2 DEF create_network
  <2>3. networks' \in Owner
    BY <1>2 DEF create_network, Owner, BackendTypeOK, backendVars
  <2> QED
    BY <1>1, <2>1, <2>2, <2>3, IssueEffect DEF BackendTypeOK, Owner
<1>3. CASE containers = Nobody /\ create_container(r, e)
  <2>1. Cmd("create", r) \in Command /\ Cmd("create", r).obj = r
    BY CmdType DEF Verbs
  <2>2. \/ Issue(Cmd("create", r), e) /\ UNCHANGED <<networks, hostPort>>
        \/ UNCHANGED backendVars
    BY <1>3 DEF create_container
  <2>3. containers' \in Owner
    BY <1>3 DEF create_container, Owner, BackendTypeOK, backendVars
  <2> QED
    BY <1>1, <2>1, <2>2, <2>3, IssueEffect DEF BackendTypeOK, Owner
<1>4. CASE containers # Nobody /\ start_container(r, e)
  <2>1. containers \in Creators /\ "start" \in Verbs
    BY <1>4 DEF BackendTypeOK, Owner, Verbs
  <2>2. NoEffect \/ Issue(Cmd("start", containers), e)
    BY <1>4 DEF start_container, OnHandle
  <2>3. hostPort' \in Owner /\ UNCHANGED <<networks, containers>>
    BY <1>4 DEF start_container, BackendTypeOK
  <2>4. Cmd("start", containers) \in Command
        /\ Cmd("start", containers).verb \notin Creates
    BY <2>1, CmdType DEF Creates
  <2>5. /\ net' \in {net, Nobody} /\ ctr' \in {ctr, Nobody}
        /\ running' \in {running, TRUE, FALSE}
        /\ late' = late \/ late' = late \cup {Cmd("start", containers)}
    BY <2>1, <2>2, OnHandleEffect
  <2> QED
    BY <2>3, <2>4, <2>5 DEF BackendTypeOK, Owner
<1> QED
  BY <1>1, <1>2, <1>3, <1>4
  DEF inspect_capabilities, pull_image, create_network, create_container,
      start_container, wait_ready

LEMMA CleanupEffect ==
    ASSUME BackendTypeOK, NEW r \in Creators, NEW e,
           \/ stop_container(r, e) \/ remove_container(r, e)
           \/ remove_network(r, e)
           \/ \E absent \in BOOLEAN : verify_absent(r, e, absent)
    PROVE  /\ BackendTypeOK'
           /\ net' \in {net, Nobody}
           /\ ctr' \in {ctr, Nobody}
           /\ \A c \in late' : c.verb \in Creates => c \in late
<1>1. CASE UNCHANGED backendVars
  BY <1>1 DEF backendVars, BackendTypeOK
<1>2. CASE containers # Nobody /\ (stop_container(r, e) \/ remove_container(r, e))
  <2>1. containers \in Creators /\ "stop" \in Verbs /\ "rm" \in Verbs
    BY <1>2 DEF BackendTypeOK, Owner, Verbs
  <2>2. PICK v \in {"stop", "rm"} : NoEffect \/ Issue(Cmd(v, containers), e)
    BY <1>2 DEF stop_container, remove_container, OnHandle
  <2>3. networks' \in Owner /\ containers' \in Owner /\ hostPort' \in Owner
    BY <1>2 DEF stop_container, remove_container, handleVars, BackendTypeOK, Owner
  <2>4. Cmd(v, containers) \in Command /\ Cmd(v, containers).verb \notin Creates
    BY <2>1, CmdType DEF Creates
  <2>5. /\ net' \in {net, Nobody} /\ ctr' \in {ctr, Nobody}
        /\ running' \in {running, TRUE, FALSE}
        /\ late' = late \/ late' = late \cup {Cmd(v, containers)}
    BY <2>1, <2>2, OnHandleEffect
  <2> QED
    BY <2>3, <2>4, <2>5 DEF BackendTypeOK, Owner
<1>3. CASE networks # Nobody /\ remove_network(r, e)
  <2>1. networks \in Creators /\ "network rm" \in Verbs
    BY <1>3 DEF BackendTypeOK, Owner, Verbs
  <2>2. NoEffect \/ Issue(Cmd("network rm", networks), e)
    BY <1>3 DEF remove_network, OnHandle
  <2>3. networks' \in Owner /\ UNCHANGED <<containers, hostPort>>
    BY <1>3 DEF remove_network, BackendTypeOK, Owner
  <2>4. Cmd("network rm", networks) \in Command
        /\ Cmd("network rm", networks).verb \notin Creates
    BY <2>1, CmdType DEF Creates
  <2>5. /\ net' \in {net, Nobody} /\ ctr' \in {ctr, Nobody}
        /\ running' \in {running, TRUE, FALSE}
        /\ late' = late \/ late' = late \cup {Cmd("network rm", networks)}
    BY <2>1, <2>2, OnHandleEffect
  <2> QED
    BY <2>3, <2>4, <2>5 DEF BackendTypeOK, Owner
<1> QED
  BY <1>1, <1>2, <1>3
  DEF stop_container, remove_container, remove_network, verify_absent

LEMMA DaemonEffect ==
    ASSUME BackendTypeOK, DaemonStep
    PROVE  /\ BackendTypeOK'
           /\ net' \in {net, Nobody}
              \/ \E c \in late : c.verb \in Creates /\ net' = c.obj
           /\ ctr' \in {ctr, Nobody}
              \/ \E c \in late : c.verb \in Creates /\ ctr' = c.obj
           /\ late' \subseteq late
<1>1. CASE ContainerExits
  BY <1>1 DEF ContainerExits, BackendTypeOK
<1>2. ASSUME NEW c \in late, LateEffect(c)
      PROVE  /\ BackendTypeOK'
             /\ net' \in {net, Nobody} \/ (c.verb \in Creates /\ net' = c.obj)
             /\ ctr' \in {ctr, Nobody} \/ (c.verb \in Creates /\ ctr' = c.obj)
             /\ late' \subseteq late
  <2>1. c \in Command /\ c.obj \in Creators
    BY DEF BackendTypeOK, Command
  <2>2. CASE Accepts(c)
    BY <1>2, <2>1, <2>2
    DEF LateEffect, Carries, BackendTypeOK, Owner, Creates, handleVars
  <2>3. CASE ~Accepts(c)
    BY <1>2, <2>3 DEF LateEffect, BackendTypeOK, handleVars
  <2> QED
    BY <2>2, <2>3
<1> QED
  BY <1>1, <1>2 DEF DaemonStep

LEMMA BackendTypeInit == BackendInit => BackendTypeOK
BY DEF BackendInit, BackendTypeOK, Owner

LEMMA BackendTypeStep == BackendTypeOK /\ [Next]_vars => BackendTypeOK'
<1> SUFFICES ASSUME BackendTypeOK, [Next]_vars
             PROVE  BackendTypeOK'
  OBVIOUS
<1>1. CASE UNCHANGED backendVars
  BY <1>1 DEF backendVars, BackendTypeOK
<1>2. ASSUME NEW r \in Runs, NEW e \in Endings, StartupCall(r, e)
      PROVE  BackendTypeOK'
  BY <1>2, StartupEffect, CreatorsAssumption DEF StartupCall
<1>3. ASSUME NEW r \in Runs, NEW e \in Endings, CleanupCalls(r, e)
      PROVE  BackendTypeOK'
  BY <1>3, CleanupEffect, CreatorsAssumption DEF CleanupCalls
<1>4. CASE DaemonStep
  BY <1>4, DaemonEffect
<1> QED
  BY <1>1, <1>2, <1>3, <1>4, StepCases

\* How much of a wait has passed is bounded by its deadline.
LEMMA ElapsedStep == elapsed \in 0..ReadyDeadline /\ [Next]_vars => elapsed' \in 0..ReadyDeadline
<1> SUFFICES ASSUME elapsed \in 0..ReadyDeadline, [Next]_vars
             PROVE  elapsed' \in 0..ReadyDeadline
  OBVIOUS
<1>1. CASE elapsed' = elapsed \/ elapsed' = 0 \/ elapsed' \in (elapsed + 1)..ReadyDeadline
  BY <1>1, ReadyDeadlineAssumption
<1> QED
  BY <1>1 DEF Next, RunStep, Call, KeepsWaiting, probe, vars

\* Type correctness of the composition.
THEOREM TypeCorrect == Spec => []TypeOK
<1>1. Init => TypeOK
  BY TypeInit, BackendTypeInit, ReadyDeadlineAssumption DEF Init, BackendInit, TypeOK
<1>2. TypeOK /\ [Next]_vars => TypeOK'
  BY TypeStep, LifecycleStep, BackendTypeStep, ElapsedStep DEF TypeOK
<1> QED
  BY <1>1, <1>2, PTL DEF Spec

-----------------------------------------------------------------------------
(* What a lifecycle step does to the run that takes it.                    *)

\* A run whose startup failed: the mark is never taken back.
Marked(l) == l.error # "none" \/ l.base

\* l is a successor of run r inside the call, before verify_absent answered.
Moves(r, l) ==
    /\ l \in LocalState /\ l.pc # "return" /\ Becomes(r, l)
    /\ Marked(run[r]) => Marked(l)

LEMMA FieldsOfLog ==
    ASSUME NEW l \in LocalState, NEW s
    PROVE  Log(l, s).error = l.error /\ Log(l, s).base = l.base
BY DEF Log, LocalState

LEMMA FieldsOfCleanup ==
    ASSUME NEW l \in LocalState
    PROVE  /\ EnterCleanup(l) \in LocalState
           /\ EnterCleanup(l).pc # "return"
           /\ EnterCleanup(l).error = l.error /\ EnterCleanup(l).base = l.base
<1>1. Log(l, "STOPPING") \in LocalState
  BY LogType DEF LabState
<1>2. EnterCleanup(l).error = Log(l, "STOPPING").error
      /\ EnterCleanup(l).base = Log(l, "STOPPING").base
  BY <1>1 DEF EnterCleanup, LocalState
<1> QED
  BY <1>1, <1>2, FieldsOfLog, EnterCleanupType, EnterCleanupStep DEF Cleanup

\* The state a failed startup call leaves is marked.
LEMMA AbortMarks ==
    ASSUME NEW l \in LocalState, NEW e \in Endings, e # "ok"
    PROVE  Abort(l, e) \in LocalState /\ Abort(l, e).pc # "return" /\ Marked(Abort(l, e))
<1>1. /\ [l EXCEPT !.base = TRUE] \in LocalState
      /\ [l EXCEPT !.base = TRUE].base = TRUE
      /\ [l EXCEPT !.error = "lifecycle_failed"] \in LocalState
      /\ [l EXCEPT !.error = "lifecycle_failed"].error = "lifecycle_failed"
  BY DEF LocalState, ErrorKind
<1> QED
  BY <1>1, FieldsOfCleanup DEF Abort, Marked

LEMMA CallMoves ==
    ASSUME LifecycleTypeOK, NEW r \in Runs, NEW e \in Endings,
           NEW n \in LocalState, n.pc # "return",
           n.error = run[r].error, n.base = run[r].base,
           Becomes(r, AfterCall(run[r], e, n))
    PROVE  \E l : Moves(r, l) /\ (e # "ok" => Marked(l))
<1>1. run[r] \in LocalState
  BY DEF LifecycleTypeOK
<1>2. CASE e = "ok"
  BY <1>2 DEF AfterCall, Moves, Marked
<1>3. CASE e # "ok"
  BY <1>1, <1>3, AbortMarks DEF AfterCall, Moves
<1> QED
  BY <1>2, <1>3

LEMMA CancelMoves ==
    ASSUME LifecycleTypeOK, NEW r \in Runs, NEW n \in LocalState,
           n.pc # "return", n.error = run[r].error, n.base = run[r].base,
           Becomes(r, CancelOr(r, run[r], n))
    PROVE  \E l : Moves(r, l)
<1>1. run[r] \in LocalState
  BY DEF LifecycleTypeOK
<1> DEFINE c == [run[r] EXCEPT !.cancelled = TRUE]
<1>2. c \in LocalState /\ c.error = run[r].error /\ c.base = run[r].base
  BY <1>1 DEF LocalState
<1> HIDE DEF c
<1>3. CASE r \in cancel
  <2>1. Becomes(r, EnterCleanup(c))
    BY <1>3 DEF CancelOr, c
  <2> QED
    BY <1>2, <2>1, FieldsOfCleanup DEF Moves, Marked
<1>4. CASE r \notin cancel
  BY <1>4 DEF CancelOr, Moves, Marked
<1> QED
  BY <1>3, <1>4

\* The shape of the states that the calls and checks move to.
LEMMA PlainMove ==
    ASSUME NEW l \in LocalState, NEW p \in Steps
    PROVE  /\ [l EXCEPT !.pc = p] \in LocalState
           /\ [l EXCEPT !.pc = p].pc = p
           /\ [l EXCEPT !.pc = p].error = l.error
           /\ [l EXCEPT !.pc = p].base = l.base
BY DEF LocalState

LEMMA LoggedMove ==
    ASSUME NEW l \in LocalState, NEW p \in Steps, NEW s \in LabState
    PROVE  /\ Log([l EXCEPT !.pc = p], s) \in LocalState
           /\ Log([l EXCEPT !.pc = p], s).pc = p
           /\ Log([l EXCEPT !.pc = p], s).error = l.error
           /\ Log([l EXCEPT !.pc = p], s).base = l.base
<1> DEFINE n == [l EXCEPT !.pc = p]
<1>1. n \in LocalState /\ n.pc = p /\ n.error = l.error /\ n.base = l.base
  BY PlainMove
<1> HIDE DEF n
<1>2. /\ Log(n, s) \in LocalState /\ Log(n, s).pc = p
      /\ Log(n, s).error = l.error /\ Log(n, s).base = l.base
  BY <1>1, LogType, LogStep, FieldsOfLog
<1> QED
  BY <1>2 DEF n

LEMMA LogKeeps ==
    ASSUME NEW l \in LocalState, NEW s \in LabState
    PROVE  /\ Log(l, s) \in LocalState /\ Log(l, s).pc = l.pc
           /\ Log(l, s).error = l.error /\ Log(l, s).base = l.base
BY LogType, LogStep, FieldsOfLog

\* A startup call that fails marks the run.
LEMMA StartupMoves ==
    ASSUME LifecycleTypeOK, NEW r \in Runs, NEW e \in Endings,
           \/ Inspect(r, e) \/ Pull(r, e) \/ CreateNetwork(r, e)
           \/ CreateContainer(r, e) \/ StartContainer(r, e) \/ WaitReady(r, e)
    PROVE  /\ run[r].pc \in Startup
           /\ \E l : Moves(r, l) /\ (e # "ok" => Marked(l))
<1>0. run[r] \in LocalState
  BY DEF LifecycleTypeOK
<1>1. CASE Inspect(r, e)
  <2> DEFINE n == [run[r] EXCEPT !.pc = "pull"]
  <2>1. n \in LocalState /\ n.pc # "return" /\ n.error = run[r].error /\ n.base = run[r].base
    BY <1>0, PlainMove DEF Steps, Active, Startup, LabState
  <2>2. Becomes(r, AfterCall(run[r], e, n)) /\ run[r].pc = "inspect"
    BY <1>1 DEF Inspect
  <2> HIDE DEF n
  <2> QED
    BY <2>1, <2>2, CallMoves DEF Startup
<1>2. CASE Pull(r, e)
  <2> DEFINE n == [run[r] EXCEPT !.pc = "pulled"]
  <2>1. n \in LocalState /\ n.pc # "return" /\ n.error = run[r].error /\ n.base = run[r].base
    BY <1>0, PlainMove DEF Steps, Active, Startup, LabState
  <2>2. Becomes(r, AfterCall(run[r], e, n)) /\ run[r].pc = "pull"
    BY <1>2 DEF Pull
  <2> HIDE DEF n
  <2> QED
    BY <2>1, <2>2, CallMoves DEF Startup
<1>3. CASE CreateNetwork(r, e)
  <2> DEFINE m == [run[r] EXCEPT !.pc = "create_container",
                                 !.attempted = {"net", "ctr"}]
             n == Log(m, "STARTING")
  <2>0. /\ m \in LocalState /\ m.pc # "return"
        /\ m.error = run[r].error /\ m.base = run[r].base
    BY <1>0 DEF LocalState, Steps, Active, Startup
  <2>1. n \in LocalState /\ n.pc # "return" /\ n.error = run[r].error /\ n.base = run[r].base
    <3> HIDE DEF m
    <3> QED BY <2>0, LogKeeps DEF LabState
  <2>2. Becomes(r, AfterCall(run[r], e, n)) /\ run[r].pc = "create_network"
    BY <1>3 DEF CreateNetwork
  <2> HIDE DEF n
  <2> QED
    BY <2>1, <2>2, CallMoves DEF Startup
<1>4. CASE CreateContainer(r, e)
  <2> DEFINE n == [run[r] EXCEPT !.pc = "start_container"]
  <2>1. n \in LocalState /\ n.pc # "return" /\ n.error = run[r].error /\ n.base = run[r].base
    BY <1>0, PlainMove DEF Steps, Active, Startup, LabState
  <2>2. Becomes(r, AfterCall(run[r], e, n)) /\ run[r].pc = "create_container"
    BY <1>4 DEF CreateContainer
  <2> HIDE DEF n
  <2> QED
    BY <2>1, <2>2, CallMoves DEF Startup
<1>5. CASE StartContainer(r, e)
  <2> DEFINE n == [run[r] EXCEPT !.pc = "wait_ready"]
  <2>1. n \in LocalState /\ n.pc # "return" /\ n.error = run[r].error /\ n.base = run[r].base
    BY <1>0, PlainMove DEF Steps, Active, Startup, LabState
  <2>2. Becomes(r, AfterCall(run[r], e, n)) /\ run[r].pc = "start_container"
    BY <1>5 DEF StartContainer
  <2> HIDE DEF n
  <2> QED
    BY <2>1, <2>2, CallMoves DEF Startup
<1>6. CASE WaitReady(r, e)
  <2> DEFINE n == Log([run[r] EXCEPT !.pc = "ready"], "READY")
  <2>1. n \in LocalState /\ n.pc # "return" /\ n.error = run[r].error /\ n.base = run[r].base
    BY <1>0, LoggedMove DEF Steps, Active, Startup, LabState
  <2>2. Becomes(r, AfterCall(run[r], e, n)) /\ run[r].pc = "wait_ready"
    BY <1>6 DEF WaitReady
  <2> HIDE DEF n
  <2> QED
    BY <2>1, <2>2, CallMoves DEF Startup
<1> QED
  BY <1>1, <1>2, <1>3, <1>4, <1>5, <1>6

LEMMA CheckMoves ==
    ASSUME LifecycleTypeOK, NEW r \in Runs,
           \/ CheckPulled(r) \/ CheckReady(r) \/ CheckWorked(r)
           \/ \E e \in Endings : Work(r, e)
    PROVE  run[r].pc \in Startup \cup Working /\ \E l : Moves(r, l)
<1>0. run[r] \in LocalState
  BY DEF LifecycleTypeOK
<1>1. CASE CheckPulled(r)
  <2> DEFINE m == [run[r] EXCEPT !.pc = "create_network", !.attempted = {"net"}]
             n == Log(m, "NETWORK_CREATING")
  <2>0. /\ m \in LocalState /\ m.pc # "return"
        /\ m.error = run[r].error /\ m.base = run[r].base
    BY <1>0 DEF LocalState, Steps, Active, Startup
  <2>1. n \in LocalState /\ n.pc # "return" /\ n.error = run[r].error /\ n.base = run[r].base
    <3> HIDE DEF m
    <3> QED BY <2>0, LogKeeps DEF LabState
  <2>2. Becomes(r, CancelOr(r, run[r], n)) /\ run[r].pc = "pulled"
    BY <1>1 DEF CheckPulled
  <2> HIDE DEF n
  <2> QED
    BY <2>1, <2>2, CancelMoves DEF Startup
<1>2. CASE CheckReady(r)
  <2> DEFINE n == Log([run[r] EXCEPT !.pc = "work"], "BENCHMARKING")
  <2>1. n \in LocalState /\ n.pc # "return" /\ n.error = run[r].error /\ n.base = run[r].base
    BY <1>0, LoggedMove DEF Steps, Active, Working, LabState
  <2>2. Becomes(r, CancelOr(r, run[r], n)) /\ run[r].pc = "ready"
    BY <1>2 DEF CheckReady
  <2> HIDE DEF n
  <2> QED
    BY <2>1, <2>2, CancelMoves DEF Startup
<1>3. CASE CheckWorked(r)
  <2> DEFINE c == [run[r] EXCEPT !.cancelled = TRUE]
             d == [run[r] EXCEPT !.result = TRUE]
  <2>1. /\ c \in LocalState /\ c.error = run[r].error /\ c.base = run[r].base
        /\ d \in LocalState /\ d.error = run[r].error /\ d.base = run[r].base
    BY <1>0 DEF LocalState
  <2>2. run[r].pc = "worked"
        /\ \/ Becomes(r, EnterCleanup(Log(c, "CANCEL_REQUESTED")))
           \/ Becomes(r, EnterCleanup(Log(d, "FINALIZING")))
    BY <1>3 DEF CheckWorked
  <2> HIDE DEF c, d
  <2>3. \A l \in {Log(c, "CANCEL_REQUESTED"), Log(d, "FINALIZING")} :
            l \in LocalState /\ l.error = run[r].error /\ l.base = run[r].base
    BY <2>1, LogKeeps DEF LabState
  <2>4. \A l \in {Log(c, "CANCEL_REQUESTED"), Log(d, "FINALIZING")} :
            /\ EnterCleanup(l) \in LocalState /\ EnterCleanup(l).pc # "return"
            /\ EnterCleanup(l).error = run[r].error
            /\ EnterCleanup(l).base = run[r].base
    BY <2>3, FieldsOfCleanup
  <2> QED
    BY <2>2, <2>4 DEF Moves, Marked, Working
<1>4. ASSUME NEW e \in Endings, Work(r, e)
      PROVE  run[r].pc \in Startup \cup Working /\ \E l : Moves(r, l)
  <2> DEFINE f == [run[r] EXCEPT !.error = "work_failed"]
             b == [run[r] EXCEPT !.base = TRUE]
             n == [run[r] EXCEPT !.pc = "worked"]
  <2>1. /\ f \in LocalState /\ f.error = "work_failed"
        /\ b \in LocalState /\ b.base = TRUE
        /\ n \in LocalState /\ n.error = run[r].error /\ n.base = run[r].base
        /\ n.pc = "worked"
    BY <1>0 DEF LocalState, ErrorKind, Steps, Active, Working
  <2>2. /\ run[r].pc = "work"
        /\ \/ Becomes(r, n)
           \/ Becomes(r, EnterCleanup(f))
           \/ Becomes(r, EnterCleanup(b))
    BY <1>4 DEF Work, Endings
  <2> HIDE DEF f, b, n
  <2>3. /\ EnterCleanup(f) \in LocalState /\ EnterCleanup(f).pc # "return"
        /\ EnterCleanup(f).error = "work_failed"
        /\ EnterCleanup(b) \in LocalState /\ EnterCleanup(b).pc # "return"
        /\ EnterCleanup(b).base = TRUE
    BY <2>1, FieldsOfCleanup
  <2>4. /\ Becomes(r, n) => Moves(r, n)
        /\ Becomes(r, EnterCleanup(f)) => Moves(r, EnterCleanup(f))
        /\ Becomes(r, EnterCleanup(b)) => Moves(r, EnterCleanup(b))
    BY <2>1, <2>3 DEF Moves, Marked
  <2> QED
    BY <2>2, <2>4 DEF Working
<1> QED
  BY <1>1, <1>2, <1>3, <1>4

\* A cleanup call moves on, or escapes with a BaseException; only verify_absent
\* reaches the return, and with cleanup_ok only when it answered True.
LEMMA CleanupMoves ==
    ASSUME LifecycleTypeOK, NEW r \in Runs, NEW e, NEW call \in Cleanup,
           NEW next \in Steps, CleanupCall(r, call, e, next)
    PROVE  /\ run[r].pc = call
           /\ \A s \in Runs \ {r} : run'[s] = run[s] /\ outcome'[s] = outcome[s]
           /\ run'[r].error = run[r].error /\ run'[r].base = run[r].base
           /\ \/ run'[r].pc = next /\ (run'[r].cleanupOk => e = "ok")
                 /\ outcome'[r] = outcome[r]
              \/ run'[r].pc = "done" /\ outcome'[r].state = "RAISED"
<1>0. run[r] \in LocalState /\ run[r].pc = call
  BY DEF LifecycleTypeOK, CleanupCall
<1>1. CASE e = "base"
  <2>1. outcome'[r].state = "RAISED"
    BY <1>1 DEF CleanupCall, Escape, LifecycleTypeOK, NoOutcome
  <2>2. /\ run'[r].pc = "done"
        /\ run'[r].error = run[r].error /\ run'[r].base = run[r].base
    BY <1>0, <1>1 DEF CleanupCall, Escape, LifecycleTypeOK, LocalState
  <2>3. \A s \in Runs \ {r} : run'[s] = run[s] /\ outcome'[s] = outcome[s]
    BY <1>1 DEF CleanupCall, Escape, LifecycleTypeOK
  <2> QED
    BY <1>0, <2>1, <2>2, <2>3
<1>2. CASE e # "base"
  <2> DEFINE l == [run[r] EXCEPT !.pc = next, !.calls = @ \cup {call},
                                 !.cleanupOk = @ /\ e = "ok"]
  <2>1. /\ l.pc = next /\ (l.cleanupOk => e = "ok")
        /\ l.error = run[r].error /\ l.base = run[r].base
    BY <1>0 DEF LocalState
  <2>2. Becomes(r, l)
    BY <1>2 DEF CleanupCall
  <2> HIDE DEF l
  <2> QED
    BY <1>0, <2>1, <2>2 DEF Becomes, LifecycleTypeOK
<1> QED
  BY <1>1, <1>2

\* SUCCEEDED comes only from a clean return.
LEMMA ReturnMoves ==
    ASSUME LifecycleTypeOK, NEW r \in Runs, Return(r)
    PROVE  /\ run[r].pc = "return" /\ run'[r].pc = "done"
           /\ \A s \in Runs \ {r} : run'[s] = run[s] /\ outcome'[s] = outcome[s]
           /\ run'[r].error = run[r].error /\ run'[r].base = run[r].base
           /\ outcome'[r].state = "SUCCEEDED" =>
                 run[r].cleanupOk /\ ~Marked(run[r])
<1>0. run[r] \in LocalState
  BY DEF LifecycleTypeOK
<1>1. \A s \in Runs \ {r} : run'[s] = run[s] /\ outcome'[s] = outcome[s]
  BY DEF Return, LifecycleTypeOK
<1>2. CASE run[r].base
  <2>1. outcome'[r].state = "RAISED"
    BY <1>2 DEF Return, NoOutcome, LifecycleTypeOK
  <2>2. run'[r] = [run[r] EXCEPT !.pc = "done"]
    BY <1>2 DEF Return, LifecycleTypeOK
  <2>3. /\ run'[r].pc = "done"
        /\ run'[r].error = run[r].error /\ run'[r].base = run[r].base
    BY <1>0, <2>2, PlainMove DEF Steps
  <2> QED
    BY <1>1, <2>1, <2>3 DEF Return
<1>3. CASE ~run[r].base
  <2>1. outcome'[r] = Verdict(run[r])
    BY <1>3 DEF Return, LifecycleTypeOK
  <2>2. run'[r] = Log([run[r] EXCEPT !.pc = "done"], Verdict(run[r]).state)
    BY <1>3 DEF Return, LifecycleTypeOK
  <2>3. Verdict(run[r]).state \in LabState /\ "done" \in Steps
    BY <1>0, VerdictType DEF Steps
  <2>4. /\ run'[r].pc = "done"
        /\ run'[r].error = run[r].error /\ run'[r].base = run[r].base
    BY <1>0, <2>2, <2>3, LoggedMove
  <2>5. Verdict(run[r]).state = "SUCCEEDED" =>
            run[r].cleanupOk /\ ~Marked(run[r])
    BY <1>3 DEF Verdict, Marked
  <2> QED
    BY <1>1, <2>1, <2>4, <2>5 DEF Return
<1> QED
  BY <1>2, <1>3

-----------------------------------------------------------------------------
(* A succeeded run leaves nothing, and nothing of its own can come back.   *)

\* An abandoned creation belongs to a run that its failure marked.
LateInv == \A c \in late : c.verb \in Creates => Marked(run[c.obj])

\* Only an unmarked run succeeds, and it has then left execute().
OutcomeInv ==
    \A r \in Runs : outcome[r].state = "SUCCEEDED" => run[r].pc = "done" /\ ~Marked(run[r])

\* A run that succeeded, or is about to: verify_absent answered True and no
\* call of its startup failed.
Settled(r) ==
    /\ ~Marked(run[r])
    /\ outcome[r].state = "SUCCEEDED" \/ (run[r].pc = "return" /\ run[r].cleanupOk)

SettledInv == \A r \in Runs : Settled(r) => OwnsNothing(r)

IInv == TypeOK /\ LateInv /\ OutcomeInv /\ SettledInv

LEMMA IInvInit == Init => IInv
<1> SUFFICES ASSUME Init PROVE IInv
  OBVIOUS
<1>1. TypeOK
  BY TypeInit, BackendTypeInit, ReadyDeadlineAssumption DEF Init, BackendInit, TypeOK
<1>2. LateInv
  BY DEF Init, BackendInit, LateInv
<1>3. OutcomeInv
  BY DEF Init, LifecycleInit, NoOutcome, OutcomeInv
<1>4. SettledInv
  BY CreatorsAssumption, NoRunAssumption
  DEF Init, BackendInit, SettledInv, OwnsNothing
<1> QED
  BY <1>1, <1>2, <1>3, <1>4 DEF IInv

\* The common argument: when the step marks nobody less, makes nobody newly
\* settled, and puts on the daemon only objects of runs that are not settled,
\* the invariant survives.
LEMMA Survives ==
    ASSUME IInv, TypeOK',
           \A s \in Runs : Marked(run[s]) => Marked(run'[s]),
           \A s \in Runs : outcome'[s].state = "SUCCEEDED" =>
                /\ run'[s].pc = "done" /\ ~Marked(run'[s]),
           \A s \in Runs : Settled(s)' => Settled(s) \/ OwnsNothing(s)',
           \A c \in late' : c.verb \in Creates => c \in late \/ Marked(run'[c.obj]),
           \A s \in Runs : Settled(s)' => (net' = s => net = s) /\ (ctr' = s => ctr = s)
    PROVE  IInv'
<1>1. LateInv'
  BY CreatorsAssumption DEF IInv, LateInv, TypeOK, BackendTypeOK, Command
<1>2. OutcomeInv'
  BY DEF OutcomeInv
<1>3. ASSUME NEW s \in Runs, Settled(s)'
      PROVE  OwnsNothing(s)'
  <2>1. CASE Settled(s)
    <3>1. net # s /\ ctr # s
      BY <2>1 DEF IInv, SettledInv, OwnsNothing
    <3> QED
      BY <1>3, <3>1 DEF OwnsNothing
  <2> QED
    BY <1>3, <2>1
<1> QED
  BY <1>1, <1>2, <1>3 DEF IInv, SettledInv

\* A run that moves inside the call is not settled, and marks nobody less.
LEMMA MovesFacts ==
    ASSUME IInv, NEW r \in Runs, run[r].pc \in Active, NEW l, Moves(r, l)
    PROVE  /\ \A s \in Runs : Marked(run[s]) => Marked(run'[s])
           /\ \A s \in Runs : outcome'[s].state = "SUCCEEDED" =>
                 run'[s].pc = "done" /\ ~Marked(run'[s])
           /\ \A s \in Runs : Settled(s)' => Settled(s) /\ s # r
           /\ run'[r] = l
<1>1. /\ \A s \in Runs : s # r => run'[s] = run[s]
      /\ run'[r] = l /\ outcome' = outcome
  BY DEF Moves, Becomes, IInv, TypeOK, LifecycleTypeOK
<1>2. outcome[r].state # "SUCCEEDED"
  BY DEF IInv, OutcomeInv, Active, Startup, Working, Cleanup
<1>3. l.pc # "return" /\ (Marked(run[r]) => Marked(l))
  BY DEF Moves
<1>4. \A s \in Runs : Marked(run[s]) => Marked(run'[s])
  BY <1>1, <1>3
<1>5. \A s \in Runs : outcome'[s].state = "SUCCEEDED" =>
         run'[s].pc = "done" /\ ~Marked(run'[s])
  BY <1>1, <1>2 DEF IInv, OutcomeInv
<1>6. \A s \in Runs : Settled(s)' => Settled(s) /\ s # r
  BY <1>1, <1>2, <1>3 DEF Settled
<1> QED
  BY <1>1, <1>4, <1>5, <1>6

LEMMA StartupKeeps ==
    ASSUME IInv, TypeOK', NEW r \in Runs, NEW e \in Endings, StartupCall(r, e)
    PROVE  IInv'
<1>1. LifecycleTypeOK /\ BackendTypeOK /\ r \in Creators /\ r # Nobody
  BY CreatorsAssumption, NoRunAssumption DEF IInv, TypeOK
<1>2. /\ net' \in {net, Nobody, r} /\ ctr' \in {ctr, Nobody, r}
      /\ \A c \in late' : c.verb \in Creates => c \in late \/ (c.obj = r /\ e # "ok")
  BY <1>1, StartupEffect DEF StartupCall
<1>3. run[r].pc \in Startup /\ \E l : Moves(r, l) /\ (e # "ok" => Marked(l))
  BY <1>1, StartupMoves DEF StartupCall
<1>4. PICK l : Moves(r, l) /\ (e # "ok" => Marked(l))
  BY <1>3
<1>5. /\ \A s \in Runs : Marked(run[s]) => Marked(run'[s])
      /\ \A s \in Runs : outcome'[s].state = "SUCCEEDED" =>
            run'[s].pc = "done" /\ ~Marked(run'[s])
      /\ \A s \in Runs : Settled(s)' => Settled(s) /\ s # r
      /\ run'[r] = l
  BY <1>3, <1>4, MovesFacts DEF Active
<1>6. \A c \in late' : c.verb \in Creates => c \in late \/ Marked(run'[c.obj])
  BY <1>2, <1>4, <1>5
<1>7. \A s \in Runs : s # Nobody
  BY CreatorsAssumption, NoRunAssumption
<1>8. \A s \in Runs : Settled(s)' => (net' = s => net = s) /\ (ctr' = s => ctr = s)
  BY <1>2, <1>5, <1>7
<1> QED
  BY <1>5, <1>6, <1>8, Survives

\* A step of the run's own code, with the daemon untouched.
LEMMA LocalKeeps ==
    ASSUME IInv, TypeOK', NEW r \in Runs, LocalStep(r), UNCHANGED backendVars
    PROVE  IInv'
<1>1. LifecycleTypeOK
  BY DEF IInv, TypeOK
<1>2. net' = net /\ ctr' = ctr /\ late' = late
  BY DEF backendVars
<1>3. CASE CheckPulled(r) \/ CheckReady(r) \/ CheckWorked(r)
           \/ \E e \in Endings : Work(r, e)
  <2>1. run[r].pc \in Active /\ \E l : Moves(r, l)
    BY <1>1, <1>3, CheckMoves DEF Active
  <2>2. PICK l : Moves(r, l)
    BY <2>1
  <2>3. /\ \A s \in Runs : Marked(run[s]) => Marked(run'[s])
        /\ \A s \in Runs : outcome'[s].state = "SUCCEEDED" =>
              run'[s].pc = "done" /\ ~Marked(run'[s])
        /\ \A s \in Runs : Settled(s)' => Settled(s) /\ s # r
    BY <2>1, <2>2, MovesFacts
  <2> QED
    BY <1>2, <2>3, Survives
<1>4. CASE Return(r)
  <2>1. /\ run[r].pc = "return" /\ run'[r].pc = "done"
        /\ \A s \in Runs \ {r} : run'[s] = run[s] /\ outcome'[s] = outcome[s]
        /\ run'[r].error = run[r].error /\ run'[r].base = run[r].base
        /\ outcome'[r].state = "SUCCEEDED" => run[r].cleanupOk /\ ~Marked(run[r])
    BY <1>1, <1>4, ReturnMoves
  <2>2. \A s \in Runs : Marked(run'[s]) <=> Marked(run[s])
    BY <2>1 DEF Marked
  <2>3. \A s \in Runs : outcome'[s].state = "SUCCEEDED" =>
              run'[s].pc = "done" /\ ~Marked(run'[s])
    BY <2>1, <2>2 DEF IInv, OutcomeInv
  <2>4. \A s \in Runs : Settled(s)' => Settled(s)
    BY <2>1, <2>2 DEF Settled
  <2> QED
    BY <1>2, <2>2, <2>3, <2>4, Survives
<1> QED
  BY <1>3, <1>4 DEF LocalStep

LEMMA CallerKeeps ==
    ASSUME IInv, TypeOK', NEW r \in Runs, CallerStep(r), UNCHANGED backendVars
    PROVE  IInv'
<1>1. run[r] \in LocalState /\ \A s \in Runs : outcome[s] \in Outcome
  BY DEF IInv, TypeOK, LifecycleTypeOK
<1>2. net' = net /\ ctr' = ctr /\ late' = late
  BY DEF backendVars
<1>3. CASE RequestCancel(r)
  <2>1. run' = run /\ outcome' = outcome
    BY <1>3 DEF RequestCancel
  <2>2. \A s \in Runs : Settled(s)' => Settled(s)
    BY <2>1 DEF Settled
  <2> QED
    BY <1>2, <2>1, <2>2, Survives DEF IInv, OutcomeInv
<1>4. CASE ExecuteCancelled(r) \/ ExecuteRejected(r) \/ ExecuteStarts(r)
  <2>1. /\ run[r].pc = "idle"
        /\ \A s \in Runs \ {r} : run'[s] = run[s] /\ outcome'[s] = outcome[s]
    BY <1>4
    DEF ExecuteCancelled, ExecuteRejected, ExecuteStarts, IInv, TypeOK, LifecycleTypeOK
  <2>2. PICK p \in {"done", "inspect"} :
            run'[r] \in {[run[r] EXCEPT !.pc = p], Log([run[r] EXCEPT !.pc = p], "CANCELLED"),
                         Log([run[r] EXCEPT !.pc = p], "PULLING")}
    BY <1>4
    DEF ExecuteCancelled, ExecuteRejected, ExecuteStarts, IInv, TypeOK, LifecycleTypeOK
  <2>3. p \in Steps /\ p # "return" /\ "CANCELLED" \in LabState /\ "PULLING" \in LabState
    BY DEF Steps, Active, Startup, LabState
  <2>4. /\ run'[r].error = run[r].error /\ run'[r].base = run[r].base
        /\ run'[r].pc # "return"
    <3> DEFINE m == [run[r] EXCEPT !.pc = p]
    <3>1. /\ m \in LocalState /\ m.pc = p
          /\ m.error = run[r].error /\ m.base = run[r].base
      BY <1>1, <2>3, PlainMove
    <3>2. run'[r] \in {m, Log(m, "CANCELLED"), Log(m, "PULLING")}
      BY <2>2
    <3> HIDE DEF m
    <3> QED
      BY <2>3, <3>1, <3>2, LogKeeps
  <2>5. outcome[r].state # "SUCCEEDED"
    BY <2>1 DEF IInv, OutcomeInv
  <2>6. outcome'[r].state # "SUCCEEDED"
    BY <1>4, <2>5
    DEF ExecuteCancelled, ExecuteRejected, ExecuteStarts, NoOutcome, IInv, TypeOK,
        LifecycleTypeOK
  <2>7. \A s \in Runs : Marked(run'[s]) <=> Marked(run[s])
    BY <2>1, <2>4 DEF Marked
  <2>8. \A s \in Runs : outcome'[s].state = "SUCCEEDED" =>
              run'[s].pc = "done" /\ ~Marked(run'[s])
    BY <2>1, <2>6, <2>7 DEF IInv, OutcomeInv
  <2>9. \A s \in Runs : Settled(s)' => Settled(s)
    BY <2>1, <2>4, <2>6, <2>7 DEF Settled
  <2> QED
    BY <1>2, <2>7, <2>8, <2>9, Survives
<1> QED
  BY <1>3, <1>4 DEF CallerStep

LEMMA CleanupKeeps ==
    ASSUME IInv, TypeOK', NEW r \in Runs, NEW e \in Endings, CleanupCalls(r, e)
    PROVE  IInv'
<1>1. LifecycleTypeOK /\ BackendTypeOK /\ r \in Creators
  BY CreatorsAssumption DEF IInv, TypeOK
<1>2. /\ net' \in {net, Nobody} /\ ctr' \in {ctr, Nobody}
      /\ \A c \in late' : c.verb \in Creates => c \in late
  BY <1>1, CleanupEffect DEF CleanupCalls
<1>3. /\ \A s \in Runs \ {r} : run'[s] = run[s] /\ outcome'[s] = outcome[s]
      /\ run'[r].error = run[r].error /\ run'[r].base = run[r].base
      /\ run[r].pc \in Cleanup
      /\ outcome'[r].state = "RAISED" \/ outcome'[r] = outcome[r]
      /\ run'[r].pc = "return" /\ run'[r].cleanupOk => Absent /\ UNCHANGED backendVars
  <2>1. \A p \in Cleanup \cup {"return"} : p \in Steps
    BY DEF Steps, Active
  <2>2. CASE StopContainer(r, e)
    <3>1. CleanupCall(r, "stop_container", e, "remove_container")
      BY <2>2 DEF StopContainer
    <3>2. "stop_container" \in Cleanup /\ "remove_container" \in Cleanup
      BY DEF Cleanup
    <3> QED
      BY <1>1, <2>1, <3>1, <3>2, CleanupMoves
  <2>3. CASE RemoveContainer(r, e)
    <3>1. CleanupCall(r, "remove_container", e, "remove_network")
      BY <2>3 DEF RemoveContainer
    <3>2. "remove_container" \in Cleanup /\ "remove_network" \in Cleanup
      BY DEF Cleanup
    <3> QED
      BY <1>1, <2>1, <3>1, <3>2, CleanupMoves
  <2>4. CASE RemoveNetwork(r, e)
    <3>1. CleanupCall(r, "remove_network", e, "verify_absent")
      BY <2>4 DEF RemoveNetwork
    <3>2. "remove_network" \in Cleanup /\ "verify_absent" \in Cleanup
      BY DEF Cleanup
    <3> QED
      BY <1>1, <2>1, <3>1, <3>2, CleanupMoves
  <2>5. ASSUME NEW absent \in BOOLEAN, VerifyAbsent(r, e, absent), verify_absent(r, e, absent)
        PROVE  <1>3!1 /\ <1>3!2 /\ <1>3!3 /\ <1>3!4 /\ <1>3!5
    <3> DEFINE f == IF e = "ok" /\ ~absent THEN "exception" ELSE e
    <3>1. CleanupCall(r, "verify_absent", f, "return")
      BY <2>5 DEF VerifyAbsent
    <3>2. f = "ok" => Absent /\ UNCHANGED backendVars
      BY <2>5 DEF verify_absent
    <3> HIDE DEF f
    <3>3. "verify_absent" \in Cleanup
      BY DEF Cleanup
    <3>4. /\ run[r].pc = "verify_absent"
          /\ \A s \in Runs \ {r} : run'[s] = run[s] /\ outcome'[s] = outcome[s]
          /\ run'[r].error = run[r].error /\ run'[r].base = run[r].base
          /\ \/ /\ run'[r].pc = "return" /\ (run'[r].cleanupOk => f = "ok")
                /\ outcome'[r] = outcome[r]
             \/ run'[r].pc = "done" /\ outcome'[r].state = "RAISED"
      BY <1>1, <2>1, <3>1, <3>3, CleanupMoves
    <3> QED
      BY <3>2, <3>3, <3>4
  <2> QED
    BY <2>2, <2>3, <2>4, <2>5 DEF CleanupCalls
<1>4. \A s \in Runs : Marked(run'[s]) <=> Marked(run[s])
  BY <1>3 DEF Marked
<1>5. outcome[r].state # "SUCCEEDED"
  BY <1>3 DEF IInv, OutcomeInv, Cleanup
<1>6. \A s \in Runs : outcome'[s].state = "SUCCEEDED" =>
          run'[s].pc = "done" /\ ~Marked(run'[s])
  BY <1>3, <1>4, <1>5 DEF IInv, OutcomeInv
<1>7. \A s \in Runs : s # Nobody
  BY CreatorsAssumption, NoRunAssumption
<1>8. \A s \in Runs : Settled(s)' => Settled(s) \/ OwnsNothing(s)'
  BY <1>3, <1>4, <1>5, <1>7 DEF Settled, OwnsNothing, Absent, backendVars
<1>9. \A s \in Runs : Settled(s)' => (net' = s => net = s) /\ (ctr' = s => ctr = s)
  BY <1>2, <1>7
<1> QED
  BY <1>2, <1>4, <1>6, <1>8, <1>9, Survives

LEMMA DaemonKeeps ==
    ASSUME IInv, TypeOK', DaemonStep, UNCHANGED lifecycleVars
    PROVE  IInv'
<1>1. BackendTypeOK /\ run' = run /\ outcome' = outcome
  BY DEF IInv, TypeOK, lifecycleVars
<1>2. /\ \/ net' \in {net, Nobody}
         \/ \E c \in late : c.verb \in Creates /\ net' = c.obj
      /\ \/ ctr' \in {ctr, Nobody}
         \/ \E c \in late : c.verb \in Creates /\ ctr' = c.obj
      /\ late' \subseteq late
  BY <1>1, DaemonEffect
<1>3. \A s \in Runs : (Settled(s)' => Settled(s)) /\ (Settled(s) => ~Marked(run[s]))
  BY <1>1 DEF Settled
<1>4. \A s \in Runs : s # Nobody
  BY CreatorsAssumption, NoRunAssumption
<1>5. \A s \in Runs : Settled(s)' => (net' = s => net = s) /\ (ctr' = s => ctr = s)
  BY <1>2, <1>3, <1>4 DEF IInv, LateInv
<1>6. \A s \in Runs : outcome'[s].state = "SUCCEEDED" =>
          run'[s].pc = "done" /\ ~Marked(run'[s])
  BY <1>1 DEF IInv, OutcomeInv
<1> QED
  BY <1>1, <1>2, <1>3, <1>5, <1>6, Survives

LEMMA IInvStep == IInv /\ [Next]_vars => IInv'
<1> SUFFICES ASSUME IInv, [Next]_vars
             PROVE  IInv'
  OBVIOUS
<1>1. TypeOK'
  BY TypeStep, LifecycleStep, BackendTypeStep, ElapsedStep DEF IInv, TypeOK
<1>2. CASE UNCHANGED lifecycleVars /\ UNCHANGED backendVars
  BY <1>1, <1>2
  DEF lifecycleVars, backendVars, IInv, LateInv, OutcomeInv, SettledInv, Settled, OwnsNothing
<1>3. ASSUME NEW r \in Runs, NEW e \in Endings,
             (LocalStep(r) /\ UNCHANGED backendVars) \/ StartupCall(r, e) \/ CleanupCalls(r, e)
      PROVE  IInv'
  BY <1>1, <1>3, LocalKeeps, StartupKeeps, CleanupKeeps
<1>4. ASSUME NEW r \in Runs, CallerStep(r), UNCHANGED backendVars
      PROVE  IInv'
  BY <1>1, <1>4, CallerKeeps
<1>5. CASE DaemonStep /\ UNCHANGED lifecycleVars
  BY <1>1, <1>5, DaemonKeeps
<1>6. "ok" \in Endings
  BY DEF Endings
<1> QED
  BY <1>2, <1>3, <1>4, <1>5, <1>6, StepCases

\* SUCCEEDED means that the daemon has, and will have, nothing of the run: for
\* any number of runs, with every reply that can be lost, every abandoned
\* command that can take effect late, and every cleanup that can be interrupted.
THEOREM SuccessLeavesNothingHolds == Spec => []SuccessLeavesNothing
<1>1. IInv => SuccessLeavesNothing
  BY DEF IInv, LateInv, OutcomeInv, SettledInv, Settled, SuccessLeavesNothing, Creates
<1> QED
  BY <1>1, IInvInit, IInvStep, PTL DEF Spec

-----------------------------------------------------------------------------
(* Where a call takes the run that makes it.                               *)

\* A call of run r that ended with e: to step p, or into the finally block.
Arrives(r, e, p) ==
    /\ \A s \in Runs \ {r} : run'[s] = run[s]
    /\ outcome' = outcome
    /\ IF e = "ok" THEN run'[r].pc = p ELSE run'[r].pc \in Cleanup

LEMMA CallArrives ==
    ASSUME LifecycleTypeOK, NEW r \in Runs, NEW e, NEW n,
           Becomes(r, AfterCall(run[r], e, n))
    PROVE  Arrives(r, e, n.pc)
<1>1. /\ \A s \in Runs \ {r} : run'[s] = run[s]
      /\ outcome' = outcome /\ run'[r] = AfterCall(run[r], e, n)
  BY DEF Becomes, LifecycleTypeOK
<1>2. /\ [run[r] EXCEPT !.base = TRUE] \in LocalState
      /\ [run[r] EXCEPT !.error = "lifecycle_failed"] \in LocalState
  BY ZenonT(40) DEF LifecycleTypeOK, LocalState, ErrorKind
<1>3. Abort(run[r], e).pc \in Cleanup
  BY <1>2, EnterCleanupStep DEF Abort
<1> QED
  BY <1>1, <1>3 DEF Arrives, AfterCall

LEMMA StartupArrives ==
    ASSUME LifecycleTypeOK, NEW r \in Runs, NEW e \in Endings
    PROVE  /\ Inspect(r, e) => run[r].pc = "inspect" /\ Arrives(r, e, "pull")
           /\ Pull(r, e) => run[r].pc = "pull" /\ Arrives(r, e, "pulled")
           /\ CreateNetwork(r, e) =>
                 run[r].pc = "create_network" /\ Arrives(r, e, "create_container")
           /\ CreateContainer(r, e) =>
                 run[r].pc = "create_container" /\ Arrives(r, e, "start_container")
           /\ StartContainer(r, e) =>
                 run[r].pc = "start_container" /\ Arrives(r, e, "wait_ready")
           /\ WaitReady(r, e) => run[r].pc = "wait_ready" /\ Arrives(r, e, "ready")
<1>0. run[r] \in LocalState
  BY DEF LifecycleTypeOK
<1>1. \A p \in Startup : p \in Steps /\ [run[r] EXCEPT !.pc = p].pc = p
  BY <1>0, PlainMove DEF Steps, Active
<1>2. Log([run[r] EXCEPT !.pc = "ready"], "READY").pc = "ready"
  BY <1>0, LoggedMove DEF Steps, Active, Startup, LabState
<1>3. Log([run[r] EXCEPT !.pc = "create_container", !.attempted = {"net", "ctr"}],
          "STARTING").pc = "create_container"
  <2> DEFINE m == [run[r] EXCEPT !.pc = "create_container", !.attempted = {"net", "ctr"}]
  <2>1. m \in LocalState /\ m.pc = "create_container"
    BY <1>0 DEF LocalState, Steps, Active, Startup
  <2> HIDE DEF m
  <2>2. Log(m, "STARTING").pc = "create_container"
    BY <2>1, LogKeeps DEF LabState
  <2> QED
    BY <2>2 DEF m
<1>4. Inspect(r, e) => run[r].pc = "inspect" /\ Arrives(r, e, "pull")
  <2>1. [run[r] EXCEPT !.pc = "pull"].pc = "pull"
    BY <1>1 DEF Startup
  <2> QED
    BY <2>1, CallArrives, ZenonT(40) DEF Inspect
<1>5. Pull(r, e) => run[r].pc = "pull" /\ Arrives(r, e, "pulled")
  <2>1. [run[r] EXCEPT !.pc = "pulled"].pc = "pulled"
    BY <1>1 DEF Startup
  <2> QED
    BY <2>1, CallArrives, ZenonT(40) DEF Pull
<1>6. CreateNetwork(r, e) =>
          run[r].pc = "create_network" /\ Arrives(r, e, "create_container")
  BY <1>3, CallArrives DEF CreateNetwork
<1>7. CreateContainer(r, e) =>
          run[r].pc = "create_container" /\ Arrives(r, e, "start_container")
  <2>1. [run[r] EXCEPT !.pc = "start_container"].pc = "start_container"
    BY <1>1 DEF Startup
  <2> QED
    BY <2>1, CallArrives, ZenonT(40) DEF CreateContainer
<1>8. StartContainer(r, e) =>
          run[r].pc = "start_container" /\ Arrives(r, e, "wait_ready")
  <2>1. [run[r] EXCEPT !.pc = "wait_ready"].pc = "wait_ready"
    BY <1>1 DEF Startup
  <2> QED
    BY <2>1, CallArrives, ZenonT(40) DEF StartContainer
<1>9. WaitReady(r, e) => run[r].pc = "wait_ready" /\ Arrives(r, e, "ready")
  BY <1>2, CallArrives DEF WaitReady
<1> QED
  BY <1>4, <1>5, <1>6, <1>7, <1>8, <1>9

\* A check, or work(), either goes on or enters the finally block.
LEMMA CheckArrives ==
    ASSUME LifecycleTypeOK, NEW r \in Runs,
           \/ CheckPulled(r) \/ CheckReady(r) \/ CheckWorked(r)
           \/ \E e \in Endings : Work(r, e)
    PROVE  /\ \A s \in Runs \ {r} : run'[s] = run[s]
           /\ outcome' = outcome
           /\ \/ run'[r].pc \in Cleanup
              \/ run[r].pc = "pulled" /\ run'[r].pc = "create_network"
              \/ run[r].pc = "ready" /\ run'[r].pc = "work"
              \/ run[r].pc = "work" /\ run'[r].pc = "worked"
<1>0. run[r] \in LocalState
  BY DEF LifecycleTypeOK
<1>1. ASSUME NEW n, Becomes(r, n)
      PROVE  (\A s \in Runs \ {r} : run'[s] = run[s]) /\ outcome' = outcome /\ run'[r] = n
  BY <1>1 DEF Becomes, LifecycleTypeOK
<1>2. EnterCleanup([run[r] EXCEPT !.cancelled = TRUE]).pc \in Cleanup
  <2>1. [run[r] EXCEPT !.cancelled = TRUE] \in LocalState
    BY <1>0 DEF LocalState
  <2> QED
    BY <2>1, EnterCleanupStep
<1>3. CASE CheckPulled(r)
  <2> DEFINE m == [run[r] EXCEPT !.pc = "create_network", !.attempted = {"net"}]
  <2>1. m \in LocalState /\ m.pc = "create_network"
    BY <1>0 DEF LocalState, Steps, Active, Startup
  <2>2. run[r].pc = "pulled" /\ Becomes(r, CancelOr(r, run[r], Log(m, "NETWORK_CREATING")))
    BY <1>3 DEF CheckPulled
  <2> HIDE DEF m
  <2>3. Log(m, "NETWORK_CREATING").pc = "create_network"
    BY <2>1, LogKeeps DEF LabState
  <2> QED
    BY <1>1, <1>2, <2>2, <2>3 DEF CancelOr
<1>4. CASE CheckReady(r)
  <2>1. Log([run[r] EXCEPT !.pc = "work"], "BENCHMARKING").pc = "work"
    BY <1>0, LoggedMove DEF Steps, Active, Working, LabState
  <2> QED
    BY <1>1, <1>2, <1>4, <2>1 DEF CheckReady, CancelOr
<1>5. CASE CheckWorked(r)
  <2> DEFINE c == [run[r] EXCEPT !.cancelled = TRUE]
             d == [run[r] EXCEPT !.result = TRUE]
  <2>1. c \in LocalState /\ d \in LocalState
    BY <1>0 DEF LocalState
  <2>2. \/ Becomes(r, EnterCleanup(Log(c, "CANCEL_REQUESTED")))
        \/ Becomes(r, EnterCleanup(Log(d, "FINALIZING")))
    BY <1>5 DEF CheckWorked
  <2> HIDE DEF c, d
  <2>3. /\ EnterCleanup(Log(c, "CANCEL_REQUESTED")).pc \in Cleanup
        /\ EnterCleanup(Log(d, "FINALIZING")).pc \in Cleanup
    BY <2>1, LogType, EnterCleanupStep DEF LabState
  <2> QED
    BY <1>1, <2>2, <2>3
<1>6. ASSUME NEW e \in Endings, Work(r, e)
      PROVE  /\ \A s \in Runs \ {r} : run'[s] = run[s]
             /\ outcome' = outcome
             /\ run'[r].pc \in Cleanup \/ (run[r].pc = "work" /\ run'[r].pc = "worked")
  <2> DEFINE f == [run[r] EXCEPT !.error = "work_failed"]
             b == [run[r] EXCEPT !.base = TRUE]
             n == [run[r] EXCEPT !.pc = "worked"]
  <2>1. f \in LocalState /\ b \in LocalState /\ n.pc = "worked"
    BY <1>0 DEF LocalState, ErrorKind
  <2>2. /\ run[r].pc = "work"
        /\ Becomes(r, n) \/ Becomes(r, EnterCleanup(f)) \/ Becomes(r, EnterCleanup(b))
    BY <1>6 DEF Work, Endings
  <2> HIDE DEF f, b, n
  <2>3. EnterCleanup(f).pc \in Cleanup /\ EnterCleanup(b).pc \in Cleanup
    BY <2>1, EnterCleanupStep
  <2> QED
    BY <1>1, <2>1, <2>2, <2>3
<1> QED
  BY <1>3, <1>4, <1>5, <1>6

\* The three ways a call of execute() begins.
LEMMA CallerArrives ==
    ASSUME LifecycleTypeOK, NEW r \in Runs, CallerStep(r)
    PROVE  /\ \A s \in Runs \ {r} : run'[s] = run[s] /\ outcome'[s] = outcome[s]
           /\ \/ run' = run /\ outcome' = outcome
              \/ run[r].pc = "idle" /\ run'[r].pc = "done"
              \/ run[r].pc = "idle" /\ run'[r].pc = "inspect" /\ outcome' = outcome
<1>0. run[r] \in LocalState
  BY DEF LifecycleTypeOK
<1>1. \A p \in {"done", "inspect"}, s \in {"CANCELLED", "PULLING"} :
          Log([run[r] EXCEPT !.pc = p], s).pc = p /\ [run[r] EXCEPT !.pc = p].pc = p
  BY <1>0, PlainMove, LoggedMove DEF Steps, Active, Startup, LabState
<1>2. CASE RequestCancel(r)
  BY <1>2 DEF RequestCancel
<1>3. CASE ExecuteCancelled(r)
  BY <1>1, <1>3 DEF ExecuteCancelled, LifecycleTypeOK
<1>4. CASE ExecuteRejected(r)
  BY <1>1, <1>4 DEF ExecuteRejected, LifecycleTypeOK
<1>5. CASE ExecuteStarts(r)
  BY <1>1, <1>5 DEF ExecuteStarts, LifecycleTypeOK
<1> QED
  BY <1>2, <1>3, <1>4, <1>5 DEF CallerStep

\* A cleanup call goes to the next one, returns or escapes.
LEMMA CleanupArrives ==
    ASSUME LifecycleTypeOK, NEW r \in Runs, NEW e \in Endings, CleanupCalls(r, e)
    PROVE  /\ run[r].pc \in Cleanup
           /\ \A s \in Runs \ {r} : run'[s] = run[s] /\ outcome'[s] = outcome[s]
           /\ run'[r].pc \in Cleanup \cup {"return", "done"}
           /\ run'[r].pc = "return" /\ run'[r].cleanupOk => Absent /\ UNCHANGED backendVars
           /\ outcome'[r].verified => outcome'[r] = outcome[r]
<1>0. /\ Cleanup \subseteq Steps /\ "return" \in Steps
      /\ {"stop_container", "remove_container", "remove_network", "verify_absent"} = Cleanup
  BY DEF Steps, Active, Cleanup
<1>1. ASSUME NEW f, NEW call \in Cleanup, NEW next \in Steps, CleanupCall(r, call, f, next)
      PROVE  outcome'[r].verified => outcome'[r] = outcome[r]
  BY <1>1 DEF CleanupCall, Escape, Becomes, NoOutcome, LifecycleTypeOK
<1>2. ASSUME NEW call \in Cleanup, NEW next \in Cleanup, CleanupCall(r, call, e, next)
      PROVE  /\ run[r].pc \in Cleanup
             /\ \A s \in Runs \ {r} : run'[s] = run[s] /\ outcome'[s] = outcome[s]
             /\ run'[r].pc \in Cleanup \cup {"done"}
             /\ outcome'[r].verified => outcome'[r] = outcome[r]
  BY <1>0, <1>1, <1>2, CleanupMoves
<1>3. CASE StopContainer(r, e)
  BY <1>0, <1>2, <1>3 DEF StopContainer, Cleanup
<1>4. CASE RemoveContainer(r, e)
  BY <1>0, <1>2, <1>4 DEF RemoveContainer, Cleanup
<1>5. CASE RemoveNetwork(r, e)
  BY <1>0, <1>2, <1>5 DEF RemoveNetwork, Cleanup
<1>6. ASSUME NEW absent \in BOOLEAN, VerifyAbsent(r, e, absent), verify_absent(r, e, absent)
      PROVE  /\ run[r].pc \in Cleanup
             /\ \A s \in Runs \ {r} : run'[s] = run[s] /\ outcome'[s] = outcome[s]
             /\ run'[r].pc \in {"return", "done"}
             /\ run'[r].pc = "return" /\ run'[r].cleanupOk => Absent /\ UNCHANGED backendVars
             /\ outcome'[r].verified => outcome'[r] = outcome[r]
  <2> DEFINE f == IF e = "ok" /\ ~absent THEN "exception" ELSE e
  <2>1. CleanupCall(r, "verify_absent", f, "return")
    BY <1>6 DEF VerifyAbsent
  <2>2. f = "ok" => Absent /\ UNCHANGED backendVars
    BY <1>6 DEF verify_absent
  <2> HIDE DEF f
  <2>3. "verify_absent" \in Cleanup
    BY DEF Cleanup
  <2>4. /\ run[r].pc = "verify_absent"
        /\ \A s \in Runs \ {r} : run'[s] = run[s] /\ outcome'[s] = outcome[s]
        /\ \/ run'[r].pc = "return" /\ (run'[r].cleanupOk => f = "ok")
           \/ run'[r].pc = "done"
    BY <1>0, <2>1, <2>3, CleanupMoves
  <2> QED
    BY <1>0, <1>1, <2>1, <2>2, <2>3, <2>4
<1> QED
  BY <1>3, <1>4, <1>5, <1>6 DEF CleanupCalls, Cleanup

-----------------------------------------------------------------------------
(* work() sees the endpoint of its own run.                                *)

Past    == Cleanup \cup {"return", "done"}
HasPort == {"wait_ready", "ready", "work", "worked"}
HasCtr  == HasPort \cup {"start_container"}
HasNet  == HasCtr \cup {"create_container"}
Removes == {"rm", "network rm"}

\* What the calls that returned have made is there, and the handles name it.
OwnInv ==
    \A r \in Runs :
        /\ run[r].pc \in HasNet => networks = r /\ net = r
        /\ run[r].pc \in HasCtr => containers = r /\ ctr = r
        /\ run[r].pc \in HasPort => hostPort = r

\* A handle is that of the run that made the object, which is at work or past it.
HandleInv ==
    \A r \in Runs :
        /\ networks = r => run[r].pc \in HasNet \cup Past
        /\ containers = r => run[r].pc \in HasCtr \cup Past

\* An abandoned removal is of an object whose run has begun its cleanup.
RemovalInv == \A c \in late : c.verb \in Removes => run[c.obj].pc \in Past

EndpointInv == TypeOK /\ FlightInv /\ OwnInv /\ HandleInv /\ RemovalInv

LEMMA StepKinds ==
    /\ HasNet \subseteq Active /\ HasNet \cap Past = {}
    /\ Cleanup \subseteq Active /\ Cleanup \subseteq Past
BY DEF HasNet, HasCtr, HasPort, Past, Active, Startup, Working, Cleanup

LEMMA EndpointInit == Init => EndpointInv
<1> SUFFICES ASSUME Init PROVE EndpointInv
  OBVIOUS
<1>1. TypeOK /\ FlightInv
  BY TypeInit, BackendTypeInit, FlightInit, ReadyDeadlineAssumption DEF Init, BackendInit, TypeOK
<1>2. \A r \in Runs : run[r].pc = "idle" /\ r # Nobody
  BY CreatorsAssumption, NoRunAssumption DEF Init, LifecycleInit, Fresh
<1>3. "idle" \notin HasNet
  BY DEF HasNet, HasCtr, HasPort
<1>4. networks = Nobody /\ containers = Nobody /\ late = {}
  BY DEF Init, BackendInit
<1>5. OwnInv
  BY <1>2, <1>3 DEF OwnInv, HasNet, HasCtr
<1> QED
  BY <1>1, <1>2, <1>4, <1>5 DEF EndpointInv, HandleInv, RemovalInv

\* A step of the lifecycle that leaves the backend alone.
LEMMA UntouchedKeeps ==
    ASSUME EndpointInv, TypeOK', FlightInv', UNCHANGED backendVars,
           \A s \in Runs :
              \/ run'[s].pc = run[s].pc
              \/ run'[s].pc \in Past
              \/ run[s].pc \in HasPort /\ run'[s].pc \in HasPort
              \/ run[s].pc \notin HasNet \cup Past /\ run'[s].pc \notin HasNet \cup Past
    PROVE  EndpointInv'
<1>1. \A s \in Runs : run[s].pc \in Past => run'[s].pc \in Past
  BY StepKinds DEF HasNet, HasCtr
<1>2. RemovalInv'
  BY <1>1, CreatorsAssumption
  DEF EndpointInv, RemovalInv, backendVars, TypeOK, BackendTypeOK, Command
<1>3. OwnInv'
  BY StepKinds DEF EndpointInv, OwnInv, backendVars, HasNet, HasCtr
<1>4. HandleInv'
  BY <1>1, StepKinds DEF EndpointInv, HandleInv, backendVars, HasNet, HasCtr
<1> QED
  BY <1>2, <1>3, <1>4 DEF EndpointInv

\* A step after which nobody is between the creation of a resource and its
\* cleanup: a failed startup call, or a call of the finally block.
LEMMA EndedKeeps ==
    ASSUME EndpointInv, TypeOK', FlightInv', NEW r \in Runs, run[r].pc \in Active,
           \A s \in Runs \ {r} : run'[s] = run[s],
           run'[r].pc \in Past,
           networks' \in {networks, Nobody}, containers' \in {containers, Nobody},
           \A c \in late' : c.verb \in Removes => c \in late \/ run'[c.obj].pc \in Past
    PROVE  EndpointInv'
<1>1. \A s \in Runs : run'[s].pc \notin HasNet
  BY StepKinds DEF EndpointInv, FlightInv
<1>2. \A s \in Runs : run[s].pc \in Past => run'[s].pc \in Past
  OBVIOUS
<1>3. \A s \in Runs : s # Nobody
  BY CreatorsAssumption, NoRunAssumption
<1>4. OwnInv'
  BY <1>1 DEF OwnInv, HasNet, HasCtr
<1>5. HandleInv'
  BY <1>3 DEF EndpointInv, HandleInv
<1>6. RemovalInv'
  BY <1>2, CreatorsAssumption
  DEF EndpointInv, RemovalInv, TypeOK, BackendTypeOK, Command
<1> QED
  BY <1>4, <1>5, <1>6 DEF EndpointInv

\* A command that is not a removal leaves no removal behind.
LEMMA NoRemovalLeft ==
    ASSUME NEW c \in Command, NEW e, c.verb \notin Removes, NoEffect \/ Issue(c, e)
    PROVE  \A d \in late' : d.verb \in Removes => d \in late
BY DEF Issue, Confirmed, Unconfirmed, NoEffect

\* What a startup method that failed can have done.
LEMMA FailedStartup ==
    ASSUME BackendTypeOK, NEW r \in Creators, NEW e \in Endings, e # "ok",
           \/ inspect_capabilities(r, e) \/ pull_image(r, e)
           \/ create_network(r, e) \/ create_container(r, e)
           \/ start_container(r, e) \/ wait_ready(r, e)
    PROVE  /\ networks' = networks /\ containers' = containers
           /\ \A c \in late' : c.verb \in Removes => c \in late
<1>1. ASSUME NEW v \in {"network create", "create", "start"}, NEW h \in Creators
      PROVE  Cmd(v, h) \in Command /\ Cmd(v, h).verb \notin Removes
  BY CmdType DEF Verbs, Removes
<1>2. CASE UNCHANGED backendVars
  BY <1>2 DEF backendVars
<1>3. CASE networks = Nobody /\ create_network(r, e)
  <2>1. /\ UNCHANGED backendVars \/ Issue(Cmd("network create", r), e)
        /\ networks' = networks /\ containers' = containers
    BY <1>3 DEF create_network, backendVars
  <2> QED
    BY <1>1, <1>2, <2>1, NoRemovalLeft
<1>4. CASE containers = Nobody /\ networks # Nobody /\ create_container(r, e)
  <2>1. /\ UNCHANGED backendVars \/ Issue(Cmd("create", r), e)
        /\ networks' = networks /\ containers' = containers
    BY <1>4 DEF create_container, backendVars
  <2> QED
    BY <1>1, <1>2, <2>1, NoRemovalLeft
<1>5. CASE containers # Nobody /\ start_container(r, e)
  <2>1. NoEffect \/ Issue(Cmd("start", containers), e)
    BY <1>5 DEF start_container, OnHandle
  <2>2. networks' = networks /\ containers' = containers
    BY <1>5 DEF start_container
  <2>3. containers \in Creators
    BY <1>5 DEF BackendTypeOK, Owner
  <2> QED
    BY <1>1, <2>1, <2>2, <2>3, NoRemovalLeft
<1> QED
  BY <1>2, <1>3, <1>4, <1>5
  DEF inspect_capabilities, pull_image, create_network, create_container,
      start_container, wait_ready

\* A startup call that succeeded adds the resource it made.
LEMMA CreatedKeeps ==
    ASSUME EndpointInv, TypeOK', FlightInv', NEW r \in Runs,
           \/ CreateNetwork(r, "ok") /\ create_network(r, "ok")
           \/ CreateContainer(r, "ok") /\ create_container(r, "ok")
           \/ StartContainer(r, "ok") /\ start_container(r, "ok")
    PROVE  EndpointInv'
<1>0. LifecycleTypeOK /\ r # Nobody /\ "ok" \in Endings
  BY CreatorsAssumption, NoRunAssumption DEF EndpointInv, TypeOK, Endings
<1>1. PICK p \in HasNet : /\ \A s \in Runs \ {r} : run'[s] = run[s]
                          /\ run'[r].pc = p
                          /\ run[r].pc \in Active \ Past
                          /\ late' = late
  <2>1. CASE CreateNetwork(r, "ok") /\ create_network(r, "ok")
    BY <1>0, <2>1, StartupArrives
    DEF Arrives, create_network, Issue, Confirmed, HasNet, Active, Startup, Past, Cleanup
  <2>2. CASE CreateContainer(r, "ok") /\ create_container(r, "ok")
    BY <1>0, <2>2, StartupArrives
    DEF Arrives, create_container, Issue, Confirmed, HasNet, HasCtr, Active, Startup, Past,
        Cleanup
  <2>3. CASE StartContainer(r, "ok") /\ start_container(r, "ok")
    BY <1>0, <2>3, StartupArrives
    DEF Arrives, start_container, OnHandle, NoEffect, Issue, Confirmed, HasNet, HasCtr,
        HasPort, Active, Startup, Past, Cleanup
  <2> QED
    BY <2>1, <2>2, <2>3
<1>2. \A s \in Runs \ {r} : run'[s] = run[s] /\ run[s].pc \notin HasNet
  BY <1>1, StepKinds DEF EndpointInv, FlightInv
<1>3. RemovalInv'
  BY <1>1, CreatorsAssumption
  DEF EndpointInv, RemovalInv, TypeOK, BackendTypeOK, Command
<1>4. CASE CreateNetwork(r, "ok") /\ create_network(r, "ok")
  <2>1. run[r].pc = "create_network" /\ run'[r].pc = "create_container"
    BY <1>0, <1>4, StartupArrives DEF Arrives
  <2>2. networks' = r /\ net' = r /\ containers' = containers
    BY <1>4 DEF create_network, Issue, Confirmed, Carries, Cmd
  <2>3. containers # r
    BY <2>1 DEF EndpointInv, HandleInv, HasCtr, HasPort, Past, Cleanup
  <2>4. OwnInv'
    BY <1>2, <2>1, <2>2 DEF OwnInv, HasNet, HasCtr, HasPort
  <2>5. HandleInv'
    BY <1>2, <2>1, <2>2, <2>3 DEF EndpointInv, HandleInv, HasNet
  <2> QED
    BY <1>3, <2>4, <2>5 DEF EndpointInv
<1>5. CASE CreateContainer(r, "ok") /\ create_container(r, "ok")
  <2>1. run[r].pc = "create_container" /\ run'[r].pc = "start_container"
    BY <1>0, <1>5, StartupArrives DEF Arrives
  <2>2. networks = r /\ net = r
    BY <2>1 DEF EndpointInv, OwnInv, HasNet
  <2>3. containers' = r /\ ctr' = r /\ networks' = networks /\ net' = net
    BY <1>5 DEF create_container, Issue, Confirmed, Carries, Cmd
  <2>4. OwnInv'
    BY <1>2, <2>1, <2>2, <2>3 DEF OwnInv, HasNet, HasCtr, HasPort
  <2>5. HandleInv'
    BY <1>2, <2>1, <2>2, <2>3 DEF HandleInv, HasNet, HasCtr
  <2> QED
    BY <1>3, <2>4, <2>5 DEF EndpointInv
<1>6. CASE StartContainer(r, "ok") /\ start_container(r, "ok")
  <2>1. run[r].pc = "start_container" /\ run'[r].pc = "wait_ready"
    BY <1>0, <1>6, StartupArrives DEF Arrives
  <2>2. networks = r /\ net = r /\ containers = r /\ ctr = r
    BY <2>1 DEF EndpointInv, OwnInv, HasNet, HasCtr
  <2>3. /\ containers' = containers /\ networks' = networks /\ hostPort' = r
        /\ net' = net /\ ctr' = ctr
    BY <1>6, <2>2
    DEF start_container, OnHandle, Issue, Confirmed, Carries, Cmd, NoEffect
  <2>4. OwnInv'
    BY <1>2, <2>1, <2>2, <2>3 DEF OwnInv, HasNet, HasCtr, HasPort
  <2>5. HandleInv'
    BY <1>2, <2>1, <2>2, <2>3 DEF HandleInv, HasNet, HasCtr, HasPort
  <2> QED
    BY <1>3, <2>4, <2>5 DEF EndpointInv
<1> QED
  BY <1>4, <1>5, <1>6

LEMMA EndpointStartup ==
    ASSUME EndpointInv, TypeOK', FlightInv', NEW r \in Runs, NEW e \in Endings,
           StartupCall(r, e)
    PROVE  EndpointInv'
<1>0. LifecycleTypeOK
  BY DEF EndpointInv, TypeOK
<1>1. CASE e # "ok"
  <2>1. /\ run[r].pc \in Active
        /\ \A s \in Runs \ {r} : run'[s] = run[s]
        /\ run'[r].pc \in Cleanup
    BY <1>0, <1>1, StartupArrives DEF StartupCall, Arrives, Active, Startup
  <2>2. /\ networks' = networks /\ containers' = containers
        /\ \A c \in late' : c.verb \in Removes => c \in late
    BY <1>1, FailedStartup, CreatorsAssumption DEF EndpointInv, TypeOK, StartupCall
  <2> QED
    BY <2>1, <2>2, EndedKeeps, StepKinds
<1>2. CASE e = "ok" /\ (Inspect(r, e) \/ Pull(r, e)) /\ UNCHANGED backendVars
  <2>1. /\ run[r].pc \notin HasNet \cup Past /\ run'[r].pc \notin HasNet \cup Past
        /\ \A s \in Runs \ {r} : run'[s] = run[s]
    BY <1>0, <1>2, StartupArrives
    DEF Arrives, HasNet, HasCtr, HasPort, Past, Cleanup
  <2> QED
    BY <1>2, <2>1, UntouchedKeeps
<1>3. CASE e = "ok" /\ WaitReady(r, e) /\ UNCHANGED backendVars
  <2>1. /\ run[r].pc \in HasPort /\ run'[r].pc \in HasPort
        /\ \A s \in Runs \ {r} : run'[s] = run[s]
    BY <1>0, <1>3, StartupArrives DEF Arrives, HasPort
  <2> QED
    BY <1>3, <2>1, UntouchedKeeps
<1> QED
  BY <1>1, <1>2, <1>3, CreatedKeeps
  DEF StartupCall, inspect_capabilities, pull_image, wait_ready

\* A call of the finally block removes through the handles only, and those are
\* of the run itself or of one that is past its own cleanup.
LEMMA EndpointCleanup ==
    ASSUME EndpointInv, TypeOK', FlightInv', NEW r \in Runs, NEW e \in Endings,
           CleanupCalls(r, e)
    PROVE  EndpointInv'
<1>1. /\ run[r].pc \in Cleanup
      /\ \A s \in Runs \ {r} : run'[s] = run[s]
      /\ run'[r].pc \in Past
  BY CleanupArrives DEF EndpointInv, TypeOK, Past
<1>2. \A h \in Runs : networks = h \/ containers = h => run'[h].pc \in Past
  BY <1>1, StepKinds DEF EndpointInv, FlightInv, HandleInv, HasNet
<1>3. networks \in Runs \cup {Nobody} /\ containers \in Runs \cup {Nobody}
  BY CreatorsAssumption DEF EndpointInv, TypeOK, BackendTypeOK, Owner
<1>4. ASSUME NEW v, NEW h \in Runs, run'[h].pc \in Past, NoEffect \/ Issue(Cmd(v, h), e)
      PROVE  \A c \in late' : c.verb \in Removes => c \in late \/ run'[c.obj].pc \in Past
  <2>1. Cmd(v, h).obj = h
    BY DEF Cmd
  <2> QED
    BY <1>4, <2>1 DEF Issue, Confirmed, Unconfirmed, NoEffect
<1>5. /\ networks' \in {networks, Nobody} /\ containers' \in {containers, Nobody}
      /\ \A c \in late' : c.verb \in Removes => c \in late \/ run'[c.obj].pc \in Past
  <2>1. CASE UNCHANGED backendVars
    BY <2>1 DEF backendVars
  <2>2. CASE containers # Nobody /\ stop_container(r, e)
    BY <1>2, <1>3, <1>4, <2>2 DEF stop_container, OnHandle, handleVars
  <2>3. CASE containers # Nobody /\ remove_container(r, e)
    BY <1>2, <1>3, <1>4, <2>3 DEF remove_container, OnHandle
  <2>4. CASE networks # Nobody /\ remove_network(r, e)
    BY <1>2, <1>3, <1>4, <2>4 DEF remove_network, OnHandle
  <2> QED
    BY <2>1, <2>2, <2>3, <2>4
    DEF CleanupCalls, stop_container, remove_container, remove_network, verify_absent
<1> QED
  BY <1>1, <1>5, EndedKeeps, StepKinds

\* An abandoned command does not reach the objects of a run at work: a creation
\* finds the name taken, a removal is of another run.
LEMMA EndpointDaemon ==
    ASSUME EndpointInv, TypeOK', FlightInv', DaemonStep, UNCHANGED lifecycleVars
    PROVE  EndpointInv'
<1>1. /\ run' = run /\ UNCHANGED handleVars /\ late' \subseteq late
  BY DEF DaemonStep, ContainerExits, LateEffect, lifecycleVars, handleVars
<1>2. ASSUME NEW r \in Runs
      PROVE  /\ run[r].pc \in HasNet => (net = r => net' = r)
             /\ run[r].pc \in HasCtr => (ctr = r => ctr' = r)
  <2>1. CASE ContainerExits
    BY <2>1 DEF ContainerExits
  <2>2. ASSUME NEW c \in late, LateEffect(c)
        PROVE  /\ run[r].pc \in HasNet => (net = r => net' = r)
               /\ run[r].pc \in HasCtr => (ctr = r => ctr' = r)
    <3>1. /\ c.verb \in Verbs /\ r # Nobody
          /\ run[r].pc \in HasNet => ~(c.verb \in Removes /\ c.obj = r)
      BY CreatorsAssumption, NoRunAssumption, StepKinds
      DEF EndpointInv, RemovalInv, TypeOK, BackendTypeOK, Command
    <3>2. CASE ~Accepts(c)
      BY <2>2, <3>2 DEF LateEffect
    <3>3. CASE Accepts(c)
      <4>1. /\ net' = net \/ (c.verb = "network create" /\ net = Nobody)
                          \/ (c.verb = "network rm" /\ net = c.obj)
            /\ ctr' = ctr \/ (c.verb = "create" /\ ctr = Nobody)
                          \/ (c.verb = "rm" /\ ctr = c.obj)
        BY <2>2, <3>1, <3>3 DEF LateEffect, Carries, Accepts, Verbs
      <4>2. run[r].pc \in HasNet => (c.verb \in {"rm", "network rm"} => c.obj # r)
        BY <3>1 DEF Removes
      <4>3. run[r].pc \in HasNet => (net = r => net' = r)
        BY <3>1, <4>1, <4>2
      <4>4. run[r].pc \in HasNet => (ctr = r => ctr' = r)
        BY <3>1, <4>1, <4>2
      <4> QED
        BY <4>3, <4>4 DEF HasNet
    <3> QED
      BY <3>2, <3>3
  <2> QED
    BY <2>1, <2>2 DEF DaemonStep
<1>3. OwnInv'
  BY <1>1, <1>2 DEF EndpointInv, OwnInv, handleVars, HasNet, HasCtr
<1>4. HandleInv' /\ RemovalInv'
  BY <1>1 DEF EndpointInv, HandleInv, RemovalInv, handleVars
<1> QED
  BY <1>3, <1>4 DEF EndpointInv

LEMMA EndpointStep == EndpointInv /\ [Next]_vars => EndpointInv'
<1> SUFFICES ASSUME EndpointInv, [Next]_vars
             PROVE  EndpointInv'
  OBVIOUS
<1>0. LifecycleTypeOK
  BY DEF EndpointInv, TypeOK
<1>1. TypeOK' /\ FlightInv'
  BY TypeStep, FlightStep, LifecycleStep, BackendTypeStep, ElapsedStep DEF EndpointInv, TypeOK
<1>2. CASE UNCHANGED lifecycleVars /\ UNCHANGED backendVars
  BY <1>1, <1>2, UntouchedKeeps DEF lifecycleVars
<1>3. ASSUME NEW r \in Runs, LocalStep(r), UNCHANGED backendVars
      PROVE  EndpointInv'
  <2>1. CASE Return(r)
    BY <1>0, <1>1, <1>3, <2>1, ReturnMoves, UntouchedKeeps DEF Past
  <2>2. CASE ~Return(r)
    <3>1. /\ \A s \in Runs \ {r} : run'[s] = run[s]
          /\ \/ run'[r].pc \in Cleanup
             \/ run[r].pc = "pulled" /\ run'[r].pc = "create_network"
             \/ run[r].pc = "ready" /\ run'[r].pc = "work"
             \/ run[r].pc = "work" /\ run'[r].pc = "worked"
      BY <1>0, <1>3, <2>2, CheckArrives DEF LocalStep
    <3>2. \/ run'[r].pc \in Past
          \/ run[r].pc \in HasPort /\ run'[r].pc \in HasPort
          \/ run[r].pc \notin HasNet \cup Past /\ run'[r].pc \notin HasNet \cup Past
      BY <3>1 DEF HasNet, HasCtr, HasPort, Past, Cleanup
    <3> QED
      BY <1>1, <1>3, <3>1, <3>2, UntouchedKeeps
  <2> QED
    BY <2>1, <2>2
<1>4. ASSUME NEW r \in Runs, CallerStep(r), UNCHANGED backendVars
      PROVE  EndpointInv'
  <2>1. "idle" \notin HasNet \cup Past /\ "inspect" \notin HasNet \cup Past /\ "done" \in Past
    BY DEF HasNet, HasCtr, HasPort, Past, Cleanup
  <2>2. \A s \in Runs :
            \/ run'[s].pc = run[s].pc
            \/ run'[s].pc \in Past
            \/ run[s].pc \notin HasNet \cup Past /\ run'[s].pc \notin HasNet \cup Past
    BY <1>0, <1>4, <2>1, CallerArrives
  <2> QED
    BY <1>1, <1>4, <2>2, UntouchedKeeps
<1>5. ASSUME NEW r \in Runs, NEW e \in Endings, StartupCall(r, e) \/ CleanupCalls(r, e)
      PROVE  EndpointInv'
  BY <1>1, <1>5, EndpointStartup, EndpointCleanup
<1> QED
  BY <1>1, <1>2, <1>3, <1>4, <1>5, EndpointDaemon, StepCases

\* work() talks to the container its own run has made, whatever commands earlier
\* runs abandoned: for any number of runs (endpoint_url and start_container,
\* docker_lab_backend.py lines 210-214 and 391-408).
THEOREM WorkSeesOwnEndpointHolds == Spec => []WorkSeesOwnEndpoint
<1>1. EndpointInv => WorkSeesOwnEndpoint
  BY DEF EndpointInv, OwnInv, WorkSeesOwnEndpoint, HasNet, HasCtr, HasPort
<1> QED
  BY <1>1, EndpointInit, EndpointStep, PTL DEF Spec

-----------------------------------------------------------------------------
(* A verified cleanup, when no command takes effect late.                  *)

\* A run that verified its cleanup, is about to, or has not begun.
Clear(r) == \/ outcome[r].verified
            \/ run[r].pc = "idle"
            \/ run[r].pc = "return" /\ run[r].cleanupOk

ClearInv == \A r \in Runs : Clear(r) => OwnsNothing(r)

\* Only a run that has left execute() has verified anything.
VerifiedInv == \A r \in Runs : Verified(r) => run[r].pc = "done"

PromptInv == TypeOK /\ late = {} /\ ClearInv /\ VerifiedInv

LEMMA PromptInit == Init => PromptInv
<1> SUFFICES ASSUME Init PROVE PromptInv
  OBVIOUS
<1>1. TypeOK
  BY TypeInit, BackendTypeInit, ReadyDeadlineAssumption DEF Init, BackendInit, TypeOK
<1>2. ClearInv
  BY CreatorsAssumption, NoRunAssumption DEF Init, BackendInit, ClearInv, OwnsNothing
<1>3. VerifiedInv
  BY DEF Init, LifecycleInit, VerifiedInv, Verified, NoOutcome
<1> QED
  BY <1>1, <1>2, <1>3 DEF Init, BackendInit, PromptInv

\* Without late effects no method leaves anything pending.
LEMMA NothingLate ==
    ASSUME ~LateEffects, NEW r \in Runs, NEW e \in Endings,
           StartupCall(r, e) \/ CleanupCalls(r, e)
    PROVE  late' = late
<1>1. ASSUME NEW c, Issue(c, e)
      PROVE  late' = late
  BY <1>1 DEF Issue, Confirmed, Unconfirmed, NoEffect
<1>2. ASSUME NEW h, NEW x, NEW v, OnHandle(h, x, v, e)
      PROVE  late' = late
  BY <1>1, <1>2 DEF OnHandle, NoEffect
<1>3. StartupCall(r, e) => late' = late
  BY <1>1, <1>2
  DEF StartupCall, inspect_capabilities, pull_image, create_network, create_container,
      start_container, wait_ready, backendVars
<1>4. CleanupCalls(r, e) => late' = late
  BY <1>2
  DEF CleanupCalls, stop_container, remove_container, remove_network, verify_absent,
      backendVars
<1> QED
  BY <1>3, <1>4

\* A verified return is one whose cleanup was confirmed.
LEMMA ReturnVerifies ==
    ASSUME LifecycleTypeOK, NEW r \in Runs, Return(r), outcome'[r].verified
    PROVE  run[r].pc = "return" /\ run[r].cleanupOk
<1>1. CASE run[r].base
  BY <1>1 DEF Return, NoOutcome, LifecycleTypeOK
<1>2. CASE ~run[r].base
  <2>1. outcome'[r] = Verdict(run[r]) /\ run[r].pc = "return"
    BY <1>2 DEF Return, LifecycleTypeOK
  <2>2. run[r].cleanupOk \in BOOLEAN
    BY DEF LifecycleTypeOK, LocalState
  <2> QED
    BY <2>1, <2>2 DEF Verdict
<1> QED
  BY <1>1, <1>2

\* The common argument: nobody becomes clear who still owns something.
LEMMA ClearKeeps ==
    ASSUME PromptInv, TypeOK', late' = {},
           \A s \in Runs : Clear(s)' => OwnsNothing(s)' \/ Clear(s),
           \A s \in Runs : Clear(s)' => (net' = s => net = s) /\ (ctr' = s => ctr = s),
           \A s \in Runs : Verified(s)' => run'[s].pc = "done"
    PROVE  PromptInv'
<1>1. ASSUME NEW s \in Runs, Clear(s)'
      PROVE  OwnsNothing(s)'
  <2>1. CASE Clear(s)
    <3>1. net # s /\ ctr # s
      BY <2>1 DEF PromptInv, ClearInv, OwnsNothing
    <3> QED
      BY <1>1, <3>1 DEF OwnsNothing
  <2> QED
    BY <1>1, <2>1
<1> QED
  BY <1>1 DEF PromptInv, ClearInv, VerifiedInv

LEMMA PromptStep == ~LateEffects /\ PromptInv /\ [Next]_vars => PromptInv'
<1> SUFFICES ASSUME ~LateEffects, PromptInv, [Next]_vars
             PROVE  PromptInv'
  OBVIOUS
<1>0. LifecycleTypeOK /\ BackendTypeOK /\ late = {}
  BY DEF PromptInv, TypeOK
<1>1. TypeOK'
  BY TypeStep, LifecycleStep, BackendTypeStep, ElapsedStep DEF PromptInv, TypeOK
<1>2. \A s \in Runs : s # Nobody /\ s \in Creators
  BY CreatorsAssumption, NoRunAssumption
<1>3. CASE UNCHANGED lifecycleVars /\ UNCHANGED backendVars
  BY <1>1, <1>3
  DEF PromptInv, ClearInv, VerifiedInv, Clear, Verified, OwnsNothing, lifecycleVars, backendVars
<1>4. ASSUME NEW r \in Runs, LocalStep(r), UNCHANGED backendVars
      PROVE  PromptInv'
  <2>1. net' = net /\ ctr' = ctr /\ late' = {}
    BY <1>0, <1>4 DEF backendVars
  <2>2. CASE Return(r)
    <3>1. /\ run[r].pc = "return" /\ run'[r].pc = "done"
          /\ \A s \in Runs \ {r} : run'[s] = run[s] /\ outcome'[s] = outcome[s]
          /\ outcome'[r].verified => run[r].pc = "return" /\ run[r].cleanupOk
      BY <1>0, <2>2, ReturnMoves, ReturnVerifies
    <3> QED
      BY <1>1, <2>1, <3>1, ClearKeeps DEF Clear, Verified, PromptInv, VerifiedInv
  <2>3. CASE ~Return(r)
    <3>1. /\ \A s \in Runs \ {r} : run'[s] = run[s]
          /\ outcome' = outcome
          /\ run'[r].pc \in Cleanup \cup {"create_network", "work", "worked"}
          /\ run[r].pc \in Startup \cup Working
      BY <1>0, <1>4, <2>3, CheckArrives, CheckMoves DEF LocalStep
    <3>2. /\ run'[r].pc \notin {"idle", "return"}
          /\ ~outcome[r].verified
      BY <3>1 DEF Cleanup, Startup, Working, PromptInv, VerifiedInv, Verified
    <3> QED
      BY <1>1, <2>1, <3>1, <3>2, ClearKeeps DEF Clear, Verified, PromptInv, VerifiedInv
  <2> QED
    BY <2>2, <2>3
<1>5. ASSUME NEW r \in Runs, CallerStep(r), UNCHANGED backendVars
      PROVE  PromptInv'
  <2>1. net' = net /\ ctr' = ctr /\ late' = {}
    BY <1>0, <1>5 DEF backendVars
  <2>2. /\ \A s \in Runs \ {r} : run'[s] = run[s] /\ outcome'[s] = outcome[s]
        /\ \/ run' = run /\ outcome' = outcome
           \/ run[r].pc = "idle" /\ run'[r].pc = "done"
           \/ run[r].pc = "idle" /\ run'[r].pc = "inspect" /\ outcome' = outcome
    BY <1>0, <1>5, CallerArrives
  <2> QED
    BY <1>1, <2>1, <2>2, ClearKeeps DEF Clear, Verified, PromptInv, VerifiedInv
<1>6. ASSUME NEW r \in Runs, NEW e \in Endings, StartupCall(r, e)
      PROVE  PromptInv'
  <2>1. net' \in {net, Nobody, r} /\ ctr' \in {ctr, Nobody, r} /\ late' = {}
    BY <1>0, <1>2, <1>6, StartupEffect, NothingLate DEF StartupCall
  <2>2. /\ \A s \in Runs \ {r} : run'[s] = run[s]
        /\ outcome' = outcome
        /\ run[r].pc \in Startup /\ run'[r].pc \in Startup \cup Cleanup
    BY <1>0, <1>6, StartupArrives DEF StartupCall, Arrives, Startup
  <2>3. /\ run'[r].pc \notin {"idle", "return"}
        /\ ~outcome[r].verified
    BY <2>2 DEF Startup, Cleanup, PromptInv, VerifiedInv, Verified
  <2> QED
    BY <1>1, <1>2, <2>1, <2>2, <2>3, ClearKeeps DEF Clear, Verified, PromptInv, VerifiedInv
<1>7. ASSUME NEW r \in Runs, NEW e \in Endings, CleanupCalls(r, e)
      PROVE  PromptInv'
  <2>1. net' \in {net, Nobody} /\ ctr' \in {ctr, Nobody} /\ late' = {}
    BY <1>0, <1>2, <1>7, CleanupEffect, NothingLate DEF CleanupCalls
  <2>2. /\ run[r].pc \in Cleanup
        /\ \A s \in Runs \ {r} : run'[s] = run[s] /\ outcome'[s] = outcome[s]
        /\ run'[r].pc \in Cleanup \cup {"return", "done"}
        /\ run'[r].pc = "return" /\ run'[r].cleanupOk => Absent /\ UNCHANGED backendVars
        /\ outcome'[r].verified => outcome'[r] = outcome[r]
    BY <1>0, <1>7, CleanupArrives
  <2>3. ~outcome'[r].verified /\ run'[r].pc # "idle"
    BY <2>2 DEF Cleanup, PromptInv, VerifiedInv, Verified
  <2>4. Clear(r)' => OwnsNothing(r)'
    BY <1>2, <2>2, <2>3 DEF Clear, OwnsNothing, Absent, backendVars
  <2>5. \A s \in Runs : (net' = s => net = s) /\ (ctr' = s => ctr = s)
    BY <1>2, <2>1
  <2>6. \A s \in Runs \ {r} : Clear(s)' => Clear(s)
    BY <2>2 DEF Clear
  <2>7. \A s \in Runs : Verified(s)' => run'[s].pc = "done"
    BY <2>2, <2>3 DEF PromptInv, VerifiedInv, Verified
  <2> QED
    BY <1>1, <2>1, <2>4, <2>5, <2>6, <2>7, ClearKeeps
<1>8. CASE DaemonStep /\ UNCHANGED lifecycleVars
  <2>1. run' = run /\ outcome' = outcome /\ net' = net /\ ctr' = ctr /\ late' = late
    BY <1>0, <1>8 DEF DaemonStep, ContainerExits, lifecycleVars
  <2> QED
    BY <1>1, <2>1 DEF PromptInv, ClearInv, VerifiedInv, Clear, Verified, OwnsNothing
<1> QED
  BY <1>3, <1>4, <1>5, <1>6, <1>7, <1>8, StepCases

\* When the daemon carries out no command after its client gave up,
\* cleanup_verified is true of FAILED and CANCELLED runs too: nothing the run
\* created is left (_execute_owned, lines 230-262, and verify_absent).
THEOREM VerifiedLeavesNothingHolds ==
    ASSUME ~LateEffects
    PROVE  Spec => []VerifiedLeavesNothing
<1>1. PromptInv => VerifiedLeavesNothing
  BY DEF PromptInv, ClearInv, Clear, Verified, VerifiedLeavesNothing
<1>2. PromptInv /\ [Next]_vars => PromptInv'
  BY PromptStep
<1> QED
  BY <1>1, <1>2, PromptInit, PTL DEF Spec


-----------------------------------------------------------------------------
(* A stale handle fails closed.                                            *)

StaleCtr == containers # Nobody /\ ctr # containers
StaleNet == networks # Nobody /\ net # networks

\* An abandoned creation is of an object nobody holds.
HandleLate ==
    \A c \in late :
        /\ c.verb = "network create" => networks # c.obj
        /\ c.verb = "create" => containers # c.obj

StaleInv == IInv /\ ResultInv /\ HandleLate

\* A handle that is held is not replaced by a startup method, and a creation is
\* sent only while none is held.
LEMMA StartupHandles ==
    ASSUME BackendTypeOK, NEW r \in Creators, NEW e \in Endings,
           \/ inspect_capabilities(r, e) \/ pull_image(r, e)
           \/ create_network(r, e) \/ create_container(r, e)
           \/ start_container(r, e) \/ wait_ready(r, e)
    PROVE  /\ networks' \in {networks, r} /\ containers' \in {containers, r}
           /\ networks # Nobody => networks' = networks /\ net' \in {net, Nobody}
           /\ containers # Nobody => containers' = containers /\ ctr' \in {ctr, Nobody}
           /\ \A c \in late' : \/ c \in late \/ c.verb \notin Creates
                               \/ c.verb = "network create" /\ networks' = Nobody
                               \/ c.verb = "create" /\ containers' = Nobody
<1>1. CASE UNCHANGED backendVars
  BY <1>1 DEF backendVars
<1>2. CASE networks = Nobody /\ create_network(r, e)
  <2>1. Cmd("network create", r) \in Command /\ Cmd("network create", r).verb = "network create"
    BY CmdType DEF Verbs
  <2>2. \/ Issue(Cmd("network create", r), e) /\ UNCHANGED <<containers, hostPort>>
        \/ UNCHANGED backendVars
    BY <1>2 DEF create_network
  <2>3. networks' = (IF e = "ok" THEN r ELSE networks)
    BY <1>2 DEF create_network, backendVars
  <2>4. \/ UNCHANGED backendVars
        \/ /\ ctr' \in {ctr, Nobody}
           /\ late' = late \/ (e # "ok" /\ late' = late \cup {Cmd("network create", r)})
    BY <2>1, <2>2, IssueEffect
  <2>5. containers' = containers
    BY <2>2 DEF backendVars
  <2> QED
    BY <1>1, <1>2, <2>1, <2>3, <2>4, <2>5
<1>3. CASE containers = Nobody /\ create_container(r, e)
  <2>1. Cmd("create", r) \in Command /\ Cmd("create", r).verb = "create"
    BY CmdType DEF Verbs
  <2>2. \/ Issue(Cmd("create", r), e) /\ UNCHANGED <<networks, hostPort>>
        \/ UNCHANGED backendVars
    BY <1>3 DEF create_container
  <2>3. containers' \in {containers, r} /\ (e # "ok" => containers' = containers)
    BY <1>3 DEF create_container, backendVars
  <2>4. \/ UNCHANGED backendVars
        \/ /\ net' \in {net, Nobody}
           /\ late' = late \/ (e # "ok" /\ late' = late \cup {Cmd("create", r)})
    BY <2>1, <2>2, IssueEffect
  <2>5. networks' = networks
    BY <2>2 DEF backendVars
  <2> QED
    BY <1>1, <1>3, <2>1, <2>3, <2>4, <2>5
<1>4. CASE containers # Nobody /\ start_container(r, e)
  <2>1. containers \in Creators /\ "start" \in Verbs \ Creates
    BY <1>4 DEF BackendTypeOK, Owner, Verbs, Creates
  <2>2. NoEffect \/ Issue(Cmd("start", containers), e)
    BY <1>4 DEF start_container, OnHandle
  <2>3. UNCHANGED <<networks, containers>>
    BY <1>4 DEF start_container
  <2>4. Cmd("start", containers).verb \notin Creates
    BY <2>1, CmdType
  <2>5. /\ net' \in {net, Nobody} /\ ctr' \in {ctr, Nobody}
        /\ late' = late \/ late' = late \cup {Cmd("start", containers)}
    BY <2>1, <2>2, OnHandleEffect DEF Creates
  <2> QED
    BY <2>3, <2>4, <2>5
<1> QED
  BY <1>1, <1>2, <1>3, <1>4
  DEF inspect_capabilities, pull_image, create_network, create_container,
      start_container, wait_ready

\* A method of the finally block gives a handle up only with its object.
LEMMA CleanupHandles ==
    ASSUME BackendTypeOK, NEW r \in Creators, NEW e \in Endings,
           \/ stop_container(r, e) \/ remove_container(r, e)
           \/ remove_network(r, e)
           \/ \E absent \in BOOLEAN : verify_absent(r, e, absent)
    PROVE  /\ networks' \in {networks, Nobody} /\ containers' \in {containers, Nobody}
           /\ net' \in {net, Nobody} /\ ctr' \in {ctr, Nobody}
           /\ StaleCtr => containers' = containers
           /\ StaleNet => networks' = networks
<1>0. net' \in {net, Nobody} /\ ctr' \in {ctr, Nobody}
  BY CleanupEffect
<1>1. CASE UNCHANGED backendVars
  BY <1>0, <1>1 DEF backendVars
<1>2. CASE containers # Nobody /\ (stop_container(r, e) \/ remove_container(r, e))
  <2>1. /\ networks' = networks
        /\ containers' = containers \/ (containers' = Nobody /\ e = "ok" /\ ctr = containers)
    BY <1>2 DEF stop_container, remove_container, OnHandle, handleVars
  <2> QED
    BY <1>0, <2>1 DEF StaleCtr
<1>3. CASE networks # Nobody /\ remove_network(r, e)
  <2>1. /\ containers' = containers
        /\ networks' = networks \/ (networks' = Nobody /\ e = "ok" /\ net = networks)
    BY <1>3 DEF remove_network, OnHandle
  <2> QED
    BY <1>0, <2>1 DEF StaleNet
<1> QED
  BY <1>1, <1>2, <1>3
  DEF stop_container, remove_container, remove_network, verify_absent

LEMMA StaleInit == Init => StaleInv
<1>1. Init => HandleLate
  BY DEF Init, BackendInit, HandleLate
<1> QED
  BY <1>1, IInvInit, ResultInit DEF Init, StaleInv

\* A run whose startup is still going well has abandoned no creation.
LEMMA StaleInvStep == StaleInv /\ [Next]_vars => StaleInv'
<1> SUFFICES ASSUME StaleInv, [Next]_vars
             PROVE  StaleInv'
  OBVIOUS
<1>0. LifecycleTypeOK /\ BackendTypeOK /\ HandleLate
  BY DEF StaleInv, IInv, TypeOK
<1>1. IInv' /\ ResultInv'
  BY IInvStep, ResultStep, LifecycleStep DEF StaleInv, IInv, TypeOK
<1>2. CASE networks' = networks /\ containers' = containers /\ late' \subseteq late
  BY <1>0, <1>1, <1>2 DEF StaleInv, HandleLate
<1>3. ASSUME NEW r \in Runs, NEW e \in Endings, StartupCall(r, e)
      PROVE  HandleLate'
  <2>1. run[r].pc \in Startup
    BY <1>0, <1>3, StartupMoves DEF StartupCall
  <2>2. ~Marked(run[r])
    BY <2>1 DEF StaleInv, ResultInv, LocalInv, Unspoilt, Marked
  <2>3. \A c \in late : c.verb \in Creates => c.obj # r
    BY <2>2 DEF StaleInv, IInv, LateInv
  <2>4. /\ networks' \in {networks, r} /\ containers' \in {containers, r}
        /\ \A c \in late' : \/ c \in late \/ c.verb \notin Creates
                            \/ c.verb = "network create" /\ networks' = Nobody
                            \/ c.verb = "create" /\ containers' = Nobody
    BY <1>0, <1>3, StartupHandles, CreatorsAssumption DEF StartupCall
  <2>5. BackendTypeOK'
    BY <1>1 DEF IInv, TypeOK
  <2>6. \A c \in late' : c.obj # Nobody
    BY <2>5, NobodyAssumption DEF BackendTypeOK, Command
  <2> QED
    BY <1>0, <2>3, <2>4, <2>6 DEF HandleLate, Creates
<1>4. ASSUME NEW r \in Runs, NEW e \in Endings, CleanupCalls(r, e)
      PROVE  HandleLate'
  <2>1. /\ networks' \in {networks, Nobody} /\ containers' \in {containers, Nobody}
        /\ \A c \in late' : c.verb \in Creates => c \in late
    BY <1>0, <1>4, CleanupHandles, CleanupEffect, CreatorsAssumption DEF CleanupCalls
  <2>2. \A c \in late : c.obj # Nobody
    BY <1>0, NobodyAssumption DEF BackendTypeOK, Command
  <2> QED
    BY <1>0, <2>1, <2>2 DEF HandleLate, Creates
<1>5. CASE UNCHANGED backendVars
  BY <1>2, <1>5 DEF backendVars
<1>6. CASE DaemonStep
  BY <1>2, <1>6 DEF DaemonStep, ContainerExits, LateEffect, handleVars
<1> QED
  BY <1>1, <1>3, <1>4, <1>5, <1>6, StepCases DEF StaleInv

\* Nothing brings the object of a stale handle back, and nobody gives it up.
LEMMA StaleStays ==
    ASSUME StaleInv, [Next]_vars
    PROVE  (StaleCtr => StaleCtr') /\ (StaleNet => StaleNet')
<1>0. BackendTypeOK /\ HandleLate
  BY DEF StaleInv, IInv, TypeOK
<1>1. CASE UNCHANGED backendVars
  BY <1>1 DEF backendVars, StaleCtr, StaleNet
<1>2. ASSUME NEW r \in Runs, NEW e \in Endings, StartupCall(r, e)
      PROVE  (StaleCtr => StaleCtr') /\ (StaleNet => StaleNet')
  <2>1. /\ networks # Nobody => networks' = networks /\ net' \in {net, Nobody}
        /\ containers # Nobody => containers' = containers /\ ctr' \in {ctr, Nobody}
    BY <1>0, <1>2, StartupHandles, CreatorsAssumption DEF StartupCall
  <2> QED
    BY <2>1 DEF StaleCtr, StaleNet
<1>3. ASSUME NEW r \in Runs, NEW e \in Endings, CleanupCalls(r, e)
      PROVE  (StaleCtr => StaleCtr') /\ (StaleNet => StaleNet')
  <2>1. /\ net' \in {net, Nobody} /\ ctr' \in {ctr, Nobody}
        /\ StaleCtr => containers' = containers
        /\ StaleNet => networks' = networks
    BY <1>0, <1>3, CleanupHandles, CreatorsAssumption DEF CleanupCalls
  <2> QED
    BY <2>1 DEF StaleCtr, StaleNet
<1>4. CASE ContainerExits
  BY <1>4 DEF ContainerExits, StaleCtr, StaleNet
<1>5. ASSUME NEW c \in late, LateEffect(c)
      PROVE  (StaleCtr => StaleCtr') /\ (StaleNet => StaleNet')
  <2>1. /\ networks' = networks /\ containers' = containers
        /\ net' \in {net, Nobody} \/ (c.verb = "network create" /\ net' = c.obj)
        /\ ctr' \in {ctr, Nobody} \/ (c.verb = "create" /\ ctr' = c.obj)
    BY <1>5 DEF LateEffect, handleVars, Carries
  <2>2. /\ c.verb = "network create" => networks # c.obj
        /\ c.verb = "create" => containers # c.obj
    BY <1>0 DEF HandleLate
  <2>3. StaleCtr => StaleCtr'
    BY <2>1, <2>2 DEF StaleCtr
  <2>4. StaleNet => StaleNet'
    BY <2>1, <2>2 DEF StaleNet
  <2> QED
    BY <2>3, <2>4
<1> QED
  BY <1>1, <1>2, <1>3, <1>4, <1>5, StepCases DEF DaemonStep

Early == {"idle", "inspect", "pull", "pulled", "create_network", "create_container"}

\* A run that met a stale handle before its first creation stays on this side of it.
Refused(s) ==
    /\ StaleCtr \/ StaleNet
    /\ NoResult(s)
    /\ run[s].pc \in Early \cup Past
    /\ run[s].pc = "create_container" => StaleCtr

LEMMA RefusedStep ==
    ASSUME StaleInv, [Next]_vars, NEW s \in Runs, Refused(s)
    PROVE  Refused(s)'
<1>0. LifecycleTypeOK /\ BackendTypeOK
  BY DEF StaleInv, IInv, TypeOK
<1>1. (StaleCtr \/ StaleNet)' /\ (StaleCtr => StaleCtr')
  BY StaleStays DEF Refused
<1>2. NoResult(s)'
  <2>1. run[s].pc # "worked"
    BY DEF Refused, Early, Past, Cleanup
  <2> QED
    BY <1>0, <2>1, NoResultStep, LifecycleStep DEF Refused
<1>3. CASE run'[s].pc = run[s].pc \/ run'[s].pc \in Past
  BY <1>1, <1>2, <1>3 DEF Refused, Past, Cleanup
<1>4. ASSUME NEW r \in Runs, LocalStep(r)
      PROVE  Refused(s)'
  <2>1. CASE Return(r)
    BY <1>0, <1>3, <2>1, ReturnMoves DEF Past
  <2>2. CASE ~Return(r)
    <3>1. /\ \A q \in Runs \ {r} : run'[q] = run[q]
          /\ \/ run'[r].pc \in Cleanup
             \/ run[r].pc = "pulled" /\ run'[r].pc = "create_network"
             \/ run[r].pc = "ready" /\ run'[r].pc = "work"
             \/ run[r].pc = "work" /\ run'[r].pc = "worked"
      BY <1>0, <1>4, <2>2, CheckArrives DEF LocalStep
    <3>2. CASE s = r /\ run'[s].pc = "create_network"
      BY <1>1, <1>2, <3>2 DEF Refused, Early
    <3> QED
      BY <1>3, <3>1, <3>2, StepKinds DEF Refused, Early, Past, Cleanup
  <2> QED
    BY <2>1, <2>2
<1>5. ASSUME NEW r \in Runs, CallerStep(r)
      PROVE  Refused(s)'
  <2>1. /\ \A q \in Runs \ {r} : run'[q] = run[q]
        /\ run' = run \/ run'[r].pc = "done" \/ run'[r].pc = "inspect"
    BY <1>0, <1>5, CallerArrives
  <2>2. CASE s = r /\ run'[s].pc = "inspect"
    BY <1>1, <1>2, <2>2 DEF Refused, Early
  <2> QED
    BY <1>3, <2>1, <2>2 DEF Past
<1>6. ASSUME NEW r \in Runs, NEW e \in Endings, StartupCall(r, e)
      PROVE  Refused(s)'
  <2>1. CASE s # r
    <3>1. run'[s] = run[s]
      BY <1>0, <1>6, <2>1, StartupArrives DEF StartupCall, Arrives
    <3> QED
      BY <1>3, <3>1
  <2>2. CASE s = r /\ e # "ok"
    <3>1. run'[s].pc \in Cleanup
      BY <1>0, <1>6, <2>2, StartupArrives DEF StartupCall, Arrives
    <3> QED
      BY <1>3, <3>1, StepKinds
  <2>3. CASE s = r /\ e = "ok"
    <3>1. \/ Inspect(s, e) /\ run'[s].pc = "pull"
          \/ Pull(s, e) /\ run'[s].pc = "pulled"
          \/ CreateNetwork(s, e) /\ create_network(s, e) /\ run'[s].pc = "create_container"
          \/ CreateContainer(s, e) /\ create_container(s, e)
          \/ run[s].pc \in {"start_container", "wait_ready"}
      BY <1>0, <1>6, <2>3, StartupArrives DEF StartupCall, Arrives
    <3>2. CASE run'[s].pc \in {"pull", "pulled"}
      BY <1>1, <1>2, <3>2 DEF Refused, Early
    <3>3. CASE CreateNetwork(s, e) /\ create_network(s, e) /\ run'[s].pc = "create_container"
      <4>1. StaleCtr
        BY <2>3, <3>3 DEF create_network, Refused, StaleNet
      <4> QED
        BY <1>1, <1>2, <3>3, <4>1 DEF Refused, Early
    <3>4. ~(CreateContainer(s, e) /\ create_container(s, e))
      BY <2>3 DEF CreateContainer, create_container, Refused, StaleCtr
    <3>5. run[s].pc \notin {"start_container", "wait_ready"}
      BY DEF Refused, Early, Past, Cleanup
    <3> QED
      BY <3>1, <3>2, <3>3, <3>4, <3>5
  <2> QED
    BY <2>1, <2>2, <2>3 DEF Endings
<1>7. ASSUME NEW r \in Runs, NEW e \in Endings, CleanupCalls(r, e)
      PROVE  Refused(s)'
  <2>1. /\ \A q \in Runs \ {r} : run'[q] = run[q]
        /\ run'[r].pc \in Past
    BY <1>0, <1>7, CleanupArrives DEF Past
  <2> QED
    BY <1>3, <2>1
<1> QED
  BY <1>3, <1>4, <1>5, <1>6, <1>7, StepCases DEF lifecycleVars

\* A run that starts while a handle names an object that is gone never succeeds:
\* every creation is refused and no cleanup can be verified, with lost replies
\* and with late effects (create_network, create_container and verify_absent).
THEOREM StaleHandleFailsClosedHolds == Spec => StaleHandleFailsClosed
<1> SUFFICES ASSUME NEW s \in Runs
             PROVE  Spec => [](run[s].pc = "idle" /\ StaleHandle
                                 => [](outcome[s].state # "SUCCEEDED"))
  BY DEF StaleHandleFailsClosed
<1>1. StaleInv /\ run[s].pc = "idle" /\ StaleHandle => Refused(s)
  BY DEF StaleInv, ResultInv, LocalInv, Unspoilt, NoOutcome, StaleHandle, StaleCtr, StaleNet,
         Refused, NoResult, Early
<1>2. StaleInv /\ Refused(s) /\ [Next]_vars => Refused(s)'
  BY RefusedStep
<1>3. ResultIsEarned /\ Refused(s) => outcome[s].state # "SUCCEEDED"
  BY DEF ResultIsEarned, Refused, NoResult
<1> QED
  BY <1>1, <1>2, <1>3, StaleInit, StaleInvStep, DockerLabResultEarned, PTL DEF Spec

=============================================================================
