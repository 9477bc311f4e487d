---------------------------- MODULE LabJobs_proofs ----------------------------
(***************************************************************************)
(* Proofs about the Lab job manager, for any set of jobs, any retention    *)
(* bound, any event bound and any executor.                                *)
(***************************************************************************)
EXTENDS LabJobs, SequenceTheorems, TLAPS

-----------------------------------------------------------------------------
(* The operators on jobs.                                                  *)

LEMMA PhaseFacts ==
    /\ DOMAIN Phases = 1..7
    /\ ProgressStates = {"PULLING", "NETWORK_CREATING", "STARTING", "READY",
                         "BENCHMARKING", "FINALIZING", "STOPPING"}
BY DEF ProgressStates, Phases

LEMMA StateFacts ==
    /\ ProgressStates \subseteq State /\ Terminal \subseteq State
    /\ ProgressStates \cap Terminal = {}
    /\ {"PLANNED", "CANCEL_REQUESTED"} \subseteq State \ Terminal
BY PhaseFacts DEF State, Terminal

LEMMA RecordedType ==
    ASSUME NEW ev \in Seq(State), NEW s \in State
    PROVE  Recorded(ev, s) \in Seq(State)
BY DEF Recorded

\* What an executor's outcome makes of a job: it is over, and it shows a result
\* exactly when it succeeded, which takes a proved cleanup and no request to
\* cancel.
LEMMA FinalFacts ==
    ASSUME NEW b \in Job, NEW o \in Outcome
    PROVE  /\ Final(b, o) \in Job
           /\ Final(b, o).state \in Terminal
           /\ Final(b, o).cancelRequested = b.cancelRequested
           /\ Final(b, o).result \/ Final(b, o).state = "SUCCEEDED" =>
                 /\ Final(b, o).result /\ Final(b, o).state = "SUCCEEDED"
                 /\ o.verified /\ ~b.cancelRequested
                 /\ Final(b, o).error = "none"
<1>1. /\ o.state \in Terminal /\ o.artifact \in BOOLEAN
      /\ o.error \in ErrorKind /\ o.verified \in BOOLEAN
      /\ o.state = "SUCCEEDED" => o.verified /\ o.artifact /\ o.error = "none"
      /\ o.state # "SUCCEEDED" => ~o.artifact
  BY DEF Outcome
<1>2. CASE o.state = "CLEANUP_FAILED" \/ ~o.verified
  <2>1. Final(b, o) = [b EXCEPT !.state = "CLEANUP_FAILED", !.result = FALSE,
                                !.error = "cleanup_failed"]
    BY <1>2 DEF Final
  <2> QED BY <2>1 DEF Job, State, Terminal, ErrorKind
<1>3. CASE /\ o.state # "CLEANUP_FAILED" /\ o.verified
           /\ b.cancelRequested \/ o.state = "CANCELLED"
  <2>1. Final(b, o) = [b EXCEPT !.state = "CANCELLED", !.result = FALSE,
                                !.error = "none"]
    BY <1>3 DEF Final
  <2> QED BY <2>1 DEF Job, State, Terminal, ErrorKind
<1>4. CASE /\ o.state # "CLEANUP_FAILED" /\ o.verified
           /\ ~b.cancelRequested /\ o.state # "CANCELLED"
  <2>1. Final(b, o) = [b EXCEPT !.state = o.state, !.result = o.artifact,
                                !.error = o.error]
    BY <1>4 DEF Final
  <2> QED BY <1>1, <1>4, <2>1, StateFacts DEF Job
<1> QED BY <1>1, <1>2, <1>3, <1>4 DEF Job

\* Eviction makes room for one more and leaves a sequence of jobs.
LEMMA EvictedFacts ==
    ASSUME NEW q \in Seq(Jobs), Len(q) <= MaxJobs
    PROVE  /\ Evicted(q) \in Seq(Jobs)
           /\ Len(Evicted(q)) < MaxJobs
<1>1. MaxJobs \in Nat \ {0}
  BY MaxJobsAssumption
<1>2. CASE Len(q) < MaxJobs
  BY <1>2 DEF Evicted
<1>3. CASE Len(q) = MaxJobs
  <2>1. Evicted(q) = SubSeq(q, 2, Len(q))
    BY <1>1, <1>3 DEF Evicted
  <2>2. \A i \in 2..Len(q) : q[i] \in Jobs
    OBVIOUS
  <2>3. /\ SubSeq(q, 2, Len(q)) \in Seq(Jobs)
        /\ Len(SubSeq(q, 2, Len(q))) = IF 2 <= Len(q) THEN Len(q) - 2 + 1 ELSE 0
    BY <2>2, SubSeqProperties
  <2> QED BY <1>1, <1>3, <2>1, <2>3
<1> QED BY <1>1, <1>2, <1>3

-----------------------------------------------------------------------------
(* What each action makes of the job it is about.                          *)

\* Job j gets the value v, and nothing happens to the others.
Moves(j, v) ==
    /\ job' \in [Jobs -> Job]
    /\ job'[j] = v
    /\ \A k \in Jobs : k # j => job'[k] = job[k]

LEMMA UpdateMoves ==
    ASSUME job \in [Jobs -> Job], NEW j \in Jobs, NEW v \in Job,
           job' = [job EXCEPT ![j] = v]
    PROVE  Moves(j, v)
BY DEF Moves

LEMMA CancelMoves ==
    ASSUME LabJobsTypeOK, NEW j \in Jobs, Cancel(j), job[j].state \notin Terminal
    PROVE  \E v \in Job :
              /\ Moves(j, v)
              /\ v.state = "CANCEL_REQUESTED" /\ v.cancelRequested
              /\ v.result = job[j].result
<1>1. job[j] \in Job /\ job \in [Jobs -> Job]
  BY DEF LabJobsTypeOK
<1> DEFINE ev == Recorded(job[j].events, "CANCEL_REQUESTED")
<1> DEFINE v == [job[j] EXCEPT !.cancelRequested = TRUE,
                               !.state = "CANCEL_REQUESTED", !.events = ev]
<1>2. ev \in Seq(State)
  BY <1>1, RecordedType, StateFacts DEF Job
<1>3. job' = [job EXCEPT ![j] = v]
  BY <1>1 DEF Cancel
<1> HIDE DEF ev
<1>4. /\ v \in Job /\ v.state = "CANCEL_REQUESTED" /\ v.cancelRequested
      /\ v.result = job[j].result
  BY <1>1, <1>2, StateFacts DEF Job
<1> HIDE DEF v
<1> QED BY <1>1, <1>3, <1>4, UpdateMoves

LEMMA RunCancelledMoves ==
    ASSUME LabJobsTypeOK, NEW j \in Jobs, RunCancelled(j)
    PROVE  \E v \in Job :
              /\ Moves(j, v)
              /\ v.state = "CANCELLED" /\ v.cancelRequested
              /\ v.result = job[j].result
<1>1. job[j] \in Job /\ job \in [Jobs -> Job]
  BY DEF LabJobsTypeOK
<1> DEFINE ev == Append(job[j].events, "CANCELLED")
<1> DEFINE v == [job[j] EXCEPT !.state = "CANCELLED", !.events = ev]
<1>2. ev \in Seq(State)
  BY <1>1, StateFacts DEF Job, Terminal
<1>3. job' = [job EXCEPT ![j] = v]
  BY <1>1 DEF RunCancelled
<1> HIDE DEF ev
<1>4. /\ v \in Job /\ v.state = "CANCELLED" /\ v.cancelRequested
      /\ v.result = job[j].result
  BY <1>1, <1>2, StateFacts DEF Job, RunCancelled, Terminal
<1> HIDE DEF v
<1> QED BY <1>1, <1>3, <1>4, UpdateMoves

LEMMA RunStartsMoves ==
    ASSUME LabJobsTypeOK, NEW j \in Jobs, RunStarts(j)
    PROVE  \E v \in Job :
              /\ Moves(j, v)
              /\ v.state = "PULLING" /\ ~v.cancelRequested
              /\ v.result = job[j].result
<1>1. job[j] \in Job /\ job \in [Jobs -> Job]
  BY DEF LabJobsTypeOK
<1> DEFINE ev == Append(job[j].events, "PULLING")
<1> DEFINE v == [job[j] EXCEPT !.state = "PULLING", !.events = ev]
<1>2. ev \in Seq(State)
  BY <1>1, StateFacts, PhaseFacts DEF Job
<1>3. job' = [job EXCEPT ![j] = v]
  BY <1>1 DEF RunStarts
<1> HIDE DEF ev
<1>4. /\ v \in Job /\ v.state = "PULLING" /\ ~v.cancelRequested
      /\ v.result = job[j].result
  BY <1>1, <1>2, StateFacts, PhaseFacts DEF Job, RunStarts
<1> HIDE DEF v
<1> QED BY <1>1, <1>3, <1>4, UpdateMoves

LEMMA ProgressMoves ==
    ASSUME LabJobsTypeOK, NEW j \in Jobs, NEW s \in Reported, Progress(j, s)
    PROVE  \E v \in Job :
              /\ Moves(j, v)
              /\ job[j].state \in ProgressStates
              /\ v.state = s /\ v.state \in ProgressStates
              /\ v.cancelRequested = job[j].cancelRequested
              /\ v.result = job[j].result
<1>1. job[j] \in Job /\ job \in [Jobs -> Job]
  BY DEF LabJobsTypeOK
<1> DEFINE old == job[j].events
<1> DEFINE ev == IF old[Len(old)] = s THEN old ELSE Recorded(old, s)
<1> DEFINE v == [job[j] EXCEPT !.state = s, !.events = ev]
<1>2. s \in ProgressStates /\ s \in State
  BY ReportedAssumption, PhaseFacts, StateFacts
<1>3. ev \in Seq(State)
  BY <1>1, <1>2, RecordedType DEF Job
<1>4. job' = [job EXCEPT ![j] = v]
  BY <1>1 DEF Progress
<1> HIDE DEF ev
<1>5. /\ v \in Job /\ v.state = s /\ v.result = job[j].result
      /\ v.cancelRequested = job[j].cancelRequested
  BY <1>1, <1>2, <1>3 DEF Job
<1> HIDE DEF v
<1> QED BY <1>1, <1>2, <1>4, <1>5, UpdateMoves DEF Progress

LEMMA LiveMoves ==
    ASSUME LabJobsTypeOK, NEW j \in Jobs, NEW n \in 0..(MaxSamples + 1), Live(j, n)
    PROVE  \E v \in Job :
              /\ Moves(j, v)
              /\ v.state = job[j].state
              /\ v.cancelRequested = job[j].cancelRequested
              /\ v.result = job[j].result /\ v.events = job[j].events
              /\ v.cleanupVerified = job[j].cleanupVerified
              /\ v.error = job[j].error
<1>1. job[j] \in Job /\ job \in [Jobs -> Job] /\ n \in Nat
  BY SamplesAssumption DEF LabJobsTypeOK
<1> DEFINE seq == job[j].sequence + 1
<1> DEFINE v == [job[j] EXCEPT !.sequence = seq, !.samples = n]
<1>2. seq \in Nat
  BY <1>1 DEF Job
<1>3. job' = [job EXCEPT ![j] = v]
  BY <1>1 DEF Live
<1> HIDE DEF seq
<1>4. /\ v \in Job /\ v.state = job[j].state /\ v.result = job[j].result
      /\ v.cancelRequested = job[j].cancelRequested /\ v.events = job[j].events
      /\ v.cleanupVerified = job[j].cleanupVerified /\ v.error = job[j].error
  BY <1>1, <1>2 DEF Job
<1> HIDE DEF v
<1> QED BY <1>1, <1>3, <1>4, UpdateMoves

LEMMA ExecutorRaisesMoves ==
    ASSUME LabJobsTypeOK, NEW j \in Jobs, ExecutorRaises(j)
    PROVE  \E v \in Job : Moves(j, v) /\ v.state = "FAILED" /\ ~v.result
<1>1. job[j] \in Job /\ job \in [Jobs -> Job]
  BY DEF LabJobsTypeOK
<1> DEFINE ev == Append(job[j].events, "FAILED")
<1> DEFINE v == [job[j] EXCEPT !.state = "FAILED", !.result = FALSE,
                               !.error = "executor_failed",
                               !.cleanupVerified = FALSE, !.events = ev]
<1>2. ev \in Seq(State)
  BY <1>1, StateFacts DEF Job, Terminal
<1>3. job' = [job EXCEPT ![j] = v]
  BY <1>1 DEF ExecutorRaises
<1> HIDE DEF ev
<1>4. v \in Job /\ v.state = "FAILED" /\ ~v.result
  BY <1>1, <1>2, StateFacts DEF Job, Terminal, ErrorKind
<1> HIDE DEF v
<1> QED BY <1>1, <1>3, <1>4, UpdateMoves

\* The job that an outcome ends: over, and earned when it shows a result.
Earned(b) ==
    b.result \/ b.state = "SUCCEEDED" =>
        /\ b.result /\ b.state = "SUCCEEDED"
        /\ b.cleanupVerified
        /\ ~b.cancelRequested
        /\ b.error = "none"

LEMMA ExecutorReturnsMoves ==
    ASSUME LabJobsTypeOK, NEW j \in Jobs, NEW o \in Outcome, ExecutorReturns(j, o)
    PROVE  \E v \in Job :
              /\ Moves(j, v)
              /\ v.state \in Terminal /\ Earned(v)
              /\ v.cancelRequested = job[j].cancelRequested
<1>1. job[j] \in Job /\ job \in [Jobs -> Job]
  BY DEF LabJobsTypeOK
<1> DEFINE f == Final(job[j], o)
<1> DEFINE ev == Recorded(f.events, f.state)
<1> DEFINE v == [f EXCEPT !.cleanupVerified = o.verified, !.events = ev]
<1>2. /\ f \in Job /\ f.state \in Terminal
      /\ f.cancelRequested = job[j].cancelRequested
      /\ f.result \/ f.state = "SUCCEEDED" =>
            /\ f.result /\ f.state = "SUCCEEDED"
            /\ o.verified /\ ~job[j].cancelRequested /\ f.error = "none"
      /\ o.verified \in BOOLEAN
  BY <1>1, FinalFacts DEF Outcome
<1>3. job' = [job EXCEPT ![j] = v]
  BY DEF ExecutorReturns
<1> HIDE DEF f
<1>4. ev \in Seq(State)
  BY <1>2, RecordedType DEF Job
<1> HIDE DEF ev
<1>5. /\ v \in Job /\ v.state = f.state /\ v.result = f.result
      /\ v.cancelRequested = f.cancelRequested /\ v.error = f.error
      /\ v.cleanupVerified = o.verified
  BY <1>2, <1>4 DEF Job
<1> HIDE DEF v
<1>6. v.state \in Terminal /\ Earned(v) /\ v.cancelRequested = job[j].cancelRequested
  BY <1>2, <1>5 DEF Earned
<1> QED BY <1>1, <1>3, <1>5, <1>6, UpdateMoves

-----------------------------------------------------------------------------
(* Type correctness.                                                       *)

LEMMA TypeInit == Init => LabJobsTypeOK
<1>1. Planned \in Job
  BY StateFacts DEF Planned, Job, ErrorKind
<1> QED BY <1>1, MaxJobsAssumption DEF Init, LabJobsTypeOK

LEMMA TypeStep == LabJobsTypeOK /\ [Next]_vars => LabJobsTypeOK'
<1> SUFFICES ASSUME LabJobsTypeOK, [Next]_vars
             PROVE  LabJobsTypeOK'
  OBVIOUS
<1> USE DEF LabJobsTypeOK
<1>1. ASSUME NEW j \in Jobs, Start(j)
      PROVE  LabJobsTypeOK'
  <2>1. Evicted(retained) \in Seq(Jobs) /\ Len(Evicted(retained)) < MaxJobs
    BY EvictedFacts
  <2> DEFINE kept == Evicted(retained)
  <2> HIDE DEF kept
  <2>2. retained' = Append(kept, j)
    BY <1>1 DEF Start, kept
  <2>3. retained' \in Seq(Jobs) /\ Len(retained') <= MaxJobs
    BY <2>1, <2>2, MaxJobsAssumption DEF kept
  <2>4. queue' \in Seq(Jobs)
    BY <1>1 DEF Start
  <2> QED BY <1>1, <2>3, <2>4 DEF Start
<1>2. ASSUME NEW j \in Jobs, LookUp(j)
      PROVE  LabJobsTypeOK'
  BY <1>2 DEF LookUp
<1>3. ASSUME NEW j \in Jobs, Cancel(j)
      PROVE  LabJobsTypeOK'
  <2>1. job' \in [Jobs -> Job]
    BY <1>3, CancelMoves DEF Cancel, Moves
  <2> QED BY <1>3, <2>1 DEF Cancel
<1>4. ASSUME NEW j \in Jobs, CallbackStep(j)
      PROVE  LabJobsTypeOK'
  <2>1. job' \in [Jobs -> Job]
    BY <1>4, ProgressMoves, LiveMoves DEF CallbackStep, Moves
  <2> QED BY <1>4, <2>1 DEF CallbackStep, Progress, Live
<1>5. ASSUME NEW j \in Jobs, TakeJob(j)
      PROVE  queue' \in Seq(Jobs) /\ UNCHANGED <<retained, asking>>
  BY <1>5 DEF TakeJob
<1>6. ASSUME NEW j \in Jobs, RunCancelled(j) \/ RunStarts(j)
      PROVE  LabJobsTypeOK'
  <2>1. job' \in [Jobs -> Job]
    BY <1>6, RunCancelledMoves, RunStartsMoves DEF Moves
  <2> QED BY <1>5, <1>6, <2>1 DEF RunCancelled, RunStarts
<1>7. ASSUME NEW j \in Jobs, NEW o \in Outcome, ExecutorReturns(j, o)
      PROVE  LabJobsTypeOK'
  <2>1. job' \in [Jobs -> Job]
    BY <1>7, ExecutorReturnsMoves DEF Moves
  <2> QED BY <1>7, <2>1 DEF ExecutorReturns
<1>8. ASSUME NEW j \in Jobs, ExecutorRaises(j)
      PROVE  LabJobsTypeOK'
  <2>1. job' \in [Jobs -> Job]
    BY <1>8, ExecutorRaisesMoves DEF Moves
  <2> QED BY <1>8, <2>1 DEF ExecutorRaises
<1>9. ASSUME NEW j \in Jobs, ExecutorVanishes(j)
      PROVE  LabJobsTypeOK'
  BY <1>9 DEF ExecutorVanishes
<1>10. CASE UNCHANGED vars
  BY <1>10 DEF vars
<1> QED
  BY <1>1, <1>2, <1>3, <1>4, <1>6, <1>7, <1>8, <1>9, <1>10
     DEF Next, ClientStep, WorkerStep

\* The retention bound of start() holds, and every variable keeps its type.
THEOREM LabJobsTypeCorrect == Spec => []LabJobsTypeOK
<1> QED BY TypeInit, TypeStep, PTL DEF Spec

-----------------------------------------------------------------------------
(* The inductive invariant behind single flight and the exposure of results.*)

Kept(j) == \E i \in DOMAIN retained : retained[i] = j

\* The unfinished job is retained and the only one.
ActiveKept == \A j \in Jobs : Active(j) => Kept(j)
ActiveAlone == \A j, k \in Jobs : Active(j) /\ Active(k) => j = k

\* What the worker holds is unfinished; what waits is queued, and alone.
WorkActive ==
    \A j \in Jobs : call[j] \in {"queued", "executing"} => job[j].state \notin Terminal
QueueQueued == \A i \in DOMAIN queue : call[queue[i]] = "queued"
QueueShort == Len(queue) <= 1

\* An identifier that was not drawn yet is unknown to everybody.
NewUnknown ==
    \A j \in Jobs : ~Started(j) =>
        /\ job[j].state = "PLANNED" /\ ~job[j].cancelRequested
        /\ j \notin asking
KeptStarted == \A i \in DOMAIN retained : Started(retained[i])

\* Callbacks are open for the unfinished job only.
OpenActive == \A j \in Jobs : open[j] => Active(j)
OpenQueued == \A j \in Jobs : call[j] \in {"none", "queued"} => ~open[j]

AllEarned == \A j \in Jobs : Earned(job[j])

JobsInv ==
    /\ LabJobsTypeOK
    /\ ActiveKept /\ ActiveAlone
    /\ WorkActive /\ QueueQueued /\ QueueShort
    /\ NewUnknown /\ KeptStarted /\ OpenActive /\ OpenQueued
    /\ AllEarned

LEMMA InvInit == Init => JobsInv
<1> SUFFICES ASSUME Init PROVE JobsInv
  OBVIOUS
<1>1. LabJobsTypeOK
  BY TypeInit
<1>2. \A j \in Jobs : ~Started(j) /\ ~Active(j) /\ job[j] = Planned
  BY DEF Init, Started, Active
<1>3. ActiveKept /\ ActiveAlone /\ WorkActive /\ QueueQueued /\ QueueShort
  BY <1>2 DEF Init, ActiveKept, ActiveAlone, WorkActive, QueueQueued, QueueShort
<1>4. NewUnknown /\ KeptStarted /\ OpenActive /\ OpenQueued /\ AllEarned
  BY <1>2
     DEF Init, NewUnknown, KeptStarted, OpenActive, OpenQueued, AllEarned, Earned,
         Planned
<1> QED BY <1>1, <1>3, <1>4 DEF JobsInv

\* Nothing is left unfinished when start() accepts a job.
LEMMA StartFree ==
    ASSUME JobsInv, NEW j \in Jobs, Start(j)
    PROVE  /\ \A k \in Jobs : ~Active(k)
           /\ queue = <<>>
<1>1. \A k \in Jobs : ~Active(k)
  BY DEF JobsInv, ActiveKept, Kept, Start, Active
<1>2. ASSUME queue # <<>> PROVE FALSE
  <2>1. 1 \in DOMAIN queue /\ queue[1] \in Jobs
    BY <1>2 DEF JobsInv, LabJobsTypeOK
  <2>2. call[queue[1]] = "queued"
    BY <2>1 DEF JobsInv, QueueQueued
  <2>3. Active(queue[1])
    BY <2>1, <2>2 DEF JobsInv, WorkActive, Active, Started
  <2> QED BY <1>1, <2>1, <2>3
<1> QED BY <1>1, <1>2

LEMMA InvStart ==
    ASSUME JobsInv, NEW j \in Jobs, Start(j)
    PROVE  JobsInv'
<1>1. LabJobsTypeOK'
  BY TypeStep DEF JobsInv, Next, ClientStep
<1>2. /\ \A k \in Jobs : ~Active(k)
      /\ queue = <<>>
  BY StartFree
<1>3. /\ call \in [Jobs -> {"none", "queued", "executing", "over", "escaped"}]
      /\ call' = [call EXCEPT ![j] = "queued"]
      /\ job' = job /\ open' = open /\ asking' = asking
      /\ ~Started(j) /\ job[j].state = "PLANNED"
  BY DEF JobsInv, LabJobsTypeOK, Start, NewUnknown
<1>4. \A k \in Jobs : Active(k)' <=> k = j
  BY <1>2, <1>3, StateFacts DEF Active, Started
<1> DEFINE old == Evicted(retained)
<1>5. /\ old \in Seq(Jobs) /\ retained' = Append(old, j)
      /\ \A i \in DOMAIN old : \E n \in DOMAIN retained : old[i] = retained[n]
  <2>1. retained \in Seq(Jobs) /\ Len(retained) <= MaxJobs /\ MaxJobs \in Nat \ {0}
    BY MaxJobsAssumption DEF JobsInv, LabJobsTypeOK
  <2>2. old \in Seq(Jobs) /\ retained' = Append(old, j)
    BY <2>1, EvictedFacts DEF Start
  <2>3. CASE Len(retained) < MaxJobs
    BY <2>2, <2>3 DEF Evicted
  <2>4. CASE Len(retained) = MaxJobs
    <3> DEFINE m == Len(retained)
    <3>1. old = SubSeq(retained, 2, m)
      BY <2>1, <2>4 DEF Evicted
    <3>2. \A i \in 2..m : retained[i] \in Jobs
      BY <2>1
    <3>3. /\ Len(old) = IF 2 <= m THEN m - 2 + 1 ELSE 0
          /\ \A i \in 1..(m - 2 + 1) : old[i] = retained[2 + i - 1]
      BY <3>1, <3>2, SubSeqProperties, m \in Int
    <3>4. \A i \in DOMAIN old : i + 1 \in DOMAIN retained /\ old[i] = retained[i + 1]
      <4> SUFFICES ASSUME NEW i \in DOMAIN old
                   PROVE  i + 1 \in DOMAIN retained /\ old[i] = retained[i + 1]
        OBVIOUS
      <4>1. i \in 1..(m - 1) /\ m \in Nat
        BY <2>1, <2>2, <3>3
      <4> QED BY <2>1, <3>3, <4>1
    <3> QED BY <2>2, <3>4
  <2> QED BY <2>1, <2>2, <2>3, <2>4
<1> HIDE DEF old
<1>6. /\ Kept(j)'
      /\ \A i \in DOMAIN retained' : retained'[i] = j \/ Started(retained'[i])
  <2>1. /\ Len(retained') = Len(old) + 1 /\ retained'[Len(old) + 1] = j
        /\ \A i \in 1..Len(old) : retained'[i] = old[i]
    BY <1>5
  <2>2. \A i \in DOMAIN old : Started(old[i])
    BY <1>5 DEF JobsInv, KeptStarted
  <2>3. /\ DOMAIN retained' = 1..(Len(old) + 1) /\ Len(old) \in Nat
        /\ DOMAIN old = 1..Len(old)
    BY <1>5, <2>1
  <2> QED BY <2>1, <2>2, <2>3 DEF Kept
<1>7. ActiveKept' /\ ActiveAlone' /\ OpenActive'
  <2>1. OpenActive'
    BY <1>2, <1>3 DEF OpenActive, JobsInv
  <2> QED BY <1>4, <1>6, <2>1 DEF ActiveKept, ActiveAlone
<1>8. WorkActive' /\ OpenQueued'
  BY <1>3, StateFacts DEF WorkActive, OpenQueued, JobsInv, Started
<1>9. queue' = <<j>>
  BY <1>2 DEF Start
<1>10. QueueQueued' /\ QueueShort'
  BY <1>3, <1>9 DEF QueueQueued, QueueShort
<1>11. NewUnknown' /\ AllEarned'
  BY <1>3 DEF NewUnknown, AllEarned, JobsInv, Started
<1>12. KeptStarted'
  <2>1. \A k \in Jobs : k = j \/ Started(k) => Started(k)'
    BY <1>3 DEF Started
  <2>2. \A i \in DOMAIN retained' : retained'[i] \in Jobs
    BY <1>1 DEF LabJobsTypeOK
  <2> QED BY <1>6, <2>1, <2>2 DEF KeptStarted
<1> QED BY <1>1, <1>7, <1>8, <1>10, <1>11, <1>12 DEF JobsInv

LEMMA InvLookUp ==
    ASSUME JobsInv, NEW j \in Jobs, LookUp(j)
    PROVE  JobsInv'
<1>1. LabJobsTypeOK'
  BY TypeStep DEF JobsInv, Next, ClientStep
<1>2. Started(j)
  BY DEF LookUp, JobsInv, KeptStarted
<1>3. /\ job' = job /\ call' = call /\ open' = open
      /\ retained' = retained /\ queue' = queue
      /\ asking' = asking \cup {j}
  BY DEF LookUp
<1> QED
  BY <1>1, <1>2, <1>3
     DEF JobsInv, ActiveKept, ActiveAlone, WorkActive, QueueQueued, QueueShort,
         NewUnknown, KeptStarted, OpenActive, OpenQueued, AllEarned, Earned, Active,
         Started, Kept

\* An unfinished job that stays unfinished, in the hands of the same worker.
LEMMA InvOpenMove ==
    ASSUME JobsInv, LabJobsTypeOK', NEW j \in Jobs, NEW v \in Job,
           Moves(j, v), Active(j), v.state \notin Terminal,
           v.result = job[j].result,
           UNCHANGED <<retained, queue, call, open>>,
           asking' \subseteq asking
    PROVE  JobsInv'
<1>1. /\ \A k \in Jobs : k # j => job'[k] = job[k]
      /\ job'[j] = v
  BY DEF Moves
<1>2. \A k \in Jobs : /\ Started(k)' <=> Started(k)
                      /\ Active(k)' <=> Active(k)
  BY <1>1 DEF Started, Active
<1>3. ActiveKept' /\ ActiveAlone' /\ OpenActive' /\ KeptStarted'
  <2>1. \A k \in Jobs : Kept(k)' <=> Kept(k)
    BY DEF Kept
  <2>2. \A i \in DOMAIN retained : retained[i] \in Jobs
    BY DEF JobsInv, LabJobsTypeOK
  <2> QED
    BY <1>2, <2>1, <2>2 DEF JobsInv, ActiveKept, ActiveAlone, OpenActive, KeptStarted
<1>4. WorkActive' /\ OpenQueued' /\ QueueQueued' /\ QueueShort'
  BY <1>1 DEF JobsInv, WorkActive, OpenQueued, QueueQueued, QueueShort
<1>5. NewUnknown'
  BY <1>1, <1>2 DEF JobsInv, NewUnknown, Active
<1>6. AllEarned'
  <2>1. Earned(v)
    BY DEF JobsInv, AllEarned, Earned, Active, Terminal
  <2> QED BY <1>1, <2>1 DEF JobsInv, AllEarned, Earned
<1> QED BY <1>3, <1>4, <1>5, <1>6 DEF JobsInv

LEMMA InvCancel ==
    ASSUME JobsInv, NEW j \in Jobs, Cancel(j)
    PROVE  JobsInv'
<1>1. LabJobsTypeOK /\ LabJobsTypeOK'
  BY TypeStep DEF JobsInv, Next, ClientStep
<1>2. Started(j) /\ asking' \subseteq asking /\ UNCHANGED <<retained, queue, call, open>>
  BY DEF JobsInv, NewUnknown, Cancel
<1>3. CASE job[j].state \in Terminal
  <2>1. job' = job
    BY <1>3 DEF Cancel
  <2> QED
    BY <1>1, <1>2, <2>1
       DEF JobsInv, ActiveKept, ActiveAlone, WorkActive, QueueQueued, QueueShort,
           NewUnknown, KeptStarted, OpenActive, OpenQueued, AllEarned, Earned, Active,
           Started, Kept
<1>4. CASE job[j].state \notin Terminal
  <2>1. PICK v \in Job : /\ Moves(j, v)
                         /\ v.state = "CANCEL_REQUESTED"
                         /\ v.result = job[j].result
    BY <1>1, <1>4, CancelMoves
  <2>2. Active(j) /\ v.state \notin Terminal
    BY <1>2, <1>4, <2>1, StateFacts DEF Active
  <2> QED BY <1>1, <1>2, <2>1, <2>2, InvOpenMove
<1> QED BY <1>3, <1>4

LEMMA InvCallback ==
    ASSUME JobsInv, NEW j \in Jobs, CallbackStep(j)
    PROVE  JobsInv'
<1>1. LabJobsTypeOK /\ LabJobsTypeOK'
  BY TypeStep DEF JobsInv, Next
<1>2. Active(j) /\ UNCHANGED <<retained, queue, call, open, asking>>
  BY DEF JobsInv, OpenActive, CallbackStep, Progress, Live, Listening
<1>3. PICK v \in Job : /\ Moves(j, v)
                       /\ v.state \in ProgressStates \/ v.state = job[j].state
                       /\ v.result = job[j].result
  BY <1>1, ProgressMoves, LiveMoves DEF CallbackStep
<1>4. v.state \notin Terminal
  BY <1>2, <1>3, StateFacts DEF Active
<1> QED BY <1>1, <1>2, <1>3, <1>4, InvOpenMove

\* Whatever the worker takes was the only thing that waited.
LEMMA TakenJob ==
    ASSUME JobsInv, NEW j \in Jobs, TakeJob(j)
    PROVE  /\ call[j] = "queued" /\ Active(j)
           /\ queue' = <<>> /\ retained' = retained /\ asking' = asking
<1>1. queue \in Seq(Jobs) /\ queue # <<>> /\ Len(queue) <= 1 /\ queue[1] = j
  BY DEF JobsInv, LabJobsTypeOK, QueueShort, TakeJob
<1>2. Len(queue) = 1 /\ 1 \in DOMAIN queue
  <2>1. Len(queue) \in Nat \ {0} /\ DOMAIN queue = 1..Len(queue)
    BY <1>1, EmptySeq, LenProperties
  <2> QED BY <1>1, <2>1
<1>3. Tail(queue) \in Seq(Jobs) /\ Len(Tail(queue)) = 0
  BY <1>1, <1>2, HeadTailProperties
<1>4. Tail(queue) = <<>>
  BY <1>3, EmptySeq
<1>5. call[j] = "queued"
  BY <1>1, <1>2 DEF JobsInv, QueueQueued
<1>6. Active(j)
  BY <1>5 DEF JobsInv, WorkActive, Active, Started
<1> QED BY <1>4, <1>5, <1>6 DEF TakeJob

LEMMA InvRunStarts ==
    ASSUME JobsInv, NEW j \in Jobs, RunStarts(j)
    PROVE  JobsInv'
<1>1. LabJobsTypeOK /\ LabJobsTypeOK'
  BY TypeStep DEF JobsInv, Next, WorkerStep
<1>2. /\ call[j] = "queued" /\ Active(j)
      /\ queue' = <<>> /\ retained' = retained /\ asking' = asking
  BY TakenJob DEF RunStarts
<1>3. PICK v \in Job : /\ Moves(j, v)
                       /\ v.state = "PULLING" /\ v.result = job[j].result
  BY <1>1, RunStartsMoves
<1>4. /\ job'[j] = v /\ v.state \notin Terminal
      /\ \A k \in Jobs : k # j => job'[k] = job[k]
      /\ call'[j] = "executing" /\ open'[j]
      /\ \A k \in Jobs : k # j => call'[k] = call[k] /\ open'[k] = open[k]
  BY <1>1, <1>3, StateFacts, PhaseFacts DEF Moves, RunStarts, LabJobsTypeOK
<1>5. \A k \in Jobs : /\ Started(k)' <=> Started(k)
                      /\ Active(k)' <=> Active(k)
                      /\ Kept(k)' <=> Kept(k)
  BY <1>2, <1>4 DEF Started, Active, Kept
<1>6. ActiveKept' /\ ActiveAlone'
  BY <1>5 DEF JobsInv, ActiveKept, ActiveAlone
<1>7. OpenActive'
  BY <1>2, <1>4, <1>5 DEF JobsInv, OpenActive
<1>8. KeptStarted'
  <2>1. \A i \in DOMAIN retained : retained[i] \in Jobs
    BY <1>1 DEF LabJobsTypeOK
  <2> QED BY <1>2, <1>5, <2>1 DEF JobsInv, KeptStarted
<1>9. WorkActive' /\ OpenQueued' /\ QueueQueued' /\ QueueShort'
  BY <1>2, <1>4 DEF JobsInv, WorkActive, OpenQueued, QueueQueued, QueueShort
<1>10. NewUnknown'
  BY <1>2, <1>4, <1>5 DEF JobsInv, NewUnknown, Active
<1>11. AllEarned'
  <2>1. Earned(v)
    BY <1>2, <1>3, <1>4 DEF JobsInv, AllEarned, Earned, Active, Terminal
  <2> QED BY <1>4, <2>1 DEF JobsInv, AllEarned, Earned
<1> QED BY <1>1, <1>6, <1>7, <1>8, <1>9, <1>10, <1>11 DEF JobsInv

\* The unfinished job ends: the worker lets go of it, and its callbacks close.
LEMMA InvEnd ==
    ASSUME JobsInv, LabJobsTypeOK', NEW j \in Jobs, NEW v \in Job,
           Moves(j, v), Active(j), v.state \in Terminal, Earned(v),
           call' = [call EXCEPT ![j] = "over"],
           queue' = queue \/ queue' = <<>>, call[j] = "queued" => queue' = <<>>,
           UNCHANGED <<retained, asking>>, ~open'[j],
           \A k \in Jobs : k # j => open'[k] = open[k]
    PROVE  JobsInv'
<1>1. /\ job'[j] = v /\ call'[j] = "over"
      /\ \A k \in Jobs : k # j => job'[k] = job[k] /\ call'[k] = call[k]
  BY DEF Moves, JobsInv, LabJobsTypeOK
<1>2. \A k \in Jobs : /\ Started(k)' <=> Started(k)
                      /\ Active(k)' <=> Active(k) /\ k # j
                      /\ Kept(k)' <=> Kept(k)
  BY <1>1 DEF Started, Active, Kept
<1>3. ActiveKept' /\ ActiveAlone'
  BY <1>2 DEF JobsInv, ActiveKept, ActiveAlone
<1>4. OpenActive'
  BY <1>2 DEF JobsInv, OpenActive
<1>5. KeptStarted'
  <2>1. \A i \in DOMAIN retained : retained[i] \in Jobs
    BY DEF JobsInv, LabJobsTypeOK
  <2> QED BY <1>2, <2>1 DEF JobsInv, KeptStarted
<1>6. WorkActive' /\ OpenQueued'
  BY <1>1 DEF JobsInv, WorkActive, OpenQueued
<1>7. QueueQueued' /\ QueueShort'
  <2>1. CASE queue' = <<>>
    BY <2>1 DEF QueueQueued, QueueShort
  <2>2. CASE queue' = queue /\ call[j] # "queued"
    <3>1. \A i \in DOMAIN queue : queue[i] \in Jobs /\ queue[i] # j
      BY <2>2 DEF JobsInv, QueueQueued, LabJobsTypeOK
    <3> QED BY <1>1, <2>2, <3>1 DEF JobsInv, QueueQueued, QueueShort
  <2> QED BY <2>1, <2>2
<1>8. NewUnknown'
  BY <1>1, <1>2 DEF JobsInv, NewUnknown, Active
<1>9. AllEarned'
  BY <1>1 DEF JobsInv, AllEarned, Earned
<1> QED BY <1>3, <1>4, <1>5, <1>6, <1>7, <1>8, <1>9 DEF JobsInv

LEMMA InvRunCancelled ==
    ASSUME JobsInv, NEW j \in Jobs, RunCancelled(j)
    PROVE  JobsInv'
<1>1. LabJobsTypeOK /\ LabJobsTypeOK'
  BY TypeStep DEF JobsInv, Next, WorkerStep
<1>2. /\ call[j] = "queued" /\ Active(j)
      /\ queue' = <<>> /\ retained' = retained /\ asking' = asking
  BY TakenJob DEF RunCancelled
<1>3. PICK v \in Job : /\ Moves(j, v)
                       /\ v.state = "CANCELLED" /\ v.result = job[j].result
  BY <1>1, RunCancelledMoves
<1>4. v.state \in Terminal /\ Earned(v)
  BY <1>2, <1>3 DEF JobsInv, AllEarned, Earned, Active, Terminal
<1>5. ~open[j]
  BY <1>1, <1>2 DEF JobsInv, OpenQueued
<1> QED
  BY <1>1, <1>2, <1>3, <1>4, <1>5, InvEnd DEF RunCancelled

LEMMA InvExecutorEnds ==
    ASSUME JobsInv, NEW j \in Jobs,
           ExecutorRaises(j) \/ \E o \in Outcome : ExecutorReturns(j, o)
    PROVE  JobsInv'
<1>1. LabJobsTypeOK /\ LabJobsTypeOK'
  BY TypeStep DEF JobsInv, Next, WorkerStep
<1>2. /\ call[j] = "executing" /\ Active(j)
      /\ call' = [call EXCEPT ![j] = "over"]
      /\ open' = [open EXCEPT ![j] = FALSE]
      /\ UNCHANGED <<retained, queue, asking>>
  BY DEF JobsInv, WorkActive, Active, Started, ExecutorRaises, ExecutorReturns
<1>3. PICK v \in Job : Moves(j, v) /\ v.state \in Terminal /\ Earned(v)
  BY <1>1, ExecutorRaisesMoves, ExecutorReturnsMoves DEF Terminal, Earned
<1>4. ~open'[j] /\ \A k \in Jobs : k # j => open'[k] = open[k]
  BY <1>1, <1>2 DEF LabJobsTypeOK
<1> QED BY <1>1, <1>2, <1>3, <1>4, InvEnd

LEMMA InvExecutorVanishes ==
    ASSUME JobsInv, NEW j \in Jobs, ExecutorVanishes(j)
    PROVE  JobsInv'
<1>1. LabJobsTypeOK /\ LabJobsTypeOK'
  BY TypeStep DEF JobsInv, Next, WorkerStep
<1>2. /\ call[j] = "executing" /\ call'[j] = "escaped"
      /\ \A k \in Jobs : k # j => call'[k] = call[k]
      /\ UNCHANGED <<retained, job, queue, open, asking>>
  BY <1>1 DEF ExecutorVanishes, LabJobsTypeOK
<1>3. \A k \in Jobs : /\ Started(k)' <=> Started(k)
                      /\ Active(k)' <=> Active(k)
                      /\ Kept(k)' <=> Kept(k)
  BY <1>2 DEF Started, Active, Kept
<1>4. ActiveKept' /\ ActiveAlone' /\ OpenActive' /\ NewUnknown' /\ AllEarned'
  BY <1>2, <1>3
     DEF JobsInv, ActiveKept, ActiveAlone, OpenActive, NewUnknown, AllEarned, Earned
<1>5. WorkActive'
  BY <1>2 DEF JobsInv, WorkActive
<1>6. QueueQueued' /\ QueueShort' /\ KeptStarted'
  <2>1. \A i \in DOMAIN queue : queue[i] \in Jobs /\ queue[i] # j
    BY <1>1, <1>2 DEF JobsInv, QueueQueued, LabJobsTypeOK
  <2>2. \A i \in DOMAIN retained : retained[i] \in Jobs
    BY <1>1 DEF LabJobsTypeOK
  <2> QED
    BY <1>2, <1>3, <2>1, <2>2 DEF JobsInv, QueueQueued, QueueShort, KeptStarted
<1>7. OpenQueued'
  BY <1>2 DEF JobsInv, OpenQueued
<1> QED BY <1>1, <1>4, <1>5, <1>6, <1>7 DEF JobsInv

LEMMA InvStep == JobsInv /\ [Next]_vars => JobsInv'
<1> SUFFICES ASSUME JobsInv, [Next]_vars
             PROVE  JobsInv'
  OBVIOUS
<1>1. CASE UNCHANGED vars
  BY <1>1 DEF vars, JobsInv, LabJobsTypeOK, ActiveKept, ActiveAlone, WorkActive,
     QueueQueued, QueueShort, NewUnknown, KeptStarted, OpenActive, OpenQueued,
     AllEarned, Earned, Active, Started, Kept
<1> QED
  BY <1>1, InvStart, InvLookUp, InvCancel, InvCallback, InvRunCancelled,
     InvRunStarts, InvExecutorEnds, InvExecutorVanishes
     DEF Next, ClientStep, WorkerStep

THEOREM JobsInvariant == Spec => []JobsInv
<1> QED BY InvInit, InvStep, PTL DEF Spec

\* For any number of jobs and any retention bound: one unfinished job, always
\* reachable by its client, and nothing else in the worker's hands.
THEOREM LabJobsOneActive == Spec => []OneActive
<1>1. JobsInv => OneActive
  BY DEF JobsInv, OneActive, ActiveKept, ActiveAlone, WorkActive, Kept, Active, Started
<1> QED BY <1>1, JobsInvariant, PTL

\* For any executor and any order of cancel requests and outcomes: what a job
\* shows is earned.
THEOREM LabJobsResultExposure == Spec => []ResultExposure
<1>1. JobsInv => ResultExposure
  BY DEF JobsInv, ResultExposure, AllEarned, Earned
<1> QED BY <1>1, JobsInvariant, PTL

-----------------------------------------------------------------------------
(* What finished jobs keep, and the contract of the job API.               *)

\* Only the unfinished job changes.
LEMMA OnlyActiveChanges ==
    ASSUME JobsInv, [Next]_vars, NEW k \in Jobs, ~Active(k)
    PROVE  job'[k] = job[k]
<1>1. LabJobsTypeOK
  BY DEF JobsInv
<1>2. ASSUME NEW j \in Jobs, NEW v \in Job, Moves(j, v), Active(j)
      PROVE  job'[k] = job[k]
  BY <1>2 DEF Moves
<1>3. ASSUME NEW j \in Jobs, Start(j) \/ LookUp(j) \/ ExecutorVanishes(j)
      PROVE  job'[k] = job[k]
  BY <1>3 DEF Start, LookUp, ExecutorVanishes
<1>4. ASSUME NEW j \in Jobs, Cancel(j)
      PROVE  job'[k] = job[k]
  <2>1. CASE job[j].state \in Terminal
    BY <1>4, <2>1 DEF Cancel
  <2>2. CASE job[j].state \notin Terminal
    <3>1. Active(j)
      BY <1>4, <2>2 DEF Active, Cancel, JobsInv, NewUnknown
    <3> QED BY <1>1, <1>2, <1>4, <2>2, <3>1, CancelMoves
  <2> QED BY <2>1, <2>2
<1>5. ASSUME NEW j \in Jobs, CallbackStep(j)
      PROVE  job'[k] = job[k]
  <2>1. Active(j)
    BY <1>5 DEF JobsInv, OpenActive, CallbackStep, Progress, Live, Listening
  <2> QED BY <1>1, <1>2, <1>5, <2>1, ProgressMoves, LiveMoves DEF CallbackStep
<1>6. ASSUME NEW j \in Jobs, RunCancelled(j) \/ RunStarts(j)
      PROVE  job'[k] = job[k]
  <2>1. Active(j)
    BY <1>6, TakenJob DEF RunCancelled, RunStarts
  <2> QED BY <1>1, <1>2, <1>6, <2>1, RunCancelledMoves, RunStartsMoves
<1>7. ASSUME NEW j \in Jobs,
             ExecutorRaises(j) \/ \E o \in Outcome : ExecutorReturns(j, o)
      PROVE  job'[k] = job[k]
  <2>1. Active(j)
    BY <1>7 DEF JobsInv, WorkActive, Active, Started, ExecutorRaises, ExecutorReturns
  <2> QED BY <1>1, <1>2, <1>7, <2>1, ExecutorRaisesMoves, ExecutorReturnsMoves
<1>8. CASE UNCHANGED vars
  BY <1>8 DEF vars
<1> QED
  BY <1>3, <1>4, <1>5, <1>6, <1>7, <1>8 DEF Next, ClientStep, WorkerStep

\* A leaked callback or a late cancel request never writes to a finished job.
THEOREM LabJobsTerminalFrozen == Spec => TerminalFrozen
<1>1. JobsInv /\ [Next]_vars =>
        [\A j \in Jobs : job[j].state \in Terminal => job'[j] = job[j]]_vars
  BY OnlyActiveChanges DEF Active
<1> QED BY <1>1, JobsInvariant, PTL DEF Spec, TerminalFrozen

\* One job changes its status, and the contract allows it.
LEMMA StatusChange ==
    ASSUME NEW j \in Jobs, NEW b,
           StatusOf(j)' = b,
           \A k \in Jobs : k # j => StatusOf(k)' = StatusOf(k)
    PROVE  [k \in Jobs |-> StatusOf(k)']
             = [[k \in Jobs |-> StatusOf(k)] EXCEPT ![j] = b]
OBVIOUS

\* A change of one job leaves the status of the others.
LEMMA OthersKeep ==
    ASSUME JobsInv, NEW j \in Jobs, NEW v \in Job, Moves(j, v),
           \A k \in Jobs : k # j => call'[k] = call[k]
    PROVE  \A k \in Jobs : k # j => StatusOf(k)' = StatusOf(k)
BY DEF Moves, StatusOf, Started

\* Who shows a result after a change of one unfinished job.
LEMMA ShownChange ==
    ASSUME JobsInv, NEW j \in Jobs, NEW v \in Job, Moves(j, v), Active(j)
    PROVE  Shown' = IF v.state = "SUCCEEDED" /\ v.result THEN Shown \cup {j} ELSE Shown
<1>1. j \notin Shown
  BY DEF Shown, Active, Terminal
<1> QED BY <1>1 DEF Shown, Moves

\* A job that is not finished by a step of its own callbacks, its canceller or
\* the worker stays live or cancelling, or becomes cancelling.
LEMMA ContractMove ==
    ASSUME JobsInv, NEW j \in Jobs, NEW v \in Job, Moves(j, v), Active(j),
           v.state \notin Terminal, Started(j)',
           v.cancelRequested = job[j].cancelRequested \/ v.cancelRequested,
           \A k \in Jobs : k # j => call'[k] = call[k]
    PROVE  [Contract!ContractNext]_(Contract!contractVars)
<1>1. Shown' = Shown
  BY ShownChange, StateFacts DEF Terminal
<1>2. \A k \in Jobs : k # j => StatusOf(k)' = StatusOf(k)
  BY OthersKeep
<1>3. /\ StatusOf(j) \in {"live", "cancelling"}
      /\ StatusOf(j)' \in {"live", "cancelling"}
      /\ StatusOf(j) = "cancelling" => StatusOf(j)' = "cancelling"
  BY DEF StatusOf, Active, Moves, JobsInv, LabJobsTypeOK, Job
<1>4. CASE StatusOf(j)' = StatusOf(j)
  <2>1. [k \in Jobs |-> StatusOf(k)'] = [k \in Jobs |-> StatusOf(k)]
    BY <1>2, <1>4
  <2> QED BY <1>1, <2>1 DEF Contract!contractVars
<1>5. CASE StatusOf(j) = "live" /\ StatusOf(j)' = "cancelling"
  <2>1. [k \in Jobs |-> StatusOf(k)']
          = [[k \in Jobs |-> StatusOf(k)] EXCEPT ![j] = "cancelling"]
    BY <1>2, <1>5, StatusChange
  <2>2. Contract!AskCancel(j)
    BY <1>1, <1>5, <2>1 DEF Contract!AskCancel
  <2> QED BY <2>2 DEF Contract!ContractNext
<1> QED BY <1>3, <1>4, <1>5

\* A job that ends: it shows a result only when nobody had cancelled it.
LEMMA ContractEnd ==
    ASSUME JobsInv, NEW j \in Jobs, NEW v \in Job, Moves(j, v), Active(j),
           v.state \in Terminal, Started(j)',
           v.state = "SUCCEEDED" /\ v.result => ~job[j].cancelRequested,
           \A k \in Jobs : k # j => call'[k] = call[k]
    PROVE  Contract!ContractNext
<1>1. \A k \in Jobs : k # j => StatusOf(k)' = StatusOf(k)
  BY OthersKeep
<1>2. /\ StatusOf(j) \in {"live", "cancelling"} /\ StatusOf(j)' = "closed"
      /\ StatusOf(j) = "live" <=> ~job[j].cancelRequested
  BY DEF StatusOf, Active, Moves
<1>3. [k \in Jobs |-> StatusOf(k)']
        = [[k \in Jobs |-> StatusOf(k)] EXCEPT ![j] = "closed"]
  BY <1>1, <1>2, StatusChange
<1>4. Shown' = Shown \/ (StatusOf(j) = "live" /\ Shown' = Shown \cup {j})
  BY <1>2, ShownChange
<1>5. Contract!Close(j)
  BY <1>2, <1>3, <1>4 DEF Contract!Close, Contract!Open
<1> QED BY <1>5 DEF Contract!ContractNext

\* A step that neither changes a job nor starts one is invisible.
LEMMA ContractStutter ==
    ASSUME job' = job, \A k \in Jobs : Started(k)' <=> Started(k)
    PROVE  UNCHANGED Contract!contractVars
<1>1. \A k \in Jobs : StatusOf(k)' = StatusOf(k)
  BY DEF StatusOf
<1>2. Shown' = Shown
  BY DEF Shown
<1> QED BY <1>1, <1>2 DEF Contract!contractVars

LEMMA ContractStart ==
    ASSUME JobsInv, NEW j \in Jobs, Start(j)
    PROVE  Contract!ContractNext
<1>1. \A k \in Jobs : ~Active(k)
  BY StartFree
<1>2. /\ ~Started(j) /\ Started(j)' /\ job' = job
      /\ job[j].state = "PLANNED" /\ ~job[j].cancelRequested
      /\ \A k \in Jobs : k # j => call'[k] = call[k]
  BY DEF Start, Started, JobsInv, NewUnknown, LabJobsTypeOK
<1>3. /\ StatusOf(j) = "new" /\ StatusOf(j)' = "live"
      /\ \A k \in Jobs : k # j => StatusOf(k)' = StatusOf(k)
  BY <1>2, StateFacts DEF StatusOf, Started
<1>4. \A k \in Jobs : StatusOf(k) \notin {"live", "cancelling"}
  BY <1>1 DEF StatusOf, Active
<1>5. [k \in Jobs |-> StatusOf(k)']
        = [[k \in Jobs |-> StatusOf(k)] EXCEPT ![j] = "live"]
  BY <1>3, StatusChange
<1>6. Shown' = Shown
  BY <1>2 DEF Shown
<1>7. Contract!Submit(j)
  BY <1>3, <1>4, <1>5, <1>6 DEF Contract!Submit, Contract!Open
<1> QED BY <1>7 DEF Contract!ContractNext

LEMMA ContractStep ==
    ASSUME JobsInv, [Next]_vars
    PROVE  [Contract!ContractNext]_(Contract!contractVars)
<1>1. LabJobsTypeOK
  BY DEF JobsInv
<1>2. ASSUME NEW j \in Jobs, LookUp(j)
      PROVE  UNCHANGED Contract!contractVars
  BY <1>2, ContractStutter DEF LookUp, Started
<1>3. ASSUME NEW j \in Jobs, Cancel(j)
      PROVE  [Contract!ContractNext]_(Contract!contractVars)
  <2>1. Started(j) /\ call' = call
    BY <1>3 DEF Cancel, JobsInv, NewUnknown
  <2>2. CASE job[j].state \in Terminal
    BY <1>3, <2>1, <2>2, ContractStutter DEF Cancel, Started
  <2>3. CASE job[j].state \notin Terminal
    <3>1. Active(j) /\ Started(j)'
      BY <2>1, <2>3 DEF Active, Started
    <3>2. PICK v \in Job : /\ Moves(j, v) /\ v.state = "CANCEL_REQUESTED"
                           /\ v.cancelRequested
      BY <1>1, <1>3, <2>3, CancelMoves
    <3> QED BY <2>1, <3>1, <3>2, StateFacts, ContractMove
  <2> QED BY <2>2, <2>3
<1>4. ASSUME NEW j \in Jobs, CallbackStep(j)
      PROVE  [Contract!ContractNext]_(Contract!contractVars)
  <2>1. Active(j) /\ call' = call
    BY <1>4 DEF JobsInv, OpenActive, CallbackStep, Progress, Live, Listening
  <2>2. PICK v \in Job : /\ Moves(j, v)
                         /\ v.state \in ProgressStates \/ v.state = job[j].state
                         /\ v.cancelRequested = job[j].cancelRequested
    BY <1>1, <1>4, ProgressMoves, LiveMoves DEF CallbackStep
  <2>3. v.state \notin Terminal /\ Started(j)'
    BY <2>1, <2>2, StateFacts DEF Active, Started
  <2> QED BY <2>1, <2>2, <2>3, ContractMove
<1>5. ASSUME NEW j \in Jobs, RunStarts(j)
      PROVE  [Contract!ContractNext]_(Contract!contractVars)
  <2>1. Active(j)
    BY <1>5, TakenJob DEF RunStarts
  <2>2. Started(j)' /\ \A k \in Jobs : k # j => call'[k] = call[k]
    BY <1>1, <1>5 DEF RunStarts, Started, LabJobsTypeOK
  <2>3. PICK v \in Job : /\ Moves(j, v) /\ v.state = "PULLING"
                         /\ ~v.cancelRequested
    BY <1>1, <1>5, RunStartsMoves
  <2>4. v.state \notin Terminal
    BY <2>3, StateFacts, PhaseFacts
  <2>5. v.cancelRequested = job[j].cancelRequested
    BY <1>1, <1>5, <2>3 DEF RunStarts, LabJobsTypeOK, Job
  <2> QED BY <2>1, <2>2, <2>3, <2>4, <2>5, ContractMove
<1>6. ASSUME NEW j \in Jobs, RunCancelled(j)
      PROVE  Contract!ContractNext
  <2>1. Active(j)
    BY <1>6, TakenJob DEF RunCancelled
  <2>2. Started(j)' /\ \A k \in Jobs : k # j => call'[k] = call[k]
    BY <1>1, <1>6 DEF RunCancelled, Started, LabJobsTypeOK
  <2>3. PICK v \in Job : Moves(j, v) /\ v.state = "CANCELLED"
    BY <1>1, <1>6, RunCancelledMoves
  <2> QED BY <2>1, <2>2, <2>3, ContractEnd DEF Terminal
<1>7. ASSUME NEW j \in Jobs,
             ExecutorRaises(j) \/ \E o \in Outcome : ExecutorReturns(j, o)
      PROVE  Contract!ContractNext
  <2>1. Active(j) /\ call' = [call EXCEPT ![j] = "over"]
    BY <1>7 DEF JobsInv, WorkActive, Active, Started, ExecutorRaises, ExecutorReturns
  <2>2. Started(j)' /\ \A k \in Jobs : k # j => call'[k] = call[k]
    BY <1>1, <2>1 DEF Started, LabJobsTypeOK
  <2>3. PICK v \in Job :
           /\ Moves(j, v) /\ v.state \in Terminal
           /\ v.state = "SUCCEEDED" /\ v.result => ~job[j].cancelRequested
    BY <1>1, <1>7, ExecutorRaisesMoves, ExecutorReturnsMoves DEF Terminal, Earned
  <2> QED BY <2>1, <2>2, <2>3, ContractEnd
<1>8. ASSUME NEW j \in Jobs, ExecutorVanishes(j)
      PROVE  UNCHANGED Contract!contractVars
  <2>1. \A k \in Jobs : Started(k)' <=> Started(k)
    BY <1>1, <1>8 DEF ExecutorVanishes, Started, LabJobsTypeOK
  <2> QED BY <1>8, <2>1, ContractStutter DEF ExecutorVanishes
<1>9. CASE UNCHANGED vars
  BY <1>9, ContractStutter DEF vars, Started
<1> QED
  BY <1>2, <1>3, <1>4, <1>5, <1>6, <1>7, <1>8, <1>9, ContractStart
     DEF Next, ClientStep, WorkerStep

LEMMA ContractBegins == Init => Contract!ContractInit
<1> SUFFICES ASSUME Init PROVE Contract!ContractInit
  OBVIOUS
<1>1. \A k \in Jobs : StatusOf(k) = "new"
  BY DEF Init, StatusOf, Started
<1>2. Shown = {}
  BY DEF Init, Shown, Planned
<1> QED BY <1>1, <1>2 DEF Contract!ContractInit

\* The manager implements the contract of the job API, for any number of jobs,
\* any retention bound and any executor.
THEOREM LabJobsKeepsContract == Spec => KeepsContract
<1> QED
  BY JobsInvariant, ContractBegins, ContractStep, PTL
     DEF Spec, KeepsContract, Contract!ContractSafety

-----------------------------------------------------------------------------
(* The event log.                                                          *)

LEMMA OrderFacts ==
    \A i \in 1..7 : Order(Phases[i]) = i
<1>1. \A i, k \in 1..7 : Phases[i] = Phases[k] => i = k
  BY DEF Phases
<1>2. DOMAIN Phases = 1..7
  BY PhaseFacts
<1> QED BY <1>1, <1>2 DEF Order

\* The states that are not terminal have ranks of their own, below those that are.
LEMMA RankFacts ==
    /\ Rank("PLANNED") = 0 /\ Rank("PULLING") = 1 /\ Rank("CANCEL_REQUESTED") = 8
    /\ \A s \in ProgressStates : Rank(s) = Order(s) /\ Rank(s) \in 1..7
    /\ \A s \in Terminal : Rank(s) = 9
    /\ \A s \in State : Rank(s) \in 0..9
    /\ \A s, t \in State \ Terminal : Rank(s) = Rank(t) => s = t
<1>1. \A s \in ProgressStates : Order(s) \in 1..7 /\ Phases[Order(s)] = s
  BY OrderFacts, PhaseFacts DEF ProgressStates
<1>2. \A s \in ProgressStates : Rank(s) = Order(s) /\ Rank(s) \in 1..7
  BY <1>1, PhaseFacts DEF Rank
<1>3. Len(Phases) = 7
  BY DEF Phases
<1>4. Rank("PLANNED") = 0 /\ Rank("CANCEL_REQUESTED") = 8
  BY <1>3, PhaseFacts DEF Rank
<1>5. \A s \in Terminal : Rank(s) = 9
  BY <1>3, PhaseFacts DEF Rank, Terminal
<1>6. Rank("PULLING") = 1
  <2>1. Phases[1] = "PULLING"
    BY DEF Phases
  <2> QED BY <1>2, <2>1, OrderFacts, PhaseFacts
<1>7. \A s, t \in ProgressStates : Rank(s) = Rank(t) => s = t
  BY <1>1, <1>2
<1>8. \A s \in State :
        s \in ProgressStates \/ s \in Terminal \/ s = "PLANNED" \/ s = "CANCEL_REQUESTED"
  BY DEF State
<1> HIDE DEF Rank
<1> QED BY <1>2, <1>4, <1>5, <1>6, <1>7, <1>8, StateFacts

Ordered(ev) ==
    \A i \in 1..(Len(ev) - 1) :
        \/ Rank(ev[i]) < Rank(ev[i + 1])
        \/ ev[i] = "CANCEL_REQUESTED" /\ ev[i + 1] = ev[i]

LastOf(ev) == ev[Len(ev)]

\* A full log drops events, so the last one may be behind the state, never ahead.
Logged(b) ==
    /\ Len(b.events) >= 1 /\ Ordered(b.events)
    /\ Rank(LastOf(b.events)) <= Rank(b.state)
    /\ b.state \in Terminal \/ (b.cancelRequested <=> b.state = "CANCEL_REQUESTED")

LogInv ==
    \A j \in Jobs :
        /\ Logged(job[j])
        /\ call[j] \in {"none", "queued"} /\ ~job[j].cancelRequested =>
             job[j].state = "PLANNED"

\* One more event keeps the order when it is ahead of the last.
LEMMA OrderedAppend ==
    ASSUME NEW ev \in Seq(State), Len(ev) >= 1, Ordered(ev), NEW s \in State,
           \/ Rank(LastOf(ev)) < Rank(s)
           \/ LastOf(ev) = "CANCEL_REQUESTED" /\ s = "CANCEL_REQUESTED"
    PROVE  LET new == Append(ev, s)
           IN  Len(new) >= 1 /\ Ordered(new) /\ LastOf(new) = s
<1> DEFINE new == Append(ev, s)
<1>1. /\ Len(new) = Len(ev) + 1 /\ new[Len(ev) + 1] = s
      /\ \A i \in 1..Len(ev) : new[i] = ev[i]
  BY AppendProperties
<1> HIDE DEF new
<1>2. Len(ev) \in Nat
  BY LenProperties
<1>3. LastOf(new) = s
  BY <1>1 DEF LastOf
<1>4. ASSUME NEW i \in 1..(Len(new) - 1)
      PROVE  \/ Rank(new[i]) < Rank(new[i + 1])
             \/ new[i] = "CANCEL_REQUESTED" /\ new[i + 1] = new[i]
  <2>1. CASE i = Len(ev)
    BY <1>1, <1>2, <2>1 DEF LastOf
  <2>2. CASE i # Len(ev)
    <3>1. i \in 1..(Len(ev) - 1) /\ i + 1 \in 1..Len(ev)
      BY <1>1, <1>2, <2>2
    <3> QED BY <1>1, <1>2, <3>1 DEF Ordered
  <2> QED BY <2>1, <2>2
<1>5. Ordered(new)
  BY <1>4 DEF Ordered
<1> QED BY <1>1, <1>2, <1>3, <1>5 DEF new

\* The job moves to a state that is not behind, with or without an event of it.
LEMMA LoggedMove ==
    ASSUME NEW b \in Job, Logged(b), b.state \notin Terminal, NEW c \in Job,
           Rank(b.state) <= Rank(c.state),
           \/ c.events = b.events
           \/ /\ c.events = Append(b.events, c.state)
              /\ \/ Rank(b.state) < Rank(c.state)
                 \/ LastOf(b.events) # c.state
                 \/ c.state = "CANCEL_REQUESTED",
           c.state \in Terminal \/ (c.cancelRequested <=> c.state = "CANCEL_REQUESTED")
    PROVE  Logged(c)
<1>1. /\ b.events \in Seq(State) /\ b.state \in State /\ c.state \in State
      /\ Len(b.events) \in Nat /\ Len(b.events) >= 1 /\ Ordered(b.events)
      /\ Rank(LastOf(b.events)) <= Rank(b.state)
  BY DEF Job, Logged
<1>2. LastOf(b.events) \in State
  BY <1>1, ElementOfSeq DEF LastOf
<1>3. /\ Rank(LastOf(b.events)) \in 0..9 /\ Rank(b.state) \in 0..9
      /\ Rank(c.state) \in 0..9
  BY <1>1, <1>2, RankFacts
<1>4. CASE c.events = b.events
  BY <1>1, <1>3, <1>4 DEF Logged
<1>5. CASE /\ c.events = Append(b.events, c.state)
           /\ \/ Rank(b.state) < Rank(c.state)
              \/ LastOf(b.events) # c.state
              \/ c.state = "CANCEL_REQUESTED"
  <2>1. \/ Rank(LastOf(b.events)) < Rank(c.state)
        \/ LastOf(b.events) = "CANCEL_REQUESTED" /\ c.state = "CANCEL_REQUESTED"
    <3>1. CASE Rank(LastOf(b.events)) = Rank(c.state)
      <4>1. Rank(b.state) = Rank(c.state) /\ Rank(b.state) # 9
        <5>1. Rank(b.state) = Rank(c.state)
          BY <1>1, <1>3, <3>1
        <5>2. b.state \in State \ Terminal
          BY <1>1
        <5>3. b.state = "PLANNED" \/ b.state = "CANCEL_REQUESTED" \/ b.state \in ProgressStates
          BY <5>2 DEF State
        <5>4. Rank(b.state) # 9
          BY <5>3, RankFacts
        <5> QED BY <5>1, <5>4
      <4>2. c.state \notin Terminal /\ LastOf(b.events) \notin Terminal
        BY <3>1, <4>1, RankFacts
      <4>3. LastOf(b.events) = c.state
        BY <1>1, <1>2, <3>1, <4>2, RankFacts
      <4> QED BY <1>5, <4>1, <4>3
    <3>2. CASE Rank(LastOf(b.events)) # Rank(c.state)
      BY <1>1, <1>3, <3>2
    <3> QED BY <3>1, <3>2
  <2>2. Len(c.events) >= 1 /\ Ordered(c.events) /\ LastOf(c.events) = c.state
    BY <1>1, <1>5, <2>1, OrderedAppend
  <2> QED BY <1>3, <2>2 DEF Logged
<1> QED BY <1>4, <1>5

LEMMA LogInit == Init => LogInv
<1> SUFFICES ASSUME Init, NEW j \in Jobs
             PROVE  Logged(job[j]) /\ job[j].state = "PLANNED"
  BY DEF LogInv
<1>1. job[j] = Planned
  BY DEF Init
<1>2. /\ Planned.events = <<"PLANNED">> /\ Planned.state = "PLANNED"
      /\ ~Planned.cancelRequested
  BY DEF Planned
<1>3. Len(<<"PLANNED">>) = 1 /\ LastOf(<<"PLANNED">>) = "PLANNED"
  BY DEF LastOf
<1>4. Ordered(<<"PLANNED">>)
  BY <1>3 DEF Ordered
<1> QED BY <1>1, <1>2, <1>3, <1>4, RankFacts DEF Logged

\* One job moves, and what it logs stays in order.
LEMMA LogMove ==
    ASSUME LogInv, LabJobsTypeOK, NEW j \in Jobs, NEW v \in Job, job' = [job EXCEPT ![j] = v],
           Logged(v),
           \A k \in Jobs : k # j => call'[k] = call[k],
           call'[j] \in {"none", "queued"} /\ ~v.cancelRequested => v.state = "PLANNED"
    PROVE  LogInv'
<1>1. /\ job'[j] = v /\ \A k \in Jobs : k # j => job'[k] = job[k]
  BY DEF LabJobsTypeOK
<1> QED BY <1>1 DEF LogInv, Logged

LEMMA LogCancel ==
    ASSUME LogInv, JobsInv, NEW j \in Jobs, Cancel(j)
    PROVE  LogInv'
<1>1. CASE job[j].state \in Terminal
  BY <1>1 DEF Cancel, LogInv
<1>2. CASE job[j].state \notin Terminal
  <2> DEFINE b == job[j]
  <2> DEFINE ev == Recorded(b.events, "CANCEL_REQUESTED")
  <2> DEFINE v == [b EXCEPT !.cancelRequested = TRUE, !.state = "CANCEL_REQUESTED",
                            !.events = ev]
  <2>1. b \in Job /\ LabJobsTypeOK /\ Logged(b) /\ b.state \notin Terminal
    BY <1>2 DEF JobsInv, LabJobsTypeOK, LogInv
  <2>2. job' = [job EXCEPT ![j] = v] /\ UNCHANGED call
    BY <1>2 DEF Cancel
  <2>3. ev \in Seq(State)
    BY <2>1, RecordedType, StateFacts DEF Job
  <2>4. ev = b.events \/ ev = Append(b.events, "CANCEL_REQUESTED")
    BY DEF Recorded
  <2>5. Rank(b.state) <= Rank("CANCEL_REQUESTED")
    <3>1. b.state = "PLANNED" \/ b.state = "CANCEL_REQUESTED" \/ b.state \in ProgressStates
      BY <2>1 DEF Job, State
    <3> QED BY <3>1, RankFacts
  <2> HIDE DEF ev, b
  <2>6. /\ v \in Job /\ v.state = "CANCEL_REQUESTED" /\ v.cancelRequested /\ v.events = ev
    BY <2>1, <2>3, StateFacts DEF Job
  <2> HIDE DEF v
  <2>7. Logged(v)
    BY <2>1, <2>4, <2>5, <2>6, LoggedMove
  <2> QED BY <2>1, <2>2, <2>6, <2>7, LogMove
<1> QED BY <1>1, <1>2

LEMMA LogProgress ==
    ASSUME LogInv, JobsInv, NEW j \in Jobs, NEW s \in Reported, Progress(j, s)
    PROVE  LogInv'
<1> DEFINE b == job[j]
<1> DEFINE ev == IF b.events[Len(b.events)] = s THEN b.events ELSE Recorded(b.events, s)
<1> DEFINE v == [b EXCEPT !.state = s, !.events = ev]
<1>1. /\ b \in Job /\ LabJobsTypeOK /\ Logged(b) /\ b.state \notin Terminal
      /\ call[j] \notin {"none", "queued"} /\ ~b.cancelRequested
  BY DEF JobsInv, LabJobsTypeOK, LogInv, Progress, Listening, OpenActive, OpenQueued, Active,
         Started
<1>2. job' = [job EXCEPT ![j] = v] /\ UNCHANGED call /\ b.state \in ProgressStates
      /\ Order(s) >= Order(b.state)
  BY DEF Progress
<1>3. s \in ProgressStates /\ s \in State /\ s # "CANCEL_REQUESTED" /\ s \notin Terminal
  BY ReportedAssumption, PhaseFacts, StateFacts
<1>4. Rank(b.state) <= Rank(s)
  BY <1>2, <1>3, RankFacts
<1>5. ev \in Seq(State)
  BY <1>1, <1>3, RecordedType DEF Job
<1>6. ev = b.events \/ (ev = Append(b.events, s) /\ LastOf(b.events) # s)
  BY DEF Recorded, LastOf
<1> HIDE DEF ev, b
<1>7. /\ v \in Job /\ v.state = s /\ v.cancelRequested = b.cancelRequested /\ v.events = ev
  BY <1>1, <1>3, <1>5 DEF Job
<1> HIDE DEF v
<1>8. Logged(v)
  BY <1>1, <1>3, <1>4, <1>6, <1>7, LoggedMove
<1> QED BY <1>1, <1>2, <1>7, <1>8, LogMove

LEMMA LogLive ==
    ASSUME LogInv, JobsInv, NEW j \in Jobs, NEW n \in 0..(MaxSamples + 1), Live(j, n)
    PROVE  LogInv'
<1>1. LabJobsTypeOK
  BY DEF JobsInv
<1>2. PICK v \in Job : /\ Moves(j, v)
                       /\ v.state = job[j].state /\ v.events = job[j].events
                       /\ v.cancelRequested = job[j].cancelRequested
  BY <1>1, LiveMoves
<1> QED BY <1>2 DEF Moves, Live, LogInv, Logged

LEMMA LogRunCancelled ==
    ASSUME LogInv, JobsInv, NEW j \in Jobs, RunCancelled(j)
    PROVE  LogInv'
<1> DEFINE b == job[j]
<1> DEFINE ev == Append(b.events, "CANCELLED")
<1> DEFINE v == [b EXCEPT !.state = "CANCELLED", !.events = ev]
<1>1. b \in Job /\ LabJobsTypeOK /\ Logged(b) /\ b.state \notin Terminal
  BY TakenJob DEF JobsInv, LabJobsTypeOK, LogInv, RunCancelled, Active
<1>2. /\ job' = [job EXCEPT ![j] = v]
      /\ call'[j] = "over" /\ \A k \in Jobs : k # j => call'[k] = call[k]
  BY <1>1 DEF RunCancelled, LabJobsTypeOK
<1>3. ev \in Seq(State) /\ "CANCELLED" \in Terminal /\ "CANCELLED" \in State
  BY <1>1, StateFacts DEF Job, Terminal
<1>4. Rank(b.state) < Rank("CANCELLED")
  <2>1. b.state = "PLANNED" \/ b.state = "CANCEL_REQUESTED" \/ b.state \in ProgressStates
    BY <1>1 DEF Job, State
  <2> QED BY <1>3, <2>1, RankFacts
<1>5. ev = Append(b.events, "CANCELLED")
  OBVIOUS
<1> HIDE DEF ev, b
<1>6. v \in Job /\ v.state = "CANCELLED" /\ v.events = ev
  BY <1>1, <1>3 DEF Job
<1> HIDE DEF v
<1>7. Rank(b.state) <= Rank(v.state)
  <2>1. Rank(b.state) \in 0..9 /\ Rank("CANCELLED") \in 0..9
    BY <1>1, <1>3, RankFacts DEF Job
  <2> QED BY <1>4, <1>6, <2>1
<1>8. Logged(v)
  BY <1>1, <1>3, <1>4, <1>5, <1>6, <1>7, LoggedMove
<1> QED BY <1>1, <1>2, <1>6, <1>8, LogMove

LEMMA LogRunStarts ==
    ASSUME LogInv, JobsInv, NEW j \in Jobs, RunStarts(j)
    PROVE  LogInv'
<1> DEFINE b == job[j]
<1> DEFINE ev == Append(b.events, "PULLING")
<1> DEFINE v == [b EXCEPT !.state = "PULLING", !.events = ev]
<1>1. /\ b \in Job /\ LabJobsTypeOK /\ Logged(b) /\ b.state \notin Terminal
      /\ b.state = "PLANNED" /\ ~b.cancelRequested
  BY TakenJob DEF JobsInv, LabJobsTypeOK, LogInv, RunStarts, Active
<1>2. /\ job' = [job EXCEPT ![j] = v]
      /\ call'[j] = "executing" /\ \A k \in Jobs : k # j => call'[k] = call[k]
  BY <1>1 DEF RunStarts, LabJobsTypeOK
<1>3. ev \in Seq(State) /\ "PULLING" \in State
  BY <1>1, StateFacts, PhaseFacts DEF Job
<1>4. ev = Append(b.events, "PULLING")
  OBVIOUS
<1> HIDE DEF ev, b
<1>5. v \in Job /\ v.state = "PULLING" /\ v.events = ev /\ ~v.cancelRequested
  BY <1>1, <1>3 DEF Job
<1> HIDE DEF v
<1>6. Rank(b.state) < Rank(v.state) /\ Rank(b.state) <= Rank(v.state)
  BY <1>1, <1>5, RankFacts
<1>7. Logged(v)
  BY <1>1, <1>4, <1>5, <1>6, LoggedMove
<1> QED BY <1>1, <1>2, <1>5, <1>7, LogMove

\* Whatever ends the job logs the end last, or finds no room for it.
LEMMA LogEnds ==
    ASSUME LogInv, JobsInv, NEW j \in Jobs, NEW v \in Job, job' = [job EXCEPT ![j] = v],
           call[j] = "executing", call' = [call EXCEPT ![j] = "over"],
           v.state \in Terminal,
           v.events = job[j].events \/ v.events = Append(job[j].events, v.state)
    PROVE  LogInv'
<1> DEFINE b == job[j]
<1>1. b \in Job /\ LabJobsTypeOK /\ Logged(b) /\ b.state \notin Terminal
  BY DEF JobsInv, LabJobsTypeOK, LogInv, WorkActive
<1>2. call'[j] = "over" /\ \A k \in Jobs : k # j => call'[k] = call[k]
  BY <1>1 DEF LabJobsTypeOK
<1>3. Rank(b.state) < Rank(v.state) /\ Rank(b.state) <= Rank(v.state)
  <2>1. b.state = "PLANNED" \/ b.state = "CANCEL_REQUESTED" \/ b.state \in ProgressStates
    BY <1>1 DEF Job, State
  <2> QED BY <2>1, RankFacts
<1>4. Logged(v)
  BY <1>1, <1>3, LoggedMove
<1> QED BY <1>1, <1>2, <1>4, LogMove

LEMMA LogExecutorEnds ==
    ASSUME LogInv, JobsInv, NEW j \in Jobs,
           ExecutorRaises(j) \/ \E o \in Outcome : ExecutorReturns(j, o)
    PROVE  LogInv'
<1> DEFINE b == job[j]
<1>1. b \in Job /\ LabJobsTypeOK
  BY DEF JobsInv, LabJobsTypeOK
<1>2. CASE ExecutorRaises(j)
  <2> DEFINE ev == Append(b.events, "FAILED")
  <2> DEFINE v == [b EXCEPT !.state = "FAILED", !.result = FALSE, !.error = "executor_failed",
                            !.cleanupVerified = FALSE, !.events = ev]
  <2>1. /\ job' = [job EXCEPT ![j] = v]
        /\ call[j] = "executing" /\ call' = [call EXCEPT ![j] = "over"]
    BY <1>2 DEF ExecutorRaises
  <2>2. ev \in Seq(State) /\ ev = Append(b.events, "FAILED") /\ "FAILED" \in Terminal
    BY <1>1, StateFacts DEF Job, Terminal
  <2> HIDE DEF ev
  <2>3. v \in Job /\ v.state = "FAILED" /\ v.events = ev
    BY <1>1, <2>2, StateFacts DEF Job, ErrorKind
  <2> HIDE DEF v
  <2> QED BY <2>1, <2>2, <2>3, LogEnds
<1>3. ASSUME NEW o \in Outcome, ExecutorReturns(j, o)
      PROVE  LogInv'
  <2> DEFINE f == Final(b, o)
  <2> DEFINE ev == Recorded(f.events, f.state)
  <2> DEFINE v == [f EXCEPT !.cleanupVerified = o.verified, !.events = ev]
  <2>1. /\ job' = [job EXCEPT ![j] = v]
        /\ call[j] = "executing" /\ call' = [call EXCEPT ![j] = "over"]
    BY <1>3 DEF ExecutorReturns
  <2>2. f \in Job /\ f.state \in Terminal /\ o.verified \in BOOLEAN
    BY <1>1, FinalFacts DEF Outcome
  <2>3. f.events = b.events
    BY <1>1 DEF Final, Job
  <2> HIDE DEF f
  <2>4. ev \in Seq(State)
    BY <2>2, StateFacts, RecordedType DEF Job
  <2>5. ev = b.events \/ ev = Append(b.events, f.state)
    BY <2>3 DEF Recorded
  <2> HIDE DEF ev
  <2>6. v \in Job /\ v.state = f.state /\ v.events = ev
    BY <2>2, <2>4 DEF Job
  <2> HIDE DEF v
  <2> QED BY <2>1, <2>2, <2>5, <2>6, LogEnds
<1> QED BY <1>2, <1>3

LEMMA LogStep == LogInv /\ JobsInv /\ [Next]_vars => LogInv'
<1> SUFFICES ASSUME LogInv, JobsInv, [Next]_vars PROVE LogInv'
  OBVIOUS
<1>1. ASSUME NEW j \in Jobs, Start(j)
      PROVE  LogInv'
  <2>1. /\ UNCHANGED job /\ call'[j] = "queued" /\ call[j] = "none"
        /\ \A k \in Jobs : k # j => call'[k] = call[k]
    BY <1>1 DEF Start, Started, JobsInv, LabJobsTypeOK
  <2> QED BY <2>1 DEF LogInv
<1>2. ASSUME NEW j \in Jobs, LookUp(j)
      PROVE  LogInv'
  BY <1>2 DEF LookUp, LogInv
<1>3. ASSUME NEW j \in Jobs, ExecutorVanishes(j)
      PROVE  LogInv'
  <2>1. /\ UNCHANGED job /\ call'[j] = "escaped"
        /\ \A k \in Jobs : k # j => call'[k] = call[k]
    BY <1>3 DEF ExecutorVanishes, JobsInv, LabJobsTypeOK
  <2> QED BY <2>1 DEF LogInv
<1>4. CASE UNCHANGED vars
  BY <1>4 DEF vars, LogInv
<1> QED
  BY <1>1, <1>2, <1>3, <1>4, LogCancel, LogProgress, LogLive, LogRunCancelled, LogRunStarts,
     LogExecutorEnds
     DEF Next, ClientStep, CallbackStep, WorkerStep

\* For any executor, event bound and order of requests: the log of a job never
\* goes back, although it may have dropped events when it was full
\* (progress, cancel and _run of lab_jobs.py).
THEOREM LabJobsEventsInOrder == Spec => []EventsInOrder
<1>1. LogInv => EventsInOrder
  BY DEF LogInv, Logged, Ordered, EventsInOrder
<1> QED BY <1>1, LogInit, LogStep, JobsInvariant, InvInit, InvStep, PTL DEF Spec

=============================================================================
