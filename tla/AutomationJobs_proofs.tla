------------------------- MODULE AutomationJobs_proofs -------------------------
(***************************************************************************)
(* Proofs about the automation job manager, for any set of jobs, any       *)
(* retention bound and any runner: it implements the same contract as the  *)
(* Lab's manager.                                                          *)
(***************************************************************************)
EXTENDS AutomationJobs, SequenceTheorems, TLAPS

LEMMA StateFacts ==
    /\ {"SUCCEEDED", "FAILED", "CANCELLED"} = TERMINAL_STATES
    /\ {"QUEUED", "RUNNING", "CANCEL_REQUESTED"} \cap TERMINAL_STATES = {}
BY DEF TERMINAL_STATES

\* Eviction makes room for one more, and keeps jobs that were retained.
LEMMA EvictedFacts ==
    ASSUME NEW q \in Seq(Jobs), Len(q) <= MaxJobs
    PROVE  /\ Evicted(q) \in Seq(Jobs)
           /\ Len(Evicted(q)) < MaxJobs
           /\ \A i \in DOMAIN Evicted(q) : \E n \in DOMAIN q : Evicted(q)[i] = q[n]
<1>1. MaxJobs \in Nat \ {0}
  BY MaxJobsAssumption
<1>2. CASE Len(q) < MaxJobs
  BY <1>2 DEF Evicted
<1>3. CASE Len(q) = MaxJobs
  <2> DEFINE m == Len(q)
             old == SubSeq(q, 2, m)
  <2>1. Evicted(q) = old /\ m \in Nat \ {0}
    BY <1>1, <1>3 DEF Evicted
  <2>2. \A i \in 2..m : q[i] \in Jobs
    OBVIOUS
  <2>3. /\ old \in Seq(Jobs)
        /\ Len(old) = IF 2 <= m THEN m - 2 + 1 ELSE 0
        /\ \A i \in 1..(m - 2 + 1) : old[i] = q[2 + i - 1]
    <3>1. old \in Seq(Jobs)
      BY <2>2, SubSeqProperties, m \in Int
    <3>2. /\ Len(old) = IF 2 <= m THEN m - 2 + 1 ELSE 0
          /\ \A i \in 1..(m - 2 + 1) : old[i] = q[2 + i - 1]
      BY <2>2, SubSeqProperties, m \in Int
    <3> QED BY <3>1, <3>2
  <2>4. m \in 1..MaxJobs /\ DOMAIN q = 1..m
    BY <1>1, <1>3
  <2> HIDE DEF old, m
  <2>5. Len(old) = m - 1
    BY <1>1, <2>3, <2>4
  <2>6. ASSUME NEW i \in DOMAIN old PROVE i + 1 \in DOMAIN q /\ old[i] = q[i + 1]
    <3>1. i \in 1..(m - 1)
      BY <2>3, <2>5
    <3> QED BY <1>1, <2>3, <2>4, <3>1
  <2> QED BY <1>1, <2>1, <2>3, <2>4, <2>5, <2>6
<1> QED BY <1>1, <1>2, <1>3

-----------------------------------------------------------------------------
(* The inductive invariant.                                                *)

Types ==
    /\ job \in [Jobs -> Job]
    /\ retained \in Seq(Jobs) /\ Len(retained) <= MaxJobs
    /\ queue \in Seq(Jobs)
    /\ call \in [Jobs -> {"none", "queued", "running", "over", "escaped"}]
    /\ asking \subseteq Jobs

\* The unfinished job is retained, and what the worker holds is unfinished; what
\* waits is queued, and alone.
ActiveKept == \A j \in Jobs : Active(j) => \E i \in DOMAIN retained : retained[i] = j
WorkActive ==
    \A j \in Jobs : call[j] \in {"queued", "running"} => job[j].state \notin TERMINAL_STATES
QueueQueued == \A i \in DOMAIN queue : call[queue[i]] = "queued"
QueueShort == Len(queue) <= 1

\* An identifier that was not drawn yet is unknown to everybody.
NewUnknown ==
    \A j \in Jobs : ~Started(j) => job[j] = Queued /\ j \notin asking
KeptStarted == \A i \in DOMAIN retained : Started(retained[i])


ManagerInv ==
    /\ Types
    /\ ActiveKept /\ WorkActive /\ QueueQueued /\ QueueShort
    /\ NewUnknown /\ KeptStarted

LEMMA ManagerInit == Init => ManagerInv
<1> SUFFICES ASSUME Init PROVE ManagerInv
  OBVIOUS
<1>1. \A j \in Jobs : ~Started(j) /\ job[j] = Queued
  BY DEF Init, Started
<1>2. Types
  BY MaxJobsAssumption DEF Init, Types, Queued, Job, TERMINAL_STATES
<1>3. ActiveKept /\ WorkActive /\ QueueQueued /\ QueueShort /\ NewUnknown /\ KeptStarted
  BY <1>1 DEF Init, ActiveKept, WorkActive, QueueQueued, QueueShort, NewUnknown, KeptStarted,
              Active
<1> QED BY <1>2, <1>3 DEF ManagerInv

\* Nothing is left unfinished when start() accepts a job.
LEMMA StartFree ==
    ASSUME ManagerInv, NEW j \in Jobs, Start(j)
    PROVE  (\A k \in Jobs : ~Active(k)) /\ queue = <<>>
<1>1. \A k \in Jobs : ~Active(k)
  BY DEF ManagerInv, ActiveKept, Start, Active
<1>2. ASSUME queue # <<>> PROVE FALSE
  <2>1. 1 \in DOMAIN queue /\ queue[1] \in Jobs
    BY <1>2 DEF ManagerInv, Types
  <2>2. Active(queue[1])
    BY <2>1 DEF ManagerInv, QueueQueued, WorkActive, Active, Started
  <2> QED BY <1>1, <2>1, <2>2
<1> QED BY <1>1, <1>2

LEMMA StartKeeps ==
    ASSUME ManagerInv, NEW j \in Jobs, Start(j)
    PROVE  ManagerInv'
<1> DEFINE old == Evicted(retained)
<1>1. /\ (\A k \in Jobs : ~Active(k)) /\ queue = <<>>
      /\ retained \in Seq(Jobs) /\ Len(retained) <= MaxJobs /\ MaxJobs \in Nat
      /\ ~Started(j) /\ job' = job /\ asking' = asking
      /\ call \in [Jobs -> {"none", "queued", "running", "over", "escaped"}]
      /\ call' = [call EXCEPT ![j] = "queued"]
      /\ retained' = Append(old, j) /\ queue' = <<j>>
  <2>1. (\A k \in Jobs : ~Active(k)) /\ queue = <<>>
    BY StartFree
  <2>2. queue' = <<j>>
    BY <2>1 DEF Start
  <2> QED BY <2>1, <2>2, MaxJobsAssumption DEF ManagerInv, Types, Start
<1>2. /\ old \in Seq(Jobs) /\ Len(old) < MaxJobs
      /\ \A i \in DOMAIN old : \E n \in DOMAIN retained : old[i] = retained[n]
  BY <1>1, EvictedFacts
<1> HIDE DEF old
<1>3. /\ Len(retained') = Len(old) + 1 /\ Len(old) \in Nat
      /\ DOMAIN retained' = 1..(Len(old) + 1) /\ DOMAIN old = 1..Len(old)
      /\ retained'[Len(old) + 1] = j /\ \A i \in 1..Len(old) : retained'[i] = old[i]
      /\ retained' \in Seq(Jobs)
  <2>1. /\ Len(retained') = Len(old) + 1 /\ Len(old) \in Nat
        /\ retained'[Len(old) + 1] = j /\ \A i \in 1..Len(old) : retained'[i] = old[i]
    BY <1>1, <1>2
  <2>2. retained' \in Seq(Jobs)
    BY <1>1, <1>2
  <2> QED BY <1>2, <2>1, <2>2
<1>4. Types'
  BY <1>1, <1>2, <1>3 DEF ManagerInv, Types
<1>5. \A k \in Jobs : (Started(k)' <=> Started(k) \/ k = j) /\ (Active(k)' => k = j)
  BY <1>1 DEF Started, Active
<1>6. ActiveKept' /\ QueueQueued' /\ QueueShort'
  BY <1>1, <1>3, <1>5, SMTT(20) DEF ActiveKept, QueueQueued, QueueShort
<1>7. job[j].state \notin TERMINAL_STATES
  BY <1>1 DEF ManagerInv, NewUnknown, Queued, TERMINAL_STATES
<1>8. WorkActive' /\ NewUnknown'
  BY <1>1, <1>5, <1>7 DEF ManagerInv, WorkActive, NewUnknown
<1>9. KeptStarted'
  <2>1. \A i \in DOMAIN old : old[i] \in Jobs /\ Started(old[i])
    BY <1>2 DEF ManagerInv, KeptStarted
  <2>2. \A i \in DOMAIN retained' : retained'[i] = j \/ \E n \in DOMAIN old : retained'[i] = old[n]
    BY <1>3
  <2> QED BY <1>5, <2>1, <2>2 DEF KeptStarted
<1> QED BY <1>4, <1>6, <1>8, <1>9 DEF ManagerInv

-----------------------------------------------------------------------------
(* The steps on a job that was started.                                    *)

\* What a step makes of job j, and the rest of the manager.
Moves(j, v) ==
    /\ v \in Job /\ job' = [job EXCEPT ![j] = v]
    /\ UNCHANGED retained

\* The unfinished job stays as the invariant wants it, or ends.
LEMMA MoveKeeps ==
    ASSUME ManagerInv, NEW j \in Jobs, NEW v, Moves(j, v), Active(j),
           NEW c \in {"queued", "running", "over", "escaped"},
           call' = [call EXCEPT ![j] = c],
           c \in {"queued", "running"} => v.state \notin TERMINAL_STATES,
           c # "queued" /\ call[j] = "queued" => queue' = <<>>,
           queue' = queue \/ queue' = <<>>,
           c = "queued" => call[j] = "queued",
           asking' \subseteq asking
    PROVE  ManagerInv'
<1>1. /\ job'[j] = v /\ call'[j] = c
      /\ \A k \in Jobs \ {j} : job'[k] = job[k] /\ call'[k] = call[k]
      /\ retained' = retained /\ Started(j)
  BY DEF Moves, ManagerInv, Types, Active
<1>2. Types'
  <2>1. queue' \in Seq(Jobs)
    <3>1. queue \in Seq(Jobs)
      BY DEF ManagerInv, Types
    <3> QED BY <3>1, EmptySeq
  <2>2. job' \in [Jobs -> Job]
    BY DEF Moves, ManagerInv, Types
  <2> QED BY <1>1, <2>1, <2>2 DEF ManagerInv, Types
<1>3. \A k \in Jobs : (Started(k)' <=> Started(k)) /\ (Active(k)' => Active(k))
  BY <1>1 DEF Started, Active
<1>4. ActiveKept' /\ WorkActive'
  BY <1>1, <1>3 DEF ManagerInv, ActiveKept, WorkActive
<1>5. QueueQueued' /\ QueueShort'
  <2>1. CASE queue' = <<>>
    BY <2>1 DEF QueueQueued, QueueShort
  <2>2. CASE queue' = queue /\ queue # <<>>
    <3>1. \A i \in DOMAIN queue : queue[i] \in Jobs /\ call[queue[i]] = "queued"
      BY DEF ManagerInv, Types, QueueQueued
    <3>2. c # "queued" => call[j] # "queued"
      BY <2>2
    <3> QED BY <1>1, <2>2, <3>1, <3>2 DEF ManagerInv, QueueQueued, QueueShort
  <2> QED BY <2>1, <2>2
<1>6. NewUnknown' /\ KeptStarted'
  <2>1. \A i \in DOMAIN retained : retained[i] \in Jobs
    BY DEF ManagerInv, Types
  <2> QED BY <1>1, <1>3, <2>1 DEF ManagerInv, NewUnknown, KeptStarted
<1> QED BY <1>2, <1>4, <1>5, <1>6 DEF ManagerInv

\* Whatever the worker takes was the only thing that waited.
LEMMA TakenJob ==
    ASSUME ManagerInv, NEW j \in Jobs, TakeJob(j)
    PROVE  call[j] = "queued" /\ Active(j) /\ queue' = <<>>
<1>1. queue \in Seq(Jobs) /\ queue # <<>> /\ Len(queue) <= 1 /\ queue[1] = j
  BY DEF ManagerInv, Types, QueueShort, TakeJob
<1>2. Len(queue) = 1 /\ 1 \in DOMAIN queue
  <2>1. Len(queue) \in Nat \ {0} /\ DOMAIN queue = 1..Len(queue)
    BY <1>1, EmptySeq, LenProperties
  <2> QED BY <1>1, <2>1
<1>3. Tail(queue) = <<>>
  <2>1. Tail(queue) \in Seq(Jobs) /\ Len(Tail(queue)) = 0
    BY <1>1, <1>2, HeadTailProperties
  <2> QED BY <2>1, EmptySeq
<1>4. call[j] = "queued"
  BY <1>1, <1>2 DEF ManagerInv, QueueQueued
<1>5. Active(j)
  BY <1>4 DEF ManagerInv, WorkActive, Active, Started
<1> QED BY <1>3, <1>4, <1>5 DEF TakeJob

\* A request to cancel an unfinished job marks it.
LEMMA CancelMoves ==
    ASSUME ManagerInv, NEW j \in Jobs, Cancel(j), job[j].state \notin TERMINAL_STATES
    PROVE  \E v : /\ Moves(j, v) /\ Active(j)
                  /\ v.state = "CANCEL_REQUESTED" /\ v.cancelRequested
<1> DEFINE v == [job[j] EXCEPT !.cancelRequested = TRUE, !.state = "CANCEL_REQUESTED"]
<1>1. job[j] \in Job /\ job \in [Jobs -> Job] /\ Active(j)
  BY DEF ManagerInv, Types, NewUnknown, Cancel, Active
<1>2. job' = [job EXCEPT ![j] = v] /\ UNCHANGED retained
  BY <1>1 DEF Cancel
<1>3. v \in Job /\ v.state = "CANCEL_REQUESTED" /\ v.cancelRequested
  BY <1>1 DEF Job
<1> HIDE DEF v
<1> QED BY <1>1, <1>2, <1>3 DEF Moves

LEMMA TakeMoves ==
    ASSUME ManagerInv, NEW j \in Jobs, RunCancelled(j) \/ RunStarts(j)
    PROVE  \E v : /\ Moves(j, v) /\ v.cancelRequested = job[j].cancelRequested
                  /\ v.state = IF RunCancelled(j) THEN "CANCELLED" ELSE "RUNNING"
<1> DEFINE w(s) == [job[j] EXCEPT !.state = s]
<1>1. job[j] \in Job /\ job \in [Jobs -> Job]
  BY DEF ManagerInv, Types
<1>2. \A s \in {"CANCELLED", "RUNNING"} :
          w(s) \in Job /\ w(s).state = s /\ w(s).cancelRequested = job[j].cancelRequested
  BY <1>1 DEF Job, TERMINAL_STATES
<1>3. RunCancelled(j) => job' = [job EXCEPT ![j] = w("CANCELLED")]
  BY <1>1 DEF RunCancelled
<1>4. ~RunCancelled(j) => job' = [job EXCEPT ![j] = w("RUNNING")]
  BY <1>1 DEF RunStarts
<1>5. UNCHANGED retained
  BY DEF RunCancelled, RunStarts, TakeJob
<1> HIDE DEF w
<1> QED BY <1>2, <1>3, <1>4, <1>5 DEF Moves

\* The runner's end closes the job; it succeeds only if nobody had cancelled it.
LEMMA EndMoves ==
    ASSUME ManagerInv, NEW j \in Jobs, RunnerRaises(j) \/ RunnerReturns(j)
    PROVE  \E v : /\ Moves(j, v) /\ Active(j) /\ v.state \in TERMINAL_STATES
                  /\ v.state = "SUCCEEDED" => ~job[j].cancelRequested
<1> DEFINE b == job[j]
           cancelled == [b EXCEPT !.state = "CANCELLED", !.error = "none"]
           failed == [b EXCEPT !.state = "FAILED", !.error = "benchmark_failed"]
           dropped == [b EXCEPT !.state = "CANCELLED", !.result = FALSE]
           succeeded == [b EXCEPT !.state = "SUCCEEDED", !.result = TRUE]
<1>1. b \in Job /\ job \in [Jobs -> Job] /\ Active(j) /\ UNCHANGED retained
  BY DEF ManagerInv, Types, WorkActive, Active, Started, RunnerRaises, RunnerReturns, RunnerEnds
<1>2. /\ cancelled \in Job /\ cancelled.state = "CANCELLED"
      /\ failed \in Job /\ failed.state = "FAILED"
      /\ dropped \in Job /\ dropped.state = "CANCELLED"
      /\ succeeded \in Job /\ succeeded.state = "SUCCEEDED"
  BY <1>1 DEF Job, TERMINAL_STATES
<1>3. CASE RunnerRaises(j)
  <2>1. job' = [job EXCEPT ![j] = IF b.cancelRequested THEN cancelled ELSE failed]
    BY <1>3 DEF RunnerRaises
  <2> HIDE DEF cancelled, failed, b
  <2> QED BY <1>1, <1>2, <2>1 DEF Moves, TERMINAL_STATES
<1>4. CASE RunnerReturns(j)
  <2>1. job' = [job EXCEPT ![j] = IF b.cancelRequested THEN dropped ELSE succeeded]
    BY <1>4 DEF RunnerReturns
  <2> HIDE DEF dropped, succeeded
  <2> QED BY <1>1, <1>2, <2>1 DEF Moves, TERMINAL_STATES
<1> QED BY <1>3, <1>4

LEMMA ManagerStep == ManagerInv /\ [Next]_vars => ManagerInv'
<1> SUFFICES ASSUME ManagerInv, [Next]_vars
             PROVE  ManagerInv'
  OBVIOUS
<1>0. /\ job \in [Jobs -> Job] /\ Types
      /\ call \in [Jobs -> {"none", "queued", "running", "over", "escaped"}]
  BY DEF ManagerInv, Types
<1>1. ASSUME NEW j \in Jobs, LookUp(j)
      PROVE  ManagerInv'
  <2>1. Started(j)
    BY <1>1 DEF LookUp, ManagerInv, KeptStarted
  <2> QED
    BY <1>1, <2>1 DEF LookUp, ManagerInv, Types, ActiveKept, WorkActive, QueueQueued, QueueShort,
       NewUnknown, KeptStarted, Active, Started
<1>2. ASSUME NEW j \in Jobs, Cancel(j)
      PROVE  ManagerInv'
  <2>1. CASE job[j].state \in TERMINAL_STATES
    BY <1>2, <2>1 DEF Cancel, ManagerInv, Types, ActiveKept, WorkActive, QueueQueued, QueueShort,
       NewUnknown, KeptStarted, Active, Started
  <2>2. CASE job[j].state \notin TERMINAL_STATES
    <3>1. PICK v : /\ Moves(j, v) /\ Active(j)
                   /\ v.state = "CANCEL_REQUESTED" /\ v.cancelRequested
      BY <1>2, <2>2, CancelMoves
    <3>2. call' = call /\ queue' = queue /\ asking' \subseteq asking
      BY <1>2 DEF Cancel
    <3>3. CASE call[j] \in {"queued", "running", "over", "escaped"}
      <4>1. call' = [call EXCEPT ![j] = call[j]]
        BY <1>0, <3>2
      <4> QED BY <3>1, <3>2, <3>3, <4>1, StateFacts, MoveKeeps
    <3> QED BY <1>0, <3>1, <3>3 DEF Active, Started
  <2> QED BY <2>1, <2>2
<1>3. ASSUME NEW j \in Jobs, RunCancelled(j) \/ RunStarts(j)
      PROVE  ManagerInv'
  <2>1. TakeJob(j)
    BY <1>3 DEF RunCancelled, RunStarts
  <2>2. call[j] = "queued" /\ Active(j) /\ queue' = <<>> /\ asking' = asking
    BY <2>1, TakenJob DEF TakeJob
  <2>3. PICK v : Moves(j, v) /\ v.state = IF RunCancelled(j) THEN "CANCELLED" ELSE "RUNNING"
    BY <1>3, TakeMoves
  <2>4. CASE RunCancelled(j)
    <3>1. call' = [call EXCEPT ![j] = "over"]
      BY <2>4 DEF RunCancelled
    <3> QED BY <2>2, <2>3, <3>1, MoveKeeps
  <2>5. CASE ~RunCancelled(j)
    <3>1. call' = [call EXCEPT ![j] = "running"]
      BY <1>3, <2>5 DEF RunStarts
    <3> QED BY <2>2, <2>3, <2>5, <3>1, StateFacts, MoveKeeps
  <2> QED BY <2>4, <2>5
<1>4. ASSUME NEW j \in Jobs, RunnerRaises(j) \/ RunnerReturns(j)
      PROVE  ManagerInv'
  <2>1. PICK v : Moves(j, v) /\ Active(j) /\ v.state \in TERMINAL_STATES
    BY <1>4, EndMoves
  <2>2. /\ call[j] = "running" /\ call' = [call EXCEPT ![j] = "over"]
        /\ queue' = queue /\ asking' = asking
    BY <1>4 DEF RunnerRaises, RunnerReturns, RunnerEnds
  <2> QED BY <2>1, <2>2, MoveKeeps
<1>5. ASSUME NEW j \in Jobs, RunnerVanishes(j)
      PROVE  ManagerInv'
  <2>1. /\ call[j] = "running" /\ call' = [call EXCEPT ![j] = "escaped"]
        /\ UNCHANGED <<retained, job, queue, asking>>
    BY <1>5 DEF RunnerVanishes
  <2>2. Active(j)
    BY <2>1 DEF ManagerInv, WorkActive, Active, Started
  <2>3. Moves(j, job[j])
    BY <1>0, <2>1 DEF Moves
  <2> QED BY <2>1, <2>2, <2>3, MoveKeeps
<1>6. CASE UNCHANGED vars
  BY <1>6 DEF vars, ManagerInv, Types, ActiveKept, WorkActive, QueueQueued, QueueShort,
     NewUnknown, KeptStarted, Active, Started
<1> QED BY <1>1, <1>2, <1>3, <1>4, <1>5, <1>6, StartKeeps DEF Next, WorkerStep

\* The retention bound of start() holds, every variable keeps its type, and the
\* unfinished job is never evicted (automation.py, JobManager).
THEOREM AutomationTypeCorrect == Spec => []ManagerInv
<1> QED BY ManagerInit, ManagerStep, PTL DEF Spec

-----------------------------------------------------------------------------
(* The contract of the job API.                                            *)

\* A step that neither changes a job nor starts one is invisible.
LEMMA ContractStutter ==
    ASSUME job' = job, \A k \in Jobs : Started(k)' <=> Started(k)
    PROVE  UNCHANGED Contract!contractVars
<1>1. \A k \in Jobs : StatusOf(k)' = StatusOf(k)
  BY DEF StatusOf
<1>2. Shown' = Shown
  BY DEF Shown
<1> QED BY <1>1, <1>2 DEF Contract!contractVars

\* A step on the unfinished job changes its status only: it goes on, is cancelled,
\* or ends, with a result only if nobody had cancelled it.
LEMMA ContractMove ==
    ASSUME ManagerInv, NEW j \in Jobs, NEW v, Moves(j, v), Active(j),
           NEW c \in {"queued", "running", "over", "escaped"},
           call' = [call EXCEPT ![j] = c],
           v.state \notin TERMINAL_STATES =>
               v.cancelRequested = job[j].cancelRequested \/ v.cancelRequested,
           v.state = "SUCCEEDED" => ~job[j].cancelRequested
    PROVE  [Contract!ContractNext]_(Contract!contractVars)
<1> DEFINE status == [k \in Jobs |-> StatusOf(k)]
<1>0. /\ job \in [Jobs -> Job] /\ v \in Job /\ job[j] \in Job
      /\ call \in [Jobs -> {"none", "queued", "running", "over", "escaped"}]
  BY DEF ManagerInv, Types, Moves
<1>1. /\ job'[j] = v /\ call'[j] = c
      /\ \A k \in Jobs \ {j} : job'[k] = job[k] /\ call'[k] = call[k]
  BY <1>0 DEF Moves
<1>2. \A k \in Jobs \ {j} : StatusOf(k)' = StatusOf(k)
  BY <1>1 DEF StatusOf, Started
<1>3. \A b : StatusOf(j)' = b => status' = [status EXCEPT ![j] = b]
  BY <1>2
<1>4. StatusOf(j) = IF job[j].cancelRequested THEN "cancelling" ELSE "live"
  BY DEF StatusOf, Active
<1>5. StatusOf(j)' = IF v.state \in TERMINAL_STATES THEN "closed"
                     ELSE IF v.cancelRequested THEN "cancelling" ELSE "live"
  BY <1>1 DEF StatusOf, Started
<1>6. Shown' = IF v.state = "SUCCEEDED" /\ v.result THEN Shown \cup {j} ELSE Shown
  <2>1. j \notin Shown
    BY StateFacts DEF Shown, Active
  <2> QED BY <1>1, <2>1 DEF Shown
<1>7. CASE v.state \in TERMINAL_STATES
  <2>1. status' = [status EXCEPT ![j] = "closed"]
    BY <1>3, <1>5, <1>7
  <2>2. Shown' = Shown \/ (StatusOf(j) = "live" /\ Shown' = Shown \cup {j})
    BY <1>4, <1>6
  <2>3. Contract!Close(j)
    BY <1>4, <2>1, <2>2 DEF Contract!Close, Contract!Open
  <2> QED BY <2>3 DEF Contract!ContractNext
<1>8. CASE v.state \notin TERMINAL_STATES
  <2>1. Shown' = Shown
    BY <1>6, <1>8, StateFacts
  <2>2. CASE v.cancelRequested = job[j].cancelRequested
    <3>1. status' = status
      BY <1>2, <1>4, <1>5, <1>8, <2>2
    <3> QED BY <2>1, <3>1 DEF Contract!contractVars
  <2>3. CASE v.cancelRequested /\ ~job[j].cancelRequested
    <3>1. status' = [status EXCEPT ![j] = "cancelling"]
      BY <1>3, <1>5, <1>8, <2>3
    <3>2. Contract!AskCancel(j)
      BY <1>4, <2>1, <2>3, <3>1 DEF Contract!AskCancel
    <3> QED BY <3>2 DEF Contract!ContractNext
  <2> QED BY <1>0, <1>8, <2>2, <2>3 DEF Job
<1> QED BY <1>7, <1>8

LEMMA ContractStart ==
    ASSUME ManagerInv, NEW j \in Jobs, Start(j)
    PROVE  Contract!ContractNext
<1> DEFINE status == [k \in Jobs |-> StatusOf(k)]
<1>1. \A k \in Jobs : StatusOf(k) \notin {"live", "cancelling"}
  BY StartFree DEF StatusOf, Active
<1>2. /\ ~Started(j) /\ Started(j)' /\ job' = job /\ job[j] = Queued
      /\ \A k \in Jobs \ {j} : call'[k] = call[k]
  BY DEF Start, Started, ManagerInv, Types, NewUnknown
<1>3. /\ StatusOf(j) = "new" /\ StatusOf(j)' = "live"
      /\ \A k \in Jobs \ {j} : StatusOf(k)' = StatusOf(k)
  BY <1>2 DEF StatusOf, Started, Queued, TERMINAL_STATES
<1>4. status' = [status EXCEPT ![j] = "live"]
  BY <1>3
<1>5. Shown' = Shown
  BY <1>2 DEF Shown
<1>6. Contract!Submit(j)
  BY <1>1, <1>3, <1>4, <1>5 DEF Contract!Submit, Contract!Open
<1> QED BY <1>6 DEF Contract!ContractNext

LEMMA ContractStep ==
    ASSUME ManagerInv, [Next]_vars
    PROVE  [Contract!ContractNext]_(Contract!contractVars)
<1>0. call \in [Jobs -> {"none", "queued", "running", "over", "escaped"}]
  BY DEF ManagerInv, Types
<1>1. ASSUME NEW j \in Jobs, LookUp(j)
      PROVE  UNCHANGED Contract!contractVars
  BY <1>1, ContractStutter DEF LookUp, Started
<1>2. ASSUME NEW j \in Jobs, Cancel(j)
      PROVE  [Contract!ContractNext]_(Contract!contractVars)
  <2>1. CASE job[j].state \in TERMINAL_STATES
    BY <1>2, <2>1, ContractStutter DEF Cancel, Started
  <2>2. CASE job[j].state \notin TERMINAL_STATES
    <3>1. PICK v : /\ Moves(j, v) /\ Active(j)
                   /\ v.state = "CANCEL_REQUESTED" /\ v.cancelRequested
      BY <1>2, <2>2, CancelMoves
    <3>2. /\ call[j] \in {"queued", "running", "over", "escaped"}
          /\ call' = [call EXCEPT ![j] = call[j]]
      BY <1>0, <1>2, <3>1 DEF Cancel, Active, Started
    <3> QED BY <3>1, <3>2, ContractMove
  <2> QED BY <2>1, <2>2
<1>3. ASSUME NEW j \in Jobs, RunCancelled(j) \/ RunStarts(j)
      PROVE  [Contract!ContractNext]_(Contract!contractVars)
  <2>1. Active(j)
    BY <1>3, TakenJob DEF RunCancelled, RunStarts
  <2>2. PICK v : /\ Moves(j, v) /\ v.cancelRequested = job[j].cancelRequested
                 /\ v.state \in {"CANCELLED", "RUNNING"}
    BY <1>3, TakeMoves
  <2>3. \E c \in {"over", "running"} : call' = [call EXCEPT ![j] = c]
    BY <1>3 DEF RunCancelled, RunStarts
  <2> QED BY <2>1, <2>2, <2>3, ContractMove
<1>4. ASSUME NEW j \in Jobs, RunnerRaises(j) \/ RunnerReturns(j)
      PROVE  [Contract!ContractNext]_(Contract!contractVars)
  <2>1. PICK v : /\ Moves(j, v) /\ Active(j) /\ v.state \in TERMINAL_STATES
                 /\ v.state = "SUCCEEDED" => ~job[j].cancelRequested
    BY <1>4, EndMoves
  <2>2. call' = [call EXCEPT ![j] = "over"]
    BY <1>4 DEF RunnerRaises, RunnerReturns, RunnerEnds
  <2> QED BY <2>1, <2>2, ContractMove
<1>5. ASSUME NEW j \in Jobs, RunnerVanishes(j)
      PROVE  UNCHANGED Contract!contractVars
  <2>1. \A k \in Jobs : Started(k)' <=> Started(k)
    BY <1>0, <1>5 DEF RunnerVanishes, Started
  <2> QED BY <1>5, <2>1, ContractStutter DEF RunnerVanishes
<1>6. CASE UNCHANGED vars
  BY <1>6, ContractStutter DEF vars, Started
<1> QED BY <1>1, <1>2, <1>3, <1>4, <1>5, <1>6, ContractStart DEF Next, WorkerStep

LEMMA ContractBegins == Init => Contract!ContractInit
<1> SUFFICES ASSUME Init PROVE Contract!ContractInit
  OBVIOUS
<1>1. \A k \in Jobs : StatusOf(k) = "new"
  BY DEF Init, StatusOf, Started
<1>2. Shown = {}
  BY DEF Init, Shown, Queued
<1> QED BY <1>1, <1>2 DEF Contract!ContractInit

\* The automation manager implements the contract it shares with the Lab's, for any
\* number of jobs, any retention bound and any runner: one job at a time, a job ends
\* once, and a cancelled one never shows the result its runner came back with
\* (automation.py, JobManager).
THEOREM AutomationKeepsContract == Spec => KeepsContract
<1> QED
  BY AutomationTypeCorrect, ContractBegins, ContractStep, PTL
     DEF Spec, KeepsContract, Contract!ContractSafety

=============================================================================
