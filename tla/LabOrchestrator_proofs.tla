------------------------- MODULE LabOrchestrator_proofs -------------------------
(***************************************************************************)
(* Proofs about the Lab orchestrator, for any plan, any budget, and any    *)
(* behaviour of the trial runner and the metrics endpoint.                 *)
(***************************************************************************)
EXTENDS LabOrchestrator, FiniteSetTheorems, SequenceTheorems, TLAPS

-----------------------------------------------------------------------------
(* The ring buffer.                                                        *)

\* The samples of a buffer are in the order of their offsets.
Ordered(q) == \A i, k \in DOMAIN q : i < k => q[i].at <= q[k].at

\* A full buffer keeps a bounded tail.
LEMMA RetainedFacts ==
    ASSUME NEW T, NEW q \in Seq(T)
    PROVE  /\ Retained(q) \in Seq(T) /\ Len(Retained(q)) <= MaxSamples
           /\ \E o \in Nat : \A i \in DOMAIN Retained(q) :
                 i + o \in DOMAIN q /\ Retained(q)[i] = q[i + o]
<1>1. MaxSamples \in Nat \ {0} /\ Len(q) \in Nat
  BY PlanAssumption
<1> DEFINE m == IF Len(q) > MaxSamples THEN Len(q) - MaxSamples + 1 ELSE 1
<1>2. m \in Nat \ {0} /\ Len(q) - m + 1 <= MaxSamples
  BY <1>1
<1>3. Retained(q) = SubSeq(q, m, Len(q))
  BY DEF Retained
<1> HIDE DEF m
<1>4. \A i \in m..Len(q) : q[i] \in T
  BY <1>1, <1>2
<1>5. /\ Retained(q) \in Seq(T)
      /\ Len(Retained(q)) = IF m <= Len(q) THEN Len(q) - m + 1 ELSE 0
      /\ \A i \in 1..(Len(q) - m + 1) : Retained(q)[i] = q[m + i - 1]
  BY <1>1, <1>2, <1>3, <1>4, SubSeqProperties
<1>6. Len(Retained(q)) <= MaxSamples
  BY <1>1, <1>2, <1>5
<1>7. ASSUME NEW i \in DOMAIN Retained(q)
      PROVE  i + (m - 1) \in DOMAIN q /\ Retained(q)[i] = q[i + (m - 1)]
  <2>1. i \in 1..Len(Retained(q)) /\ DOMAIN q = 1..Len(q)
    BY <1>5
  <2>2. i \in 1..(Len(q) - m + 1)
    BY <1>1, <1>2, <1>5, <2>1
  <2>3. m + i - 1 = i + (m - 1)
    BY <1>2, <2>2
  <2>4. Retained(q)[i] = q[m + i - 1]
    BY <1>5, <2>2
  <2>5. i + (m - 1) \in 1..Len(q)
    BY <1>1, <1>2, <2>2
  <2> QED BY <2>1, <2>3, <2>4, <2>5
<1>8. m - 1 \in Nat
  BY <1>2
<1> QED BY <1>5, <1>6, <1>7, <1>8

LEMMA RetainedOrdered ==
    ASSUME NEW q \in Seq(Sample), Ordered(q), NEW a \in Nat,
           \A i \in DOMAIN q : q[i].at <= a
    PROVE  /\ Ordered(Retained(q))
           /\ \A i \in DOMAIN Retained(q) : Retained(q)[i].at <= a
<1>1. PICK o \in Nat : \A i \in DOMAIN Retained(q) :
                          i + o \in DOMAIN q /\ Retained(q)[i] = q[i + o]
  BY RetainedFacts
<1>2. Retained(q) \in Seq(Sample)
  BY RetainedFacts
<1>3. \A i \in DOMAIN Retained(q) : i \in Nat
  BY <1>2
<1>4. ASSUME NEW i \in DOMAIN Retained(q), NEW k \in DOMAIN Retained(q), i < k
      PROVE  Retained(q)[i].at <= Retained(q)[k].at
  <2>1. i + o < k + o
    BY <1>3, <1>4
  <2> QED BY <1>1, <2>1 DEF Ordered
<1> QED BY <1>1, <1>4 DEF Ordered

\* A snapshot is a sequence of samples of one offset.
LEMMA SnapshotFacts ==
    ASSUME NEW t \in Threads, NEW S \in SUBSET Series, scrape[t].offset \in Nat
    PROVE  /\ Snapshot(t, S) \in Seq(Sample)
           /\ \A i \in DOMAIN Snapshot(t, S) :
                 Snapshot(t, S)[i].at = scrape[t].offset
<1>1. IsFiniteSet(S)
  BY SeriesAssumption, FS_Subset
<1> DEFINE n == Cardinality(S)
<1>2. n \in Nat /\ ExistsBijection(1..n, S)
  BY <1>1, FS_CardinalityType
<1>3. \E f \in [1..n -> S] : IsInjective(f)
  BY <1>2 DEF ExistsBijection, Bijection, Injection
<1>4. SetToSeq(S) \in [1..n -> S]
  BY <1>3 DEF SetToSeq
<1>5. Snapshot(t, S) = [i \in 1..n |-> [at |-> scrape[t].offset,
                                        series |-> SetToSeq(S)[i]]]
  BY DEF Snapshot
<1> HIDE DEF n
<1>6. \A i \in 1..n : [at |-> scrape[t].offset, series |-> SetToSeq(S)[i]] \in Sample
  BY <1>4 DEF Sample
<1> QED BY <1>2, <1>5, <1>6

\* What an append makes of a buffer in order whose samples are not newer.
LEMMA AppendingFacts ==
    ASSUME NEW t \in Threads, NEW S \in SUBSET Series, scrape[t].offset \in Nat,
           buffer \in [samples: Seq(Sample), failures: Seq(Failure)],
           Len(buffer.samples) <= MaxSamples, Len(buffer.failures) <= MaxSamples,
           Ordered(buffer.samples),
           \A i \in DOMAIN buffer.samples : buffer.samples[i].at <= scrape[t].offset
    PROVE  LET b == Appending(t, S) IN
           /\ b \in [samples: Seq(Sample), failures: Seq(Failure)]
           /\ Len(b.samples) <= MaxSamples /\ Len(b.failures) <= MaxSamples
           /\ Ordered(b.samples)
           /\ \A i \in DOMAIN b.samples : b.samples[i].at <= scrape[t].offset
<1> DEFINE old == buffer.samples
<1> DEFINE new == Snapshot(t, S)
<1> DEFINE candidate == Retained(old \o new)
<1> DEFINE failed == Retained(Append(buffer.failures,
                        [at |-> scrape[t].offset, status |-> "invalid"]))
<1>1. /\ new \in Seq(Sample) /\ old \in Seq(Sample)
      /\ \A i \in DOMAIN new : new[i].at = scrape[t].offset
  BY SnapshotFacts
<1>2. Appending(t, S) = IF Cardinality(SeriesIn(candidate)) > MaxSeries
                        THEN [buffer EXCEPT !.failures = failed]
                        ELSE [buffer EXCEPT !.samples = candidate]
  BY DEF Appending, Failing
<1>3. failed \in Seq(Failure) /\ Len(failed) <= MaxSamples
  <2>1. Append(buffer.failures, [at |-> scrape[t].offset, status |-> "invalid"])
          \in Seq(Failure)
    BY DEF Failure
  <2> QED BY <2>1, RetainedFacts
<1>4. /\ old \o new \in Seq(Sample)
      /\ Len(old \o new) = Len(old) + Len(new)
      /\ \A i \in 1..(Len(old) + Len(new)) :
            (old \o new)[i] = IF i <= Len(old) THEN old[i] ELSE new[i - Len(old)]
  <2> HIDE DEF old, new
  <2> QED BY <1>1, ConcatProperties
<1>5. Ordered(old \o new) /\ \A i \in DOMAIN (old \o new) : (old \o new)[i].at <= scrape[t].offset
  <2>1. /\ Ordered(old) /\ \A i \in DOMAIN old : old[i].at <= scrape[t].offset
    OBVIOUS
  <2> HIDE DEF old, new
  <2>2. /\ DOMAIN old = 1..Len(old) /\ DOMAIN new = 1..Len(new)
        /\ Len(old) \in Nat /\ Len(new) \in Nat
        /\ DOMAIN (old \o new) = 1..(Len(old) + Len(new))
    BY <1>1, <1>4
  <2>3. ASSUME NEW i \in DOMAIN (old \o new)
        PROVE  IF i <= Len(old) THEN i \in DOMAIN old /\ (old \o new)[i] = old[i]
               ELSE (old \o new)[i].at = scrape[t].offset
    BY <1>1, <1>4, <2>2
  <2>4. \A i \in DOMAIN (old \o new) : (old \o new)[i].at <= scrape[t].offset
    BY <2>1, <2>3
  <2>5. ASSUME NEW i \in DOMAIN (old \o new), NEW k \in DOMAIN (old \o new), i < k
        PROVE  (old \o new)[i].at <= (old \o new)[k].at
    <3>1. CASE k <= Len(old)
      BY <2>1, <2>2, <2>3, <2>5, <3>1 DEF Ordered
    <3>2. CASE ~(k <= Len(old))
      BY <2>3, <2>4, <3>2
    <3> QED BY <3>1, <3>2
  <2> QED BY <2>4, <2>5 DEF Ordered
<1>6. /\ candidate \in Seq(Sample) /\ Len(candidate) <= MaxSamples
      /\ Ordered(candidate)
      /\ \A i \in DOMAIN candidate : candidate[i].at <= scrape[t].offset
  <2> HIDE DEF old, new
  <2> QED BY <1>4, <1>5, RetainedFacts, RetainedOrdered
<1> HIDE DEF candidate, failed
<1> QED BY <1>2, <1>3, <1>6

\* A failure leaves the samples alone.
LEMMA FailingFacts ==
    ASSUME NEW t \in Threads, NEW status \in {"invalid", "unavailable"},
           scrape[t].offset \in Nat,
           buffer \in [samples: Seq(Sample), failures: Seq(Failure)]
    PROVE  /\ Failing(t, status) \in [samples: Seq(Sample), failures: Seq(Failure)]
           /\ Failing(t, status).samples = buffer.samples
           /\ Len(Failing(t, status).failures) <= MaxSamples
<1> DEFINE failed == Retained(Append(buffer.failures,
                        [at |-> scrape[t].offset, status |-> status]))
<1>1. Append(buffer.failures, [at |-> scrape[t].offset, status |-> status]) \in Seq(Failure)
  BY DEF Failure
<1>2. failed \in Seq(Failure) /\ Len(failed) <= MaxSamples
  BY <1>1, RetainedFacts
<1>3. Failing(t, status) = [buffer EXCEPT !.failures = failed]
  BY DEF Failing
<1> HIDE DEF failed
<1> QED BY <1>2, <1>3
-----------------------------------------------------------------------------
(* The invariant.                                                          *)

\* Statements of work() after the collector was joined.
Late == {"scrape", "failures", "summary", "returned"}

\* Before the join no more than an overrun trial has passed, after it no more
\* than the join's timeout or the rest of the budget.
TimeInv ==
    /\ work.pc \in {"start", "next", "trial"} => now <= Budget + Overrun
    /\ work.pc = "join" => now <= work.until
    /\ work.pc \in Late => now <= Budget \/ now <= work.until

\* The last scrape runs after the collector and before the buffer is read.
ThreadsInv ==
    /\ work.pc \in Late => Stopped
    /\ work.pc \notin Late => scrape["work"].pc = "none"
    /\ work.pc \in {"failures", "summary", "returned"} => scrape["work"].pc = "over"
    /\ \A t \in Threads : scrape[t].pc = "fetch" =>
          scrape[t].until <= Budget /\ scrape[t].offset <= now

\* No sample is newer than a snapshot that is being fetched.
BufferInv ==
    /\ Ordered(buffer.samples)
    /\ \A i \in DOMAIN buffer.samples :
          /\ buffer.samples[i].at <= now
          /\ \A t \in Threads : scrape[t].pc = "fetch" =>
                buffer.samples[i].at <= scrape[t].offset

\* What work() has read is what the buffer still holds.
DraftInv ==
    /\ work.pc \in {"failures", "summary", "returned"} => draft.samples = buffer.samples
    /\ work.pc \in {"summary", "returned"} => draft.failures = buffer.failures
    /\ work.pc = "returned" => draft.summary = Summary(buffer.samples)

TrialsInv ==
    /\ work.pc = "trial" => Len(trials) < TrialCount
    /\ work.pc \in Late \/ (work.pc = "join" /\ work.raising = "no")
          => Len(trials) = TrialCount
    /\ \A i, k \in DOMAIN trials :
          /\ trials[i] \in Fit
          /\ ContextOf[trials[i]] = ContextOf[trials[k]]
          /\ trials[i] = trials[k] => i = k

AnswerInv ==
    /\ answer = "published" => work.pc = "returned"
    /\ answer = "refused" =>
          work.pc = "returned" /\ \E i \in DOMAIN trials : trials[i] \notin WellNamed

OrchInv ==
    OrchestratorTypeOK /\ TimeInv /\ ThreadsInv /\ BufferInv /\ DraftInv
    /\ TrialsInv /\ AnswerInv

LEMMA BoundFacts ==
    /\ JoinTimeout \in Nat /\ Horizon \in Nat
    /\ Horizon = Budget + Overrun + JoinTimeout
    /\ Budget \in Nat /\ Overrun \in Nat /\ Interval \in Nat \ {0}
    /\ TrialCount \in Nat \ {0} /\ MaxSamples \in Nat \ {0}
BY PlanAssumption, TimeAssumption DEF JoinTimeout, Horizon

LEMMA InvInit == Init => OrchInv
<1> SUFFICES ASSUME Init PROVE OrchInv
  OBVIOUS
<1>1. OrchestratorTypeOK
  <2>1. scrape \in [Threads -> [pc: {"none", "loop", "fetch", "wait", "over"},
                                offset: 0..Horizon, until: 0..(Horizon + Interval)]]
    BY BoundFacts DEF Init, Quiet, Threads
  <2>2. /\ DOMAIN draft = {"samples", "failures", "summary"}
        /\ draft.samples \in Seq(Sample) /\ draft.failures \in Seq(Failure)
    BY DEF Init, NoDraft
  <2>3. /\ trials \in Seq(Digests) /\ Len(trials) = 0
        /\ buffer \in [samples: Seq(Sample), failures: Seq(Failure)]
        /\ Len(buffer.samples) = 0 /\ Len(buffer.failures) = 0
    BY EmptySeq DEF Init
  <2>4. work \in [pc: {"start"}, until: 0..Horizon, raising: {"no"}]
    BY BoundFacts DEF Init
  <2>5. now \in 0..Horizon
    BY BoundFacts DEF Init
  <2>6. stop \in BOOLEAN /\ answer = "none"
    BY DEF Init
  <2> QED BY <2>1, <2>2, <2>3, <2>4, <2>5, <2>6, BoundFacts DEF OrchestratorTypeOK
<1>2. TimeInv /\ DraftInv /\ TrialsInv /\ AnswerInv
  BY BoundFacts DEF Init, TimeInv, DraftInv, TrialsInv, AnswerInv, Late
<1>3. ThreadsInv
  BY DEF Init, ThreadsInv, Late, Quiet, Threads
<1>4. BufferInv
  BY DEF Init, BufferInv, Ordered
<1> QED BY <1>1, <1>2, <1>3, <1>4 DEF OrchInv

-----------------------------------------------------------------------------
(* The steps that leave the buffer alone.                                  *)

\* The buffer is untouched.
Still ==
    \/ WorkStarts \/ WorkRejected \/ NextTrial \/ TrialsDone \/ Joined
    \/ TakeSamples \/ TakeFailures \/ TakeSummary \/ Seals \/ Withholds
    \/ CollectorEnds \/ CollectorWakes \/ Tick
    \/ (\E t \in Threads : ScrapeStarts(t)) \/ RunnerStep

\* A fetch is over, in one of three ways.
Fetched(t) ==
    \/ \E S \in SUBSET Series : FetchReturns(t, S)
    \/ \E e \in {"invalid", "unavailable"} : FetchFails(t, e)
    \/ FetchTimesOut(t)

LEMMA NextSplits == Next => Still \/ \E t \in Threads : Fetched(t)
BY DEF Next, OwnStep, Still, Fetched

\* The finally clause starts a join of bounded length.
LEMMA FinallyFacts ==
    ASSUME NEW r \in {"no", "trial"}, now \in 0..Horizon, now <= Budget + Overrun,
           Finally(r)
    PROVE  /\ stop' \in BOOLEAN
           /\ work' \in [pc: {"join"}, until: 0..Horizon, raising: {"no", "trial"}]
           /\ now <= work'.until /\ work'.raising = r
BY BoundFacts DEF Finally

LEMMA StillType == OrchInv /\ Still => OrchestratorTypeOK'
<1> SUFFICES ASSUME OrchInv, Still PROVE OrchestratorTypeOK'
  OBVIOUS
<1> USE BoundFacts
<1> USE DEF OrchInv, OrchestratorTypeOK
<1>1. CASE WorkStarts
  BY <1>1, ZenonT(40) DEF WorkStarts, Threads
<1>2. CASE WorkRejected
  BY <1>2 DEF WorkRejected
<1>3. CASE NextTrial
  <2>1. CASE Remaining = 0
    BY <1>3, <2>1, FinallyFacts DEF NextTrial, TimeInv
  <2>2. CASE Remaining # 0
    BY <1>3, <2>2 DEF NextTrial
  <2> QED BY <2>1, <2>2
<1>4. CASE TrialsDone
  BY <1>4, FinallyFacts DEF TrialsDone, TimeInv
<1>5. CASE Joined
  <2>1. /\ work' \in [pc: {"start", "next", "trial", "join", "scrape", "failures",
                            "summary", "returned", "raised"},
                       until: 0..Horizon, raising: {"no", "trial", "collector"}]
        /\ \/ UNCHANGED scrape
           \/ scrape' = [scrape EXCEPT !["work"].pc = IF Remaining > 0 THEN "loop" ELSE "over"]
    BY <1>5 DEF Joined, LastScrape
  <2>2. scrape' \in [Threads -> [pc: {"none", "loop", "fetch", "wait", "over"},
                                 offset: 0..Horizon, until: 0..(Horizon + Interval)]]
    <3>1. scrape \in [Threads -> [pc: {"none", "loop", "fetch", "wait", "over"},
                                  offset: 0..Horizon, until: 0..(Horizon + Interval)]]
      OBVIOUS
    <3> HIDE DEF OrchInv, OrchestratorTypeOK
    <3> QED BY <2>1, <3>1 DEF Threads
  <2> QED BY <1>5, <2>1, <2>2 DEF Joined
<1>6. CASE TakeSamples
  BY <1>6 DEF TakeSamples
<1>7. CASE TakeFailures
  BY <1>7 DEF TakeFailures
<1>8. CASE TakeSummary
  BY <1>8 DEF TakeSummary
<1>9. CASE Seals
  BY <1>9 DEF Seals
<1>10. CASE Withholds
  BY <1>10 DEF Withholds
<1>11. CASE CollectorEnds
  BY <1>11, ZenonT(40) DEF CollectorEnds, Threads
<1>12. CASE CollectorWakes
  BY <1>12, ZenonT(40) DEF CollectorWakes, Threads
<1>13. CASE Tick
  BY <1>13, SMTT(20) DEF Tick, WorkWaits, ThreadsInv, Threads
<1>14. ASSUME NEW t \in Threads, ScrapeStarts(t)
       PROVE  OrchestratorTypeOK'
  BY <1>14 DEF ScrapeStarts, Remaining
<1>15. CASE TrialFails
  BY <1>15, FinallyFacts DEF TrialFails, TimeInv
<1>16. ASSUME NEW d \in Digests, TrialReturns(d)
       PROVE  OrchestratorTypeOK'
  <2>1. CASE now <= Budget /\ Accepted(d)
    <3>1. trials' \in Seq(Digests) /\ Len(trials') <= TrialCount
      <4>1. trials \in Seq(Digests) /\ Len(trials) < TrialCount
        BY <1>16 DEF TrialReturns, TrialsInv
      <4>2. trials' = Append(trials, d)
        BY <1>16, <2>1 DEF TrialReturns
      <4> HIDE DEF OrchInv, OrchestratorTypeOK
      <4> QED BY <4>1, <4>2, AppendProperties
    <3> QED BY <1>16, <2>1, <3>1 DEF TrialReturns
  <2>2. CASE ~(now <= Budget /\ Accepted(d))
    BY <1>16, <2>2, FinallyFacts DEF TrialReturns, TimeInv
  <2> QED BY <2>1, <2>2
<1> QED BY <1>1, <1>2, <1>3, <1>4, <1>5, <1>6, <1>7, <1>8, <1>9, <1>10, <1>11,
           <1>12, <1>13, <1>14, <1>15, <1>16 DEF Still, RunnerStep

LEMMA StillTime == OrchInv /\ Still => TimeInv'
<1> SUFFICES ASSUME OrchInv, Still PROVE TimeInv'
  OBVIOUS
<1> USE BoundFacts
<1> USE DEF OrchInv, TimeInv, Late
<1>0. now \in Nat /\ work.until \in Nat
  BY DEF OrchestratorTypeOK
<1>t. work \in [pc: {"start", "next", "trial", "join", "scrape", "failures",
                    "summary", "returned", "raised"},
               until: 0..Horizon, raising: {"no", "trial", "collector"}]
  BY DEF OrchestratorTypeOK
<1>1. CASE WorkStarts \/ WorkRejected
  BY <1>0, <1>t, <1>1 DEF WorkStarts, WorkRejected
<1>2. CASE NextTrial \/ TrialsDone \/ TrialFails
  BY <1>0, <1>t, <1>2 DEF NextTrial, TrialsDone, TrialFails, Finally
<1>3. CASE Joined
  BY <1>0, <1>t, <1>3 DEF Joined, LastScrape
<1>4. CASE TakeSamples \/ TakeFailures \/ TakeSummary
  BY <1>0, <1>t, <1>4 DEF TakeSamples, TakeFailures, TakeSummary
<1>5. CASE Seals \/ Withholds \/ CollectorEnds \/ CollectorWakes
  BY <1>0, <1>t, <1>5 DEF Seals, Withholds, CollectorEnds, CollectorWakes
<1>6. CASE Tick
  <2>1. scrape["work"].pc = "fetch" => scrape["work"].until <= Budget
    BY DEF ThreadsInv, Threads
  <2>2. scrape["work"].until \in Nat
    BY DEF OrchestratorTypeOK, Threads
  <2> QED BY <1>0, <1>t, <1>6, <2>1, <2>2 DEF Tick, WorkWaits
<1>7. CASE \E t \in Threads : ScrapeStarts(t)
  BY <1>0, <1>t, <1>7 DEF ScrapeStarts
<1>8. ASSUME NEW d \in Digests, TrialReturns(d)
      PROVE  TimeInv'
  BY <1>0, <1>t, <1>8 DEF TrialReturns, Finally
<1> QED BY <1>1, <1>2, <1>3, <1>4, <1>5, <1>6, <1>7, <1>8 DEF Still, RunnerStep

LEMMA StillThreads == OrchInv /\ Still => ThreadsInv'
<1> SUFFICES ASSUME OrchInv, Still PROVE ThreadsInv'
  OBVIOUS
<1> USE BoundFacts
<1> USE DEF OrchInv, ThreadsInv, Late, Stopped, Threads
<1>t. /\ now \in 0..Horizon
      /\ work \in [pc: {"start", "next", "trial", "join", "scrape", "failures",
                       "summary", "returned", "raised"},
                  until: 0..Horizon, raising: {"no", "trial", "collector"}]
      /\ scrape \in [Threads -> [pc: {"none", "loop", "fetch", "wait", "over"},
                                offset: 0..Horizon, until: 0..(Horizon + Interval)]]
  BY DEF OrchestratorTypeOK
<1>i. ThreadsInv
  OBVIOUS
<1> HIDE DEF OrchInv
<1>w. ASSUME work.pc \notin Late, work'.pc \notin Late, UNCHANGED <<now, scrape>>
      PROVE  ThreadsInv'
  BY <1>t, <1>i, <1>w
<1>1. CASE WorkStarts \/ WorkRejected
  <2>1. CASE WorkStarts
    <3>1. /\ scrape' = [scrape EXCEPT !["collector"].pc = "loop"] /\ now' = now
          /\ work.pc = "start" /\ work'.pc = "next"
      BY <1>t, <2>1 DEF WorkStarts
    <3> QED BY <1>t, <1>i, <3>1
  <2>2. CASE WorkRejected
    BY <1>t, <1>w, <2>2 DEF WorkRejected
  <2> QED BY <1>1, <2>1, <2>2
<1>2. CASE NextTrial \/ TrialsDone \/ TrialFails
  <2>1. work.pc \in {"next", "trial"} /\ UNCHANGED <<now, scrape>>
    BY <1>2 DEF NextTrial, TrialsDone, TrialFails
  <2>2. work'.pc \in {"trial", "join"}
    BY <1>t, <1>2, SMTT(20) DEF NextTrial, TrialsDone, TrialFails, Finally
  <2> QED BY <1>w, <2>1, <2>2
<1>3. CASE Joined
  <2>1. CASE scrape' = scrape
    <3>1. CASE work'.pc = "raised"
      BY <1>w, <1>3, <2>1, <3>1 DEF Joined
    <3>2. CASE work'.pc # "raised"
      <4>1. Stopped /\ work'.pc = "scrape" /\ now' = now
        BY <1>t, <1>3, <3>2 DEF Joined, LastScrape
      <4> QED BY <1>t, <1>i, <2>1, <4>1
    <3> QED BY <3>1, <3>2
  <2>2. CASE scrape' # scrape
    <3>1. /\ Stopped /\ now' = now /\ work'.pc = "scrape" /\ work.pc = "join"
          /\ scrape' = [scrape EXCEPT !["work"].pc = IF Remaining > 0 THEN "loop" ELSE "over"]
      BY <1>t, <1>3, <2>2 DEF Joined, LastScrape
    <3> QED BY <1>t, <1>i, <3>1
  <2> QED BY <2>1, <2>2
<1>4. CASE TakeSamples \/ TakeFailures \/ TakeSummary
  BY <1>t, <1>i, <1>4 DEF TakeSamples, TakeFailures, TakeSummary
<1>5. CASE Seals \/ Withholds
  BY <1>t, <1>i, <1>5 DEF Seals, Withholds
<1>6. CASE CollectorEnds \/ CollectorWakes
  BY <1>t, <1>i, <1>6 DEF CollectorEnds, CollectorWakes
<1>7. CASE Tick
  BY <1>t, <1>i, <1>7 DEF Tick
<1>8. ASSUME NEW t \in Threads, ScrapeStarts(t)
      PROVE  ThreadsInv'
  <2>1. scrape' = [scrape EXCEPT ![t] =
          [pc |-> "fetch", offset |-> now,
           until |-> now + (IF Interval < Remaining THEN Interval ELSE Remaining)]]
    BY <1>8 DEF ScrapeStarts
  <2>2. now + (IF Interval < Remaining THEN Interval ELSE Remaining) <= Budget
    BY <1>t, <1>i, <1>8 DEF ScrapeStarts, Remaining
  <2> QED BY <1>t, <1>i, <1>8, <2>1, <2>2 DEF ScrapeStarts
<1>9. ASSUME NEW d \in Digests, TrialReturns(d)
      PROVE  ThreadsInv'
  <2>1. work.pc = "trial" /\ UNCHANGED <<now, scrape>>
    BY <1>9 DEF TrialReturns
  <2>2. work'.pc \in {"next", "join"}
    BY <1>t, <1>9, SMTT(20) DEF TrialReturns, Finally
  <2> QED BY <1>w, <2>1, <2>2
<1> QED BY <1>1, <1>2, <1>3, <1>4, <1>5, <1>6, <1>7, <1>8, <1>9 DEF Still, RunnerStep

\* A fetch in progress was in progress before, or begins now.
LEMMA StillFacts ==
    ASSUME OrchInv, Still
    PROVE  /\ buffer' = buffer /\ now' \in {now, now + 1}
           /\ \A t \in Threads : scrape'[t].pc = "fetch" =>
                 scrape'[t] = scrape[t] \/ scrape'[t].offset = now
<1>t. scrape \in [Threads -> [pc: {"none", "loop", "fetch", "wait", "over"},
                             offset: 0..Horizon, until: 0..(Horizon + Interval)]]
  BY DEF OrchInv, OrchestratorTypeOK
<1>1. buffer' = buffer /\ now' \in {now, now + 1}
  BY DEF Still, RunnerStep, WorkStarts, WorkRejected, NextTrial, TrialsDone, Joined,
         TakeSamples, TakeFailures, TakeSummary, Seals, Withholds, CollectorEnds,
         CollectorWakes, Tick, ScrapeStarts, TrialFails, TrialReturns
<1>2. CASE scrape' = scrape
  BY <1>1, <1>2
<1>3. CASE \E e \in {"loop", "over"} :
              \/ scrape' = [scrape EXCEPT !["work"].pc = e]
              \/ scrape' = [scrape EXCEPT !["collector"].pc = e]
  BY <1>1, <1>3, <1>t DEF Threads
<1>4. CASE \E t \in Threads : ScrapeStarts(t)
  BY <1>1, <1>4, <1>t DEF ScrapeStarts
<1>5. CASE Joined
  <2>1. \/ scrape' = scrape
        \/ scrape' = [scrape EXCEPT !["work"].pc = IF Remaining > 0 THEN "loop" ELSE "over"]
    BY <1>5 DEF Joined, LastScrape
  <2> QED BY <1>2, <1>3, <2>1
<1>6. CASE WorkStarts \/ CollectorEnds \/ CollectorWakes
  BY <1>3, <1>6 DEF WorkStarts, CollectorEnds, CollectorWakes
<1>7. ~(Joined \/ WorkStarts \/ CollectorEnds \/ CollectorWakes
          \/ \E t \in Threads : ScrapeStarts(t)) => scrape' = scrape
  BY DEF Still, RunnerStep, WorkRejected, NextTrial, TrialsDone,
         TakeSamples, TakeFailures, TakeSummary, Seals, Withholds, Tick,
         TrialFails, TrialReturns
<1> QED BY <1>2, <1>4, <1>5, <1>6, <1>7

LEMMA StillBuffer == OrchInv /\ Still => BufferInv'
<1> SUFFICES ASSUME OrchInv, Still PROVE BufferInv'
  OBVIOUS
<1>1. /\ buffer' = buffer /\ now' \in {now, now + 1}
      /\ \A t \in Threads : scrape'[t].pc = "fetch" =>
            scrape'[t] = scrape[t] \/ scrape'[t].offset = now
  BY StillFacts
<1>2. now \in Nat /\ \A i \in DOMAIN buffer.samples : buffer.samples[i].at \in Nat
  <2>1. now \in Nat
    BY BoundFacts DEF OrchInv, OrchestratorTypeOK
  <2>2. buffer.samples \in Seq(Sample)
    BY DEF OrchInv, OrchestratorTypeOK
  <2>3. \A i \in DOMAIN buffer.samples : buffer.samples[i] \in Sample
    BY <2>2
  <2> QED BY <2>1, <2>3 DEF Sample
<1>3. BufferInv
  BY DEF OrchInv
<1>4. Ordered(buffer.samples)'
  BY <1>1, <1>3 DEF BufferInv, Ordered
<1>5. ASSUME NEW i \in DOMAIN buffer.samples
      PROVE  /\ buffer.samples[i].at <= now'
             /\ \A t \in Threads : scrape'[t].pc = "fetch" =>
                   buffer.samples[i].at <= scrape'[t].offset
  <2>1. buffer.samples[i].at <= now /\ buffer.samples[i].at <= now'
    BY <1>1, <1>2, <1>3 DEF BufferInv
  <2>2. ASSUME NEW t \in Threads, scrape'[t].pc = "fetch"
        PROVE  buffer.samples[i].at <= scrape'[t].offset
    <3>1. CASE scrape'[t] = scrape[t]
      BY <1>3, <2>2, <3>1 DEF BufferInv
    <3>2. CASE scrape'[t].offset = now
      BY <2>1, <3>2
    <3> QED BY <1>1, <2>2, <3>1, <3>2
  <2> QED BY <2>1, <2>2
<1>6. \A i \in DOMAIN buffer'.samples :
         /\ buffer'.samples[i].at <= now'
         /\ \A t \in Threads : scrape'[t].pc = "fetch" =>
               buffer'.samples[i].at <= scrape'[t].offset
  <2> HIDE DEF Threads
  <2> QED BY <1>1, <1>5
<1> QED BY <1>4, <1>6 DEF BufferInv

LEMMA StillDraft == OrchInv /\ Still => DraftInv'
<1> SUFFICES ASSUME OrchInv, Still PROVE DraftInv'
  OBVIOUS
<1>b. buffer' = buffer
  BY StillFacts
<1>i. DraftInv
  BY DEF OrchInv
<1>t. /\ work \in [pc: {"start", "next", "trial", "join", "scrape", "failures",
                       "summary", "returned", "raised"},
                  until: 0..Horizon, raising: {"no", "trial", "collector"}]
      /\ DOMAIN draft = {"samples", "failures", "summary"}
  BY DEF OrchInv, OrchestratorTypeOK
<1>e. \A v : /\ [draft EXCEPT !.samples = v].samples = v
             /\ [draft EXCEPT !.failures = v].failures = v
             /\ [draft EXCEPT !.failures = v].samples = draft.samples
             /\ [draft EXCEPT !.summary = v].summary = v
             /\ [draft EXCEPT !.summary = v].samples = draft.samples
             /\ [draft EXCEPT !.summary = v].failures = draft.failures
  BY <1>t
<1> DEFINE sum == Summary(buffer.samples)
<1>s. Summary(buffer.samples)' = sum
  BY <1>b DEF Summary
<1> HIDE DEF sum
<1>1. CASE TakeSamples
  <2>1. work'.pc = "failures" /\ draft'.samples = buffer.samples
    BY <1>1, <1>t, <1>e DEF TakeSamples
  <2> QED BY <1>b, <2>1 DEF DraftInv
<1>2. CASE TakeFailures
  <2>1. /\ work'.pc = "summary" /\ draft'.failures = buffer.failures
        /\ draft'.samples = buffer.samples
    BY <1>2, <1>t, <1>e, <1>i DEF TakeFailures, DraftInv
  <2> QED BY <1>b, <2>1 DEF DraftInv
<1>3. CASE TakeSummary
  <2>1. /\ work'.pc = "returned" /\ draft'.samples = buffer.samples
        /\ draft'.failures = buffer.failures /\ draft'.summary = sum
    BY <1>3, <1>t, <1>e, <1>i DEF TakeSummary, DraftInv, sum
  <2> QED BY <1>b, <1>s, <2>1 DEF DraftInv
<1>4. CASE work'.pc \notin {"failures", "summary", "returned"}
  BY <1>4 DEF DraftInv
<1>5. CASE work' = work /\ draft' = draft
  BY <1>5, <1>b, <1>s, <1>i DEF DraftInv, sum
<1>6. CASE WorkStarts \/ WorkRejected \/ NextTrial \/ TrialsDone \/ TrialFails
  <2>1. work'.pc \in {"next", "raised", "trial", "join"}
    <3>1. CASE WorkStarts \/ WorkRejected
      BY <1>t, <3>1 DEF WorkStarts, WorkRejected
    <3>2. CASE NextTrial
      BY <1>t, <3>2 DEF NextTrial, Finally
    <3>3. CASE TrialsDone \/ TrialFails
      BY <3>3 DEF TrialsDone, TrialFails, Finally
    <3> QED BY <1>6, <3>1, <3>2, <3>3
  <2> QED BY <1>4, <2>1
<1>7. CASE Joined
  BY <1>4, <1>7, <1>t DEF Joined, LastScrape
<1>8. CASE \E d \in Digests : TrialReturns(d)
  BY <1>4, <1>8, <1>t DEF TrialReturns, Finally
<1>9. CASE Seals \/ Withholds \/ CollectorEnds \/ CollectorWakes \/ Tick
             \/ \E t \in Threads : ScrapeStarts(t)
  BY <1>5, <1>9 DEF Seals, Withholds, CollectorEnds, CollectorWakes, Tick, ScrapeStarts
<1> QED BY <1>1, <1>2, <1>3, <1>6, <1>7, <1>8, <1>9 DEF Still, RunnerStep

LEMMA StillTrials == OrchInv /\ Still => TrialsInv'
<1> SUFFICES ASSUME OrchInv, Still PROVE TrialsInv'
  OBVIOUS
<1>i. TrialsInv
  BY DEF OrchInv
<1>t. /\ work \in [pc: {"start", "next", "trial", "join", "scrape", "failures",
                       "summary", "returned", "raised"},
                  until: 0..Horizon, raising: {"no", "trial", "collector"}]
      /\ trials \in Seq(Digests) /\ Len(trials) <= TrialCount
      /\ Len(trials) \in Nat /\ TrialCount \in Nat
  BY BoundFacts DEF OrchInv, OrchestratorTypeOK
<1> USE DEF TrialsInv, Late
<1>u. ASSUME trials' = trials, work'.pc \in {"next", "raised"}
      PROVE  TrialsInv'
  BY <1>i, <1>u
<1>1. CASE WorkStarts \/ WorkRejected
  <2>1. trials' = trials
    BY <1>1 DEF WorkStarts, WorkRejected
  <2>2. work'.pc \in {"next", "raised"}
    BY <1>1, <1>t DEF WorkStarts, WorkRejected
  <2> QED BY <1>u, <2>1, <2>2
<1>2. CASE NextTrial
  <2>1. CASE Remaining = 0
    BY <1>2, <1>i, <1>t, <2>1 DEF NextTrial, Finally
  <2>2. CASE Remaining # 0
    BY <1>2, <1>i, <1>t, <2>2 DEF NextTrial
  <2> QED BY <2>1, <2>2
<1>3. CASE TrialsDone \/ TrialFails
  BY <1>3, <1>i, <1>t DEF TrialsDone, TrialFails, Finally
<1>4. CASE Joined
  <2>1. trials' = trials /\ work.pc = "join"
    BY <1>4 DEF Joined
  <2>2. CASE work.raising = "no" /\ Stopped
    <3>1. work'.pc = "scrape"
      BY <1>4, <1>t, <2>2 DEF Joined, LastScrape
    <3> QED BY <1>i, <2>1, <2>2, <3>1
  <2>3. CASE ~(work.raising = "no" /\ Stopped)
    <3>1. work'.pc = "raised"
      BY <1>4, <1>t, <2>3 DEF Joined
    <3> QED BY <1>u, <2>1, <3>1
  <2> QED BY <2>2, <2>3
<1>5. CASE TakeSamples \/ TakeFailures \/ TakeSummary
  BY <1>5, <1>i, <1>t DEF TakeSamples, TakeFailures, TakeSummary
<1>6. CASE Seals \/ Withholds \/ CollectorEnds \/ CollectorWakes \/ Tick
             \/ \E t \in Threads : ScrapeStarts(t)
  <2>1. work' = work /\ trials' = trials
    BY <1>6 DEF Seals, Withholds, CollectorEnds, CollectorWakes, Tick, ScrapeStarts
  <2> QED BY <1>i, <2>1
<1>7. ASSUME NEW d \in Digests, TrialReturns(d)
      PROVE  TrialsInv'
  <2>1. CASE now <= Budget /\ Accepted(d)
    <3>1. /\ trials' = Append(trials, d) /\ work'.pc = "next"
      BY <1>7, <1>t, <2>1 DEF TrialReturns
    <3>2. /\ d \in Fit
          /\ \A i \in DOMAIN trials : trials[i] # d /\ ContextOf[d] = ContextOf[trials[i]]
      BY <2>1 DEF Accepted
    <3>3. /\ DOMAIN trials' = (DOMAIN trials) \union {Len(trials) + 1}
          /\ \A i \in DOMAIN trials : trials'[i] = trials[i]
          /\ trials'[Len(trials) + 1] = d
      <4> HIDE DEF TrialsInv
      <4> QED BY <1>t, <3>1, AppendProperties
    <3>4. ASSUME NEW i \in DOMAIN trials', NEW k \in DOMAIN trials'
          PROVE  /\ trials'[i] \in Fit
                 /\ ContextOf[trials'[i]] = ContextOf[trials'[k]]
                 /\ trials'[i] = trials'[k] => i = k
      <4>1. CASE i \in DOMAIN trials /\ k \in DOMAIN trials
        BY <1>i, <3>3, <4>1
      <4>2. CASE i = Len(trials) + 1
        BY <3>2, <3>3, <4>2
      <4>3. CASE k = Len(trials) + 1 /\ i \in DOMAIN trials
        BY <1>i, <3>2, <3>3, <4>3
      <4> QED BY <3>3, <4>1, <4>2, <4>3
    <3> QED BY <3>1, <3>4
  <2>2. CASE ~(now <= Budget /\ Accepted(d))
    BY <1>7, <1>i, <1>t, <2>2 DEF TrialReturns, Finally
  <2> QED BY <2>1, <2>2
<1> QED BY <1>1, <1>2, <1>3, <1>4, <1>5, <1>6, <1>7 DEF Still, RunnerStep

\* What work() read is what it sealed, so its own verifier accepts it, unless
\* it objects to a run_id.
LEMMA ReturnedVerifies ==
    ASSUME OrchInv, work.pc = "returned",
           \A i \in DOMAIN trials : trials[i] \in WellNamed
    PROVE  Verified
<1>1. Len(trials) = TrialCount
  BY DEF OrchInv, TrialsInv, Late
<1>2. /\ draft.samples = buffer.samples /\ draft.failures = buffer.failures
      /\ draft.summary = Summary(buffer.samples)
  BY DEF OrchInv, DraftInv
<1>3. Len(buffer.samples) <= MaxSamples /\ Len(buffer.failures) <= MaxSamples
  BY DEF OrchInv, OrchestratorTypeOK
<1>4. \A i, k \in DOMAIN buffer.samples :
         i < k => buffer.samples[i].at <= buffer.samples[k].at
  BY DEF OrchInv, BufferInv, Ordered
<1> DEFINE sum == Summary(buffer.samples)
<1>5. draft.summary = sum /\ Summary(draft.samples) = sum
  BY <1>2
<1> HIDE DEF sum
<1> QED BY <1>1, <1>2, <1>3, <1>4, <1>5 DEF Verified

LEMMA StillAnswer == OrchInv /\ Still => AnswerInv'
<1> SUFFICES ASSUME OrchInv, Still PROVE AnswerInv'
  OBVIOUS
<1>i. AnswerInv
  BY DEF OrchInv
<1>1. CASE Seals
  <2>1. work.pc = "returned" /\ work' = work
    BY <1>1 DEF Seals
  <2>2. trials' = trials /\ answer' \in {"published", "refused"}
    BY <1>1 DEF Seals
  <2>3. CASE \A i \in DOMAIN trials : trials[i] \in WellNamed
    <3>1. answer' = "published"
      BY <1>1, <2>1, <2>3, ReturnedVerifies DEF Seals
    <3> QED BY <2>1, <3>1 DEF AnswerInv
  <2>4. CASE \E i \in DOMAIN trials : trials[i] \notin WellNamed
    BY <2>1, <2>2, <2>4 DEF AnswerInv
  <2> QED BY <2>3, <2>4
<1>2. CASE Withholds
  BY <1>2 DEF Withholds, AnswerInv
<1>3. CASE answer' = answer /\ ((work' = work /\ trials' = trials) \/ work.pc # "returned")
  BY <1>i, <1>3 DEF AnswerInv
<1>4. CASE ~Seals /\ ~Withholds
  BY <1>3, <1>4 DEF Still, RunnerStep, WorkStarts, WorkRejected, NextTrial, TrialsDone,
         Joined, TakeSamples, TakeFailures, TakeSummary, CollectorEnds,
         CollectorWakes, Tick, ScrapeStarts, TrialFails, TrialReturns
<1> QED BY <1>1, <1>2, <1>4

-----------------------------------------------------------------------------
(* The end of a fetch.                                                     *)

\* One thread at a time scrapes, and a scrape ends before the buffer is read.
LEMMA FetchedFacts ==
    ASSUME OrchInv, NEW t \in Threads, Fetched(t)
    PROVE  /\ UNCHANGED <<now, work, trials, stop, draft, answer>>
           /\ scrape[t].pc = "fetch" /\ ScrapeOver(t)
           /\ work.pc \notin {"failures", "summary", "returned"}
           /\ \A u \in Threads : scrape'[u].pc # "fetch"
           /\ scrape[t].offset \in Nat /\ scrape[t].offset <= now
<1>t. scrape \in [Threads -> [pc: {"none", "loop", "fetch", "wait", "over"},
                             offset: 0..Horizon, until: 0..(Horizon + Interval)]]
  BY DEF OrchInv, OrchestratorTypeOK
<1>1. /\ UNCHANGED <<now, work, trials, stop, draft, answer>>
      /\ scrape[t].pc = "fetch" /\ ScrapeOver(t)
  BY DEF Fetched, FetchReturns, FetchFails, FetchTimesOut
<1>2. ThreadsInv
  BY DEF OrchInv
<1>3. scrape[t].offset \in Nat /\ scrape[t].offset <= now
  BY <1>t, <1>1, <1>2, BoundFacts DEF ThreadsInv
<1>4. CASE t = "collector"
  <2>1. work.pc \notin Late
    BY <1>1, <1>2, <1>4 DEF ThreadsInv, Stopped
  <2>2. scrape["work"].pc = "none"
    BY <1>2, <2>1 DEF ThreadsInv
  <2>3. scrape'["collector"].pc = "wait" /\ scrape'["work"] = scrape["work"]
    BY <1>t, <1>1, <1>4 DEF ScrapeOver, Threads
  <2> QED BY <1>1, <1>3, <2>1, <2>2, <2>3 DEF Late, Threads
<1>5. CASE t = "work"
  <2>1. work.pc = "scrape"
    BY <1>1, <1>2, <1>5 DEF ThreadsInv, Late
  <2>2. scrape["collector"].pc = "over"
    BY <1>2, <2>1 DEF ThreadsInv, Late, Stopped
  <2>3. scrape'["work"].pc = "over" /\ scrape'["collector"] = scrape["collector"]
    BY <1>t, <1>1, <1>5 DEF ScrapeOver, Threads
  <2> QED BY <1>1, <1>3, <2>1, <2>2, <2>3 DEF Threads
<1> QED BY <1>4, <1>5 DEF Threads

LEMMA FetchedBuffer ==
    ASSUME OrchInv, NEW t \in Threads, Fetched(t)
    PROVE  /\ buffer' \in [samples: Seq(Sample), failures: Seq(Failure)]
           /\ Len(buffer'.samples) <= MaxSamples /\ Len(buffer'.failures) <= MaxSamples
           /\ Ordered(buffer'.samples)
           /\ \A i \in DOMAIN buffer'.samples : buffer'.samples[i].at <= scrape[t].offset
<1>1. /\ buffer \in [samples: Seq(Sample), failures: Seq(Failure)]
      /\ Len(buffer.samples) <= MaxSamples /\ Len(buffer.failures) <= MaxSamples
  BY DEF OrchInv, OrchestratorTypeOK
<1>2. scrape[t].pc = "fetch" /\ scrape[t].offset \in Nat
  BY FetchedFacts
<1>3. /\ Ordered(buffer.samples)
      /\ \A i \in DOMAIN buffer.samples : buffer.samples[i].at <= scrape[t].offset
  BY <1>2 DEF OrchInv, BufferInv
<1>4. CASE \E S \in SUBSET Series : buffer' = Appending(t, S)
  <2>1. PICK S \in SUBSET Series : buffer' = Appending(t, S)
    BY <1>4
  <2> QED BY <1>1, <1>2, <1>3, <2>1, AppendingFacts
<1>5. CASE \E e \in {"invalid", "unavailable"} : buffer' = Failing(t, e)
  <2>1. PICK e \in {"invalid", "unavailable"} : buffer' = Failing(t, e)
    BY <1>5
  <2>2. /\ buffer' \in [samples: Seq(Sample), failures: Seq(Failure)]
        /\ buffer'.samples = buffer.samples /\ Len(buffer'.failures) <= MaxSamples
    BY <1>1, <1>2, <2>1, FailingFacts
  <2> QED BY <1>1, <1>3, <2>2
<1> QED BY <1>4, <1>5 DEF Fetched, FetchReturns, FetchFails, FetchTimesOut

LEMMA FetchedThreads ==
    ASSUME OrchInv, NEW t \in Threads, Fetched(t)
    PROVE  /\ ThreadsInv'
           /\ scrape' \in [Threads -> [pc: {"none", "loop", "fetch", "wait", "over"},
                                       offset: 0..Horizon, until: 0..(Horizon + Interval)]]
<1>t. /\ scrape \in [Threads -> [pc: {"none", "loop", "fetch", "wait", "over"},
                                offset: 0..Horizon, until: 0..(Horizon + Interval)]]
      /\ now \in 0..Horizon
  BY DEF OrchInv, OrchestratorTypeOK
<1>1. /\ work' = work /\ scrape[t].pc = "fetch" /\ ScrapeOver(t)
      /\ work.pc \notin {"failures", "summary", "returned"}
      /\ \A u \in Threads : scrape'[u].pc # "fetch"
  BY FetchedFacts
<1>2. ThreadsInv
  BY DEF OrchInv
<1>3. scrape' \in [Threads -> [pc: {"none", "loop", "fetch", "wait", "over"},
                               offset: 0..Horizon, until: 0..(Horizon + Interval)]]
  BY <1>t, <1>1, BoundFacts DEF ScrapeOver
<1>4. CASE t = "collector"
  <2>1. work.pc \notin Late
    BY <1>1, <1>2, <1>4 DEF ThreadsInv, Stopped
  <2>2. scrape'["work"] = scrape["work"]
    BY <1>t, <1>1, <1>4 DEF ScrapeOver, Threads
  <2> QED BY <1>1, <1>2, <1>3, <2>1, <2>2 DEF ThreadsInv, Late
<1>5. CASE t = "work"
  <2>1. work.pc = "scrape"
    BY <1>1, <1>2, <1>5 DEF ThreadsInv, Late
  <2>2. scrape'["collector"] = scrape["collector"]
    BY <1>t, <1>1, <1>5 DEF ScrapeOver, Threads
  <2> QED BY <1>1, <1>2, <1>3, <2>1, <2>2 DEF ThreadsInv, Late, Stopped
<1> QED BY <1>4, <1>5 DEF Threads

LEMMA FetchedInv ==
    ASSUME OrchInv, NEW t \in Threads, Fetched(t)
    PROVE  OrchInv'
<1>1. /\ UNCHANGED <<now, work, trials, stop, draft, answer>>
      /\ work.pc \notin {"failures", "summary", "returned"}
      /\ \A u \in Threads : scrape'[u].pc # "fetch"
      /\ scrape[t].offset \in Nat /\ scrape[t].offset <= now
  BY FetchedFacts
<1>2. /\ buffer' \in [samples: Seq(Sample), failures: Seq(Failure)]
      /\ Len(buffer'.samples) <= MaxSamples /\ Len(buffer'.failures) <= MaxSamples
      /\ Ordered(buffer'.samples)
      /\ \A i \in DOMAIN buffer'.samples : buffer'.samples[i].at <= scrape[t].offset
  BY FetchedBuffer
<1>3. /\ ThreadsInv'
      /\ scrape' \in [Threads -> [pc: {"none", "loop", "fetch", "wait", "over"},
                                  offset: 0..Horizon, until: 0..(Horizon + Interval)]]
  BY FetchedThreads
<1>4. OrchestratorTypeOK'
  BY <1>1, <1>2, <1>3 DEF OrchInv, OrchestratorTypeOK
<1>5. TimeInv' /\ TrialsInv' /\ AnswerInv'
  BY <1>1 DEF OrchInv, TimeInv, TrialsInv, AnswerInv
<1>6. DraftInv'
  BY <1>1 DEF DraftInv
<1>7. BufferInv'
  <2>1. now \in Nat
    BY BoundFacts DEF OrchInv, OrchestratorTypeOK
  <2>2. ASSUME NEW i \in DOMAIN buffer'.samples
        PROVE  buffer'.samples[i].at <= now
    <3>1. buffer'.samples \in Seq(Sample)
      BY <1>2
    <3>2. buffer'.samples[i] \in Sample
      BY <3>1
    <3>3. buffer'.samples[i].at \in Nat
      BY <3>2 DEF Sample
    <3> QED BY <1>1, <1>2, <2>1, <3>3
  <2>3. Ordered(buffer.samples)'
    BY <1>2 DEF Ordered
  <2> QED BY <1>1, <2>2, <2>3 DEF BufferInv
<1> QED BY <1>3, <1>4, <1>5, <1>6, <1>7 DEF OrchInv

LEMMA InvStep == OrchInv /\ [Next]_vars => OrchInv'
<1> SUFFICES ASSUME OrchInv, [Next]_vars PROVE OrchInv'
  OBVIOUS
<1>1. CASE Still
  BY <1>1, StillType, StillTime, StillThreads, StillBuffer, StillDraft, StillTrials,
     StillAnswer DEF OrchInv
<1>2. CASE \E t \in Threads : Fetched(t)
  BY <1>2, FetchedInv
<1>3. CASE UNCHANGED vars
  <2>1. OrchestratorTypeOK' /\ TimeInv' /\ ThreadsInv' /\ TrialsInv' /\ AnswerInv'
    BY <1>3 DEF vars, OrchInv, OrchestratorTypeOK, TimeInv, ThreadsInv, Stopped,
                TrialsInv, AnswerInv
  <2>2. BufferInv'
    BY <1>3 DEF vars, OrchInv, BufferInv, Ordered
  <2>3. DraftInv'
    <3>1. Summary(buffer.samples)' = Summary(buffer.samples)
      BY <1>3 DEF vars, Summary
    <3> QED BY <1>3, <3>1 DEF vars, OrchInv, DraftInv
  <2> QED BY <2>1, <2>2, <2>3 DEF OrchInv
<1> QED BY <1>1, <1>2, <1>3, NextSplits

LEMMA OrchInvariant == Spec => []OrchInv
<1>1. Init => OrchInv
  BY InvInit
<1>2. OrchInv /\ [Next]_vars => OrchInv'
  BY InvStep
<1> QED BY <1>1, <1>2, PTL DEF Spec

-----------------------------------------------------------------------------
(* The theorems.                                                           *)

\* The variables keep their types, the clock its bound, and the ring buffer
\* never holds more than the plan allows.
THEOREM OrchestratorTypeCorrect == Spec => []OrchestratorTypeOK
<1>1. OrchInv => OrchestratorTypeOK
  BY DEF OrchInv
<1> QED BY <1>1, OrchInvariant, PTL

\* A published artifact has as many trials as planned, all fit, of one context,
\* none of them twice.
THEOREM PublishedHasEvidence == Spec => []PublishedIsEvidence
<1>1. OrchInv => PublishedIsEvidence
  BY DEF OrchInv, AnswerInv, TrialsInv, Late, PublishedIsEvidence
<1> QED BY <1>1, OrchInvariant, PTL

\* The verifier refuses what work() built for a run_id only: nothing is written between its
\* three readings of the buffer, whatever the endpoint and the collector do.
THEOREM SealIsNotRefused == Spec => []SealNotRefused
<1>1. OrchInv => SealNotRefused
  BY DEF OrchInv, AnswerInv, SealNotRefused
<1> QED BY <1>1, OrchInvariant, PTL

\* No scrape is waited for beyond the budget of the run, and work() is over when
\* the budget is, or a bounded join after its last trial.
THEOREM BudgetIsShared == Spec => []SharesBudget
<1>1. OrchInv => SharesBudget
  BY DEF OrchInv, ThreadsInv, TimeInv, Late, SharesBudget
<1> QED BY <1>1, OrchInvariant, PTL
=============================================================================
