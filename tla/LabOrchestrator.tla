---------------------------- MODULE LabOrchestrator ----------------------------
(***************************************************************************)
(* LabRunOrchestrator.execute (lab_orchestrator.py): the work it hands to  *)
(* the lifecycle, the telemetry collector thread beside it, the buffer     *)
(* they share (lab_telemetry.py), and the sealing of the artifact once the *)
(* lifecycle has ended.  The trial runner and the metrics endpoint are     *)
(* foreign: they take what time they like.  Time is whole seconds; a       *)
(* thread that can go on does so before the next second, so a wait ends    *)
(* when it is over or in the second in which it times out.                 *)
(***************************************************************************)
EXTENDS Integers, Sequences, FiniteSets, SequencesExt

CONSTANTS
    TrialCount,   \* plan.trial_count
    Interval,     \* plan.telemetry_interval_s
    MaxSamples,   \* plan.telemetry_max_samples
    Budget,       \* run_timeout_s, handed to work as deadline_s
    Overrun,      \* bound of the exploration: seconds a trial overstays
    Digests,      \* benchmark artifacts that verify; the digest covers them
    Fit,          \* those with run_status "ok" and the plan's endpoint, profile
    WellNamed,    \* those with a run_id of the benchmark runner's form
    ContextOf,    \* endpoint, model, profile and hashes of an artifact
    Series,       \* metric and label combinations
    MaxSeries     \* series the buffer takes

ASSUME PlanAssumption ==
    /\ TrialCount \in Nat \ {0} /\ Interval \in Nat \ {0}
    /\ MaxSamples \in Nat \ {0} /\ MaxSeries \in Nat \ {0}
ASSUME SeriesAssumption == IsFiniteSet(Series)
ASSUME TimeAssumption == Budget \in Nat /\ Overrun \in Nat
ASSUME ArtifactsAssumption == Fit \cup WellNamed \subseteq Digests /\ DOMAIN ContextOf = Digests

VARIABLES
    now,      \* seconds since work began (the monotonic clock)
    work,     \* the thread that runs work(): the next statement, the end of a
              \* timed wait, and whether it is raising
    trials,   \* trial_refs
    stop,     \* stop_telemetry
    scrape,   \* what each thread does in scrape_once and the collector's loop
    buffer,   \* the TelemetryBuffer
    draft,    \* what work() has built of its result
    answer    \* what execute() did

vars == <<now, work, trials, stop, scrape, buffer, draft, answer>>

-----------------------------------------------------------------------------
(* Values.                                                                 *)

Threads == {"work", "collector"}

JoinTimeout == IF Interval + 2 < 5 THEN Interval + 2 ELSE 5
Horizon == Budget + Overrun + JoinTimeout

Remaining == IF now < Budget THEN Budget - now ELSE 0

Sample == [at: Nat, series: Series]
Failure == [at: Nat, status: {"invalid", "unavailable"}]

\* What a full ring buffer keeps.
Retained(q) == SubSeq(q, IF Len(q) > MaxSamples THEN Len(q) - MaxSamples + 1 ELSE 1, Len(q))

\* summarize_telemetry: how many samples a series has, and its latest one.
Summary(q) ==
    [s \in Series |->
       LET I == {i \in DOMAIN q : q[i].series = s}
       IN  [count  |-> Cardinality(I),
            latest |-> IF I = {} THEN 0
                       ELSE q[CHOOSE i \in I : \A k \in I : k <= i].at]]

NoDraft == [samples |-> <<>>, failures |-> <<>>, summary |-> Summary(<<>>)]

Quiet == [pc |-> "none", offset |-> 0, until |-> 0]

Init ==
    /\ now = 0
    /\ work = [pc |-> "start", until |-> 0, raising |-> "no"]
    /\ trials = <<>>
    /\ stop = FALSE
    /\ scrape = [t \in Threads |-> Quiet]
    /\ buffer = [samples |-> <<>>, failures |-> <<>>]
    /\ draft = NoDraft
    /\ answer = "none"

-----------------------------------------------------------------------------
(* work(): the trials.                                                     *)

\* Both URLs are loopback and the collector starts.
WorkStarts ==
    /\ work.pc = "start"
    /\ work' = [work EXCEPT !.pc = "next"]
    /\ scrape' = [scrape EXCEPT !["collector"].pc = "loop"]
    /\ UNCHANGED <<now, trials, stop, buffer, draft, answer>>

\* A URL is not: nothing was started.
WorkRejected ==
    /\ work.pc = "start"
    /\ work' = [work EXCEPT !.pc = "raised", !.raising = "trial"]
    /\ UNCHANGED <<now, trials, stop, scrape, buffer, draft, answer>>

\* The finally clause: stop the collector and wait for it, for a while.
Finally(raising) ==
    /\ stop' = TRUE
    /\ work' = [pc |-> "join", until |-> now + JoinTimeout, raising |-> raising]

NextTrial ==
    /\ work.pc = "next" /\ Len(trials) < TrialCount
    /\ IF Remaining = 0
       THEN Finally("trial")
       ELSE work' = [work EXCEPT !.pc = "trial"] /\ UNCHANGED stop
    /\ UNCHANGED <<now, trials, scrape, buffer, draft, answer>>

\* Variant with a fault, for the mutation runs: an artifact may come again.
Accepted_replayed(d) ==
    /\ d \in Fit
    /\ \A i \in DOMAIN trials : ContextOf[d] = ContextOf[trials[i]]

\* Lines 570-589: passed its gate, bound to the plan, not seen before, and of
\* the context of the trials before it.
Accepted(d) ==
    /\ d \in Fit
    /\ \A i \in DOMAIN trials : trials[i] # d /\ ContextOf[d] = ContextOf[trials[i]]

\* The runner returned an artifact that verifies, in time or not.
TrialReturns(d) ==
    /\ work.pc = "trial"
    /\ IF now <= Budget /\ Accepted(d)
       THEN /\ trials' = Append(trials, d)
            /\ work' = [work EXCEPT !.pc = "next"]
            /\ UNCHANGED stop
       ELSE Finally("trial") /\ UNCHANGED trials
    /\ UNCHANGED <<now, scrape, buffer, draft, answer>>

\* It raised, or returned something that does not verify.
TrialFails ==
    /\ work.pc = "trial"
    /\ Finally("trial")
    /\ UNCHANGED <<now, trials, scrape, buffer, draft, answer>>

TrialsDone ==
    /\ work.pc = "next" /\ Len(trials) = TrialCount
    /\ Finally("no")
    /\ UNCHANGED <<now, trials, scrape, buffer, draft, answer>>

Stopped == scrape["collector"].pc = "over"

\* One more scrape, when there is budget left for it.
LastScrape ==
    /\ work' = [work EXCEPT !.pc = "scrape"]
    /\ scrape' = [scrape EXCEPT !["work"].pc = IF Remaining > 0 THEN "loop" ELSE "over"]

\* Variant with a fault: whether the collector stopped is not asked.
Joined_unchecked ==
    /\ work.pc = "join"
    /\ Stopped \/ now >= work.until
    /\ IF work.raising = "no"
       THEN LastScrape
       ELSE work' = [work EXCEPT !.pc = "raised"] /\ UNCHANGED scrape
    /\ UNCHANGED <<now, trials, stop, buffer, draft, answer>>

\* join() returns, and a collector that is still alive fails the run.
Joined ==
    /\ work.pc = "join"
    /\ Stopped \/ now >= work.until
    /\ \/ /\ work.raising = "no" /\ Stopped
          /\ LastScrape
       \/ /\ work.raising = "no" /\ ~Stopped
          /\ work' = [work EXCEPT !.pc = "raised", !.raising = "collector"]
          /\ UNCHANGED scrape
       \/ /\ work.raising # "no"
          /\ work' = [work EXCEPT !.pc = "raised"]
          /\ UNCHANGED scrape
    /\ UNCHANGED <<now, trials, stop, buffer, draft, answer>>

-----------------------------------------------------------------------------
(* scrape_once(), in the collector or at the end of work().                *)

\* Variant with a fault: the last scrape waits its whole interval.
ScrapeStarts_unbounded(t) ==
    /\ scrape[t].pc = "loop"
    /\ t = "collector" => ~stop
    /\ Remaining > 0
    /\ scrape' = [scrape EXCEPT ![t] =
         [pc |-> "fetch", offset |-> now, until |-> now + Interval]]
    /\ UNCHANGED <<now, work, trials, stop, buffer, draft, answer>>

\* A daemon thread is started to fetch, and waited for.
ScrapeStarts(t) ==
    /\ scrape[t].pc = "loop"
    /\ t = "collector" => ~stop
    /\ Remaining > 0
    /\ scrape' = [scrape EXCEPT ![t] =
         [pc |-> "fetch", offset |-> now,
          until |-> now + (IF Interval < Remaining THEN Interval ELSE Remaining)]]
    /\ UNCHANGED <<now, work, trials, stop, buffer, draft, answer>>

\* The collector sees the stop event, or the end of the budget.
CollectorEnds ==
    /\ \/ scrape["collector"].pc = "loop" /\ (stop \/ Remaining = 0)
       \/ scrape["collector"].pc = "wait" /\ stop
    /\ scrape' = [scrape EXCEPT !["collector"].pc = "over"]
    /\ UNCHANGED <<now, work, trials, stop, buffer, draft, answer>>

\* The interval between two scrapes is over.
CollectorWakes ==
    /\ scrape["collector"].pc = "wait"
    /\ ~stop /\ now >= scrape["collector"].until
    /\ scrape' = [scrape EXCEPT !["collector"].pc = "loop"]
    /\ UNCHANGED <<now, work, trials, stop, buffer, draft, answer>>

\* What thread t does after a scrape.
ScrapeOver(t) ==
    scrape' = [scrape EXCEPT ![t] =
       IF t = "collector" THEN [pc |-> "wait", offset |-> 0, until |-> now + Interval]
                          ELSE [pc |-> "over", offset |-> 0, until |-> 0]]

\* record_failure
Failing(t, status) ==
    [buffer EXCEPT !.failures =
       Retained(Append(@, [at |-> scrape[t].offset, status |-> status]))]

\* The samples of one snapshot carry the offset at which it was asked for.
Snapshot(t, S) ==
    [i \in 1..Cardinality(S) |->
        [at |-> scrape[t].offset, series |-> SetToSeq(S)[i]]]

SeriesIn(q) == {q[i].series : i \in DOMAIN q}

\* append(): the oldest samples make room; too many series refuse all of it.
Appending(t, S) ==
    LET candidate == Retained(buffer.samples \o Snapshot(t, S))
    IN  IF Cardinality(SeriesIn(candidate)) > MaxSeries
        THEN Failing(t, "invalid")
        ELSE [buffer EXCEPT !.samples = candidate]

\* The endpoint answered before anybody gave up: a snapshot of some series.
FetchReturns(t, S) ==
    /\ scrape[t].pc = "fetch"
    /\ buffer' = Appending(t, S)
    /\ ScrapeOver(t)
    /\ UNCHANGED <<now, work, trials, stop, draft, answer>>

\* It answered with something that does not parse, or not at all.
FetchFails(t, status) ==
    /\ scrape[t].pc = "fetch"
    /\ buffer' = Failing(t, status)
    /\ ScrapeOver(t)
    /\ UNCHANGED <<now, work, trials, stop, draft, answer>>

\* Variant with a fault: the last scrape calls the fetcher directly.
FetchTimesOut_collector_only(t) ==
    /\ t = "collector" /\ scrape[t].pc = "fetch" /\ now >= scrape[t].until
    /\ buffer' = Failing(t, "unavailable")
    /\ ScrapeOver(t)
    /\ UNCHANGED <<now, work, trials, stop, draft, answer>>

\* The fetch thread is abandoned: what it still gets goes nowhere.
FetchTimesOut(t) ==
    /\ scrape[t].pc = "fetch" /\ now >= scrape[t].until
    /\ buffer' = Failing(t, "unavailable")
    /\ ScrapeOver(t)
    /\ UNCHANGED <<now, work, trials, stop, draft, answer>>

-----------------------------------------------------------------------------
(* The result of work(): three readings of the buffer.                     *)

TakeSamples ==
    /\ work.pc = "scrape" /\ scrape["work"].pc = "over"
    /\ draft' = [draft EXCEPT !.samples = buffer.samples]
    /\ work' = [work EXCEPT !.pc = "failures"]
    /\ UNCHANGED <<now, trials, stop, scrape, buffer, answer>>

TakeFailures ==
    /\ work.pc = "failures"
    /\ draft' = [draft EXCEPT !.failures = buffer.failures]
    /\ work' = [work EXCEPT !.pc = "summary"]
    /\ UNCHANGED <<now, trials, stop, scrape, buffer, answer>>

TakeSummary ==
    /\ work.pc = "summary"
    /\ draft' = [draft EXCEPT !.summary = Summary(buffer.samples)]
    /\ work' = [work EXCEPT !.pc = "returned"]
    /\ UNCHANGED <<now, trials, stop, scrape, buffer, answer>>

-----------------------------------------------------------------------------
(* After the lifecycle.                                                    *)

\* verify_lab_artifact: trials and the form of their run_id, telemetry bounds
\* and order, the summary again.
Verified ==
    /\ Len(trials) = TrialCount /\ \A i \in DOMAIN trials : trials[i] \in WellNamed
    /\ Len(draft.samples) <= MaxSamples /\ Len(draft.failures) <= MaxSamples
    /\ \A i, k \in DOMAIN draft.samples :
          i < k => draft.samples[i].at <= draft.samples[k].at
    /\ draft.summary = Summary(draft.samples)

\* It succeeded with its cleanup verified, which takes a result of work(): the
\* artifact is sealed and verified; a refusal is raised.
Seals ==
    /\ work.pc = "returned" /\ answer = "none"
    /\ answer' = IF Verified THEN "published" ELSE "refused"
    /\ UNCHANGED <<now, work, trials, stop, scrape, buffer, draft>>

\* It failed, was cancelled, or could not verify its cleanup.
Withholds ==
    /\ work.pc \in {"returned", "raised"} /\ answer = "none"
    /\ answer' = "withheld"
    /\ UNCHANGED <<now, work, trials, stop, scrape, buffer, draft>>

-----------------------------------------------------------------------------
(* Time.                                                                   *)

\* A thread that waits for something that only time or others bring.
WorkWaits ==
    \/ work.pc = "trial" /\ now < Budget + Overrun
    \/ work.pc = "join" /\ ~Stopped /\ now < work.until
    \/ work.pc = "scrape" /\ scrape["work"].pc = "fetch" /\ now < scrape["work"].until

CollectorWaits ==
    LET c == scrape["collector"] IN
    \/ c.pc = "over"
    \/ c.pc = "fetch" /\ now < c.until
    \/ c.pc = "wait" /\ ~stop /\ now < c.until

Tick ==
    /\ WorkWaits /\ CollectorWaits
    /\ now' = now + 1
    /\ UNCHANGED <<work, trials, stop, scrape, buffer, draft, answer>>

\* What the code's own threads do.
OwnStep ==
    \/ WorkStarts \/ NextTrial \/ TrialsDone \/ Joined
    \/ TakeSamples \/ TakeFailures \/ TakeSummary \/ Withholds
    \/ CollectorEnds \/ CollectorWakes
    \/ \E t \in Threads : ScrapeStarts(t) \/ FetchTimesOut(t)

\* The trial runner, which has a deadline of its own.
RunnerStep == TrialFails \/ \E d \in Digests : TrialReturns(d)

Next ==
    \/ OwnStep
    \/ RunnerStep
    \/ WorkRejected
    \/ \E t \in Threads, S \in SUBSET Series : FetchReturns(t, S)
    \/ \E t \in Threads, e \in {"invalid", "unavailable"} : FetchFails(t, e)
    \/ Seals
    \/ Tick

\* The threads run, the runner comes back, time passes; the metrics endpoint
\* owes nothing.
Spec ==
    /\ Init /\ [][Next]_vars
    /\ WF_vars(OwnStep) /\ WF_vars(RunnerStep) /\ WF_vars(Tick)

-----------------------------------------------------------------------------
(* Properties.                                                             *)

\* Types, and the bounds of the ring buffer (lab_telemetry.py:247 and 258).
OrchestratorTypeOK ==
    /\ now \in 0..Horizon
    /\ work \in [pc: {"start", "next", "trial", "join", "scrape", "failures",
                      "summary", "returned", "raised"},
                 until: 0..Horizon, raising: {"no", "trial", "collector"}]
    /\ trials \in Seq(Digests) /\ Len(trials) <= TrialCount
    /\ stop \in BOOLEAN
    /\ scrape \in [Threads -> [pc: {"none", "loop", "fetch", "wait", "over"},
                               offset: 0..Horizon, until: 0..(Horizon + Interval)]]
    /\ buffer \in [samples: Seq(Sample), failures: Seq(Failure)]
    /\ Len(buffer.samples) <= MaxSamples /\ Len(buffer.failures) <= MaxSamples
    /\ DOMAIN draft = {"samples", "failures", "summary"}
    /\ draft.samples \in Seq(Sample) /\ draft.failures \in Seq(Failure)
    /\ answer \in {"none", "published", "refused", "withheld"}

\* What a sealed artifact claims: as many trials as planned, all of them fit
\* and in one context, no measurement counted twice.  The checks are spread
\* over the iterations of the loop, each against what earlier ones left.
PublishedIsEvidence ==
    answer = "published" =>
        /\ Len(trials) = TrialCount
        /\ \A i, k \in DOMAIN trials :
              /\ trials[i] \in Fit
              /\ ContextOf[trials[i]] = ContextOf[trials[k]]
              /\ trials[i] = trials[k] => i = k

\* A run that the lifecycle let succeed is lost at the very end only for a
\* run_id that nobody looked at before: the orchestrator's own verifier accepts
\* its telemetry.  work() reads the buffer three times, which the collector or
\* the last scrape could be writing, and the verifier recomputes one reading
\* from another.
SealNotRefused ==
    answer = "refused" => \E i \in DOMAIN trials : trials[i] \notin WellNamed

\* "All trials and scrapes share one absolute monotonic run budget": no scrape
\* is waited for beyond it, and work() is over when it ends, or at most the
\* bounded join after the last trial came back.
SharesBudget ==
    /\ \A t \in Threads : scrape[t].pc = "fetch" => scrape[t].until <= Budget
    /\ work.pc \in {"failures", "summary", "returned"} =>
          now <= Budget \/ now <= work.until

\* Whatever the metrics endpoint does, hanging for ever included, the run ends.
RunEnds == <>(answer # "none")

\* "The collector then waits the plan's bounded 1-60 second interval; it is
\* stopped and joined before finalization" (LAB_ORCHESTRATION.md:52-53): trials
\* that were all accepted are not lost because of the collector.
CollectorIsJoined == work.raising # "collector"

=============================================================================
