# TLA+ verification of LLM ServeVerdict

LLM ServeVerdict (`src/serving_verdict`) measures LLM serving endpoints, decides
PROMOTE / REJECT / INCONCLUSIVE on the evidence, and keeps the sealed results.  Much of
it is concurrent or can fail half-way: the Inference Lab, which starts a container and must
always get rid of it; two job managers with worker threads; a Lab run with its telemetry
threads; a benchmark that fires requests from a pool of threads over two endpoints in turn;
a SQLite registry and an archive shared by processes; directories and files that are
published, edited, sealed, signed and read back.  The rest is pure code: parsers, gates,
planners.  This project models both kinds, checks them with TLC and proves the most
important properties with TLAPS for every size of the system.

Sections: [inventory](#inventory), [modules](#modules-and-how-they-follow-the-code),
[runs](#runs-and-bounds), [fairness](#fairness), [proofs](#proofs),
[disagreements](#where-code-and-documentation-disagree),
[what is left out](#what-is-not-modelled), [plan](#plan).

## Inventory

| Component (code) | State | Operations | What is hard | What makes it correct |
|---|---|---|---|---|
| Lab lifecycle (`lab_lifecycle.py`) | the single-flight lock; per call: attempted resources, events, pending error, the caller's cancel event | `execute` | every backend call may raise; cancellation at any moment; BaseException inside `finally`; two threads | one run at a time; all owed cleanup calls are made; a result only after verified cleanup; a cancellation seen is never lost |
| Docker backend (`docker_lab_backend.py`) | handles of the network and the container it created | nine methods behind the lifecycle | lost replies, commands carried out late, stale handles, the published port of another run | SUCCEEDED leaves nothing on the daemon; work sees its own endpoint only; wedged handles fail closed |
| Lab jobs (`lab_jobs.py`) | retained jobs, the pool's queue, per job: state, events, cancel flag, result, callbacks open | `start`, `get`, `cancel`, `_run` with `progress` and `live` | jobs lock vs. job lock, leaked callbacks, eviction, terminal precedence, event bound | one active job; no result of a cancelled or unclean job; finished jobs are frozen; events in order; every job ends |
| Automation jobs (`automation.py`) | the same, smaller | `start`, `get`, `cancel`, `_run` | the same | the same contract |
| Lab orchestrator, telemetry (`lab_orchestrator.py`, `lab_telemetry.py`) | trial digests, sample buffer, collector and fetch threads | `execute` with its `work` | deadline budget, abandoned fetch threads, join timeout | distinct trials with one context; three readings of one buffer that agree; nothing waits beyond the budget |
| Trial store (`trialstore.py`) | tables `trials` and `trial_events`, open transactions | `register_bundle`, `reindex`, queries | check-then-insert without a transaction, partial commits of `reindex`, several processes, kills | history only grows; the state row names the newest event; `reindex` sweeps exactly |
| Archive and `import-case --archive` (`archive.py`, `cli.py`) | objects by digest, one `.part` per digest, manifest, bundle | `put`, `_archive_evidence`, `_cmd_import` | source read three times, shared temporary name, kills | an object has the hash that is its name; manifests are backed by objects |
| SSE parser (`sse.py`), transport (`transport.py`) | the pending event, usage, first-token time | one stream, one request | several lines make an event and one line may; the end marker; socket errors in the middle | a measurement only of a complete stream, with the usage of its last chunk |
| Benchmark runner (`benchmark_runner.py`) | phase, measurements, pool, barrier | `run_quick_benchmark`, `_run_concurrency_group` | two nested timeouts, a pool that cannot be left before its threads | every request accounted for; the group starts together or the run fails |
| A/B experiment (`ab_experiment.py`, `statistics.py`) | runs of both arms, the context, the manifest | `run_ab_experiment`, `write_ab_experiment`, `load_and_verify_ab_experiment` | arms must not load the endpoint together; the order of gates; publication by rename; reading while the directory changes | complete evidence, an earned decision, a manifest that verifies, all or nothing on disk |
| Case import (`engine.py`, `evidence.py`, `adapters.py`, `caseconfig.py`) | files of the source root, the case, the bundle | `import_case` | evidence is hashed and then read again; the order of the rules; zero and missing values | a promotion is exactly what the bound evidence deserves |
| Bundles (`bundle_v04.py`, `signing.py`, `ci_gate.py`) | one file, trust stores | build, sign, verify, gate | any order of edits, sealings and signings; which check is asked for | exit 0 only for a sealed verdict, signed when a signature is demanded |
| Replay (`replay.py`, `replay_gate.py`) | artifacts of two replays | `run_replay`, `ReplayGate.evaluate` | executors that fail or answer nonsense; zero baselines; direction | a PASS vouches for clean, comparable replays |
| Planners (`compare.py`, `pareto.py`, `sweep.py`, `capacity.py`) | none | pure functions | direction, dominance, boundaries | the definitions they are named for |
| Documents (`canonical.py`, `artifact.py`, `experiment_artifact.py`, `workload.py`, `summary.py`, `lab_planner.py`, `lab_templates.py`) | none | build, seal, verify, parse | canonical form | a tampered document is refused |
| Surfaces (`server.py`, `cli.py`, `web/`, `doctor.py`, `hwprobe.py`, `advisor/`, `demo.py`, `runner.py`) | none of their own | routes, commands, probes | object hashed then read again | fixed error categories |

Interactions: the server's routes call the two job managers and the store; a Lab job's
executor runs the orchestrator; the orchestrator runs its trials as the `work` of the
lifecycle; the lifecycle drives the Docker backend, which runs `docker` commands; a trial is
one run of the benchmark, which measures one stream per request; an A/B experiment runs the
benchmark against two endpoints in turn and publishes a directory; `import-case` calls the
engine and the archive and writes a bundle, which is signed and gated by later commands, and
which the store indexes.

`PROJECT.json` lists every component with its status, and under "hazards" each thing that
is hard to test, at its line, with the properties that cover it.

## Modules and how they follow the code

### The Lab

**LabLifecycle** is `LabLifecycle.execute` for a set `Runs` of calls.  `lock` is
`_active_lock`, `cancel` the runs whose event is set, `run[r]` the local variables of the
call (`pc` is the next statement; `attempted`, `cleanupOk`, `error`, `base` and `events`
are the variables of that name, `calls` the cleanup calls made), `outcome[r]` what the
caller got.  One action per backend call and per check of the cancel event.  A call ends
`"ok"`, `"exception"` or `"base"` (a BaseException).  A BaseException is considered where
foreign code runs, in calls, not between two statements.  `CleanupInterrupts` says whether
it can happen inside a cleanup call.

**DockerBackend** holds the handles (`containers`, `networks`) and an external daemon
(`net`, `ctr`, `hostPort`, the commands in `late`).  Each method is an operator with the
end of its call as a parameter: an exception can mean that the command had no effect, that
it had its effect and the reply was lost, or (with `LateEffects`) that the daemon carries
it out later.  Handles are set and deleted only after a confirmed reply, as in the code.  `wait_ready` is a
loop: `probe` is a turn of it that nobody answered well, which moves `elapsed` on towards
`ReadyDeadline`; the call returns for an answer to a probe sent before the deadline, and raises at
the deadline, without a container or port, or for a reply that is no HTTP (such an exception is none
of those the probe catches).
**DockerLab** composes: each statement of the lifecycle together with the backend method it
calls.  `ImplementsLifecycle` is the refinement, by identity on the lifecycle's variables; that a
composed step is a lifecycle step holds by construction, so what it says is that no backend method
keeps a run from going on.

**JobContract** is the abstract promise of both job managers: at most one open job, a
cancelled job never publishes, a closed job stays closed with what it shows.
**LabJobs** and **AutomationJobs** are the managers with their locks' critical sections as
actions; a `cancel` is two actions because the lookup and the update take different locks
(`asking` holds callers in between).  `start()` of the Lab reads `job.state` without the
job's lock; a state is written in one assignment, and the only transition that matters,
into a terminal state, can be moved after the read, so the read and the insertion are one
action.  `open[j]` is `callbacks_open`: `progress` and `live` may be called by anybody, at any
time, as long as it is set.  Both map to the contract with `INSTANCE JobContract WITH`.

**LabOrchestrator** is `LabRunOrchestrator.execute` with the `work` it hands to the lifecycle.
`work.pc` is the next statement of `work`, `trials` is `trial_refs`, `stop` the event, `buffer` the
`TelemetryBuffer`, `draft` the dictionary `work` returns, built by three readings.  `scrape[t]` is
what a thread does in `scrape_once` (and the collector in its loop): the collector and `work`
itself use the same function.  An artifact is its digest; `Fit` says that it passes the checks
of lines 570 to 585, `ContextOf` is its context, `WellNamed` that its run_id has the form the final
verifier asks for.  A snapshot is a set of series; the summary is what can differ between two
readings, the count and the newest offset of a series.  Time is whole seconds with maximal
progress: `Tick` needs every thread to be waiting, so a thread never dawdles and a timed wait ends
when it is over or exactly at its timeout, in either order with an answer of the same second.  A fetch
thread that was given up is no state: what it writes goes to a dictionary nobody reads.
The lifecycle between `work` and the sealing is `Seals` (it succeeded) or `Withholds` (any other
end, also after `work` returned).

### The stores

**TrialStore** has one record of local variables per process and one action per SQL
statement or commit.  `db` is what is committed, `draft` what the writer's open transaction
shows, `writer` who holds it: Python's sqlite3 opens a transaction at the first writing
statement, so `reindex` stays in one from its first invalid bundle to the commit of the next
registration, and a read sees the draft only on the writer's connection.  A writer that finds the
database locked waits (the action is disabled) or fails (`DatabaseLocked`).  A bundle is a
digest; `CaseOf` is its case; a file holds an intact bundle, a bundle of a case
that fails verification, garbage, another document, or is absent.  `Edit` is whoever writes
the directory.  Registering an invalid bundle raises before any statement, so it is no action.
The number of processes of a behaviour is chosen in `Init`; `calm` is a record of the model, not of
the code: it says that nobody disturbed the `reindex` under way.

**Archive** is `import-case --archive` with `ArchiveStore.put` inside.  A file is the
sequence of chunks written to an inode, so truncation by another writer, a rename of an
inode still being written and a change of the source between two reads are all visible.
The hash is modelled by what it decides: a file has the digest `d` exactly when its chunks
are all of `d`.

### The benchmark and the experiment

**StreamMeasure** is one streamed completion as data: `ReadStream` takes in the lines of a reply
through the framing of `_parse_sse_events` (several `data:` lines may make one event) and
the validation of `measure_sse` into a state; `Measure` makes the measurement that
`_run_one_request` returns, with the status a timeout, a refusal or an error reply gets.
The module is a library of operators without state.

**BenchmarkRun** EXTENDS it with one run of `run_quick_benchmark`: `phase` is where the main
thread is, `outcomes` the measurements it made of each kind.  The concurrency group is the part
with threads: `pool` is the main thread in the `with ThreadPoolExecutor` block (submit, collect,
close), `worker[w]` a thread that has started, waits at the `threading.Barrier`, sends, or has ended
with an answer or a broken barrier.  `BarrierTimesOut` may happen at any time a thread waits; a
result that is not there in time makes the main thread raise (`pool.raised`), but it leaves the
block only through `PoolIdle`, when all threads have ended, because that is what leaving an
executor does.  Every step that waits for a reply (`Preflight`, `SerialRequest`, `Answered`, the probe in
`ProbeAndSeal`) may also never happen.  `artifact` is what `ProbeAndSeal` seals from the measurements.

**ABExperiment** EXTENDS BenchmarkRun with `run_ab_experiment`: `exp` says which trial and
which run of it is next; the arm that goes first alternates.  The steps of the benchmark are taken while
`exp.pc = "running"`.  `context` is `expected_context`, `result` the manifest with its decision
(`HardGate`, then the statistics of `evaluate`), which is verified before it is returned.  The seeded
bootstrap is a choice among all intervals whose ends are resampled effects.

**ExperimentDir** is the directory the experiment is published in: each file operation of
`write_ab_experiment` is a step, any of them may fail (a write leaves a part of its file) or be the
last of its process (`Crash`); the destination is taken by the rename of a temporary directory, which
fails when something other than an empty directory is there.  `reader` is
`load_and_verify_ab_experiment`, one read per step, while an operator may remove, empty or edit
the directory in between.  A file's content is the writer whose
experiment it belongs to, `"broken"` (not JSON) or `"edited"` (JSON that no digest covers).

### The offline tools

**Medians** says what a median is.  **VerdictEngine** is the pure part of the decision: the
adapters' samples with their fallbacks and medians, the gates with their authorities, `decide` with its rules in order.  **CaseImport** is
`import_case` around it, one step per file access (the attested evidence is hashed and then read like
that of the sides), while `Rewrite` changes a file of the source root; `edits.torn` is set when a
rewrite falls between the hash and the read of that file.

**SealedBundle** has one bundle in a file.  A digest, or a signature, is the payload it was computed
from, so it verifies exactly when the payload is still that.  `Edit` changes the payload, `Reseal`
computes the digest again, `Sign` signs, `Strip` removes the signature, `Spoil` breaks the document.  `Verification` and `Gate`
are the verification and the exit code for every trust store and option of the caller; they change
nothing and are evaluated in every state by the property.

**ReplayRegression** is `run_replay` for one arm after the other, with an executor that returns
any of `Answers` or raises, then `ReplayGate.evaluate`.  **Planning** has the pure planners as operators: the
memory plan with its utilization rounded to millionths, trials by their ids (two may have equal
values), comparisons with the thresholds as configured.

**Offline** composes CaseImport, SealedBundle, ExperimentDir and ReplayRegression: they are
separate commands without shared state, so a behaviour is the work around one of them (`tool`), and
the variables of the others stay at one value.

Operators named `X_something` next to an operator `X` are variants with a deliberate fault;
no specification uses them; they show that the property they are paired with in
`PROJECT.json` can fail.

## Runs and bounds

Deadlock checking is off in every run: a finished set of calls is a legitimate end.

| Run | Shows | Instance, and why it is enough |
|---|---|---|
| `docker_late` | single flight, complete finalizer, earned results; SUCCEEDED leaves nothing for ever; work sees its own endpoint | two runs, so that leftovers of one meet the other and a second call is refused or comes next; every end of every call, lost replies, late effects, dying containers, interrupts; symmetric runs |
| `docker_lost` | verified cleanup in every terminal state, stale handles fail closed, no lost cancellation, every call returns from its readiness loop, refinement with fairness | the same without late effects, under which `VerifiedLeavesNothing` does not hold (a late create of a FAILED run), and without interrupts inside the cleanup, which `docker_late` and the theorems have |
| `lab_jobs` | one active job, result exposure, event order, frozen ends, the job contract, every job ends | two jobs with a retention bound of one, so that the second start evicts; four events so that the bound is hit; a phase to go forward to and one to go back to |
| `automation` | the same contract; every job ends | three jobs, bound of two |
| `store` | append-only history, rows that match it, a digest at most once per process, exact sweep | two processes with one edit of the directory, or one with three; three bundles of two cases, two files, busy errors and kills.  Two bundles of one case make a row move on; two files make a case lose one name and keep another |
| `archive_alone` | objects match names, manifests are backed, aborted puts clean up | one import of two files, three changes, reruns after kills |
| `orchestrator` | published artifacts are evidence, the verifier does not refuse, the budget, the run ends | two trials of five artifacts (unfit, drifted, malformed run_id, two good ones), a budget of 7 s and an interval of 6 s, so that the collector scrapes twice, is abandoned, or outlives its join; two samples in the buffer and one series allowed of two, so that it overflows and refuses |
| `experiment` | complete evidence, arms apart, earned decisions, a manifest that verifies, the experiment ends if every reply does; before the run, every stream of up to five lines is read as the grammar of a complete stream says | two trials (the least the code takes), so both orders of the arms occur; one request of each kind; a group of two threads, so one can wait at the barrier, break it, and be late alone; endpoints that answer right, wrong, without usage, in pieces, not to the end, or not at all; a candidate that may report another model |
| `offline` | promotion as deserved, backed gates, whole directories, clean replays; before the run, the planners against their definitions | imports of 14 contents around every threshold, with three of them for the baseline and two for the attested file (one that does not decode), and one rewrite at any step (one is enough to come between hash and read); three edits of a bundle, so that it can be edited, sealed again and stripped, with two keys and two signers; two processes that publish to one directory, one with statistics and one without, and three operator changes, so that it is removed and replaced while it is read; replays of two requests with eleven answers |

Three runs are disagreements, listed [below](#where-code-and-documentation-disagree).
In both Docker runs `ReadyDeadline` is 2, so that a probe can fail, be repeated, and be the last
before the deadline.  `MaxEdits`, `MaxFileEdits`, `MaxChanges`, `Inodes`, `Overrun` (seconds a trial overstays) and
`MaxUpdates` bound the exploration; `MaxSamples`, `MaxSeries`, `EventBound`, `Walls` and the
times stand for larger bounds of the code.

Pure code is checked by ASSUMEs that TLC evaluates at the start of a run, against a
definition that does not follow the code: `StreamsAreReadRight` (MCABExperiment; the streams are
compared with a grammar of what a complete stream is), `FrontierIsRight`, `CapacityIsRight`,
`SweepIsRight` and `ComparisonIsRight` (MCOffline).  In the same way `Deserves` states what a
promotion is without the order of the rules, and `ReplayPassIsClean` what a PASS vouches for
without the list of reasons.

## Fairness

`LabLifecycle` assumes weak fairness of each call's own steps (`Progress(r)`), the composition of
what a call does undisturbed (`UndisturbedStep(r)`): a thread inside `execute` runs on, every
docker command has a timeout that kills its client, `work` is given a deadline (that it keeps it is an
assumption about the interface), and a probe that nothing answers times out.  It is not
assumed that a BaseException ever comes.  A probe is not bounded when the served model trickles its
reply, because its timeout is one per socket read (`docker_lab_backend.py:67-75`): no fairness is
assumed of a run in that state (`InProbe`), and `ExecuteReturns` and `ImplementsLifecycle` except
the behaviours that stay in it for ever.
`LabJobs` and `AutomationJobs` assume weak fairness of the worker thread per job: the pool has one
thread that takes what is queued, and an executor is bounded by deadlines.  Clients, callbacks,
cancellations and the daemon owe nothing.  `LabOrchestrator` assumes it of the code's own threads,
of the trial runner (it is given a deadline; its overrun is bounded) and of the clock; the metrics
endpoint owes nothing and may hang for ever, which is what `RunEnds` is about.  `ABExperiment`
assumes it of the main thread between requests (`ExperimentStep`, `PoolStep`), of each thread on its way
to the barrier (`Arrive`) and of the two timeouts (`TimerStep`): these wait for nobody outside the program.
It assumes nothing of a request under way.  The timeout of a request is one per socket read
(`transport.py:53,96`), there is no overall deadline and no bound of the comment lines
(`sse.py:125`) or of what the error probe drains (`benchmark_runner.py:420`), so an endpoint that
trickles keeps its request for ever; and leaving the pool after a timeout waits for that
thread (`benchmark_runner.py:225-231`).  `ExperimentEnds` therefore says that the experiment
ends unless some request is under way for ever (`Requesting`): it never waits on itself, at its barrier or in
its pool.  Nor is it assumed that a thread can be started.  The stores and the offline tools have no fairness and no liveness property: a process may
be killed at any statement.

## Proofs

Eight modules hold theorems; every invariant and action property of the passing runs is one of
them.  The assumptions are the named ASSUMEs on constants, and one hypothesis in Archive.
Those that the code has to justify: there are finitely many processes (`ProcsAssumption`); documents and policies are what the loaders let through
(`ContentsAssumption`, `PoliciesAssumption`); a usage that is read has counts
(`RepliesAssumption`, `sse.py:244-257`); a served model is a value, and `None` stands for no
context yet (`ServedAssumption`); an executor returns a `RawExecutionResult`
(`AnswersAssumption`); a workload has a case (`CaseCountAssumption`, `workload.py:242-244`).

**DockerLab_proofs** is about the lifecycle, first over any backend, then over Docker.  For any
set of calls it proves type correctness, `SingleFlight`, `FinalizerComplete`, `ResultIsEarned`
and `CancelIsNeverLost`.  The first two are inductive with the types.  The next two say what a
finished call *did*, and need `ResultInv`: it relates, at every statement, the events so far to
a prefix of `FullTrail` (`Trail`), unless something has gone wrong (`Unspoilt`), and during
cleanup the calls made to those still owed (`Remaining`); a call that is over keeps what it
made.  For the last one, a cancelled run without a result (`Doomed`) stays one, because only the
check after `work()` sets a result, and `ResultIsEarned` ties success to a result.

Each composed statement implies the lifecycle's statement, by construction (`LifecycleStep`), and time
that passes in `wait_ready` changes nothing else (`StepCases`); this carries those four properties
over.  Its types, and every other property the two Docker runs check:

- `SuccessLeavesNothing`, from `IInv`: an abandoned creation in `late` belongs to a marked, that is
  failed, run (`LateInv`); a SUCCEEDED run is done and unmarked (`OutcomeInv`); a run that
  succeeded, or is about to return unmarked with its cleanup confirmed, owns nothing
  (`SettledInv`).  Late effects can then touch only runs that do not succeed.
- `WorkSeesOwnEndpoint`, from `EndpointInv`: what the calls that returned have made is there and the
  handles name it (`OwnInv`); a handle is of a run at work or past its work (`HandleInv`); an
  abandoned removal is of an object whose run has begun its cleanup (`RemovalInv`), so it cannot
  reach the run at work, which by single flight is the only one.
- `VerifiedLeavesNothing`, from the hypothesis `~LateEffects` and `PromptInv`.  Without the
  hypothesis it does not hold.
- `StaleHandleFailsClosed`, from `StaleInv`: an abandoned creation is of an object nobody holds
  (`HandleLate`), so a stale handle stays stale (`StaleStays`), and a run that starts under one stays
  on the near side of its first refused creation (`Refused`).  The run checks it without late
  effects; the theorem holds with them too.

**LabJobs_proofs** proves, for any set of jobs, retention bound, event bound and executor, type
correctness with the retention bound, `OneActive`, `ResultExposure`, `TerminalFrozen`,
`EventsInOrder` and the contract (`KeepsContract`).  `OneActive` is not inductive: `start` looks at
the retained jobs only, so what makes it right is `JobsInv`: an unfinished job is always retained
and alone (`ActiveKept`, `ActiveAlone`); whatever is queued or executing is unfinished, and the
queue holds at most that (`WorkActive`, `QueueQueued`, `QueueShort`); an identifier nobody drew is
unknown to everybody (`NewUnknown`, `KeptStarted`); callbacks are open for the unfinished job only
(`OpenActive`, `OpenQueued`); and every job has earned what it shows (`AllEarned`).  Eviction
(`EvictedFacts`, `InvStart`) is the delicate step: it drops the oldest retained job, which is
harmless because none of them is unfinished at that moment.  For the refinement, an action that
moves the unfinished job is `AskCancel` or a stutter (`ContractMove`), one that ends it is
`Close` (`ContractEnd`), and `Start` is `Submit`.  `EventsInOrder` needs `LogInv`: the last logged
event may be behind the state but never ahead of it, callbacks are silent after a cancel request,
and a queued job nobody cancelled is PLANNED.

**AutomationJobs_proofs** proves that the other manager implements the same contract, for any
jobs, bound and runner, from the corresponding `ManagerInv`, which has neither callbacks nor a log.

**LabOrchestrator_proofs** proves, for any plan, budget, interval, set of artifacts and series, and any
timing of runner and endpoint, type correctness with the bounds of the ring buffer,
`PublishedIsEvidence`, `SealNotRefused` and `SharesBudget`.  The invariant `OrchInv` says why the three
readings agree: from the join on the collector is over (`ThreadsInv`), the last scrape is over before
the first reading, so no thread is fetching and the buffer stands still (`DraftInv`); and at
any time at most one thread fetches, with an offset no older than any sample (`BufferInv`), so
that the samples stay in the order the verifier asks for (`AppendingFacts`, on the bounded tail of a
concatenation).  `StillFacts` and `FetchedFacts` split the steps into those that leave the buffer
alone and the ends of a fetch.

**TrialStore_proofs** is about any processes, files, cases and bundles.

- `AppendOnly` and `RowMatchesHistory`, from `StoreInv`: committed tables and the open
  transaction's tables both match their history, and the draft has the events of the committed
  tables.  That last part makes the history append-only: only the insertion of an event extends it,
  and it commits at once, while the updates that stay in a transaction (`WithInvalid`,
  `WithMissing`) leave events alone, so neither a rollback nor a commit can take one away.
- `RepeatsBounded`, from `RepeatsInv`, which counts: the places of a digest in the history, and the
  processes that found it unrecorded and have not inserted it yet, are together no more than the
  processes there are.  A process joins the second group only while the first is empty.
- `ReindexSweeps`, from `SweepInv`: while nobody disturbs it, what a `reindex` has seen is on
  disk and has a row in the tables it works on, what is still to do completes what is on disk, and at
  its end the rows left to mark are exactly those whose case it has not seen (`Right`).

**Archive_proofs** proves `AbortLeavesNoPart` for any imports, and that whatever a manifest lists is
stored under its name (`ListedInv`: objects are only ever replaced).  `ObjectsMatchNames` and
`ManifestIsBacked` have the hypothesis `[]NeverMeet`, that no two imports put one content at the same
time.  Without it they are false: the run `archive_shared` has the counterexample.  `LoneImports`
discharges it where one import runs at a time, for any number of files, kills and changes.
The argument (`NamesInv`, `PutInv`): the file an import fills is the one called `.part`, no
other import has that name in hand, and no file has two names; so what `put` renames is what it
hashed.

**ABExperiment_proofs** is about any plan, replies, served models, number of trials and threshold.

- `EvidenceIsComplete` and `ArmsDoNotOverlap`, from `RunInv`, which counts: in a phase, the kinds
  before it (`Rank`) have all their outcomes, those after it none (`Progress`); when the main thread
  is outside the pool no worker is busy, and as soon as one is past the barrier all are
  (`Threads`).  The group's outcomes come from the answers of its threads when the pool has closed
  without an exception; `CloseKeeps` is the step where both meet.
- `ManifestVerifies`, from `Underway`: at each step both arms have the runs the alternating order
  says, all in one context, so the manifest is never refused by the check it ends with.
- `DecisionIsEarned` needs what the artifacts' numbers are (`Measuring`): a stream that is read
  gives a count (`StreamUsage`), a group adds up to an integer (`TokensAreInt`), and a sum of a
  resample is the sum of some draws (`ResamplesAreDraws`).  Whether an effect meets the threshold is
  linear in the sums, so if some resample meets it, some single pair of runs does
  (`SomePair`), and that is the evidence the property asks for.

**Offline_proofs** is about the composition `Offline`, for any documents, policies, keys, signers,
bodies, writers and answers, and any number of edits.

- `PromotedAsDeserved`, from `ImportInv`: as long as no file changed between hash and read, what
  was read is what the case binds, and an attested gate counts only when the bound attestation
  proves it (`Proven`, which looks at the case alone, not at what the import found).  The rules in their order then give
  what `Deserves` says without an order; this takes the facts about medians, that they are
  natural numbers and exist (`Ranked`, by the order of a finite set).
- `GatePassIsBacked`, from `Provenance`: whatever digest the file shows some producer computed, and
  whatever signature it shows some holder made (a digest can be carried over, not invented).  A
  signature is asked for by the flag or by the store's policy, and checked when there is one and a
  store; an unsigned bundle passes a store that only has keys.
  `VerificationSound` and `GateSound` follow the code's tables case by case.
- `PublishedIsWhole` and `LoadedIsWhole`, from `DirInv`: a temporary directory that can still be
  renamed contains its writer's files only, whatever the reader holds of a writer's experiment
  that writer has published, and the reader's set of files is at every step what the manifest it
  read names.
- `ReplayPassIsClean`, from `ReplayInv`: both artifacts have an entry for every case, and a
  ruling is their evaluation.  The property states the limits as shares (at most 1% of the requests
  failed, at most 5% of those with tools erred).  That none failed is what these come to for a
  few requests only, so it is no theorem: with 100 or more requests one may fail.
- `FrontierIsRight` and `CapacityIsRight`, the facts about the planners which the run `offline` evaluates
  over small inputs, for all inputs: domination is a strict order (`DominationIsOrder`), and of the
  finitely many trials above a dominated one, one that fewest dominate is on the frontier; and FIT
  is said exactly below 0.8500005 of the memory, not 0.85, because of the rounding.

Recursive functions (`TokensOf`, `Resamples`, `ReadStream`) are proved about by induction on a
length, as the absence of a least counterexample (`WFMin` of WellFoundedInduction), because the
library's induction theorems take an operator as a parameter.  A fold gives no such handle, so
these three are recursive functions.

Model-checked only: liveness (`ExecuteReturns`, `JobsEnd`, `RunEnds`, `ExperimentEnds`) and with it
the fairness part of `ImplementsLifecycle`, as the prover has no rule for fairness; and the other
ASSUMEs about pure functions of Planning and StreamMeasure, which compare two definitions over
bounded inputs.

## Where code and documentation disagree

Three have a run whose counterexample is the behaviour; `PROJECT.json` quotes both sides.

- `orchestrator_join`: a fetch may take a whole interval, but the collector is joined for
  min(5, interval + 2) seconds; with an interval above five seconds a slow metrics endpoint fails a run
  whose trials were all accepted (`lab_orchestrator.py:524,600`; `docs/LAB_ORCHESTRATION.md:52-53`,
  and `tests/test_lab_orchestrator.py:449` expects a hanging endpoint to do no harm).
- `archive_shared`: two imports of one content share its `.part`; one truncates it after the
  other verified it, and the object put in place is wrong (`archive.py:14-17`).
- `replay_direction`: the relative limits of the replay gate follow the sign of the change, although
  `replay_gate.py:7` calls them direction-aware: a candidate that decodes a tenth slower than its
  baseline passes, one that is a tenth faster fails (`replay_gate.py:266`).

The models also contain these behaviours, which weaken what the properties above say; none
of them is hidden by a guard of the models:

- a BaseException inside a cleanup call skips the later ones, although `docs/LAB_LIFECYCLE.md:44`
  says that it "still executes the finalizer" (`CleanupCall`, `Escape`; `FinalizerComplete`
  is about calls that return a result);
- a 65th event is logged when an executor raises, or a queued job was cancelled, after 63 repeated
  cancel requests, although `docs/LAB_LIVE_API.md:57` promises at most 64 (`ExecutorRaises`,
  `RunCancelled` append without looking at the bound, so `LabJobsTypeOK` states none);
- a job whose executor or runner raises a BaseException stays open for ever, and no other can start
  (`ExecutorVanishes`, `RunnerVanishes`; `JobsEnd` excepts exactly these jobs);
- a trial whose run_id is malformed passes `verify_artifact`, whose comment promises a check of it
  (`artifact.py:164`), and is refused after everything else succeeded (`Verified`; hence the
  condition in `SealNotRefused`);
- a fetch that times out is recorded as "unavailable": the category "timeout" of
  `docs/LAB_ORCHESTRATION.md` is never used (`FetchTimesOut`);
- a run cancelled after the pull or at readiness ends CANCELLED without a CANCEL_REQUESTED
  event, and a cancellation requested during cleanup is never looked at, so that the run succeeds
  (`CheckPulled`, `CheckReady`, `RequestCancel`; hence the condition in `CancelIsNeverLost`);
- a create whose reply was lost leaves no handle, so stop and remove have nothing to act on
  and `verify_absent` reports the leftover (`create_container`, `stop_container`);
- a file that does not parse ends `reindex` with UnboundLocalError, because the name in its
  `except` clause is bound in another branch (`trialstore.py:300,311`; `LoadFails`);
- two processes that look a digest up at the same time both record it (`CheckDigest`,
  `InsertRow`; hence `RepeatsBounded`), and a sweep with an old listing marks a case missing that
  another process registered meanwhile (`trialstore.py:308`; hence `calm` in `ReindexSweeps`);
- an invalid or missing row stays so when its bundle is intact again (the early return at
  `trialstore.py:385` skips the state row), and a valid row whose file is gone stays valid while
  another file names its case, as the sweep knows case ids only (`CheckDigest`, `Sweep`);
- evidence that changes between the comparison with the bound hash and the second reading is
  archived and listed as it is then (`Load`, `Hash`), and decided on under the old hash
  (`evidence.py:100`; `ReadSide`, hence `edits.torn` in `PromotedAsDeserved`); a file that
  disappears in between escapes as an OSError;
- a policy threshold that is NaN is accepted, though its message says ">= 0"
  (`caseconfig.py:91-94`), and switches its rule off (`engine.py:230,253`: `GainBelow`, `Ruling`;
  `PromotedAsDeserved` says so, and `offline` has such a policy);
- an endpoint that never ends a reply keeps the experiment for ever, also after the wait for its result
  has timed out, as the pool waits for its threads (`Answered`, `PoolIdle`; hence `Requesting` in
  `ExperimentEnds`);
- a container that trickles its reply keeps `wait_ready` past its deadline and the lifecycle's lock with
  it, and one whose reply is no HTTP ends `wait_ready` with an exception the probe does not catch (`InProbe`,
  `wait_ready`; hence the exceptions in `ExecuteReturns` and `ImplementsLifecycle`);
- a memory plan rounds the utilization to six digits before it compares it with 0.85, so a load of
  up to 0.8500005 of the memory is FIT, while `capacity.py:22-23` says RISK for what exceeds 0.85
  (`Millionths`; `CapacityIsRight` states the bound of the code);
- `compare.py:14-15` says that any regression or tie on the quality metric is a REJECT; the code compares
  with the configured threshold, so a tie passes a threshold of zero and a regression passes a
  negative one (`MeetsGate`; `ComparisonIsRight` has such a gate);
- a trust store that only has keys lets an unsigned bundle pass the gate (`SignedVerification`; hence the
  condition in `GatePassIsBacked`);
- a baseline without a successful request has no medians, and the metric rules of the replay gate
  are skipped for it (`Typical`; hence the condition in `ReplayPassIsClean`);
- the relative limits fail a change in the good direction too: first tokens more than a fifth sooner, or
  a decode rate more than a twentieth higher (the far bounds of `ReplayPassIsClean`).

## What is not modelled

- Statistics beyond `evaluate`'s verdict: percentiles and the seeded generator compute
  with floats; the verdict is checked for every interval the resampling can give.
- Serialisation, hashing and cryptography: a digest or a signature is what it was computed from.
  The artifact builders (`canonical.py`, `artifact.py`, `experiment_artifact.py`) seal
  dictionaries, and where they are used an artifact is intact or not.  Signed evidence envelopes:
  no bundle here carries one.
- Third-party formats: the group blocks of the built-in schemas, the SDK and the parsers of other
  tools' files are translations of one dictionary into another.
- `lab_planner.py`, `lab_templates.py`, `workload.py`, `summary.py` and `runner.py`: validation and
  parsing without state.  They enter as constants (a plan, a workload hash, a number of cases).
- `server.py` and the web page: each route is one call of a manager or of the store, which are
  modelled, and the rendering of what it returns.
- `doctor.py`, `hwprobe.py`, `advisor/`, `demo.py`: read-only probes and tables of advice.
- Within the modelled parts: wording of errors, the argument lists of docker commands, telemetry
  payloads, prompts, redirects and byte decoding, the search of an experiment's artifacts for literal
  API keys (`ab_experiment.py:268`, a rejection before a run counts), and path and size checks that
  reject before any state changes.

## Plan

Done: (1) LabLifecycle, DockerBackend, DockerLab; (2) JobContract, LabJobs, AutomationJobs;
(3) TrialStore; (4) Archive; (5) LabOrchestrator; (6) StreamMeasure, BenchmarkRun, ABExperiment,
ExperimentDir; (7) Medians, VerdictEngine, CaseImport, SealedBundle, ReplayRegression, Planning,
Offline; (8) theorems for every safety property the runs check, and for the
frontier and the memory plan of Planning.

What could follow, in order of importance:

9. The same for the rest of the pure code: that every trial of a sweep differs from its baseline in
   one parameter, and that a comparison promotes exactly what meets its gates.
10. LabOrchestrator with LabLifecycle in one composition, in which `Seals` and `Withholds` are the
    ends of the lifecycle's own call.
11. The group blocks of the adapters and the percentile rules of the summary as operators with
    reference definitions.
