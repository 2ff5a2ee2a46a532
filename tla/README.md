# A verification of adaptive-llm-serving

The repository is a laboratory for LLM serving: a dynamic batcher with a
discrete-event twin, an online serving loop with threads, a round-robin gateway,
a lifecycle manager for a vLLM server, load generators, and studies that drive
them and validate what they recorded.  This directory holds TLA+ models of its
control logic, the TLC runs that check them on small instances, and proofs that
TLAPS checks for every value of the constants.

`PROJECT.json` is the index: which module stands for which source file, which
lines each definition translates (`map`), what each run checks (`runs`), one
plausible bug per property that the run detects (`mutants`, kept in the modules
as `Definition_Bug` operators next to the definition they break), the
disagreements between the code and what is said about it (`findings`), the
places where the code is hard to test (`hazards`), and the main theorems.

## 1. Inventory

Paths are relative to the directory of the sources.  "Correct" says what the component
owes the others.

| Component | State | Operations | Hard behaviour | Correct means |
|---|---|---|---|---|
| Batch scheduler `src/src/dynamic_batcher.py` (`VirtualTimeScheduler`) | bounded FIFO queue, clock that cannot go back, batch ordinal, closed flag, next window | `submit`, `advance_to(now, available_slots)`, `close`, `next_wakeup_ns` | three policies; partial progress when slots run out; windows that pass while the worker is busy | FIFO, exactly once, bounded batches; the announced wakeup is exactly when a batch can be formed |
| Trace driver `schedule_trace` (same file) | position in the trace | replays a trace through the scheduler | ties between arrivals and deadlines | all requests batched, none dated back, termination |
| Simulated case `simulate_case` of `src/src/serve_week03.py` | virtual time, scheduler, waiters with deadlines, formed batches, the worker | one event loop | simultaneous events; capacity shared by queue and formed batches | the worker never idles beside work, deadlines kept, rows that the validator accepts |
| Online case `run_online_case` (same file) | three queues, three threads, `in_flight` token, scheduler, waiters | producer, coordinator, worker | races of completions, wakeups, arrivals, the clock and the flush | one batch out, who is due enters before the flush, own deadlines, termination |
| Case store and matrix `run_matrix`, `_commit_case`, `_rebuild_aggregates` (same file), `common.write_json`, `week03_contract.validate_case_artifacts` | case directories, aggregates, manifest | run, validate, commit, resume | a crash between any two writes | a case marked complete is one execution's data, and is not repeated |
| Round-robin gateway `src/src/rr_gateway.py` | endpoint list, index, epoch, sequence; draining; one record per request | `update`, `select`, `discovery`, `proxy`, `cleanup` | tasks interleave at awaits; cancellation anywhere; failed discovery | the log passes `analyze_routing.rr_verdict`; completed means complete |
| vLLM lifecycle `src/scripts/start_vllm.py` | PID record, lock, evidence files | start, wait, stop, status | concurrent invocations, dead leaders, pids and ports that somebody else takes, a crash between TERM and record | one server per record, nothing foreign is signalled |
| Process watchdog `src/src/process_watchdog.py` | child process group | run with a timeout | exit racing TERM, KILL, interrupts | the group is gone and the outcome is what happened |
| Week 4 run `src/scripts/run_week04.sh`, `benchmark_vllm.sh`, `week04_lifecycle.py`, `verify_week04.py` | status file, results, markers, locks, analysis and report | the GPU phase and its trap, benchmarks, analysis, verification | signals, preemption, an operator at the same server | what says ready verifies; results of one server |
| Stream reader `src/src/openai_stream.py`, `run_one` | line buffer, event buffer, stream state, two timeouts | feed, close, read, judge | chunk boundaries, deadline against answer | the events do not depend on the chunks; completed means whole; a request ends |
| Trace replay client `src/src/openai_trace_client.py`, `src/scripts/verify_week03.py`, `verify_week04.py` | thread pool, artifacts, manifest | open-loop replay, reuse, gate, manifest | identities read once and used for hours | the manifest is of one server and of one Week 3 run |
| Study runner, load client `src/src/study_runner.py`, `src/src/experiment_client.py` and the study programs | managed server, journal, slots, records | start a server, run a case under load, stop it | server death, thread races, interrupts | journal exact, server stopped, no record left running |
| Platform and cluster study `src/scripts/run_platform_study.py`, `run_cluster_study.py` | the namespace's objects, run.json, session.json | `switch_scaler`, `injected_fault`, `run_cell`, `benchmark` | calls that fail after they took effect, controllers that answer late | one autoscaler; faults are undone; records are true |

The remaining files - contracts that validate fields, parsers of recorded
traces, calibration, statistics, figures, tensor code, deployment - keep no
state of their own between calls.  `PROJECT.json` lists them with the reason.

How the parts interact: `schedule_trace`, `simulate_case` and `run_online_case`
each own a `VirtualTimeScheduler` and call it under their own clock.
`run_matrix` calls one of the last two per case and stores the rows, which
`week03_contract` validates.  The gateway, its discovery task and its handlers
share one `RoundRobin` object inside one event loop; `analyze_routing` reads its
log afterwards.  `run_week04.sh` starts vLLM through the lifecycle script, which
an operator may call at the same time, runs its benchmarks under the watchdog, and the replay
client against the traces of Week 3; `verify_week04` accepts or refuses what they left.
The later studies manage their own server in-process (`study_runner`) or drive a
Kubernetes namespace through `kubectl`.

## 2. Plan

| # | Modules | Content | Proofs |
|---|---|---|---|
| 1 | `Scheduler`, `DynamicBatcher`, `ScheduleTrace` | the scheduler as operators; all orders of calls on it; the driver | `Week03Proofs` |
| 2 | `BatchService`, `Week03Contract`, `SimulateCase`, `OnlineServing` | what a batching service promises; the rows of a case; the two implementations, refining the promise | `BatchServiceProofs`, `OnlineServingProofs` |
| 3 | `RoundRobin`, `RRGateway` | the pool; the gateway whose handlers and discovery share it | `RRGatewayProofs` |
| 4 | `CaseLog`, `CaseStore` | `run_matrix` with kills and resumes, refining "a committed case is one execution's and stays" | `Week03Proofs` |
| 5 | `VllmLifecycle`, `ProcessWatchdog`, `Week04Run` | the server's lifecycle and the watchdog, composed by the Week 4 run | `Week04RunProofs` |
| 6 | `SSEParser`, `StreamRequest` | one request, from bytes to record | - |
| 7 | `TraceReplay` | the replay client and what accepts its evidence | `TraceReplayProofs` |
| 8 | `StudyRun` | servers, cases, load and records of the GPU studies | `StudyRunProofs` |
| 9 | `LabCluster`, `PlatformStudy`, `ClusterStudy` | the namespace, and the sessions of the two scripts on it | `ClusterStudyProofs` |

All of these are done.

## 3. The models

### Scheduler, DynamicBatcher

`Scheduler` has no variables.  It translates `VirtualTimeScheduler` into
operators on a record `[policy, queue, now, ordinal, closed, nextWindow]`, so that
one run covers schedulers of several policies:
`next_wakeup_ns`, `eligible_dispatch` (`_eligible_dispatch`; the empty set is the
code's `None`), `PoppedBatch` and `AfterPop` (`_pop_batch`), `SkipWindows` (what
`advance_to` does without a slot).  Five modules use it.

`DynamicBatcher` lets any caller make any legal call at any time up to `MaxTime`.
`advance_to` and `close` are loops; one turn is one step (`AdvancePop`,
`ClosePop`), so their intermediate states are visible.  `formed`, `admitted`,
`dispatched`, `busyAt` and `partClosed` are history: what the calls returned.
`submit` after `close` moves the clock before it raises; this is the action
`RaiseAfterMove`.

### ScheduleTrace

The loop of `schedule_trace`, every scheduler call of which is an action of
`DynamicBatcher` conjoined with the driver's control.  All ordered traces of five
requests are explored.  The queue overflows on some of them: the driver raises.
The module has a reference for `size_or_time` that knows no queue, no clock
and no wakeup, only which requests share a batch.  It follows the rule of the scheduler's
documentation, that all arrivals of an instant enter before the batches of that instant are
taken; the driver, which advances after every single request, does not (`ArrivalOrder`).  The two agree
on the traces that are `Untied`: no two requests arrive together at the deadline of an earlier one.
`AnyCall` is a scheduler that the driver does not own, so one run covers both.

### BatchService

The promise, with two variables: the stage of each request and the sequence of
formed batches.  Requests are decided about in arrival order, batches take the
oldest requests of the queue, one batch runs at a time.

### Week03Contract

`validate_case_artifacts`, as a predicate on the event rows and batch rows of a
case, together with what the two serving loops write into a `RequestState` and a
row.  The loops' properties (`SimRowsConsistent`, `RowsConsistent`) put the rows that
the model computed through it.

### SimulateCase

`simulate_case`, one action per turn of each inner loop, `pc` naming the part of
the body that is next: finish, start, admit waiters, take arrivals, dispatch,
start again, admit again, dispatch again, reject.  The trace, the service times and the
failures are arbitrary.  A service time of zero is included: `FakeBatchBackend`
allows it.

### OnlineServing

`run_online_case`: producer, coordinator and worker.  The shared state is the
three queues; everything else is owned by one thread, as in the code.  A step
is what a thread does between two queue operations or two readings of the clock.
`now` is `relative_now()`; it ticks between any two steps, so the code's
re-readings of the clock (the check for due arrivals, the flush, the handoff) see
different times.  `get(timeout=...)` may time out whenever the queue is empty,
which includes every timeout the code computes.  `checked` is history: the reading of the clock
at the coordinator's last check for due arrivals, before a flush.  `MaxLag` bounds by how much the
producer oversleeps; `MaxTime` stops the clock, and is beyond the last deadline
of the trace.

### RoundRobin, RRGateway

`RoundRobin` is the pool: `update` and `select`, with `picks`, the number of
selections of each endpoint in the epoch, as history.  `RRGateway` is the process:
a step is what a task does between two awaits.  `Select` is atomic with the
creation of the record since no await separates them.  A handler can be cancelled
at every await, and can meet an exception at every await after the selection.  Upstreams send
chunks with and without `[DONE]`, end early, or send more than the bound.  The
API may be down from the start.  The cluster (pods, API, slow probes) may change `MaxTrouble` times; while the
API is down the pods change freely, and discovery finds what they have become when it is back.  The static-endpoint
mode (`Service = FALSE`) is modelled; no run uses it, since it only removes
behaviour (the API's failures).

### CaseLog, CaseStore

`CaseLog` is the promise: a case goes from not committed to committed with the
data of one execution, and back only by damage.  `CaseStore` is `run_matrix`: an
invocation writes or reads the traces, walks the cases in order, skips those that
`_case_is_complete` accepts, commits the others by three atomic file
replacements, marker last, rebuilds the two totals and writes the status.  Every
replacement is a step, and `Kill` may come between any two.  The content of a file is
the number of the execution that wrote it, `Absent` or `Garbage`; two files validate
against each other only if they carry the same number.  What an abandoned
invocation leaves is exactly the files, so `Kill` resets nothing else and the next `Invoke`
starts from them.  A trace may be empty (`empty`, chosen initially): `write_trace` stores
it, `read_trace` refuses it, and the marker of its cases gets a blank trace id.

Assumed: one runner at a time (nothing locks the output root, and nothing in the
repository starts two), the same configuration at every invocation (another one
raises before a write), trace files that nobody damages, and damage to a case's
files only between invocations.

### VllmLifecycle

`start_vllm.py`, as any number of invocations of `start` (with and without `--no-wait`), `wait`
and `stop` that run at the same time.  The variables are what they share: the lifecycle
lock, the PID record, the models snapshot and the other evidence (`published`), and the
operating system's side, per server attempt: is its leader alive, are its workers alive,
has a foreign process taken its pid, who listens on the port.  A step is what an invocation
does between two observations of these.  `ownership_status`, `process_snapshot` and
`group_exists` are the code's predicates, including a defunct child that answers signal 0 and
has lost its argv.  `op[c]` keeps what an invocation carries with it: the attempt it read in
the record, the one it launched, and whether it has seen the group gone.  `StopTerm` releases
the lock before its effect, `StopKill` comes later without it, and a failed wait inside a start
continues as a stop of whatever the record then names (`MarkFailed`), as the code does.

### ProcessWatchdog

`run_with_watchdog`, one record per caller: the command and the other processes of its
group, the return code, what will be reported, and whether a signal was sent.

### Week04Run

`run_week04.sh --gpu`, with the trap that runs after any command, composed with the two
modules above, `benchmark_vllm.sh` (the variable `job`, with its lock directory, marker and
raw file per label in `bench`), the replay client (two steps here, in full in `TraceReplay`),
the status file, analysis, the report and `verify_week04`.  Next to the script an operator
starts, waits for and stops the server by hand.  A signal to the shell alone is
noticed when the foreground command ends (`After`); `KeyboardInterrupt` reaches the command too;
`Preempted` takes every process and leaves every file.

### SSEParser, StreamRequest

`SSEParser` is the incremental parser as operators on a record; bytes are tokens, so that
a line end, a byte order mark, a two-byte character and a piece of a value each can be cut off
from what follows.  `StreamRequest` is `run_one` on `stream_openai`: the server sends any of
the given wires at any pace, ends, resets or is cut; a read returns when it has its bytes or the
response has ended; the socket's timeout, set from the deadline before each read, bounds each wait
within it.  Parsing is one character per step, delivery one event per step.
`MCStreamRequest` tells what a text means without a parser: cut into lines, then into blocks.

### TraceReplay

`execute_trace` with its submitting thread, semaphore, worker threads and callbacks
(`release_capacity` is two steps: the counter, then the permit), below
`run_all_configured` (plan, reuse, gate, manifest) and the single-trace mode.  Around it a
server that may be restarted, and Week 3: its evidence may be run again, to its end or
not, with the same traces or others, and be verified, which rewrites the receipt.  An
artifact is which replay wrote it, with the attempt and the trace it names, the gate's verdict,
and two facts of its rows that nobody can read from the names: whether every answer is of the
attempt (`own`) and whether it was on time (`onTime`).  `Accepted` is
`_verify_comparison_manifest`.  What Week 3 does during a replay is modelled after it, which
loses nothing: no thread of the replay reads those files.  A `submit` that raises, or an
interrupt, leaves the loop through the executor's `with`, which joins the threads (`Interrupted`, `Unwind`).

### StudyRun

Six programs share `managed_server`, `run_case` and `run_load`.  A program goes through
its servers and cases; `Unwind` is what an exception or an interrupt runs through
(`run_case`'s handler, then `managed_server`'s).  The server's group is its leader and the
other processes; another server may hold the port.  An exception is one that week 6 names
(`RuntimeError`, `ValueError`, `OSError` and their subclasses: "error"), another one ("unexpected": a command that
failed or was late, an answer cut off, a key that is missing) or an interrupt, since only
the first kind lets week 6 go on and write its record.  A case may fail before the `try` of `run_case`
(`CaseNotBegun`), and the `wait` after SIGKILL may raise, which skips the last write of `server.json` (`NotReaped`; the
leader is `Doomed`, and dies later).  `run_load` takes slots without blocking,
records an overflow when there is none, and its threads persist under the lock (`Persist`) and
give the slot back in the `finally`, without it (`Release`).

### LabCluster, PlatformStudy, ClusterStudy

`LabCluster` is the namespace as the scripts see it: the fields of the pool, the endpoint
picker, the target deployment and its autoscalers, the LLMInferenceService, and the
controllers that follow in their own time, or never: KEDA, the garbage collector, the rollouts, and
the HPA, which changes the target's replicas.  `Kubectl(new, next, raised)` is a call
that took effect and returns, or raises all the same; a call that fails without effect is
`Fails`.  `PlatformStudy` is one session of `run_platform_study.py`, with `Raised` saying where
an exception goes from each step; `ClusterStudy` adds `run_cluster_study.py` and puts one
session after the other, of either script, since what a session leaves in the namespace is what the
next one finds.  An autoscaler that nobody here made may be there from the start.

## 4. The runs

| Run | Question | Bounds |
|---|---|---|
| `Batcher` | Do FIFO, exactly-once, exact wakeups, anchored windows and the driver's batches survive every trace? | both batching policies, all traces of 5 requests over 0..3, batches of 3, queue of 4, windows of 2 and deadlines of 2, times 0..5, one slot or no limit: a full batch and a second one, overflow, two boundaries, skipped and unskipped, a batch that a deadline closes with two requests in it, and a call with fewer slots than batches all occur |
| `ArrivalOrder` | Do all arrivals of an instant enter before the batches of that instant? (violated) | as `Batcher`, with traces of 4, batches of 2 and a queue of 3 |
| `Gateway` | Does a log at rest pass `rr_verdict`? Is completed complete, does every selection end in a record, do dead pods leave and ready pods come? | 2 pods, 2 handlers, one chunk; an API that may be down at the start, one change of the cluster, and any change of the pods while the API is down: a handler selects before and after an update, another wraps around |
| `OnlineCase` | Ownership token, batch rows, arrivals before the flush, deadlines, refinement, termination | both batching policies, one arrival and then two together, batches of 3, queue of 2: the third waits, is admitted late or is rejected; a window and a deadline end between the publications; a producer that may fail |
| `OnlineProducerDies` | Does the case end when the producer fails? (violated) | `no_batching`, 3 requests, queue of one |
| `SimulatedCase` | Capacity, work conservation, deadlines, ties, rows, termination, refinement | both batching policies, all traces of 5 over 0..3, service 0 or 2, failures |
| `Matrix` | Is a commit one execution's and kept? Are the totals what the status says? Does repeating the command complete the matrix? | 3 cases, two of which share a trace, `max_cases` 0, 1 or none, 2 kills or failing cases, 1 damaged file: a commit is interrupted, resumed and interrupted again, and damaged after that |
| `Week04` | Is only our server signalled, is a live server the recorded one, do the results that say ready verify, does the script end? | the script and one operator, 2 server attempts, one foreign process, one benchmark and its smoke, 2 invocations, one signal or preemption: a second start meets the first one's server, record, evidence, marker or lock |
| `Stream` | Are the events what was sent however it is cut; is completed whole and a timeout the deadline; does a request end? | ten wires of up to 16 tokens, lines of 4 and events of 9, reads of 3, a response of 15, timeout 2 under a deadline of 3: every wire is cut at every place, and each limit is met |
| `Replay` | Is the counter exact, is the evidence of one server and one Week 3 run, does a run end? | 1 worker, 2 requests at once (the second is late by what the first takes), 2 traces, 2 runs of the client, 2 server attempts, 2 runs or verifications of Week 3 |
| `Study` | Are slots, journal and matrix exact, is nothing left running on the machine, is every record left at running explained, does a program end? | six programs, 3 requests with 2 slots (an overflow), two runs, 2 failures or interrupts |
| `Platform` | One chain of autoscalers, faults undone, true records, foreign autoscalers left alone, sessions that end | 3 sessions of 31 command lines (make, damage, measure), 2 troubles (one in the fault, one in its undoing), 2 cells |

The bounds are chosen so that each mechanism is used at least once more than
the minimum: a second batch after the first, an overflow after admissions, an
update between two selections, a second server after the first.  The mutants are the evidence: each
property fails on its run as soon as the code has the bug described next to it.

Deadlock is not checked: all the programs modelled end (a case is finished, the
gateway is cleaned up, invocations are used up), and what must
not stop early is a liveness property (`DriverTerminates`, `CaseEndsUnlessProducerDies`, `SimEnds`,
`EveryPickEnds`, `ScriptEnds`, `RequestEnds`, `ReplayEnds`, `StudyEnds`, `SessionEnds`).  The store's
run, where the command can always be repeated, checks it.

### What each property says about the code

- `FifoExactlyOnce`, `WakeupAgreesWithDispatch`, `NoForgedWindow`: the contract
  on which the three drivers rely.  `PolicyKept`: windows lie on the grid of the first one, and the driver
  forms the batches of the documented rule on every `Untied` trace; on the others it need not,
  which `ArrivalsEnterFirst` says of all policies and `ArrivalOrder` refutes.  `DriverTerminates`.
- `CaseHonest`, of the online case: `OneBatchOut` (the boolean `in_flight` is exact, though it is
  cleared in one place of the coordinator and the completion is announced by two messages),
  `BatchLifecycle` (rows of different batches do not overlap), `OwnDeadline`, `RowsConsistent`.
  `ArrivalsPrecedeFlush`: a batch that leaves room takes along every request that was due when the coordinator
  last looked (`unpublished_arrival_is_due`, before the flush), however late the producer is.  The flush reads
  the clock again: who becomes due between the two readings may miss the batch, and then opens the
  next one.  `CaseEndsUnlessProducerDies`.
- `SimHonest`, of the simulation: `CapacityHeld`, `WorkConserving`, `SimOwnDeadline`,
  `SimRowsConsistent`.  `DeadlineSlotWins`, `SimEnds`.  `DeadlineSlotWins` has an
  exception: a batch that takes no time is finished by the next turn of
  the loop at the same instant, after the rejection in this turn.
- `Serves` (of both): each is an implementation of `BatchService`.
- `RoutingLogHonest` (`RoundRobinVerdict`, `EveryPickLogged`),
  `CompletedStreamsEndWithDone`, `EveryPickEnds`, `PoolFollowsCluster` (`DeadPodLeaves`, `ReadyPodServes`).
- `CommitsOnce`: the marker's hashes and the agreement of the rows together rule out
  a case made of two executions, and a resume does not run a complete case again.
  `TotalsHonest`: the status survives from the last invocation that finished, so it must
  stay true while later ones rewrite the totals and are killed in between.
  `RepeatCompletes`: no interrupted, failed or damaged state blocks the next run.
- `OnlyOursSignalled`: between the observation that a pid is ours and the signal, it still is,
  also after a stop lost the lock.  `LiveIsRecorded`: no start takes the record from a live
  server; the servers exempted are those whose start was cut off or could not kill them.
  `EvidenceHonest` (Week 4): what is published is of one attempt; a run that says ready, or
  completed, verifies, and stays so; the watchdog reports what happened.  `ScriptEnds`.
- `EventsAsSent`, `OutcomeHonest`, `RequestEnds`: see `Stream`.
- `InFlightBounded`; `EvidenceHonest` (replay): a manifest's artifacts are of its attempt and on
  time; one that verification accepts holds one server's answers to the traces of the Week 3
  evidence that is verified now, although the client read all of that once; and what the client publishes is
  accepted while nothing changes.  `ReplayEnds`.
- `NothingLeftRunning`, `RecordsHonest`, `StudyEnds`.  `RunningIsExplained`: where a turn of a program ends, a
  record that still says running or ready tells of a case that failed before its `try`, of a candidate of week 6 that
  ended with an interrupt or an exception that `main` does not name, or of a leader that was not reaped.
- `OneChain`, `ForeignStays`, `FaultIsUndone`, `SessionEnds`.  `ResultsHonest`: a completed handoff is one, a collected run
  is whole, and the traffic of an eligible cell began on the declared pool, port and picker, in week 20 with the
  metrics it is measured by, and with no autoscaler but the case's own.  Not promised, since nothing in the
  code looks: see Platform in section 5.

### Fairness

- `ScheduleTrace`, `SimulateCase`: one sequential program; weak fairness of its
  next-state relation says that the interpreter goes on.
- `OnlineServing`: weak fairness of each thread and of the clock.  The operating
  system schedules runnable threads; a blocked thread is one whose action is
  disabled.  Fairness of the worker includes that `backend.execute` returns or
  raises, which the code relies on too (there is no timeout around it).
- `RRGateway`: weak fairness of the discovery loop, which has no exit, and of
  each handler after its body has arrived: the session's total timeout ends every
  wait on the upstream, and a stalled client ends in a write error or a
  cancellation.  Neither the pods, the API, the clients nor the shutdown are fair.
- `CaseStore`: weak fairness of the runner's own steps, and strong fairness of
  `Invoke(NoLimit)`, which is the operator's part: the walkthrough tells them to
  run the command again without a limit.  Kills and failures are not fair and are
  bounded by `MaxTrouble`.
- `Week04Run`: weak fairness of `RunsOn`, the script, the benchmark, the watchdog and the open
  invocations together: one of them steps as long as one can, for every wait in them has a timeout,
  which is a step that gives up.  The server, the commands, what the operator starts and all trouble
  are not fair.
- `StreamRequest`: weak fairness of the client's steps and of the clock; none of the server.
- `TraceReplay`: weak fairness of the main thread, the clock, and the worker threads together;
  that a request ends is what `Stream` checks (`RequestEnds`).
- `StudyRun`: weak fairness of the program and of each of its threads; none of the server, which may
  never become ready, and whose processes need not obey TERM.
- `ClusterStudy`: weak fairness of the session's steps, whose loops have deadlines; none of
  the controllers.
- `DynamicBatcher`, `BatchService` and `RoundRobin` make no liveness claim.

## 5. Findings

- `ArrivalOrder`: `VirtualTimeScheduler` asks its caller to submit all arrivals of an instant and then to advance
  to it (`src/src/dynamic_batcher.py:75`), and the walkthrough says that arrivals of one instant enter the
  state machine before the flush (`src/docs/week-03-code-walkthrough.md:90`).  `schedule_trace` advances
  after each single request (line 279), so where a window or a deadline falls on the arrival time
  of several requests, the first is dispatched without the others.  The two cases of Week 3 do not use
  this driver; the simulated one takes all arrivals of an instant first, the online one
  those that are due when it looks.
- `OnlineProducerDies`: an exception in the producer, while a request waits for
  admission, leaves the coordinator in its main loop: `finished` is set, but the
  loop's second condition stays true as an unpublished arrival is for ever due,
  which sends every turn to the wait before it can settle the waiter.  The
  exception is never raised.

Seen while translating, and either part of the models as they are or outside of what they
state.  None contradicts a promise of the code that a run refutes:

- Scheduler: `close` with fewer slots than batches leaves the scheduler open.
- Matrix: a generated trace without a request makes its cases incomplete for ever, and later
  invocations raise (`RepeatCompletes` is stated of the other traces).
- Gateway: a handler past the draining check awaits its body and selects after draining began.
- Lifecycle: the models snapshot is written before the lock and the second look at the record
  (so `Verifiable` asks for it, `ReadyVerifies` does not promise it); a start whose wait failed
  stops whatever the record names, and cannot see its own defunct child as stopped; a start does not
  look for workers of a dead leader's group.
- Week 4: a benchmark that is cut off leaves a marker or a lock that blocks its repetition; a TERM
  that the shell handles ends with exit code 0 and, before `SERVER_STARTED`, leaves the server
  running; `write_status` reads and replaces without a lock.
- Replay: an artifact that exceeds the lag gate is kept, and every later run stops at it; the
  single-trace mode may overwrite an artifact that a manifest names; re-verification of Week 3
  changes the hashed files, so that an older manifest no longer verifies; nothing locks
  two clients out.
- Stream: a read may return after the deadline by the time of one timeout; `IncompleteRead` escapes
  unwrapped (`run_one` reports it as an error).
- Studies: week 6 catches four kinds of exceptions (`benchmark_week06.py:205`), so any other (a
  `CalledProcessError` of `runtime_identity`, a `TimeoutExpired`, an `IncompleteRead`) and an interrupt leave its
  `experiment.json` running; a `TimeoutExpired` of `process.wait` after SIGKILL leaves `server.json` at ready; a case that
  fails before its `try` stays running.  `RunningIsExplained` names each.
  SIGTERM leaves the server behind; a managed server may be somebody else's that answers on the port.
- Platform: a membership fault whose selector could not be restored keeps the label, too; a
  fault's server-side apply meets conflicts after a killed session; a ScaledObject that vanished makes a
  handoff fail; in weeks 17 and 18 no readiness check looks for what the release's own artifact fault changed,
  so one that a killed session left is under the next cell's traffic; a ScaledObject that is
  being deleted passes `verify_live_case`, and its HPA may vanish under the traffic; `hpa_burst` does not look for existing autoscalers; `session.json` stays
  started if the last snapshot raises; nothing locks two sessions out.

## 6. The proofs

All theorems hold for every value of the constants that satisfies the named
assumptions of the modules, which are types, what the code checks of a configuration
(`ConfigAssumption`) and what a parser accepts (`PlansAssumption`); the bounds that make TLC's
runs finite (`MaxTrouble` and the like) are any natural numbers.

`Week03Proofs`, about the scheduler under any caller (`Spec`) and under its driver (`TraceSpec`): both are shown to be
behaviours of `AnySpec`, whose caller is not bounded by `MaxTime`, since the driver's times are arrivals and wakeups.

- `TypeCorrect`, by itself inductive: the queue bound needs only the guard of
  `submit`.
- `ExactlyOnce` (`FifoExactlyOnce`) and `BatchesWellShaped` (`BatchShape`) from the type invariant;
  `PopLemma` says what `_pop_batch` splits off the queue.
- `WakeupIsExact`: an invariant that is a fact about the operators
  (`WakeupLemma`), valid in every well-typed state.
- `TimeoutLeavesNobody` and `InstantDrained`: action properties, from the order of the tests
  in `_eligible_dispatch`.
- `WindowsNotForged`: needs `WindowAhead`, that the next window is later
  than the last time the scheduler was told there is no slot; the property
  itself is not inductive, since it says nothing of windows that have not
  fired.
- `ClosedForGood` (`ShutdownIsFinal`): after a complete close no batch is
  formed; needs `ClosedIsEmpty`.
- `PoliciesKept` (`PolicyKept`).  Windows: `GridInv` says that the next window is on the grid too, until a
  close() has popped a batch.  The reference, on `Untied` traces: `Opener` is a recursive function over the requests, and no induction
  over them is needed, because the driver submits them one by one.  `QueueInLine` and `BatchesInLine` say
  that batches and queue divide the submitted requests into intervals; `QueueJoins` and `BatchJoins` that each
  interval is one batch of the reference and, when it is dispatched, that the next request will not join it, which needs
  what `Turn` says of the time of each advance_to(): an arrival's, or one before the next arrival.
  `Agrees` is that whatever function satisfies the recursion gives the first of each interval; at the end the
  batches themselves are such a function (`ReadingExists`), and intervals have the sizes of the reference.

`RRGatewayProofs`: `RRTypeCorrect` and `RRBalanced`, about the pool.  `Balanced` is not inductive; the
strengthening `Turns` says which endpoints had their extra turn: those before `index`.
`GatewayBalanced` carries it over to the gateway, by the lemma that every step of the gateway is an `update`,
a `select` or leaves the pool alone.
`GatewayLogHonest` (`RoutingLogHonest`) and `GatewayStreamsEnd` (`CompletedStreamsEndWithDone`) from
`GatewayIInv`, which strengthens both: the verdict speaks of the log of a gateway at rest, but what it says
must be true of the routes of the handlers while they run.  `HandlerOK` says that a handler has a route
exactly from its pick to its record, so that at rest the log is the set of routes; `RoutesOK` that the
routes are numbered 1..`sequence`, one per handler (`Numbered`), that an epoch has one pool of distinct
endpoints and epochs never go back (`OnePool`), that successive routes of an epoch are neighbours and the last one
stands before `index` (`Successive`), and that the pool's counts are the numbers of routes, of which every
prefix is balanced (`Tallied`); the last needs `Turns`.

`BatchServiceProofs`: `ServedInArrivalOrder` and `ReadyIsFormed` from
`ServiceInv`, the conjunction of the type invariant and the two properties:
each needs the other, since `Start` moves the head of `ready`, which is the oldest
formed batch only because `ready` is ordered and holds exactly what is formed.
`ServiceAssumption` is their hypothesis: the module is instantiated, not extended, by the
modules that refine it.

In the same module, about the simulated case: `SimulationHonest` (`SimHonest`), `SlotWinsAtDeadline`
(the action property `DeadlineSlotWins`) and `SimulationServes` (`Serves`, the refinement of `BatchService`), from
`SimInv`, in two parts.  `Settled` holds at every step, wherever the turn of the loop stands.  Its idea is that
the record of a request says where the request is (`PlacesOK`): it waits, is queued, formed, running or
served according to which of its timestamps are set, so that no place can lose or share a request, and at
the end, when every place is empty, nobody is pending.  The batches are numbered in the order in which they are
formed and executed (`OneByOne`), and a request carries the number of its batch, which is why two batches
share no request.  `InLine` (waiters, queue and arrivals are in one order) gives the refinement its
`Oldest`; `HeadDue` and `ArrivalsOnTime` say that nothing due is overdue - no window, no wait and no waiter's
deadline has been passed - so that a batch that is due is dated now (`DueNow`), the clock never goes back
(`NextIsSoon`), and a waiter that is rejected is rejected exactly at its deadline.  `Phased` says how far the turn has
come: where no arrival, no waiter that could be admitted and no due batch is left (`ArrivalsPhase`,
`WorkPhase`), that the drain finds nothing (`LastPhase`), and what may still happen at an instant with a
rejection (`Instant`), which is `DeadlineSlotWins` before the step.  `SimHonest` follows without another
induction; each step of the loop is matched with one of the service (`AdmitServes`, `RejectServes`,
`DispatchServes`, `StartServes`, `FinishServes`) or is none (`StagesStay`).  The proofs need that a
backend's first token is not after the end of its batch, which `BackendTiming` checks (`SimulationAssumption`).

`OnlineServingProofs`: `ServingHonest` (`CaseHonest`), `ArrivalsBeforeFlush` (`ArrivalsPrecedeFlush`)
and `OnlineServes` (`Serves`) from `OnlineInv`, which has three parts.  `LineInv` is
about the line that the requests stand in before they are admitted: the producer's group, the queue's messages and
what the coordinator has taken hold the requests in arrival order and without a gap (`LineOK`), each is published
no earlier than it is due, groups of one time are published whole (`GroupsOK`), and nothing follows the "done"
(`DoneOK`).  `CaseInv` is about what is made of them: as in a simulated case the record of a request says where it
is (`RecordsOK`, `PlacesOK`); there is at most one batch out - with the coordinator, in the work queue, with the
worker or among the completions - and the token in_flight is held exactly then (`TokenOK`); what is recorded of
each batch so far is in order (`BatchesOK`); and a batch that is formed with room in it leaves no request of its
times behind (`TogetherOK`), which needs `LineInv`: that whatever is unpublished at that instant is scheduled
later; the theorem `GroupsStayTogether` follows from it.  `PhaseOK` says what the coordinator knows in each
step of its loops: that no waiter could be admitted when it looks for a batch, that nobody waits and nothing will
arrive once it joins the producer or closes, that a closed scheduler is empty, and, in `ArrivalsPrecedeFlush`, that at the
look of `checked` whoever was due had been taken from the line.  TLC checked each conjunct
on small instances first.  Neither honesty nor
precedence needs an induction of its own after that.  For the refinement, `StagePlaces` says which stage of the
service each request is in, and `ReadyBatch` which batch is formed and does not run yet; each action is then matched with a step of the service (`AdmitServes`, `ExpireServes`,
`PopServes`, `TakeWorkServes`, `CollectServes`) or is none: the service does not see a publication, a
wake-up, a hand-over, the executing call or the clock.

`Week03Proofs`, about the case store: `StoreImplementsLog` (`CommitsOnce`) from `StoreInv`.  The type
invariant is not enough: while a case's files are replaced one by one, it must not
become complete half way.  `Committing` says why it does not: the old marker names
an older execution than the one being written, which needs `Known`, that no file
knows an execution to come.  Given that, only the marker's write commits, and by then both
files hold the same execution.  `StoreTypeCorrect` is a part of it.
`StatusIsHonest` (`TotalsHonest`) from `StoreInv` and `TotalsInv`: `Rebuilding` says that what a rebuild under way
has written is what it would still write, since no file of a case changes between its writes; and once all
cases are complete no commit is begun (`NoCommitWhenComplete`), so a rebuild that is killed in between, while
the old status still says complete, has written the same rows again.

`TraceReplayProofs`: `CapacityIsExact` (`InFlightBounded`) from `PoolInv`.  The bound on
the counter follows from the permits, which are given back later than a request is counted
out: `PermitsAddUp` counts who holds a permit (`Holding`) besides who is in flight.  `InOrder` says that
the next request to be submitted has not been, and that outside of a replay (its unwinding is a part of it) the pool is full.

`EvidenceIsHonest` (`EvidenceHonest`), of the same module, from `PoolInv` and `EvidenceInv`.  The attempt,
the plan and the trace are read once and used later, so the invariant speaks of what may
have happened since: `Answers` (a request is answered by an attempt between the one the client read and the
present one), `Honest` (an artifact that names the present attempt was answered by it alone,
and one that passed the gate is on time), `ReplayedHere` (the cases before the present one are of
the planned trace and attempt, and passed the gate), `AsPlanned` and `ManifestAsPlanned` (as long as the Week 3 files
are those of the plan, the evidence is verified and the planned trace is its trace; any change
makes another number of them).  `GateLemma`: if the nearest-rank p99 is within the limit then at
most one in a hundred of the requests is not; that the rank exists is `LeastExists`, a least value on a
finite set, from the well-foundedness of strict inclusion.

`Week04RunProofs`, about the whole composition:

- `SignalsOnlyOurs` (`OnlyOursSignalled`) and `ServerOnRecord` (`LiveIsRecorded`) from `ServerInv`.
  Whoever is in a critical step of a start holds the lock (`LockKept`), so at most one start has a server that
  is not yet recorded (`OneStart`); a stop may act after it lost the lock, and only changes the state of the
  record it finds.  A record without an identity is of a server that has died or was given up
  (`UnidentifiedIsLost`), so a start that does not recognise the recorded leader may replace it.  `PidsKept`:
  a pid that somebody polls and saw alive is not taken by another process, and signals
  follow such polls.
- `EvidenceOfOneServer` (`EvidenceOneAttempt`) from `ServerInv` and `NamesInv`: a name is read from a
  ready record; ready comes after the models snapshot, under the lock (`ReadyIsSettled`); and where there
  is a snapshot and no start is critical, no start will be (`Settled`), since it is refused.
  `Leads` says once for every step of an invocation where it may lead.
- `VerdictsAreHonest` (`VerdictHonest`) from `DogInv`: a command that is still waited for has not been
  signalled.
- `EvidenceIsBelievable` (the whole of `EvidenceHonest`) adds `ReadyVerifies`, from `ReadyInv`.  Its parts:
  `StopsInv` (where a stop got to, it saw the attempt dead), `JobInv` (a benchmark has its marker from
  before its files are moved until all of them name the attempt), `ScriptInv` (each phase of the script
  stands on what the ones before it left: `Reached`) and `StatusInv` (what was promised, and that no phase
  that would spoil the papers runs after "completed").  The argument is that evidence lasts
  (`EvidenceLasts`): once something is published the state is `Settled`, so no attempt is launched again, an
  attempt whose leader and whose start have ended stays `Gone`, and the record of a stopped server stays
  stopped (`FinalKept`); files of a verified benchmark are never taken up again (`JobReadyKeeps`); and the
  script is ready only when its own stop has seen the server gone (`StopKept`).  Every other step is
  `Quiet`: it ends processes, publishes under the record's name or writes papers.

`StudyRunProofs`: `ServersAreReaped` (`NothingLeftRunning`), `StudyRecordsHonest` (`RecordsHonest`) and
`TurnsEndExplained` (the action property `RunningIsExplained`) from `StudyInv`.  Its three parts do not need each other's steps:
`Sending` (slots and journal: none of the jobs from `load.i` on has been looked at, so that the one submitted
held no slot and had no line), `Cleaned` (there are processes only between the launch and the end of
the clean-up, save a `Doomed` leader, and no step of a program passes from one side to the other but through `Stopped`
or `NotReaped`), and `Written`, of
the records: only the record of the case the program is in says running, or that of one it failed to
begin (`RunningCase`), no server is ready before its launch, nor after its clean-up unless that raised (`ReadyServer`), only that of the
session it is at (`RunningSession`), a program unwinds from an error and nothing else (`Unwinding`), and
the cells before this one are over (`CellsBefore`).  `RunningIsExplained` is not an invariant of states:
what is left is explained by what the turn ended with, which only the step that ends it knows.

`ClusterStudyProofs`: `OneWriter` (`OneChain`) and `ForeignIsKept` (`ForeignStays`) from `ChainInv`.
`OneChain` is not inductive: `Install` adds a writer.  The invariant says where each step of a
handover stands: from the deletions on nobody else's autoscaler is there, and when the install
is due there is no writer at all, which no controller can change, since KEDA makes an HPA only
for a ScaledObject that lives.  `Shape` (the fields of the two records) lets every other step be dealt with
at once: it leaves the writers alone and does not enter a handover (`PlatformElsewhere`,
`ClusterElsewhere`).
`FaultsAreUndone` (`FaultIsUndone`) and `ResultsAreHonest` (`ResultsHonest`) from `Promises`, by itself
inductive.  `SessionInv` is about the session alone: where it stands and what that says of what it read, has
seen and will record.  `LabInv` is about what the cluster is meanwhile: the fields a fault may change are
what they were read as until it is injected (`AsFound`) and again from its undoing on (`PutBack`), the
writer is the plan's own from the end of a handover on (`HandedOver`), and what the readiness check saw of a
measured cell stays until its traffic (`Steady`, `CellIsClean`).  `Steady` has `CaseWriter` in it, not the stronger check
itself: after it, KEDA may still collect a ScaledObject that is being deleted.  It needs that the controllers touch
none of the other fields but the replicas, and those only while there is an HPA, and that no other step of a session does.

Only model-checked: liveness (out of the prover's reach, as is `ENABLED`), and the two of `MCStreamRequest`,
`EventsAsSent` and `OutcomeHonest`, which compare a request's record with a parse of the whole stream by
recursion and folds over its bytes.

## 7. What is abstracted

- Time is integers; nanoseconds and units do not matter to the code's decisions.
- Python's integers are unbounded, so no arithmetic wraps.
- Payloads, prompts, token counts, formatting and logging are left out.
- Requests are numbers in arrival order, or model values where order does not matter.
- HTTP and JSON parsing in the gateway is its outcome: a request is accepted or
  refused.  In `SSEParser` a byte is a token.
- A file that is validated field by field against another is one that stands for the same execution,
  replay, attempt or run.
- The model backend is a call that returns or raises, after any time.
- Validation of configurations is an assumption on constants.
- A pid is not taken by somebody else between two polls, a tenth of a second apart, of a stop that last saw its
  group alive.
- One writer at a time where the code takes no lock and starts no second one: the output root of a
  matrix, the status file, a replay, a study, a session on the namespace.
- `BatchShape`, `TimeoutDrainsQueue`, `AdvanceDrainsTheInstant`, `ShutdownIsFinal` and `Balanced` are proved
  and have no run: the proof covers every instance.

## 8. Not modelled

- Statistics, calibration and figures: floating point and layout over finished files, nothing that interleaves.
- Contracts and validators of single fields, and the parsers of engine traces: one pass
  without state.  The patched engine whose log is parsed is not in the repository, and a
  model of it would make up what it checks.
- Tensor code, manifests, dashboards, and the shell scripts that set up machines.
- `hpa_burst` and the sampler threads of the platform study, `http_json` and the readiness polls of the stream reader,
  the CPU phase of `run_week04.sh`.
