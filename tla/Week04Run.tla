----------------------------- MODULE Week04Run ------------------------------
(***************************************************************************)
(* scripts/run_week04.sh --gpu, composed with the server's lifecycle, the  *)
(* watchdog, scripts/benchmark_vllm.sh, the status file and the final      *)
(* verification, on a machine that may be preempted and next to an         *)
(* operator who runs start_vllm.py by hand.                                *)
(*                                                                         *)
(* A signal reaches the shell while a foreground command runs; its trap    *)
(* waits for that command to end.  SIGINT (the keyboard) reaches the       *)
(* command too.  Analysis and verification follow when the script has      *)
(* ended, as its last line asks for.                                       *)
(***************************************************************************)
EXTENDS VllmLifecycle, ProcessWatchdog

CONSTANTS
  Cases,           (* Bound: benchmark cases, after the smoke, which is 0. *)
  MaxInvocations,  (* Bound: runs of the script and of the operator.       *)
  MaxTrouble       (* Bound: signals and preemptions.                      *)

VARIABLES
  script,   (* The script, [pc |-> "idle"] between two runs.               *)
  status,   (* The status file; done: its phase is gpu_artifacts_ready.    *)
  bench,    (* The files of each benchmark.                                *)
  job,      (* The benchmark that the script runs.                         *)
  papers,   (* analysis, report: of which attempt's results they are, 0 if
               there is none or if it is of another replay manifest        *)
  used      (* How much of each bound is used.                             *)

Script == 1
Operator == 2

ASSUME Week04Assumption ==
  {Script, Operator} \subseteq Callers /\ Script \in Watchers /\ Cases \in Nat

Labels == 0..Cases
SmokeFiles == -1
ReplayFiles == -2

runVars == <<script, status, bench, job, papers, dog, used>>
week04Vars == <<lifecycleVars, runVars>>

NoScript == [pc |-> "idle", started |-> FALSE, inited |-> FALSE, failed |-> FALSE,
             attempt |-> 0, label |-> 0]

NoJob == [pc |-> "idle", label |-> 0, attempt |-> 0, ok |-> FALSE]

NothingYet == [final |-> 0, marker |-> FALSE, lock |-> FALSE]

Week04Init ==
  /\ LifecycleInit
  /\ DogInit
  /\ script = NoScript
  /\ status = [is |-> "none", done |-> FALSE]
  /\ bench = [l \in Labels |-> NothingYet]
  /\ job = NoJob
  /\ papers = [analysis |-> 0, report |-> 0]
  /\ used = [invocations |-> 0, trouble |-> 0]

Spend(what, limit) == used[what] < limit /\ used' = [used EXCEPT ![what] = @ + 1]

(***************************************************************************)
(* The status file                                                         *)
(***************************************************************************)
STATUS_TRANSITIONS ==
  [none            |-> {"running"},
   running         |-> {"running", "artifacts_ready", "failed"},
   artifacts_ready |-> {"artifacts_ready", "completed", "failed"},
   failed          |-> {"failed", "running"},
   completed       |-> {"completed"}]

MayWrite(is) == is \in STATUS_TRANSITIONS[status.is]

write_status(is, done) == MayWrite(is) /\ status' = [is |-> is, done |-> done]

(***************************************************************************)
(* benchmark_vllm.sh                                                       *)
(***************************************************************************)
JobAt(pc) == job.pc = pc
JobGoto(pc) == job' = [job EXCEPT !.pc = pc]
JobEnds(ok) == job' = [NoJob EXCEPT !.ok = ok]
Files == bench[job.label]
SetFiles(f) == bench' = [bench EXCEPT ![job.label] = f]
Completed(l) == {k \in Attempts : <<l, k>> \in published}

\* The metadata names the attempt of a record that says ready.
JobMetadata ==
  /\ JobAt("check") /\ record.state = "ready"
  /\ job' = [job EXCEPT !.pc = "files", !.attempt = record.attempt]
  /\ UNCHANGED <<lifecycleVars, bench, dog>>

\* The completed case of this attempt.
Reusable ==
  Files.final # 0 /\ ~Files.marker /\ Completed(job.label) = {job.attempt}

JobSkips ==
  /\ JobAt("files") /\ Reusable
  /\ JobEnds(TRUE)
  /\ UNCHANGED <<lifecycleVars, bench, dog>>

FilesAreFree == Files.final = 0 /\ Completed(job.label) = {} /\ ~Files.marker

JobRefused ==
  /\ \/ JobAt("check") /\ record.state # "ready"
     \/ JobAt("files") /\ ~FilesAreFree /\ ~Reusable
     \/ JobAt("lock") /\ Files.lock
  /\ JobEnds(FALSE)
  /\ UNCHANGED <<lifecycleVars, bench, dog>>

JobChecked ==
  /\ JobAt("files") /\ FilesAreFree
  /\ JobGoto("lock")
  /\ UNCHANGED <<lifecycleVars, bench, dog>>

\* mkdir "${LOCK_DIR}"
JobLocks ==
  /\ JobAt("lock") /\ ~Files.lock
  /\ SetFiles([Files EXCEPT !.lock = TRUE])
  /\ JobGoto("mark")
  /\ UNCHANGED <<lifecycleVars, dog>>

JobMarks ==
  /\ JobAt("mark")
  /\ SetFiles([Files EXCEPT !.marker = TRUE])
  /\ JobGoto("metrics")
  /\ UNCHANGED <<lifecycleVars, dog>>

\* fetch_metrics asks whoever listens on the port.
JobWatches ==
  /\ JobAt("metrics") /\ PortOpen
  /\ Watch(Script)
  /\ JobGoto("watch")
  /\ UNCHANGED <<lifecycleVars, bench>>

JobMoves ==
  /\ JobAt("watch") /\ ~Watching(Script)
  /\ dog[Script].code = "completed" /\ PortOpen
  /\ SetFiles([Files EXCEPT !.final = job.attempt])
  /\ JobGoto("complete")
  /\ Seen(Script)
  /\ UNCHANGED lifecycleVars

JobCompletes ==
  /\ JobAt("complete")
  /\ published' = {p \in published : p[1] # job.label}
                    \cup {<<job.label, job.attempt>>}
  /\ JobGoto("unmark")
  /\ UNCHANGED <<lock, record, snapshot, lost, os, op, bench, dog>>

JobUnmarks ==
  /\ JobAt("unmark")
  /\ SetFiles([Files EXCEPT !.marker = FALSE, !.lock = FALSE])
  /\ JobEnds(TRUE)
  /\ UNCHANGED <<lifecycleVars, dog>>

\* A command fails after the lock was taken; what was published or marked stays.
JobFails ==
  /\ \/ job.pc \in {"mark", "metrics", "complete"}
     \/ JobAt("watch") /\ ~Watching(Script)
  /\ SetFiles([Files EXCEPT !.lock = FALSE])
  /\ JobEnds(FALSE)
  /\ Seen(Script)
  /\ UNCHANGED lifecycleVars

JobSteps ==
  \/ JobMetadata \/ JobSkips \/ JobRefused \/ JobChecked \/ JobLocks
  \/ JobMarks \/ JobWatches \/ JobMoves \/ JobCompletes \/ JobUnmarks
  \/ JobFails

(***************************************************************************)
(* run_week04.sh --gpu                                                     *)
(***************************************************************************)
ScriptAt(pc) == script.pc = pc

files == <<status, bench, job, papers>>

Trapped(failed) ==
  [NoScript EXCEPT !.pc = "cleanup", !.started = script.started, !.inited = script.inited,
                   !.failed = failed]

\* A foreground command has ended.  If SIGTERM or SIGHUP reached the shell meanwhile, the
\* trap runs now, with the command's exit code.
After(ok, nextScript) ==
  \/ script' = (IF ok THEN nextScript ELSE Trapped(TRUE)) /\ UNCHANGED used
  \/ Spend("trouble", MaxTrouble) /\ script' = Trapped(~ok)

GpuRun ==
  /\ ScriptAt("idle") /\ Spend("invocations", MaxInvocations)
  /\ script' = [NoScript EXCEPT !.pc = "initialize"]
  /\ UNCHANGED <<lifecycleVars, dog, files>>

initialize ==
  /\ ScriptAt("initialize")
  /\ IF status.is \in {"artifacts_ready", "completed"}
     THEN After(FALSE, script) /\ UNCHANGED status
     ELSE /\ write_status("running", FALSE)
          /\ After(TRUE, [script EXCEPT !.pc = "offline", !.inited = TRUE])
  /\ UNCHANGED <<lifecycleVars, dog, bench, job, papers>>

\* run_bounded_phase
OfflineSmoke ==
  /\ ScriptAt("offline")
  /\ Watch(Script)
  /\ script' = [script EXCEPT !.pc = "offline runs"]
  /\ UNCHANGED <<lifecycleVars, files, used>>

OfflineEnds ==
  /\ ScriptAt("offline runs") /\ ~Watching(Script)
  /\ After(dog[Script].code = "completed", [script EXCEPT !.pc = "start"])
  /\ Seen(Script)
  /\ UNCHANGED <<lifecycleVars, files>>

ScriptStarts ==
  /\ ScriptAt("start")
  /\ Start(Script)
  /\ script' = [script EXCEPT !.pc = "starts"]
  /\ UNCHANGED <<dog, files, used>>

\* SERVER_STARTED=true is the command after start.
ScriptStarted ==
  /\ ScriptAt("starts") /\ At(Script, "idle")
  /\ After(op[Script].ok, [script EXCEPT !.pc = "openai", !.started = TRUE])
  /\ UNCHANGED <<lifecycleVars, dog, files>>

\* openai_smoke names the attempt of a record that says ready.
OpenaiSmoke ==
  /\ ScriptAt("openai")
  /\ IF record.state = "ready"
     THEN /\ Watch(Script)
          /\ script' = [script EXCEPT !.pc = "openai runs", !.attempt = record.attempt]
     ELSE script' = Trapped(TRUE) /\ UNCHANGED dog
  /\ UNCHANGED <<lifecycleVars, files, used>>

Publish(what) ==
  /\ published' = published \cup {<<what, script.attempt>>}
  /\ UNCHANGED <<lock, record, snapshot, lost, os, op>>

OpenaiPublishes ==
  /\ ScriptAt("openai runs") /\ dog[Script].leader /\ PortOpen
  /\ Publish(SmokeFiles)
  /\ UNCHANGED <<script, dog, files, used>>

OpenaiEnds ==
  /\ ScriptAt("openai runs") /\ ~Watching(Script)
  /\ After(dog[Script].code = "completed" /\ <<SmokeFiles, script.attempt>> \in published,
           [script EXCEPT !.pc = "bench", !.attempt = 0])
  /\ Seen(Script)
  /\ UNCHANGED <<lifecycleVars, files>>

Benchmark ==
  /\ ScriptAt("bench")
  /\ job' = [NoJob EXCEPT !.pc = "check", !.label = script.label]
  /\ script' = [script EXCEPT !.pc = "bench runs"]
  /\ UNCHANGED <<lifecycleVars, dog, status, bench, papers, used>>

BenchmarkEnds ==
  /\ ScriptAt("bench runs") /\ JobAt("idle")
  /\ After(job.ok,
           IF script.label = Cases THEN [script EXCEPT !.pc = "replay", !.label = 0]
           ELSE [script EXCEPT !.pc = "bench", !.label = @ + 1])
  /\ UNCHANGED <<lifecycleVars, dog, files>>

\* run_all_configured reuses only replays of the attempt that the record names.
TraceReplay ==
  /\ ScriptAt("replay")
  /\ script' = IF record.state = "ready" /\ Completed(ReplayFiles) \subseteq {record.attempt}
               THEN [script EXCEPT !.pc = "replay runs", !.attempt = record.attempt]
               ELSE Trapped(TRUE)
  /\ UNCHANGED <<lifecycleVars, dog, files, used>>

ReplayPublishes ==
  /\ ScriptAt("replay runs")
  /\ Publish(ReplayFiles)
  /\ papers' = [papers EXCEPT !.analysis = 0]
  /\ UNCHANGED <<script, dog, status, bench, job, used>>

ReplayEnds ==
  /\ ScriptAt("replay runs")
  /\ \E ok \in BOOLEAN :
       /\ ok => <<ReplayFiles, script.attempt>> \in published
       /\ After(ok, [script EXCEPT !.pc = "stop", !.attempt = 0])
  /\ UNCHANGED <<lifecycleVars, dog, files>>

ScriptStops ==
  /\ ScriptAt("stop")
  /\ Stop(Script)
  /\ script' = [script EXCEPT !.pc = "stops"]
  /\ UNCHANGED <<dog, files, used>>

\* Mutant: the exit code of stop is ignored.
ScriptStopped_AnyExit ==
  /\ ScriptAt("stops") /\ At(Script, "idle")
  /\ After(TRUE, [script EXCEPT !.pc = "ready", !.started = FALSE])
  /\ UNCHANGED <<lifecycleVars, dog, files>>

ScriptStopped ==
  /\ ScriptAt("stops") /\ At(Script, "idle")
  /\ After(op[Script].ok, [script EXCEPT !.pc = "ready", !.started = FALSE])
  /\ UNCHANGED <<lifecycleVars, dog, files>>

GpuArtifactsReady ==
  /\ ScriptAt("ready")
  /\ write_status("running", TRUE)
  /\ After(TRUE, NoScript)
  /\ UNCHANGED <<lifecycleVars, dog, bench, job, papers>>

\* cleanup(), the trap: it stops what SERVER_STARTED says ...
Cleanup ==
  /\ ScriptAt("cleanup")
  /\ IF script.started
     THEN Stop(Script) /\ script' = [script EXCEPT !.pc = "cleans"]
     ELSE script' = [script EXCEPT !.pc = "report"] /\ UNCHANGED lifecycleVars
  /\ UNCHANGED <<dog, files, used>>

CleanupEnds ==
  /\ ScriptAt("cleans") /\ At(Script, "idle")
  /\ script' = [script EXCEPT !.pc = "report", !.failed = @ \/ ~op[Script].ok]
  /\ UNCHANGED <<lifecycleVars, dog, files, used>>

\* ... and reports a failure if the exit code says so; a refused status is ignored.
Report ==
  /\ ScriptAt("report")
  /\ IF script.inited /\ script.failed /\ MayWrite("failed")
     THEN write_status("failed", FALSE) ELSE UNCHANGED status
  /\ script' = NoScript
  /\ UNCHANGED <<lifecycleVars, dog, bench, job, papers, used>>

ScriptSteps ==
  \/ initialize \/ OfflineSmoke \/ OfflineEnds \/ ScriptStarts \/ ScriptStarted
  \/ OpenaiSmoke \/ OpenaiEnds \/ Benchmark \/ BenchmarkEnds \/ TraceReplay \/ ReplayEnds
  \/ ScriptStops \/ ScriptStopped \/ GpuArtifactsReady \/ Cleanup \/ CleanupEnds \/ Report

(***************************************************************************)
(* The machine, the operator, and what follows a run                       *)
(***************************************************************************)
\* SIGINT to the foreground process group: the command does not end well.
KeyboardInterrupt ==
  /\ Spend("trouble", MaxTrouble)
  /\ \/ /\ script.pc \in {"starts", "stops"} /\ Interrupted(Script)
        /\ UNCHANGED <<script, dog, bench, job>>
     \/ /\ script.pc \in {"offline runs", "openai runs", "bench runs"} /\ DogInterrupted(Script)
        /\ UNCHANGED <<lifecycleVars, script, bench, job>>
     \/ /\ ScriptAt("bench runs") /\ JobFails
        /\ UNCHANGED script
     \/ /\ ScriptAt("replay runs") /\ script' = Trapped(TRUE)
        /\ UNCHANGED <<lifecycleVars, dog, bench, job>>
  /\ UNCHANGED <<status, papers>>

\* The Spot VM goes: no process is left, and every file stays.
Preempted ==
  /\ Spend("trouble", MaxTrouble)
  /\ leader' = {} /\ workers' = {} /\ reused' = {} /\ port' = Closed
  /\ lock' = Nobody
  /\ op' = [c \in Callers |-> NoOp]
  /\ dog' = [c \in Watchers |-> NoDog]
  /\ job' = NoJob
  /\ script' = NoScript
  /\ UNCHANGED <<disk, launched, foreigns, struck, status, bench, papers>>

OperatorActs ==
  /\ At(Operator, "idle") /\ Spend("invocations", MaxInvocations)
  /\ Start(Operator) \/ Wait(Operator) \/ Stop(Operator)
  /\ UNCHANGED <<script, dog, files>>

AtRest == ScriptAt("idle") /\ \A c \in Callers : At(c, "idle")

\* The raw results are all there, whosever they are, and the replays cover Week 3's cells: the
\* benchmark's own records have no trace to compare.
Comparable ==
  /\ \A l \in Labels \ {0} : bench[l].final # 0
  /\ Completed(ReplayFiles) # {}

\* It names the server attempt of the raw results, or none if they are of several.
build_analysis_summary ==
  LET ids == {bench[l].final : l \in Labels \ {0}}
  IN  IF \E k \in Attempts : ids = {k} THEN CHOOSE k \in Attempts : ids = {k} ELSE 0

\* run_week04.sh --analyze
Analyze ==
  /\ AtRest /\ Comparable
  /\ write_status("artifacts_ready", FALSE)
  /\ papers' = [papers EXCEPT !.analysis = build_analysis_summary]
  /\ UNCHANGED <<lifecycleVars, script, bench, job, dog, used>>

\* The operator writes the report from the analysis.
WriteReport ==
  /\ AtRest /\ papers.analysis # papers.report
  /\ papers' = [papers EXCEPT !.report = papers.analysis]
  /\ UNCHANGED <<lifecycleVars, script, status, bench, job, dog, used>>

\* verify_week04: every file names the attempt of the stopped server.
CaseVerified(l) ==
  /\ ~bench[l].marker /\ bench[l].final # 0
  /\ Completed(l) = {record.attempt}

ResultsVerified ==
  /\ record.state = "stopped"
  /\ \A l \in Labels : CaseVerified(l)
  /\ Completed(SmokeFiles) = {record.attempt} /\ Completed(ReplayFiles) = {record.attempt}

\* _verify_analysis and _verify_report: the analysis is of these results and of this replay
\* manifest, and the report has the analysis's numbers.
AnalysisVerified == papers.analysis = record.attempt
ReportVerified   == papers.report = papers.analysis

Verifiable ==
  ResultsVerified /\ snapshot = record.attempt /\ AnalysisVerified /\ ReportVerified

Verify ==
  /\ AtRest
  /\ status.is \in {"artifacts_ready", "completed"}
  /\ Verifiable
  /\ status' = [is |-> "completed", done |-> FALSE]
  /\ UNCHANGED <<lifecycleVars, script, bench, job, papers, dog, used>>

Steps(c) == Progress(c) \/ (c = Operator /\ RecordStartNoWait(c))

RunsJob == UNCHANGED <<script, status, papers, used>> /\ ~JobAt("idle") /\ JobSteps

RunsDog == UNCHANGED <<lifecycleVars, script, files, used>> /\ Watching(Script) /\ DogSteps(Script)

Week04Next ==
  \/ GpuRun \/ ScriptSteps \/ OpenaiPublishes \/ ReplayPublishes
  \/ KeyboardInterrupt \/ Preempted \/ OperatorActs
  \/ Analyze \/ WriteReport \/ Verify
  \/ (\E c \in Callers : Steps(c)) /\ UNCHANGED runVars
  \/ RunsJob \/ RunsDog
  \/ Command(Script) /\ UNCHANGED <<lifecycleVars, script, files, used>>
  \/ OperatingSystem /\ UNCHANGED runVars

\* The script, the command it waits for, that command's watchdog and the operator's command:
\* every wait in them has a timeout.
RunsOn ==
  \/ ~ScriptAt("idle") /\ ScriptSteps
  \/ RunsJob \/ RunsDog
  \/ UNCHANGED runVars /\ \E c \in Callers : ~At(c, "idle") /\ Progress(c)

\* One of them runs as long as one can.  Nothing makes anybody answer, crash or obey.
Week04Spec == Week04Init /\ [][Week04Next]_week04Vars /\ WF_week04Vars(RunsOn)

(***************************************************************************)
(* Properties                                                              *)
(***************************************************************************)
\* No stop and no failed start sends a signal to a process that is not of the server,
\* whatever pid or port a foreign process takes.
OnlyOursSignalled == ~struck

\* A live server is the one of the record, or its start is still to record it, or its
\* start was cut off or could not end it: no start replaces the record of a live server
\* by another, and two starts never both launch.
LiveIsRecorded ==
  \A k \in leader \ lost :
    \/ record.attempt = k
    \/ \E c \in Callers : op[c].own = k /\ op[c].pc \in {"identify", "cleanup", "record failure"}

\* Everything published in a run comes from one server attempt: a run is never pieced
\* together from the results of two servers.
EvidenceOneAttempt == \A p, q \in published : p[2] = q[2]

\* A run that claims its GPU artifacts are ready, or that was verified, has results that
\* verification accepts, and nothing the operator or the machine does spoils them, nor the
\* analysis and the report that were verified with them.  (The models snapshot is not among
\* them: a waiter writes it without the lock.)
ReadyVerifies ==
  AtRest => /\ status.done \/ status.is = "completed" => ResultsVerified
            /\ status.is = "completed" => AnalysisVerified /\ ReportVerified

\* What a run publishes can be believed: its results are of one server, they verify when
\* it says so, and its commands ended as their watchdogs report.
EvidenceHonest == EvidenceOneAttempt /\ ReadyVerifies /\ VerdictHonest

\* The script ends: no command waits for ever for a lock, a process or a port.
ScriptEnds == ScriptAt("offline") ~> ScriptAt("idle")
=============================================================================
