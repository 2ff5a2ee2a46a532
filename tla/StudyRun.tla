------------------------------ MODULE StudyRun ------------------------------
(***************************************************************************)
(* The GPU studies: src/study_runner.py (managed_server, run_case),        *)
(* src/experiment_client.py (run_load) and the programs that drive them.   *)
(* A program starts servers one after the other, runs cases of bounded     *)
(* open-loop load against each, and leaves records of every step.  The     *)
(* server's processes may die or ignore signals, another server may take   *)
(* the port, a record may fail to be written, and the program may be       *)
(* interrupted or killed.                                                  *)
(***************************************************************************)
EXTENDS Integers, FiniteSets

CONSTANTS
  Programs,      (* Which of the programs are run.                         *)
  JobCount,      (* Requests of a case.                                    *)
  MaxInflight,   (* load.max_inflight                                      *)
  MaxErrors,     (* slo.max_error_rate, as a number of requests            *)
  MaxRuns, MaxTrouble   (* Bounds.                                         *)

VARIABLES
  study,      (* The program: pc; program; server, case: which one; error: what
                 it is unwinding from; verdict: what is yet to be written  *)
  load,       (* run_load: i: the next job; job: where each one is; out: whose threads
                 have not returned; slots; journal: how often each job is in it *)
  docs,       (* server.json; the metadata of the cases of week 5 and 6; the
                 run.json or experiment.json of each server, deep's first for
                 both; the matrix                                          *)
  group,      (* The process group of the server: its leader and the others *)
  port,       (* Who listens: "none", "own" or "other".                    *)
  budget      (* runs, troubles                                            *)

studyVars == <<study, load, docs, group, port, budget>>

Jobs == 1..JobCount

ASSUME StudyAssumption ==
  /\ Programs \subseteq {"week05", "week06", "week07", "week08", "week13", "deep"}
  /\ JobCount \in Nat \ {0} /\ MaxInflight \in Nat \ {0} /\ MaxErrors \in Nat

\* week05: one server for all cases; week06: candidates, each with its server; week07
\* and week08: a trace; week13: a server for each cell; deep: a baseline and a capture.
Servers(p) == IF p \in {"week05", "week07", "week08"} THEN 1 ELSE 2
Cases(p)   == IF p \in {"week05", "week06"} THEN 2 ELSE 1

\* run_case keeps a record of each case.
HasCases(p) == p \in {"week05", "week06"}

NoGroup  == [leader |-> "none", others |-> FALSE]
NoLoad   == [i |-> 1, job |-> [j \in Jobs |-> "waiting"], out |-> {}, slots |-> MaxInflight,
             journal |-> [j \in Jobs |-> 0]]
NoDocs   == [server |-> "none", case |-> [s \in 1..2 |-> [c \in 1..2 |-> "none"]],
             session |-> [s \in 1..2 |-> "none"], matrix |-> FALSE]
NoStudy  == [pc |-> "idle", program |-> "none", server |-> 1, case |-> 0,
             error |-> "none", verdict |-> "none"]

StudyInit ==
  /\ study = NoStudy /\ load = NoLoad /\ docs = NoDocs /\ group = NoGroup /\ port = "none"
  /\ budget = [runs |-> 0, troubles |-> 0]

At(pc)   == study.pc = pc
Goto(pc) == study' = [study EXCEPT !.pc = pc]
InPlace  == UNCHANGED <<load, docs, group, port, budget>>

Trouble == budget.troubles < MaxTrouble /\ budget' = [budget EXCEPT !.troubles = @ + 1]

CaseBecomes(status) == [docs EXCEPT !.case[study.server][study.case] = status]

InCase == study.pc \in {"warm", "load", "drain"} /\ HasCases(study.program)

\* Mutant: an interrupt is not an Exception.
Unwind_Exception(error, pc) ==
  /\ study' = [study EXCEPT !.pc = pc, !.error = error]
  /\ docs' = IF InCase /\ error # "interrupt" THEN CaseBecomes("failed") ELSE docs

\* What an exception leaves behind: run_case's except, and then managed_server's.
Unwind(error, pc) ==
  /\ study' = [study EXCEPT !.pc = pc, !.error = error]
  /\ docs' = IF InCase THEN CaseBecomes("failed") ELSE docs

\* One that week 6 names, or another: a command that failed or was late, a broken answer.
Errors == {"error", "unexpected"}

Raise(pc) == (\E error \in Errors : Unwind(error, pc)) /\ UNCHANGED <<load, group, port, budget>>

(***************************************************************************)
(* The programs                                                            *)
(***************************************************************************)
Begin ==
  /\ At("idle") /\ budget.runs < MaxRuns
  /\ \E p \in Programs : study' = [NoStudy EXCEPT !.pc = "session", !.program = p]
  /\ docs' = NoDocs /\ load' = NoLoad
  /\ budget' = [budget EXCEPT !.runs = @ + 1]
  /\ UNCHANGED <<group, port>>

\* A server's turn begins, with a record that it is running, or without one.
Opens(sessions) ==
  /\ At("session")
  /\ docs' = [docs EXCEPT !.server = "none",
                          !.session = [s \in 1..2 |-> IF s \in sessions THEN "running" ELSE @[s]]]
  /\ study' = [study EXCEPT !.pc = "probe", !.case = 0]
  /\ UNCHANGED <<load, group, port, budget>>

Is(p) == study.program = p

OpenCandidate == Is("week06") /\ Opens({study.server})
OpenCell      == Is("week13") /\ Opens({study.server})
OpenScenario  == Is("deep") /\ Opens({study.server} \cap {1})
OpenTrace     == study.program \in {"week05", "week07", "week08"} /\ Opens({})

\* Only week06 catches, and only RuntimeError, ValueError and OSError.
GoesOn == study.error = "none" \/ (Is("week06") /\ study.error = "error")

Last == study.server = Servers(study.program) \/ ~GoesOn

Closes(sessions, end) ==
  /\ At("closed")
  /\ docs' = [docs EXCEPT
       !.session = [s \in 1..2 |-> IF s \in sessions THEN end ELSE @[s]],
       !.matrix  = Is("week13") /\ Last /\ GoesOn]
  /\ study' = IF Last THEN NoStudy
              ELSE [study EXCEPT !.pc = "session", !.server = @ + 1,
                                 !.error = "none", !.verdict = "none"]
  /\ UNCHANGED <<load, group, port, budget>>

Ended == IF study.error = "none" THEN study.verdict ELSE "failed"

CloseCandidate == Is("week06") /\ Closes(IF GoesOn THEN {study.server} ELSE {}, Ended)

CloseCell == Is("week13") /\ Closes({study.server}, Ended)

\* What is made of the captures may still fail.
CloseScenario ==
  /\ Is("deep")
  /\ \E end \in {Ended} \cup (IF Last THEN {"failed"} ELSE {}) : Closes(IF Last THEN {1} ELSE {}, end)

CloseTrace == study.program \in {"week05", "week07", "week08"} /\ Closes({}, "none")

CloseSession == CloseCandidate \/ CloseCell \/ CloseScenario \/ CloseTrace

(***************************************************************************)
(* managed_server                                                          *)
(***************************************************************************)
\* Also what precedes the launch: runtime_identity and the command's help.
Probe ==
  /\ At("probe")
  /\ IF port # "none" THEN Raise("closed")
     ELSE \/ docs' = [docs EXCEPT !.server = "starting"] /\ Goto("launch")
             /\ UNCHANGED <<load, group, port, budget>>
          \/ Raise("closed")

\* The log may not open, before the try.
Launch ==
  /\ At("launch")
  /\ \/ group' = [leader |-> "loading", others |-> TRUE] /\ Goto("wait") /\ UNCHANGED docs
     \/ /\ docs' = [docs EXCEPT !.server = "failed"]
        /\ study' = [study EXCEPT !.pc = "closed", !.error = "error"]
        /\ UNCHANGED group
     \/ Unwind("error", "closed") /\ UNCHANGED group
  /\ UNCHANGED <<load, port, budget>>

\* /v1/models answers with the model's name, whoever listens.
BecomesReady ==
  /\ At("wait") /\ group.leader # "dead" /\ port # "none"
  /\ docs' = [docs EXCEPT !.server = "ready"]
  /\ Goto("case")
  /\ UNCHANGED <<load, group, port, budget>>

\* The leader has exited, or the deadline has passed.
NotReady == At("wait") /\ Raise("leave")

\* killpg(shutdown_signal)
Leave == At("leave") /\ Goto("signalled") /\ InPlace

\* Mutant: the process is killed, not its group.
Killpg_Leader == [group EXCEPT !.leader = "dead"]

\* killpg(SIGKILL), and the leader is reaped.
Killpg == [leader |-> "dead", others |-> FALSE]

GroupAlive == group.leader \in {"loading", "serving"} \/ group.others

\* The group is gone, or has had its time; the last write of server.json.
Stopped ==
  /\ At("signalled")
  /\ LET end == IF GroupAlive THEN Killpg ELSE group
     IN  /\ group' = IF end = [leader |-> "dead", others |-> FALSE] THEN NoGroup ELSE end
         /\ port' = IF port = "own" /\ end.leader = "dead" THEN "none" ELSE port
  /\ docs' = [docs EXCEPT !.server = IF study.error = "none" THEN "stopped" ELSE "failed"]
  /\ Goto("closed")
  /\ UNCHANGED <<load, budget>>

Doomed == [leader |-> "killed", others |-> FALSE]

\* process.wait(timeout=10) raises: killed, the leader is not yet dead, and server.json
\* stays as it is.
NotReaped ==
  /\ At("signalled") /\ group.leader \in {"loading", "serving"} /\ Trouble
  /\ group' = Doomed
  /\ Unwind("unexpected", "closed")
  /\ UNCHANGED <<load, port>>

(***************************************************************************)
(* run_case, run_cell, run_one: around the load                            *)
(***************************************************************************)
Answered == port # "none"

NextCase ==
  /\ At("case")
  /\ IF study.case < Cases(study.program)
     THEN /\ study' = [study EXCEPT !.pc = "warm", !.case = @ + 1]
          /\ docs' = IF HasCases(study.program)
                     THEN [docs EXCEPT !.case[study.server][study.case + 1] = "running"] ELSE docs
          /\ load' = NoLoad
     ELSE Goto("leave") /\ UNCHANGED <<docs, load>>
  /\ UNCHANGED <<group, port, budget>>

\* prepare_jobs, or what lies between the first metadata.json and the try.
CaseNotBegun ==
  /\ At("case") /\ HasCases(study.program) /\ study.case < Cases(study.program)
  /\ \E error \in Errors, written \in BOOLEAN :
       /\ study' = [study EXCEPT !.pc = "leave", !.case = @ + 1, !.error = error]
       /\ docs' = IF written THEN [docs EXCEPT !.case[study.server][study.case + 1] = "running"]
                  ELSE docs
  /\ load' = NoLoad
  /\ UNCHANGED <<group, port, budget>>

\* What precedes the first case: week 6 checks the model and its answers.
CaseRefused == At("case") /\ study.case = 0 /\ Raise("leave")

\* The warm-ups, the priming of the cache and the metrics before.
WarmUp ==
  /\ At("warm")
  /\ \/ Answered /\ Goto("load") /\ InPlace
     \/ Raise("leave")

Records(status) == {j \in Jobs : load.job[j] = status}

\* summary["eligible"], with the p99 of the arrival lag
Eligible(onTime) ==
  /\ Cardinality(Jobs) - Cardinality(Records("success")) <= MaxErrors
  /\ Records("success") # {} /\ onTime

Held == load.out

\* Every future has its result, and the case is over, or something raised.
Finishes(verdict) ==
  /\ At("drain") /\ Held = {} /\ Answered /\ Records("raised") = {}
  /\ study' = [study EXCEPT !.pc = "case", !.verdict = verdict]
  /\ docs' = IF HasCases(study.program) THEN CaseBecomes(verdict) ELSE docs
  /\ UNCHANGED <<load, group, port, budget>>

FinishCase == HasCases(study.program) /\ Finishes("completed")

FinishCell ==
  /\ Is("week13")
  /\ \E onTime \in BOOLEAN : Finishes(IF Eligible(onTime) THEN "collected" ELSE "rejected")

\* require_clients, and the trace is read until it is whole.
FinishScenario == Is("deep") /\ Records("success") = Jobs /\ Finishes("collected")

\* The client's failures are told with the result.
FinishTrace == study.program \in {"week07", "week08"} /\ Finishes("none")

FinishFails == At("drain") /\ Held = {} /\ Raise("leave")

\* The executor joins its threads before the exception goes on.
Joined ==
  /\ At("unwind") /\ Held = {}
  /\ Goto("leave") /\ InPlace

(***************************************************************************)
(* run_load                                                                *)
(***************************************************************************)
\* The others have a thread for each request, and no journal.
Bounded == study.program \in {"week05", "week06", "week13"}

Saved(j) == [load.journal EXCEPT ![j] = @ + 1]

\* Mutant: a request the client could not send is not recorded.
Overflows_Silent(j) == [load EXCEPT !.i = j + 1, !.job[j] = "overflow"]

Overflows(j) == [load EXCEPT !.i = j + 1, !.job[j] = "overflow", !.journal = Saved(j)]

Submits(j) ==
  [load EXCEPT !.i = j + 1, !.job[j] = "running", !.out = @ \cup {j},
               !.slots = IF Bounded THEN @ - 1 ELSE @]

Send ==
  /\ At("load") /\ load.i \in Jobs /\ ~Is("week07")
  /\ IF Bounded /\ load.slots = 0
     THEN \/ load' = Overflows(load.i) /\ UNCHANGED <<study, docs, group, port, budget>>
          \/ Trouble /\ Unwind("error", "unwind") /\ UNCHANGED <<load, group, port>>
     ELSE load' = Submits(load.i) /\ UNCHANGED <<study, docs, group, port, budget>>

\* lifecycle_requests: one after the other, and the first that is not as it should raises.
SendNext ==
  /\ At("load") /\ load.i \in Jobs /\ Is("week07")
  /\ \/ Answered /\ load' = [load EXCEPT !.i = @ + 1, !.job[load.i] = "success"]
        /\ UNCHANGED <<study, docs, group, port, budget>>
     \/ Raise("leave")

AllSent == At("load") /\ load.i \notin Jobs /\ Goto("drain") /\ InPlace

\* request_record and request: success only of a whole answer.
RequestEnds(j) ==
  /\ load.job[j] = "running"
  /\ \E result \in {"bad"} \cup (IF Answered THEN {"ok"} ELSE {}) :
       load' = [load EXCEPT !.job[j] = result]
  /\ UNCHANGED <<study, docs, group, port, budget>>

\* persist, under the lock.
Persist(j) ==
  /\ load.job[j] \in {"ok", "bad"}
  /\ load' = [load EXCEPT !.job[j] = IF @ = "ok" THEN "success" ELSE "failed",
                          !.journal = IF Bounded THEN Saved(j) ELSE @]
  /\ UNCHANGED <<study, docs, group, port, budget>>

PersistFails(j) ==
  /\ load.job[j] \in {"ok", "bad"} /\ Bounded /\ Trouble
  /\ load' = [load EXCEPT !.job[j] = "raised"]
  /\ UNCHANGED <<study, docs, group, port>>

\* Mutant: only a successful persist gives the slot back.
Kept_Raised(j) == load.job[j] \in {"success", "failed"}

Kept(j) == load.job[j] \in {"success", "failed", "raised"}

\* slots.release, in the finally and without the lock; the thread is done.
Release(j) ==
  /\ j \in load.out /\ Kept(j)
  /\ load' = [load EXCEPT !.out = @ \ {j}, !.slots = IF Bounded THEN @ + 1 ELSE @]
  /\ UNCHANGED <<study, docs, group, port, budget>>

(***************************************************************************)
(* The server, the port and the operator                                   *)
(***************************************************************************)
Bind ==
  /\ group.leader = "loading"
  /\ IF port = "none" THEN group' = [group EXCEPT !.leader = "serving"] /\ port' = "own"
     ELSE group' = [group EXCEPT !.leader = "dead"] /\ UNCHANGED port
  /\ UNCHANGED <<study, load, docs, budget>>

\* By the signal, or of its own.
LeaderDies ==
  /\ group.leader \in {"loading", "serving"}
  /\ IF At("signalled") THEN UNCHANGED budget ELSE Trouble
  /\ group' = [group EXCEPT !.leader = "dead"]
  /\ port' = IF port = "own" THEN "none" ELSE port
  /\ UNCHANGED <<study, load, docs>>

DoomedDies ==
  /\ group = Doomed
  /\ group' = NoGroup /\ port' = IF port = "own" THEN "none" ELSE port
  /\ UNCHANGED <<study, load, docs, budget>>

OthersDie ==
  /\ group.others /\ (At("signalled") \/ group.leader = "dead")
  /\ group' = [group EXCEPT !.others = FALSE]
  /\ UNCHANGED <<study, load, docs, port, budget>>

\* Another server that found the port free, too.
AnotherServer ==
  /\ port = "none" /\ Trouble
  /\ port' = "other"
  /\ UNCHANGED <<study, load, docs, group>>

AnotherStops ==
  /\ port = "other" /\ port' = "none"
  /\ UNCHANGED <<study, load, docs, group, budget>>

\* A KeyboardInterrupt; one during the clean-up is Killed.
Interrupt ==
  /\ study.pc \in {"probe", "wait", "case", "warm", "load", "drain"} /\ Trouble
  /\ Unwind("interrupt", CASE At("probe") -> "closed"
                           [] study.pc \in {"load", "drain"} -> "unwind"
                           [] OTHER -> "leave")
  /\ UNCHANGED <<load, group, port>>

\* Nobody owns what the program leaves running.
Killed ==
  /\ ~At("idle") /\ Trouble
  /\ study' = NoStudy /\ load' = NoLoad /\ group' = NoGroup
  /\ port' = IF port = "own" THEN "other" ELSE port
  /\ UNCHANGED docs

MainStep ==
  \/ OpenCandidate \/ OpenCell \/ OpenScenario \/ OpenTrace \/ CloseSession
  \/ Probe \/ Launch \/ BecomesReady \/ NotReady \/ Leave \/ Stopped \/ NotReaped
  \/ NextCase \/ CaseNotBegun \/ CaseRefused \/ WarmUp \/ Send \/ SendNext \/ AllSent \/ Joined
  \/ FinishCase \/ FinishCell \/ FinishScenario \/ FinishTrace \/ FinishFails

WorkerStep(j) == RequestEnds(j) \/ Persist(j) \/ PersistFails(j) \/ Release(j)

StudyNext ==
  \/ Begin \/ MainStep \/ (\E j \in Jobs : WorkerStep(j))
  \/ Bind \/ LeaderDies \/ DoomedDies \/ OthersDie \/ AnotherServer \/ AnotherStops \/ Interrupt \/ Killed

\* The program and its threads run, and every wait of theirs has a deadline.  Nothing is
\* asked of the server.
StudySpec ==
  /\ StudyInit /\ [][StudyNext]_studyVars
  /\ WF_studyVars(MainStep) /\ \A j \in Jobs : WF_studyVars(WorkerStep(j))

(***************************************************************************)
(* Properties                                                              *)
(***************************************************************************)
\* However a program ends, short of being killed, no process of its servers is left, save a
\* leader that ten seconds after SIGKILL was not dead.
NothingLeftRunning ==
  study.pc \in {"idle", "session", "probe", "closed"} => group \in {NoGroup, Doomed}

\* The slots of the client and the requests that hold one add up to max_inflight, with
\* failures, failed writes and interrupts; never more requests than that are out.
SlotsAddUp == Bounded => load.slots >= 0 /\ load.slots + Cardinality(Held) = MaxInflight

\* A request that is done with, sent or not, is in the journal exactly once, at every
\* moment a kill may come, save the one whose write failed.
JournalIsExact ==
  Bounded => \A j \in Jobs : load.journal[j] = IF load.job[j] \in {"success", "failed", "overflow"} THEN 1 ELSE 0

\* A matrix is of cells that all ended with a verdict.
MatrixIsWhole ==
  docs.matrix => \A s \in 1..2 : docs.session[s] \in {"collected", "rejected"}

\* A candidate that week 6 records as completed has completed each of its cases.
CompletedIsWhole ==
  \A s \in 1..2 : docs.session[s] = "completed" => \A c \in 1..2 : docs.case[s][c] = "completed"

\* The records of a study: of the requests in flight, of the journal, of the matrix and of
\* what analyze_week06 takes for complete.
RecordsHonest == SlotsAddUp /\ JournalIsExact /\ MatrixIsWhole /\ CompletedIsWhole

\* run_case, managed_server and the programs: when a program comes to the end of a server's
\* turn, whatever was raised, a record that still says running or ready tells of one of three
\* things that no handler covers: a case that failed before its try, with no request sent; a
\* candidate of week 6 that ended with an exception that main does not name; a server that
\* was not reaped, while process.wait's own exception is under way.
RunningIsExplained ==
  [][CloseSession =>
       /\ \A c \in 1..2 : docs'.case[study.server][c] = "running" =>
            c = study.case /\ study.error # "none" /\ load.i = 1
       /\ \A s \in 1..2 : (study'.pc = "idle" /\ docs'.session[s] = "running") =>
            Is("week06") /\ s = study.server /\ study.error \in {"unexpected", "interrupt"}
       /\ docs'.server = "ready" => study.error = "unexpected"]_studyVars

\* A study ends whatever its server does.
StudyEnds == ~At("idle") ~> At("idle")
=============================================================================
