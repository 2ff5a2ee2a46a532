----------------------------- MODULE TraceReplay ----------------------------
(***************************************************************************)
(* src/openai_trace_client.py: execute_trace replays one arrival trace     *)
(* against the server through a pool of worker threads, and                *)
(* run_all_configured replays every case, reuses the artifacts that are    *)
(* already there and publishes one manifest.  What one request does on the *)
(* wire is StreamRequest; here it ends with some record.  The server may   *)
(* die or be restarted under the client, Week 3 may be run or verified     *)
(* again, and the client may be killed.  scripts/verify_week03.py and the  *)
(* part of scripts/verify_week04.py that reads the manifest are at the end *)
(* of the chain.                                                           *)
(***************************************************************************)
EXTENDS Integers, FiniteSets, FiniteSetsExt

CONSTANTS
  Workers,      (* max_workers                                             *)
  Arrivals,     (* scheduled_arrival_ns of each request of a trace         *)
  Measured,     (* The requests of the measurement window.                 *)
  CaseCount,    (* How many traces are configured.                         *)
  LagLimit,     (* max_p99_arrival_lag_ms                                  *)
  MaxAttempts, MaxRuns, Horizon,  (* Bounds: server starts, client runs, time, *)
  MaxWeek03       (* and runs and verifications of Week 3.                 *)

VARIABLES
  main,     (* The client: pc; all: of --all-configured; ident: the server attempt
               it read; planned: the Week 3 files as it verified them, for
               --all-configured, and trace, the run whose traces are planned;
               rows: the run whose trace it replays; case; i: the next request *)
  pool,     (* permits of the semaphore; in_flight, and its maximum        *)
  req,      (* Each request: st; at: request_started_ns; by: the server attempt
               that answers it, 0 if none; raised: run_one let an exception out *)
  now,      (* Since origin_ns.                                            *)
  disk,     (* The artifacts and the manifest.                             *)
  week03,   (* run: whose evidence the files hold; whole: every case of it is
               there, and the summary, the analysis and the report are its;
               trace: the run whose traces they are (the same as before if it
               drew the same); receipt: the run whose verification is on
               record; files: counts the changes of the hashed files       *)
  attempt,  (* The server's last start, the one its record names.          *)
  runs      (* How often the client was run.                               *)

replayVars == <<main, pool, req, now, disk, week03, attempt, runs>>

Requests == DOMAIN Arrivals
Cases    == 1..CaseCount

ASSUME ReplayAssumption ==
  /\ Workers \in Nat \ {0} /\ CaseCount \in Nat \ {0}
  /\ Cardinality(Requests) \in Nat \ {0} /\ Requests = 1..Cardinality(Requests)
  /\ Arrivals \in [Requests -> Nat] /\ Measured \subseteq Requests /\ LagLimit \in Nat

\* replay: which replay wrote it, that is, its content; passed: the gate's verdict; and of
\* the rows, own: every answer is of the server of that attempt; onTime: not more than one
\* in a hundred of the measured requests started later than the limit.
NoArtifact == [replay |-> 0, attempt |-> 0, trace |-> 0, passed |-> FALSE, own |-> FALSE,
               onTime |-> FALSE]
Nothing    == [c \in Cases |-> NoArtifact]

\* week03: the files it hashed; planned: the ones its client verified.
NoManifest == [attempt |-> 0, week03 |-> 0, planned |-> 0, artifact |-> Nothing]
Idle       == [pc |-> "idle", all |-> FALSE, ident |-> 0, planned |-> 0, trace |-> 0, rows |-> 0,
               case |-> 0, i |-> 1]
NoRequest  == [st |-> "waiting", at |-> 0, by |-> 0, raised |-> FALSE]
FullPool   == [permits |-> Workers, count |-> 0, peak |-> 0]
NoRequests == [r \in Requests |-> NoRequest]

ReplayInit ==
  /\ main = Idle /\ pool = FullPool /\ req = NoRequests /\ now = 0
  /\ disk = [artifact |-> Nothing, manifest |-> NoManifest]
  /\ week03 = [run |-> 1, whole |-> TRUE, trace |-> 1, receipt |-> 1, files |-> 1]
  /\ attempt = 1
  /\ runs = 0

At(pc)   == main.pc = pc
Goto(pc) == main' = [main EXCEPT !.pc = pc]

(***************************************************************************)
(* run_all_configured and main                                             *)
(***************************************************************************)
\* verify_week03.verify: every case and every row, and what was derived from them again.
Verifies == week03.whole

\* _read_week03_verification: that, and the receipt is of the evidence as it is now.
Verified == Verifies /\ week03.receipt = week03.run

\* main: the identity is read once, from a record that says ready whether or not the server
\* still lives.  configured_replay_cases: so is the plan, and only from verified evidence;
\* one trace is replayed whatever Week 3's state.
Begin ==
  /\ At("idle") /\ runs < MaxRuns
  /\ \/ /\ Verified
        /\ main' = [Idle EXCEPT !.pc = "case", !.all = TRUE, !.ident = attempt, !.case = 1,
                                !.planned = week03.files, !.trace = week03.trace]
     \/ \E c \in Cases : main' = [Idle EXCEPT !.pc = "submit", !.ident = attempt, !.case = c,
                                              !.rows = week03.trace]
  /\ runs' = runs + 1
  /\ UNCHANGED <<pool, req, now, disk, week03, attempt>>

Present == disk.artifact[main.case] # NoArtifact

\* Mutant: the artifact is reused whatever trace it replayed.
Reusable_AnyTrace == Present /\ disk.artifact[main.case].attempt = main.ident

\* _validate_reusable_replay: the planned digest, and every row against the trace file.
Reusable ==
  LET a == disk.artifact[main.case]
  IN  Present /\ a.attempt = main.ident /\ a.trace = main.trace /\ a.trace = week03.trace

NextCase ==
  /\ At("case") /\ main.case \in Cases
  /\ \/ Reusable /\ Goto("gate")
     \/ Present /\ ~Reusable /\ main' = Idle      \* refusing to overwrite
     \/ ~Present /\ main' = [main EXCEPT !.pc = "submit", !.i = 1, !.rows = week03.trace]
  /\ UNCHANGED <<pool, req, now, disk, week03, attempt, runs>>

PublishManifest ==
  /\ At("case") /\ main.case \notin Cases
  /\ disk' = [disk EXCEPT !.manifest = 
       [attempt |-> main.ident, week03 |-> week03.files, planned |-> main.planned,
        artifact |-> disk.artifact]]
  /\ main' = Idle
  /\ UNCHANGED <<pool, req, now, week03, attempt, runs>>

GatePassed == disk.artifact[main.case].passed

\* The artifact that exceeds the gate stays, and every later run stops at it again.
Gate ==
  /\ At("gate")
  /\ main' = IF GatePassed THEN [main EXCEPT !.pc = "case", !.case = @ + 1] ELSE Idle
  /\ UNCHANGED <<pool, req, now, disk, week03, attempt, runs>>

(***************************************************************************)
(* execute_trace: the thread that submits                                  *)
(***************************************************************************)
\* The sleep until the arrival, semaphore.acquire, and the count under state_lock.
Submit ==
  /\ At("submit") /\ now >= Arrivals[main.i] /\ pool.permits > 0
  /\ pool' = [permits |-> pool.permits - 1, count |-> pool.count + 1,
              peak |-> Max({pool.peak, pool.count + 1})]
  /\ req' = [req EXCEPT ![main.i].st = "submitted"]
  /\ main' = IF main.i + 1 \in Requests THEN [main EXCEPT !.i = @ + 1]
             ELSE [main EXCEPT !.pc = "drain"]
  /\ UNCHANGED <<now, disk, week03, attempt, runs>>

\* executor.submit fails, and gives the count and the permit back; or the sleep or the wait
\* before it is interrupted. What was submitted still runs.
Interrupted ==
  /\ At("submit") /\ main' = [Idle EXCEPT !.pc = "unwind"]
  /\ UNCHANGED <<pool, req, now, disk, week03, attempt, runs>>

\* The executor joins its threads before the exception leaves it.
Unwind ==
  /\ At("unwind") /\ \A r \in Requests : req[r].st \in {"waiting", "released"}
  /\ main' = Idle /\ pool' = FullPool /\ req' = NoRequests /\ now' = 0
  /\ UNCHANGED <<disk, week03, attempt, runs>>

Lag(r) == req[r].at - Arrivals[r]

Rank(percent) ==
  Min({Lag(r) : r \in {r \in Measured :
    100 * Cardinality({s \in Measured : Lag(s) <= Lag(r)}) >= percent * Cardinality(Measured)}})

\* _nearest_rank(lag, 0.99)
P99Lag == Rank(99)

\* What the gate is for.
OnTime == 100 * Cardinality({r \in Measured : Lag(r) > LagLimit}) <= Cardinality(Measured)

\* The executor has joined its threads, and every future has a result.
Collect ==
  /\ At("drain") /\ \A r \in Requests : req[r].st = "released"
  /\ IF \E r \in Requests : req[r].raised
     THEN main' = Idle /\ UNCHANGED disk      \* future.result() raises
     ELSE /\ disk' = [disk EXCEPT !.artifact[main.case] =
               [replay |-> runs, attempt |-> main.ident, trace |-> main.rows,
                passed  |-> P99Lag <= LagLimit,
                onTime  |-> OnTime,
                own     |-> \A r \in Requests : req[r].by \in {0, main.ident}]]
          /\ main' = IF main.all THEN [main EXCEPT !.pc = "gate"] ELSE Idle
  /\ pool' = FullPool /\ req' = NoRequests /\ now' = 0
  /\ UNCHANGED <<week03, attempt, runs>>

(***************************************************************************)
(* execute_trace: the worker threads, and release_capacity                 *)
(***************************************************************************)
StartRequest(r) ==
  /\ req[r].st = "submitted"
  /\ req' = [req EXCEPT ![r] = [st |-> "running", at |-> now, raised |-> FALSE,
                                by |-> attempt]]
  /\ UNCHANGED <<main, pool, now, disk, week03, attempt, runs>>

\* A completed answer is one server's, whole; otherwise the record says error or timeout,
\* or there is none.
FinishRequest(r) ==
  /\ req[r].st = "running"
  /\ \/ /\ req[r].by = attempt            \* completed
        /\ req' = [req EXCEPT ![r].st = "finished"]
     \/ req' = [req EXCEPT ![r] = [@ EXCEPT !.st = "finished", !.by = 0]]
     \/ req' = [req EXCEPT ![r] = [NoRequest EXCEPT !.st = "finished", !.raised = TRUE]]
  /\ UNCHANGED <<main, pool, now, disk, week03, attempt, runs>>

\* Mutant: the capacity of a request that raises is not given back.
Counted_Ok(r) == req[r].st = "finished" /\ ~req[r].raised

Counted(r) == req[r].st = "finished"

\* Mutant: the permit is given back before the request is counted out.
Uncount_Late(r) ==
  /\ Counted(r)
  /\ req' = [req EXCEPT ![r].st = "counted out"]
  /\ pool' = [pool EXCEPT !.permits = @ + 1]
  /\ UNCHANGED <<main, now, disk, week03, attempt, runs>>

Uncount(r) ==
  /\ Counted(r)
  /\ req' = [req EXCEPT ![r].st = "counted out"]
  /\ pool' = [pool EXCEPT !.count = @ - 1]
  /\ UNCHANGED <<main, now, disk, week03, attempt, runs>>

Release(r) ==
  /\ req[r].st = "counted out"
  /\ req' = [req EXCEPT ![r].st = "released"]
  /\ pool' = [pool EXCEPT !.permits = @ + 1]
  /\ UNCHANGED <<main, now, disk, week03, attempt, runs>>

(***************************************************************************)
(* Around the client                                                       *)
(***************************************************************************)
Tick ==
  /\ main.pc \in {"submit", "drain"} /\ now < Horizon
  /\ now' = now + 1
  /\ UNCHANGED <<main, pool, req, disk, week03, attempt, runs>>

\* The server dies or is stopped, and another one starts.
Restart ==
  /\ attempt < MaxAttempts
  /\ attempt' = attempt + 1
  /\ UNCHANGED <<main, pool, req, now, disk, week03, runs>>

\* What Week 3 does during a replay is as if done after it: no thread reads those files, and
\* Collect does not either.
BetweenReplays == main.pc \in {"idle", "case", "gate"} /\ week03.files <= MaxWeek03

\* Another Week 3 run, to its report or not.  It draws the same traces (the calibrated rates
\* are the same) or others.
RunWeek03 ==
  /\ BetweenReplays
  /\ \E t \in {week03.trace, week03.run + 1}, whole \in BOOLEAN :
       week03' = [week03 EXCEPT !.run = @ + 1, !.whole = whole, !.trace = t, !.files = @ + 1]
  /\ UNCHANGED <<main, pool, req, now, disk, attempt, runs>>

\* verify_week03.py, main: the receipt holds the status file's hash and the status file the
\* time, so each verification changes both, also of evidence that was verified before.
VerifyWeek03 ==
  /\ BetweenReplays /\ Verifies
  /\ week03' = [week03 EXCEPT !.receipt = week03.run, !.files = @ + 1]
  /\ UNCHANGED <<main, pool, req, now, disk, attempt, runs>>

Killed ==
  /\ ~At("idle")
  /\ main' = Idle /\ pool' = FullPool /\ req' = NoRequests /\ now' = 0
  /\ UNCHANGED <<disk, week03, attempt, runs>>

MainStep ==
  NextCase \/ PublishManifest \/ Gate \/ Submit \/ Collect \/ Unwind

WorkerStep(r) == StartRequest(r) \/ FinishRequest(r) \/ Uncount(r) \/ Release(r)

ReplayNext ==
  \/ Begin \/ MainStep \/ Interrupted \/ (\E r \in Requests : WorkerStep(r)) \/ Tick
  \/ Restart \/ RunWeek03 \/ VerifyWeek03 \/ Killed

\* The threads run, time passes, and a request ends (StreamRequest's RequestEnds).
ReplaySpec ==
  /\ ReplayInit /\ [][ReplayNext]_replayVars
  /\ WF_replayVars(MainStep) /\ WF_replayVars(Tick)
  /\ WF_replayVars(\E r \in Requests : WorkerStep(r))

(***************************************************************************)
(* verify_week04.py: _verify_comparison_manifest                           *)
(***************************************************************************)
\* The hashes of the Week 3 files, and the plan drawn again from verified evidence: the
\* manifest's records are of the current server attempt, cover the plan and pass the gate.
RecordsAccepted(m) ==
  /\ m.attempt = attempt /\ m.week03 = week03.files /\ Verified
  /\ \A c \in Cases : LET a == m.artifact[c]
                      IN  a.attempt = m.attempt /\ a.trace = week03.trace /\ a.passed

\* Each artifact is the file that the manifest hashed and copied, row by row of the traces.
ArtifactsAccepted(m) ==
  \A c \in Cases : m.artifact[c] = disk.artifact[c] /\ disk.artifact[c].trace = week03.trace

Accepted(m) == RecordsAccepted(m) /\ ArtifactsAccepted(m)

(***************************************************************************)
(* Properties                                                              *)
(***************************************************************************)
InFlight == {r \in Requests : req[r].st \in {"submitted", "running", "finished"}}

\* The requests between submission and the end of their future are never more than
\* max_workers, the counter is exact, and so is the maximum that is published.
InFlightBounded ==
  /\ pool.count = Cardinality(InFlight)
  /\ pool.count <= pool.peak /\ pool.peak <= Workers

\* Every artifact of a manifest is of the attempt the manifest names, and not more than one
\* in a hundred of its measured requests started later than the limit, whoever replayed it
\* and when.
ManifestHonest ==
  LET m == disk.manifest
  IN  m # NoManifest => \A c \in Cases : /\ m.artifact[c].attempt = m.attempt
                                         /\ m.artifact[c].onTime

\* The client read the server's attempt once, at its start, and yet an accepted manifest holds
\* answers of that attempt only; its plan was of verified Week 3 evidence, once, and yet all
\* its replays are of the traces of the evidence that is verified now.
AcceptedIsOneServer ==
  LET m == disk.manifest
  IN  Accepted(m) => \A c \in Cases : /\ m.artifact[c].own
                                      /\ m.artifact[c].onTime
                                      /\ m.artifact[c].trace = week03.trace

\* What the client publishes is accepted, for as long as the server, the Week 3 files it
\* verified and the artifacts stay what they were, and whatever happened before.
PublishedIsAccepted ==
  LET m == disk.manifest
  IN  /\ m # NoManifest /\ m.attempt = attempt
      /\ m.planned = week03.files /\ m.artifact = disk.artifact
      => Accepted(m)

\* Whoever reads a manifest reads the results of one server and of one healthy replay of the
\* traces of one Week 3 run.
EvidenceHonest == ManifestHonest /\ AcceptedIsOneServer /\ PublishedIsAccepted

\* A run of the client ends: capacity always comes back.
ReplayEnds == ~At("idle") ~> At("idle")
=============================================================================
