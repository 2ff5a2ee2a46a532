---------------------------- MODULE VllmLifecycle ---------------------------
(***************************************************************************)
(* scripts/start_vllm.py: start, wait and stop of the one vLLM server of a *)
(* Week 4 run, invoked by several callers, among the processes of the      *)
(* operating system.  A step is what an invocation does between two        *)
(* observations of the processes, the port or the files.                   *)
(*                                                                         *)
(* Every start that reaches Popen is an attempt, numbered in order; its    *)
(* process group has the pid of its leader for a name.  All invocations    *)
(* are of one run with one configuration.  A pid whose group is gone may   *)
(* be taken by a foreign process, but not between two polls of a stop that *)
(* last saw the group alive (a tenth of a second), nor before who launched *)
(* it has reaped it.                                                       *)
(***************************************************************************)
EXTENDS Integers, FiniteSets

CONSTANTS
  Callers,      (* Who invokes the script.                                 *)
  MaxAttempts,  (* Bound: servers started.                                 *)
  MaxForeign    (* Bound: foreign processes that take a pid or the port.   *)

ASSUME LifecycleAssumption ==
  MaxAttempts \in Nat /\ MaxForeign \in Nat /\ 0 \notin Callers   \* 0 is Nobody

Attempts == 1..MaxAttempts

VARIABLES
  lock,      (* Holder of the lifecycle lock.                              *)
  record,    (* The PID metadata file.                                     *)
  snapshot,  (* The attempt that the models snapshot names.                *)
  published, (* Other server-backed evidence: pairs of an artifact and the *)
             (* attempt it names.  Only a composing module publishes.      *)
  leader,    (* The attempts whose leader is alive.                        *)
  workers,   (* The attempts that have other processes alive.              *)
  reused,    (* The attempts whose pid a foreign process has taken.        *)
  port,      (* Who listens on the configured port.                        *)
  op,        (* The invocation of each caller.                             *)
  launched,  (* Number of attempts so far.                                 *)
  foreigns,  (* Foreign processes so far.                                  *)
  lost,      (* History: attempts whose start ended without a record of a  *)
             (* server that may live on.                                   *)
  struck     (* History: a signal was sent to a foreign process.           *)

os == <<leader, workers, reused, port, launched, foreigns, struck>>
disk == <<record, snapshot, published, lost>>
lifecycleVars == <<lock, disk, os, op>>

Nobody == 0
Closed == 0
Foreigner == -1
NoSnapshot == 0

NoRecord == [attempt |-> 0, state |-> "none", identified |-> FALSE, grouped |-> FALSE]

\* k: the attempt it is about; own: the one it launched; gone: it has seen the group
\* gone; cmd: the command, where "undo" is the stop inside a failed start; ok: how the
\* last one ended.
NoOp == [pc |-> "idle", k |-> 0, own |-> 0, gone |-> FALSE, cmd |-> "none", ok |-> TRUE]

Invoked(c, cmd, pc) == op' = [op EXCEPT ![c] = [NoOp EXCEPT !.cmd = cmd, !.pc = pc]]

LifecycleInit ==
  /\ lock = Nobody
  /\ record = NoRecord
  /\ snapshot = NoSnapshot /\ published = {}
  /\ leader = {} /\ workers = {} /\ reused = {}
  /\ port = Closed
  /\ op = [c \in Callers |-> NoOp]
  /\ launched = 0 /\ foreigns = 0
  /\ lost = {}
  /\ struck = FALSE

At(c, pc) == op[c].pc = pc

Goto(c, pc) == op' = [op EXCEPT ![c].pc = pc]

Return(c, ok) ==
  op' = [op EXCEPT ![c] = [NoOp EXCEPT !.ok = ok /\ op[c].cmd # "undo"]]

(***************************************************************************)
(* What an invocation observes                                             *)
(***************************************************************************)
\* The start that launched a server is its parent and never reaps it.
Defunct(k) ==
  /\ k \notin leader
  /\ \E c \in Callers :
       op[c].own = k /\ op[c].pc \notin {"idle", "identify", "cleanup", "record failure"}

\* A defunct leader answers signal 0.
group_exists(k) == k \in leader \cup workers \cup reused \/ Defunct(k)

PortOpen == port # Closed

\* The start identity and argv behind a pid: the recorded ones, other ones, or nobody's.  A
\* defunct leader has lost its argv.
process_snapshot(k) ==
  IF k \in leader THEN "same" ELSE IF k \in reused \/ Defunct(k) THEN "other" ELSE "none"

\* Seen twice alike, while the leader lived.
capture_process_identity(k) == process_snapshot(k) = "same"

ownership_status(r) ==
  LET seen == process_snapshot(r.attempt)
  IN  IF seen = "none" THEN "not_running"
      ELSE IF ~r.identified THEN "unverifiable"
      ELSE IF seen = "same" THEN "owned_running" ELSE "not_owned"

\* The record has the group and session of a leader that we started; and if the leader is
\* required, it is alive and the same.
validate_owned_process_group(r, require_leader) ==
  r.grouped /\ (require_leader => ownership_status(r) = "owned_running")

completed_server_evidence == snapshot # NoSnapshot \/ published # {}

\* SIGTERM decides nothing: a leader may exit at any time.  A killed group is gone,
\* except for processes the kernel cannot end yet.
Term(k) ==
  /\ struck' = (struck \/ (k \in reused))
  /\ UNCHANGED <<leader, workers, reused, port, launched, foreigns>>

KillGroup(k) ==
  /\ struck' = (struck \/ (k \in reused))
  /\ \/ /\ leader' = leader \ {k}
        /\ workers' = workers \ {k}
        /\ port' = IF port = k THEN Closed ELSE port
     \/ UNCHANGED <<leader, workers, port>>
  /\ UNCHANGED <<reused, launched, foreigns>>

(***************************************************************************)
(* start                                                                   *)
(***************************************************************************)
Start(c) ==
  /\ At(c, "idle")
  /\ Invoked(c, "start", "check")
  /\ UNCHANGED <<lock, disk, os>>

\* The plan, the version or the capabilities are refused.
PreflightFails(c) ==
  /\ At(c, "check")
  /\ Return(c, FALSE)
  /\ UNCHANGED <<lock, disk, os>>

MayStart ==
  /\ ownership_status(record) # "owned_running"
  /\ ~PortOpen
  /\ ~completed_server_evidence

StartRefused(c) ==
  /\ At(c, "check") /\ lock = Nobody
  /\ ~MayStart
  /\ Return(c, FALSE)
  /\ UNCHANGED <<lock, disk, os>>

\* Mutant: the state is checked, and the lock is not held after that.
StartChecked_Unlocked(c) ==
  /\ At(c, "check") /\ lock = Nobody
  /\ MayStart
  /\ Goto(c, "launch")
  /\ UNCHANGED <<lock, disk, os>>

StartChecked(c) ==
  /\ At(c, "check") /\ lock = Nobody
  /\ MayStart
  /\ lock' = c
  /\ Goto(c, "launch")
  /\ UNCHANGED <<disk, os>>

\* Popen(start_new_session=True) ...
Launch(c) ==
  /\ At(c, "launch") /\ launched < MaxAttempts
  /\ launched' = launched + 1
  /\ leader' = leader \cup {launched + 1}
  /\ op' = [op EXCEPT ![c].pc = "identify", ![c].k = launched + 1,
                              ![c].own = launched + 1]
  /\ UNCHANGED <<lock, disk, workers, reused, port, foreigns, struck>>

\* ... or OSError.
LaunchFails(c) ==
  /\ At(c, "launch")
  /\ lock' = Nobody
  /\ Return(c, FALSE)
  /\ UNCHANGED <<disk, os>>

RecordStart(c) ==
  /\ At(c, "identify") /\ capture_process_identity(op[c].k)
  /\ record' = [attempt |-> op[c].k, state |-> "starting",
                identified |-> TRUE, grouped |-> TRUE]
  /\ lock' = Nobody
  /\ Goto(c, "read")
  /\ UNCHANGED <<snapshot, published, lost, os>>

\* --no-wait
RecordStartNoWait(c) ==
  /\ At(c, "identify") /\ capture_process_identity(op[c].k)
  /\ record' = [attempt |-> op[c].k, state |-> "starting",
                identified |-> TRUE, grouped |-> TRUE]
  /\ lock' = Nobody
  /\ Return(c, TRUE)
  /\ UNCHANGED <<snapshot, published, lost, os>>

\* The identity is not stable, or the leader exits after its group was captured:
\* cleanup_unrecorded_process_group.
Unidentified(c) ==
  /\ At(c, "identify")
  /\ Goto(c, IF group_exists(op[c].k) THEN "cleanup" ELSE "record failure")
  /\ IF group_exists(op[c].k) THEN Term(op[c].k) ELSE UNCHANGED os
  /\ UNCHANGED <<lock, disk>>

\* The leader exits before its group is captured: the cleanup is refused.
Ungrouped(c) ==
  /\ At(c, "identify") /\ op[c].k \notin leader
  /\ record' = [attempt |-> op[c].k, state |-> "startup_failed",
                identified |-> FALSE, grouped |-> FALSE]
  /\ lock' = Nobody
  /\ Return(c, FALSE)
  /\ UNCHANGED <<snapshot, published, lost, os>>

\* Polled until the group and the port are gone, or the time is up: then KILL.
CleanupKill(c) ==
  /\ At(c, "cleanup") /\ group_exists(op[c].k)
  /\ KillGroup(op[c].k)
  /\ Goto(c, "record failure")
  /\ UNCHANGED <<lock, disk>>

\* The group is gone; the port may still be open.
CleanupDone(c) ==
  /\ At(c, "cleanup") /\ ~group_exists(op[c].k)
  /\ Goto(c, "record failure")
  /\ UNCHANGED <<lock, disk, os>>

\* A leader that KILL could not end stays behind.
record_startup_failure(c) ==
  /\ At(c, "record failure")
  /\ lost' = IF op[c].k \in leader THEN lost \cup {op[c].k} ELSE lost
  /\ record' = [attempt |-> op[c].k, state |-> "startup_failed",
                identified |-> FALSE, grouped |-> TRUE]
  /\ lock' = Nobody
  /\ Return(c, FALSE)
  /\ UNCHANGED <<snapshot, published, os>>

(***************************************************************************)
(* wait_until_ready, within start or by itself: it reads the record anew   *)
(* and goes on with what it read, without the lock                         *)
(***************************************************************************)
Wait(c) ==
  /\ At(c, "idle")
  /\ Invoked(c, "wait", "read")
  /\ UNCHANGED <<lock, disk, os>>

ReadRecord(c) ==
  /\ At(c, "read") /\ ownership_status(record) = "owned_running"
  /\ op' = [op EXCEPT ![c].pc = "wait", ![c].k = record.attempt]
  /\ UNCHANGED <<lock, disk, os>>

Held(c) == [attempt |-> op[c].k, state |-> "starting",
            identified |-> TRUE, grouped |-> TRUE]

\* Both endpoints answered, and the process was owned before each request.
Answered(c) ==
  /\ At(c, "wait") /\ ownership_status(Held(c)) = "owned_running" /\ port = op[c].k
  /\ Goto(c, "publish")
  /\ UNCHANGED <<lock, disk, os>>

\* The snapshot is written before the record is looked at again.
PublishSnapshot(c) ==
  /\ At(c, "publish")
  /\ snapshot' = op[c].k
  /\ Goto(c, "mark ready")
  /\ UNCHANGED <<record, published, lost, lock, os>>

StillHeld(c) == record.attempt = op[c].k /\ ownership_status(record) = "owned_running"

MarkReady(c) ==
  /\ At(c, "mark ready") /\ lock = Nobody
  /\ StillHeld(c)
  /\ record' = [record EXCEPT !.state = "ready"]
  /\ Return(c, TRUE)
  /\ UNCHANGED <<snapshot, published, lost, lock, os>>

\* A wait by itself reports its failure; the one in start records it and stops.
WaitFailed(c) ==
  IF op[c].cmd = "wait" THEN Return(c, FALSE) ELSE Goto(c, "mark failed")

WaitFails(c) ==
  /\ \/ At(c, "read") /\ ownership_status(record) # "owned_running"
     \/ At(c, "wait")     \* not owned any more, or the time is up
     \/ At(c, "mark ready") /\ lock = Nobody /\ ~StillHeld(c)
  /\ WaitFailed(c)
  /\ UNCHANGED <<lock, disk, os>>

MarkFailed(c) ==
  /\ At(c, "mark failed") /\ lock = Nobody
  /\ record' = IF record.attempt = op[c].own
               THEN [record EXCEPT !.state = "readiness_failed"] ELSE record
  /\ op' = [op EXCEPT ![c] = [NoOp EXCEPT !.cmd = "undo", !.pc = "stop", !.own = op[c].own]]
  /\ UNCHANGED <<snapshot, published, lost, lock, os>>

(***************************************************************************)
(* stop                                                                    *)
(***************************************************************************)
Stop(c) ==
  /\ At(c, "idle")
  /\ Invoked(c, "stop", "stop")
  /\ UNCHANGED <<lock, disk, os>>

NothingToStop(c) ==
  /\ At(c, "stop") /\ lock = Nobody
  /\ record = NoRecord
  /\ Return(c, ~PortOpen)
  /\ UNCHANGED <<lock, disk, os>>

\* A group without its leader is not signalled; what holds the port is not ours.
StopRefused(c) ==
  /\ At(c, "stop") /\ lock = Nobody
  /\ record # NoRecord
  /\ \/ ~validate_owned_process_group(record, FALSE)
     \/ ownership_status(record) \in {"unverifiable", "not_owned"}
     \/ /\ ownership_status(record) = "not_running"
        /\ group_exists(record.attempt) \/ PortOpen
  /\ Return(c, FALSE)
  /\ UNCHANGED <<lock, disk, os>>

StopFindsItGone(c) ==
  /\ At(c, "stop") /\ lock = Nobody
  /\ validate_owned_process_group(record, FALSE) /\ ownership_status(record) = "not_running"
  /\ ~group_exists(record.attempt) /\ ~PortOpen
  /\ record' = [record EXCEPT !.state = "stopped"]
  /\ Return(c, TRUE)
  /\ UNCHANGED <<snapshot, published, lost, lock, os>>

\* The signal is sent under the lock; the wait for its effect is not.
StopTerm(c) ==
  /\ At(c, "stop") /\ lock = Nobody
  /\ validate_owned_process_group(record, TRUE)
  /\ Term(record.attempt)
  /\ op' = [op EXCEPT ![c].pc = "term", ![c].k = record.attempt]
  /\ UNCHANGED <<lock, disk>>

\* A poll of wait_for_group_and_port_closed after which it goes on.
PollAgain(c) ==
  /\ At(c, "term") /\ ~group_exists(op[c].k) /\ PortOpen
  /\ op' = [op EXCEPT ![c].gone = TRUE]
  /\ UNCHANGED <<lock, disk, os>>

PollClosed(c) ==
  /\ op[c].pc \in {"term", "kill"} /\ ~group_exists(op[c].k) /\ ~PortOpen
  /\ Goto(c, "mark stopped")
  /\ UNCHANGED <<lock, disk, os>>

\* Mutant: a group that vanished and came back is taken for the old one.
MayKill_Ever(c) == group_exists(op[c].k) \/ PortOpen

MayKill(c) == (group_exists(op[c].k) \/ PortOpen) /\ ~op[c].gone /\ group_exists(op[c].k)

\* The time is up.
StopKill(c) ==
  /\ At(c, "term") /\ MayKill(c)
  /\ KillGroup(op[c].k)
  /\ Goto(c, "kill")
  /\ UNCHANGED <<lock, disk>>

StopGivesUp(c) ==
  /\ \/ At(c, "term") /\ op[c].gone
     \/ At(c, "kill")
  /\ group_exists(op[c].k) \/ PortOpen
  /\ Return(c, FALSE)
  /\ UNCHANGED <<lock, disk, os>>

MarkStopped(c) ==
  /\ At(c, "mark stopped") /\ lock = Nobody
  /\ record.attempt = op[c].k
  /\ record' = [record EXCEPT !.state = "stopped"]
  /\ Return(c, TRUE)
  /\ UNCHANGED <<snapshot, published, lost, lock, os>>

MarkOvertaken(c) ==
  /\ At(c, "mark stopped") /\ lock = Nobody
  /\ record.attempt # op[c].k
  /\ Return(c, FALSE)
  /\ UNCHANGED <<lock, disk, os>>

Progress(c) ==
  \/ PreflightFails(c) \/ StartRefused(c) \/ StartChecked(c) \/ Launch(c) \/ LaunchFails(c)
  \/ RecordStart(c) \/ Unidentified(c) \/ Ungrouped(c)
  \/ CleanupKill(c) \/ CleanupDone(c) \/ record_startup_failure(c)
  \/ ReadRecord(c) \/ Answered(c) \/ PublishSnapshot(c) \/ MarkReady(c) \/ WaitFails(c) \/ MarkFailed(c)
  \/ NothingToStop(c) \/ StopRefused(c) \/ StopFindsItGone(c) \/ StopTerm(c)
  \/ PollAgain(c) \/ PollClosed(c) \/ StopKill(c) \/ StopGivesUp(c)
  \/ MarkStopped(c) \/ MarkOvertaken(c)

(***************************************************************************)
(* The operating system                                                    *)
(***************************************************************************)
osRest == <<lock, disk, op, launched, struck>>

\* The server has loaded its model; by then it has worker processes.
Serve(k) ==
  /\ k \in leader /\ port = Closed
  /\ port' = k
  /\ workers' = workers \cup {k}
  /\ UNCHANGED <<leader, reused, foreigns, osRest>>

\* It crashes, cannot bind, or obeys SIGTERM.
LeaderExits(k) ==
  /\ k \in leader
  /\ leader' = leader \ {k}
  /\ port' = IF port = k THEN Closed ELSE port
  /\ UNCHANGED <<workers, reused, foreigns, osRest>>

WorkersExit(k) ==
  /\ k \in workers \ leader
  /\ workers' = workers \ {k}
  /\ UNCHANGED <<leader, reused, port, foreigns, osRest>>

Polled(k) ==
  \E c \in Callers : op[c].k = k /\ op[c].pc \in {"identify", "cleanup", "term"} /\ ~op[c].gone

ForeignTakesPid(k) ==
  /\ foreigns < MaxForeign
  /\ k <= launched /\ ~group_exists(k) /\ ~Polled(k)
  /\ reused' = reused \cup {k}
  /\ foreigns' = foreigns + 1
  /\ UNCHANGED <<leader, workers, port, osRest>>

ForeignTakesPort ==
  /\ foreigns < MaxForeign /\ port = Closed
  /\ port' = Foreigner
  /\ foreigns' = foreigns + 1
  /\ UNCHANGED <<leader, workers, reused, osRest>>

OperatingSystem ==
  \/ \E k \in Attempts : Serve(k) \/ LeaderExits(k) \/ WorkersExit(k) \/ ForeignTakesPid(k)
  \/ ForeignTakesPort

\* SIGINT while c's invocation runs.  The wait in start cleans up; everything else
\* is left as it is, and the lock is released.
Interrupted(c) ==
  /\ ~At(c, "idle")
  /\ IF op[c].cmd = "start" /\ op[c].pc \in {"read", "wait", "publish", "mark ready"}
     THEN Goto(c, "mark failed")
     ELSE Return(c, FALSE)
  /\ lost' = IF op[c].pc \in {"identify", "cleanup", "record failure"}
             THEN lost \cup {op[c].k} ELSE lost
  /\ lock' = IF lock = c THEN Nobody ELSE lock
  /\ UNCHANGED <<record, snapshot, published, os>>
=============================================================================
