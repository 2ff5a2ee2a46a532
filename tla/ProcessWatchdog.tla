--------------------------- MODULE ProcessWatchdog --------------------------
(***************************************************************************)
(* src/process_watchdog.py: run_with_watchdog runs one command of a caller *)
(* in a process group of its own, under a timeout.  The command may leave  *)
(* other processes in its group, and only the whole group is signalled.    *)
(***************************************************************************)
EXTENDS Integers

CONSTANT Watchers   (* Who runs commands under a watchdog.                 *)

VARIABLE dog        (* The last watchdog of each.                          *)

\* leader, rest: the command and its other processes are alive; ret: how the command
\* exited, while that is asked for; code: what the watchdog will return or has returned; signalled: it has
\* signalled the group.
NoDog == [pc |-> "off", leader |-> FALSE, rest |-> FALSE, ret |-> "none",
          code |-> "none", signalled |-> FALSE]

DogInit == dog = [c \in Watchers |-> NoDog]

Watching(c) == dog[c].pc # "off"

GroupLives(c) == dog[c].leader \/ dog[c].rest

\* Popen(start_new_session=True)
Watch(c) == dog' = [dog EXCEPT ![c] = [NoDog EXCEPT !.pc = "wait", !.leader = TRUE]]

\* The caller has seen the exit code.
Seen(c) == dog' = [dog EXCEPT ![c] = NoDog]

\* process.wait returned in time.
Reaped(c) ==
  /\ dog[c].pc = "wait" /\ ~dog[c].leader
  /\ dog' = [dog EXCEPT ![c].pc = "off", ![c].code = dog[c].ret]

TermGroup(c, code) ==
  dog' = [dog EXCEPT ![c].pc = "term", ![c].code = code, ![c].signalled = TRUE,
                     ![c].ret = "none"]

\* Mutant: the command is waited for without a timeout.
TimesOut_Never(c) == FALSE

TimesOut(c) == dog[c].pc = "wait" /\ dog[c].leader /\ TermGroup(c, "timed_out")

WaitedFor(c) == GroupLives(c)

GroupGone(c) ==
  /\ dog[c].pc \in {"term", "kill"} /\ ~WaitedFor(c)
  /\ dog' = [dog EXCEPT ![c].pc = "off"]

\* The grace period is over.  The kernel cannot end every process at once.
KillDog(c) ==
  /\ dog[c].pc = "term" /\ WaitedFor(c)
  /\ \E alive \in BOOLEAN :
       dog' = [dog EXCEPT ![c].pc = "kill", ![c].leader = @ /\ alive, ![c].rest = alive]

\* RuntimeError: the group survived SIGKILL.
Survived(c) ==
  /\ dog[c].pc = "kill" /\ WaitedFor(c)
  /\ dog' = [dog EXCEPT ![c].pc = "off", ![c].code = "failed"]

\* KeyboardInterrupt: handled once, also while a timeout is being handled.
DogInterrupted(c) ==
  /\ Watching(c)
  /\ IF dog[c].code = "interrupted"
     THEN dog' = [dog EXCEPT ![c].pc = "off", ![c].code = "failed"]
     ELSE TermGroup(c, "interrupted")

DogSteps(c) == Reaped(c) \/ TimesOut(c) \/ GroupGone(c) \/ KillDog(c) \/ Survived(c)

(***************************************************************************)
(* The command                                                             *)
(***************************************************************************)
CommandExits(c) ==
  /\ dog[c].leader
  /\ \E ret \in (IF dog[c].pc = "wait" THEN {"completed", "failed"} ELSE {"none"}), rest \in BOOLEAN :
       dog' = [dog EXCEPT ![c].leader = FALSE, ![c].rest = rest, ![c].ret = ret]

RestExit(c) ==
  /\ Watching(c) /\ dog[c].rest
  /\ dog' = [dog EXCEPT ![c].rest = FALSE]

Command(c) == CommandExits(c) \/ RestExit(c)

(***************************************************************************)
(* Properties                                                              *)
(***************************************************************************)
\* A watchdog reports a completed command only if the command exited by itself, with
\* no signal sent (a command that obeys TERM with exit 0 has timed out); and when it
\* reports a timeout or an interruption, no process of the group is left.
VerdictHonest ==
  \A c \in Watchers :
    /\ dog[c].code = "completed" => ~dog[c].signalled
    /\ ~Watching(c) /\ dog[c].code \in {"timed_out", "interrupted"} => ~GroupLives(c)
=============================================================================
