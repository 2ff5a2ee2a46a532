-------------------------- MODULE Week04RunProofs ---------------------------
(***************************************************************************)
(* Whom the Week 4 run signals, which server it has on record, whose       *)
(* results it publishes and what its status file promises, for any number  *)
(* of invocations, server attempts, foreign processes, signals,            *)
(* preemptions and benchmark cases.                                        *)
(***************************************************************************)
EXTENDS Week04Run, TLAPS

USE LifecycleAssumption, Week04Assumption

(***************************************************************************)
(* The invariant                                                           *)
(***************************************************************************)
Numbered == 0..launched

Pcs == {"idle", "check", "launch", "identify", "cleanup", "record failure", "read", "wait", "publish",
        "mark ready", "mark failed", "stop", "term", "kill", "mark stopped"}

Invocation == [pc : Pcs, k : Numbered, own : Numbered, gone : BOOLEAN,
               cmd : {"none", "start", "wait", "stop", "undo"}, ok : BOOLEAN]

States == {"none", "starting", "startup_failed", "ready", "readiness_failed", "stopped"}

LifecycleTypeOK ==
  /\ launched \in Nat
  /\ record \in [attempt : Numbered, state : States, identified : BOOLEAN, grouped : BOOLEAN]
  /\ op \in [Callers -> Invocation]
  /\ leader \subseteq 1..launched /\ reused \subseteq 1..launched

\* The steps of a start that holds the lock; all but the first have a server of their own.
Critical == {"launch", "identify", "cleanup", "record failure"}
HasServer == Critical \ {"launch"}

\* A live leader's pid is its own, and so is a pid that somebody polls until he is to act on it.
PidsKept ==
  /\ \A k \in leader : k \notin reused
  /\ \A c \in Callers :
       /\ op[c].pc \in {"check", "launch", "identify", "cleanup"} => ~op[c].gone
       /\ op[c].pc \in {"identify", "cleanup", "term"} /\ ~op[c].gone => op[c].k \notin reused
  /\ struck = FALSE

\* The lock is the critical starts' ...
LockKept == \A c \in Callers : op[c].pc \in Critical => lock = c

\* ... and while one runs, no other server lives that nobody has given up.
OneStart ==
  \A c \in Callers :
    /\ op[c].pc = "launch" => leader \subseteq lost
    /\ op[c].pc \in HasServer => op[c].own = op[c].k /\ leader \subseteq lost \cup {op[c].k}

\* A record without an identity is of a server that has died or was given up.
UnidentifiedIsLost == ~record.identified => record.attempt \notin leader \ lost

ServerInv ==
  /\ LifecycleTypeOK /\ PidsKept /\ LockKept /\ OneStart /\ UnidentifiedIsLost /\ LiveIsRecorded

(***************************************************************************)
(* The server                                                              *)
(***************************************************************************)
LEMMA ServerInitHolds == Week04Init => ServerInv
<1>. SUFFICES ASSUME Week04Init PROVE ServerInv
  OBVIOUS
<1>1. /\ launched = 0 /\ leader = {} /\ reused = {} /\ struck = FALSE
      /\ record = NoRecord /\ op = [c \in Callers |-> NoOp]
  BY DEF Week04Init, LifecycleInit
<1>2. 0 \in Numbered
  BY <1>1 DEF Numbered
<1>3. NoOp \in Invocation /\ NoOp.pc = "idle"
  BY <1>2 DEF NoOp, Invocation, Pcs
<1>4. LifecycleTypeOK
  BY <1>1, <1>2, <1>3 DEF LifecycleTypeOK, NoRecord, States
<1>5. PidsKept /\ LockKept /\ OneStart
  BY <1>1, <1>3 DEF PidsKept, LockKept, OneStart, Critical, HasServer
<1>6. UnidentifiedIsLost /\ LiveIsRecorded
  BY <1>1 DEF UnidentifiedIsLost, LiveIsRecorded
<1>. QED
  BY <1>4, <1>5, <1>6 DEF ServerInv

\* A step of a caller that starts no server, leaves pids alone, may give back the lock, and
\* neither enters nor goes on with a critical start.
LEMMA Elsewhere ==
  ASSUME ServerInv, NEW c \in Callers,
         UNCHANGED <<reused, launched, struck>>, leader' \subseteq leader, lost \subseteq lost',
         op[c].pc \notin Critical, lock' = lock \/ lock = c,
         NEW q \in Invocation,
         op' = [op EXCEPT ![c] = q], q.pc \notin Critical,
         q.pc = "check" => ~q.gone, q.pc = "term" /\ ~q.gone => q.k \notin reused,
         record' \in [attempt : {record.attempt}, state : States,
                      identified : {record.identified}, grouped : BOOLEAN]
  PROVE  ServerInv'
<1>0. Numbered' = Numbered /\ Invocation' = Invocation
  BY DEF Numbered, Invocation
<1>2. /\ op' \in [Callers -> Invocation]
      /\ \A d \in Callers : op'[d] = IF d = c THEN q ELSE op[d]
  BY DEF ServerInv, LifecycleTypeOK
<1>1. LifecycleTypeOK'
  BY <1>0, <1>2 DEF ServerInv, LifecycleTypeOK
<1>3. PidsKept'
  BY <1>2 DEF ServerInv, PidsKept, Critical
<1>4. LockKept' /\ OneStart'
  BY <1>2 DEF ServerInv, LockKept, OneStart, Critical, HasServer
<1>5. UnidentifiedIsLost'
  BY DEF ServerInv, UnidentifiedIsLost
<1>6. LiveIsRecorded'
  <2>. SUFFICES ASSUME NEW k \in leader' \ lost', record.attempt # k
                PROVE  \E d \in Callers : op'[d].own = k
                         /\ op'[d].pc \in {"identify", "cleanup", "record failure"}
    BY DEF LiveIsRecorded
  <2>1. PICK d \in Callers : op[d].own = k /\ op[d].pc \in {"identify", "cleanup", "record failure"}
    BY DEF ServerInv, LiveIsRecorded
  <2>2. d # c
    BY <2>1 DEF Critical
  <2>. QED
    BY <1>2, <2>1, <2>2
<1>. QED
  BY <1>1, <1>3, <1>4, <1>5, <1>6 DEF ServerInv

\* Nobody else is in a critical start.
LEMMA Alone ==
  ASSUME ServerInv, NEW c \in Callers, op[c].pc \in Critical
  PROVE  lock = c /\ \A d \in Callers \ {c} : op[d].pc \notin Critical
  BY DEF ServerInv, LockKept

\* A critical start ends, and what it leaves alive is recorded or given up.
LEMMA Leaves ==
  ASSUME ServerInv, NEW c \in Callers, op[c].pc \in Critical,
         UNCHANGED <<leader, reused, launched, struck>>, lock' = Nobody,
         NEW q \in Invocation,
         op' = [op EXCEPT ![c] = q], q.pc \notin Critical \cup {"check", "term"},
         record' \in [attempt : Numbered, state : States, identified : BOOLEAN, grouped : BOOLEAN],
         leader \subseteq lost' \cup {record'.attempt},
         ~record'.identified => record'.attempt \notin leader \ lost'
  PROVE  ServerInv'
<1>1. \A d \in Callers \ {c} : op[d].pc \notin Critical
  BY Alone
<1>2. /\ op' \in [Callers -> Invocation]
      /\ \A d \in Callers : op'[d] = IF d = c THEN q ELSE op[d]
  BY DEF ServerInv, LifecycleTypeOK
<1>3. \A d \in Callers : op'[d].pc \notin Critical
  BY <1>1, <1>2
<1>4. LifecycleTypeOK'
  <2>1. Numbered' = Numbered /\ Invocation' = Invocation
    BY DEF Numbered, Invocation
  <2>. QED
    BY <1>2, <2>1 DEF ServerInv, LifecycleTypeOK
<1>5. PidsKept'
  BY <1>2, <1>3 DEF ServerInv, PidsKept, Critical
<1>6. LockKept' /\ OneStart'
  BY <1>3 DEF LockKept, OneStart, Critical, HasServer
<1>7. UnidentifiedIsLost' /\ LiveIsRecorded'
  BY DEF UnidentifiedIsLost, LiveIsRecorded
<1>. QED
  BY <1>4, <1>5, <1>6, <1>7 DEF ServerInv

\* A critical start goes on with its server.
LEMMA GoesOn ==
  ASSUME ServerInv, NEW c \in Callers, op[c].pc \in {"identify", "cleanup"},
         UNCHANGED <<lock, record, lost, reused, launched, struck>>, leader' \subseteq leader,
         NEW pc \in {"cleanup", "record failure"}, op' = [op EXCEPT ![c].pc = pc]
  PROVE  ServerInv'
<1>. DEFINE q == [op[c] EXCEPT !.pc = pc]
<1>1. op \in [Callers -> Invocation]
  BY DEF ServerInv, LifecycleTypeOK
<1>2. /\ q \in Invocation /\ q.pc = pc
      /\ q.k = op[c].k /\ q.own = op[c].own /\ q.gone = op[c].gone
  BY <1>1 DEF Invocation, Pcs
<1>3. /\ op' \in [Callers -> Invocation]
      /\ \A d \in Callers : op'[d] = IF d = c THEN q ELSE op[d]
  BY <1>1, <1>2
<1>. HIDE DEF q
<1>4. LifecycleTypeOK'
  <2>1. Numbered' = Numbered /\ Invocation' = Invocation
    BY DEF Numbered, Invocation
  <2>. QED
    BY <1>3, <2>1 DEF ServerInv, LifecycleTypeOK
<1>5. PidsKept'
  <2>1. PidsKept
    BY DEF ServerInv
  <2>2. ~op[c].gone /\ op[c].k \notin reused
    BY <2>1 DEF PidsKept
  <2>3. ASSUME NEW d \in Callers
        PROVE  /\ op'[d].pc \in {"check", "launch", "identify", "cleanup"} => ~op'[d].gone
               /\ op'[d].pc \in {"identify", "cleanup", "term"} /\ ~op'[d].gone
                    => op'[d].k \notin reused
    BY <1>2, <1>3, <2>1, <2>2 DEF PidsKept
  <2>. QED
    BY <2>1, <2>3 DEF PidsKept
<1>6. LockKept' /\ OneStart'
  BY <1>2, <1>3 DEF ServerInv, LockKept, OneStart, Critical, HasServer
<1>7. UnidentifiedIsLost'
  BY DEF ServerInv, UnidentifiedIsLost
<1>8. LiveIsRecorded'
  <2>. SUFFICES ASSUME NEW k \in leader' \ lost', record.attempt # k
                PROVE  \E d \in Callers : op'[d].own = k
                         /\ op'[d].pc \in {"identify", "cleanup", "record failure"}
    BY DEF LiveIsRecorded
  <2>1. PICK d \in Callers : op[d].own = k /\ op[d].pc \in {"identify", "cleanup", "record failure"}
    BY DEF ServerInv, LiveIsRecorded
  <2>. QED
    BY <1>2, <1>3, <2>1
<1>. QED
  BY <1>4, <1>5, <1>6, <1>7, <1>8 DEF ServerInv

LEMMA LaunchKeeps == ASSUME ServerInv, NEW c \in Callers, Launch(c) PROVE ServerInv'
<1>. DEFINE n == launched + 1
            q == [op[c] EXCEPT !.pc = "identify", !.k = n, !.own = n]
<1>1. op \in [Callers -> Invocation] /\ launched \in Nat
  BY DEF ServerInv, LifecycleTypeOK
<1>2. Numbered \subseteq Numbered' /\ n \in Numbered' /\ Invocation \subseteq Invocation'
  BY <1>1 DEF Launch, Numbered, Invocation
<1>3. /\ q \in Invocation' /\ q.pc = "identify" /\ q.k = n /\ q.own = n /\ q.gone = op[c].gone
  BY <1>1, <1>2 DEF Invocation, Pcs
<1>4. /\ op' \in [Callers -> Invocation']
      /\ \A d \in Callers : op'[d] = IF d = c THEN q ELSE op[d]
  BY <1>1, <1>2, <1>3 DEF Launch
<1>5. /\ op[c].pc = "launch" /\ leader' = leader \cup {n}
      /\ UNCHANGED <<lock, record, lost, reused, struck>> /\ launched' = n
  BY DEF Launch, At, disk
<1>. HIDE DEF q
<1>6. lock = c /\ \A d \in Callers \ {c} : op[d].pc \notin Critical
  BY <1>5, Alone DEF Critical
<1>7. LifecycleTypeOK'
  BY <1>1, <1>2, <1>4, <1>5 DEF ServerInv, LifecycleTypeOK
<1>8. n \notin reused /\ record.attempt # n
  BY <1>1 DEF ServerInv, LifecycleTypeOK, Numbered
<1>9. PidsKept'
  BY <1>3, <1>4, <1>5, <1>6, <1>8 DEF ServerInv, PidsKept, Critical
<1>10. leader \subseteq lost
  BY <1>5 DEF ServerInv, OneStart
<1>11. LockKept' /\ OneStart'
  BY <1>3, <1>4, <1>5, <1>6, <1>10 DEF ServerInv, LockKept, OneStart, Critical, HasServer
<1>12. UnidentifiedIsLost'
  BY <1>5, <1>8, <1>10 DEF ServerInv, UnidentifiedIsLost
<1>13. op'[c].own = n /\ op'[c].pc = "identify"
  BY <1>3, <1>4
<1>14. LiveIsRecorded'
  BY <1>5, <1>10, <1>13 DEF LiveIsRecorded
<1>. QED
  BY <1>7, <1>9, <1>11, <1>12, <1>14 DEF ServerInv

LEMMA Looks ==
  ASSUME ServerInv, NEW c \in Callers
  PROVE  /\ op \in [Callers -> Invocation] /\ op[c] \in Invocation
         /\ NoOp \in Invocation /\ NoOp.pc = "idle"
         /\ \A ok \in BOOLEAN :
              [NoOp EXCEPT !.ok = ok] \in Invocation /\ [NoOp EXCEPT !.ok = ok].pc = "idle"
<1>1. op \in [Callers -> Invocation] /\ 0 \in Numbered
  BY DEF ServerInv, LifecycleTypeOK, Numbered
<1>. QED
  BY <1>1 DEF NoOp, Invocation, Pcs

\* An invocation that is not in a critical start ends.
LEMMA Returns ==
  ASSUME ServerInv, NEW c \in Callers, NEW ok \in BOOLEAN, Return(c, ok),
         op[c].pc \notin Critical, UNCHANGED os, UNCHANGED <<lock, lost>>,
         record' \in [attempt : {record.attempt}, state : States,
                      identified : {record.identified}, grouped : BOOLEAN]
  PROVE  ServerInv'
<1>. DEFINE q == [NoOp EXCEPT !.ok = ok /\ op[c].cmd # "undo"]
<1>1. q \in Invocation /\ q.pc = "idle" /\ op' = [op EXCEPT ![c] = q]
  BY Looks DEF Return
<1>. HIDE DEF q
<1>. QED
  BY <1>1, Elsewhere DEF os, Critical

\* An invocation that is not in a critical start goes on to a step that is not, either.
LEMMA Proceeds ==
  ASSUME ServerInv, NEW c \in Callers, UNCHANGED os, UNCHANGED <<lock, lost>>,
         op[c].pc \notin Critical, NEW pc \in Pcs \ (Critical \cup {"check", "term"}), Goto(c, pc),
         record' \in [attempt : {record.attempt}, state : States,
                      identified : {record.identified}, grouped : BOOLEAN]
  PROVE  ServerInv'
<1>. DEFINE q == [op[c] EXCEPT !.pc = pc]
<1>1. q \in Invocation /\ q.pc = pc /\ op' = [op EXCEPT ![c] = q]
  BY Looks DEF Goto, Invocation, Pcs
<1>. HIDE DEF q
<1>. QED
  BY <1>1, Elsewhere DEF os, Critical

LEMMA Records ==
  ASSUME ServerInv
  PROVE  \A s \in States :
           {record, [record EXCEPT !.state = s]}
             \subseteq [attempt : {record.attempt}, state : States,
                         identified : {record.identified}, grouped : BOOLEAN]
  BY DEF ServerInv, LifecycleTypeOK

LEMMA InvokedKeeps ==
  ASSUME ServerInv, NEW c \in Callers, Start(c) \/ Wait(c) \/ Stop(c) PROVE ServerInv'
<1>1. PICK cmd \in {"start", "wait", "stop"}, pc \in {"check", "read", "stop"} : Invoked(c, cmd, pc)
  BY DEF Start, Wait, Stop
<1>. DEFINE q == [NoOp EXCEPT !.cmd = cmd, !.pc = pc]
<1>2. q \in Invocation /\ q.pc = pc /\ ~q.gone /\ op' = [op EXCEPT ![c] = q]
  BY <1>1, Looks DEF Invoked, Invocation, Pcs, NoOp
<1>. HIDE DEF q
<1>3. op[c].pc = "idle" /\ UNCHANGED <<lock, record, lost, leader, reused, launched, struck>>
  BY DEF Start, Wait, Stop, At, disk, os
<1>4. record' \in [attempt : {record.attempt}, state : States,
                   identified : {record.identified}, grouped : BOOLEAN]
  BY <1>3, Records DEF States
<1>. QED
  BY <1>1, <1>2, <1>3, <1>4, Elsewhere DEF Critical

LEMMA ReturnsKeep ==
  ASSUME ServerInv, NEW c \in Callers,
         \/ PreflightFails(c) \/ StartRefused(c) \/ MarkReady(c)
         \/ NothingToStop(c) \/ StopRefused(c) \/ StopFindsItGone(c) \/ StopGivesUp(c)
         \/ MarkStopped(c) \/ MarkOvertaken(c)
  PROVE  ServerInv'
<1>1. op[c].pc \notin Critical /\ UNCHANGED os /\ UNCHANGED <<lock, lost>>
  BY DEF PreflightFails, StartRefused, MarkReady, NothingToStop, StopRefused, StopFindsItGone,
         StopGivesUp, MarkStopped, MarkOvertaken, At, disk, Critical
<1>2. \E ok \in BOOLEAN : Return(c, ok)
  BY DEF PreflightFails, StartRefused, MarkReady, NothingToStop, StopRefused, StopFindsItGone,
         StopGivesUp, MarkStopped, MarkOvertaken
<1>3. record' = record \/ \E s \in States : record' = [record EXCEPT !.state = s]
  BY DEF PreflightFails, StartRefused, MarkReady, NothingToStop, StopRefused, StopFindsItGone,
         StopGivesUp, MarkStopped, MarkOvertaken, disk, States
<1>4. record' \in [attempt : {record.attempt}, state : States,
                   identified : {record.identified}, grouped : BOOLEAN]
  BY <1>3, Records DEF States
<1>. QED
  BY <1>1, <1>2, <1>4, Returns

LEMMA ProceedsKeep ==
  ASSUME ServerInv, NEW c \in Callers,
         \/ Answered(c) \/ PublishSnapshot(c) \/ WaitFails(c) \/ PollClosed(c)
  PROVE  ServerInv'
<1>1. op[c].pc \notin Critical /\ UNCHANGED os /\ UNCHANGED <<lock, lost, record>>
  BY DEF Answered, PublishSnapshot, WaitFails, PollClosed, At, disk, Critical
<1>2. record' \in [attempt : {record.attempt}, state : States,
                   identified : {record.identified}, grouped : BOOLEAN]
  BY <1>1, Records DEF States
<1>3. Return(c, FALSE) \/ \E pc \in Pcs \ (Critical \cup {"check", "term"}) : Goto(c, pc)
  <2>1. Return(c, FALSE) \/ \E pc \in {"publish", "mark ready", "mark failed", "mark stopped"} : Goto(c, pc)
    BY DEF Answered, PublishSnapshot, WaitFails, WaitFailed, PollClosed
  <2>. QED
    BY <2>1 DEF Pcs, Critical
<1>. QED
  BY <1>1, <1>2, <1>3, Returns, Proceeds

\* The steps that take an attempt from the record, or forget theirs.
LEMMA LooksKeep ==
  ASSUME ServerInv, NEW c \in Callers, ReadRecord(c) \/ MarkFailed(c) \/ PollAgain(c)
  PROVE  ServerInv'
<1>1. /\ op[c].pc \in {"read", "mark failed", "term"}
      /\ UNCHANGED <<lock, lost, leader, reused, launched, struck>>
  BY DEF ReadRecord, MarkFailed, PollAgain, At, disk, os
<1>2. record' = record \/ \E s \in States : record' = [record EXCEPT !.state = s]
  BY DEF ReadRecord, MarkFailed, PollAgain, disk, States
<1>3. record' \in [attempt : {record.attempt}, state : States,
                   identified : {record.identified}, grouped : BOOLEAN]
  BY <1>2, Records DEF States
<1>4. record.attempt \in Numbered
  BY DEF ServerInv, LifecycleTypeOK
<1>5. ASSUME NEW q \in Invocation, op' = [op EXCEPT ![c] = q],
             q.pc \in {"wait", "stop"} \/ (q.pc = "term" /\ q.gone)
      PROVE  ServerInv'
  BY <1>1, <1>3, <1>5, Elsewhere DEF Critical
<1>6. CASE ReadRecord(c)
  <2>. DEFINE q == [op[c] EXCEPT !.pc = "wait", !.k = record.attempt]
  <2>1. q \in Invocation /\ q.pc = "wait" /\ op' = [op EXCEPT ![c] = q]
    BY <1>4, <1>6, Looks DEF ReadRecord, Invocation, Pcs
  <2>. HIDE DEF q
  <2>. QED
    BY <1>5, <2>1
<1>7. CASE MarkFailed(c)
  <2>. DEFINE q == [NoOp EXCEPT !.cmd = "undo", !.pc = "stop", !.own = op[c].own]
  <2>1. q \in Invocation /\ q.pc = "stop" /\ op' = [op EXCEPT ![c] = q]
    BY <1>7, Looks DEF MarkFailed, Invocation, Pcs
  <2>. HIDE DEF q
  <2>. QED
    BY <1>5, <2>1
<1>8. CASE PollAgain(c)
  <2>. DEFINE q == [op[c] EXCEPT !.gone = TRUE]
  <2>1. q \in Invocation /\ q.pc = "term" /\ q.gone /\ op' = [op EXCEPT ![c] = q]
    BY <1>8, Looks DEF PollAgain, Invocation, At
  <2>. HIDE DEF q
  <2>. QED
    BY <1>5, <2>1
<1>. QED
  BY <1>6, <1>7, <1>8

\* Nobody signals a process of whose pid he is not sure.
LEMMA SignalsKeep ==
  ASSUME ServerInv, NEW c \in Callers, StopTerm(c) \/ StopKill(c) PROVE ServerInv'
<1>1. UNCHANGED <<lock, record, lost, reused, launched>> /\ op[c].pc \notin Critical
  BY DEF StopTerm, StopKill, Term, KillGroup, At, disk, Critical
<1>2. record' \in [attempt : {record.attempt}, state : States,
                   identified : {record.identified}, grouped : BOOLEAN]
  BY <1>1, Records DEF States
<1>3. record.attempt \in Numbered /\ struck = FALSE /\ \A k \in leader : k \notin reused
  BY DEF ServerInv, LifecycleTypeOK, PidsKept
<1>4. CASE StopTerm(c)
  <2>. DEFINE q == [op[c] EXCEPT !.pc = "term", !.k = record.attempt]
  <2>1. record.attempt \in leader
    BY <1>4 DEF StopTerm, validate_owned_process_group, ownership_status, process_snapshot
  <2>2. q \in Invocation /\ q.pc = "term" /\ q.k = record.attempt /\ op' = [op EXCEPT ![c] = q]
    BY <1>3, <1>4, Looks DEF StopTerm, Invocation, Pcs
  <2>3. leader' = leader /\ struck' = struck
    BY <1>3, <1>4, <2>1 DEF StopTerm, Term
  <2>. HIDE DEF q
  <2>. QED
    BY <1>1, <1>2, <1>3, <2>1, <2>2, <2>3, Elsewhere DEF Critical
<1>5. CASE StopKill(c)
  <2>. DEFINE q == [op[c] EXCEPT !.pc = "kill"]
  <2>1. op[c].k \notin reused
    BY <1>5 DEF StopKill, MayKill, At, ServerInv, PidsKept
  <2>2. q \in Invocation /\ q.pc = "kill" /\ op' = [op EXCEPT ![c] = q]
    BY <1>5, Looks DEF StopKill, Goto, Invocation, Pcs
  <2>3. leader' \subseteq leader /\ struck' = struck
    BY <1>3, <1>5, <2>1 DEF StopKill, KillGroup
  <2>. HIDE DEF q
  <2>. QED
    BY <1>1, <1>2, <2>2, <2>3, Elsewhere DEF Critical
<1>. QED
  BY <1>4, <1>5

\* A start becomes critical only when no server lives that is not given up.
LEMMA StartCheckedKeeps == ASSUME ServerInv, NEW c \in Callers, StartChecked(c) PROVE ServerInv'
<1>. DEFINE q == [op[c] EXCEPT !.pc = "launch"]
<1>1. /\ op[c].pc = "check" /\ lock = Nobody /\ lock' = c /\ MayStart
      /\ UNCHANGED <<record, lost, leader, reused, launched, struck>>
  BY DEF StartChecked, At, disk, os
<1>2. q \in Invocation /\ q.pc = "launch" /\ q.gone = op[c].gone /\ op' = [op EXCEPT ![c] = q]
  BY Looks DEF StartChecked, Goto, Invocation, Pcs
<1>. HIDE DEF q
<1>3. /\ op' \in [Callers -> Invocation]
      /\ \A d \in Callers : op'[d] = IF d = c THEN q ELSE op[d]
  BY <1>2, Looks
<1>4. \A d \in Callers : op[d].pc \notin Critical
  BY <1>1 DEF ServerInv, LockKept, Nobody
<1>5. leader \subseteq lost
  <2>. SUFFICES ASSUME NEW k \in leader \ lost PROVE FALSE
    OBVIOUS
  <2>1. record.attempt = k
    BY <1>4 DEF ServerInv, LiveIsRecorded, Critical
  <2>2. record.identified
    BY <2>1 DEF ServerInv, UnidentifiedIsLost, LifecycleTypeOK
  <2>. QED
    BY <1>1, <2>1, <2>2 DEF MayStart, ownership_status, process_snapshot
<1>6. LifecycleTypeOK'
  <2>1. Numbered' = Numbered /\ Invocation' = Invocation
    BY <1>1 DEF Numbered, Invocation
  <2>. QED
    BY <1>1, <1>3, <2>1 DEF ServerInv, LifecycleTypeOK
<1>7. PidsKept'
  BY <1>1, <1>2, <1>3 DEF ServerInv, PidsKept
<1>8. LockKept' /\ OneStart'
  BY <1>1, <1>2, <1>3, <1>4, <1>5 DEF LockKept, OneStart, Critical, HasServer
<1>9. UnidentifiedIsLost' /\ LiveIsRecorded'
  BY <1>1, <1>5 DEF UnidentifiedIsLost, LiveIsRecorded
<1>. QED
  BY <1>6, <1>7, <1>8, <1>9 DEF ServerInv

\* A start ends by recording its server, or by giving it up.
LEMMA StartEndsKeep ==
  ASSUME ServerInv, NEW c \in Callers,
         \/ LaunchFails(c) \/ RecordStart(c) \/ RecordStartNoWait(c)
         \/ Ungrouped(c) \/ record_startup_failure(c)
  PROVE  ServerInv'
<1>1. /\ op[c].pc \in Critical /\ lock' = Nobody
      /\ UNCHANGED <<leader, reused, launched, struck>>
  BY DEF LaunchFails, RecordStart, RecordStartNoWait, Ungrouped, record_startup_failure, At, os,
         Critical
<1>2. PICK q \in Invocation : q.pc \notin Critical \cup {"check", "term"} /\ op' = [op EXCEPT ![c] = q]
  <2>1. CASE RecordStart(c)
    <3>. DEFINE q == [op[c] EXCEPT !.pc = "read"]
    <3>1. q \in Invocation /\ q.pc = "read" /\ op' = [op EXCEPT ![c] = q]
      BY <2>1, Looks DEF RecordStart, Goto, Invocation, Pcs
    <3>. HIDE DEF q
    <3>. QED
      BY <3>1 DEF Critical
  <2>2. CASE \E ok \in BOOLEAN : Return(c, ok)
    <3>1. PICK ok \in BOOLEAN : Return(c, ok)
      BY <2>2
    <3>. DEFINE q == [NoOp EXCEPT !.ok = ok /\ op[c].cmd # "undo"]
    <3>2. q \in Invocation /\ q.pc = "idle" /\ op' = [op EXCEPT ![c] = q]
      BY <3>1, Looks DEF Return
    <3>. HIDE DEF q
    <3>. QED
      BY <3>2 DEF Critical
  <2>. QED
    BY <2>1, <2>2 DEF LaunchFails, RecordStartNoWait, Ungrouped, record_startup_failure
<1>3. op[c].k \in Numbered /\ record \in [attempt : Numbered, state : States,
                                          identified : BOOLEAN, grouped : BOOLEAN]
  BY DEF ServerInv, LifecycleTypeOK, Invocation
<1>4. CASE LaunchFails(c)
  <2>1. leader \subseteq lost /\ UNCHANGED <<record, lost>>
    BY <1>4 DEF LaunchFails, At, disk, ServerInv, OneStart
  <2>. QED
    BY <1>1, <1>2, <1>3, <2>1, Leaves
<1>5. CASE ~LaunchFails(c)
  <2>1. op[c].pc \in HasServer
    BY <1>5 DEF RecordStart, RecordStartNoWait, Ungrouped, record_startup_failure, At, HasServer,
                Critical
  <2>2. leader \subseteq lost \cup {op[c].k}
    BY <2>1 DEF ServerInv, OneStart
  <2>3. /\ record' \in [attempt : {op[c].k}, state : States, identified : BOOLEAN, grouped : BOOLEAN]
        /\ lost \subseteq lost'
        /\ record'.identified \/ op[c].k \notin leader \/ op[c].k \in lost'
    <3>1. CASE RecordStart(c) \/ RecordStartNoWait(c)
      <4>1. /\ record' = [attempt |-> op[c].k, state |-> "starting", identified |-> TRUE, grouped |-> TRUE]
            /\ lost' = lost
        BY <3>1 DEF RecordStart, RecordStartNoWait
      <4>. QED
        BY <4>1 DEF States
    <3>2. CASE Ungrouped(c)
      BY <3>2 DEF Ungrouped, States
    <3>3. CASE record_startup_failure(c)
      BY <3>3 DEF record_startup_failure, States
    <3>. QED
      BY <1>5, <3>1, <3>2, <3>3
  <2>. QED
    BY <1>1, <1>2, <1>3, <2>2, <2>3, Leaves
<1>. QED
  BY <1>4, <1>5

LEMMA CleanupKeeps ==
  ASSUME ServerInv, NEW c \in Callers, Unidentified(c) \/ CleanupKill(c) \/ CleanupDone(c)
  PROVE  ServerInv'
<1>1. op[c].pc \in {"identify", "cleanup"} /\ UNCHANGED <<lock, record, lost>>
  BY DEF Unidentified, CleanupKill, CleanupDone, At, disk
<1>2. op[c].k \notin reused /\ struck = FALSE
  BY <1>1 DEF ServerInv, PidsKept
<1>3. UNCHANGED <<reused, launched, struck>> /\ leader' \subseteq leader
  BY <1>2 DEF Unidentified, CleanupKill, CleanupDone, Term, KillGroup, os
<1>4. \E pc \in {"cleanup", "record failure"} : op' = [op EXCEPT ![c].pc = pc]
  BY DEF Unidentified, CleanupKill, CleanupDone, Goto
<1>. QED
  BY <1>1, <1>3, <1>4, GoesOn

LEMMA ProgressKeeps ==
  ASSUME ServerInv, NEW c \in Callers, Progress(c) \/ RecordStartNoWait(c) PROVE ServerInv'
  BY ReturnsKeep, ProceedsKeep, LooksKeep, SignalsKeep, StartCheckedKeeps, LaunchKeeps, StartEndsKeep,
     CleanupKeeps DEF Progress

LEMMA InterruptedKeeps == ASSUME ServerInv, NEW c \in Callers, Interrupted(c) PROVE ServerInv'
<1>1. /\ UNCHANGED <<record, leader, reused, launched, struck>>
      /\ lock' = (IF lock = c THEN Nobody ELSE lock)
  BY DEF Interrupted, os
<1>2. PICK q \in Invocation : q.pc \in {"mark failed", "idle"} /\ op' = [op EXCEPT ![c] = q]
  <2>1. CASE Goto(c, "mark failed")
    <3>. DEFINE q == [op[c] EXCEPT !.pc = "mark failed"]
    <3>1. q \in Invocation /\ q.pc = "mark failed" /\ op' = [op EXCEPT ![c] = q]
      BY <2>1, Looks DEF Goto, Invocation, Pcs
    <3>. HIDE DEF q
    <3>. QED
      BY <3>1
  <2>2. CASE Return(c, FALSE)
    <3>. DEFINE q == [NoOp EXCEPT !.ok = FALSE /\ op[c].cmd # "undo"]
    <3>1. q \in Invocation /\ q.pc = "idle" /\ op' = [op EXCEPT ![c] = q]
      BY <2>2, Looks DEF Return
    <3>. HIDE DEF q
    <3>. QED
      BY <3>1
  <2>. QED
    BY <2>1, <2>2 DEF Interrupted
<1>3. CASE op[c].pc \in Critical
  <2>1. lock' = Nobody
    BY <1>1, <1>3, Alone
  <2>2. leader \subseteq lost'
    BY <1>3 DEF Interrupted, ServerInv, OneStart, Critical, HasServer
  <2>3. record' \in [attempt : Numbered, state : States, identified : BOOLEAN, grouped : BOOLEAN]
    BY <1>1 DEF ServerInv, LifecycleTypeOK
  <2>. QED
    BY <1>1, <1>2, <1>3, <2>1, <2>2, <2>3, Leaves DEF Critical
<1>4. CASE op[c].pc \notin Critical
  <2>1. lost' = lost
    BY <1>4 DEF Interrupted, Critical
  <2>2. record' \in [attempt : {record.attempt}, state : States,
                     identified : {record.identified}, grouped : BOOLEAN]
    BY <1>1, Records DEF States
  <2>. QED
    BY <1>1, <1>2, <1>4, <2>1, <2>2, Elsewhere DEF Critical
<1>. QED
  BY <1>3, <1>4

\* Every variable of the invariant.
serverVars == <<lock, record, lost, leader, reused, launched, struck, op>>

LEMMA UnchangedKeeps == ServerInv /\ UNCHANGED serverVars => ServerInv'
  BY DEF serverVars, ServerInv, LifecycleTypeOK, Numbered, Invocation, PidsKept, LockKept, OneStart,
         UnidentifiedIsLost, LiveIsRecorded

\* A foreign process takes neither a live leader's pid nor one that is polled.
LEMMA OperatingSystemKeeps == ServerInv /\ OperatingSystem => ServerInv'
<1>. SUFFICES ASSUME ServerInv, OperatingSystem PROVE ServerInv'
  OBVIOUS
<1>1. UNCHANGED <<lock, record, lost, launched, struck, op>> /\ leader' \subseteq leader
  BY DEF OperatingSystem, Serve, LeaderExits, WorkersExit, ForeignTakesPid, ForeignTakesPort, osRest,
         disk
<1>2. LockKept' /\ OneStart' /\ UnidentifiedIsLost' /\ LiveIsRecorded'
  BY <1>1 DEF ServerInv, LockKept, OneStart, UnidentifiedIsLost, LiveIsRecorded
<1>3. LifecycleTypeOK
  BY DEF ServerInv
<1>4. CASE reused' = reused
  BY <1>1, <1>2, <1>4 DEF ServerInv, LifecycleTypeOK, Numbered, Invocation, PidsKept
<1>5. CASE \E k \in Attempts : ForeignTakesPid(k)
  <2>1. PICK k \in Attempts : ForeignTakesPid(k)
    BY <1>5
  <2>2. reused' = reused \cup {k} /\ k \in 1..launched
    BY <1>3, <2>1 DEF ForeignTakesPid, Attempts, LifecycleTypeOK
  <2>3. k \notin leader
    BY <2>1 DEF ForeignTakesPid, group_exists
  <2>4. \A c \in Callers :
          op[c].pc \in {"identify", "cleanup", "term"} /\ ~op[c].gone => op[c].k # k
    BY <2>1 DEF ForeignTakesPid, Polled
  <2>5. PidsKept'
    BY <1>1, <2>2, <2>3, <2>4 DEF ServerInv, PidsKept
  <2>6. LifecycleTypeOK'
    BY <1>1, <1>3, <2>2 DEF LifecycleTypeOK, Numbered, Invocation
  <2>. QED
    BY <1>2, <2>5, <2>6 DEF ServerInv
<1>. QED
  BY <1>4, <1>5 DEF OperatingSystem, Serve, LeaderExits, WorkersExit, ForeignTakesPort

LEMMA PreemptedKeeps == ServerInv /\ Preempted => ServerInv'
<1>. SUFFICES ASSUME ServerInv, Preempted PROVE ServerInv'
  OBVIOUS
<1>1. /\ leader' = {} /\ reused' = {} /\ op' = [c \in Callers |-> NoOp]
      /\ UNCHANGED <<record, lost, launched, struck>>
  BY DEF Preempted, disk
<1>2. NoOp \in Invocation /\ NoOp.pc = "idle"
  BY Looks
<1>3. LifecycleTypeOK'
  BY <1>1, <1>2 DEF ServerInv, LifecycleTypeOK, Numbered, Invocation
<1>4. PidsKept' /\ LockKept' /\ OneStart'
  BY <1>1, <1>2 DEF ServerInv, PidsKept, LockKept, OneStart, Critical, HasServer
<1>5. UnidentifiedIsLost' /\ LiveIsRecorded'
  BY <1>1 DEF UnidentifiedIsLost, LiveIsRecorded
<1>. QED
  BY <1>3, <1>4, <1>5 DEF ServerInv

\* The script and the operator act on the server through their invocations alone.
LEMMA ScriptTouches ==
  ASSUME ScriptSteps \/ GpuRun \/ OpenaiPublishes \/ ReplayPublishes
  PROVE  UNCHANGED serverVars \/ Start(Script) \/ Stop(Script)
  BY DEF ScriptSteps, initialize, OfflineSmoke, OfflineEnds, ScriptStarts, ScriptStarted, OpenaiSmoke,
         OpenaiEnds, Benchmark, BenchmarkEnds, TraceReplay, ReplayEnds, ScriptStops, ScriptStopped,
         GpuArtifactsReady, Cleanup, CleanupEnds, Report, GpuRun, OpenaiPublishes, ReplayPublishes,
         Publish, lifecycleVars, disk, os, serverVars

LEMMA JobTouches == ASSUME JobSteps PROVE UNCHANGED serverVars
  BY DEF JobSteps, JobMetadata, JobSkips, JobRefused, JobChecked, JobLocks, JobMarks, JobWatches,
         JobMoves, JobCompletes, JobUnmarks, JobFails, lifecycleVars, disk, os, serverVars

LEMMA ServerStep == ServerInv /\ [Week04Next]_week04Vars => ServerInv'
<1>. SUFFICES ASSUME ServerInv, [Week04Next]_week04Vars PROVE ServerInv'
  OBVIOUS
<1>1. CASE ScriptSteps \/ GpuRun \/ OpenaiPublishes \/ ReplayPublishes
  BY <1>1, ScriptTouches, UnchangedKeeps, InvokedKeeps
<1>2. CASE RunsJob
  BY <1>2, JobTouches, UnchangedKeeps DEF RunsJob
<1>3. CASE KeyboardInterrupt
  <2>1. Interrupted(Script) \/ UNCHANGED serverVars
    BY <1>3, JobTouches DEF KeyboardInterrupt, JobSteps, lifecycleVars, disk, os, serverVars
  <2>. QED
    BY <2>1, UnchangedKeeps, InterruptedKeeps
<1>4. CASE OperatorActs
  BY <1>4, InvokedKeeps DEF OperatorActs
<1>5. CASE \E c \in Callers : Steps(c)
  BY <1>5, ProgressKeeps DEF Steps
<1>6. CASE UNCHANGED lifecycleVars
  <2>1. UNCHANGED serverVars
    BY <1>6 DEF lifecycleVars, disk, os, serverVars
  <2>. QED
    BY <2>1, UnchangedKeeps
<1>. QED
  BY <1>1, <1>2, <1>3, <1>4, <1>5, <1>6, PreemptedKeeps, OperatingSystemKeeps
  DEF Week04Next, Analyze, WriteReport, Verify, RunsDog, week04Vars

LEMMA ServerInvariant == Week04Spec => []ServerInv
  BY ServerInitHolds, ServerStep, PTL DEF Week04Spec

\* stop, and the cleanup of a start that failed, never signal a process that is not of the server,
\* whatever pid the system gives to whom, wherever they are cut off.
THEOREM SignalsOnlyOurs == Week04Spec => []OnlyOursSignalled
<1>1. ServerInv => OnlyOursSignalled
  BY DEF ServerInv, PidsKept, OnlyOursSignalled
<1>. QED
  BY <1>1, ServerInvariant, PTL

\* However many starts run at the same time, and wherever they are interrupted, no record of a
\* live server is replaced by another, and no second server is started next to one.
THEOREM ServerOnRecord == Week04Spec => []LiveIsRecorded
<1>1. ServerInv => LiveIsRecorded
  BY DEF ServerInv
<1>. QED
  BY <1>1, ServerInvariant, PTL

(***************************************************************************)
(* The evidence                                                            *)
(***************************************************************************)
\* From the first models snapshot on, once no start is critical, none will be: the record
\* stays with its attempt.
Settled == snapshot # NoSnapshot /\ \A c \in Callers : op[c].pc \notin Critical

\* Who waits knows an attempt, and has written its snapshot before he marks it ready.
WaitsForOne ==
  \A c \in Callers :
    /\ op[c].pc \in {"wait", "publish"} => op[c].k # 0
    /\ op[c].pc = "mark ready" => snapshot # NoSnapshot

ReadyIsSettled == record.state = "ready" => Settled

\* Where the script publishes under a name that it has read before.
Naming == {"openai runs", "replay runs"}

\* What is about to be published, or has been, names the attempt of the record.
NamesTheRecord ==
  /\ script.pc \in Naming => Settled /\ script.attempt = record.attempt
  /\ job.pc \notin {"idle", "check"} => Settled /\ job.attempt = record.attempt
  /\ published # {} => Settled
  /\ \A p \in published : p[2] = record.attempt

Shaped == {"pc", "attempt"} \subseteq DOMAIN script \cap DOMAIN job

NamesInv == WaitsForOne /\ ReadyIsSettled /\ NamesTheRecord

LEMMA NamesInitHolds == Week04Init => NamesInv
<1>. SUFFICES ASSUME Week04Init PROVE NamesInv
  OBVIOUS
<1>1. /\ record.state = "none" /\ published = {} /\ script.pc = "idle" /\ job.pc = "idle"
      /\ op = [c \in Callers |-> NoOp]
  BY DEF Week04Init, LifecycleInit, NoRecord, NoScript, NoJob
<1>2. NoOp.pc = "idle"
  BY DEF NoOp
<1>. QED
  BY <1>1, <1>2 DEF NamesInv, WaitsForOne, ReadyIsSettled, NamesTheRecord, Naming

InvocationStep(c) ==
  Progress(c) \/ RecordStartNoWait(c) \/ Start(c) \/ Wait(c) \/ Stop(c) \/ Interrupted(c)

\* Which steps lead where.
Leads(c) ==
  /\ \A d \in Callers \ {c} : op'[d] = op[d]
  /\ op'[c].pc \in Critical => op[c].pc \in Critical \/ StartChecked(c)
  /\ op'[c].pc = "wait" => ReadRecord(c)
  /\ op'[c].pc = "publish" => Answered(c)
  /\ op'[c].pc = "mark ready" => PublishSnapshot(c)
  /\ snapshot' = snapshot \/ PublishSnapshot(c)
  /\ published' = published
  /\ op[c].pc \in Critical \/ record'.attempt = record.attempt
  /\ record'.state = "ready" => record.state = "ready" \/ MarkReady(c)

LEMMA GotoLooks ==
  ASSUME ServerInv, NEW c \in Callers, NEW pc, Goto(c, pc)
  PROVE  op'[c].pc = pc /\ \A d \in Callers \ {c} : op'[d] = op[d]
  BY Looks DEF Goto, Invocation

LEMMA ReturnLooks ==
  ASSUME ServerInv, NEW c \in Callers, NEW ok, Return(c, ok)
  PROVE  op'[c].pc = "idle" /\ \A d \in Callers \ {c} : op'[d] = op[d]
  BY Looks DEF Return, NoOp

\* Whoever returns leads nowhere ...
LEMMA LeadsNowhere ==
  ASSUME ServerInv, NEW c \in Callers, NEW ok, Return(c, ok), UNCHANGED <<snapshot, published>>,
         op[c].pc \in Critical \/ record'.attempt = record.attempt,
         record'.state = "ready" => record.state = "ready" \/ MarkReady(c)
  PROVE  Leads(c)
  BY ReturnLooks DEF Leads, Critical

\* ... and who goes on, only to where he goes.
LEMMA LeadsOn ==
  ASSUME ServerInv, NEW c \in Callers, NEW pc, Goto(c, pc),
         snapshot' = snapshot \/ PublishSnapshot(c), published' = published,
         op[c].pc \in Critical \/ record'.attempt = record.attempt,
         record'.state = "ready" => record.state = "ready",
         pc \in Critical => op[c].pc \in Critical \/ StartChecked(c),
         pc = "wait" => FALSE, pc = "publish" => Answered(c), pc = "mark ready" => PublishSnapshot(c)
  PROVE  Leads(c)
<1>1. op'[c].pc = pc /\ \A d \in Callers \ {c} : op'[d] = op[d]
  BY GotoLooks
<1>. QED
  BY <1>1 DEF Leads

LEMMA StepsLead == ASSUME ServerInv, NEW c \in Callers, InvocationStep(c) PROVE Leads(c)
<1>1. op \in [Callers -> Invocation] /\ NoOp.pc = "idle"
  BY Looks
<1>2. record \in [attempt : Numbered, state : States, identified : BOOLEAN, grouped : BOOLEAN]
  BY DEF ServerInv, LifecycleTypeOK
<1>3. CASE Start(c) \/ Wait(c) \/ Stop(c)
  <2>1. \E pc \in {"check", "read", "stop"} : op'[c].pc = pc
    BY <1>1, <1>3 DEF Start, Wait, Stop, Invoked, NoOp
  <2>2. \A d \in Callers \ {c} : op'[d] = op[d]
    BY <1>1, <1>3 DEF Start, Wait, Stop, Invoked
  <2>3. UNCHANGED <<record, snapshot, published>>
    BY <1>3 DEF Start, Wait, Stop, disk
  <2>. QED
    BY <2>1, <2>2, <2>3 DEF Leads, Critical
<1>4. CASE Interrupted(c)
  <2>1. UNCHANGED <<record, snapshot, published>> /\ (Goto(c, "mark failed") \/ Return(c, FALSE))
    BY <1>4 DEF Interrupted
  <2>. QED
    BY <2>1, LeadsNowhere, LeadsOn DEF Critical
<1>5. CASE PreflightFails(c) \/ StartRefused(c)
  <2>1. Return(c, FALSE) /\ UNCHANGED <<record, snapshot, published>>
    BY <1>5 DEF PreflightFails, StartRefused, disk
  <2>. QED
    BY <2>1, LeadsNowhere
<1>6. CASE LaunchFails(c) \/ Ungrouped(c) \/ record_startup_failure(c)
  <2>1. /\ Return(c, FALSE) /\ op[c].pc \in Critical /\ UNCHANGED <<snapshot, published>>
        /\ record'.state = "ready" => record.state = "ready"
    <3>1. CASE LaunchFails(c)
      BY <3>1 DEF LaunchFails, At, disk, Critical
    <3>2. CASE Ungrouped(c)
      BY <3>2 DEF Ungrouped, At, Critical
    <3>3. CASE record_startup_failure(c)
      BY <3>3 DEF record_startup_failure, At, Critical
    <3>. QED
      BY <1>6, <3>1, <3>2, <3>3
  <2>. QED
    BY <2>1, LeadsNowhere
<1>7. CASE RecordStart(c) \/ RecordStartNoWait(c)
  <2>1. /\ op[c].pc \in Critical /\ UNCHANGED <<snapshot, published>> /\ record'.state # "ready"
        /\ Goto(c, "read") \/ Return(c, TRUE)
    <3>1. CASE RecordStart(c)
      BY <3>1 DEF RecordStart, At, Critical
    <3>2. CASE RecordStartNoWait(c)
      BY <3>2 DEF RecordStartNoWait, At, Critical
    <3>. QED
      BY <1>7, <3>1, <3>2
  <2>2. CASE Goto(c, "read")
    BY <2>1, <2>2, LeadsOn
  <2>3. CASE Return(c, TRUE)
    BY <2>1, <2>3, LeadsNowhere
  <2>. QED
    BY <2>1, <2>2, <2>3
<1>8. CASE StartChecked(c)
  <2>1. Goto(c, "launch") /\ UNCHANGED <<record, snapshot, published>>
    BY <1>8 DEF StartChecked, disk
  <2>. QED
    BY <1>8, <2>1, LeadsOn
<1>9. CASE Launch(c)
  <2>1. op'[c].pc = "identify" /\ \A d \in Callers \ {c} : op'[d] = op[d]
    BY <1>1, <1>9 DEF Launch, Invocation
  <2>. QED
    BY <1>9, <2>1 DEF Launch, At, disk, Leads, Critical
<1>10. CASE Unidentified(c) \/ CleanupKill(c) \/ CleanupDone(c)
  <2>1. \E pc \in {"cleanup", "record failure"} : Goto(c, pc)
    BY <1>10 DEF Unidentified, CleanupKill, CleanupDone
  <2>. QED
    BY <1>10, <2>1, LeadsOn DEF Unidentified, CleanupKill, CleanupDone, At, disk, Critical
<1>11. CASE ReadRecord(c) \/ StopTerm(c) \/ PollAgain(c) \/ MarkFailed(c)
  <2>1. \A d \in Callers \ {c} : op'[d] = op[d]
    BY <1>1, <1>11 DEF ReadRecord, StopTerm, PollAgain, MarkFailed
  <2>2. op'[c].pc \in {"term", "stop"} \/ (ReadRecord(c) /\ op'[c].pc = "wait")
    <3>1. CASE ReadRecord(c)
      BY <1>1, <3>1 DEF ReadRecord, Invocation
    <3>2. CASE StopTerm(c)
      BY <1>1, <3>2 DEF StopTerm, Invocation
    <3>3. CASE PollAgain(c)
      BY <1>1, <3>3 DEF PollAgain, At, Invocation
    <3>4. CASE MarkFailed(c)
      BY <1>1, <3>4 DEF MarkFailed, NoOp
    <3>. QED
      BY <1>11, <3>1, <3>2, <3>3, <3>4
  <2>3. UNCHANGED <<snapshot, published>> /\ record'.attempt = record.attempt
        /\ (record'.state = "ready" => record.state = "ready")
    BY <1>2, <1>11 DEF ReadRecord, StopTerm, PollAgain, MarkFailed, disk
  <2>. QED
    BY <2>1, <2>2, <2>3 DEF Leads, Critical
<1>12. CASE Answered(c)
  <2>1. Goto(c, "publish") /\ UNCHANGED <<record, snapshot, published>>
    BY <1>12 DEF Answered, disk
  <2>. QED
    BY <1>12, <2>1, LeadsOn DEF Critical
<1>13. CASE PublishSnapshot(c)
  <2>1. Goto(c, "mark ready") /\ UNCHANGED <<record, published>>
    BY <1>13 DEF PublishSnapshot
  <2>. QED
    BY <1>13, <2>1, LeadsOn DEF Critical
<1>14. CASE PollClosed(c) \/ StopKill(c)
  <2>1. UNCHANGED <<record, snapshot, published>> /\ (Goto(c, "mark stopped") \/ Goto(c, "kill"))
    BY <1>14 DEF PollClosed, StopKill, disk
  <2>. QED
    BY <2>1, LeadsOn DEF Critical
<1>15. CASE WaitFails(c)
  <2>1. UNCHANGED <<record, snapshot, published>> /\ (Goto(c, "mark failed") \/ Return(c, FALSE))
    BY <1>15 DEF WaitFails, WaitFailed, disk
  <2>. QED
    BY <2>1, LeadsNowhere, LeadsOn DEF Critical
<1>16. CASE NothingToStop(c) \/ StopRefused(c) \/ StopGivesUp(c) \/ MarkOvertaken(c)
  <2>1. UNCHANGED <<record, snapshot, published>> /\ \E ok \in BOOLEAN : Return(c, ok)
    BY <1>16 DEF NothingToStop, StopRefused, StopGivesUp, MarkOvertaken, disk
  <2>. QED
    BY <2>1, LeadsNowhere
<1>17. CASE MarkReady(c) \/ StopFindsItGone(c) \/ MarkStopped(c)
  <2>1. Return(c, TRUE)
    BY <1>17 DEF MarkReady, StopFindsItGone, MarkStopped
  <2>2. /\ UNCHANGED <<snapshot, published>> /\ record'.attempt = record.attempt
        /\ record'.state = "ready" => MarkReady(c)
    BY <1>2, <1>17 DEF MarkReady, StopFindsItGone, MarkStopped
  <2>. QED
    BY <2>1, <2>2, LeadsNowhere
<1>. QED
  BY <1>3, <1>4, <1>5, <1>6, <1>7, <1>8, <1>9, <1>10, <1>11, <1>12, <1>13, <1>14, <1>15, <1>16, <1>17
  DEF InvocationStep, Progress

\* A settled record stays with its attempt: a start is refused where there is evidence.
LEMMA SettledKept ==
  ASSUME ServerInv, WaitsForOne, Settled, NEW c \in Callers, InvocationStep(c)
  PROVE  Settled' /\ record'.attempt = record.attempt
<1>1. Leads(c)
  BY StepsLead
<1>2. ~StartChecked(c)
  BY DEF Settled, StartChecked, MayStart, completed_server_evidence
<1>3. \A d \in Callers : op'[d].pc \notin Critical
  BY <1>1, <1>2 DEF Leads, Settled
<1>4. PublishSnapshot(c) => snapshot' # NoSnapshot
  BY DEF PublishSnapshot, At, WaitsForOne, NoSnapshot
<1>. QED
  BY <1>1, <1>3, <1>4 DEF Leads, Settled

LEMMA WaitsKept ==
  ASSUME ServerInv, WaitsForOne, NEW c \in Callers, InvocationStep(c)
  PROVE  WaitsForOne'
<1>1. Leads(c)
  BY StepsLead
<1>2. op \in [Callers -> Invocation]
  BY Looks
<1>3. PublishSnapshot(c) => snapshot' # NoSnapshot
  BY DEF PublishSnapshot, At, WaitsForOne, NoSnapshot
<1>4. ReadRecord(c) => op'[c].k # 0
  <2>1. ReadRecord(c) => record.attempt \in leader
    BY DEF ReadRecord, ownership_status, process_snapshot
  <2>2. 0 \notin leader
    BY DEF ServerInv, LifecycleTypeOK
  <2>. QED
    BY <1>2, <2>1, <2>2 DEF ReadRecord, Invocation
<1>5. Answered(c) => op'[c].k # 0
  <2>1. Answered(c) => op[c].k # 0
    BY DEF Answered, At, WaitsForOne
  <2>2. Answered(c) => op' = [op EXCEPT ![c].pc = "publish"]
    BY DEF Answered, Goto
  <2>. QED
    BY <1>2, <2>1, <2>2 DEF Invocation
<1>6. ASSUME NEW d \in Callers
      PROVE  /\ op'[d].pc \in {"wait", "publish"} => op'[d].k # 0
             /\ op'[d].pc = "mark ready" => snapshot' # NoSnapshot
  BY <1>1, <1>3, <1>4, <1>5 DEF Leads, WaitsForOne
<1>. QED
  BY <1>6 DEF WaitsForOne

LEMMA ReadyKept ==
  ASSUME ServerInv, WaitsForOne, ReadyIsSettled, NEW c \in Callers, InvocationStep(c)
  PROVE  ReadyIsSettled'
<1>1. MarkReady(c) => Settled
  BY DEF MarkReady, At, ServerInv, LockKept, Nobody, WaitsForOne, Settled
<1>2. record'.state = "ready" => Settled
  BY <1>1, StepsLead DEF Leads, ReadyIsSettled
<1>. QED
  BY <1>2, SettledKept DEF ReadyIsSettled

\* So an invocation changes nothing of what is published, or about to be.
LEMMA InvocationKeepsNames ==
  ASSUME ServerInv, NamesInv, NEW c \in Callers, InvocationStep(c),
         script'.pc \in Naming => UNCHANGED script,
         UNCHANGED job
  PROVE  NamesInv'
<1>1. WaitsForOne' /\ ReadyIsSettled'
  BY WaitsKept, ReadyKept DEF NamesInv
<1>2. Settled => Settled' /\ record'.attempt = record.attempt
  BY SettledKept DEF NamesInv
<1>3. published' = published
  BY StepsLead DEF Leads
<1>4. NamesTheRecord'
  BY <1>2, <1>3 DEF NamesInv, NamesTheRecord
<1>. QED
  BY <1>1, <1>4 DEF NamesInv

\* What anybody else does: he names only the attempt of a settled record.
ScriptNames ==
  script'.pc \in Naming => UNCHANGED script \/ (Settled /\ script'.attempt = record.attempt)

JobNames ==
  job'.pc \notin {"idle", "check"}
    => \/ job.pc \notin {"idle", "check"} /\ job'.attempt = job.attempt
       \/ Settled /\ job'.attempt = record.attempt

PublishedNames ==
  \A p \in published' : p \in published \/ (Settled /\ p[2] = record.attempt)

LEMMA NamesKept ==
  ASSUME NamesInv, UNCHANGED record, UNCHANGED snapshot, UNCHANGED op,
         ScriptNames, JobNames, PublishedNames
  PROVE  NamesInv'
<1>1. Settled' = Settled
  BY DEF Settled
<1>2. WaitsForOne' /\ ReadyIsSettled'
  BY <1>1 DEF NamesInv, WaitsForOne, ReadyIsSettled
<1>3. NamesTheRecord'
  BY <1>1 DEF NamesInv, NamesTheRecord, ScriptNames, JobNames, PublishedNames
<1>. QED
  BY <1>2, <1>3 DEF NamesInv

(***************************************************************************)
(* The script, and the benchmark it runs                                   *)
(***************************************************************************)
\* The smoke and the replays read a record that says ready before they run; nothing else
\* leads to where they publish.
ScriptLeads ==
  /\ {"pc", "attempt"} \subseteq DOMAIN script'
  /\ script'.pc \in Naming
       => UNCHANGED script \/ (record.state = "ready" /\ script'.attempt = record.attempt)

LEMMA AfterLeads ==
  ASSUME NEW ok, NEW next, After(ok, next),
         ok => {"pc", "attempt"} \subseteq DOMAIN next /\ next.pc \notin Naming
  PROVE  ScriptLeads
<1>1. ASSUME NEW failed PROVE Trapped(failed).pc = "cleanup" /\ {"pc", "attempt"} \subseteq DOMAIN Trapped(failed)
  BY DEF Trapped, NoScript
<1>2. script' = Trapped(TRUE) \/ script' = Trapped(~ok) \/ (ok /\ script' = next)
  BY DEF After
<1>. QED
  BY <1>1, <1>2 DEF ScriptLeads, Naming

LEMMA ScriptStepLeads ==
  ASSUME Shaped, ScriptSteps \/ GpuRun \/ OpenaiPublishes \/ ReplayPublishes PROVE ScriptLeads
<1>1. CASE initialize
  <2>1. CASE After(FALSE, script)
    BY <2>1, AfterLeads
  <2>2. CASE After(TRUE, [script EXCEPT !.pc = "offline", !.inited = TRUE])
    BY <2>2, AfterLeads DEF Shaped, Naming
  <2>. QED
    BY <1>1, <2>1, <2>2 DEF initialize
<1>2. CASE GpuRun \/ Report
  <2>1. script' = [NoScript EXCEPT !.pc = "initialize"] \/ script' = NoScript
    BY <1>2 DEF GpuRun, Report
  <2>2. /\ NoScript.pc = "idle" /\ [NoScript EXCEPT !.pc = "initialize"].pc = "initialize"
        /\ {"pc", "attempt"} \subseteq DOMAIN NoScript \cap DOMAIN [NoScript EXCEPT !.pc = "initialize"]
    BY DEF NoScript
  <2>. QED
    BY <2>1, <2>2 DEF ScriptLeads, Naming
<1>3. CASE OfflineEnds
  BY <1>3, AfterLeads DEF OfflineEnds, Shaped, Naming
<1>4. CASE OfflineSmoke \/ ScriptStarts \/ Benchmark \/ ScriptStops \/ Cleanup \/ CleanupEnds
  BY <1>4 DEF OfflineSmoke, ScriptStarts, Benchmark, ScriptStops, Cleanup, CleanupEnds, ScriptLeads,
              Shaped, Naming
<1>5. CASE ScriptStarted
  BY <1>5, AfterLeads DEF ScriptStarted, Shaped, Naming
<1>6. CASE OpenaiEnds
  BY <1>6, AfterLeads DEF OpenaiEnds, Shaped, Naming
<1>7. CASE BenchmarkEnds
  BY <1>7, AfterLeads DEF BenchmarkEnds, Shaped, Naming
<1>8. CASE ReplayEnds
  BY <1>8, AfterLeads DEF ReplayEnds, Shaped, Naming
<1>9. CASE ScriptStopped
  BY <1>9, AfterLeads DEF ScriptStopped, Shaped, Naming
<1>10. CASE GpuArtifactsReady
  BY <1>10, AfterLeads DEF GpuArtifactsReady, NoScript, Naming
<1>11. CASE OpenaiSmoke \/ TraceReplay
  BY <1>11 DEF OpenaiSmoke, TraceReplay, Trapped, NoScript, ScriptLeads, Shaped, Naming
<1>12. CASE OpenaiPublishes \/ ReplayPublishes
  BY <1>12 DEF OpenaiPublishes, ReplayPublishes, ScriptLeads, Shaped
<1>. QED
  BY <1>1, <1>2, <1>3, <1>4, <1>5, <1>6, <1>7, <1>8, <1>9, <1>10, <1>11, <1>12 DEF ScriptSteps

\* What the script does to the rest that matters here.
LEMMA ScriptKeepsNames ==
  ASSUME ServerInv, NamesInv, Shaped,
         ScriptSteps \/ GpuRun \/ OpenaiPublishes \/ ReplayPublishes
  PROVE  NamesInv' /\ Shaped'
<1>1. ScriptLeads
  BY ScriptStepLeads
<1>2. ScriptNames
  BY <1>1 DEF ScriptLeads, NamesInv, ReadyIsSettled, ScriptNames
<1>3. job' = job \/ (Benchmark /\ job' = [NoJob EXCEPT !.pc = "check", !.label = script.label])
  BY DEF ScriptSteps, initialize, OfflineSmoke, OfflineEnds, ScriptStarts, ScriptStarted, OpenaiSmoke,
         OpenaiEnds, Benchmark, BenchmarkEnds, TraceReplay, ReplayEnds, ScriptStops, ScriptStopped,
         GpuArtifactsReady, Cleanup, CleanupEnds, Report, GpuRun, OpenaiPublishes, ReplayPublishes, files
<1>4. Shaped' /\ (job' = job \/ job'.pc = "check")
  BY <1>1, <1>3 DEF ScriptLeads, Shaped, NoJob
<1>5. CASE Start(Script) \/ Stop(Script)
  <2>1. op[Script].pc = "idle" /\ op'[Script].pc # "idle"
    <3>1. \E cmd \in {"start", "stop"}, pc \in {"check", "stop"} :
             op' = [op EXCEPT ![Script] = [NoOp EXCEPT !.cmd = cmd, !.pc = pc]]
      BY <1>5 DEF Start, Stop, Invoked
    <3>. QED
      BY <1>5, <3>1, Looks DEF Start, Stop, At, NoOp
  <2>2. ScriptStarts \/ ScriptStops \/ Cleanup
    BY <2>1 DEF ScriptSteps, initialize, OfflineSmoke, OfflineEnds, ScriptStarted, OpenaiSmoke,
         OpenaiEnds, Benchmark, BenchmarkEnds, TraceReplay, ReplayEnds, ScriptStopped,
         GpuArtifactsReady, CleanupEnds, Report, GpuRun, OpenaiPublishes, ReplayPublishes,
         Publish, lifecycleVars
  <2>3. UNCHANGED job /\ script'.pc \notin Naming
    <3>1. \E pc \in {"starts", "stops", "cleans", "report"} : script' = [script EXCEPT !.pc = pc]
      BY <2>2 DEF ScriptStarts, ScriptStops, Cleanup
    <3>2. UNCHANGED job
      BY <2>2 DEF ScriptStarts, ScriptStops, Cleanup, files
    <3>. QED
      BY <3>1, <3>2 DEF Shaped, Naming
  <2>. QED
    BY <1>4, <1>5, <2>3, InvocationKeepsNames DEF InvocationStep, Naming
<1>6. CASE UNCHANGED lifecycleVars
  <2>1. UNCHANGED record /\ UNCHANGED snapshot /\ UNCHANGED op /\ UNCHANGED published
    BY <1>6 DEF lifecycleVars, disk
  <2>2. JobNames /\ PublishedNames
    BY <1>4, <2>1 DEF JobNames, PublishedNames
  <2>. QED
    BY <1>2, <1>4, <2>1, <2>2, NamesKept
<1>7. CASE OpenaiPublishes \/ ReplayPublishes
  <2>1. UNCHANGED record /\ UNCHANGED snapshot /\ UNCHANGED op /\ UNCHANGED job
    BY <1>7 DEF OpenaiPublishes, ReplayPublishes, Publish, files
  <2>2. script.pc \in Naming
    BY <1>7 DEF OpenaiPublishes, ReplayPublishes, ScriptAt, Naming
  <2>3. \E what : published' = published \cup {<<what, script.attempt>>}
    BY <1>7 DEF OpenaiPublishes, ReplayPublishes, Publish
  <2>4. Settled /\ script.attempt = record.attempt
    BY <2>2 DEF NamesInv, NamesTheRecord
  <2>5. JobNames /\ PublishedNames
    BY <2>1, <2>3, <2>4 DEF JobNames, PublishedNames
  <2>. QED
    BY <1>2, <1>4, <2>1, <2>5, NamesKept
<1>8. UNCHANGED lifecycleVars \/ Start(Script) \/ Stop(Script) \/ OpenaiPublishes \/ ReplayPublishes
  BY DEF ScriptSteps, initialize, OfflineSmoke, OfflineEnds, ScriptStarts, ScriptStarted, OpenaiSmoke,
         OpenaiEnds, Benchmark, BenchmarkEnds, TraceReplay, ReplayEnds, ScriptStops, ScriptStopped,
         GpuArtifactsReady, Cleanup, CleanupEnds, Report, GpuRun, lifecycleVars
<1>. QED
  BY <1>5, <1>6, <1>7, <1>8

LEMMA JobKeepsNames ==
  ASSUME NamesInv, Shaped, JobSteps, UNCHANGED script PROVE NamesInv' /\ Shaped'
<1>1. UNCHANGED record /\ UNCHANGED snapshot /\ UNCHANGED op
  BY DEF JobSteps, JobMetadata, JobSkips, JobRefused, JobChecked, JobLocks, JobMarks, JobWatches,
         JobMoves, JobCompletes, JobUnmarks, JobFails, lifecycleVars, disk
<1>2. \/ \E ok \in BOOLEAN : job' = [NoJob EXCEPT !.ok = ok]
      \/ /\ job.pc \notin {"idle", "check"}
         /\ \E pc : job' = [job EXCEPT !.pc = pc]
      \/ JobMetadata
  BY DEF JobSteps, JobSkips, JobRefused, JobChecked, JobLocks, JobMarks, JobWatches, JobMoves,
         JobCompletes, JobUnmarks, JobFails, JobAt, JobGoto, JobEnds
<1>3. JobNames /\ Shaped'
  <2>1. CASE \E ok \in BOOLEAN : job' = [NoJob EXCEPT !.ok = ok]
    BY <2>1 DEF NoJob, JobNames, Shaped
  <2>2. CASE job.pc \notin {"idle", "check"} /\ \E pc : job' = [job EXCEPT !.pc = pc]
    BY <2>2 DEF JobNames, Shaped
  <2>3. CASE JobMetadata
    <3>1. Settled
      BY <2>3 DEF JobMetadata, NamesInv, ReadyIsSettled
    <3>2. job' = [job EXCEPT !.pc = "files", !.attempt = record.attempt]
      BY <2>3 DEF JobMetadata
    <3>. QED
      BY <3>1, <3>2 DEF JobNames, Shaped
  <2>. QED
    BY <1>2, <2>1, <2>2, <2>3
<1>4. PublishedNames
  <2>1. CASE JobCompletes
    <3>1. Settled /\ job.attempt = record.attempt
      BY <2>1 DEF JobCompletes, JobAt, NamesInv, NamesTheRecord
    <3>2. published' = {p \in published : p[1] # job.label} \cup {<<job.label, job.attempt>>}
      BY <2>1 DEF JobCompletes
    <3>. QED
      BY <3>1, <3>2 DEF PublishedNames
  <2>2. CASE UNCHANGED published
    BY <2>2 DEF PublishedNames
  <2>3. JobCompletes \/ UNCHANGED published
    BY DEF JobSteps, JobMetadata, JobSkips, JobRefused, JobChecked, JobLocks, JobMarks, JobWatches,
         JobMoves, JobUnmarks, JobFails, lifecycleVars, disk
  <2>. QED
    BY <2>1, <2>2, <2>3
<1>5. ScriptNames
  BY DEF ScriptNames
<1>. QED
  BY <1>1, <1>3, <1>4, <1>5, NamesKept

\* A preemption takes processes, not files.
LEMMA PreemptedKeepsNames == ASSUME NamesInv, Preempted PROVE NamesInv' /\ Shaped'
<1>1. /\ op' = [c \in Callers |-> NoOp] /\ job' = NoJob /\ script' = NoScript
      /\ UNCHANGED record /\ UNCHANGED snapshot /\ UNCHANGED published
  BY DEF Preempted, disk
<1>2. NoOp.pc = "idle" /\ NoScript.pc = "idle" /\ NoJob.pc = "idle"
  BY DEF NoOp, NoScript, NoJob
<1>3. Settled => Settled'
  BY <1>1, <1>2 DEF Settled, Critical
<1>4. WaitsForOne' /\ ReadyIsSettled'
  BY <1>1, <1>2, <1>3 DEF NamesInv, WaitsForOne, ReadyIsSettled
<1>5. NamesTheRecord'
  BY <1>1, <1>2, <1>3 DEF NamesInv, NamesTheRecord, Naming
<1>6. Shaped'
  BY <1>1 DEF Shaped, NoScript, NoJob
<1>. QED
  BY <1>4, <1>5, <1>6 DEF NamesInv

LEMMA NamesStep ==
  ASSUME ServerInv, NamesInv, Shaped, [Week04Next]_week04Vars PROVE NamesInv' /\ Shaped'
<1>1. CASE ScriptSteps \/ GpuRun \/ OpenaiPublishes \/ ReplayPublishes
  BY <1>1, ScriptKeepsNames
<1>2. CASE RunsJob
  BY <1>2, JobKeepsNames DEF RunsJob
<1>3. ASSUME NEW c \in Callers, InvocationStep(c), UNCHANGED script, UNCHANGED job
      PROVE  NamesInv' /\ Shaped'
  BY <1>3, InvocationKeepsNames DEF Shaped
<1>4. ASSUME UNCHANGED record, UNCHANGED snapshot, UNCHANGED op, UNCHANGED published, UNCHANGED job,
             script' = script \/ script' = Trapped(TRUE)
      PROVE  NamesInv' /\ Shaped'
  <2>1. Trapped(TRUE).pc = "cleanup" /\ {"pc", "attempt"} \subseteq DOMAIN Trapped(TRUE)
    BY DEF Trapped, NoScript
  <2>2. ScriptNames /\ JobNames /\ PublishedNames
    BY <1>4, <2>1 DEF ScriptNames, JobNames, PublishedNames, Naming
  <2>3. Shaped'
    BY <1>4, <2>1 DEF Shaped
  <2>. QED
    BY <1>4, <2>2, <2>3, NamesKept
<1>5. CASE KeyboardInterrupt
  <2>1. CASE Interrupted(Script) /\ UNCHANGED script /\ UNCHANGED job
    BY <1>3, <2>1 DEF InvocationStep
  <2>2. CASE JobFails /\ UNCHANGED script
    BY <2>2, JobKeepsNames DEF JobSteps
  <2>3. CASE UNCHANGED lifecycleVars /\ UNCHANGED job /\ (UNCHANGED script \/ script' = Trapped(TRUE))
    BY <1>4, <2>3 DEF lifecycleVars, disk
  <2>. QED
    BY <1>5, <2>1, <2>2, <2>3 DEF KeyboardInterrupt
<1>6. CASE Preempted
  BY <1>6, PreemptedKeepsNames
<1>7. CASE OperatorActs
  BY <1>3, <1>7 DEF OperatorActs, InvocationStep, files
<1>8. CASE (\E c \in Callers : Steps(c)) /\ UNCHANGED runVars
  BY <1>3, <1>8 DEF Steps, InvocationStep, runVars
<1>9. CASE OperatingSystem /\ UNCHANGED runVars
  <2>1. UNCHANGED disk /\ UNCHANGED op
    BY <1>9 DEF OperatingSystem, Serve, LeaderExits, WorkersExit, ForeignTakesPid, ForeignTakesPort,
                osRest
  <2>. QED
    BY <1>4, <1>9, <2>1 DEF runVars, disk
<1>10. CASE UNCHANGED lifecycleVars /\ UNCHANGED script /\ UNCHANGED job
  BY <1>4, <1>10 DEF lifecycleVars, disk
<1>11. CASE RunsDog
  BY <1>10, <1>11 DEF RunsDog, files
<1>12. CASE Command(Script) /\ UNCHANGED <<lifecycleVars, script, files, used>>
  BY <1>10, <1>12 DEF files
<1>13. CASE Analyze \/ WriteReport \/ Verify \/ UNCHANGED week04Vars
  BY <1>10, <1>13 DEF Analyze, WriteReport, Verify, week04Vars, runVars
<1>14. CASE ScriptSteps \/ GpuRun \/ OpenaiPublishes \/ ReplayPublishes \/ RunsJob \/ KeyboardInterrupt
  BY <1>1, <1>2, <1>5, <1>14
<1>15. CASE \/ Preempted \/ OperatorActs
            \/ (\E c \in Callers : Steps(c)) /\ UNCHANGED runVars
            \/ OperatingSystem /\ UNCHANGED runVars
  BY <1>6, <1>7, <1>8, <1>9, <1>15
<1>16. CASE Week04Next
  <2>1. CASE RunsDog
    BY <1>11, <2>1
  <2>2. CASE Command(Script) /\ UNCHANGED <<lifecycleVars, script, files, used>>
    BY <1>12, <2>2
  <2>3. CASE Analyze \/ WriteReport \/ Verify
    BY <1>13, <2>3
  <2>. QED
    BY <1>14, <1>15, <1>16, <2>1, <2>2, <2>3 DEF Week04Next
<1>. QED
  BY <1>13, <1>16

\* Everything published in a run comes from one server attempt, in every run of the script,
\* with any number of other invocations, signals and preemptions: a name is read from a ready
\* record, a ready record has its models snapshot, and where there is a snapshot no start
\* replaces the record.
THEOREM EvidenceOfOneServer == Week04Spec => []EvidenceOneAttempt
<1>1. Week04Init => NamesInv /\ Shaped
  BY NamesInitHolds DEF Week04Init, NoScript, NoJob, Shaped
<1>2. ServerInv /\ NamesInv /\ Shaped /\ [Week04Next]_week04Vars => (NamesInv /\ Shaped)'
  BY NamesStep
<1>3. NamesInv => EvidenceOneAttempt
  BY DEF NamesInv, NamesTheRecord, EvidenceOneAttempt
<1>. QED
  BY <1>1, <1>2, <1>3, ServerInvariant, PTL DEF Week04Spec

(***************************************************************************)
(* The watchdog                                                            *)
(***************************************************************************)
Dogs == [pc : {"off", "wait", "term", "kill"}, leader : BOOLEAN, rest : BOOLEAN,
         ret : {"none", "completed", "failed"},
         code : {"none", "completed", "failed", "timed_out", "interrupted"}, signalled : BOOLEAN]

\* A command that is waited for has not been signalled, and only then can its exit be the verdict.
Sound(d) ==
  /\ d.pc = "wait" => ~d.signalled /\ d.code = "none"
  /\ d.code = "completed" => d.pc = "off" /\ ~d.signalled
  /\ d.pc = "off" /\ d.code \in {"timed_out", "interrupted"} => ~d.leader /\ ~d.rest

DogInv == dog \in [Watchers -> Dogs] /\ \A c \in Watchers : Sound(dog[c])

LEMMA DogMoves ==
  ASSUME DogInv, NEW c \in Watchers, NEW q \in Dogs, Sound(q), dog' = [dog EXCEPT ![c] = q]
  PROVE  DogInv'
  BY DEF DogInv

LEMMA DogStepsKeep ==
  ASSUME DogInv, NEW c \in Watchers,
         DogSteps(c) \/ DogInterrupted(c) \/ Command(c) \/ Watch(c) \/ Seen(c)
  PROVE  DogInv'
<1>1. CASE Watch(c)
  <2>. DEFINE q == [NoDog EXCEPT !.pc = "wait", !.leader = TRUE]
  <2>1. q \in Dogs /\ Sound(q)
    BY <1>1 DEF DogInv, Dogs, Sound, Watch, NoDog
  <2>2. dog' = [dog EXCEPT ![c] = q]
    BY <1>1 DEF Watch, NoDog, DogInv
  <2>. QED
    BY <2>1, <2>2, DogMoves
<1>2. CASE Seen(c)
  <2>. DEFINE q == NoDog
  <2>1. q \in Dogs /\ Sound(q)
    BY <1>2 DEF DogInv, Dogs, Sound, Seen, NoDog
  <2>2. dog' = [dog EXCEPT ![c] = q]
    BY <1>2 DEF Seen, NoDog, DogInv
  <2>. QED
    BY <2>1, <2>2, DogMoves
<1>3. CASE Reaped(c)
  <2>. DEFINE q == [dog[c] EXCEPT !.pc = "off", !.code = dog[c].ret]
  <2>1. q \in Dogs /\ Sound(q)
    BY <1>3 DEF DogInv, Dogs, Sound, Reaped
  <2>2. dog' = [dog EXCEPT ![c] = q]
    BY <1>3 DEF Reaped, DogInv
  <2>. QED
    BY <2>1, <2>2, DogMoves
<1>4. CASE TimesOut(c)
  <2>. DEFINE q == [dog[c] EXCEPT !.pc = "term", !.code = "timed_out", !.signalled = TRUE, !.ret = "none"]
  <2>1. q \in Dogs /\ Sound(q)
    BY <1>4 DEF DogInv, Dogs, Sound, TimesOut, TermGroup
  <2>2. dog' = [dog EXCEPT ![c] = q]
    BY <1>4 DEF TimesOut, TermGroup, DogInv
  <2>. QED
    BY <2>1, <2>2, DogMoves
<1>5. CASE GroupGone(c)
  <2>. DEFINE q == [dog[c] EXCEPT !.pc = "off"]
  <2>1. q \in Dogs /\ Sound(q)
    BY <1>5 DEF DogInv, Dogs, Sound, GroupGone, WaitedFor, GroupLives
  <2>2. dog' = [dog EXCEPT ![c] = q]
    BY <1>5 DEF GroupGone, WaitedFor, GroupLives, DogInv
  <2>. QED
    BY <2>1, <2>2, DogMoves
<1>6. CASE KillDog(c)
  <2>1. PICK alive \in BOOLEAN :
          dog' = [dog EXCEPT ![c].pc = "kill", ![c].leader = @ /\ alive, ![c].rest = alive]
    BY <1>6 DEF KillDog
  <2>2. PICK leads \in BOOLEAN : leads = (dog[c].leader /\ alive)
    OBVIOUS
  <2>. DEFINE q == [dog[c] EXCEPT !.pc = "kill", !.leader = leads, !.rest = alive]
  <2>3. dog[c].pc = "term"
    BY <1>6 DEF KillDog
  <2>4. q \in Dogs /\ Sound(q)
    BY <2>3 DEF DogInv, Dogs, Sound
  <2>5. dog' = [dog EXCEPT ![c] = q]
    BY <2>1, <2>2 DEF DogInv
  <2>. QED
    BY <2>4, <2>5, DogMoves
<1>7. CASE Survived(c)
  <2>. DEFINE q == [dog[c] EXCEPT !.pc = "off", !.code = "failed"]
  <2>1. q \in Dogs /\ Sound(q)
    BY <1>7 DEF DogInv, Dogs, Sound, Survived, WaitedFor
  <2>2. dog' = [dog EXCEPT ![c] = q]
    BY <1>7 DEF Survived, WaitedFor, DogInv
  <2>. QED
    BY <2>1, <2>2, DogMoves
<1>8. CASE DogInterrupted(c)
  <2>1. CASE dog[c].code = "interrupted"
    <3>. DEFINE q == [dog[c] EXCEPT !.pc = "off", !.code = "failed"]
    <3>1. q \in Dogs /\ Sound(q)
      BY DEF DogInv, Dogs, Sound
    <3>2. dog' = [dog EXCEPT ![c] = q]
      BY <1>8, <2>1 DEF DogInterrupted, DogInv
    <3>. QED
      BY <3>1, <3>2, DogMoves
  <2>2. CASE dog[c].code # "interrupted"
    <3>. DEFINE q == [dog[c] EXCEPT !.pc = "term", !.code = "interrupted", !.signalled = TRUE,
                                    !.ret = "none"]
    <3>1. q \in Dogs /\ Sound(q)
      BY DEF DogInv, Dogs, Sound
    <3>2. dog' = [dog EXCEPT ![c] = q]
      BY <1>8, <2>2 DEF DogInterrupted, TermGroup, DogInv
    <3>. QED
      BY <3>1, <3>2, DogMoves
  <2>. QED
    BY <2>1, <2>2
<1>9. CASE CommandExits(c)
  <2>1. PICK ret \in {"none", "completed", "failed"}, rest \in BOOLEAN :
          dog' = [dog EXCEPT ![c].leader = FALSE, ![c].rest = rest, ![c].ret = ret]
    BY <1>9 DEF CommandExits
  <2>. DEFINE q == [dog[c] EXCEPT !.leader = FALSE, !.rest = rest, !.ret = ret]
  <2>2. dog[c].leader
    BY <1>9 DEF CommandExits
  <2>3. q \in Dogs /\ Sound(q)
    BY <2>2 DEF DogInv, Dogs, Sound
  <2>4. dog' = [dog EXCEPT ![c] = q]
    BY <2>1 DEF DogInv
  <2>. QED
    BY <2>3, <2>4, DogMoves
<1>10. CASE RestExit(c)
  <2>. DEFINE q == [dog[c] EXCEPT !.rest = FALSE]
  <2>1. q \in Dogs /\ Sound(q)
    BY <1>10 DEF DogInv, Dogs, Sound, RestExit
  <2>2. dog' = [dog EXCEPT ![c] = q]
    BY <1>10 DEF RestExit, DogInv
  <2>. QED
    BY <2>1, <2>2, DogMoves
<1>. QED
  BY <1>1, <1>2, <1>3, <1>4, <1>5, <1>6, <1>7, <1>8, <1>9, <1>10 DEF DogSteps, Command

LEMMA DogStep == ASSUME DogInv, [Week04Next]_week04Vars PROVE DogInv'
<1>1. Script \in Watchers
  BY Week04Assumption
<1>2. CASE UNCHANGED dog
  BY <1>2 DEF DogInv
<1>3. CASE DogSteps(Script) \/ DogInterrupted(Script) \/ Command(Script) \/ Watch(Script) \/ Seen(Script)
  BY <1>1, <1>3, DogStepsKeep
<1>4. CASE Preempted
  BY <1>4 DEF Preempted, NoDog, DogInv, Dogs, Sound
<1>5. CASE JobSteps \/ KeyboardInterrupt
  BY <1>2, <1>3, <1>5 DEF JobSteps, JobMetadata, JobSkips, JobRefused, JobChecked, JobLocks, JobMarks,
         JobWatches, JobMoves, JobCompletes, JobUnmarks, JobFails, KeyboardInterrupt
<1>6. CASE ScriptSteps \/ GpuRun \/ OpenaiPublishes \/ ReplayPublishes
  BY <1>2, <1>3, <1>6 DEF ScriptSteps, initialize, OfflineSmoke, OfflineEnds, ScriptStarts,
         ScriptStarted, OpenaiSmoke, OpenaiEnds, Benchmark, BenchmarkEnds, TraceReplay, ReplayEnds,
         ScriptStops, ScriptStopped, GpuArtifactsReady, Cleanup, CleanupEnds, Report, GpuRun,
         OpenaiPublishes, ReplayPublishes
<1>7. CASE Week04Next
  <2>1. CASE RunsJob \/ RunsDog
    BY <1>3, <1>5, <2>1 DEF RunsJob, RunsDog
  <2>2. CASE OperatorActs \/ Analyze \/ WriteReport \/ Verify
    BY <1>2, <2>2 DEF OperatorActs, Analyze, WriteReport, Verify
  <2>3. CASE UNCHANGED runVars
    BY <1>2, <2>3 DEF runVars
  <2>4. CASE Command(Script) /\ UNCHANGED <<lifecycleVars, script, files, used>>
    BY <1>3, <2>4
  <2>. QED
    BY <1>4, <1>5, <1>6, <1>7, <2>1, <2>2, <2>3, <2>4 DEF Week04Next
<1>. QED
  BY <1>2, <1>7 DEF week04Vars, runVars

\* In every run a command counts as completed only if it ended by itself, and after a timeout or
\* an interruption nothing of its group is left.
THEOREM VerdictsAreHonest == Week04Spec => []VerdictHonest
<1>1. Week04Init => DogInv
  BY DEF Week04Init, DogInit, NoDog, DogInv, Dogs, Sound
<1>2. DogInv /\ [Week04Next]_week04Vars => DogInv'
  BY DogStep
<1>3. DogInv => VerdictHonest
  BY DEF DogInv, Dogs, Sound, VerdictHonest, Watching, GroupLives
<1>. QED
  BY <1>1, <1>2, <1>3, PTL DEF Week04Spec

(***************************************************************************)
(* What ready promises                                                     *)
(***************************************************************************)
\* Attempt k has ended, and the start that launched it as well.
Gone(k) == k \in 1..launched /\ k \notin leader /\ \A c \in Callers : op[c].own # k

\* Where a stop got to, it saw the attempt dead.
StopsInv ==
  /\ launched <= MaxAttempts
  /\ record.grouped \/ record.state = "ready" => record.attempt # 0
  /\ record.state = "stopped" => record.attempt \in 1..launched \ leader
  /\ \A c \in Callers :
       /\ op[c].pc = "idle" => op[c].own = 0
       /\ op[c].pc \in HasServer \cup {"term", "kill"} => op[c].k # 0
       /\ op[c].pc = "mark stopped" => op[c].k \in 1..launched \ leader

\* The server that was on record has been stopped.
Final == record.state = "stopped" /\ Gone(record.attempt)

\* A stop asked for by the script that has ended well has seen that.
StopAsked ==
  /\ op[Script].pc \in {"idle", "stop", "term", "kill", "mark stopped"}
  /\ op[Script].pc = "mark stopped" => Gone(op[Script].k)
  /\ op[Script].pc = "idle" /\ op[Script].ok => Final

Has(what) == <<what, record.attempt>> \in published

Verified(l) == ~bench[l].marker /\ bench[l].final # 0 /\ Has(l)

\* The marker is there from before the files are moved until all of them name the attempt, and no
\* verified benchmark is begun again.
JobInv ==
  /\ job.pc # "idle" => script.pc = "bench runs" /\ job.label = script.label
  /\ job.pc \in {"lock", "mark"} => bench[job.label].final = 0
  /\ job.pc \in {"metrics", "watch", "complete", "unmark"} => bench[job.label].marker
  /\ job.pc \in {"complete", "unmark"} => bench[job.label].final # 0
  /\ job.pc = "unmark" => Has(job.label)
  /\ script.pc = "bench runs" /\ job.pc = "idle" /\ job.ok => Verified(script.label)

\* The phases of the script, each with what the ones before it have left.
Benchmarking == {"bench", "bench runs"}
AfterReplays == {"stop", "stops", "ready"}
AfterBenchmarks == {"replay", "replay runs"} \cup AfterReplays

ScriptInv ==
  /\ script.pc \notin Benchmarking => script.label = 0
  /\ script.pc \in Benchmarking \cup AfterBenchmarks => Has(SmokeFiles)
  /\ script.pc \in Benchmarking => \A l \in 0..(script.label - 1) : Verified(l)
  /\ script.pc \in AfterBenchmarks => \A l \in Labels : Verified(l)
  /\ script.pc \in AfterReplays => Has(ReplayFiles)
  /\ script.pc = "stops" => StopAsked
  /\ script.pc = "ready" => Final

AllVerified == Has(SmokeFiles) /\ Has(ReplayFiles) /\ Final /\ \A l \in Labels : Verified(l)

\* What was promised is kept, and nothing that would spoil the papers begins any more.
StatusInv ==
  /\ status.done \/ status.is = "completed" => AllVerified
  /\ status.is = "completed" =>
       /\ script.pc \in {"idle", "initialize", "cleanup", "cleans", "report"}
       /\ AnalysisVerified /\ ReportVerified

Fielded ==
  /\ {"pc", "attempt", "label"} \subseteq DOMAIN script
  /\ {"pc", "attempt", "label", "ok"} \subseteq DOMAIN job
  /\ script.label \in Labels
  /\ bench \in [Labels -> [final : Nat, marker : BOOLEAN, lock : BOOLEAN]]

NumberedNames ==
  published # {} \/ script.pc \in Naming \/ job.pc \notin {"idle", "check"} => record.attempt # 0

ReadyInv == Fielded /\ StopsInv /\ NumberedNames /\ JobInv /\ ScriptInv /\ StatusInv

(***************************************************************************)
(* What a stop has seen                                                    *)
(***************************************************************************)
\* The end of a critical start.
Restarted(c) ==
  /\ op[c].pc \in Critical
  /\ record'.state \in {"starting", "startup_failed"}
  /\ record'.grouped => record'.attempt # 0

\* What a step of an invocation may make of its own state, of the record and of the processes.
StopLeads(c) ==
  /\ op'[c].pc = "idle" => op'[c].own = 0
  /\ op'[c].pc \in HasServer \cup {"term", "kill"} => op'[c].k # 0
  /\ op'[c].pc = "mark stopped" => op'[c].k \in 1..launched \ leader
  /\ op'[c].own \in {0, op[c].own} \/ Launch(c)
  /\ \/ launched' = launched /\ leader' \subseteq leader
     \/ Launch(c)
  /\ \/ record' = record
     \/ Restarted(c)
     \/ MarkReady(c)
     \/ MarkFailed(c)
     \/ record' = [record EXCEPT !.state = "stopped"] /\ record.attempt \in 1..launched \ leader

LEMMA GotoStops ==
  ASSUME ServerInv, NEW c \in Callers, NEW pc, Goto(c, pc)
  PROVE  op'[c].pc = pc /\ op'[c].own = op[c].own /\ op'[c].k = op[c].k
  BY Looks DEF Goto, Invocation

LEMMA ReturnStops ==
  ASSUME ServerInv, NEW c \in Callers, NEW ok, Return(c, ok)
  PROVE  op'[c].pc = "idle" /\ op'[c].own = 0
  BY Looks DEF Return, NoOp

\* Whoever returns has seen nothing ...
LEMMA StopsNowhere ==
  ASSUME ServerInv, NEW c \in Callers, NEW ok, Return(c, ok), UNCHANGED <<launched, leader>>,
         \/ record' = record
         \/ Restarted(c)
         \/ MarkReady(c)
         \/ record' = [record EXCEPT !.state = "stopped"] /\ record.attempt \in 1..launched \ leader
  PROVE  StopLeads(c)
  BY ReturnStops DEF StopLeads, HasServer, Critical

\* ... and who goes on takes along what he has seen.
LEMMA StopsOn ==
  ASSUME ServerInv, NEW c \in Callers, NEW pc, Goto(c, pc), pc # "idle",
         pc \in HasServer \cup {"term", "kill"} => op[c].k # 0,
         pc = "mark stopped" => op[c].k \in 1..launched \ leader,
         launched' = launched, leader' \subseteq leader,
         record' = record \/ Restarted(c)
  PROVE  StopLeads(c)
<1>1. op'[c].pc = pc /\ op'[c].own = op[c].own /\ op'[c].k = op[c].k
  BY GotoStops
<1>. QED
  BY <1>1 DEF StopLeads

\* A group that is not there has no leader.
LEMMA NobodyThere ==
  ASSUME ServerInv, NEW k \in Numbered, k # 0, ~group_exists(k)
  PROVE  k \in 1..launched \ leader
  BY DEF group_exists, Numbered, ServerInv, LifecycleTypeOK

LEMMA StepsStop == ASSUME ServerInv, StopsInv, NEW c \in Callers, InvocationStep(c) PROVE StopLeads(c)
<1>1. op \in [Callers -> Invocation] /\ NoOp.pc = "idle" /\ NoOp.own = 0
  BY Looks DEF NoOp
<1>2. record \in [attempt : Numbered, state : States, identified : BOOLEAN, grouped : BOOLEAN]
  BY DEF ServerInv, LifecycleTypeOK
<1>3. CASE Start(c) \/ Wait(c) \/ Stop(c)
  <2>1. \E cmd \in {"start", "wait", "stop"}, pc \in {"check", "read", "stop"} : Invoked(c, cmd, pc)
    BY <1>3 DEF Start, Wait, Stop
  <2>2. op'[c].pc \in {"check", "read", "stop"} /\ op'[c].own = 0
    BY <1>1, <2>1 DEF Invoked, NoOp
  <2>3. UNCHANGED <<record, launched, leader>>
    BY <1>3 DEF Start, Wait, Stop, disk, os
  <2>. QED
    BY <2>2, <2>3 DEF StopLeads, HasServer, Critical
<1>4. CASE Interrupted(c)
  <2>1. UNCHANGED <<record, launched, leader>> /\ (Goto(c, "mark failed") \/ Return(c, FALSE))
    BY <1>4 DEF Interrupted, os
  <2>. QED
    BY <2>1, StopsNowhere, StopsOn DEF HasServer, Critical
<1>5. CASE PreflightFails(c) \/ StartRefused(c) \/ LaunchFails(c)
  <2>1. Return(c, FALSE) /\ UNCHANGED <<record, launched, leader>>
    BY <1>5 DEF PreflightFails, StartRefused, LaunchFails, disk, os
  <2>. QED
    BY <2>1, StopsNowhere
<1>6. CASE Ungrouped(c) \/ record_startup_failure(c)
  <2>1. Return(c, FALSE) /\ UNCHANGED <<launched, leader>>
    BY <1>6 DEF Ungrouped, record_startup_failure, os
  <2>2. CASE Ungrouped(c)
    BY <2>1, <2>2, StopsNowhere DEF Ungrouped, At, Critical, Restarted
  <2>3. CASE record_startup_failure(c)
    BY <2>1, <2>3, StopsNowhere DEF record_startup_failure, At, Critical, HasServer, Restarted, StopsInv
  <2>. QED
    BY <1>6, <2>2, <2>3
<1>7. CASE RecordStart(c) \/ RecordStartNoWait(c)
  <2>1. op[c].k \in leader /\ op[c].pc = "identify"
    BY <1>7 DEF RecordStart, RecordStartNoWait, At, capture_process_identity, process_snapshot
  <2>2. op[c].k # 0
    BY <2>1 DEF ServerInv, LifecycleTypeOK
  <2>3. UNCHANGED <<launched, leader>>
        /\ record' = [attempt |-> op[c].k, state |-> "starting", identified |-> TRUE, grouped |-> TRUE]
    BY <1>7 DEF RecordStart, RecordStartNoWait, os
  <2>4. Restarted(c)
    BY <2>1, <2>2, <2>3 DEF Restarted, Critical
  <2>5. CASE RecordStart(c)
    BY <2>3, <2>4, <2>5, StopsOn DEF RecordStart, HasServer, Critical
  <2>6. CASE RecordStartNoWait(c)
    BY <2>3, <2>4, <2>6, StopsNowhere DEF RecordStartNoWait
  <2>. QED
    BY <1>7, <2>5, <2>6
<1>8. CASE StartChecked(c)
  <2>1. Goto(c, "launch") /\ UNCHANGED <<record, launched, leader>>
    BY <1>8 DEF StartChecked, disk, os
  <2>. QED
    BY <2>1, StopsOn DEF HasServer
<1>9. CASE Launch(c)
  <2>1. op'[c].pc = "identify" /\ op'[c].k = launched + 1 /\ record' = record
    BY <1>1, <1>9 DEF Launch, Invocation, disk
  <2>2. launched + 1 # 0
    BY DEF ServerInv, LifecycleTypeOK
  <2>. QED
    BY <1>9, <2>1, <2>2 DEF StopLeads
<1>10. CASE Unidentified(c) \/ CleanupKill(c) \/ CleanupDone(c)
  <2>1. \E pc \in {"cleanup", "record failure"} : Goto(c, pc)
    BY <1>10 DEF Unidentified, CleanupKill, CleanupDone
  <2>2. record' = record /\ launched' = launched /\ leader' \subseteq leader
    BY <1>10 DEF Unidentified, CleanupKill, CleanupDone, disk, os, Term, KillGroup
  <2>3. op[c].k # 0
    BY <1>10 DEF Unidentified, CleanupKill, CleanupDone, At, StopsInv, HasServer, Critical
  <2>. QED
    BY <2>1, <2>2, <2>3, StopsOn
<1>11. CASE ReadRecord(c)
  <2>1. op'[c].pc = "wait" /\ op'[c].own = op[c].own
    BY <1>1, <1>11 DEF ReadRecord, Invocation
  <2>. QED
    BY <1>11, <2>1 DEF ReadRecord, StopLeads, disk, os, HasServer, Critical
<1>12. CASE Answered(c) \/ PublishSnapshot(c) \/ WaitFails(c)
  <2>1. /\ UNCHANGED <<record, launched, leader>>
        /\ Goto(c, "publish") \/ Goto(c, "mark ready") \/ Goto(c, "mark failed") \/ Return(c, FALSE)
    BY <1>12 DEF Answered, PublishSnapshot, WaitFails, WaitFailed, disk, os
  <2>. QED
    BY <2>1, StopsOn, StopsNowhere DEF HasServer, Critical
<1>13. CASE MarkReady(c)
  BY <1>13, StopsNowhere DEF MarkReady, os
<1>14. CASE MarkFailed(c)
  <2>1. op'[c].pc = "stop" /\ op'[c].own = op[c].own
    BY <1>1, <1>14 DEF MarkFailed, NoOp
  <2>. QED
    BY <1>14, <2>1 DEF MarkFailed, StopLeads, os, HasServer, Critical
<1>15. CASE NothingToStop(c) \/ StopRefused(c) \/ StopGivesUp(c) \/ MarkOvertaken(c)
  <2>1. UNCHANGED <<record, launched, leader>> /\ \E ok \in BOOLEAN : Return(c, ok)
    BY <1>15 DEF NothingToStop, StopRefused, StopGivesUp, MarkOvertaken, disk, os
  <2>. QED
    BY <2>1, StopsNowhere
<1>16. CASE StopFindsItGone(c)
  <2>1. record.attempt \in 1..launched \ leader
    <3>1. record.attempt # 0 /\ ~group_exists(record.attempt)
      BY <1>16 DEF StopFindsItGone, validate_owned_process_group, StopsInv
    <3>. QED
      BY <1>2, <3>1, NobodyThere
  <2>2. Return(c, TRUE) /\ UNCHANGED <<launched, leader>>
        /\ record' = [record EXCEPT !.state = "stopped"]
    BY <1>16 DEF StopFindsItGone, os
  <2>. QED
    BY <1>2, <2>1, <2>2, StopsNowhere
<1>17. CASE MarkStopped(c)
  <2>1. record.attempt \in 1..launched \ leader
    BY <1>17 DEF MarkStopped, At, StopsInv
  <2>2. Return(c, TRUE) /\ UNCHANGED <<launched, leader>>
        /\ record' = [record EXCEPT !.state = "stopped"]
    BY <1>17 DEF MarkStopped, os
  <2>. QED
    BY <1>2, <2>1, <2>2, StopsNowhere
<1>18. CASE StopTerm(c)
  <2>1. op'[c].pc = "term" /\ op'[c].own = op[c].own /\ op'[c].k = record.attempt
    BY <1>1, <1>18 DEF StopTerm, Invocation
  <2>2. record.attempt \in leader
    BY <1>18 DEF StopTerm, validate_owned_process_group, ownership_status, process_snapshot
  <2>3. record.attempt # 0
    BY <2>2 DEF ServerInv, LifecycleTypeOK
  <2>. QED
    BY <1>18, <2>1, <2>3 DEF StopTerm, Term, StopLeads, disk
<1>19. CASE PollAgain(c)
  <2>1. op'[c].pc = "term" /\ op'[c].own = op[c].own /\ op'[c].k = op[c].k
    BY <1>1, <1>19 DEF PollAgain, At, Invocation
  <2>. QED
    BY <1>19, <2>1 DEF PollAgain, At, StopLeads, StopsInv, disk, os
<1>20. CASE PollClosed(c)
  <2>1. op[c].k \in 1..launched \ leader
    <3>1. op[c].k \in Numbered /\ op[c].k # 0 /\ ~group_exists(op[c].k)
      BY <1>1, <1>20 DEF PollClosed, Invocation, StopsInv
    <3>. QED
      BY <3>1, NobodyThere
  <2>. QED
    BY <1>20, <2>1, StopsOn DEF PollClosed, disk, os, HasServer, Critical
<1>21. CASE StopKill(c)
  <2>1. Goto(c, "kill") /\ record' = record /\ launched' = launched /\ leader' \subseteq leader
    BY <1>21 DEF StopKill, KillGroup, disk
  <2>2. op[c].k # 0
    BY <1>21 DEF StopKill, At, StopsInv
  <2>. QED
    BY <2>1, <2>2, StopsOn
<1>. QED
  BY <1>3, <1>4, <1>5, <1>6, <1>7, <1>8, <1>9, <1>10, <1>11, <1>12, <1>13, <1>14, <1>15, <1>16, <1>17,
     <1>18, <1>19, <1>20, <1>21
  DEF InvocationStep, Progress

LEMMA StopsKept ==
  ASSUME ServerInv, StopsInv, NEW c \in Callers, InvocationStep(c) PROVE StopsInv'
<1>1. StopLeads(c) /\ Leads(c)
  BY StepsStop, StepsLead
<1>2. /\ op \in [Callers -> Invocation] /\ launched \in Nat
      /\ record \in [attempt : Numbered, state : States, identified : BOOLEAN, grouped : BOOLEAN]
  BY DEF ServerInv, LifecycleTypeOK
<1>3. Launch(c) => /\ launched' = launched + 1 /\ launched < MaxAttempts /\ record' = record
                   /\ leader' = leader \cup {launched + 1}
  BY DEF Launch, disk
<1>4. launched' <= MaxAttempts /\ 1..launched \ leader \subseteq 1..launched' \ leader'
  <2>1. CASE Launch(c)
    BY <1>2, <1>3, <2>1
  <2>2. CASE launched' = launched /\ leader' \subseteq leader
    BY <2>2 DEF StopsInv
  <2>. QED
    BY <1>1, <2>1, <2>2 DEF StopLeads
<1>5. ASSUME MarkReady(c) PROVE record'.state = "ready" /\ record'.attempt # 0
  <2>1. record.attempt \in leader
    BY <1>5 DEF MarkReady, StillHeld, ownership_status, process_snapshot
  <2>2. record.attempt # 0
    BY <2>1 DEF ServerInv, LifecycleTypeOK
  <2>3. record' = [record EXCEPT !.state = "ready"]
    BY <1>5 DEF MarkReady
  <2>. QED
    BY <1>2, <2>2, <2>3
<1>6. MarkFailed(c) => record' = record \/ record' = [record EXCEPT !.state = "readiness_failed"]
  BY DEF MarkFailed
<1>7. record'.grouped \/ record'.state = "ready" => record'.attempt # 0
  <2>1. CASE record'.attempt = record.attempt /\ (record'.grouped => record.grouped)
              /\ (record'.state = "ready" => record.state = "ready" \/ MarkReady(c))
    BY <1>5, <2>1 DEF StopsInv
  <2>. QED
    BY <1>1, <1>2, <1>5, <1>6, <2>1 DEF StopLeads, StopsInv, Restarted
<1>8. record'.state = "stopped" => record'.attempt \in 1..launched' \ leader'
  BY <1>1, <1>2, <1>4, <1>5, <1>6 DEF StopLeads, StopsInv, Restarted
<1>9. ASSUME NEW d \in Callers
       PROVE  /\ op'[d].pc = "idle" => op'[d].own = 0
              /\ op'[d].pc \in HasServer \cup {"term", "kill"} => op'[d].k # 0
              /\ op'[d].pc = "mark stopped" => op'[d].k \in 1..launched' \ leader'
  <2>1. CASE d = c
    BY <1>1, <1>4, <2>1 DEF StopLeads
  <2>2. CASE d # c
    BY <1>1, <1>4, <2>2 DEF Leads, StopsInv
  <2>. QED
    BY <2>1, <2>2
<1>. QED
  BY <1>4, <1>7, <1>8, <1>9 DEF StopsInv

\* In a settled state nothing is launched, so an attempt that is gone stays gone ...
LEMMA SettledSteps ==
  ASSUME ServerInv, StopsInv, Settled, NEW c \in Callers, InvocationStep(c)
  PROVE  /\ launched' = launched /\ leader' \subseteq leader
         /\ \A d \in Callers : op'[d].own \in {0, op[d].own}
<1>1. ~Launch(c)
  BY DEF Launch, At, Settled, Critical
<1>2. StopLeads(c) /\ Leads(c)
  BY StepsStop, StepsLead
<1>. QED
  BY <1>1, <1>2 DEF StopLeads, Leads

LEMMA GoneKept ==
  ASSUME NEW k, Gone(k), launched' = launched, leader' \subseteq leader,
         \A d \in Callers : op'[d].own \in {0, op[d].own}
  PROVE  Gone(k)'
<1>1. k # 0
  BY DEF Gone
<1>. QED
  BY <1>1 DEF Gone

\* ... and a server that a stop has ended stays stopped.
LEMMA FinalKept ==
  ASSUME ServerInv, StopsInv, WaitsForOne, Settled, Final, NEW c \in Callers, InvocationStep(c)
  PROVE  Final'
<1>1. Gone(record.attempt)'
  <2>1. /\ launched' = launched /\ leader' \subseteq leader
        /\ \A d \in Callers : op'[d].own \in {0, op[d].own}
    BY SettledSteps
  <2>2. Gone(record.attempt)
    BY DEF Final
  <2>3. record'.attempt = record.attempt
    BY SettledKept
  <2>4. record.attempt # 0
    BY <2>2 DEF Gone
  <2>. QED
    BY <2>1, <2>2, <2>3, <2>4 DEF Gone
<1>2. ~MarkReady(c)
  BY DEF MarkReady, StillHeld, ownership_status, process_snapshot, Final, Gone
<1>3. MarkFailed(c) => record' = record
  BY DEF MarkFailed, Final, Gone
<1>4. ~Restarted(c)
  BY DEF Restarted, Settled
<1>5. record'.state = "stopped"
  <2>1. CASE record' = record
    BY <2>1 DEF Final
  <2>2. CASE record' = [record EXCEPT !.state = "stopped"]
    BY <2>2 DEF ServerInv, LifecycleTypeOK
  <2>. QED
    BY <1>2, <1>3, <1>4, <2>1, <2>2, StepsStop DEF StopLeads
<1>. QED
  BY <1>1, <1>5 DEF Final

\* The group of an attempt is gone only when its start has ended.
LEMMA EndIsGone ==
  ASSUME ServerInv, StopsInv, Settled, NEW k \in Numbered, k # 0, ~group_exists(k)
  PROVE  Gone(k)
<1>1. k \in 1..launched \ leader
  BY NobodyThere
<1>2. ASSUME NEW d \in Callers PROVE op[d].own # k
  <2>1. SUFFICES ASSUME op[d].own = k PROVE FALSE
    OBVIOUS
  <2>2. op[d].pc \in {"idle", "identify", "cleanup", "record failure"}
    BY <1>1, <2>1 DEF group_exists, Defunct
  <2>3. op[d].pc = "idle"
    BY <2>2 DEF Settled, Critical
  <2>. QED
    BY <2>1, <2>3 DEF StopsInv
<1>. QED
  BY <1>1, <1>2 DEF Gone

\* The stop that the script asks for ends well only if the server is gone for good.
LEMMA ReturnFails ==
  ASSUME ServerInv, NEW ok, Return(Script, ok), ok => Final' PROVE StopAsked'
<1>1. op'[Script].pc = "idle" /\ (op'[Script].ok => ok)
  BY Looks DEF Return, NoOp
<1>. QED
  BY <1>1 DEF StopAsked

LEMMA StopKept ==
  ASSUME ServerInv, StopsInv, WaitsForOne, Settled, record.attempt # 0, StopAsked,
         Progress(Script) \/ Interrupted(Script)
  PROVE  StopAsked'
<1>1. op[Script] \in Invocation /\ record.attempt \in Numbered
  BY DEF ServerInv, LifecycleTypeOK
<1>2. InvocationStep(Script)
  BY DEF InvocationStep
<1>3. CASE Interrupted(Script)
  <2>1. Return(Script, FALSE)
    BY <1>3 DEF Interrupted, StopAsked
  <2>. QED
    BY <2>1, ReturnFails
<1>4. CASE NothingToStop(Script) \/ StopRefused(Script) \/ StopGivesUp(Script) \/ MarkOvertaken(Script)
  <2>1. ~NothingToStop(Script)
    BY DEF NothingToStop, NoRecord
  <2>2. Return(Script, FALSE)
    BY <1>4, <2>1 DEF StopRefused, StopGivesUp, MarkOvertaken
  <2>. QED
    BY <2>2, ReturnFails
<1>5. ASSUME NEW pc \in {"kill", "term", "mark stopped"}, Goto(Script, pc),
             pc = "mark stopped" => Gone(op[Script].k)
      PROVE  StopAsked'
  <2>1. op'[Script].pc = pc /\ op'[Script].k = op[Script].k
    BY <1>5, GotoStops
  <2>2. /\ launched' = launched /\ leader' \subseteq leader
        /\ \A d \in Callers : op'[d].own \in {0, op[d].own}
    BY <1>2, SettledSteps
  <2>3. ASSUME NEW k, Gone(k) PROVE Gone(k)'
    BY <2>2, <2>3, GoneKept
  <2>. QED
    BY <1>5, <2>1, <2>3 DEF StopAsked
<1>6. CASE StopTerm(Script) \/ PollAgain(Script)
  <2>1. op'[Script].pc = "term"
    <3>1. op \in [Callers -> Invocation] /\ Script \in Callers
      BY Looks
    <3>2. CASE StopTerm(Script)
      BY <3>1, <3>2 DEF StopTerm, Invocation
    <3>3. CASE PollAgain(Script)
      BY <3>1, <3>3 DEF PollAgain, At, Invocation
    <3>. QED
      BY <1>6, <3>2, <3>3
  <2>. QED
    BY <2>1 DEF StopAsked
<1>7. CASE StopKill(Script)
  BY <1>5, <1>7 DEF StopKill
<1>8. CASE PollClosed(Script)
  <2>1. op[Script].k \in Numbered /\ op[Script].k # 0 /\ ~group_exists(op[Script].k)
    BY <1>1, <1>8 DEF PollClosed, Invocation, StopsInv
  <2>2. Gone(op[Script].k)
    BY <2>1, EndIsGone
  <2>. QED
    BY <1>5, <1>8, <2>2 DEF PollClosed
<1>9. CASE StopFindsItGone(Script) \/ MarkStopped(Script)
  <2>1. Gone(record.attempt)
    <3>1. CASE StopFindsItGone(Script)
      BY <1>1, <3>1, EndIsGone DEF StopFindsItGone
    <3>2. CASE MarkStopped(Script)
      BY <3>2 DEF MarkStopped, At, StopAsked
    <3>. QED
      BY <1>9, <3>1, <3>2
  <2>2. Return(Script, TRUE) /\ record' = [record EXCEPT !.state = "stopped"]
    BY <1>9 DEF StopFindsItGone, MarkStopped
  <2>3. record'.state = "stopped" /\ record'.attempt = record.attempt
    BY <2>2 DEF ServerInv, LifecycleTypeOK
  <2>4. /\ launched' = launched /\ leader' \subseteq leader
        /\ \A d \in Callers : op'[d].own \in {0, op[d].own}
    BY <1>2, SettledSteps
  <2>5. Final'
    BY <2>1, <2>3, <2>4 DEF Final, Gone
  <2>. QED
    BY <2>2, <2>5, ReturnFails
<1>10. \/ Interrupted(Script)
       \/ NothingToStop(Script) \/ StopRefused(Script) \/ StopGivesUp(Script) \/ MarkOvertaken(Script)
       \/ StopTerm(Script) \/ PollAgain(Script) \/ StopKill(Script) \/ PollClosed(Script)
       \/ StopFindsItGone(Script) \/ MarkStopped(Script)
  BY DEF StopAsked, Progress, At, PreflightFails, StartRefused, StartChecked, Launch, LaunchFails,
         RecordStart, Unidentified, Ungrouped, CleanupKill, CleanupDone, record_startup_failure,
         ReadRecord, Answered, PublishSnapshot, MarkReady, WaitFails, MarkFailed
<1>. QED
  BY <1>3, <1>4, <1>6, <1>7, <1>8, <1>9, <1>10

(***************************************************************************)
(* What has been published and verified lasts                              *)
(***************************************************************************)
EvidenceLasts ==
  /\ \A what : Has(what) => Has(what)'
  /\ \A l \in Labels : Verified(l) => Verified(l)'
  /\ published # {} => record'.attempt = record.attempt
  /\ published # {} /\ Final => Final'
  /\ published # {} => \A k : Gone(k) => Gone(k)'

LEMMA HasSettles ==
  ASSUME NamesInv, NumberedNames, NEW what, Has(what)
  PROVE  Settled /\ published # {} /\ record.attempt # 0
  BY DEF Has, NamesInv, NamesTheRecord, NumberedNames

LEMMA InvocationLasts ==
  ASSUME ServerInv, NamesInv, StopsInv, NumberedNames, NEW c \in Callers, InvocationStep(c),
         UNCHANGED bench
  PROVE  EvidenceLasts
<1>1. published' = published
  BY StepsLead DEF Leads
<1>2. published # {} => Settled
  BY DEF NamesInv, NamesTheRecord
<1>3. WaitsForOne
  BY DEF NamesInv
<1>4. published # {} => record'.attempt = record.attempt
  BY <1>2, <1>3, SettledKept
<1>5. \A what : Has(what) => Has(what)'
  BY <1>1, <1>4 DEF Has
<1>6. \A l \in Labels : Verified(l) => Verified(l)'
  BY <1>5 DEF Verified
<1>7. published # {} /\ Final => Final'
  BY <1>2, <1>3, FinalKept
<1>8. published # {} => \A k : Gone(k) => Gone(k)'
  BY <1>2, SettledSteps, GoneKept
<1>. QED
  BY <1>4, <1>5, <1>6, <1>7, <1>8 DEF EvidenceLasts

\* A step that is no invocation's: it may end attempts and starts, and publish.
LEMMA OthersLast ==
  ASSUME UNCHANGED record, UNCHANGED bench, UNCHANGED launched, leader' \subseteq leader,
         published \subseteq published', \A d \in Callers : op'[d].own \in {0, op[d].own}
  PROVE  EvidenceLasts
<1>1. \A k : Gone(k) => Gone(k)'
  BY GoneKept
<1>2. \A what : Has(what) => Has(what)'
  BY DEF Has
<1>3. \A l \in Labels : Verified(l) => Verified(l)'
  BY <1>2 DEF Verified
<1>4. Final => Final'
  <2>1. Gone(record.attempt) => Gone(record.attempt)'
    BY DEF Gone
  <2>. QED
    BY <2>1 DEF Final
<1>. QED
  BY <1>1, <1>2, <1>3, <1>4 DEF EvidenceLasts

JobElsewhere == UNCHANGED <<record, launched, leader, op>>

LEMMA JobStaysOff == ASSUME JobSteps PROVE JobElsewhere
  BY DEF JobSteps, JobMetadata, JobSkips, JobRefused, JobChecked, JobLocks, JobMarks, JobWatches,
         JobMoves, JobCompletes, JobUnmarks, JobFails, lifecycleVars, disk, os, JobElsewhere

(***************************************************************************)
(* The benchmark                                                           *)
(***************************************************************************)
FilesTyped == [final : Nat, marker : BOOLEAN, lock : BOOLEAN]

\* What a step of the benchmark that ends where it should makes of its files f.
JobReached(f) ==
  /\ job'.pc # "idle" => job'.label = job.label
  /\ job'.pc \in {"lock", "mark"} => f.final = 0
  /\ job'.pc \in {"metrics", "watch", "complete", "unmark"} => f.marker
  /\ job'.pc \in {"complete", "unmark"} => f.final # 0
  /\ job'.pc = "unmark" => <<job.label, record'.attempt>> \in published'
  /\ job'.pc = "idle" /\ job'.ok => ~f.marker /\ f.final # 0 /\ <<job.label, record'.attempt>> \in published'

\* The label and the files of a benchmark that runs.
LEMMA JobRuns ==
  ASSUME Fielded, JobInv, JobSteps
  PROVE  /\ job.pc # "idle" /\ script.pc = "bench runs" /\ job.label = script.label
         /\ job.label \in Labels /\ Files \in FilesTyped
<1>1. job.pc # "idle"
  BY DEF JobSteps, JobMetadata, JobSkips, JobRefused, JobChecked, JobLocks, JobMarks, JobWatches,
         JobMoves, JobCompletes, JobUnmarks, JobFails, JobAt
<1>2. script.pc = "bench runs" /\ job.label = script.label
  BY <1>1 DEF JobInv
<1>. QED
  BY <1>1, <1>2 DEF Fielded, Files, FilesTyped

\* A step that leaves a verified benchmark's files verified keeps what there is.
LEMMA JobArrives ==
  ASSUME Fielded, JobInv, JobSteps, UNCHANGED script, NEW f \in FilesTyped,
         bench' = [bench EXCEPT ![job.label] = f],
         {"pc", "attempt", "label", "ok"} \subseteq DOMAIN job', UNCHANGED status,
         \A what : Has(what) => Has(what)',
         Verified(job.label) => f.marker = Files.marker /\ f.final = Files.final,
         JobReached(f)
  PROVE  EvidenceLasts /\ JobInv' /\ Fielded'
<1>1. /\ job.label \in Labels /\ script.pc = "bench runs" /\ job.label = script.label
      /\ bench \in [Labels -> FilesTyped]
  BY JobRuns DEF Fielded, FilesTyped
<1>2. bench' \in [Labels -> FilesTyped] /\ bench'[job.label] = f
      /\ \A l \in Labels \ {job.label} : bench'[l] = bench[l]
  BY <1>1
<1>3. ASSUME NEW l \in Labels, Verified(l) PROVE Verified(l)'
  <2>1. CASE l = job.label
    BY <1>2, <1>3, <2>1 DEF Verified, Files
  <2>2. CASE l # job.label
    BY <1>2, <1>3, <2>2 DEF Verified
  <2>. QED
    BY <2>1, <2>2
<1>4. UNCHANGED record /\ UNCHANGED launched /\ UNCHANGED leader /\ UNCHANGED op
  BY JobStaysOff DEF JobElsewhere
<1>5. EvidenceLasts
  <2>1. \A k : Gone(k) => Gone(k)'
    BY <1>4 DEF Gone
  <2>2. Final => Final'
    BY <1>4 DEF Final, Gone
  <2>. QED
    BY <1>3, <1>4, <2>1, <2>2 DEF EvidenceLasts
<1>6. Fielded'
  BY <1>2 DEF Fielded, FilesTyped
<1>7. CASE job'.pc # "idle"
  <2>1. job'.label = job.label
    BY <1>7 DEF JobReached
  <2>2. bench'[job'.label] = f
    BY <1>2, <2>1
  <2>3. job'.pc = "unmark" => Has(job.label)'
    BY <2>1 DEF JobReached, Has
  <2>4. JobInv'
    BY <1>1, <1>7, <2>1, <2>2, <2>3 DEF JobInv, JobReached
  <2>. QED
    BY <1>5, <1>6, <2>4
<1>8. CASE job'.pc = "idle"
  <2>1. job'.ok => Verified(script.label)'
    BY <1>1, <1>2, <1>8 DEF JobReached, Verified, Has
  <2>2. JobInv'
    BY <1>8, <2>1 DEF JobInv
  <2>. QED
    BY <1>5, <1>6, <2>2
<1>. QED
  BY <1>7, <1>8

LEMMA JobReadyKeeps ==
  ASSUME ServerInv, NamesInv, NumberedNames, Fielded, JobInv, JobSteps, UNCHANGED script,
         UNCHANGED status
  PROVE  EvidenceLasts /\ JobInv' /\ Fielded'
<1>1. /\ job.label \in Labels /\ job.label = script.label
      /\ Files \in FilesTyped /\ bench \in [Labels -> FilesTyped] /\ Files = bench[job.label]
  BY JobRuns DEF Fielded, FilesTyped, Files
<1>2. bench = [bench EXCEPT ![job.label] = Files]
  BY <1>1
<1>3. UNCHANGED record
  BY JobStaysOff DEF JobElsewhere
<1>4. job.pc \notin {"idle", "check"} => job.attempt = record.attempt /\ record.attempt \in Nat \ {0}
  BY DEF NamesInv, NamesTheRecord, NumberedNames, ServerInv, LifecycleTypeOK, Numbered
<1>5. ASSUME UNCHANGED published PROVE \A what : Has(what) => Has(what)'
  BY <1>3, <1>5 DEF Has
<1>6. ASSUME NEW ok, JobEnds(ok)
      PROVE  job'.pc = "idle" /\ job'.ok = ok /\ {"pc", "attempt", "label", "ok"} \subseteq DOMAIN job'
  BY <1>6 DEF JobEnds, NoJob
<1>7. ASSUME NEW pc, JobGoto(pc)
      PROVE  /\ job'.pc = pc /\ job'.label = job.label
             /\ {"pc", "attempt", "label", "ok"} \subseteq DOMAIN job'
  BY <1>7 DEF JobGoto, Fielded
<1>8. CASE JobMetadata
  <2>1. UNCHANGED bench /\ UNCHANGED published
    BY <1>8 DEF JobMetadata, lifecycleVars, disk
  <2>2. job'.pc = "files" /\ job'.label = job.label /\ {"pc", "attempt", "label", "ok"} \subseteq DOMAIN job'
    BY <1>8 DEF JobMetadata, Fielded
  <2>. QED
    BY <1>1, <1>2, <1>5, <2>1, <2>2, JobArrives DEF JobReached
<1>9. CASE JobSkips
  <2>1. UNCHANGED bench /\ UNCHANGED published /\ JobEnds(TRUE)
    BY <1>9 DEF JobSkips, lifecycleVars, disk
  <2>2. Has(job.label)
    BY <1>4, <1>9 DEF JobSkips, JobAt, Reusable, Completed, Has
  <2>3. Files.final # 0 /\ ~Files.marker
    BY <1>9 DEF JobSkips, Reusable
  <2>4. JobReached(Files)
    BY <1>3, <1>6, <2>1, <2>2, <2>3 DEF JobReached, Has
  <2>. QED
    BY <1>1, <1>2, <1>5, <1>6, <2>1, <2>4, JobArrives
<1>10. CASE JobRefused
  <2>1. UNCHANGED bench /\ UNCHANGED published /\ JobEnds(FALSE)
    BY <1>10 DEF JobRefused, lifecycleVars, disk
  <2>2. JobReached(Files)
    BY <1>6, <2>1 DEF JobReached
  <2>. QED
    BY <1>1, <1>2, <1>5, <1>6, <2>1, <2>2, JobArrives
<1>11. CASE JobChecked
  <2>1. UNCHANGED bench /\ UNCHANGED published /\ JobGoto("lock") /\ Files.final = 0
    BY <1>11 DEF JobChecked, FilesAreFree, lifecycleVars, disk
  <2>2. JobReached(Files)
    BY <1>7, <2>1 DEF JobReached
  <2>. QED
    BY <1>1, <1>2, <1>5, <1>7, <2>1, <2>2, JobArrives
<1>12. CASE JobLocks
  <2>. DEFINE f == [Files EXCEPT !.lock = TRUE]
  <2>1. bench' = [bench EXCEPT ![job.label] = f] /\ UNCHANGED published /\ JobGoto("mark")
        /\ Files.final = 0
    BY <1>12 DEF JobLocks, JobAt, SetFiles, JobInv, Files, lifecycleVars, disk
  <2>2. f \in FilesTyped /\ f.marker = Files.marker /\ f.final = Files.final
    BY <1>1 DEF FilesTyped
  <2>3. JobReached(f)
    BY <1>7, <2>1, <2>2 DEF JobReached
  <2>. HIDE DEF f
  <2>. QED
    BY <1>5, <1>7, <2>1, <2>2, <2>3, JobArrives
<1>13. CASE JobMarks
  <2>. DEFINE f == [Files EXCEPT !.marker = TRUE]
  <2>1. bench' = [bench EXCEPT ![job.label] = f] /\ UNCHANGED published /\ JobGoto("metrics")
        /\ Files.final = 0
    BY <1>13 DEF JobMarks, JobAt, SetFiles, JobInv, Files, lifecycleVars, disk
  <2>2. f \in FilesTyped /\ f.marker
    BY <1>1 DEF FilesTyped
  <2>3. JobReached(f)
    BY <1>7, <2>1, <2>2 DEF JobReached
  <2>4. ~Verified(job.label)
    BY <2>1 DEF Verified, Files
  <2>. HIDE DEF f
  <2>. QED
    BY <1>5, <1>7, <2>1, <2>2, <2>3, <2>4, JobArrives
<1>14. CASE JobWatches
  <2>1. UNCHANGED bench /\ UNCHANGED published /\ JobGoto("watch") /\ Files.marker
    BY <1>14 DEF JobWatches, JobAt, JobInv, Files, lifecycleVars, disk
  <2>2. JobReached(Files)
    BY <1>7, <2>1 DEF JobReached
  <2>. QED
    BY <1>1, <1>2, <1>5, <1>7, <2>1, <2>2, JobArrives
<1>15. CASE JobMoves
  <2>. DEFINE f == [Files EXCEPT !.final = job.attempt]
  <2>1. bench' = [bench EXCEPT ![job.label] = f] /\ UNCHANGED published /\ JobGoto("complete")
        /\ job.pc = "watch" /\ Files.marker
    BY <1>15 DEF JobMoves, JobAt, SetFiles, JobInv, Files, lifecycleVars, disk
  <2>2. f \in FilesTyped /\ f.marker /\ f.final # 0
    BY <1>1, <1>4, <2>1 DEF FilesTyped
  <2>3. JobReached(f)
    BY <1>7, <2>1, <2>2 DEF JobReached
  <2>4. ~Verified(job.label)
    BY <2>1 DEF Verified, Files
  <2>. HIDE DEF f
  <2>. QED
    BY <1>5, <1>7, <2>1, <2>2, <2>3, <2>4, JobArrives
<1>16. CASE JobCompletes
  <2>1. UNCHANGED bench /\ JobGoto("unmark") /\ job.pc = "complete" /\ Files.marker /\ Files.final # 0
    BY <1>16 DEF JobCompletes, JobAt, JobInv, Files
  <2>2. published' = {p \in published : p[1] # job.label} \cup {<<job.label, job.attempt>>}
    BY <1>16 DEF JobCompletes
  <2>3. <<job.label, record'.attempt>> \in published' /\ \A what : Has(what) => Has(what)'
    BY <1>3, <1>4, <2>1, <2>2 DEF Has
  <2>4. JobReached(Files)
    BY <1>7, <2>1, <2>3 DEF JobReached
  <2>. QED
    BY <1>1, <1>2, <1>7, <2>1, <2>3, <2>4, JobArrives
<1>17. CASE JobUnmarks
  <2>. DEFINE f == [Files EXCEPT !.marker = FALSE, !.lock = FALSE]
  <2>1. bench' = [bench EXCEPT ![job.label] = f] /\ UNCHANGED published /\ JobEnds(TRUE)
        /\ Files.marker /\ Files.final # 0 /\ Has(job.label)
    BY <1>17 DEF JobUnmarks, JobAt, SetFiles, JobInv, Files, lifecycleVars, disk
  <2>2. f \in FilesTyped /\ ~f.marker /\ f.final # 0
    BY <1>1, <2>1 DEF FilesTyped
  <2>3. JobReached(f)
    BY <1>3, <1>6, <2>1, <2>2 DEF JobReached, Has
  <2>4. ~Verified(job.label)
    BY <2>1 DEF Verified, Files
  <2>. HIDE DEF f
  <2>. QED
    BY <1>5, <1>6, <2>1, <2>2, <2>3, <2>4, JobArrives
<1>18. CASE JobFails
  <2>. DEFINE f == [Files EXCEPT !.lock = FALSE]
  <2>1. bench' = [bench EXCEPT ![job.label] = f] /\ UNCHANGED published /\ JobEnds(FALSE)
    BY <1>18 DEF JobFails, SetFiles, lifecycleVars, disk
  <2>2. f \in FilesTyped /\ f.marker = Files.marker /\ f.final = Files.final
    BY <1>1 DEF FilesTyped
  <2>3. JobReached(f)
    BY <1>6, <2>1, <2>2 DEF JobReached
  <2>. HIDE DEF f
  <2>. QED
    BY <1>5, <1>6, <2>1, <2>2, <2>3, JobArrives
<1>. QED
  BY <1>8, <1>9, <1>10, <1>11, <1>12, <1>13, <1>14, <1>15, <1>16, <1>17, <1>18 DEF JobSteps

(***************************************************************************)
(* The script                                                              *)
(***************************************************************************)
\* What a phase s of the script stands on.
Reached(s) ==
  /\ {"pc", "attempt", "label"} \subseteq DOMAIN s /\ s.label \in Labels
  /\ s.pc \notin Benchmarking => s.label = 0
  /\ s.pc \in Benchmarking \cup AfterBenchmarks => Has(SmokeFiles)
  /\ s.pc \in Benchmarking => \A l \in 0..(s.label - 1) : Verified(l)
  /\ s.pc \in AfterBenchmarks => \A l \in Labels : Verified(l)
  /\ s.pc \in AfterReplays => Has(ReplayFiles)
  /\ s.pc = "ready" => Final

LEMMA ReachedLasts ==
  ASSUME NamesInv, EvidenceLasts, Reached(script'), script'.pc = "stops" => StopAsked'
  PROVE  ScriptInv'
<1>1. \A l \in 0..(script'.label - 1) : l \in Labels
  BY Week04Assumption DEF Reached, Labels
<1>2. Has(ReplayFiles) => published # {}
  BY DEF Has
<1>3. script'.pc = "ready" => Final'
  BY <1>2 DEF Reached, EvidenceLasts, AfterReplays
<1>4. \A l \in Labels : Verified(l) => Verified(l)'
  BY DEF EvidenceLasts
<1>5. /\ Has(SmokeFiles) => Has(SmokeFiles)'
      /\ Has(ReplayFiles) => Has(ReplayFiles)'
  BY DEF EvidenceLasts
<1>. QED
  BY <1>1, <1>3, <1>4, <1>5 DEF Reached, ScriptInv

LEMMA ScriptReached ==
  ASSUME Fielded, ScriptInv PROVE Reached(script)
  BY DEF Fielded, ScriptInv, Reached

\* The early phases and the trap stand on nothing.
LEMMA ZeroLabel == 0 \in Labels /\ 0..(0 - 1) = {} /\ Labels \subseteq Int
  BY Week04Assumption DEF Labels

LEMMA ReachedEarly ==
  ASSUME NEW s, {"pc", "attempt", "label"} \subseteq DOMAIN s, s.label = 0,
         s.pc \notin Benchmarking \cup AfterBenchmarks
  PROVE  Reached(s)
<1>1. s.pc # "ready" /\ s.pc \notin Benchmarking /\ s.pc \notin AfterBenchmarks
      /\ s.pc \notin AfterReplays
  BY DEF AfterBenchmarks, AfterReplays
<1>. QED
  BY <1>1, ZeroLabel DEF Reached

LEMMA TrappedReached ==
  ASSUME NEW failed PROVE Reached(Trapped(failed)) /\ Trapped(failed).pc = "cleanup"
<1>1. /\ Trapped(failed).pc = "cleanup" /\ Trapped(failed).label = 0
      /\ {"pc", "attempt", "label"} \subseteq DOMAIN Trapped(failed)
  BY DEF Trapped, NoScript
<1>. QED
  BY <1>1, ReachedEarly DEF Benchmarking, AfterBenchmarks, AfterReplays

LEMMA AfterReached ==
  ASSUME NEW ok, NEW next, After(ok, next), ok => Reached(next)
  PROVE  Reached(script') /\ (script'.pc = "cleanup" \/ (ok /\ script' = next))
<1>1. script' = Trapped(TRUE) \/ script' = Trapped(~ok) \/ (ok /\ script' = next)
  BY DEF After
<1>. QED
  BY <1>1, TrappedReached

\* Where a step of the script leads, and from where.
ScriptReaches ==
  /\ Reached(script')
  /\ script'.pc = "stops" => ScriptStops
  /\ script'.pc = "bench runs" => Benchmark

LEMMA ScriptStepReaches ==
  ASSUME NamesInv, Fielded, JobInv, ScriptInv, ScriptSteps \/ GpuRun PROVE ScriptReaches
<1>1. /\ {"pc", "attempt", "label"} \subseteq DOMAIN script /\ script.label \in Labels
      /\ script.pc \notin Benchmarking => script.label = 0
  BY DEF Fielded, ScriptInv
<1>2. ASSUME NEW s, {"pc", "attempt", "label"} \subseteq DOMAIN s, s.label = 0,
             s.pc \in {"idle", "initialize", "offline", "offline runs", "start", "starts", "openai",
                       "openai runs", "cleanup", "cleans", "report"}
      PROVE  Reached(s)
  BY <1>2, ReachedEarly DEF Benchmarking, AfterBenchmarks, AfterReplays
<1>3. ASSUME NEW ok, NEW next, After(ok, next), ok => Reached(next),
             ok => next.pc \notin {"stops", "bench runs"}
      PROVE  ScriptReaches
  BY <1>3, AfterReached DEF ScriptReaches
<1>4. CASE initialize
  <2>1. script.pc = "initialize"
    BY <1>4 DEF initialize, ScriptAt
  <2>. DEFINE next == [script EXCEPT !.pc = "offline", !.inited = TRUE]
  <2>2. next.pc = "offline" /\ next.label = 0 /\ {"pc", "attempt", "label"} \subseteq DOMAIN next
    BY <1>1, <2>1 DEF Benchmarking
  <2>3. After(FALSE, script) \/ After(TRUE, next)
    BY <1>4 DEF initialize
  <2>. HIDE DEF next
  <2>. QED
    BY <1>2, <1>3, <2>2, <2>3
<1>5. CASE GpuRun \/ Report
  <2>1. script' = [NoScript EXCEPT !.pc = "initialize"] \/ script' = NoScript
    BY <1>5 DEF GpuRun, Report
  <2>2. /\ script'.pc \in {"idle", "initialize"} /\ script'.label = 0
        /\ {"pc", "attempt", "label"} \subseteq DOMAIN script'
    BY <2>1 DEF NoScript
  <2>. QED
    BY <1>2, <2>2 DEF ScriptReaches
<1>6. CASE OfflineEnds
  <2>. DEFINE next == [script EXCEPT !.pc = "start"]
  <2>1. next.pc = "start" /\ next.label = 0 /\ {"pc", "attempt", "label"} \subseteq DOMAIN next
    BY <1>1, <1>6 DEF OfflineEnds, ScriptAt, Benchmarking
  <2>2. After(dog[Script].code = "completed", next)
    BY <1>6 DEF OfflineEnds
  <2>. HIDE DEF next
  <2>. QED
    BY <1>2, <1>3, <2>1, <2>2
<1>7. CASE ScriptStarted
  <2>. DEFINE next == [script EXCEPT !.pc = "openai", !.started = TRUE]
  <2>1. next.pc = "openai" /\ next.label = 0 /\ {"pc", "attempt", "label"} \subseteq DOMAIN next
    BY <1>1, <1>7 DEF ScriptStarted, ScriptAt, Benchmarking
  <2>2. After(op[Script].ok, next)
    BY <1>7 DEF ScriptStarted
  <2>. HIDE DEF next
  <2>. QED
    BY <1>2, <1>3, <2>1, <2>2
<1>8. CASE OfflineSmoke \/ ScriptStarts \/ Cleanup \/ CleanupEnds
  <2>1. script.pc \notin Benchmarking
    BY <1>8 DEF OfflineSmoke, ScriptStarts, Cleanup, CleanupEnds, ScriptAt, Benchmarking
  <2>2. \/ \E pc \in {"offline runs", "starts", "cleans", "report"} : script' = [script EXCEPT !.pc = pc]
        \/ script' = [script EXCEPT !.pc = "report", !.failed = @ \/ ~op[Script].ok]
    BY <1>8 DEF OfflineSmoke, ScriptStarts, Cleanup, CleanupEnds
  <2>3. /\ script'.pc \in {"offline runs", "starts", "cleans", "report"} /\ script'.label = 0
        /\ {"pc", "attempt", "label"} \subseteq DOMAIN script'
    BY <1>1, <2>1, <2>2
  <2>. QED
    BY <1>2, <2>3 DEF ScriptReaches
<1>9. CASE OpenaiSmoke
  <2>1. CASE script' = Trapped(TRUE)
    BY <2>1, TrappedReached DEF ScriptReaches
  <2>2. CASE script' = [script EXCEPT !.pc = "openai runs", !.attempt = record.attempt]
    <3>1. /\ script'.pc = "openai runs" /\ script'.label = 0
          /\ {"pc", "attempt", "label"} \subseteq DOMAIN script'
      BY <1>1, <1>9, <2>2 DEF OpenaiSmoke, ScriptAt, Benchmarking
    <3>. QED
      BY <1>2, <3>1 DEF ScriptReaches
  <2>. QED
    BY <1>9, <2>1, <2>2 DEF OpenaiSmoke
<1>10. CASE OpenaiEnds
  <2>. DEFINE next == [script EXCEPT !.pc = "bench", !.attempt = 0]
              ok == dog[Script].code = "completed" /\ <<SmokeFiles, script.attempt>> \in published
  <2>1. next.pc = "bench" /\ next.label = 0 /\ {"pc", "attempt", "label"} \subseteq DOMAIN next
    BY <1>1, <1>10 DEF OpenaiEnds, ScriptAt, Benchmarking
  <2>2. ok => Has(SmokeFiles)
    BY <1>10 DEF OpenaiEnds, ScriptAt, NamesInv, NamesTheRecord, Naming, Has
  <2>3. After(ok, next)
    BY <1>10 DEF OpenaiEnds
  <2>. HIDE DEF next, ok
  <2>4. next.pc \notin AfterBenchmarks /\ next.pc \notin AfterReplays /\ next.pc # "ready"
    BY <2>1 DEF AfterBenchmarks, AfterReplays
  <2>5. 0..(next.label - 1) = {}
    BY <2>1, ZeroLabel
  <2>6. ok => Reached(next)
    BY <2>1, <2>2, <2>4, <2>5, ZeroLabel DEF Reached, Benchmarking
  <2>. QED
    BY <1>3, <2>1, <2>3, <2>6
<1>11. CASE Benchmark
  <2>1. script' = [script EXCEPT !.pc = "bench runs"] /\ script.pc = "bench"
    BY <1>11 DEF Benchmark, ScriptAt
  <2>2. /\ script'.pc = "bench runs" /\ script'.label = script.label
        /\ {"pc", "attempt", "label"} \subseteq DOMAIN script'
    BY <1>1, <2>1
  <2>3. Reached(script')
    BY <1>1, <2>1, <2>2 DEF ScriptInv, Reached, Benchmarking, AfterBenchmarks, AfterReplays
  <2>. QED
    BY <1>11, <2>2, <2>3 DEF ScriptReaches
<1>12. CASE BenchmarkEnds
  <2>. DEFINE next == IF script.label = Cases THEN [script EXCEPT !.pc = "replay", !.label = 0]
                      ELSE [script EXCEPT !.pc = "bench", !.label = @ + 1]
  <2>1. After(job.ok, next) /\ script.pc = "bench runs"
    BY <1>12 DEF BenchmarkEnds, ScriptAt
  <2>2. job.ok => Verified(script.label)
    BY <1>12 DEF BenchmarkEnds, ScriptAt, JobAt, JobInv
  <2>3. ASSUME job.ok, NEW l \in 0..script.label PROVE Verified(l)
    <3>. HIDE <2>3
    <3>0. script.label \in Int
      BY <1>1, ZeroLabel
    <3>1. l = script.label \/ l \in 0..(script.label - 1)
      BY <3>0
    <3>2. script.pc \in Benchmarking
      BY <2>1 DEF Benchmarking
    <3>. QED
      BY <2>2, <2>3, <3>1, <3>2 DEF ScriptInv
  <2>4. CASE script.label = Cases
    <3>1. next = [script EXCEPT !.pc = "replay", !.label = 0]
      BY <2>4
    <3>2. next.pc = "replay" /\ next.label = 0 /\ {"pc", "attempt", "label"} \subseteq DOMAIN next
      BY <1>1, <3>1
    <3>. HIDE DEF next
    <3>3. job.ok => \A l \in Labels : Verified(l)
      BY <2>3, <2>4 DEF Labels
    <3>4. job.ok => Has(SmokeFiles)
      BY <2>1 DEF ScriptInv, Benchmarking
    <3>5. next.pc \notin Benchmarking /\ next.pc \notin AfterReplays /\ next.pc # "ready"
      BY <3>2 DEF Benchmarking, AfterReplays
    <3>6. job.ok => Reached(next)
      BY <3>2, <3>3, <3>4, <3>5, ZeroLabel DEF Reached
    <3>. QED
      BY <1>3, <2>1, <3>2, <3>6
  <2>5. CASE script.label # Cases
    <3>1. next = [script EXCEPT !.pc = "bench", !.label = script.label + 1]
      BY <2>5
    <3>2. /\ next.pc = "bench" /\ next.label = script.label + 1
          /\ {"pc", "attempt", "label"} \subseteq DOMAIN next
      BY <1>1, <3>1
    <3>3. next.label \in Labels /\ next.label - 1 = script.label
      BY <1>1, <2>5, <3>2, Week04Assumption DEF Labels
    <3>. HIDE DEF next
    <3>4. job.ok => Reached(next)
      BY <1>1, <2>1, <2>3, <3>2, <3>3
      DEF ScriptInv, Reached, Benchmarking, AfterBenchmarks, AfterReplays
    <3>. QED
      BY <1>3, <2>1, <3>2, <3>4
  <2>. QED
    BY <2>4, <2>5
<1>13. CASE TraceReplay
  <2>1. CASE script' = Trapped(TRUE)
    BY <2>1, TrappedReached DEF ScriptReaches
  <2>2. CASE script' = [script EXCEPT !.pc = "replay runs", !.attempt = record.attempt]
    <3>1. /\ script'.pc = "replay runs" /\ script'.label = 0 /\ script.pc = "replay"
          /\ {"pc", "attempt", "label"} \subseteq DOMAIN script'
      BY <1>1, <1>13, <2>2 DEF TraceReplay, ScriptAt, Benchmarking
    <3>2. Reached(script')
      BY <1>1, <3>1 DEF ScriptInv, Reached, Benchmarking, AfterBenchmarks, AfterReplays
    <3>. QED
      BY <3>1, <3>2 DEF ScriptReaches
  <2>. QED
    BY <1>13, <2>1, <2>2 DEF TraceReplay
<1>14. CASE ReplayEnds
  <2>. DEFINE next == [script EXCEPT !.pc = "stop", !.attempt = 0]
  <2>1. PICK ok \in BOOLEAN :
          (ok => <<ReplayFiles, script.attempt>> \in published) /\ After(ok, next)
    BY <1>14 DEF ReplayEnds
  <2>2. ok => Has(ReplayFiles)
    BY <1>14, <2>1 DEF ReplayEnds, ScriptAt, NamesInv, NamesTheRecord, Naming, Has
  <2>3. /\ next.pc = "stop" /\ next.label = 0 /\ {"pc", "attempt", "label"} \subseteq DOMAIN next
        /\ script.pc = "replay runs"
    BY <1>1, <1>14 DEF ReplayEnds, ScriptAt, Benchmarking
  <2>. HIDE DEF next
  <2>4. ok => Reached(next)
    BY <1>1, <2>2, <2>3 DEF ScriptInv, Reached, Benchmarking, AfterBenchmarks, AfterReplays
  <2>. QED
    BY <1>3, <2>1, <2>3, <2>4
<1>15. CASE ScriptStops
  <2>1. script' = [script EXCEPT !.pc = "stops"] /\ script.pc = "stop"
    BY <1>15 DEF ScriptStops, ScriptAt
  <2>2. /\ script'.pc = "stops" /\ script'.label = 0
        /\ {"pc", "attempt", "label"} \subseteq DOMAIN script'
    BY <1>1, <2>1 DEF Benchmarking
  <2>3. Reached(script')
    BY <1>1, <2>1, <2>2 DEF ScriptInv, Reached, Benchmarking, AfterBenchmarks, AfterReplays
  <2>. QED
    BY <1>15, <2>2, <2>3 DEF ScriptReaches
<1>16. CASE ScriptStopped
  <2>. DEFINE next == [script EXCEPT !.pc = "ready", !.started = FALSE]
  <2>1. /\ next.pc = "ready" /\ next.label = 0 /\ {"pc", "attempt", "label"} \subseteq DOMAIN next
        /\ script.pc = "stops" /\ op[Script].pc = "idle" /\ After(op[Script].ok, next)
    BY <1>1, <1>16 DEF ScriptStopped, ScriptAt, At, Benchmarking
  <2>. HIDE DEF next
  <2>2. op[Script].ok => Final
    BY <2>1 DEF ScriptInv, StopAsked
  <2>3. op[Script].ok => Reached(next)
    BY <1>1, <2>1, <2>2 DEF ScriptInv, Reached, Benchmarking, AfterBenchmarks, AfterReplays
  <2>. QED
    BY <1>3, <2>1, <2>3
<1>17. CASE GpuArtifactsReady
  <2>1. /\ NoScript.pc = "idle" /\ NoScript.label = 0
        /\ {"pc", "attempt", "label"} \subseteq DOMAIN NoScript
    BY DEF NoScript
  <2>. QED
    BY <1>2, <1>3, <1>17, <2>1 DEF GpuArtifactsReady
<1>. QED
  BY <1>4, <1>5, <1>6, <1>7, <1>8, <1>9, <1>10, <1>11, <1>12, <1>13, <1>14, <1>15, <1>16, <1>17
  DEF ScriptSteps

(***************************************************************************)
(* What a step that keeps the evidence keeps of the rest                   *)
(***************************************************************************)
Harmless == {"idle", "initialize", "cleanup", "cleans", "report"}

LEMMA StatusKept ==
  ASSUME StatusInv, EvidenceLasts, UNCHANGED status,
         status.is = "completed" => script'.pc \in Harmless /\ UNCHANGED papers
  PROVE  StatusInv'
<1>1. ASSUME AllVerified PROVE AllVerified' /\ record'.attempt = record.attempt
  <2>1. published # {}
    BY <1>1 DEF AllVerified, Has
  <2>. QED
    BY <1>1, <2>1 DEF AllVerified, EvidenceLasts
<1>. QED
  BY <1>1 DEF StatusInv, AnalysisVerified, ReportVerified, Harmless

\* A status that is not "completed" and promises nothing.
LEMMA StatusReset ==
  ASSUME NEW is, is # "completed", status' = [is |-> is, done |-> FALSE] PROVE StatusInv'
  BY DEF StatusInv

LEMMA NumberedKept ==
  ASSUME NamesInv, StopsInv, NumberedNames, Settled => record'.attempt = record.attempt,
         published' # {} => published # {} \/ script.pc \in Naming \/ job.pc \notin {"idle", "check"},
         script'.pc \in Naming => script.pc \in Naming \/ record.state = "ready",
         job'.pc \notin {"idle", "check"} => job.pc \notin {"idle", "check"} \/ record.state = "ready"
  PROVE  NumberedNames'
<1>1. record.state = "ready" => Settled /\ record.attempt # 0
  BY DEF NamesInv, ReadyIsSettled, StopsInv
<1>2. published # {} \/ script.pc \in Naming \/ job.pc \notin {"idle", "check"}
        => Settled /\ record.attempt # 0
  BY DEF NamesInv, NamesTheRecord, NumberedNames
<1>. QED
  BY <1>1, <1>2 DEF NumberedNames

\* What a step that is not the benchmark's makes of it: nothing, a new one, or it is cut off.
JobTurns ==
  /\ UNCHANGED bench
  /\ \/ UNCHANGED job /\ UNCHANGED script
     \/ UNCHANGED job /\ job.pc = "idle" /\ script'.pc # "bench runs"
     \/ /\ job'.pc = "check" /\ job'.label = script'.label /\ script'.pc = "bench runs"
        /\ {"pc", "attempt", "label", "ok"} \subseteq DOMAIN job'
     \/ job' = NoJob /\ script'.pc # "bench runs"

LEMMA JobKept ==
  ASSUME Fielded, JobInv, EvidenceLasts, JobTurns, Reached(script') PROVE JobInv' /\ Fielded'
<1>1. NoJob.pc = "idle" /\ {"pc", "attempt", "label", "ok"} \subseteq DOMAIN NoJob
  BY DEF NoJob
<1>2. Fielded'
  BY <1>1 DEF Fielded, JobTurns, Reached
<1>3. CASE UNCHANGED job /\ UNCHANGED script
  <2>1. \A what : Has(what) => Has(what)'
    BY DEF EvidenceLasts
  <2>2. Verified(script.label) => Verified(script.label)'
    BY <1>3 DEF Fielded, EvidenceLasts
  <2>3. Has(job.label) => Has(job.label)'
    BY <1>3, <2>1 DEF Has
  <2>4. UNCHANGED bench
    BY DEF JobTurns
  <2>5. JobInv'
    BY <1>3, <2>2, <2>3, <2>4 DEF JobInv
  <2>. QED
    BY <1>2, <2>5
<1>4. CASE job'.pc = "idle" /\ script'.pc # "bench runs"
  BY <1>2, <1>4 DEF JobInv
<1>5. CASE job'.pc = "check" /\ job'.label = script'.label /\ script'.pc = "bench runs"
  BY <1>2, <1>5 DEF JobInv
<1>6. CASE job' = NoJob /\ script'.pc # "bench runs"
  BY <1>1, <1>4, <1>6
<1>7. CASE UNCHANGED job /\ job.pc = "idle" /\ script'.pc # "bench runs"
  BY <1>4, <1>7
<1>. QED
  BY <1>3, <1>5, <1>6, <1>7 DEF JobTurns

\* A stop of the script that goes on while others act.
LEMMA StopAskedLasts ==
  ASSUME EvidenceLasts, published # {}, StopAsked, op'[Script] = op[Script] PROVE StopAsked'
<1>1. Gone(op[Script].k) => Gone(op[Script].k)'
  <2>1. \A k : Gone(k) => Gone(k)'
    BY DEF EvidenceLasts
  <2>. QED
    BY <2>1 DEF Gone
<1>2. Final => Final'
  BY DEF EvidenceLasts
<1>. QED
  BY <1>1, <1>2 DEF StopAsked

\* All but what the status promises.
RestInv == Fielded /\ StopsInv /\ NumberedNames /\ JobInv /\ ScriptInv

(***************************************************************************)
(* The invocations                                                         *)
(***************************************************************************)
LEMMA InvocationKeepsReady ==
  ASSUME ServerInv, NamesInv, ReadyInv, NEW c \in Callers, InvocationStep(c),
         c = Script => Progress(c) \/ Interrupted(c),
         UNCHANGED script, UNCHANGED status, UNCHANGED bench, UNCHANGED job, UNCHANGED papers
  PROVE  ReadyInv'
<1>1. StopsInv /\ NumberedNames /\ Fielded /\ JobInv /\ ScriptInv /\ StatusInv
  BY DEF ReadyInv
<1>2. EvidenceLasts
  BY <1>1, InvocationLasts
<1>3. StopsInv'
  BY <1>1, StopsKept
<1>4. Settled => record'.attempt = record.attempt
  BY SettledKept DEF NamesInv
<1>5. published' = published /\ \A d \in Callers \ {c} : op'[d] = op[d]
  BY StepsLead DEF Leads
<1>6. NumberedNames'
  BY <1>1, <1>4, <1>5, NumberedKept
<1>7. Reached(script')
  <2>1. Reached(script)
    BY <1>1, ScriptReached
  <2>. QED
    BY <2>1 DEF Reached
<1>8. JobInv' /\ Fielded'
  BY <1>1, <1>2, <1>7, JobKept DEF JobTurns
<1>9. ASSUME script'.pc = "stops" PROVE StopAsked'
  <2>1. Has(ReplayFiles) /\ StopAsked
    BY <1>1, <1>9 DEF ScriptInv, AfterReplays
  <2>2. Settled /\ published # {} /\ record.attempt # 0
    BY <1>1, <2>1, HasSettles
  <2>3. CASE c = Script
    BY <1>1, <2>1, <2>2, <2>3, StopKept DEF NamesInv
  <2>4. CASE c # Script
    BY <1>2, <1>5, <2>1, <2>2, <2>4, StopAskedLasts
  <2>. QED
    BY <2>3, <2>4
<1>10. ScriptInv'
  BY <1>2, <1>7, <1>9, ReachedLasts
<1>11. StatusInv'
  BY <1>1, <1>2, StatusKept DEF StatusInv, Harmless
<1>. QED
  BY <1>3, <1>6, <1>8, <1>10, <1>11 DEF ReadyInv

(***************************************************************************)
(* The benchmark, and whoever leaves the invocations alone                 *)
(***************************************************************************)
LEMMA QuietStops ==
  ASSUME ServerInv, StopsInv, UNCHANGED record, UNCHANGED launched, UNCHANGED op, leader' \subseteq leader
  PROVE  StopsInv'
  BY DEF StopsInv

LEMMA JobKeepsReady ==
  ASSUME ServerInv, NamesInv, ReadyInv, JobSteps,
         UNCHANGED script, UNCHANGED status
  PROVE  ReadyInv'
<1>1. StopsInv /\ NumberedNames /\ Fielded /\ JobInv /\ ScriptInv /\ StatusInv
  BY DEF ReadyInv
<1>2. EvidenceLasts /\ JobInv' /\ Fielded'
  BY <1>1, JobReadyKeeps
<1>3. UNCHANGED record /\ UNCHANGED launched /\ UNCHANGED leader /\ UNCHANGED op
  BY JobStaysOff DEF JobElsewhere
<1>4. StopsInv'
  BY <1>1, <1>3, QuietStops
<1>5. script.pc = "bench runs"
  BY <1>1, JobRuns
<1>6. NumberedNames'
  <2>1. JobCompletes \/ UNCHANGED published
    BY DEF JobSteps, JobMetadata, JobSkips, JobRefused, JobChecked, JobLocks, JobMarks, JobWatches,
           JobMoves, JobUnmarks, JobFails, lifecycleVars, disk
  <2>2. JobCompletes => job.pc = "complete"
    BY DEF JobCompletes, JobAt
  <2>3. JobMetadata \/ job.pc \notin {"idle", "check"} \/ \E ok \in BOOLEAN : JobEnds(ok)
    BY DEF JobSteps, JobSkips, JobRefused, JobChecked, JobLocks, JobMarks, JobWatches,
           JobMoves, JobCompletes, JobUnmarks, JobFails, JobAt
  <2>4. (\E ok \in BOOLEAN : JobEnds(ok)) => job'.pc = "idle"
    BY DEF JobEnds, NoJob
  <2>5. JobMetadata => record.state = "ready"
    BY DEF JobMetadata
  <2>. QED
    BY <1>1, <1>3, <2>1, <2>2, <2>3, <2>4, <2>5, NumberedKept
<1>7. Reached(script')
  <2>1. Reached(script)
    BY <1>1, ScriptReached
  <2>. QED
    BY <2>1 DEF Reached
<1>8. ScriptInv'
  BY <1>2, <1>5, <1>7, ReachedLasts
<1>9. StatusInv'
  BY <1>1, <1>2, <1>5, StatusKept DEF StatusInv
<1>. QED
  BY <1>2, <1>4, <1>6, <1>8, <1>9 DEF ReadyInv

\* Nothing but processes that end, files that are published, and the papers.
Quiet ==
  /\ UNCHANGED record /\ UNCHANGED launched /\ UNCHANGED op /\ leader' \subseteq leader
  /\ UNCHANGED script /\ UNCHANGED job /\ UNCHANGED bench
  /\ published \subseteq published'
  /\ published' # {} => published # {} \/ script.pc \in Naming

LEMMA QuietKeeps ==
  ASSUME ServerInv, NamesInv, ReadyInv, Quiet PROVE EvidenceLasts /\ RestInv'
<1>1. StopsInv /\ NumberedNames /\ Fielded /\ JobInv /\ ScriptInv
  BY DEF ReadyInv
<1>2. EvidenceLasts
  BY OthersLast DEF Quiet
<1>3. StopsInv'
  BY <1>1, QuietStops DEF Quiet
<1>4. NumberedNames'
  BY <1>1, NumberedKept DEF Quiet
<1>5. Reached(script')
  <2>1. Reached(script)
    BY <1>1, ScriptReached
  <2>2. UNCHANGED script
    BY DEF Quiet
  <2>. QED
    BY <2>1, <2>2 DEF Reached
<1>6. JobInv' /\ Fielded'
  <2>1. JobTurns
    BY DEF Quiet, JobTurns
  <2>. QED
    BY <1>1, <1>2, <1>5, <2>1, JobKept
<1>7. ASSUME script'.pc = "stops" PROVE StopAsked'
  <2>1. Has(ReplayFiles) /\ StopAsked
    BY <1>1, <1>7 DEF Quiet, ScriptInv, AfterReplays
  <2>2. published # {}
    BY <2>1 DEF Has
  <2>. QED
    BY <1>2, <2>1, <2>2, StopAskedLasts DEF Quiet
<1>8. ScriptInv'
  BY <1>2, <1>5, <1>7, ReachedLasts
<1>. QED
  BY <1>2, <1>3, <1>4, <1>6, <1>8 DEF RestInv

LEMMA QuietKeepsReady ==
  ASSUME ServerInv, NamesInv, ReadyInv, Quiet, UNCHANGED status,
         status.is = "completed" => UNCHANGED papers
  PROVE  ReadyInv'
<1>1. EvidenceLasts /\ RestInv'
  BY QuietKeeps
<1>2. status.is = "completed" => script'.pc \in Harmless
  BY DEF ReadyInv, StatusInv, Quiet, Harmless
<1>3. StatusInv'
  BY <1>1, <1>2, StatusKept DEF ReadyInv
<1>. QED
  BY <1>1, <1>3 DEF ReadyInv, RestInv

(***************************************************************************)
(* The script, the machine, and what follows a run                         *)
(***************************************************************************)
\* The script leaves the server, the files and the papers alone but for its invocations.
LEMMA ScriptActs ==
  ASSUME ScriptSteps \/ GpuRun
  PROVE  /\ UNCHANGED lifecycleVars \/ Start(Script) \/ Stop(Script)
         /\ UNCHANGED bench /\ UNCHANGED papers /\ UNCHANGED published
         /\ UNCHANGED job \/ (Benchmark /\ job' = [NoJob EXCEPT !.pc = "check", !.label = script.label])
         /\ script.pc = "bench runs" => job.pc = "idle"
  BY DEF ScriptSteps, initialize, OfflineSmoke, OfflineEnds, ScriptStarts, ScriptStarted, OpenaiSmoke,
         OpenaiEnds, Benchmark, BenchmarkEnds, TraceReplay, ReplayEnds, ScriptStops, ScriptStopped,
         GpuArtifactsReady, Cleanup, CleanupEnds, Report, GpuRun, ScriptAt, JobAt, files, Start, Stop,
         lifecycleVars, disk

\* What the script writes to the status file, and where it leads while the file says "completed".
StatusWritten ==
  \/ UNCHANGED status /\ (script.pc \in Harmless /\ status.is = "completed" => script'.pc \in Harmless)
  \/ \E is \in {"running", "failed"} : status' = [is |-> is, done |-> FALSE]
  \/ script.pc = "ready" /\ status' = [is |-> "running", done |-> TRUE]

LEMMA ScriptWrites ==
  ASSUME Fielded, ScriptSteps \/ GpuRun PROVE StatusWritten
<1>1. CASE initialize
  <2>1. CASE status.is \in {"artifacts_ready", "completed"}
    <3>1. After(FALSE, script) /\ UNCHANGED status
      BY <1>1, <2>1 DEF initialize
    <3>2. script'.pc = "cleanup"
      BY <3>1, TrappedReached DEF After
    <3>. QED
      BY <3>1, <3>2 DEF StatusWritten, Harmless
  <2>2. CASE status.is \notin {"artifacts_ready", "completed"}
    BY <1>1, <2>2 DEF initialize, write_status, StatusWritten
  <2>. QED
    BY <2>1, <2>2
<1>2. CASE GpuArtifactsReady
  BY <1>2 DEF GpuArtifactsReady, ScriptAt, write_status, StatusWritten
<1>3. CASE Report
  <2>1. script' = NoScript /\ NoScript.pc = "idle"
    BY <1>3 DEF Report, NoScript
  <2>. QED
    BY <1>3, <2>1 DEF Report, write_status, StatusWritten, Harmless
<1>4. CASE GpuRun
  <2>1. script' = [NoScript EXCEPT !.pc = "initialize"] /\ UNCHANGED status
    BY <1>4 DEF GpuRun, files
  <2>2. script'.pc = "initialize"
    BY <2>1 DEF NoScript
  <2>. QED
    BY <2>1, <2>2 DEF StatusWritten, Harmless
<1>5. CASE Cleanup \/ CleanupEnds
  <2>1. UNCHANGED status
    BY <1>5 DEF Cleanup, CleanupEnds, files
  <2>2. \/ \E pc \in {"cleans", "report"} : script' = [script EXCEPT !.pc = pc]
        \/ script' = [script EXCEPT !.pc = "report", !.failed = @ \/ ~op[Script].ok]
    BY <1>5 DEF Cleanup, CleanupEnds
  <2>3. script'.pc \in {"cleans", "report"}
    BY <2>2 DEF Fielded
  <2>. QED
    BY <2>1, <2>3 DEF StatusWritten, Harmless
<1>6. CASE \/ OfflineSmoke \/ OfflineEnds \/ ScriptStarts \/ ScriptStarted
           \/ OpenaiSmoke \/ OpenaiEnds \/ Benchmark \/ BenchmarkEnds \/ TraceReplay \/ ReplayEnds
           \/ ScriptStops \/ ScriptStopped
  <2>1. UNCHANGED status
    BY <1>6 DEF OfflineSmoke, OfflineEnds, ScriptStarts, ScriptStarted, OpenaiSmoke, OpenaiEnds,
         Benchmark, BenchmarkEnds, TraceReplay, ReplayEnds, ScriptStops, ScriptStopped, files
  <2>2. script.pc \notin Harmless
    BY <1>6 DEF OfflineSmoke, OfflineEnds, ScriptStarts, ScriptStarted, OpenaiSmoke, OpenaiEnds,
         Benchmark, BenchmarkEnds, TraceReplay, ReplayEnds, ScriptStops, ScriptStopped, ScriptAt,
         Harmless
  <2>. QED
    BY <2>1, <2>2 DEF StatusWritten
<1>. QED
  BY <1>1, <1>2, <1>3, <1>4, <1>5, <1>6 DEF ScriptSteps

LEMMA ScriptKeepsReady ==
  ASSUME ServerInv, NamesInv, Shaped, ReadyInv, ScriptSteps \/ GpuRun PROVE ReadyInv'
<1>1. StopsInv /\ NumberedNames /\ Fielded /\ JobInv /\ ScriptInv /\ StatusInv
  BY DEF ReadyInv
<1>2. UNCHANGED bench /\ UNCHANGED papers /\ UNCHANGED published
  BY ScriptActs
<1>3. EvidenceLasts /\ StopsInv' /\ (Settled => record'.attempt = record.attempt)
  <2>1. CASE Start(Script) \/ Stop(Script)
    <3>1. InvocationStep(Script) /\ Script \in Callers
      BY <2>1 DEF InvocationStep
    <3>2. WaitsForOne
      BY DEF NamesInv
    <3>3. EvidenceLasts
      BY <1>1, <1>2, <3>1, InvocationLasts
    <3>4. StopsInv'
      BY <1>1, <3>1, StopsKept
    <3>. QED
      BY <3>1, <3>2, <3>3, <3>4, SettledKept
  <2>2. CASE UNCHANGED lifecycleVars
    <3>1. UNCHANGED record /\ UNCHANGED launched /\ UNCHANGED op /\ UNCHANGED leader
      BY <2>2 DEF lifecycleVars, disk, os
    <3>2. EvidenceLasts
      BY <1>2, <3>1, OthersLast
    <3>. QED
      BY <1>1, <3>1, <3>2, QuietStops
  <2>. QED
    BY <2>1, <2>2, ScriptActs
<1>4. ScriptReaches
  BY <1>1, ScriptStepReaches
<1>5. NumberedNames'
  <2>1. script'.pc \in Naming => script.pc \in Naming \/ record.state = "ready"
    BY ScriptStepLeads DEF ScriptLeads
  <2>2. UNCHANGED job \/ job'.pc = "check"
    BY ScriptActs DEF NoJob
  <2>. QED
    BY <1>1, <1>2, <1>3, <2>1, <2>2, NumberedKept
<1>6. JobTurns
  <2>1. CASE script'.pc = "bench runs"
    <3>1. Benchmark
      BY <1>4, <2>1 DEF ScriptReaches
    <3>2. job' = [NoJob EXCEPT !.pc = "check", !.label = script.label]
          /\ script' = [script EXCEPT !.pc = "bench runs"]
      BY <3>1 DEF Benchmark
    <3>3. job'.pc = "check" /\ job'.label = script'.label
          /\ {"pc", "attempt", "label", "ok"} \subseteq DOMAIN job'
      BY <1>1, <3>2 DEF NoJob, Fielded
    <3>. QED
      BY <1>2, <2>1, <3>3 DEF JobTurns
  <2>2. CASE script'.pc # "bench runs"
    <3>1. ~Benchmark
      <4>1. Benchmark => script' = [script EXCEPT !.pc = "bench runs"]
        BY DEF Benchmark
      <4>. QED
        BY <1>1, <2>2, <4>1 DEF Fielded
    <3>2. UNCHANGED job
      BY <3>1, ScriptActs
    <3>3. job.pc = "idle"
      BY <1>1, ScriptActs DEF JobInv
    <3>. QED
      BY <1>2, <2>2, <3>2, <3>3 DEF JobTurns
  <2>. QED
    BY <2>1, <2>2
<1>7. JobInv' /\ Fielded'
  BY <1>1, <1>3, <1>4, <1>6, JobKept DEF ScriptReaches
<1>8. ASSUME script'.pc = "stops" PROVE StopAsked'
  <2>1. Stop(Script)
    BY <1>4, <1>8 DEF ScriptReaches, ScriptStops
  <2>2. op' = [op EXCEPT ![Script] = [NoOp EXCEPT !.cmd = "stop", !.pc = "stop"]]
    BY <2>1 DEF Stop, Invoked
  <2>3. op'[Script].pc = "stop"
    BY <2>2, Looks DEF NoOp
  <2>. QED
    BY <2>3 DEF StopAsked
<1>9. ScriptInv'
  BY <1>3, <1>4, <1>8, ReachedLasts DEF ScriptReaches
<1>10. StatusInv'
  <2>1. CASE UNCHANGED status /\ (script.pc \in Harmless /\ status.is = "completed" => script'.pc \in Harmless)
    BY <1>1, <1>2, <1>3, <2>1, StatusKept DEF StatusInv, Harmless
  <2>2. CASE \E is \in {"running", "failed"} : status' = [is |-> is, done |-> FALSE]
    BY <2>2, StatusReset
  <2>3. CASE script.pc = "ready" /\ status' = [is |-> "running", done |-> TRUE]
    <3>1. AllVerified
      BY <1>1, <2>3 DEF ScriptInv, AllVerified, AfterBenchmarks, AfterReplays
    <3>2. AllVerified'
      BY <1>3, <3>1 DEF AllVerified, EvidenceLasts, Has
    <3>. QED
      BY <2>3, <3>2 DEF StatusInv
  <2>. QED
    BY <1>1, <2>1, <2>2, <2>3, ScriptWrites DEF StatusWritten
<1>. QED
  BY <1>3, <1>5, <1>7, <1>9, <1>10 DEF ReadyInv

\* The keyboard ends a replay.
LEMMA TrapKeepsReady ==
  ASSUME ServerInv, NamesInv, ReadyInv, script.pc = "replay runs", script' = Trapped(TRUE),
         UNCHANGED lifecycleVars, UNCHANGED bench, UNCHANGED job, UNCHANGED status, UNCHANGED papers
  PROVE  ReadyInv'
<1>1. StopsInv /\ NumberedNames /\ Fielded /\ JobInv /\ StatusInv
  BY DEF ReadyInv
<1>2. UNCHANGED record /\ UNCHANGED launched /\ UNCHANGED op /\ UNCHANGED leader /\ UNCHANGED published
  BY DEF lifecycleVars, disk, os
<1>3. EvidenceLasts
  BY <1>2, OthersLast
<1>4. StopsInv'
  BY <1>1, <1>2, QuietStops
<1>5. Reached(script') /\ script'.pc = "cleanup"
  BY TrappedReached
<1>6. NumberedNames'
  BY <1>1, <1>2, <1>5, NumberedKept DEF Naming
<1>7. JobInv' /\ Fielded'
  <2>1. JobTurns
    BY <1>1, <1>5 DEF JobInv, JobTurns
  <2>. QED
    BY <1>1, <1>3, <1>5, <2>1, JobKept
<1>8. ScriptInv'
  BY <1>3, <1>5, ReachedLasts
<1>9. StatusInv'
  BY <1>1, <1>3, StatusKept DEF StatusInv
<1>. QED
  BY <1>4, <1>6, <1>7, <1>8, <1>9 DEF ReadyInv

\* A preemption ends every process and leaves every file.
LEMMA PreemptedKeepsReady ==
  ASSUME ServerInv, NamesInv, ReadyInv, Preempted PROVE ReadyInv'
<1>1. StopsInv /\ NumberedNames /\ Fielded /\ JobInv /\ StatusInv
  BY DEF ReadyInv
<1>2. /\ UNCHANGED record /\ UNCHANGED launched /\ UNCHANGED published /\ leader' = {}
      /\ op' = [c \in Callers |-> NoOp] /\ script' = NoScript /\ job' = NoJob
      /\ UNCHANGED status /\ UNCHANGED bench /\ UNCHANGED papers
  BY DEF Preempted, disk
<1>3. NoOp.pc = "idle" /\ NoOp.own = 0
  BY DEF NoOp
<1>4. EvidenceLasts
  BY <1>2, <1>3, OthersLast
<1>5. StopsInv'
  BY <1>1, <1>2, <1>3 DEF StopsInv, HasServer, Critical
<1>6. /\ NoScript.pc = "idle" /\ NoScript.label = 0
      /\ {"pc", "attempt", "label"} \subseteq DOMAIN NoScript
  BY DEF NoScript
<1>7. Reached(script') /\ script'.pc = "idle"
  BY <1>2, <1>6, ReachedEarly DEF Benchmarking, AfterBenchmarks, AfterReplays
<1>8. NumberedNames'
  <2>1. job'.pc = "idle"
    BY <1>2 DEF NoJob
  <2>. QED
    BY <1>1, <1>2, <1>7, <2>1, NumberedKept DEF Naming
<1>9. JobInv' /\ Fielded'
  <2>1. JobTurns
    BY <1>2, <1>7 DEF JobTurns
  <2>. QED
    BY <1>1, <1>4, <1>7, <2>1, JobKept
<1>10. ScriptInv'
  BY <1>4, <1>7, ReachedLasts
<1>11. StatusInv'
  BY <1>1, <1>2, <1>4, <1>7, StatusKept DEF Harmless
<1>. QED
  BY <1>5, <1>8, <1>9, <1>10, <1>11 DEF ReadyInv

\* What verification has looked at is what ready promises.
LEMMA VerifiedIsThere ==
  ASSUME NEW what, Completed(what) = {record.attempt} PROVE Has(what)
  BY DEF Completed, Has

LEMMA VerifyKeepsReady ==
  ASSUME ServerInv, NamesInv, ReadyInv, Verify PROVE ReadyInv'
<1>1. UNCHANGED lifecycleVars /\ UNCHANGED script /\ UNCHANGED bench /\ UNCHANGED job /\ UNCHANGED papers
  BY DEF Verify
<1>2. EvidenceLasts /\ RestInv'
  <2>1. Quiet
    BY <1>1 DEF Quiet, lifecycleVars, disk, os
  <2>. QED
    BY <2>1, QuietKeeps
<1>3. ResultsVerified /\ AnalysisVerified /\ ReportVerified
  BY DEF Verify, Verifiable
<1>4. Final
  <2>1. record.state = "stopped" /\ record.attempt \in 1..launched \ leader
    BY <1>3 DEF ResultsVerified, ReadyInv, StopsInv
  <2>2. \A c \in Callers : op[c].own = 0
    BY DEF Verify, AtRest, At, ReadyInv, StopsInv
  <2>. QED
    BY <2>1, <2>2 DEF Final, Gone
<1>5. AllVerified
  <2>1. Has(SmokeFiles) /\ Has(ReplayFiles)
    BY <1>3, VerifiedIsThere DEF ResultsVerified
  <2>2. \A l \in Labels : Verified(l)
    BY <1>3, VerifiedIsThere DEF ResultsVerified, CaseVerified, Verified
  <2>. QED
    BY <1>4, <2>1, <2>2 DEF AllVerified
<1>6. AllVerified'
  BY <1>2, <1>5 DEF AllVerified, EvidenceLasts, Has
<1>7. AnalysisVerified' /\ ReportVerified'
  <2>1. UNCHANGED record
    BY <1>1 DEF lifecycleVars, disk
  <2>. QED
    BY <1>1, <1>3, <2>1 DEF AnalysisVerified, ReportVerified
<1>8. script'.pc = "idle"
  BY <1>1 DEF Verify, AtRest, ScriptAt
<1>9. StatusInv'
  BY <1>6, <1>7, <1>8 DEF StatusInv
<1>. QED
  BY <1>2, <1>9 DEF ReadyInv, RestInv

LEMMA PapersKeepReady ==
  ASSUME ServerInv, NamesInv, ReadyInv, Analyze \/ WriteReport PROVE ReadyInv'
<1>1. UNCHANGED lifecycleVars /\ UNCHANGED script /\ UNCHANGED bench /\ UNCHANGED job
  BY DEF Analyze, WriteReport
<1>2. Quiet
  BY <1>1 DEF Quiet, lifecycleVars, disk, os
<1>3. CASE Analyze
  <2>1. status' = [is |-> "artifacts_ready", done |-> FALSE]
    BY <1>3 DEF Analyze, write_status
  <2>. QED
    BY <1>2, <2>1, QuietKeeps, StatusReset DEF ReadyInv, RestInv
<1>4. CASE WriteReport
  <2>1. status.is # "completed"
    BY <1>4 DEF WriteReport, ReadyInv, StatusInv, ReportVerified
  <2>2. UNCHANGED status
    BY <1>4 DEF WriteReport
  <2>. QED
    BY <1>2, <2>1, <2>2, QuietKeepsReady
<1>. QED
  BY <1>3, <1>4

LEMMA PublishesKeepReady ==
  ASSUME ServerInv, NamesInv, ReadyInv, OpenaiPublishes \/ ReplayPublishes PROVE ReadyInv'
<1>1. script.pc \in Naming /\ \E what : Publish(what)
  BY DEF OpenaiPublishes, ReplayPublishes, ScriptAt, Naming
<1>2. UNCHANGED script /\ UNCHANGED bench /\ UNCHANGED job /\ UNCHANGED status
      /\ UNCHANGED launched /\ UNCHANGED leader
  BY DEF OpenaiPublishes, ReplayPublishes, Publish, files, os
<1>3. Quiet
  BY <1>1, <1>2 DEF Quiet, Publish
<1>4. status.is # "completed"
  BY <1>1 DEF ReadyInv, StatusInv, Naming
<1>. QED
  BY <1>2, <1>3, <1>4, QuietKeepsReady

LEMMA ReadyStep ==
  ASSUME ServerInv, NamesInv, Shaped, ReadyInv, [Week04Next]_week04Vars PROVE ReadyInv'
<1>1. CASE ScriptSteps \/ GpuRun \/ OpenaiPublishes \/ ReplayPublishes
  BY <1>1, ScriptKeepsReady, PublishesKeepReady
<1>2. CASE RunsJob
  BY <1>2, JobKeepsReady DEF RunsJob
<1>3. ASSUME UNCHANGED lifecycleVars, UNCHANGED script, UNCHANGED bench, UNCHANGED job,
             UNCHANGED status, UNCHANGED papers
      PROVE  ReadyInv'
  <2>1. Quiet
    BY <1>3 DEF Quiet, lifecycleVars, disk, os
  <2>. QED
    BY <1>3, <2>1, QuietKeepsReady
<1>4. CASE KeyboardInterrupt
  <2>0. UNCHANGED status /\ UNCHANGED papers
    BY <1>4 DEF KeyboardInterrupt
  <2>1. CASE Interrupted(Script) /\ UNCHANGED script /\ UNCHANGED bench /\ UNCHANGED job
    BY <2>0, <2>1, InvocationKeepsReady DEF InvocationStep
  <2>2. CASE JobFails /\ UNCHANGED script
    BY <2>0, <2>2, JobKeepsReady DEF JobSteps
  <2>3. CASE UNCHANGED lifecycleVars /\ UNCHANGED script /\ UNCHANGED bench /\ UNCHANGED job
    BY <1>3, <2>0, <2>3
  <2>4. CASE /\ ScriptAt("replay runs") /\ script' = Trapped(TRUE)
             /\ UNCHANGED lifecycleVars /\ UNCHANGED bench /\ UNCHANGED job
    BY <2>0, <2>4, TrapKeepsReady DEF ScriptAt
  <2>. QED
    BY <1>4, <2>1, <2>2, <2>3, <2>4 DEF KeyboardInterrupt
<1>5. CASE OperatorActs
  <2>1. InvocationStep(Operator) /\ Operator # Script
    BY <1>5 DEF OperatorActs, InvocationStep, Operator, Script
  <2>2. /\ UNCHANGED script /\ UNCHANGED status /\ UNCHANGED bench
        /\ UNCHANGED job /\ UNCHANGED papers
    BY <1>5 DEF OperatorActs, files
  <2>. QED
    BY <2>1, <2>2, InvocationKeepsReady
<1>6. CASE (\E c \in Callers : Steps(c)) /\ UNCHANGED runVars
  <2>1. PICK c \in Callers : Steps(c)
    BY <1>6
  <2>2. InvocationStep(c) /\ (c = Script => Progress(c))
    BY <2>1 DEF Steps, InvocationStep, Operator, Script
  <2>3. /\ UNCHANGED script /\ UNCHANGED status /\ UNCHANGED bench
        /\ UNCHANGED job /\ UNCHANGED papers
    BY <1>6 DEF runVars
  <2>. QED
    BY <2>2, <2>3, InvocationKeepsReady
<1>7. CASE OperatingSystem /\ UNCHANGED runVars
  <2>1. UNCHANGED disk /\ UNCHANGED op /\ UNCHANGED launched /\ leader' \subseteq leader
    BY <1>7 DEF OperatingSystem, Serve, LeaderExits, WorkersExit, ForeignTakesPid, ForeignTakesPort,
                osRest
  <2>2. UNCHANGED record /\ UNCHANGED published
    BY <2>1 DEF disk
  <2>3. /\ UNCHANGED script /\ UNCHANGED status /\ UNCHANGED bench
        /\ UNCHANGED job /\ UNCHANGED papers
    BY <1>7 DEF runVars
  <2>4. Quiet
    BY <2>1, <2>2, <2>3 DEF Quiet
  <2>. QED
    BY <2>3, <2>4, QuietKeepsReady
<1>8. CASE RunsDog
  BY <1>3, <1>8 DEF RunsDog, files
<1>9. CASE Command(Script) /\ UNCHANGED <<lifecycleVars, script, files, used>>
  BY <1>3, <1>9 DEF files
<1>10. CASE UNCHANGED week04Vars
  BY <1>3, <1>10 DEF week04Vars, runVars
<1>11. CASE ScriptSteps \/ GpuRun \/ OpenaiPublishes \/ ReplayPublishes \/ RunsJob \/ KeyboardInterrupt
  BY <1>1, <1>2, <1>4, <1>11
<1>12. CASE Preempted \/ Analyze \/ WriteReport \/ Verify
  BY <1>12, PreemptedKeepsReady, PapersKeepReady, VerifyKeepsReady
<1>13. CASE \/ OperatorActs
            \/ (\E c \in Callers : Steps(c)) /\ UNCHANGED runVars
            \/ OperatingSystem /\ UNCHANGED runVars
  BY <1>5, <1>6, <1>7, <1>13
<1>14. CASE Week04Next
  <2>1. CASE RunsDog
    BY <1>8, <2>1
  <2>2. CASE Command(Script) /\ UNCHANGED <<lifecycleVars, script, files, used>>
    BY <1>9, <2>2
  <2>. QED
    BY <1>11, <1>12, <1>13, <1>14, <2>1, <2>2 DEF Week04Next
<1>. QED
  BY <1>10, <1>14

LEMMA ReadyInitHolds == Week04Init => ReadyInv
<1>. SUFFICES ASSUME Week04Init PROVE ReadyInv
  OBVIOUS
<1>1. /\ record = NoRecord /\ launched = 0 /\ leader = {} /\ published = {}
      /\ op = [c \in Callers |-> NoOp] /\ script = NoScript /\ job = NoJob
      /\ status = [is |-> "none", done |-> FALSE]
      /\ bench = [l \in Labels |-> NothingYet]
  BY DEF Week04Init, LifecycleInit
<1>2. /\ NoOp.pc = "idle" /\ NoOp.own = 0
      /\ NoScript.pc = "idle" /\ NoScript.label = 0 /\ NoJob.pc = "idle"
      /\ {"pc", "attempt", "label"} \subseteq DOMAIN NoScript
      /\ {"pc", "attempt", "label", "ok"} \subseteq DOMAIN NoJob
  BY DEF NoOp, NoScript, NoJob
<1>3. Fielded
  BY <1>1, <1>2, ZeroLabel DEF Fielded, NothingYet
<1>4. StopsInv
  <2>1. launched <= MaxAttempts
    BY <1>1, LifecycleAssumption
  <2>2. ~record.grouped /\ record.state = "none"
    BY <1>1 DEF NoRecord
  <2>3. \A c \in Callers : op[c].pc = "idle" /\ op[c].own = 0
    BY <1>1, <1>2
  <2>. QED
    BY <2>1, <2>2, <2>3 DEF StopsInv, HasServer, Critical
<1>5. NumberedNames /\ JobInv /\ ScriptInv
  BY <1>1, <1>2 DEF NumberedNames, Naming, JobInv, ScriptInv, Benchmarking, AfterBenchmarks, AfterReplays
<1>6. StatusInv
  BY <1>1 DEF StatusInv
<1>. QED
  BY <1>3, <1>4, <1>5, <1>6 DEF ReadyInv

\* Once a run claims that its artifacts are ready, or has been verified, its results verify, and so do
\* the analysis and the report of a verified run, whatever the operator, the keyboard and the machine
\* do: a server that the script has seen stop is the last one, a complete benchmark is never begun again.
LEMMA ReadyIsVerified == ASSUME ServerInv, NamesInv, ReadyInv PROVE ReadyVerifies
<1>1. ASSUME status.done \/ status.is = "completed" PROVE ResultsVerified
  <2>1. AllVerified
    BY <1>1 DEF ReadyInv, StatusInv
  <2>2. record.attempt \in Attempts
    <3>1. record.attempt \in 1..launched /\ launched <= MaxAttempts
      BY <2>1 DEF AllVerified, Final, Gone, ReadyInv, StopsInv
    <3>2. launched \in Nat
      BY DEF ServerInv, LifecycleTypeOK
    <3>. QED
      BY <3>1, <3>2, LifecycleAssumption DEF Attempts
  <2>3. ASSUME NEW what, Has(what) PROVE Completed(what) = {record.attempt}
    <3>1. \A k : <<what, k>> \in published => k = record.attempt
      BY DEF NamesInv, NamesTheRecord
    <3>. QED
      BY <2>2, <2>3, <3>1 DEF Has, Completed
  <2>4. \A l \in Labels : CaseVerified(l)
    BY <2>1, <2>3 DEF AllVerified, Verified, CaseVerified
  <2>. QED
    BY <2>1, <2>3, <2>4 DEF AllVerified, Final, ResultsVerified
<1>. QED
  BY <1>1 DEF ReadyInv, StatusInv, ReadyVerifies

\* All three: the published results are of one server, they verify when the status says so, and the
\* commands ended as their watchdogs report.
THEOREM EvidenceIsBelievable == Week04Spec => []EvidenceHonest
<1>1. Week04Init => NamesInv /\ Shaped
  BY NamesInitHolds DEF Week04Init, NoScript, NoJob, Shaped
<1>2. ServerInv /\ NamesInv /\ Shaped /\ [Week04Next]_week04Vars => (NamesInv /\ Shaped)'
  BY NamesStep
<1>3. ServerInv /\ NamesInv /\ Shaped /\ ReadyInv /\ [Week04Next]_week04Vars => ReadyInv'
  BY ReadyStep
<1>4. ServerInv /\ NamesInv /\ ReadyInv => ReadyVerifies
  BY ReadyIsVerified
<1>5. EvidenceOneAttempt /\ ReadyVerifies /\ VerdictHonest => EvidenceHonest
  BY DEF EvidenceHonest
<1>. QED
  BY <1>1, <1>2, <1>3, <1>4, <1>5, ReadyInitHolds, ServerInvariant, EvidenceOfOneServer, VerdictsAreHonest,
     PTL DEF Week04Spec
=============================================================================
