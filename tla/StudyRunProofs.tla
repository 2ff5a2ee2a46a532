--------------------------- MODULE StudyRunProofs ---------------------------
(***************************************************************************)
(* The studies reap their servers and keep honest records, for any number  *)
(* of requests and slots, whatever the servers do and wherever a program   *)
(* is interrupted or killed.                                               *)
(***************************************************************************)
EXTENDS StudyRun, FiniteSetTheorems, TLAPS

USE StudyAssumption

-----------------------------------------------------------------------------
(***************************************************************************)
(* The inductive invariant                                                 *)
(***************************************************************************)
Pcs == {"idle", "session", "probe", "launch", "wait", "case", "warm", "load", "drain",
        "unwind", "leave", "signalled", "closed"}

Names == {"week05", "week06", "week07", "week08", "week13", "deep"}

Verdicts == {"none", "completed", "collected", "rejected"}

Studies == [pc : Pcs, program : Names \cup {"none"}, server : 1..2, case : 0..2,
            error : {"none", "error", "unexpected", "interrupt"}, verdict : Verdicts]

CaseStates == {"none", "running", "failed", "completed"}

Documents == [server : {"none", "starting", "ready", "failed", "stopped"},
              case : [1..2 -> [1..2 -> CaseStates]],
              session : [1..2 -> {"running", "failed"} \cup Verdicts],
              matrix : BOOLEAN]

\* A program unwinds from an error, and from nothing else.
Unwinding ==
  /\ study.pc \notin {"leave", "signalled", "closed", "unwind"} => study.error = "none"
  /\ study.pc = "unwind" => study.error # "none"

\* A cell whose case is over has its verdict.
CellEnds ==
  Is("week13") =>
    /\ study.pc = "case" /\ study.case > 0 => study.verdict \in {"collected", "rejected"}
    /\ study.pc \in {"leave", "signalled", "closed"} /\ study.error = "none" =>
         study.verdict \in {"collected", "rejected"}

\* The cells before this one are over, and there is no matrix before the program is.
CellsBefore ==
  /\ Is("week13") =>
       \A s \in 1..2 : s < study.server => docs.session[s] \in {"collected", "rejected"}
  /\ docs.matrix => study.pc = "idle"

\* Of the cases of the server the program is at, only the record of the one it is in says
\* running, or of one that failed before its try; the next server's are not yet begun.
RunningCase ==
  ~At("idle") =>
    /\ \A c \in 1..2 : docs.case[study.server][c] = "running" =>
         /\ c = study.case
         /\ \/ InCase
            \/ study.pc \in {"leave", "signalled", "closed"} /\ study.error # "none" /\ load.i = 1
    /\ \A s, c \in 1..2 : s > study.server => docs.case[s][c] = "none"

\* The cases are completed one after the other, all of them if nothing is raised.
CasesDone ==
  HasCases(study.program) => \A c \in 1..2 :
    \/ study.pc = "case" /\ c <= study.case
    \/ study.pc \in {"warm", "load", "drain"} /\ c < study.case
    \/ study.pc \in {"leave", "signalled", "closed"} /\ study.error = "none"
    => docs.case[study.server][c] = "completed"

\* Only a candidate that is over is recorded as completed.
CompletedBefore ==
  /\ study.verdict = "completed" => HasCases(study.program)
  /\ ~At("idle") => \A s \in 1..2 : docs.session[s] = "completed" => s < study.server

\* Of the sessions, only that of the server it is at; deep's is one for both.
RunningSession ==
  ~At("idle") => \A s \in 1..2 : docs.session[s] = "running" =>
    \/ study.program \in {"week06", "week13"} /\ s = study.server /\ ~At("session")
    \/ Is("deep") /\ s = 1

\* No server is recorded as ready before the launch, nor after the clean-up unless it raised.
ReadyServer ==
  /\ study.pc \in {"probe", "launch"} => docs.server # "ready"
  /\ study.pc = "closed" /\ docs.server = "ready" => study.error = "unexpected"

Written ==
  /\ study \in Studies /\ study.server <= Servers(study.program) /\ docs \in Documents
  /\ study.pc \in {"warm", "load", "drain"} => study.case \in 1..2
  /\ study.pc \in {"probe", "launch", "wait"} => study.case = 0
  /\ Unwinding /\ CellEnds /\ CellsBefore /\ RunningCase /\ RunningSession
  /\ ReadyServer /\ MatrixIsWhole /\ CasesDone /\ CompletedBefore /\ CompletedIsWhole

Groups == [leader : {"none", "loading", "serving", "dead", "killed"}, others : BOOLEAN]

\* There are processes only between the launch and the end of the clean-up.
Reaped ==
  study.pc \in {"idle", "session", "probe", "launch", "closed"} => group \in {NoGroup, Doomed}

Cleaned == group \in Groups /\ Reaped

JobStages == {"waiting", "running", "ok", "bad", "success", "failed", "raised", "overflow"}

Loads == [i : Nat \ {0}, job : [Jobs -> JobStages], out : SUBSET Jobs, slots : Nat,
          journal : [Jobs -> Nat]]

\* The jobs from load.i on have not been looked at.
InTurn == \A j \in Jobs : j >= load.i => load.job[j] = "waiting" /\ j \notin load.out

Sending == load \in Loads /\ InTurn /\ SlotsAddUp /\ JournalIsExact

StudyInv == Written /\ Cleaned /\ Sending

-----------------------------------------------------------------------------
(***************************************************************************)
(* The requests                                                            *)
(***************************************************************************)
\* The requests that hold a slot are finitely many.
LEMMA HeldFinite ==
  ASSUME Sending
  PROVE  IsFiniteSet(Held) /\ Cardinality(Held) \in Nat
<1>1. IsFiniteSet(Jobs)
  BY FS_Interval DEF Jobs
<1>2. Held \subseteq Jobs
  BY DEF Held, Sending, Loads
<1>. QED
  BY <1>1, <1>2, FS_Subset, FS_CardinalityType

\* A load that has not begun keeps the promises.
LEMMA FreshLoad ==
  ASSUME load' = NoLoad
  PROVE  Sending'
<1>1. NoLoad \in Loads
  BY DEF NoLoad, Loads, Jobs, JobStages
<1>2. Held' = {}
  BY DEF Held, NoLoad
<1>3. Cardinality(Held') = 0
  BY <1>2, FS_EmptySet
<1>4. SlotsAddUp'
  BY <1>3 DEF SlotsAddUp, NoLoad
<1>5. InTurn' /\ JournalIsExact'
  BY DEF InTurn, JournalIsExact, NoLoad
<1>. QED
  BY <1>1, <1>4, <1>5 DEF Sending

\* The steps that leave the load alone.
LEMMA LoadStays ==
  ASSUME Sending, load' = load, study'.program \in {study.program, "none"}
  PROVE  Sending'
<1>1. Held' = Held
  BY DEF Held
<1>2. Bounded' => Bounded
  BY DEF Bounded
<1>. QED
  BY <1>1, <1>2 DEF Sending, InTurn, SlotsAddUp, JournalIsExact

\* The steps of the load that do not change who holds a slot.
LEMMA SlotsStay ==
  ASSUME SlotsAddUp, study' = study, load'.slots = load.slots, Held' = Held
  PROVE  SlotsAddUp'
  BY DEF SlotsAddUp, Bounded

\* run_load hands a request to a thread: a slot less, no line in the journal yet.
LEMMA SubmitKeeps ==
  ASSUME Sending, load.i \in Jobs, study' = study, load' = Submits(load.i),
         Bounded => load.slots # 0
  PROVE  Sending'
<1>. DEFINE j == load.i
<1>1. /\ load.i \in Nat \ {0} /\ load.job \in [Jobs -> JobStages]
      /\ load.slots \in Nat /\ load.journal \in [Jobs -> Nat] /\ load.out \in SUBSET Jobs
      /\ load \in Loads
  BY DEF Sending, Loads
<1>2. /\ load'.i = j + 1 /\ load'.job = [load.job EXCEPT ![j] = "running"]
      /\ load'.slots = IF Bounded THEN load.slots - 1 ELSE load.slots
      /\ load'.journal = load.journal /\ load'.out = load.out \cup {j}
  BY <1>1 DEF Submits, Loads
<1>3. load' \in Loads
  <2>1. load'.slots \in Nat /\ load'.i \in Nat \ {0} /\ load'.job \in [Jobs -> JobStages]
        /\ load'.out \in SUBSET Jobs
    BY <1>1, <1>2 DEF JobStages
  <2>. QED
    BY <1>1, <1>2, <2>1 DEF Submits, Loads
<1>4. j \in Jobs /\ load.job[j] = "waiting" /\ load'.job[j] = "running"
  BY <1>1, <1>2 DEF Sending, InTurn
<1>5. InTurn'
  BY <1>1, <1>2 DEF Sending, InTurn, Jobs
<1>6. \A k \in Jobs \ {j} : load'.job[k] = load.job[k]
  BY <1>1, <1>2
<1>7. Held' = Held \cup {j} /\ j \notin Held
  BY <1>1, <1>2 DEF Held, Sending, InTurn
<1>8. Cardinality(Held') = Cardinality(Held) + 1
  BY <1>7, HeldFinite, FS_AddElement
<1>9. SlotsAddUp'
  BY <1>1, <1>2, <1>8, HeldFinite DEF Sending, SlotsAddUp, Bounded
<1>10. JournalIsExact'
  BY <1>1, <1>2, <1>4, <1>6 DEF Sending, JournalIsExact, Bounded
<1>. QED
  BY <1>3, <1>5, <1>9, <1>10 DEF Sending

\* run_load finds every slot taken: a line of the journal, and no slot.
LEMMA OverflowKeeps ==
  ASSUME Sending, load.i \in Jobs, study' = study, load' = Overflows(load.i)
  PROVE  Sending'
<1>. DEFINE j == load.i
<1>1. /\ load.i \in Nat \ {0} /\ load.job \in [Jobs -> JobStages]
      /\ load.slots \in Nat /\ load.journal \in [Jobs -> Nat] /\ load \in Loads
  BY DEF Sending, Loads
<1>2. /\ load'.i = j + 1 /\ load'.job = [load.job EXCEPT ![j] = "overflow"]
      /\ load'.slots = load.slots /\ load'.out = load.out
      /\ load'.journal = [load.journal EXCEPT ![j] = load.journal[j] + 1]
  BY <1>1 DEF Overflows, Saved, Loads
<1>3. load' \in Loads
  <2>1. load'.journal \in [Jobs -> Nat] /\ load'.i \in Nat \ {0} /\ load'.job \in [Jobs -> JobStages]
    BY <1>1, <1>2 DEF JobStages
  <2>. QED
    BY <1>1, <1>2, <2>1 DEF Overflows, Loads
<1>4. j \in Jobs /\ load.job[j] = "waiting" /\ load'.job[j] = "overflow"
  BY <1>1, <1>2 DEF Sending, InTurn
<1>5. InTurn'
  BY <1>1, <1>2 DEF Sending, InTurn, Jobs
<1>6. \A k \in Jobs \ {j} : load'.job[k] = load.job[k] /\ load'.journal[k] = load.journal[k]
  BY <1>1, <1>2
<1>7. Held' = Held
  BY <1>2 DEF Held
<1>8. SlotsAddUp'
  BY <1>2, <1>7, SlotsStay DEF Sending
<1>9. JournalIsExact'
  <2>1. Bounded => load.journal[j] = 0
    BY <1>4 DEF Sending, JournalIsExact
  <2>2. load'.journal[j] = load.journal[j] + 1
    BY <1>1, <1>2
  <2>. QED
    BY <1>4, <1>6, <2>1, <2>2 DEF Sending, JournalIsExact, Bounded
<1>. QED
  BY <1>3, <1>5, <1>8, <1>9 DEF Sending

\* week07 has no slots and no journal.
LEMMA SendNextKeeps ==
  ASSUME Sending, load.i \in Jobs, study' = study, Is("week07"),
         load' = [load EXCEPT !.i = @ + 1, !.job[load.i] = "success"]
  PROVE  Sending'
<1>1. /\ load.i \in Nat \ {0} /\ load.job \in [Jobs -> JobStages] /\ load \in Loads
  BY DEF Sending, Loads
<1>2. load'.i = load.i + 1 /\ load'.job = [load.job EXCEPT ![load.i] = "success"]
      /\ load'.out = load.out
  BY <1>1 DEF Loads
<1>3. load' \in Loads
  <2>1. load'.i \in Nat \ {0} /\ load'.job \in [Jobs -> JobStages]
    BY <1>1, <1>2 DEF JobStages
  <2>. QED
    BY <1>1, <1>2, <2>1 DEF Loads
<1>4. InTurn'
  BY <1>1, <1>2 DEF Sending, InTurn, Jobs
<1>5. SlotsAddUp' /\ JournalIsExact'
  BY DEF SlotsAddUp, JournalIsExact, Bounded, Is
<1>. QED
  BY <1>3, <1>4, <1>5 DEF Sending

\* A request moves on, and keeps its slot: it ends, or its record cannot be written.
LEMMA MovesOn ==
  ASSUME Sending, study' = study, NEW j \in Jobs, NEW to \in {"ok", "bad", "raised"},
         load.job[j] \in {"running", "ok", "bad"}, load' = [load EXCEPT !.job[j] = to]
  PROVE  Sending'
<1>1. /\ load.i \in Nat \ {0} /\ load.job \in [Jobs -> JobStages] /\ load \in Loads
  BY DEF Sending, Loads
<1>2. /\ load'.job = [load.job EXCEPT ![j] = to] /\ load'.i = load.i /\ load'.out = load.out
      /\ load'.slots = load.slots /\ load'.journal = load.journal
  BY <1>1 DEF Loads
<1>3. load' \in Loads
  <2>1. load'.job \in [Jobs -> JobStages]
    BY <1>1, <1>2 DEF JobStages
  <2>. QED
    BY <1>1, <1>2, <2>1 DEF Loads
<1>4. load'.job[j] = to
  BY <1>1, <1>2
<1>5. \A k \in Jobs \ {j} : load'.job[k] = load.job[k]
  BY <1>1, <1>2
<1>6. InTurn'
  BY <1>2, <1>5 DEF Sending, InTurn
<1>7. Held' = Held
  BY <1>2 DEF Held
<1>8. SlotsAddUp'
  BY <1>2, <1>7, SlotsStay DEF Sending
<1>9. JournalIsExact'
  BY <1>2, <1>4, <1>5 DEF Sending, JournalIsExact, Bounded
<1>. QED
  BY <1>3, <1>6, <1>8, <1>9 DEF Sending

\* A request's record is written: a line of the journal, and the slot is still its own.
LEMMA PersistKeeps ==
  ASSUME Sending, NEW j \in Jobs, Persist(j)
  PROVE  Sending'
<1>. DEFINE to == IF load.job[j] = "ok" THEN "success" ELSE "failed"
<1>1. /\ load.i \in Nat \ {0} /\ load.job \in [Jobs -> JobStages] /\ load \in Loads
      /\ load.slots \in Nat /\ load.journal \in [Jobs -> Nat]
  BY DEF Sending, Loads
<1>2. /\ load.job[j] \in {"ok", "bad"} /\ study' = study
      /\ load' = [load EXCEPT !.job[j] = to, !.journal = IF Bounded THEN Saved(j) ELSE @]
  BY <1>1 DEF Persist, Loads
<1>. HIDE DEF to
<1>3. /\ load'.job = [load.job EXCEPT ![j] = to] /\ load'.i = load.i
      /\ load'.slots = load.slots /\ load'.out = load.out
      /\ load'.journal = IF Bounded THEN Saved(j) ELSE load.journal
  BY <1>1, <1>2 DEF Loads
<1>4. Saved(j) \in [Jobs -> Nat] /\ Saved(j)[j] = load.journal[j] + 1
      /\ \A k \in Jobs \ {j} : Saved(j)[k] = load.journal[k]
  BY <1>1 DEF Saved
<1>5. to \in {"success", "failed"}
  BY DEF to
<1>6. load' \in Loads
  <2>1. load'.job \in [Jobs -> JobStages] /\ load'.journal \in [Jobs -> Nat]
    BY <1>1, <1>3, <1>4, <1>5 DEF JobStages
  <2>. QED
    BY <1>1, <1>2, <1>3, <2>1 DEF Loads
<1>7. load'.job[j] = to /\ \A k \in Jobs \ {j} : load'.job[k] = load.job[k]
  BY <1>1, <1>3
<1>8. InTurn'
  BY <1>2, <1>3, <1>7 DEF Sending, InTurn
<1>9. SlotsAddUp'
  <2>1. Held' = Held
    BY <1>3 DEF Held
  <2>. QED
    BY <1>2, <1>3, <2>1, SlotsStay DEF Sending
<1>10. JournalIsExact'
  <2>. SUFFICES ASSUME Bounded, NEW k \in Jobs
                PROVE  load'.journal[k] =
                         IF load'.job[k] \in {"success", "failed", "overflow"} THEN 1 ELSE 0
    BY <1>2 DEF JournalIsExact, Bounded
  <2>1. /\ load.journal[k] = IF load.job[k] \in {"success", "failed", "overflow"} THEN 1 ELSE 0
        /\ load.journal[j] = 0
    BY <1>2 DEF Sending, JournalIsExact
  <2>2. CASE k = j
    BY <1>3, <1>4, <1>5, <1>7, <2>1, <2>2
  <2>3. CASE k # j
    BY <1>3, <1>4, <1>7, <2>1, <2>3
  <2>. QED
    BY <2>2, <2>3
<1>. QED
  BY <1>6, <1>8, <1>9, <1>10 DEF Sending

\* A thread that returns gives its slot back, however its request ended.
LEMMA ReleaseKeeps ==
  ASSUME Sending, NEW j \in Jobs, Release(j)
  PROVE  Sending'
<1>1. /\ load \in Loads /\ load.slots \in Nat /\ load.out \in SUBSET Jobs
      /\ j \in load.out /\ study' = study
  BY DEF Sending, Loads, Release
<1>2. /\ load'.job = load.job /\ load'.i = load.i /\ load'.journal = load.journal
      /\ load'.out = load.out \ {j}
      /\ load'.slots = IF Bounded THEN load.slots + 1 ELSE load.slots
  BY <1>1 DEF Release, Loads
<1>3. load' \in Loads
  <2>1. load'.slots \in Nat /\ load'.out \in SUBSET Jobs
    BY <1>1, <1>2
  <2>. QED
    BY <1>1, <1>2, <2>1 DEF Release, Loads
<1>4. InTurn' /\ JournalIsExact'
  BY <1>1, <1>2 DEF Sending, InTurn, JournalIsExact, Bounded
<1>7. Held' = Held \ {j} /\ j \in Held
  BY <1>1, <1>2 DEF Held
<1>5. Cardinality(Held') = Cardinality(Held) - 1
  BY <1>7, HeldFinite, FS_RemoveElement
<1>6. SlotsAddUp'
  BY <1>1, <1>2, <1>5, HeldFinite DEF Sending, SlotsAddUp, Bounded
<1>. QED
  BY <1>3, <1>4, <1>6 DEF Sending

-----------------------------------------------------------------------------
(***************************************************************************)
(* The records                                                             *)
(***************************************************************************)
LEMMA FieldTypes ==
  ASSUME Written
  PROVE  /\ study \in Studies /\ docs \in Documents
         /\ study.pc \in Pcs /\ study.program \in Names \cup {"none"}
         /\ study.server \in 1..2 /\ study.case \in 0..2
         /\ study.error \in {"none", "error", "unexpected", "interrupt"} /\ study.verdict \in Verdicts
         /\ docs.case \in [1..2 -> [1..2 -> CaseStates]]
         /\ docs.session \in [1..2 -> {"running", "failed"} \cup Verdicts]
         /\ docs.matrix \in BOOLEAN
         /\ docs.server \in {"none", "starting", "ready", "failed", "stopped"}
  BY DEF Written, Studies, Documents

\* A step that leaves the records and the program alone leaves what is known of them.
LEMMA WritesStay ==
  ASSUME Written, study' = study, docs' = docs, load'.i = load.i \/ At("load")
  PROVE  Written'
<1>1. RunningCase'
  BY DEF Written, RunningCase, At, InCase, HasCases
<1>2. CasesDone' /\ CompletedBefore' /\ CompletedIsWhole'
  BY DEF Written, CasesDone, CompletedBefore, CompletedIsWhole, HasCases, At
<1>. QED
  BY <1>1, <1>2 DEF Written, Unwinding, CellEnds, CellsBefore, RunningSession, ReadyServer,
                    MatrixIsWhole, Is, At

\* What a change of one case's record does.
LEMMA CaseBecomesLemma ==
  ASSUME Written, NEW status \in CaseStates, docs' = CaseBecomes(status)
  PROVE  /\ docs' \in Documents
         /\ docs'.server = docs.server /\ docs'.session = docs.session /\ docs'.matrix = docs.matrix
         /\ \A s, c \in 1..2 : docs'.case[s][c] =
              IF s = study.server /\ c = study.case THEN status ELSE docs.case[s][c]
<1>. DEFINE row == [docs.case[study.server] EXCEPT ![study.case] = status]
            new == [docs.case EXCEPT ![study.server] = row]
<1>1. /\ docs \in Documents /\ docs.case \in [1..2 -> [1..2 -> CaseStates]]
      /\ study.server \in 1..2 /\ study.case \in 0..2
  BY FieldTypes
<1>2. docs' = [docs EXCEPT !.case = new]
  BY <1>1 DEF CaseBecomes, Documents
<1>3. row \in [1..2 -> CaseStates]
  BY <1>1
<1>4. \A c \in 1..2 : row[c] = IF c = study.case THEN status ELSE docs.case[study.server][c]
  BY <1>1
<1>. HIDE DEF row
<1>5. new \in [1..2 -> [1..2 -> CaseStates]]
  BY <1>1, <1>3
<1>6. \A s, c \in 1..2 : new[s][c] =
        IF s = study.server /\ c = study.case THEN status ELSE docs.case[s][c]
  BY <1>1, <1>4
<1>. HIDE DEF new
<1>. QED
  BY <1>1, <1>2, <1>5, <1>6 DEF Documents

\* The record of the next case is opened.
LEMMA CaseOpens ==
  ASSUME Written, study.case + 1 \in 1..2,
         docs' = [docs EXCEPT !.case[study.server][study.case + 1] = "running"]
  PROVE  /\ docs' \in Documents
         /\ docs'.server = docs.server /\ docs'.session = docs.session /\ docs'.matrix = docs.matrix
         /\ \A s, c \in 1..2 : docs'.case[s][c] =
              IF s = study.server /\ c = study.case + 1 THEN "running" ELSE docs.case[s][c]
<1>. DEFINE c1 == study.case + 1
            row == [docs.case[study.server] EXCEPT ![c1] = "running"]
            new == [docs.case EXCEPT ![study.server] = row]
<1>1. c1 \in 1..2
  OBVIOUS
<1>2. docs' = [docs EXCEPT !.case = new]
  BY FieldTypes DEF Documents
<1>. HIDE DEF c1
<1>3. row \in [1..2 -> CaseStates]
  BY FieldTypes, <1>1 DEF CaseStates
<1>4. \A c \in 1..2 : row[c] = IF c = c1 THEN "running" ELSE docs.case[study.server][c]
  BY FieldTypes, <1>1
<1>. HIDE DEF row
<1>5. new \in [1..2 -> [1..2 -> CaseStates]]
  BY <1>3, FieldTypes
<1>6. \A s, c \in 1..2 : new[s][c] =
        IF s = study.server /\ c = c1 THEN "running" ELSE docs.case[s][c]
  BY <1>4, FieldTypes
<1>. HIDE DEF new
<1>. QED
  BY <1>2, <1>5, <1>6, FieldTypes DEF Documents, c1

\* The places an exception goes to, and from where.
Lands(p, e) ==
  \/ p = "unwind" /\ study.pc \in {"load", "drain"}
  \/ p = "leave" /\ ~At("closed")
  \/ p = "closed" /\ (At("probe") \/ At("launch") \/ (At("signalled") /\ e = "unexpected"))

\* What an exception leaves of the records.
LEMMA UnwindWrites ==
  ASSUME Written, NEW e \in Errors \cup {"interrupt"}, NEW p \in {"unwind", "leave", "closed"},
         Unwind(e, p), ~At("idle"), Lands(p, e), load' = load
  PROVE  Written' /\ study'.pc = p /\ study'.program = study.program
<1>1. /\ study' = [study EXCEPT !.pc = p, !.error = e]
      /\ docs' = IF InCase THEN CaseBecomes("failed") ELSE docs
      /\ e \in {"error", "unexpected", "interrupt"}
  BY DEF Unwind, Errors
<1>2. /\ study'.pc = p /\ study'.error = e /\ study'.program = study.program
      /\ study'.server = study.server /\ study'.case = study.case /\ study'.verdict = study.verdict
      /\ study' \in Studies
  BY <1>1, FieldTypes DEF Studies, Pcs
<1>3. /\ docs' \in Documents
      /\ docs'.server = docs.server /\ docs'.session = docs.session /\ docs'.matrix = docs.matrix
      /\ \A s, c \in 1..2 : docs'.case[s][c] =
           IF InCase /\ s = study.server /\ c = study.case THEN "failed" ELSE docs.case[s][c]
  BY <1>1, FieldTypes, CaseBecomesLemma DEF CaseStates
<1>4. RunningCase'
  BY <1>1, <1>2, <1>3, FieldTypes DEF Written, RunningCase, At, Lands, InCase
<1>5. Unwinding' /\ CellEnds' /\ ReadyServer' /\ CasesDone'
  BY <1>1, <1>2, <1>3 DEF Written, Unwinding, CellEnds, ReadyServer, CasesDone, At, Lands
<1>6. CellsBefore' /\ MatrixIsWhole' /\ RunningSession'
  BY <1>2, <1>3 DEF Written, CellsBefore, MatrixIsWhole, RunningSession, At, Is, Lands
<1>7. CompletedBefore' /\ CompletedIsWhole'
  BY <1>2, <1>3, FieldTypes DEF Written, CompletedBefore, CompletedIsWhole, At
<1>. QED
  BY <1>2, <1>3, <1>4, <1>5, <1>6, <1>7 DEF Written

\* The steps from one place of the program to the next that write nothing.
LEMMA GotoWrites ==
  ASSUME Written, NEW p \in {"load", "drain", "leave", "signalled"}, Goto(p), docs' = docs, load' = load,
         \/ At("warm") /\ p = "load"
         \/ At("load") /\ p = "drain"
         \/ At("unwind") /\ p = "leave"
         \/ At("leave") /\ p = "signalled"
         \/ At("case") /\ p = "leave" /\ ~(study.case < Cases(study.program))
  PROVE  Written' /\ study'.pc = p /\ study'.program = study.program
<1>2. /\ study'.pc = p /\ study'.error = study.error /\ study'.program = study.program
      /\ study'.server = study.server /\ study'.case = study.case /\ study'.verdict = study.verdict
      /\ study' \in Studies
  BY FieldTypes DEF Goto, Studies, Pcs
<1>3. At("case") => study.case > 0 /\ (HasCases(study.program) => study.case = 2)
  BY FieldTypes DEF Cases, HasCases, At
<1>4. RunningCase'
  BY <1>2 DEF Written, RunningCase, At, InCase, HasCases
<1>5. Unwinding' /\ CellEnds' /\ ReadyServer'
  BY <1>2, <1>3 DEF Written, Unwinding, CellEnds, ReadyServer, At, Is
<1>6. CellsBefore' /\ MatrixIsWhole' /\ RunningSession'
  BY <1>2 DEF Written, CellsBefore, MatrixIsWhole, RunningSession, At, Is
<1>7. CasesDone'
  BY <1>2, <1>3 DEF Written, Unwinding, CasesDone, HasCases, At
<1>8. CompletedBefore' /\ CompletedIsWhole'
  BY <1>2 DEF Written, CompletedBefore, CompletedIsWhole, HasCases, At
<1>. QED
  BY <1>2, <1>4, <1>5, <1>6, <1>7, <1>8 DEF Written, At

\* The server's record changes on the way, and no other.
LEMMA ServerWrites ==
  ASSUME Written, NEW p \in {"launch", "wait", "case", "closed"},
         NEW e \in {"none", "error", "unexpected", "interrupt"},
         NEW x \in {"none", "starting", "ready", "failed", "stopped"},
         study' = [study EXCEPT !.pc = p, !.error = e],
         docs' = [docs EXCEPT !.server = x], load' = load,
         \/ At("probe") /\ p = "launch" /\ e = study.error /\ x = "starting"
         \/ At("launch") /\ p = "wait" /\ e = study.error
         \/ At("launch") /\ p = "closed" /\ e = "error" /\ x = "failed"
         \/ At("wait") /\ p = "case" /\ e = study.error
         \/ At("signalled") /\ p = "closed" /\ e = study.error /\ x # "ready"
  PROVE  Written' /\ study'.pc = p /\ study'.program = study.program
<1>2. /\ study'.pc = p /\ study'.error = e /\ study'.program = study.program
      /\ study'.server = study.server /\ study'.case = study.case /\ study'.verdict = study.verdict
      /\ study' \in Studies
  BY FieldTypes DEF Studies, Pcs
<1>3. /\ docs' \in Documents /\ docs'.server = x
      /\ docs'.case = docs.case /\ docs'.session = docs.session /\ docs'.matrix = docs.matrix
  BY FieldTypes DEF Documents
<1>4. RunningCase'
  BY <1>2, <1>3 DEF Written, RunningCase, At, InCase, HasCases
<1>5. Unwinding' /\ CellEnds' /\ ReadyServer'
  BY <1>2, <1>3 DEF Written, Unwinding, CellEnds, ReadyServer, At, Is
<1>6. CellsBefore' /\ MatrixIsWhole' /\ RunningSession'
  BY <1>2, <1>3 DEF Written, CellsBefore, MatrixIsWhole, RunningSession, At, Is
<1>7. CasesDone' /\ CompletedBefore' /\ CompletedIsWhole'
  BY <1>2, <1>3 DEF Written, CasesDone, CompletedBefore, CompletedIsWhole, HasCases, At
<1>. QED
  BY <1>2, <1>3, <1>4, <1>5, <1>6, <1>7 DEF Written, At

\* A program begins with no record written, so none of them says running.
LEMMA BeginWrites == Written /\ Begin => Written'
<1>. SUFFICES ASSUME Written, Begin PROVE Written'
  OBVIOUS
<1>1. PICK p \in Programs : study' = [NoStudy EXCEPT !.pc = "session", !.program = p]
  BY DEF Begin
<1>2. /\ study'.pc = "session" /\ study'.program = p /\ study'.server = 1 /\ study'.case = 0
      /\ study'.error = "none" /\ study'.verdict = "none"
      /\ study' = [pc |-> "session", program |-> p, server |-> 1, case |-> 0,
                   error |-> "none", verdict |-> "none"]
  BY <1>1 DEF NoStudy
<1>3. p \in Names
  BY DEF Names
<1>4. study' \in Studies /\ study'.server <= Servers(p)
  BY <1>2, <1>3 DEF Studies, Pcs, Verdicts, Servers
<1>5. docs' = NoDocs /\ NoDocs \in Documents
  BY DEF Begin, NoDocs, Documents, CaseStates, Verdicts
<1>6. /\ docs'.matrix = FALSE /\ docs'.server = "none"
      /\ \A s \in 1..2 : docs'.session[s] = "none"
      /\ \A s, c \in 1..2 : docs'.case[s][c] = "none"
  BY <1>5 DEF NoDocs
<1>7. RunningCase' /\ RunningSession'
  BY <1>2, <1>6 DEF RunningCase, RunningSession
<1>8. Unwinding' /\ CellEnds' /\ ReadyServer'
  BY <1>2 DEF Unwinding, CellEnds, ReadyServer
<1>9. CellsBefore' /\ MatrixIsWhole'
  BY <1>2, <1>6 DEF CellsBefore, MatrixIsWhole
<1>10. CasesDone' /\ CompletedBefore' /\ CompletedIsWhole'
  BY <1>2, <1>6 DEF CasesDone, CompletedBefore, CompletedIsWhole
<1>. QED
  BY <1>2, <1>4, <1>5, <1>7, <1>8, <1>9, <1>10 DEF Written

\* A killed program leaves its records as they are; they are nobody's any more.
LEMMA KilledWrites == Written /\ Killed => Written'
<1>. SUFFICES ASSUME Written, Killed PROVE Written'
  OBVIOUS
<1>1. study' = NoStudy /\ docs' = docs
  BY DEF Killed
<1>2. /\ study'.pc = "idle" /\ study'.program = "none" /\ study'.error = "none"
      /\ study'.verdict = "none" /\ study'.server = 1 /\ study' \in Studies
  BY <1>1 DEF NoStudy, Studies, Pcs, Verdicts
<1>3. RunningCase' /\ RunningSession'
  BY <1>2 DEF RunningCase, RunningSession, At
<1>4. Unwinding' /\ CellEnds' /\ ReadyServer'
  BY <1>2 DEF Unwinding, CellEnds, ReadyServer, Is
<1>5. CellsBefore' /\ MatrixIsWhole'
  BY <1>1, <1>2 DEF Written, CellsBefore, MatrixIsWhole, Is
<1>6. CasesDone' /\ CompletedBefore' /\ CompletedIsWhole'
  BY <1>1, <1>2 DEF Written, CasesDone, CompletedBefore, CompletedIsWhole, At, HasCases
<1>. QED
  BY <1>1, <1>2, <1>3, <1>4, <1>5, <1>6 DEF Written, Servers

\* The start of a server opens the records of the sessions it is for.
LEMMA OpensWrites ==
  ASSUME Written, NEW sessions \in SUBSET (1..2), Opens(sessions),
         \A s \in sessions : \/ study.program \in {"week06", "week13"} /\ s = study.server
                             \/ Is("deep") /\ s = 1
  PROVE  Written'
<1>. DEFINE opened == [s \in 1..2 |-> IF s \in sessions THEN "running" ELSE docs.session[s]]
<1>0. /\ docs' = [docs EXCEPT !.server = "none", !.session = opened]
      /\ study' = [study EXCEPT !.pc = "probe", !.case = 0] /\ study.pc = "session"
  BY DEF Opens, At
<1>1. /\ study'.pc = "probe" /\ study'.error = study.error /\ study'.program = study.program
      /\ study'.server = study.server /\ study'.case = 0 /\ study'.verdict = study.verdict
      /\ study' \in Studies
  <2>1. study' = [study EXCEPT !.pc = "probe", !.case = 0] /\ study \in Studies
    BY <1>0, FieldTypes
  <2>2. 0 \in 0..2 /\ "probe" \in Pcs
    BY DEF Pcs
  <2>. QED
    BY <2>1, <2>2 DEF Studies
<1>2. opened \in [1..2 -> {"running", "failed"} \cup Verdicts]
  BY FieldTypes
<1>3. \A s \in 1..2 : opened[s] = IF s \in sessions THEN "running" ELSE docs.session[s]
  OBVIOUS
<1>. HIDE DEF opened
<1>4. /\ docs' \in Documents /\ docs'.server = "none"
      /\ docs'.case = docs.case /\ docs'.session = opened /\ docs'.matrix = docs.matrix
  BY <1>0, <1>2, FieldTypes DEF Documents
<1>5. RunningCase'
  BY <1>0, <1>1, <1>4 DEF Written, RunningCase, At, InCase
<1>11. CasesDone' /\ CompletedBefore' /\ CompletedIsWhole'
  BY <1>0, <1>1, <1>3, <1>4 DEF Written, CasesDone, CompletedBefore, CompletedIsWhole, At
<1>6. RunningSession'
  BY <1>0, <1>1, <1>3, <1>4 DEF Written, RunningSession, At, Is
<1>7. Unwinding' /\ CellEnds' /\ ReadyServer'
  BY <1>0, <1>1, <1>4 DEF Written, Unwinding, CellEnds, ReadyServer
<1>8. docs.matrix = FALSE
  BY <1>0, FieldTypes DEF Written, CellsBefore
<1>9. CellsBefore'
  <2>1. Is("week13") => \A s \in 1..2 : s < study.server => s \notin sessions
    BY FieldTypes DEF Is
  <2>. QED
    BY <1>1, <1>3, <1>4, <1>8, <2>1 DEF Written, CellsBefore, Is
<1>10. MatrixIsWhole'
  BY <1>4, <1>8 DEF MatrixIsWhole
<1>. QED
  BY <1>1, <1>4, <1>5, <1>6, <1>7, <1>9, <1>10, <1>11 DEF Written

\* A server's turn ends, for the records.  A session that is still said to be running
\* is not this one's.
LEMMA ClosesWrites ==
  ASSUME Written, NEW sessions \in SUBSET (1..2), NEW end \in {"failed"} \cup Verdicts,
         Closes(sessions, end),
         study.program \in {"week06", "week13"} /\ (Is("week13") \/ GoesOn) =>
           study.server \in sessions,
         Is("week13") => sessions = {study.server} /\ end = Ended,
         end = "completed" => \A s \in sessions :
           s = study.server /\ \A c \in 1..2 : docs.case[s][c] = "completed"
  PROVE  Written'
<1>. DEFINE closed == [s \in 1..2 |-> IF s \in sessions THEN end ELSE docs.session[s]]
<1>0. /\ docs' = [docs EXCEPT !.session = closed, !.matrix = Is("week13") /\ Last /\ GoesOn]
      /\ study' = IF Last THEN NoStudy
                  ELSE [study EXCEPT !.pc = "session", !.server = @ + 1,
                                     !.error = "none", !.verdict = "none"]
      /\ study.pc = "closed"
  BY DEF Closes, At
<1>2. closed \in [1..2 -> {"running", "failed"} \cup Verdicts]
  BY FieldTypes
<1>3. \A s \in 1..2 : closed[s] = IF s \in sessions THEN end ELSE docs.session[s]
  OBVIOUS
<1>. HIDE DEF closed
<1>4. /\ docs' \in Documents /\ docs'.server = docs.server
      /\ docs'.case = docs.case /\ docs'.session = closed
      /\ docs'.matrix = (Is("week13") /\ Last /\ GoesOn)
  BY <1>0, <1>2, FieldTypes DEF Documents
<1>5. Is("week13") /\ GoesOn => end \in {"collected", "rejected"}
  BY <1>0 DEF Written, CellEnds, Ended, GoesOn, Is
<1>8. CompletedIsWhole'
  BY <1>3, <1>4 DEF Written, CompletedIsWhole
<1>9. \A s \in 1..2 : docs'.session[s] = "completed" => s <= study.server
  BY <1>0, <1>3, <1>4, FieldTypes DEF Written, CompletedBefore, At
<1>6. CASE Last
  <2>1. /\ study'.pc = "idle" /\ study'.program = "none" /\ study'.error = "none"
        /\ study'.verdict = "none" /\ study'.server = 1 /\ study' \in Studies
    BY <1>0, <1>6 DEF NoStudy, Studies, Pcs, Verdicts
  <2>2. RunningCase' /\ RunningSession'
    BY <2>1 DEF RunningCase, RunningSession, At
  <2>3. Unwinding' /\ CellEnds' /\ ReadyServer' /\ CellsBefore' /\ CasesDone' /\ CompletedBefore'
    BY <2>1 DEF Unwinding, CellEnds, ReadyServer, CellsBefore, CasesDone, CompletedBefore,
                HasCases, Is, At
  <2>4. MatrixIsWhole'
    <3>. SUFFICES ASSUME docs'.matrix, NEW s \in 1..2
                  PROVE  docs'.session[s] \in {"collected", "rejected"}
      BY DEF MatrixIsWhole
    <3>1. Is("week13") /\ GoesOn /\ Servers(study.program) = 2
      BY <1>4 DEF Is, Servers
    <3>2. study.server = 2
      BY <1>6, <3>1 DEF Last
    <3>3. s \notin sessions => s < study.server
      BY <3>1, <3>2
    <3>. QED
      BY <1>3, <1>4, <1>5, <3>1, <3>3 DEF Written, CellsBefore
  <2>. QED
    BY <1>4, <1>8, <2>1, <2>2, <2>3, <2>4 DEF Written, Servers
<1>7. CASE ~Last
  <2>0. GoesOn /\ study.server # Servers(study.program)
    BY <1>7 DEF Last
  <2>1. /\ study'.pc = "session" /\ study'.error = "none" /\ study'.program = study.program
        /\ study'.server = study.server + 1 /\ study'.case = study.case
        /\ study'.verdict = "none"
        /\ study' = [study EXCEPT !.pc = "session", !.server = study.server + 1,
                                  !.error = "none", !.verdict = "none"]
    BY <1>0, <1>7, FieldTypes DEF Studies
  <2>2. study.server + 1 \in 1..2 /\ study.server + 1 <= Servers(study.program)
    BY <2>0, FieldTypes DEF Written, Servers
  <2>3. study' \in Studies
    BY <2>1, <2>2, FieldTypes DEF Studies, Pcs, Verdicts
  <2>4. RunningCase' /\ CasesDone' /\ CompletedBefore'
    <3>1. RunningCase'
      BY <1>0, <1>4, <2>1, <2>2, FieldTypes DEF Written, RunningCase, At
    <3>. QED
      BY <1>9, <2>1, <3>1, FieldTypes DEF CasesDone, CompletedBefore
  <2>5. RunningSession'
    <3>1. end # "running"
      BY DEF Verdicts
    <3>2. \A s \in 1..2 : closed[s] = "running" => s \notin sessions /\ docs.session[s] = "running"
      BY <1>3, <3>1
    <3>. QED
      BY <1>0, <1>4, <2>0, <2>1, <3>2 DEF Written, RunningSession, At, Is
  <2>6. Unwinding' /\ CellEnds' /\ ReadyServer'
    BY <2>1 DEF Unwinding, CellEnds, ReadyServer
  <2>7. docs'.matrix = FALSE
    BY <1>4, <1>7
  <2>8. CellsBefore'
    <3>. SUFFICES ASSUME Is("week13"), NEW s \in 1..2, s < study.server + 1
                  PROVE  docs'.session[s] \in {"collected", "rejected"}
      BY <2>1, <2>7 DEF CellsBefore, Is
    <3>1. s \notin sessions => s < study.server
      BY FieldTypes
    <3>. QED
      BY <1>3, <1>4, <1>5, <2>0, <3>1 DEF Written, CellsBefore
  <2>9. MatrixIsWhole'
    BY <2>7 DEF MatrixIsWhole
  <2>. QED
    BY <1>4, <1>8, <2>1, <2>2, <2>3, <2>4, <2>5, <2>6, <2>8, <2>9 DEF Written
<1>. QED
  BY <1>6, <1>7

\* The next case of a server opens its record; after the last one the program unwinds.
LEMMA NextCaseWrites ==
  ASSUME Written, NextCase
  PROVE  Written' /\ study'.program = study.program
<1>1. CASE study.case < Cases(study.program)
  <2>0. /\ study' = [study EXCEPT !.pc = "warm", !.case = study.case + 1] /\ study.pc = "case"
        /\ docs' = IF HasCases(study.program)
                   THEN [docs EXCEPT !.case[study.server][study.case + 1] = "running"] ELSE docs
    BY <1>1, FieldTypes DEF NextCase, At, Studies
  <2>1. study.case + 1 \in 1..2
    BY <1>1, FieldTypes DEF Cases
  <2>2. /\ study'.pc = "warm" /\ study'.error = study.error /\ study'.program = study.program
        /\ study'.server = study.server /\ study'.case = study.case + 1
        /\ study'.verdict = study.verdict /\ study' \in Studies
    <3>. DEFINE c1 == study.case + 1
    <3>1. study' = [study EXCEPT !.pc = "warm", !.case = c1] /\ study \in Studies
      BY <2>0, FieldTypes
    <3>2. c1 \in 0..2 /\ "warm" \in Pcs
      BY <2>1 DEF Pcs
    <3>. HIDE DEF c1
    <3>3. /\ study'.pc = "warm" /\ study'.error = study.error /\ study'.program = study.program
          /\ study'.server = study.server /\ study'.case = c1
          /\ study'.verdict = study.verdict /\ study' \in Studies
      BY <3>1, <3>2 DEF Studies
    <3>. QED
      BY <3>3 DEF c1
  <2>8. /\ docs' \in Documents
        /\ docs'.server = docs.server /\ docs'.session = docs.session /\ docs'.matrix = docs.matrix
        /\ \A s, c \in 1..2 : docs'.case[s][c] =
             IF HasCases(study.program) /\ s = study.server /\ c = study.case + 1
             THEN "running" ELSE docs.case[s][c]
    BY <2>0, <2>1, CaseOpens, FieldTypes
  <2>9. RunningCase'
    BY <2>0, <2>2, <2>8, FieldTypes DEF Written, RunningCase, At, InCase
  <2>10. Unwinding' /\ CellEnds' /\ ReadyServer'
    BY <2>0, <2>2, <2>8 DEF Written, Unwinding, CellEnds, ReadyServer
  <2>11. CellsBefore' /\ MatrixIsWhole' /\ RunningSession'
    BY <2>0, <2>2, <2>8 DEF Written, CellsBefore, MatrixIsWhole, RunningSession, At, Is
  <2>12. CasesDone' /\ CompletedBefore' /\ CompletedIsWhole'
    BY <2>0, <2>2, <2>8, FieldTypes DEF Written, CasesDone, CompletedBefore, CompletedIsWhole, At
  <2>. QED
    BY <2>1, <2>2, <2>8, <2>9, <2>10, <2>11, <2>12 DEF Written
<1>2. CASE ~(study.case < Cases(study.program))
  BY <1>2, GotoWrites DEF NextCase
<1>. QED
  BY <1>1, <1>2

\* A case that fails before its try leaves its record as it is.
LEMMA CaseNotBegunWrites ==
  ASSUME Written, CaseNotBegun
  PROVE  Written' /\ study'.program = study.program
<1>1. PICK e \in Errors, written \in BOOLEAN :
        /\ study' = [study EXCEPT !.pc = "leave", !.case = @ + 1, !.error = e]
        /\ docs' = IF written THEN [docs EXCEPT !.case[study.server][study.case + 1] = "running"]
                   ELSE docs
  BY DEF CaseNotBegun
<1>2. /\ study.pc = "case" /\ study.case + 1 \in 1..2 /\ HasCases(study.program)
      /\ load'.i = 1 /\ e \in {"error", "unexpected"}
  BY FieldTypes DEF CaseNotBegun, Cases, At, NoLoad, Errors
<1>3. /\ study'.pc = "leave" /\ study'.error = e /\ study'.program = study.program
      /\ study'.server = study.server /\ study'.case = study.case + 1
      /\ study'.verdict = study.verdict /\ study' \in Studies
  <2>. DEFINE c1 == study.case + 1
  <2>1. study' = [study EXCEPT !.pc = "leave", !.case = c1, !.error = e] /\ study \in Studies
    BY <1>1, FieldTypes DEF Studies
  <2>2. c1 \in 0..2 /\ "leave" \in Pcs
    BY <1>2 DEF Pcs
  <2>. HIDE DEF c1
  <2>3. /\ study'.pc = "leave" /\ study'.error = e /\ study'.program = study.program
        /\ study'.server = study.server /\ study'.case = c1
        /\ study'.verdict = study.verdict /\ study' \in Studies
    BY <1>2, <2>1, <2>2 DEF Studies
  <2>. QED
    BY <2>3 DEF c1
<1>4. /\ docs' \in Documents
      /\ docs'.server = docs.server /\ docs'.session = docs.session /\ docs'.matrix = docs.matrix
      /\ \A s, c \in 1..2 : docs'.case[s][c] =
           IF written /\ s = study.server /\ c = study.case + 1 THEN "running" ELSE docs.case[s][c]
  BY <1>1, <1>2, CaseOpens, FieldTypes
<1>5. RunningCase'
  BY <1>2, <1>3, <1>4, FieldTypes DEF Written, RunningCase, At, InCase
<1>6. Unwinding' /\ CellEnds' /\ ReadyServer' /\ CasesDone'
  BY <1>2, <1>3, <1>4 DEF Written, Unwinding, CellEnds, ReadyServer, CasesDone
<1>7. CellsBefore' /\ MatrixIsWhole' /\ RunningSession'
  BY <1>2, <1>3, <1>4 DEF Written, CellsBefore, MatrixIsWhole, RunningSession, At, Is
<1>8. CompletedBefore' /\ CompletedIsWhole'
  BY <1>2, <1>3, <1>4, FieldTypes DEF Written, CompletedBefore, CompletedIsWhole, At
<1>. QED
  BY <1>2, <1>3, <1>4, <1>5, <1>6, <1>7, <1>8 DEF Written

\* The end of a case writes its verdict over "running".
LEMMA FinishesWrites ==
  ASSUME Written, NEW verdict \in Verdicts, Finishes(verdict),
         HasCases(study.program) <=> verdict = "completed",
         Is("week13") => verdict \in {"collected", "rejected"}
  PROVE  Written' /\ study'.program = study.program
<1>0. /\ study' = [study EXCEPT !.pc = "case", !.verdict = verdict] /\ study.pc = "drain"
      /\ docs' = IF HasCases(study.program) THEN CaseBecomes(verdict) ELSE docs
  BY DEF Finishes, At
<1>2. /\ study'.pc = "case" /\ study'.error = study.error /\ study'.program = study.program
      /\ study'.server = study.server /\ study'.case = study.case /\ study'.verdict = verdict
      /\ study' \in Studies
  BY <1>0, FieldTypes DEF Studies, Pcs
<1>3. /\ docs' \in Documents
      /\ docs'.server = docs.server /\ docs'.session = docs.session /\ docs'.matrix = docs.matrix
      /\ \A s, c \in 1..2 : docs'.case[s][c] =
           IF HasCases(study.program) /\ s = study.server /\ c = study.case
           THEN "completed" ELSE docs.case[s][c]
  BY <1>0, FieldTypes, CaseBecomesLemma DEF CaseStates
<1>4. RunningCase'
  BY <1>0, <1>2, <1>3, FieldTypes DEF Written, RunningCase, At, InCase
<1>5. Unwinding' /\ CellEnds' /\ ReadyServer'
  BY <1>0, <1>2 DEF Written, Unwinding, CellEnds, ReadyServer, Is
<1>6. CellsBefore' /\ MatrixIsWhole' /\ RunningSession'
  BY <1>0, <1>2, <1>3 DEF Written, CellsBefore, MatrixIsWhole, RunningSession, At, Is
<1>7. CasesDone' /\ CompletedBefore' /\ CompletedIsWhole'
  BY <1>0, <1>2, <1>3, FieldTypes DEF Written, CasesDone, CompletedBefore, CompletedIsWhole, At
<1>. QED
  BY <1>2, <1>3, <1>4, <1>5, <1>6, <1>7 DEF Written

\* What a step of the program does to the records and to the program it is of.
Keeps == Written' /\ study'.program = study.program

\* A step that raises writes what its handlers write.
LEMMA RaiseWrites ==
  ASSUME Written, ~At("idle"), NEW p \in {"leave", "closed"}, Raise(p),
         IF p = "closed" THEN At("probe") ELSE ~At("closed")
  PROVE  Keeps /\ study'.pc = p /\ UNCHANGED <<load, group, port>>
<1>1. PICK e \in Errors : Unwind(e, p)
  BY DEF Raise
<1>. QED
  BY <1>1, UnwindWrites DEF Raise, Keeps, Lands

\* The opening and the end of a server's turn, by program.
LEMMA SessionWrites ==
  ASSUME Written, OpenCandidate \/ OpenCell \/ OpenScenario \/ OpenTrace
  PROVE  Keeps /\ study'.pc = "probe" /\ UNCHANGED <<load, group, port>>
<1>1. study.server \in 1..2 /\ study \in Studies
  BY FieldTypes
<1>2. ASSUME NEW sessions \in SUBSET (1..2), Opens(sessions)
      PROVE  study'.program = study.program /\ study'.pc = "probe" /\ UNCHANGED <<load, group, port>>
  BY <1>1, <1>2 DEF Opens, Studies
<1>3. CASE OpenCandidate
  BY <1>1, <1>2, <1>3, OpensWrites DEF OpenCandidate, Is, Keeps
<1>4. CASE OpenCell
  BY <1>1, <1>2, <1>4, OpensWrites DEF OpenCell, Is, Keeps
<1>5. CASE OpenScenario
  BY <1>1, <1>2, <1>5, OpensWrites DEF OpenScenario, Is, Keeps
<1>6. CASE OpenTrace
  BY <1>1, <1>2, <1>6, OpensWrites DEF OpenTrace, Is, Keeps
<1>. QED
  BY <1>3, <1>4, <1>5, <1>6

\* What a session can end with.
LEMMA EndedType == Written => Ended \in {"failed"} \cup Verdicts
  BY FieldTypes DEF Ended

\* The end of a server's turn writes the verdict of its session.
LEMMA CloseWrites ==
  ASSUME Written, CloseSession
  PROVE  Written'
<1>1. study.server \in 1..2 /\ Ended \in {"failed"} \cup Verdicts
  BY FieldTypes, EndedType
<1>0. At("closed") /\ Ended = "completed" =>
        HasCases(study.program) /\ \A c \in 1..2 : docs.case[study.server][c] = "completed"
  BY DEF Written, CompletedBefore, CasesDone, Ended, At
<1>2. CASE CloseCandidate
  <2>. DEFINE sessions == IF GoesOn THEN {study.server} ELSE {}
  <2>1. sessions \in SUBSET (1..2) /\ (GoesOn => study.server \in sessions)
    BY <1>1
  <2>2. Closes(sessions, Ended) /\ Is("week06") /\ \A s \in sessions : s = study.server
    BY <1>2 DEF CloseCandidate
  <2>3. At("closed")
    BY <2>2 DEF Closes
  <2>. HIDE DEF sessions
  <2>. QED
    BY <1>0, <1>1, <2>1, <2>2, <2>3, ClosesWrites DEF Is
<1>3. CASE CloseCell
  <2>1. {study.server} \in SUBSET (1..2) /\ Closes({study.server}, Ended) /\ Is("week13")
    BY <1>1, <1>3 DEF CloseCell
  <2>2. At("closed")
    BY <2>1 DEF Closes
  <2>. QED
    BY <1>0, <1>1, <2>1, <2>2, ClosesWrites DEF Is
<1>4. CASE CloseScenario
  <2>. DEFINE sessions == IF Last THEN {1} ELSE {}
  <2>1. sessions \in SUBSET (1..2)
    OBVIOUS
  <2>2. PICK end \in {Ended} \cup {"failed"} : Closes(sessions, end)
    BY <1>4 DEF CloseScenario
  <2>3. Is("deep") /\ end \in {"failed"} \cup Verdicts /\ end # "completed"
    BY <1>0, <1>1, <1>4, <2>2 DEF CloseScenario, Is, HasCases, Closes
  <2>. HIDE DEF sessions
  <2>. QED
    BY <2>1, <2>2, <2>3, ClosesWrites DEF Is
<1>5. CASE CloseTrace
  <2>1. Closes({}, "none") /\ study.program \in {"week05", "week07", "week08"}
    BY <1>5 DEF CloseTrace
  <2>2. {} \in SUBSET (1..2) /\ "none" \in {"failed"} \cup Verdicts
    BY DEF Verdicts
  <2>. QED
    BY <2>1, <2>2, ClosesWrites DEF Is
<1>. QED
  BY <1>2, <1>3, <1>4, <1>5 DEF CloseSession

\* managed_server
LEMMA ServerStepWrites ==
  ASSUME Written, Probe \/ Launch \/ BecomesReady \/ NotReady \/ Leave \/ Stopped \/ NotReaped
  PROVE  Keeps
<1>1. /\ study \in Studies /\ study.error \in {"none", "error", "unexpected", "interrupt"}
      /\ docs.server \in {"none", "starting", "ready", "failed", "stopped"}
  BY FieldTypes
<1>0. ASSUME NEW p \in {"launch", "wait", "case", "closed"}, Goto(p)
      PROVE  study' = [study EXCEPT !.pc = p, !.error = study.error]
  BY <1>0, <1>1 DEF Goto, Studies
<1>2. CASE Probe
  <2>1. CASE Raise("closed")
    BY <1>2, <2>1, RaiseWrites DEF Probe, At
  <2>2. CASE docs' = [docs EXCEPT !.server = "starting"] /\ Goto("launch") /\ load' = load
    BY <1>0, <1>1, <1>2, <2>2, ServerWrites DEF Probe, Keeps
  <2>. QED
    BY <1>2, <2>1, <2>2 DEF Probe
<1>3. CASE Launch
  <2>1. CASE Goto("wait") /\ UNCHANGED docs
    <3>1. docs' = [docs EXCEPT !.server = docs.server]
      BY <2>1, FieldTypes DEF Documents
    <3>. QED
      BY <1>0, <1>1, <1>3, <2>1, <3>1, ServerWrites DEF Launch, Keeps
  <2>2. CASE /\ docs' = [docs EXCEPT !.server = "failed"]
             /\ study' = [study EXCEPT !.pc = "closed", !.error = "error"]
    BY <1>1, <1>3, <2>2, ServerWrites DEF Launch, Keeps
  <2>3. CASE Unwind("error", "closed")
    BY <1>3, <2>3, UnwindWrites DEF Launch, Lands, Errors, At, Keeps
  <2>. QED
    BY <1>3, <2>1, <2>2, <2>3 DEF Launch
<1>4. CASE BecomesReady
  BY <1>0, <1>1, <1>4, ServerWrites DEF BecomesReady, Keeps
<1>5. CASE NotReady
  BY <1>5, RaiseWrites DEF NotReady, At
<1>6. CASE Leave
  BY <1>6, GotoWrites DEF Leave, InPlace, Keeps
<1>7. CASE Stopped
  <2>. DEFINE x == IF study.error = "none" THEN "stopped" ELSE "failed"
  <2>1. /\ docs' = [docs EXCEPT !.server = x] /\ Goto("closed") /\ At("signalled") /\ load' = load
        /\ x \in {"none", "starting", "ready", "failed", "stopped"} /\ x # "ready"
    BY <1>1, <1>7, FieldTypes DEF Stopped, Documents
  <2>. HIDE DEF x
  <2>. QED
    BY <1>0, <1>1, <2>1, ServerWrites DEF Keeps
<1>8. CASE NotReaped
  BY <1>8, UnwindWrites DEF NotReaped, Lands, Errors, At, Keeps
<1>. QED
  BY <1>2, <1>3, <1>4, <1>5, <1>6, <1>7, <1>8

\* A step of the threads or of the server leaves the records alone.
LEMMA SameKeeps ==
  ASSUME Written, study' = study, docs' = docs, load'.i = load.i \/ At("load")
  PROVE  Keeps
  BY WritesStay DEF Keeps

\* The case and its load
LEMMA CaseStepWrites ==
  ASSUME Written,
         \/ NextCase \/ CaseNotBegun \/ CaseRefused \/ WarmUp
         \/ Send \/ SendNext \/ AllSent \/ Joined
  PROVE  Keeps
<1>2. CASE NextCase \/ CaseNotBegun
  BY <1>2, NextCaseWrites, CaseNotBegunWrites DEF Keeps
<1>3. CASE CaseRefused
  BY <1>3, RaiseWrites DEF CaseRefused, At
<1>4. CASE WarmUp
  BY <1>4, RaiseWrites, GotoWrites DEF WarmUp, InPlace, At, Keeps
<1>5. CASE Send
  <2>1. CASE study' = study /\ docs' = docs
    BY <1>5, <2>1, SameKeeps DEF Send
  <2>2. CASE Unwind("error", "unwind") /\ load' = load
    BY <1>5, <2>2, UnwindWrites DEF Send, At, Keeps, Lands, Errors
  <2>. QED
    BY <1>5, <2>1, <2>2 DEF Send
<1>6. CASE SendNext
  <2>1. CASE study' = study /\ docs' = docs
    BY <1>6, <2>1, SameKeeps DEF SendNext
  <2>2. CASE Raise("leave")
    BY <1>6, <2>2, RaiseWrites DEF SendNext, At
  <2>. QED
    BY <1>6, <2>1, <2>2 DEF SendNext
<1>7. CASE AllSent
  BY <1>7, GotoWrites DEF AllSent, InPlace, Keeps
<1>8. CASE Joined
  BY <1>8, GotoWrites DEF Joined, InPlace, Keeps
<1>. QED
  BY <1>2, <1>3, <1>4, <1>5, <1>6, <1>7, <1>8

\* The verdicts of the programs on a case.
LEMMA FinishWrites ==
  ASSUME Written, FinishCase \/ FinishCell \/ FinishScenario \/ FinishTrace \/ FinishFails
  PROVE  Keeps
<1>1. CASE FinishCase
  BY <1>1, FinishesWrites DEF FinishCase, HasCases, Is, Verdicts, Keeps
<1>2. CASE FinishCell
  <2>1. PICK v \in {"collected", "rejected"} : Finishes(v)
    BY <1>2 DEF FinishCell
  <2>. QED
    BY <1>2, <2>1, FinishesWrites DEF FinishCell, HasCases, Is, Verdicts, Keeps
<1>3. CASE FinishScenario
  BY <1>3, FinishesWrites DEF FinishScenario, HasCases, Is, Verdicts, Keeps
<1>4. CASE FinishTrace
  BY <1>4, FinishesWrites DEF FinishTrace, HasCases, Is, Verdicts, Keeps
<1>5. CASE FinishFails
  BY <1>5, RaiseWrites DEF FinishFails, At
<1>. QED
  BY <1>1, <1>2, <1>3, <1>4, <1>5

\* KeyboardInterrupt unwinds like an exception, from wherever the program is.
LEMMA InterruptWrites ==
  ASSUME Written, Interrupt
  PROVE  Keeps /\ study'.pc \in {"closed", "unwind", "leave"} /\ (study'.pc = "closed" => At("probe"))
<1>. DEFINE p == CASE At("probe") -> "closed"
                   [] study.pc \in {"load", "drain"} -> "unwind"
                   [] OTHER -> "leave"
<1>1. /\ p \in {"closed", "unwind", "leave"} /\ (p = "closed" => At("probe")) /\ ~At("idle")
      /\ Unwind("interrupt", p) /\ load' = load /\ Lands(p, "interrupt")
  BY DEF Interrupt, At, Lands
<1>. HIDE DEF p
<1>. QED
  BY <1>1, UnwindWrites DEF Keeps

\* Every step keeps what is written, and of a program only its own end or a kill changes
\* which one it is.
LEMMA WrittenNext ==
  ASSUME Written, Sending, [StudyNext]_studyVars
  PROVE  Written' /\ (Begin \/ CloseSession \/ Killed \/ study'.program = study.program)
<1>1. CASE Begin
  BY <1>1, BeginWrites
<1>2. CASE CloseSession
  BY <1>2, CloseWrites
<1>3. CASE Killed
  BY <1>3, KilledWrites
<1>4. CASE MainStep /\ ~CloseSession
  BY <1>4, SessionWrites, ServerStepWrites, CaseStepWrites, FinishWrites DEF MainStep, Keeps
<1>5. ASSUME NEW j \in Jobs, WorkerStep(j)
      PROVE  study' = study /\ docs' = docs /\ load'.i = load.i
  BY <1>5 DEF WorkerStep, RequestEnds, Persist, PersistFails, Release, Sending, Loads
<1>6. ASSUME Bind \/ LeaderDies \/ DoomedDies \/ OthersDie \/ AnotherServer \/ AnotherStops
      PROVE  study' = study /\ docs' = docs /\ load' = load
  BY <1>6 DEF Bind, LeaderDies, DoomedDies, OthersDie, AnotherServer, AnotherStops
<1>7. CASE Interrupt
  BY <1>7, InterruptWrites DEF Keeps
<1>8. ASSUME UNCHANGED studyVars PROVE study' = study /\ docs' = docs /\ load' = load
  BY <1>8 DEF studyVars
<1>. QED
  BY <1>1, <1>2, <1>3, <1>4, <1>5, <1>6, <1>7, <1>8, SameKeeps DEF StudyNext, Keeps

-----------------------------------------------------------------------------
(***************************************************************************)
(* The processes                                                           *)
(***************************************************************************)
Empty == {"idle", "session", "probe", "launch", "closed"}

\* What leaves the group alone and enters no state without a server keeps the clean-up.
LEMMA CleanStays ==
  ASSUME Cleaned, group' = group, study'.pc \in Empty => study.pc \in Empty
  PROVE  Cleaned'
  BY DEF Cleaned, Reaped, Empty

\* The clean-up leaves nothing.
LEMMA StoppedCleans ==
  ASSUME Written, Cleaned, Stopped
  PROVE  Cleaned'
<1>1. group \in Groups
  BY DEF Cleaned
<1>2. group' \in {NoGroup, Doomed}
  <2>1. CASE GroupAlive
    BY <2>1 DEF Stopped, Killpg
  <2>2. CASE ~GroupAlive
    <3>1. group.leader \in {"none", "dead", "killed"} /\ group.others = FALSE
      BY <1>1, <2>2 DEF GroupAlive, Groups
    <3>2. group = [leader |-> group.leader, others |-> FALSE]
      BY <1>1, <3>1 DEF Groups
    <3>. QED
      BY <2>2, <3>1, <3>2 DEF Stopped, NoGroup, Doomed
  <2>. QED
    BY <2>1, <2>2
<1>3. NoGroup \in Groups /\ Doomed \in Groups
  BY DEF Groups, NoGroup, Doomed
<1>. QED
  BY <1>2, <1>3 DEF Cleaned, Reaped

\* What happens to the processes of a server that was launched.
LEMMA ProcessesClean ==
  ASSUME Cleaned, Bind \/ LeaderDies \/ DoomedDies \/ OthersDie
  PROVE  Cleaned'
<1>1. group \in Groups /\ study' = study
  BY DEF Cleaned, Bind, LeaderDies, DoomedDies, OthersDie
<1>2. CASE DoomedDies
  BY <1>2 DEF DoomedDies, Cleaned, Reaped, Groups, NoGroup
<1>3. CASE ~DoomedDies
  <2>1. group \notin {NoGroup, Doomed} /\ group' \in Groups
    <3>1. CASE Bind
      BY <1>1, <3>1 DEF Bind, Groups, NoGroup, Doomed
    <3>2. CASE LeaderDies
      BY <1>1, <3>2 DEF LeaderDies, Groups, NoGroup, Doomed
    <3>3. CASE OthersDie
      <4>1. group.others /\ group' = [group EXCEPT !.others = FALSE]
        BY <3>3 DEF OthersDie
      <4>2. ~NoGroup.others /\ ~Doomed.others
        BY DEF NoGroup, Doomed
      <4>. QED
        BY <1>1, <4>1, <4>2 DEF Groups
    <3>. QED
      BY <1>3, <3>1, <3>2, <3>3
  <2>. QED
    BY <1>1, <2>1 DEF Cleaned, Reaped
<1>. QED
  BY <1>2, <1>3

\* No step of the program passes from a server to none but through the clean-up.
LEMMA MainStepCleans ==
  ASSUME Written, Cleaned, MainStep
  PROVE  Cleaned'
<1>1. study \in Studies
  BY FieldTypes
<1>2. CASE OpenCandidate \/ OpenCell \/ OpenScenario \/ OpenTrace
  <2>1. At("session")
    BY <1>2 DEF OpenCandidate, OpenCell, OpenScenario, OpenTrace, Opens
  <2>. QED
    BY <1>2, <2>1, SessionWrites, CleanStays DEF At, Empty
<1>3. CASE CloseSession
  <2>1. At("closed") /\ group' = group
    BY <1>3 DEF CloseSession, CloseCandidate, CloseCell, CloseScenario, CloseTrace, Closes
  <2>. QED
    BY <2>1, CleanStays DEF At, Empty
<1>4. CASE Probe
  BY <1>1, <1>4, RaiseWrites, CleanStays DEF Probe, At, Empty
<1>5. CASE Launch
  <2>1. CASE Goto("wait") /\ group' = [leader |-> "loading", others |-> TRUE]
    <3>1. study'.pc = "wait"
      BY <1>1, <2>1 DEF Goto, Studies
    <3>. QED
      BY <2>1, <3>1 DEF Cleaned, Reaped, Groups
  <2>2. CASE group' = group
    BY <1>5, <2>2, CleanStays DEF Launch, At, Empty
  <2>. QED
    BY <1>5, <2>1, <2>2 DEF Launch
<1>6. CASE Stopped
  BY <1>6, StoppedCleans
<1>13. CASE NotReaped
  BY <1>13 DEF NotReaped, Cleaned, Reaped, Groups, Doomed
<1>7. CASE BecomesReady \/ Leave
  <2>1. study'.pc \in {"case", "signalled"} /\ group' = group
    BY <1>1, <1>7 DEF BecomesReady, Leave, Goto, InPlace, Studies
  <2>. QED
    BY <2>1, CleanStays DEF Empty
<1>8. CASE NotReady \/ CaseRefused \/ FinishFails
  BY <1>8, RaiseWrites, CleanStays DEF NotReady, CaseRefused, FinishFails, At, Empty
<1>9. CASE NextCase \/ CaseNotBegun \/ AllSent \/ Joined
  <2>1. study'.pc \in {"warm", "leave", "drain"} /\ group' = group
    BY <1>1, <1>9 DEF NextCase, CaseNotBegun, AllSent, Joined, Goto, InPlace, Studies
  <2>. QED
    BY <2>1, CleanStays DEF Empty
<1>10. CASE WarmUp
  <2>1. CASE Raise("leave")
    BY <1>10, <2>1, RaiseWrites, CleanStays DEF WarmUp, At, Empty
  <2>2. CASE Goto("load") /\ InPlace
    <3>1. study'.pc = "load" /\ group' = group
      BY <1>1, <2>2 DEF Goto, InPlace, Studies
    <3>. QED
      BY <3>1, CleanStays DEF Empty
  <2>. QED
    BY <1>10, <2>1, <2>2 DEF WarmUp
<1>11. CASE Send \/ SendNext
  <2>1. At("load")
    BY <1>11 DEF Send, SendNext
  <2>2. CASE study' = study /\ group' = group
    BY <2>2, CleanStays
  <2>3. CASE Raise("leave")
    BY <2>1, <2>3, RaiseWrites, CleanStays DEF At, Empty
  <2>4. CASE Unwind("error", "unwind") /\ group' = group /\ load' = load
    BY <2>1, <2>4, UnwindWrites, CleanStays DEF At, Empty, Lands, Errors
  <2>. QED
    BY <1>11, <2>2, <2>3, <2>4 DEF Send, SendNext
<1>12. CASE FinishCase \/ FinishCell \/ FinishScenario \/ FinishTrace
  <2>1. study'.pc = "case" /\ group' = group
    BY <1>1, <1>12 DEF FinishCase, FinishCell, FinishScenario, FinishTrace, Finishes, Studies
  <2>. QED
    BY <2>1, CleanStays DEF Empty
<1>. QED
  BY <1>2, <1>3, <1>4, <1>5, <1>6, <1>7, <1>8, <1>9, <1>10, <1>11, <1>12, <1>13 DEF MainStep

\* The steps, one by one, for the group of the server.
LEMMA CleanedNext ==
  ASSUME Written, Cleaned, [StudyNext]_studyVars
  PROVE  Cleaned'
<1>1. CASE Begin
  <2>1. group' = group /\ At("idle")
    BY <1>1 DEF Begin
  <2>. QED
    BY <2>1, CleanStays DEF At, Empty
<1>2. CASE Killed
  BY <1>2 DEF Killed, Cleaned, Reaped, Groups, NoGroup
<1>3. ASSUME NEW j \in Jobs, WorkerStep(j) PROVE study' = study /\ group' = group
  BY <1>3 DEF WorkerStep, RequestEnds, Persist, PersistFails, Release
<1>4. ASSUME AnotherServer \/ AnotherStops \/ UNCHANGED studyVars
      PROVE  study' = study /\ group' = group
  BY <1>4 DEF AnotherServer, AnotherStops, studyVars
<1>5. CASE Interrupt
  <2>1. group' = group
    BY <1>5 DEF Interrupt
  <2>. QED
    BY <1>5, <2>1, InterruptWrites, CleanStays DEF At, Empty
<1>6. CASE study' = study /\ group' = group
  BY <1>6, CleanStays
<1>. QED
  BY <1>1, <1>2, <1>3, <1>4, <1>5, <1>6, MainStepCleans, ProcessesClean DEF StudyNext

-----------------------------------------------------------------------------
(***************************************************************************)
(* All of it                                                               *)
(***************************************************************************)
LEMMA SendingNext ==
  ASSUME Written, Sending, [StudyNext]_studyVars
  PROVE  Sending'
<1>1. study \in Studies /\ load \in Loads
  BY FieldTypes DEF Sending
<1>2. CASE Begin \/ Killed
  BY <1>2, FreshLoad DEF Begin, Killed
<1>3. CASE CloseSession
  <2>1. load' = load /\ study'.program \in {study.program, "none"}
    <3>1. ASSUME NEW sessions, NEW end, Closes(sessions, end)
          PROVE  load' = load /\ study'.program \in {study.program, "none"}
      BY <1>1, <3>1 DEF Closes, NoStudy, Studies
    <3>. QED
      BY <1>3, <3>1 DEF CloseSession, CloseCandidate, CloseCell, CloseScenario, CloseTrace
  <2>. QED
    BY <2>1, LoadStays
<1>4. CASE NextCase \/ CaseNotBegun
  BY <1>4, NextCaseWrites, FreshLoad, LoadStays DEF NextCase, CaseNotBegun
<1>5. CASE Send
  <2>1. CASE Bounded /\ load.slots = 0 /\ load' = Overflows(load.i) /\ study' = study
    BY <1>5, <2>1, OverflowKeeps DEF Send
  <2>2. CASE load' = load /\ Unwind("error", "unwind")
    BY <1>5, <2>2, UnwindWrites, LoadStays DEF Send, At, Lands, Errors
  <2>3. CASE ~(Bounded /\ load.slots = 0) /\ load' = Submits(load.i) /\ study' = study
    BY <1>5, <2>3, SubmitKeeps DEF Send
  <2>. QED
    BY <1>5, <2>1, <2>2, <2>3 DEF Send
<1>6. CASE SendNext
  <2>1. CASE load' = [load EXCEPT !.i = @ + 1, !.job[load.i] = "success"] /\ study' = study
    BY <1>6, <2>1, SendNextKeeps DEF SendNext
  <2>2. CASE Raise("leave")
    BY <1>6, <2>2, RaiseWrites, LoadStays DEF SendNext, At, Keeps
  <2>. QED
    BY <1>6, <2>1, <2>2 DEF SendNext
<1>7. ASSUME NEW j \in Jobs, WorkerStep(j) PROVE Sending'
  <2>1. CASE RequestEnds(j)
    BY <2>1, MovesOn DEF RequestEnds
  <2>2. CASE PersistFails(j)
    BY <2>2, MovesOn DEF PersistFails
  <2>. QED
    BY <1>7, <2>1, <2>2, PersistKeeps, ReleaseKeeps DEF WorkerStep
<1>8. ASSUME \/ OpenCandidate \/ OpenCell \/ OpenScenario \/ OpenTrace
             \/ Probe \/ Launch \/ BecomesReady \/ NotReady \/ Leave \/ Stopped \/ NotReaped
      PROVE  Sending'
  <2>1. load' = load
    BY <1>8 DEF OpenCandidate, OpenCell, OpenScenario, OpenTrace, Opens, Probe, Launch,
                BecomesReady, NotReady, Leave, Stopped, NotReaped, Raise, InPlace
  <2>. QED
    BY <1>8, <2>1, SessionWrites, ServerStepWrites, LoadStays DEF Keeps
<1>9. ASSUME \/ CaseRefused \/ WarmUp \/ AllSent \/ Joined \/ FinishFails
             \/ FinishCase \/ FinishCell \/ FinishScenario \/ FinishTrace
      PROVE  Sending'
  <2>1. load' = load
    BY <1>9 DEF CaseRefused, WarmUp, AllSent, Joined, FinishFails, FinishCase, FinishCell,
                FinishScenario, FinishTrace, Finishes, Raise, InPlace
  <2>. QED
    BY <1>9, <2>1, CaseStepWrites, FinishWrites, LoadStays DEF Keeps
<1>10. CASE Interrupt
  <2>1. load' = load
    BY <1>10 DEF Interrupt
  <2>. QED
    BY <1>10, <2>1, InterruptWrites, LoadStays DEF Keeps
<1>11. ASSUME \/ Bind \/ LeaderDies \/ DoomedDies \/ OthersDie \/ AnotherServer \/ AnotherStops
              \/ UNCHANGED studyVars
       PROVE  Sending'
  <2>1. load' = load /\ study' = study
    BY <1>11 DEF Bind, LeaderDies, DoomedDies, OthersDie, AnotherServer, AnotherStops, studyVars
  <2>. QED
    BY <2>1, LoadStays
<1>12. CASE MainStep
  BY <1>3, <1>4, <1>5, <1>6, <1>8, <1>9, <1>12 DEF MainStep
<1>. QED
  BY <1>2, <1>7, <1>10, <1>11, <1>12 DEF StudyNext

\* The invariant holds at first.
LEMMA StudyInvInit == StudyInit => StudyInv
<1>. SUFFICES ASSUME StudyInit PROVE StudyInv
  OBVIOUS
<1>1. study = NoStudy /\ docs = NoDocs /\ group = NoGroup /\ load = NoLoad
  BY DEF StudyInit
<1>2. Written
  BY <1>1 DEF Written, NoStudy, NoDocs, Studies, Pcs, Names, Verdicts, Documents, CaseStates,
              Servers, Unwinding, CellEnds, CellsBefore, RunningCase, RunningSession,
              ReadyServer, MatrixIsWhole, CasesDone, CompletedBefore, CompletedIsWhole,
              HasCases, Is, At
<1>3. Cleaned
  BY <1>1 DEF Cleaned, Reaped, Groups, NoGroup
<1>4. Sending
  <2>1. NoLoad \in Loads
    BY DEF NoLoad, Loads, Jobs, JobStages
  <2>2. ~Bounded
    BY <1>1 DEF Bounded, NoStudy
  <2>3. InTurn
    BY <1>1 DEF InTurn, NoLoad
  <2>. QED
    BY <1>1, <2>1, <2>2, <2>3 DEF Sending, SlotsAddUp, JournalIsExact
<1>. QED
  BY <1>2, <1>3, <1>4 DEF StudyInv

\* Every step keeps it.
LEMMA StudyInvNext == StudyInv /\ [StudyNext]_studyVars => StudyInv'
  BY WrittenNext, CleanedNext, SendingNext DEF StudyInv

\* It holds always.
LEMMA StudyInvariant == StudySpec => []StudyInv
  BY StudyInvInit, StudyInvNext, PTL DEF StudySpec

\* managed_server: whatever the server's processes do and whatever a program unwinds
\* from, none of them is left when the program goes on to the next server or ends, save
\* a leader that was sent SIGKILL and that process.wait did not see dead.
THEOREM ServersAreReaped == StudySpec => []NothingLeftRunning
<1>1. StudyInv => NothingLeftRunning
  BY DEF StudyInv, Cleaned, Reaped, NothingLeftRunning
<1>. QED
  BY <1>1, StudyInvariant, PTL

\* run_load and the records: for any number of requests and of slots, no slot is lost or
\* made, the journal is exact at every moment, a matrix is of cells with a verdict, and a
\* candidate recorded as completed has completed its cases.
THEOREM StudyRecordsHonest == StudySpec => []RecordsHonest
<1>1. StudyInv => RecordsHonest
  BY DEF StudyInv, Written, Sending, RecordsHonest
<1>. QED
  BY <1>1, StudyInvariant, PTL

\* What still says running or ready at the end of a server's turn, and why.
Explained ==
  /\ \A c \in 1..2 : docs'.case[study.server][c] = "running" =>
       c = study.case /\ study.error # "none" /\ load.i = 1
  /\ \A s \in 1..2 : (study'.pc = "idle" /\ docs'.session[s] = "running") =>
       Is("week06") /\ s = study.server /\ study.error \in {"unexpected", "interrupt"}
  /\ docs'.server = "ready" => study.error = "unexpected"

\* The end of one program's turn, from the sessions it closes.
LEMMA ClosesExplained ==
  ASSUME Written, NEW sessions \in SUBSET (1..2), NEW end \in {"failed"} \cup Verdicts,
         Closes(sessions, end),
         \A s \in 1..2 : study'.pc = "idle" /\ docs.session[s] = "running" /\ s \notin sessions =>
           Is("week06") /\ s = study.server /\ study.error \in {"unexpected", "interrupt"}
  PROVE  Explained
<1>1. /\ docs'.server = docs.server /\ docs'.case = docs.case /\ study.pc = "closed"
      /\ \A s \in 1..2 : docs'.session[s] = IF s \in sessions THEN end ELSE docs.session[s]
  BY FieldTypes DEF Closes, At, Documents
<1>2. end # "running"
  BY DEF Verdicts
<1>3. \A c \in 1..2 : docs.case[study.server][c] = "running" =>
        c = study.case /\ study.error # "none" /\ load.i = 1
  BY <1>1 DEF Written, RunningCase, At, InCase
<1>4. docs.server = "ready" => study.error = "unexpected"
  BY <1>1 DEF Written, ReadyServer
<1>. QED
  BY <1>1, <1>2, <1>3, <1>4 DEF Explained

\* The step that ends a turn, from what is known of the records.
LEMMA CloseExplained ==
  ASSUME Written, CloseSession
  PROVE  Explained
<1>0. /\ study.server \in 1..2 /\ Ended \in {"failed"} \cup Verdicts /\ study \in Studies
      /\ study.error \in {"none", "error", "unexpected", "interrupt"}
  BY FieldTypes, EndedType
<1>1. At("closed") => \A s \in 1..2 : docs.session[s] = "running" =>
        \/ study.program \in {"week06", "week13"} /\ s = study.server
        \/ Is("deep") /\ s = 1
  BY DEF Written, RunningSession, At
<1>2. CASE CloseCandidate
  <2>. DEFINE sessions == IF GoesOn THEN {study.server} ELSE {}
  <2>1. sessions \in SUBSET (1..2) /\ (study.server \notin sessions => ~GoesOn)
    BY <1>0
  <2>2. Closes(sessions, Ended) /\ Is("week06") /\ At("closed")
    BY <1>2 DEF CloseCandidate, Closes
  <2>3. ~GoesOn => study.error \in {"unexpected", "interrupt"}
    BY <1>0, <2>2 DEF GoesOn
  <2>. HIDE DEF sessions
  <2>. QED
    BY <1>0, <1>1, <2>1, <2>2, <2>3, ClosesExplained DEF Is
<1>3. CASE CloseCell
  <2>1. {study.server} \in SUBSET (1..2) /\ Closes({study.server}, Ended) /\ Is("week13")
        /\ At("closed")
    BY <1>0, <1>3 DEF CloseCell, Closes
  <2>. QED
    BY <1>0, <1>1, <2>1, ClosesExplained DEF Is
<1>4. CASE CloseScenario
  <2>. DEFINE sessions == IF Last THEN {1} ELSE {}
  <2>1. sessions \in SUBSET (1..2) /\ (Last => 1 \in sessions)
    OBVIOUS
  <2>2. PICK end \in {Ended} \cup {"failed"} : Closes(sessions, end)
    BY <1>4 DEF CloseScenario
  <2>3. Is("deep") /\ end \in {"failed"} \cup Verdicts /\ At("closed")
    BY <1>0, <1>4, <2>2 DEF CloseScenario, Closes
  <2>4. ~Last => study'.pc = "session"
    BY <1>0, <2>2 DEF Closes, Studies
  <2>. HIDE DEF sessions
  <2>. QED
    BY <1>1, <2>1, <2>2, <2>3, <2>4, ClosesExplained DEF Is
<1>5. CASE CloseTrace
  <2>1. /\ Closes({}, "none") /\ study.program \in {"week05", "week07", "week08"}
        /\ At("closed")
    BY <1>5 DEF CloseTrace, Closes
  <2>2. {} \in SUBSET (1..2) /\ "none" \in {"failed"} \cup Verdicts
    BY DEF Verdicts
  <2>. QED
    BY <1>1, <2>1, <2>2, ClosesExplained DEF Is
<1>. QED
  BY <1>2, <1>3, <1>4, <1>5 DEF CloseSession

\* A program that comes to the end of a server's turn leaves a record of something running
\* in three cases only, each after an exception that no handler covers.
THEOREM TurnsEndExplained == StudySpec => RunningIsExplained
<1>1. StudyInv => (CloseSession => Explained)
  BY CloseExplained DEF StudyInv
<1>2. (CloseSession => Explained) => [CloseSession => Explained]_studyVars
  OBVIOUS
<1>. QED
  BY <1>1, <1>2, StudyInvariant, PTL DEF RunningIsExplained, Explained
=============================================================================
