------------------------------ MODULE CaseStore -----------------------------
(***************************************************************************)
(* run_matrix of src/src/serve_week03.py: a matrix of cases is run one     *)
(* case after the other, each is committed to files of its own, and the    *)
(* totals are rebuilt from the committed ones.  An invocation may be       *)
(* killed between any two file operations; the next one resumes.           *)
(*                                                                         *)
(* Every file is replaced atomically (os.replace), so its content is that  *)
(* of one complete write.  The content of a case's files is the number of  *)
(* the execution that wrote them: no two executions measure the same.  One *)
(* runner is active at a time, as nothing in the code locks the root.      *)
(***************************************************************************)
EXTENDS Integers, FiniteSets

CONSTANTS
  Count,        (* Number of cases, in the order of expand_matrix.         *)
  TraceOf,      (* trace_key of each case.                                 *)
  EmptyTraces,  (* The keys whose generated trace may have no request.     *)
  Limits,       (* The max_cases of an invocation, besides None.           *)
  MaxTrouble,   (* Bound: kills and failing cases.                         *)
  MaxDamage     (* Bound: files damaged between invocations.               *)

Cases == 1..Count

Keys == {TraceOf[c] : c \in Cases}

ASSUME MatrixAssumption ==
  /\ Count \in Nat \ {0}
  /\ DOMAIN TraceOf = 1..Count
  /\ Limits \subseteq Nat
  /\ MaxTrouble \in Nat
  /\ MaxDamage \in Nat

VARIABLES
  empty,      (* The keys whose generated trace has no request.            *)
  metadata,   (* run_metadata.json exists.                                 *)
  traces,     (* The keys whose trace file exists.                         *)
  events,     (* events.csv of each case.                                  *)
  batches,    (* batches.csv of each case.                                 *)
  marker,     (* complete.json of each case.                               *)
  totals,     (* raw/events.csv and raw/batches.csv.                       *)
  status,     (* The status in run-status.json.                            *)
  pc,         (* What the invocation does next; "idle": there is none.     *)
  case,       (* The case it is at.                                        *)
  ran,        (* ran                                                       *)
  limit,      (* max_cases                                                 *)
  execution,  (* Number of executions so far.                              *)
  trouble,    (* Kills and failing cases so far.                           *)
  damages     (* Damaged files so far.                                     *)

files == <<empty, metadata, traces, events, batches, marker, totals, status>>
runner == <<pc, case, ran, limit>>
storeVars == <<files, runner, execution, trouble, damages>>

\* The content of a file that is not there, and of one that does not parse.
Absent == 0
Garbage == -1

\* max_cases=None
NoLimit == -1

NoMarker == [events |-> Absent, batches |-> Absent, trace |-> FALSE]

StoreInit ==
  /\ empty \in SUBSET (EmptyTraces \cap Keys)
  /\ metadata = FALSE
  /\ traces = {}
  /\ events = [c \in Cases |-> Absent]
  /\ batches = [c \in Cases |-> Absent]
  /\ marker = [c \in Cases |-> NoMarker]
  /\ totals = [events |-> <<>>, batches |-> <<>>]
  /\ status = "absent"
  /\ pc = "idle" /\ case = 1 /\ ran = 0 /\ limit = NoLimit
  /\ execution = 0
  /\ trouble = 0
  /\ damages = 0

\* validate_case_artifacts: the rows of two executions do not agree.
Coherent(c) == events[c] = batches[c] /\ events[c] # Garbage

\* Mutant: a marker is enough.
case_is_complete_Marker(c) == marker[c].trace

\* _case_is_complete
case_is_complete(c) ==
  /\ Absent \notin {events[c], batches[c]} /\ marker[c] # NoMarker
  /\ marker[c].events = events[c]
  /\ marker[c].batches = batches[c]
  /\ marker[c].trace
  /\ Coherent(c)

CompleteCases == {c \in Cases : case_is_complete(c)}

(***************************************************************************)
(* An invocation: the metadata, then the traces                            *)
(***************************************************************************)
Invoke(max) ==
  /\ pc = "idle"
  /\ pc' = "metadata" /\ case' = 1 /\ ran' = 0 /\ limit' = max
  /\ UNCHANGED <<files, execution, trouble, damages>>

\* Written if absent, and the same if present: nobody changes the configuration.
PersistMetadata ==
  /\ pc = "metadata"
  /\ metadata' = TRUE
  /\ pc' = "traces"
  /\ UNCHANGED <<empty, traces, events, batches, marker, totals, status,
                 case, ran, limit, execution, trouble, damages>>

Key == TraceOf[case]

SeenInThisRun == \E c \in 1..(case - 1) : TraceOf[c] = Key

\* Mutant: a generated trace is never the persisted one.
Readable_Unseeded(k) == FALSE

\* read_trace wants exactly one trace_id among the rows, and an empty file has none.
Readable(k) == k \notin empty

TraceDone ==
  /\ case' = case + 1
  /\ UNCHANGED <<empty, metadata, events, batches, marker, totals, status,
                 pc, ran, limit, execution, trouble, damages>>

SkipTrace ==
  /\ pc = "traces" /\ case <= Count /\ SeenInThisRun
  /\ UNCHANGED traces
  /\ TraceDone

WriteTrace ==
  /\ pc = "traces" /\ case <= Count /\ ~SeenInThisRun
  /\ Key \notin traces
  /\ traces' = traces \cup {Key}
  /\ TraceDone

ReadTrace ==
  /\ pc = "traces" /\ case <= Count /\ ~SeenInThisRun
  /\ Key \in traces /\ Readable(Key)
  /\ UNCHANGED traces
  /\ TraceDone

ReadRaises ==
  /\ pc = "traces" /\ case <= Count /\ ~SeenInThisRun
  /\ Key \in traces /\ ~Readable(Key)
  /\ pc' = "idle"
  /\ UNCHANGED <<files, case, ran, limit, execution, trouble, damages>>

TracesReady ==
  /\ pc = "traces" /\ case > Count
  /\ pc' = "cases" /\ case' = 1
  /\ UNCHANGED <<files, ran, limit, execution, trouble, damages>>

(***************************************************************************)
(* The cases                                                               *)
(***************************************************************************)
AtLimit == limit # NoLimit /\ ran >= limit

SkipCase ==
  /\ pc = "cases" /\ case <= Count /\ case_is_complete(case)
  /\ case' = case + 1
  /\ UNCHANGED <<files, pc, ran, limit, execution, trouble, damages>>

StopAtLimit ==
  /\ pc = "cases" /\ case <= Count /\ ~case_is_complete(case) /\ AtLimit
  /\ pc' = "total events"
  /\ UNCHANGED <<files, case, ran, limit, execution, trouble, damages>>

\* simulate_case or run_online_case returns the rows ...
RunCase ==
  /\ pc = "cases" /\ case <= Count /\ ~case_is_complete(case) /\ ~AtLimit
  /\ execution' = execution + 1
  /\ pc' = "events"
  /\ UNCHANGED <<files, case, ran, limit, trouble, damages>>

\* ... or raises.
CaseRaises ==
  /\ pc = "cases" /\ case <= Count /\ ~case_is_complete(case) /\ ~AtLimit
  /\ trouble < MaxTrouble
  /\ trouble' = trouble + 1
  /\ pc' = "idle"
  /\ UNCHANGED <<files, case, ran, limit, execution, damages>>

\* _commit_case: three files, the marker last.
WriteEvents ==
  /\ pc = "events"
  /\ events' = [events EXCEPT ![case] = execution]
  /\ pc' = "batches"
  /\ UNCHANGED <<empty, metadata, traces, batches, marker, totals, status,
                 case, ran, limit, execution, trouble, damages>>

WriteBatches ==
  /\ pc = "batches"
  /\ batches' = [batches EXCEPT ![case] = execution]
  /\ pc' = "marker"
  /\ UNCHANGED <<empty, metadata, traces, events, marker, totals, status,
                 case, ran, limit, execution, trouble, damages>>

\* The hashes are those of the files; trace_id comes from the first event row.
WriteMarker ==
  /\ pc = "marker"
  /\ marker' = [marker EXCEPT ![case] =
       [events |-> events[case], batches |-> batches[case],
        trace |-> Key \notin empty]]
  /\ ran' = ran + 1 /\ case' = case + 1
  /\ pc' = "cases"
  /\ UNCHANGED <<empty, metadata, traces, events, batches, totals, status,
                 limit, execution, trouble, damages>>

CasesDone ==
  /\ pc = "cases" /\ case > Count
  /\ pc' = "total events"
  /\ UNCHANGED <<files, case, ran, limit, execution, trouble, damages>>

(***************************************************************************)
(* _rebuild_aggregates, and the status                                     *)
(***************************************************************************)
Verdict == IF CompleteCases = Cases THEN "benchmark_complete" ELSE "partial"

\* Mutant: the status is written before the totals are.
WriteTotalEvents_StatusFirst ==
  /\ pc = "total events"
  /\ totals' = [totals EXCEPT !.events = [c \in CompleteCases |-> events[c]]]
  /\ status' = Verdict
  /\ pc' = "total batches"
  /\ UNCHANGED <<empty, metadata, traces, events, batches, marker,
                 case, ran, limit, execution, trouble, damages>>

WriteTotalEvents ==
  /\ pc = "total events"
  /\ totals' = [totals EXCEPT !.events = [c \in CompleteCases |-> events[c]]]
  /\ pc' = "total batches"
  /\ UNCHANGED <<empty, metadata, traces, events, batches, marker, status,
                 case, ran, limit, execution, trouble, damages>>

WriteTotalBatches ==
  /\ pc = "total batches"
  /\ totals' = [totals EXCEPT !.batches = [c \in CompleteCases |-> batches[c]]]
  /\ pc' = "status"
  /\ UNCHANGED <<empty, metadata, traces, events, batches, marker, status,
                 case, ran, limit, execution, trouble, damages>>

WriteStatus ==
  /\ pc = "status"
  /\ status' = Verdict
  /\ pc' = "idle"
  /\ UNCHANGED <<empty, metadata, traces, events, batches, marker, totals,
                 case, ran, limit, execution, trouble, damages>>

Runner ==
  \/ PersistMetadata
  \/ SkipTrace \/ WriteTrace \/ ReadTrace \/ ReadRaises \/ TracesReady
  \/ SkipCase \/ StopAtLimit \/ RunCase \/ CasesDone
  \/ WriteEvents \/ WriteBatches \/ WriteMarker
  \/ WriteTotalEvents \/ WriteTotalBatches \/ WriteStatus

(***************************************************************************)
(* What happens to the runner and to the files                             *)
(***************************************************************************)
\* The process is killed, or the Spot VM preempted.
Kill ==
  /\ pc # "idle" /\ trouble < MaxTrouble
  /\ trouble' = trouble + 1
  /\ pc' = "idle"
  /\ UNCHANGED <<files, case, ran, limit, execution, damages>>

\* A file of a case is overwritten or removed between two invocations.
Damage(c) ==
  /\ pc = "idle" /\ damages < MaxDamage
  /\ damages' = damages + 1
  /\ \/ /\ events[c] # Absent
        /\ \E x \in {Absent, Garbage} : events' = [events EXCEPT ![c] = x]
        /\ UNCHANGED <<batches, marker>>
     \/ /\ batches[c] # Absent
        /\ \E x \in {Absent, Garbage} : batches' = [batches EXCEPT ![c] = x]
        /\ UNCHANGED <<events, marker>>
     \/ /\ marker' = [marker EXCEPT ![c] = NoMarker]
        /\ UNCHANGED <<events, batches>>
  /\ UNCHANGED <<empty, metadata, traces, totals, status, runner, execution, trouble>>

StoreNext ==
  \/ \E max \in Limits \cup {NoLimit} : Invoke(max)
  \/ Runner \/ CaseRaises \/ Kill
  \/ \E c \in Cases : Damage(c)

\* A running program goes on, and the command is repeated without a limit.
StoreFairness == WF_storeVars(Runner) /\ SF_storeVars(Invoke(NoLimit))

StoreSpec == StoreInit /\ [][StoreNext]_storeVars /\ StoreFairness

-----------------------------------------------------------------------------
(***************************************************************************)
(* Properties                                                              *)
(***************************************************************************)
Content == Nat \cup {Garbage}

\* Types of the files of the cases and of the counters.
StoreTypeOK ==
  /\ events \in [Cases -> Content]
  /\ batches \in [Cases -> Content]
  /\ marker \in [Cases -> [events : Content, batches : Content, trace : BOOLEAN]]
  /\ case \in Nat \ {0}
  /\ execution \in Nat
  /\ damages \in Nat

\* What the store holds for sure.
Committed ==
  [c \in Cases |-> IF case_is_complete(c)
                   THEN [events |-> events[c], batches |-> batches[c]]
                   ELSE [events |-> Absent, batches |-> Absent]]

Log == INSTANCE CaseLog WITH committed <- Committed

\* A case that _case_is_complete accepts holds the rows of one execution, however
\* often the commit was interrupted or its files damaged before; and no later
\* invocation replaces them.
CommitsOnce == Log!LogSpec

\* While nobody damaged a file, "benchmark_complete" means that every case is
\* committed and that both totals hold exactly the rows of all of them - also after
\* later invocations that were killed between the totals and the status.
TotalsHonest ==
  status = "benchmark_complete" /\ damages = 0 =>
    /\ CompleteCases = Cases
    /\ totals = [events |-> events, batches |-> batches]

AllThere ==
  status = "benchmark_complete" /\ totals = [events |-> events, batches |-> batches]

\* Repeating the command completes the matrix in the end, whatever was killed,
\* failed or damaged before - when every trace has a request.
RepeatCompletes == empty = {} => <>[]AllThere
=============================================================================
