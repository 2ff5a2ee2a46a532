------------------------------- MODULE CaseLog ------------------------------
(***************************************************************************)
(* What the store of a case matrix promises: a case is committed with the  *)
(* data of one execution, and stays committed with exactly that data until *)
(* somebody damages its files.                                             *)
(***************************************************************************)
EXTENDS Naturals

CONSTANTS
  Cases,       (* The cases of the matrix.                                 *)
  Absent       (* The content of a file that is not there.                 *)

VARIABLES
  committed,   (* The event and batch data of each committed case.         *)
  damages      (* How often files have been damaged.                       *)

NotCommitted == [events |-> Absent, batches |-> Absent]

OneExecution(x) == [events |-> x, batches |-> x]

LogInit ==
  /\ committed = [c \in Cases |-> NotCommitted]
  /\ damages = 0

Commit(c) ==
  /\ committed[c] = NotCommitted
  /\ committed'[c].events \in Nat \ {Absent}
  /\ committed' = [committed EXCEPT ![c] = OneExecution(committed'[c].events)]
  /\ UNCHANGED damages

\* Damage to a case that is not committed is a step of damages alone.
Damaged(c) ==
  /\ damages' = damages + 1
  /\ committed' \in {committed, [committed EXCEPT ![c] = NotCommitted]}

LogNext == \E c \in Cases : Commit(c) \/ Damaged(c)

LogSpec == LogInit /\ [][LogNext]_<<committed, damages>>
=============================================================================
