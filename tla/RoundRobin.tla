----------------------------- MODULE RoundRobin -----------------------------
(***************************************************************************)
(* The endpoint pool of src/src/rr_gateway.py: update and select run       *)
(* without an await in one event loop, so each is one step.                *)
(*                                                                         *)
(* RRGateway takes its pool and these two operations from here; RRSpec is  *)
(* the pool alone, with any callers.                                       *)
(***************************************************************************)
EXTENDS Integers, Sequences, FiniteSets

CONSTANT Uids   (* Endpoint uids; their order is that of the numbers.      *)

ASSUME UidsAssumption == Uids \subseteq Nat /\ IsFiniteSet(Uids)

VARIABLES
  endpoints,   (* The candidates, sorted by uid.                           *)
  index,       (* Position of the next pick, from 0.                       *)
  epoch,       (* Incremented whenever the candidates change.              *)
  sequence,    (* Number of picks so far.                                  *)
  picks        (* History: picks of each position in the current epoch.    *)

pool == <<endpoints, index, epoch, sequence, picks>>

\* sorted(endpoints, key=uid)
Sorted(ready) ==
  {q \in [1..Cardinality(ready) -> ready] :
     \A i, j \in DOMAIN q : i < j => q[i] < q[j]}

RRInit ==
  /\ endpoints = <<>>
  /\ index = 0
  /\ epoch = 0
  /\ sequence = 0
  /\ picks = <<>>

\* Mutant: a new pool keeps the old epoch.
update_KeepsEpoch(ready) ==
  \E q \in Sorted(ready) :
    /\ endpoints' = q
    /\ IF q # endpoints
       THEN index' = 0 /\ picks' = [i \in DOMAIN q |-> 0] /\ UNCHANGED epoch
       ELSE UNCHANGED <<index, epoch, picks>>
    /\ UNCHANGED sequence

update(ready) ==
  \E q \in Sorted(ready) :
    /\ endpoints' = q
    /\ IF q # endpoints
       THEN /\ index' = 0
            /\ epoch' = epoch + 1
            /\ picks' = [i \in DOMAIN q |-> 0]
       ELSE UNCHANGED <<index, epoch, picks>>
    /\ UNCHANGED sequence

\* endpoint, epoch, sequence = select()
Picked == endpoints[(index % Len(endpoints)) + 1]

select ==
  /\ endpoints # <<>>
  /\ index' = (index + 1) % Len(endpoints)
  /\ sequence' = sequence + 1
  /\ picks' = [picks EXCEPT ![(index % Len(endpoints)) + 1] = @ + 1]
  /\ UNCHANGED <<endpoints, epoch>>

RRNext == (\E ready \in SUBSET Uids : update(ready)) \/ select

RRSpec == RRInit /\ [][RRNext]_pool

-----------------------------------------------------------------------------
(***************************************************************************)
(* Properties                                                              *)
(***************************************************************************)
RRTypeOK ==
  /\ endpoints \in Seq(Uids)
  /\ index \in Nat
  /\ endpoints # <<>> => index < Len(endpoints)
  /\ epoch \in Nat
  /\ sequence \in Nat
  /\ picks \in [DOMAIN endpoints -> Nat]

\* "admission counts differ by more than one" is an error of rr_verdict: at
\* every moment of an epoch any two endpoints got equally many picks, or one
\* more than the other.
Balanced ==
  \A i, j \in DOMAIN endpoints : picks[i] - picks[j] \in -1..1
=============================================================================
