---------------------------- MODULE MCCaseStore -----------------------------
(* Small instances of CaseStore: policies that share a trace, and one that    *)
(* has a trace to itself.                                                     *)
EXTENDS CaseStore

TwoShareOne == <<1, 1, 2>>
=============================================================================
