---------------------------- MODULE MCTraceReplay ---------------------------
(* Small instances of TraceReplay.                                           *)
EXTENDS TraceReplay

(* Two requests together: with one worker the second has to wait for         *)
(* capacity, and may miss the limit.                                         *)
TwoTogether == <<0, 0>>

Both == {1, 2}
=============================================================================
