--------------------------- MODULE MCOnlineServing --------------------------
(* Small instances of OnlineServing: a pair that meets an earlier arrival in *)
(* a queue of two, and a group that leaves another arrival behind it.        *)
EXTENDS OnlineServing

OneThenPair == <<0, 1, 1>>
GroupThenLate == <<0, 0, 1>>
=============================================================================
