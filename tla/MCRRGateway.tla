----------------------------- MODULE MCRRGateway ----------------------------
(* A small instance of RRGateway.  The two uids are not interchangeable, since *)
(* the pool is sorted by them.                                               *)
EXTENDS RRGateway

Pair == 1..2
=============================================================================
