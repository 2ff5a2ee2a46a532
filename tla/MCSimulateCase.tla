--------------------------- MODULE MCSimulateCase ---------------------------
(* Small instances of SimulateCase.  FakeBatchBackend allows a service time  *)
(* of zero, and an exception in execute counts as one.                       *)
EXTENDS SimulateCase

Execution(service, failed) ==
  [service |-> service, first |-> IF failed THEN 0 ELSE service \div 2, failed |-> failed]

WithZero == {Execution(0, TRUE), Execution(0, FALSE), Execution(2, FALSE)}
=============================================================================
