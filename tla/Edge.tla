-------------------------------- MODULE Edge ---------------------------------
(***************************************************************************)
(* The edge process: the goroutines of the connected client (EdgeWork) and *)
(* the call-home loop around it (EdgeRun).                                 *)
(***************************************************************************)
EXTENDS EdgeWork, Integers

CONSTANTS MaxStale, MaxFaults, MaxBackoff

VARIABLES cfg, pc, mat, disk, gen, stale, backoff, runCancelled, outcome, faults

Run == INSTANCE EdgeRun WITH cancelled <- runCancelled

ASSUME RunAssumption == Run!EdgeRunAssumption
------------------------------------------------------------------------------
(* Properties, with those of EdgeWork *)

\* See EdgeRun: an edge with a CA bundle never falls back to the bearer token.
NoDowngrade == Run!NoDowngrade

\* See EdgeRun: one enrollment, and one more for an expiry or a fault.
EnrollmentsBounded == Run!EnrollmentsBounded

\* See EdgeRun: while nothing fails but the connection, Run keeps serving.
KeepsServing == Run!KeepsServing

\* See EdgeRun: a signal ends Run, wherever it is.
CancelEnds == Run!CancelEnds
==============================================================================
