-------------------------- MODULE MCOperationDelivery --------------------------
(***************************************************************************)
(* An operation, the embedding job e, which is sent without an operation   *)
(* row, and two workers.                                                   *)
(***************************************************************************)
EXTENDS OperationDelivery, TLC

CONSTANTS a, e, w1, w2

MCOperations == {a}
MCJobs == {a, e}
MCWorkers == {w1, w2}
================================================================================
