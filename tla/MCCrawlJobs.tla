------------------------------ MODULE MCCrawlJobs ------------------------------
(***************************************************************************)
(* One worker, as in the deployment, and one job, whose remote job ends in *)
(* any way, with two faults or with two reconciliations and one fault; or  *)
(* two jobs one after the other that are reconciled once each, without     *)
(* faults and with results that are well formed.                           *)
(***************************************************************************)
EXTENDS CrawlJobs

MCBounds == {[jobs |-> 1, attempts |-> 1, redeliveries |-> 1, faults |-> 2,
              outcomes |-> Outcomes],
             [jobs |-> 1, attempts |-> 2, redeliveries |-> 1, faults |-> 1,
              outcomes |-> Outcomes],
             [jobs |-> 2, attempts |-> 1, redeliveries |-> 0, faults |-> 0,
              outcomes |-> {"succeeded", "failed"}]}
================================================================================
