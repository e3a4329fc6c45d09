----------------------------- MODULE MCRoutingSync -----------------------------
(***************************************************************************)
(* Two sites.  One worker: status changes that overlap, with a fault; or a *)
(* status change, a new domain and publications in any order.  Two workers *)
(* that synchronise at the same time.                                      *)
(***************************************************************************)
EXTENDS RoutingSync

CONSTANTS w1, w2

Plot(workers, changes, renames, publishes, rollbacks, faults) ==
  [workers |-> workers, changes |-> changes, renames |-> renames, publishes |-> publishes,
   rollbacks |-> rollbacks, faults |-> faults]
MCPlots == {Plot({w1}, 3, 0, 0, 0, 0), Plot({w1}, 2, 0, 0, 0, 1), Plot({w1}, 1, 0, 1, 0, 1),
            Plot({w1}, 1, 1, 1, 0, 0), Plot({w1}, 0, 1, 2, 1, 0),
            Plot({w1, w2}, 1, 0, 1, 0, 0)}
================================================================================
