---------------------------- MODULE MCSiteReleases ----------------------------
(***************************************************************************)
(* Two editions of one site, on which alone both of them live.             *)
(***************************************************************************)
EXTENDS SiteReleases

CONSTANTS e1, e2

MCTwoEditions == {e1, e2}
MCOneRevised == [e \in MCTwoEditions |-> IF e = e1 THEN 2 ELSE 1]
===============================================================================
