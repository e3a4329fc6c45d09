------------------------- MODULE MCReleasePublication -------------------------
(***************************************************************************)
(* Two releases, two builds and two workers.  Build full has a page object *)
(* that build short, compiled after the page left the snapshot, no longer  *)
(* lists; object 2 (the route index) differs between the two.              *)
(***************************************************************************)
EXTENDS ReleasePublicationRefinement, TLC

CONSTANTS full, short, page, routesFull, routesShort, r1, r2, w1, w2

MCReleases == {r1, r2}
MCBuilds == {full, short}
MCBodies == {page, routesFull, routesShort}
MCBodyOf == (full :> <<page, routesFull>>) @@ (short :> <<Absent, routesShort>>)
MCWorkers == {w1, w2}

\* Neither the workers nor the release ids are ordered or named by anything.
MCSymmetry == Permutations(MCWorkers) \cup Permutations(MCReleases)
===============================================================================
