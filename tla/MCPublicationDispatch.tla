------------------------ MODULE MCPublicationDispatch ------------------------
(***************************************************************************)
(* Two calls of the dispatcher over the plans of an edition of one site or *)
(* of two.  With two sites no call is cut off and nobody publishes by hand *)
(***************************************************************************)
EXTENDS PublicationDispatch

CONSTANTS a, b, first, second

MCSites == {a, b}
MCOneOrTwoSites == {{a}, {a, b}}
MCOnceWithOneSite == [m \in MCOneOrTwoSites |-> IF m = {a} THEN 1 ELSE 0]
MCCalls == {first, second}
MCTwoWorkers == [c \in MCCalls |-> IF c = first THEN "worker-1" ELSE "worker-2"]
===============================================================================
