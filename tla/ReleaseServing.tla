---------------------------- MODULE ReleaseServing ----------------------------
(***************************************************************************)
(* What the artifact store of a site promises its readers (ADR 005): a     *)
(* release becomes complete once, with one content, and from then on stays *)
(* as it is; the site serves nothing at first and afterwards always one    *)
(* complete release, switched in a single step.                            *)
(***************************************************************************)
CONSTANTS Releases, Builds, None

VARIABLES complete,  \* keys (release and build) that may be served
          serving    \* the key being served, or None

Keys == [release: Releases, build: Builds]
abstractVars == <<complete, serving>>

Init == complete = {} /\ serving = None

Complete(k) ==
  /\ \A c \in complete : c.release # k.release
  /\ complete' = complete \cup {k}
  /\ UNCHANGED serving

Serve(k) ==
  /\ k \in complete
  /\ serving' = k
  /\ UNCHANGED complete

Next == \E k \in Keys : Complete(k) \/ Serve(k)

Spec == Init /\ [][Next]_abstractVars
===============================================================================
