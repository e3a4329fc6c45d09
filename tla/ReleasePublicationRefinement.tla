--------------------- MODULE ReleasePublicationRefinement ---------------------
(***************************************************************************)
(* The refinement of ReleaseServing by ReleasePublication: a release       *)
(* counts as complete when its manifest is stored beside every object it   *)
(* lists, and the site serves the key its pointer names.                   *)
(***************************************************************************)
EXTENDS ReleasePublication

CompleteKeys == {k \in Keys : ReleaseComplete(k)}
ServedKey == IF pointer = None THEN None ELSE pointer.key

Serving == INSTANCE ReleaseServing WITH complete <- CompleteKeys, serving <- ServedKey

\* publishRelease and rollbackRelease, interleaved call by call, implement the
\* atomic switch between complete immutable releases that readers rely on.
ImplementsServing == Serving!Spec
===============================================================================
