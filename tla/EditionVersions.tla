---------------------------- MODULE EditionVersions ----------------------------
(***************************************************************************)
(* The versions of one edition.  Every change (an editor's save, a         *)
(* reviewer's decision, a restored version, a generated draft, the         *)
(* receipts of a publication) is a transaction that locks the edition,     *)
(* reads its latest version, checks the request against it and inserts a   *)
(* version that becomes the latest.                                        *)
(*                                                                         *)
(* A client makes a request from the version it has on the screen.  The    *)
(* call may be cut off and sent again, also while the first is still       *)
(* running.  Decisions and restores carry an idempotency key, and their    *)
(* transactions hold an advisory lock of that key from the first.          *)
(***************************************************************************)
EXTENDS Integers, Sequences, FiniteSets

CONSTANTS Requests,
          Attempts   \* the calls a client makes for a request

Kinds == {"save", "generate", "decide", "move", "restore", "redraft", "compile", "advance"}
\* The lane "generating", where an edition can do what it can in "draft", is left out.
Lanes == {"draft", "review", "approved", "archived"}
Statuses == Lanes \cup {"compiled", "published"}

\* What a save sends: its stamp (expectedUpdatedAt, as the console does), or none with the
\* whole text of the screen, or none with fields that no one else is at.
Patches == {"stamped", "whole", "part"}

Keyed == {"decide", "restore"}  \* the kinds with an idempotency key

Initial == "initial"  \* stands for the edition's history so far

ASSUME EditionVersionsAssumption ==
  IsFiniteSet(Requests) /\ Initial \notin Requests /\ Attempts # {}

VARIABLES versions,  \* rows of edition_revisions, in the order of insertion
          latest,    \* the rows flagged latest
          asked,     \* what each request asks for, and from which version
          call,      \* the calls of each request
          answered   \* rows of the idempotency tables: the version a request made

vars == <<versions, latest, asked, call, answered>>

None == 0

\* text holds the saves (or the generation) the text is made of, log the changes of
\* status on the audit log, by the request that made the version.
Row(text, status, revision, log, by) ==
  [text |-> text, status |-> status, revision |-> revision, log |-> log, by |-> by]
Rows == [text: SUBSET Requests, status: Statuses, revision: Nat, log: SUBSET Requests,
         by: Requests \cup {Initial}]

Ids == DOMAIN versions
Calls == Requests \X Attempts
Asks == [kind: Kinds, seen: Nat, lane: Lanes, source: Nat, patch: Patches]
Unasked == [kind |-> "save", seen |-> None, lane |-> "draft", source |-> None,
            patch |-> "stamped"]
Kind(r) == asked[r].kind

TypeOK ==
  /\ \A v \in Ids : versions[v] \in Rows
  /\ latest \subseteq Ids
  /\ asked \in [Requests -> Asks] /\ \A r \in Requests : asked[r].seen \in Ids \cup {None}
  /\ call \in [Calls -> [pc: {"none", "begun", "writing", "refused", "answered"},
                         base: Ids \cup {None}]]
  /\ answered \in [Requests -> Ids \cup {None}]

Init ==
  /\ \E status \in Statuses : versions = <<Row({}, status, 0, {}, Initial)>>
  /\ latest = {1}
  /\ asked = [r \in Requests |-> Unasked]
  /\ call = [c \in Calls |-> [pc |-> "none", base |-> None]]
  /\ answered = [r \in Requests |-> None]

(***************************************************************************)
(* What a request makes of the latest version, base.                       *)
(* (Variants named after a mistake are used by no action.)                 *)
(***************************************************************************)
AnyTime(r, base) == TRUE
NotStale(r, base) ==                           \* expectedUpdatedAt, if it was sent
  asked[r].patch = "stamped" => asked[r].seen = base
AnyRevision(r, base) == TRUE
SameRevision(r, base) ==                       \* expectedRevision
  versions[asked[r].seen].revision = versions[base].revision

Accepts(r, base) ==
  LET status == versions[base].status
  IN CASE Kind(r) = "save" -> NotStale(r, base)
       [] Kind(r) = "generate" -> status = "draft"
       [] Kind(r) = "decide" -> SameRevision(r, base) /\ status # asked[r].lane
       [] Kind(r) = "move" -> status # asked[r].lane
       [] Kind(r) = "restore" -> status = "draft" /\ SameRevision(r, base) /\ NotStale(r, base)
       [] Kind(r) = "redraft" -> status = "published"
       [] Kind(r) = "compile" -> status \in {"approved", "compiled", "published"}
       [] Kind(r) = "advance" -> status = "compiled"

\* transitionEditionWithinTx.
Moved(row, lane, r) ==
  [row EXCEPT !.status = lane, !.revision = @ + 1, !.log = @ \cup {r}]
KeptLog(row, source) == row.log

Made(r, base) ==
  LET row == [versions[base] EXCEPT !.by = r]
      source == versions[asked[r].source]
      screen == versions[asked[r].seen]
  IN CASE Kind(r) = "save" ->
            [row EXCEPT !.text = (IF asked[r].patch = "part" THEN @ ELSE screen.text) \cup {r}]
       [] Kind(r) = "generate" -> [row EXCEPT !.text = {r}]
       [] Kind(r) \in {"decide", "move"} -> Moved(row, asked[r].lane, r)
       [] Kind(r) = "restore" -> [Moved(row, "draft", r) EXCEPT
                                    !.text = source.text, !.log = KeptLog(row, source) \cup {r}]
       [] Kind(r) = "redraft" -> [Moved(row, "draft", r) EXCEPT !.revision = 0]
       [] Kind(r) = "compile" ->
            IF row.status = "approved" THEN Moved(row, "compiled", r) ELSE row
       [] Kind(r) = "advance" -> Moved(row, "published", r)

(***************************************************************************)
(* Clients and transactions.                                               *)
(***************************************************************************)
\* What a kind of request does not send is given one value for all.
AnyLane(kind) == Statuses
LanesOf(kind) == CASE kind = "decide" -> {"approved", "draft"}
                   [] kind = "move" -> Lanes
                   [] OTHER -> {"draft"}
SourcesOf(kind) == IF kind = "restore" THEN Ids ELSE {1}
ScreensOf(kind) == IF kind \in {"save", "decide", "restore"} THEN latest ELSE {1}
PatchesOf(kind) == IF kind = "save" THEN Patches ELSE {"stamped"}

Ask(r) ==
  /\ asked[r] = Unasked
  /\ \E kind \in Kinds :
     \E v \in ScreensOf(kind), lane \in LanesOf(kind), source \in SourcesOf(kind),
        patch \in PatchesOf(kind) :
       asked' = [asked EXCEPT ![r] = [kind |-> kind, seen |-> v, lane |-> lane,
                                      source |-> source, patch |-> patch]]
  /\ UNCHANGED <<versions, latest, call, answered>>

InTransaction == {"begun", "writing"}
KeyAlwaysFree(r) == TRUE
KeyFree(r) == \A a \in Attempts : call[<<r, a>>].pc \notin InTransaction
EditionFree == \A c \in Calls : call[c].pc # "writing"
To(c, pc) == call' = [call EXCEPT ![c] = [pc |-> pc, base |-> None]]

IsNext(r, a) == call[<<r, a>>].pc = "none" /\ asked[r] # Unasked

\* The advisory lock, and the look-up of the key.
Begin(r, a) ==
  /\ IsNext(r, a) /\ Kind(r) \in Keyed
  /\ KeyFree(r)
  /\ \/ answered[r] # None /\ To(<<r, a>>, "answered")
     \/ answered[r] = None /\ To(<<r, a>>, "begun")
  /\ UNCHANGED <<versions, latest, asked, answered>>

\* loadCurrentVersion and the checks.
Read(r, a) ==
  LET c == <<r, a>>
  IN /\ call[c].pc = "begun" \/ (IsNext(r, a) /\ Kind(r) \notin Keyed)
     /\ EditionFree
     /\ \E base \in latest :
          \/ Accepts(r, base) /\ call' = [call EXCEPT ![c] = [pc |-> "writing", base |-> base]]
          \/ ~Accepts(r, base) /\ To(c, "refused")
     /\ UNCHANGED <<versions, latest, asked, answered>>

Commit(r, a) ==
  LET c == <<r, a>>
      base == call[c].base
      new == Len(versions) + 1
  IN /\ call[c].pc = "writing"
     /\ versions' = Append(versions, Made(r, base))
     /\ latest' = (latest \ {base}) \cup {new}
     /\ answered' = IF Kind(r) \in Keyed
                      THEN [answered EXCEPT ![r] = new] ELSE answered
     /\ To(c, "answered")
     /\ UNCHANGED asked

\* The process or its connection dies: the transaction is rolled back, its locks go, and
\* the client may call again.
Lose(r, a) ==
  /\ call[<<r, a>>].pc \in InTransaction
  /\ To(<<r, a>>, "none")
  /\ UNCHANGED <<versions, latest, asked, answered>>

Next == \E r \in Requests :
          \/ Ask(r)
          \/ \E a \in Attempts : Begin(r, a) \/ Read(r, a) \/ Commit(r, a) \/ Lose(r, a)

Spec == Init /\ [][Next]_vars

(***************************************************************************)
(* Properties.                                                             *)
(***************************************************************************)
By(v) == versions[v].by
MadeBy(v, kinds) == By(v) # Initial /\ Kind(By(v)) \in kinds

\* An edition has one latest version at every time, and every change of its status that
\* took effect is on that version's audit log, whatever was restored or drafted anew.
LatestHasTheWholeRecord ==
  /\ Cardinality(latest) = 1
  /\ \A v \in latest : \A i \in Ids :
       MadeBy(i, {"decide", "move", "restore", "redraft", "advance"}) => By(i) \in versions[v].log

\* architecture.md:51, optimistic locking instead of collaborative editing, as far as the
\* code has it: an accepted save is in every later text, until a restore or a generated
\* draft replaces the text, or a save whose client sent no stamp overwrites it with a text
\* from before it.  A stamped save, as the console's are, loses nothing.
\* (A generated draft replaces saves its prompt never saw: it is checked for nothing.)
Overwrites(j, i) ==
  \/ MadeBy(j, {"restore", "generate"})
  \/ MadeBy(j, {"save"}) /\ asked[By(j)].patch = "whole" /\ asked[By(j)].seen < i

EditsSurvive ==
  \A i \in Ids : MadeBy(i, {"save"}) =>
    \A v \in i..Len(versions) :
      By(i) \in versions[v].text \/ \E j \in (i + 1)..v : Overwrites(j, i)

NothingAcceptedIsLost == LatestHasTheWholeRecord /\ EditsSurvive

\* No other decision came between the version a reviewer saw and the decision, save in
\* another round: a new draft of a published edition starts again at revision 0.
DecisionsFollowWhatWasSeen ==
  \A j \in Ids : MadeBy(j, {"decide"}) =>
    LET between == {k \in Ids : asked[By(j)].seen < k /\ k < j}
    IN \/ \E k \in between : MadeBy(k, {"redraft"})
       \/ \A k \in between : MadeBy(k, {"save", "generate", "compile"})
                             /\ versions[k].log = versions[asked[By(j)].seen].log

\* admin-operations-ux-spec.md:79, a repeated successful request only replays the first
\* answer: no call is refused once another call of its request succeeded, and a keyed
\* request takes effect once.
RetryIsReplayed ==
  [][\A r \in Requests : answered[r] # None
       => /\ answered'[r] = answered[r]
          /\ \A a \in Attempts : call'[<<r, a>>].pc = "refused"
                                    => call[<<r, a>>].pc = "refused"]_vars
===============================================================================
