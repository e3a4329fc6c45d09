------------------------- MODULE PublicationDispatch -------------------------
(***************************************************************************)
(* Scheduled publishing of one edition.  A request schedules the edition   *)
(* for every site it is assigned to, one plan for each.  Once a minute a   *)
(* worker calls dispatchDuePublicationPlans; a call settles the running    *)
(* plans whose operation has ended, takes over the claims of calls that    *)
(* stopped half way, and claims the plans that are due.  A claim is a      *)
(* compare-and-swap on the plan's revision and is good for a lease; the    *)
(* caller then submits a publish operation, whose idempotency key depends  *)
(* on the edition's state, and attaches it to the plan.                    *)
(*                                                                         *)
(* A call makes its database calls one by one and goes on where it stands  *)
(* even if its lease has lapsed and another call has taken the plan over.  *)
(***************************************************************************)
EXTENDS Integers, Sequences, FiniteSets, Functions

CONSTANTS Sites,
          Assignments,    \* the sets of sites the edition may be assigned to
          MaxRequests,    \* bound on the requests; a later one is scheduled later
          Calls,          \* calls that may be in progress at a time
          WorkerOf,       \* the worker id each call passes
          SettleLimit,    \* rows a call reads to settle
          Limit,          \* rows a call reads to take over, and to claim
          MaxOperations,  \* bound on the publish operations of the edition
          \* Bounds for each assignment: on the operations submitted without a plan,
          \* and on calls cut off, errors and overlong calls.
          MaxDirect, MaxFaults

ASSUME PublicationDispatchAssumption ==
  /\ {MaxRequests, SettleLimit, Limit, MaxOperations} \subseteq Nat \ {0}
  /\ Assignments \subseteq SUBSET Sites
  /\ {MaxDirect, MaxFaults} \subseteq [Assignments -> Nat]
  /\ IsFiniteSet(Calls) /\ WorkerOf \in [Calls -> STRING]

Requests == 1..MaxRequests
Plans == Requests \X Sites
SiteOf(p) == p[2]
NoPlan == <<>>

\* A publish operation and the release it makes have the same number.
OperationIds == 1..MaxOperations
None == 0

VARIABLES members,  \* the sites the edition is assigned to
          plan,     \* the publication_plans table
          op,       \* publish operations of the edition, in order of submission
          edition,  \* workflow status and compiledRelease of its latest version
          row,      \* its edition_sites rows
          clock,    \* the requests up to this one are due
          call,     \* where each call stands
          faults

content == <<members, edition, row>>
vars == <<members, plan, op, content, clock, call, faults>>

Workers == {WorkerOf[c] : c \in Calls}
Nobody == ""

Statuses == {"absent", "pending", "running", "succeeded", "failed", "cancelled"}
PlanRows == [status: Statuses, revision: Nat, operation: {None} \cup OperationIds,
             holder: Workers \cup {Nobody}, lapsed: BOOLEAN]
Unplanned == [status |-> "absent", revision |-> 0, holder |-> Nobody, lapsed |-> FALSE,
              operation |-> None]

Editions == [status: {"draft", "approved", "compiled", "published"},
             compiled: {None} \cup OperationIds]
SiteRows == [published: BOOLEAN, release: {None} \cup OperationIds]

\* by is the plan on whose behalf the operation was created, if any.
Keys == [site: Sites, release: {None} \cup OperationIds, retry: {None} \cup OperationIds]
Operations == [key: Keys, by: Plans \cup {NoPlan},
               state: {"queued", "compiled", "succeeded", "failed"}]
Ids == DOMAIN op
Ended(i) == op[i].state \in {"succeeded", "failed"}

\* todo holds the rows of the plans the call has read and not handled yet; plan, row,
\* seen and found are its locals while it works on one of them.
Phases == {"idle", "settle", "resume", "due"}
Steps == {"next", "reread", "look", "read", "submit", "record", "recover"}
RowsRead == [status: Statuses, revision: Nat, operation: {None} \cup OperationIds]
CallStates(S) == [phase: Phases, todo: S, step: Steps, plan: Plans \cup {NoPlan},
                  row: RowsRead, seen: Editions, found: {None} \cup OperationIds]

AsRead(p) == [status |-> plan[p].status, revision |-> plan[p].revision,
              operation |-> plan[p].operation]
NoRow == [status |-> "absent", revision |-> 0, operation |-> None]
NotRead == [status |-> "draft", compiled |-> None]
Resting == [phase |-> "idle", todo |-> << >>, step |-> "next", plan |-> NoPlan,
            row |-> NoRow, seen |-> NotRead, found |-> None]

\* A plan is claimed, attached and settled once, and claimed again once for each fault.
TypeOK ==
  /\ members \in Assignments
  /\ plan \in [Plans -> PlanRows]
  /\ \A p \in Plans : plan[p].revision <= 3 + MaxFaults[members]
  /\ Len(op) <= MaxOperations /\ \A i \in Ids : op[i] \in Operations
  /\ edition \in Editions
  /\ row \in [Sites -> SiteRows]
  /\ clock \in 0..MaxRequests
  /\ \A c \in Calls : /\ call[c] \in CallStates({call[c].todo})
                      /\ DOMAIN call[c].todo \subseteq Plans
                      /\ \A p \in DOMAIN call[c].todo : call[c].todo[p] \in RowsRead
  /\ faults \in 0..MaxFaults[members]

Init ==
  /\ members \in Assignments
  /\ plan = [p \in Plans |-> Unplanned]
  /\ op = <<>>
  /\ edition = [status |-> "approved", compiled |-> None]
  /\ row = [s \in Sites |-> [published |-> FALSE, release |-> None]]
  /\ clock = 0
  /\ call = [c \in Calls |-> Resting]
  /\ faults = 0

(***************************************************************************)
(* Requests and time.                                                      *)
(***************************************************************************)
\* handlePublicationPlanPost, create: one transaction inserts a plan for every site.
Create(r) ==
  /\ \A s \in members : plan[<<r, s>>].status = "absent"
  /\ edition.status \in {"approved", "compiled"}
  /\ plan' = [p \in Plans |-> IF p \in {r} \X members THEN [plan[p] EXCEPT !.status = "pending"]
                             ELSE plan[p]]
  /\ UNCHANGED <<op, content, clock, call, faults>>

\* handlePublicationPlanPost, cancel.
Cancellable(p) == plan[p].status = "pending"

Cancel(p) ==
  /\ Cancellable(p)
  /\ plan' = [plan EXCEPT ![p].status = "cancelled", ![p].revision = @ + 1]
  /\ UNCHANGED <<op, content, clock, call, faults>>

Tick ==
  /\ clock < MaxRequests
  /\ clock' = clock + 1
  /\ UNCHANGED <<plan, op, content, call, faults>>

\* A claim is resumable 30 s after the time its caller was called at.  That it becomes
\* so under a caller at work is a fault; that it does when nobody works on it is not.
Held(p) == \E c \in Calls : call[c].plan = p

Lapse(p) ==
  /\ plan[p].status = "running" /\ plan[p].operation = None /\ ~plan[p].lapsed
  /\ \/ ~Held(p) /\ UNCHANGED faults
     \/ Held(p) /\ faults < MaxFaults[members] /\ faults' = faults + 1
  /\ plan' = [plan EXCEPT ![p].lapsed = TRUE]
  /\ UNCHANGED <<op, content, clock, call>>

(***************************************************************************)
(* Publish operations: their submission, and what they do to the edition   *)
(* (in detail in SiteReleases).                                            *)
(***************************************************************************)
\* Other attempts at an operation come out as one of these.
Failures(s) == {i \in Ids : op[i].key.site = s /\ op[i].state = "failed"}
LastOf(S) == IF S = {} THEN None ELSE CHOOSE i \in S : \A j \in S : j <= i

\* submitEditionPublishOperation: what it may go on with, and the key it makes of it.
Publishable(seen, s) ==
  \/ seen.status = "approved"
  \/ seen.status = "compiled"
  \/ seen.status = "published" /\ ~row[s].published

KeyOf(seen, s) == [site |-> s, release |-> seen.compiled,
                   retry |-> IF seen.status = "published" THEN LastOf(Failures(s)) ELSE None]

WithKey(key) == {i \in Ids : op[i].key = key}

\* submitWithinTx: an operation with the key is answered, or else a new one is queued.
Submit(key, p) ==
  IF WithKey(key) # {} THEN UNCHANGED op
  ELSE /\ Len(op) < MaxOperations
       /\ op' = Append(op, [key |-> key, by |-> p, state |-> "queued"])
SubmittedId(key) == IF WithKey(key) # {} THEN LastOf(WithKey(key)) ELSE Len(op) + 1

\* A publisher publishes by hand.
PublishNow(s) ==
  /\ Cardinality({i \in Ids : op[i].by = NoPlan}) < MaxDirect[members]
  /\ s \in members /\ Publishable(edition, s)
  /\ WithKey(KeyOf(edition, s)) = {}
  /\ Submit(KeyOf(edition, s), NoPlan)
  /\ UNCHANGED <<plan, content, clock, call, faults>>

\* createDraftFromPublished: the edition is edited again and not approved any more.
StartEditing ==
  /\ edition.status = "published"
  /\ edition' = [status |-> "draft", compiled |-> None]
  /\ UNCHANGED <<members, plan, op, row, clock, call, faults>>

SetState(i, state) == op' = [op EXCEPT ![i].state = state]

\* recordCompileResult.
Compile(i) ==
  LET s == op[i].key.site
  IN /\ i \in Ids /\ op[i].state = "queued"
     /\ edition.status # "draft"
     /\ SetState(i, "compiled")
     /\ edition' = [status |-> IF edition.status = "approved" THEN "compiled" ELSE edition.status,
                    compiled |-> i]
     /\ row' = [row EXCEPT ![s] = [published |-> FALSE, release |-> i]]
     /\ UNCHANGED <<members, plan, clock, call, faults>>

\* recordPublishedRelease, and the completion of the operation.
Register(i) ==
  LET s == op[i].key.site
  IN /\ i \in Ids /\ op[i].state = "compiled"
     /\ row[s].release = i
     /\ edition.status \in {"compiled", "published"}
     /\ SetState(i, "succeeded")
     /\ row' = [row EXCEPT ![s].published = TRUE]
     /\ edition' = [edition EXCEPT !.status = "published"]
     /\ UNCHANGED <<members, plan, clock, call, faults>>

FailOperation(i) ==
  /\ i \in Ids /\ ~Ended(i)
  /\ SetState(i, "failed")
  /\ UNCHANGED <<plan, content, clock, call, faults>>

(***************************************************************************)
(* A call of dispatchDuePublicationPlans.                                  *)
(***************************************************************************)
Running == {p \in Plans : plan[p].status = "running"}
Pending == {p \in Plans : plan[p].status = "pending" /\ p[1] <= clock}

\* The rows a query with a limit may return: of the running plans any, of the due ones
\* those scheduled first.
Page(S, limit) ==
  {T \in SUBSET S : Cardinality(T) = IF Cardinality(S) < limit THEN Cardinality(S) ELSE limit}
FirstPage(S, limit) == {T \in Page(S, limit) : \A p \in T, q \in S \ T : p[1] <= q[1]}

Turn(c, phase, T) == call' = [call EXCEPT ![c] = [Resting EXCEPT !.phase = phase, !.todo = [p \in T |-> AsRead(p)]]]
Here(c, step) == call[c].phase # "idle" /\ call[c].step = step
GoTo(c, step) == call' = [call EXCEPT ![c].step = step]
\* On to the next plan of the loop.
Leave(c) == call' = [call EXCEPT ![c] = [Resting EXCEPT !.phase = call[c].phase, !.todo = call[c].todo]]
Without(c, p) == Restrict(call[c].todo, DOMAIN call[c].todo \ {p})

Begin(c) ==
  /\ call[c].phase = "idle"
  /\ \E T \in Page(Running, SettleLimit) :
       Turn(c, "settle", {p \in T : plan[p].operation # None})
  /\ UNCHANGED <<plan, op, content, clock, faults>>

\* A claim without operation whose lease has lapsed may be taken over.
\* (Variants named after a mistake, like the next two, are used by no action: they are
\* the mutations the properties are tested against.)
AnyClaim(p) == plan[p].operation = None
NoTakeover(p) == FALSE
Resumable(p) == plan[p].operation = None /\ plan[p].lapsed

Advance(c) ==
  /\ Here(c, "next") /\ DOMAIN call[c].todo = {}
  /\ \/ /\ call[c].phase = "settle"
        /\ \E T \in Page(Running, Limit) : Turn(c, "resume", {p \in T : Resumable(p)})
     \/ /\ call[c].phase = "resume"
        /\ \E T \in FirstPage(Pending, Limit) : Turn(c, "due", T)
     \/ /\ call[c].phase = "due"
        /\ call' = [call EXCEPT ![c] = Resting]
  /\ UNCHANGED <<plan, op, content, clock, faults>>

\* The compare-and-swap of claimPlan and updatePlan against a row read before: a claim
\* expects the status that was read, every other write a running plan.
Whatever(p, old, status) == TRUE
Unchanged(p, old, status) == plan[p].revision = old.revision /\ plan[p].status = status
Update(p, old, status, new) ==
  plan' = IF Unchanged(p, old, status)
            THEN [plan EXCEPT ![p] = [new EXCEPT !.revision = old.revision + 1]]
          ELSE plan
With(p, status) == [plan[p] EXCEPT !.status = status]

\* settleRunningPlans: a plan ends as its operation did.
Verdict(i) == op[i].state

Settle(c, p) ==
  LET old == call[c].todo[p]
  IN /\ Here(c, "next") /\ call[c].phase = "settle"
     /\ p \in DOMAIN call[c].todo
     /\ \/ Ended(old.operation) /\ Update(p, old, "running", With(p, Verdict(old.operation)))
        \/ ~Ended(old.operation) /\ UNCHANGED plan
     /\ call' = [call EXCEPT ![c].todo = Without(c, p)]
     /\ UNCHANGED <<op, content, clock, faults>>

\* claimPlan.
Claim(c, p) ==
  LET old == call[c].todo[p]
  IN /\ Here(c, "next") /\ call[c].phase \in {"resume", "due"}
     /\ p \in DOMAIN call[c].todo
     /\ Update(p, old, old.status,
               [With(p, "running") EXCEPT !.holder = WorkerOf[c], !.lapsed = FALSE])
     /\ call' = [call EXCEPT ![c].todo = Without(c, p),
                             ![c].step = IF Unchanged(p, old, old.status) THEN "reread" ELSE "next",
                             ![c].plan = IF Unchanged(p, old, old.status) THEN p ELSE NoPlan]
     /\ UNCHANGED <<op, content, clock, faults>>

\* The plan is read again: only its holder goes on, with the row as it is by now.
HoldsPlan(c) == plan[call[c].plan].holder = WorkerOf[c]

Reread(c) ==
  /\ Here(c, "reread")
  /\ \/ HoldsPlan(c) /\ call' = [call EXCEPT ![c].step = "look", ![c].row = AsRead(call[c].plan)]
     \/ ~HoldsPlan(c) /\ Leave(c)
  /\ UNCHANGED <<plan, op, content, clock, faults>>

\* attachPublishOperation: an operation attached meanwhile is the answer; a requester
\* who does not exist any more is an error.
Attached(c) == plan[call[c].plan].operation # None
FailPlan(c) ==
  Update(call[c].plan, call[c].row, "running", With(call[c].plan, "failed"))

Look(c) ==
  /\ Here(c, "look")
  /\ \/ Attached(c) /\ Leave(c) /\ UNCHANGED plan
     \/ ~Attached(c) /\ GoTo(c, "read") /\ UNCHANGED plan
     \/ ~Attached(c) /\ FailPlan(c) /\ Leave(c)
  /\ UNCHANGED <<op, content, clock, faults>>

\* submitEditionPublishOperation: the reads, and then the submission in a transaction of
\* its own.
Read(c) ==
  /\ Here(c, "read")
  /\ IF Publishable(edition, SiteOf(call[c].plan))
       THEN call' = [call EXCEPT ![c].step = "submit", ![c].seen = edition]
       ELSE GoTo(c, "recover")
  /\ UNCHANGED <<plan, op, content, clock, faults>>

\* An error of either write, before or after its effect, leads to the catch block.
SubmitFor(c) ==
  LET key == KeyOf(call[c].seen, SiteOf(call[c].plan))
  IN /\ Here(c, "submit")
     /\ \/ /\ Submit(key, call[c].plan)
           /\ call' = [call EXCEPT ![c].step = "record", ![c].seen = NotRead,
                                      ![c].found = SubmittedId(key)]
           /\ UNCHANGED faults
        \/ /\ faults < MaxFaults[members] /\ faults' = faults + 1
           /\ Submit(key, call[c].plan) \/ UNCHANGED op
           /\ call' = [call EXCEPT ![c].step = "recover", ![c].seen = NotRead]
     /\ UNCHANGED <<plan, content, clock>>

Attach(c) == Update(call[c].plan, call[c].row, "running",
                    [plan[call[c].plan] EXCEPT !.operation = call[c].found])

Record(c) ==
  /\ Here(c, "record")
  /\ \/ Attach(c) /\ Leave(c) /\ UNCHANGED faults
     \/ /\ faults < MaxFaults[members] /\ faults' = faults + 1
        /\ Attach(c) \/ UNCHANGED plan
        /\ call' = [call EXCEPT ![c].step = "recover", ![c].found = None]
  /\ UNCHANGED <<op, content, clock>>

\* The catch block.
Recover(c) ==
  /\ Here(c, "recover")
  /\ \/ Attached(c) /\ UNCHANGED plan
     \/ ~Attached(c) /\ FailPlan(c)
  /\ Leave(c)
  /\ UNCHANGED <<op, content, clock, faults>>

\* The server dies, or an error outside the try block ends the call.
CutOff(c) ==
  /\ call[c].phase # "idle"
  /\ faults < MaxFaults[members]
  /\ faults' = faults + 1
  /\ call' = [call EXCEPT ![c] = Resting]
  /\ UNCHANGED <<plan, op, content, clock>>

Step(c) ==
  \/ Advance(c) \/ Reread(c) \/ Look(c) \/ Read(c) \/ SubmitFor(c) \/ Record(c) \/ Recover(c)
  \/ \E p \in Plans : Settle(c, p) \/ Claim(c, p)

Next ==
  \/ \E r \in Requests : Create(r)
  \/ \E p \in Plans : Cancel(p) \/ Lapse(p)
  \/ \E s \in Sites : PublishNow(s)
  \/ \E i \in OperationIds : Compile(i) \/ Register(i) \/ FailOperation(i)
  \/ \E c \in Calls : Begin(c) \/ Step(c) \/ CutOff(c)
  \/ Tick \/ StartEditing

\* The queue calls once a minute and a call takes its steps; time passes, and so does a
\* lease nobody works under; every operation ends (OperationDelivery).
Fairness ==
  /\ WF_vars(Tick)
  /\ WF_vars(\E c \in Calls : Begin(c))
  /\ \A c \in Calls : WF_vars(Step(c))
  /\ \A p \in Plans : WF_vars(~Held(p) /\ Lapse(p))
  /\ \A i \in OperationIds : WF_vars(Compile(i) \/ Register(i) \/ FailOperation(i))

Spec == Init /\ [][Next]_vars
FairSpec == Spec /\ Fairness

(***************************************************************************)
(* Properties.                                                             *)
(***************************************************************************)
CreatedFor(p) == {i \in Ids : op[i].by = p}

\* A cancellation that was confirmed holds: no operation was or will be created for the
\* plan, though a call may have read it as due before.
CancelledNeverSubmitted == \A p \in Plans : plan[p].status = "cancelled" => CreatedFor(p) = {}

\* A plan ends as the operation attached to it did, whichever call reads or writes the
\* plan late.
SettledAsItsOperation ==
  \A p \in Plans :
    /\ plan[p].status = "succeeded" =>
         plan[p].operation # None /\ op[plan[p].operation].state = "succeeded"
    /\ plan[p].status = "failed" /\ plan[p].operation # None =>
         op[plan[p].operation].state = "failed"

\* However calls overlap, each operation created for a plan beyond the first costs a
\* fault: a call cut off, or one that outlives its lease.
ExtraOperationsNeedFaults == \A p \in Plans : Cardinality(CreatedFor(p)) <= 1 + faults

\* Plans and the operations made for them agree, whoever holds a claim.
PlansAgree == CancelledNeverSubmitted /\ SettledAsItsOperation /\ ExtraOperationsNeedFaults

\* docs/development-plan.md:121, running plans recover and end: every plan does, in
\* spite of calls that are cut off and leases that lapse.
EveryPlanEnds ==
  \A p \in Plans :
    plan[p].status = "pending" ~> plan[p].status \in {"succeeded", "failed", "cancelled"}
===============================================================================
