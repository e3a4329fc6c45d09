----------------------------- MODULE SiteReleases -----------------------------
(***************************************************************************)
(* The releases of one site across the control plane and the worker: the   *)
(* editions assigned to the site, the publish, takedown and rollback       *)
(* operations queued for it, the release registry, and the site's pointer. *)
(*                                                                         *)
(* A release carries the whole site: every attempt at a publish operation  *)
(* compiles the snapshot of the site's current members anew.  Removing a   *)
(* published edition (a takedown) queues a publish operation of its own,   *)
(* which re-releases the site without it.  The artifact store is taken at  *)
(* the grain ReleaseServing promises: a release has at most one content,   *)
(* and the pointer moves by compare-and-swap.                              *)
(***************************************************************************)
EXTENDS Integers, Sequences, FiniteSets

CONSTANTS Editions,
          SoleSite,       \* editions assigned to no other site
          MaxOperations,  \* bound on the operations submitted
          MaxVersions,    \* bound on the approved versions of each edition
          Slots,          \* operations run at a time: workers, as the queue
                          \* gives each worker one publish job
          MaxAttempts,    \* attempts before an operation is given up
          MaxUpsets       \* bound on interrupted attempts and revised editions together

ASSUME SiteReleasesAssumption ==
  /\ IsFiniteSet(Editions) /\ SoleSite \subseteq Editions
  /\ {MaxOperations, Slots, MaxAttempts} \subseteq Nat \ {0}
  /\ MaxVersions \in [Editions -> Nat \ {0}]
  /\ MaxUpsets \in Nat

\* Operations are numbered as they are submitted; the release id of a publish
\* operation is derived from the operation's, so the number stands for both.
OperationIds == 1..MaxOperations
NoRelease == 0
Elsewhere == -1          \* a release of another site
ReleaseIds == 0..MaxOperations

\* What a release is made of: the version of each edition it shows (0: not shown),
\* and the content time of the edition whose publication was asked for.
Plans == [pages: [Editions -> Nat], clock: Nat]
Unplanned == [pages |-> [e \in Editions |-> 0], clock |-> 0]
Shows(plan, e) == plan.pages[e] > 0

VARIABLES status,    \* workflow status of each edition
          compiled,  \* compiledRelease of its latest version
          version,   \* number of approved versions so far
          row,       \* its row in edition_sites for this site
          url,       \* its URL record on this site
          assessed,  \* whether its assessment for this site has passed
          op,        \* the operations ledger of the site
          registry,  \* rows of the releases table, by id
          stored,    \* the content stored for each release
          pointer,   \* the release the site's pointer names
          faults,    \* history: attempts interrupted so far
          reused     \* history: editions removed under a key already used

edition == <<status, compiled, version, row, url, assessed>>
remote == <<stored, pointer>>
history == <<faults, reused>>
vars == <<edition, op, registry, remote, history>>

Rows == [state: {"absent", "pending", "published", "unpublished"}, release: ReleaseIds]
Row(state, release) == [state |-> state, release |-> release]

Kinds == {"publish", "takedown", "rollback"}
Steps == {"idle", "compile", "record", "store", "swap", "register",
          "consume", "inspect", "confirm", "complete"}

\* target is the release the operation makes current, from the one a rollback is to
\* leave; key is the idempotency key; consumed tells whether the intent of a rollback
\* was consumed; recorded are the plans with compile evidence.
Operations ==
  [kind: Kinds, edition: Editions \cup {Elsewhere}, version: Nat,
   key: [version: Nat, release: {Elsewhere} \cup ReleaseIds, retry: 0..MaxOperations],
   target: OperationIds, from: ReleaseIds, state: {"queued", "running", "succeeded", "failed"},
   pc: Steps, plan: Plans, seen: ReleaseIds, attempt: 1..MaxAttempts,
   recorded: SUBSET Plans, consumed: BOOLEAN]

Registered == [release: OperationIds, state: {"current", "superseded", "rolled_back"},
               operation: OperationIds]

Ids == DOMAIN op
RowIds == DOMAIN registry

TypeOK ==
  /\ status \in [Editions -> {"draft", "approved", "compiled", "published"}]
  /\ compiled \in [Editions -> {Elsewhere} \cup ReleaseIds]
  /\ version \in [Editions -> Nat \ {0}] /\ \A e \in Editions : version[e] <= MaxVersions[e]
  /\ row \in [Editions -> Rows]
  /\ url \in [Editions -> {"none", "reserved", "active", "gone"}]
  /\ assessed \in [Editions -> BOOLEAN]
  /\ Len(op) <= MaxOperations /\ \A i \in Ids : op[i] \in Operations
  /\ Len(registry) <= MaxOperations /\ \A k \in RowIds : registry[k] \in Registered
  /\ stored \in [OperationIds -> Plans \cup {Unplanned}]
  /\ pointer \in ReleaseIds
  /\ faults \in 0..MaxUpsets
  /\ reused \subseteq Editions

\* Each edition is approved for this site and not published yet, or published on other
\* sites only.
Init ==
  /\ status \in [Editions -> {"approved", "published"}]
  /\ \A e \in SoleSite : status[e] = "approved"
  /\ compiled = [e \in Editions |-> IF status[e] = "approved" THEN NoRelease ELSE Elsewhere]
  /\ version = [e \in Editions |-> 1]
  /\ row = [e \in Editions |-> Row(IF status[e] = "approved" THEN "pending" ELSE "absent", NoRelease)]
  /\ url = [e \in Editions |-> IF status[e] = "approved" THEN "reserved" ELSE "none"]
  /\ assessed = [e \in Editions |-> status[e] = "approved"]
  /\ op = <<>>
  /\ registry = <<>>
  /\ stored = [i \in OperationIds |-> Unplanned]
  /\ pointer = NoRelease
  /\ faults = 0
  /\ reused = {}

(***************************************************************************)
(* Submission.  An operation whose idempotency key is known is not         *)
(* submitted again; a rollback has a fresh key.                            *)
(***************************************************************************)
Operation(kind, e, key, target, from) ==
  [kind |-> kind, edition |-> e, version |-> IF e = Elsewhere THEN 0 ELSE version[e],
   key |-> key, target |-> target, from |-> from, state |-> "queued", pc |-> "idle",
   plan |-> Unplanned, seen |-> NoRelease, attempt |-> 1, recorded |-> {}, consumed |-> FALSE]

NoKey == [version |-> 0, release |-> NoRelease, retry |-> 0]
NextId == Len(op) + 1
MaxOf(S) == IF S = {} THEN 0 ELSE CHOOSE n \in S : \A m \in S : m <= n

Known(kind, e, key) == \E i \in Ids : op[i].kind = kind /\ op[i].edition = e /\ op[i].key = key

Submit(kind, e, key) ==
  IF Known(kind, e, key)
    THEN UNCHANGED op
    ELSE /\ NextId \in OperationIds
         /\ op' = Append(op, Operation(kind, e, key, NextId, NoRelease))

Member(e) == row[e].state \in {"pending", "published"}

\* submitEditionPublishOperation, for this site: of an approved or compiled edition, or
\* of one published elsewhere whose evaluation for this site has passed.
SubmitPublish(e) ==
  LET failures == {i \in Ids : /\ op[i].kind = "publish" /\ op[i].edition = e
                               /\ op[i].state = "failed"}
      key == [version |-> version[e], release |-> compiled[e],
              retry |-> IF status[e] = "published" THEN MaxOf(failures) ELSE 0]
  IN /\ \/ status[e] = "approved"
        \/ status[e] = "compiled"
        \/ status[e] = "published" /\ row[e].state = "pending" /\ assessed[e]
     /\ Member(e)
     /\ Submit("publish", e, key)
     /\ UNCHANGED <<edition, registry, remote, history>>

(***************************************************************************)
(* Editions and their assignment to the site.                              *)
(***************************************************************************)
Revised == {e \in Editions : status[e] = "draft" \/ version[e] > 1}
MoreUpsets == faults + Cardinality(Revised) < MaxUpsets

\* createDraftFromPublished, and the editing that follows it.
StartEditing(e) ==
  /\ status[e] = "published"
  /\ version[e] < MaxVersions[e] /\ MoreUpsets
  /\ status' = [status EXCEPT ![e] = "draft"]
  /\ compiled' = [compiled EXCEPT ![e] = NoRelease]
  /\ UNCHANGED <<version, row, url, assessed, op, registry, remote, history>>

\* A URL record that is neither reserved nor active becomes reserved.
Reserved(u) == IF u \in {"none", "gone"} THEN "reserved" ELSE u

\* Approval, on a passed assessment, reserves a URL on every desired site.  An edition
\* removed from its only site keeps that site as its desired one.
Approve(e) ==
  /\ status[e] = "draft"
  /\ status' = [status EXCEPT ![e] = "approved"]
  /\ version' = [version EXCEPT ![e] = @ + 1]
  /\ url' = [url EXCEPT ![e] = IF Member(e) \/ e \in SoleSite THEN Reserved(@) ELSE @]
  /\ UNCHANGED <<compiled, row, assessed, op, registry, remote, history>>

\* The evaluation queued by addSite passes.
Evaluate(e) ==
  /\ Member(e) /\ ~assessed[e]
  /\ assessed' = [assessed EXCEPT ![e] = TRUE]
  /\ UNCHANGED <<status, compiled, version, row, url, op, registry, remote, history>>

Takedowns == {i \in Ids : op[i].kind = "takedown"}
LastTakedown(e) == MaxOf({i \in Takedowns : op[i].edition = e})

\* addSite: a removed edition may come back once its takedown has succeeded.
\* (Variants named after a mistake, like the next, are used by no action: they are
\* the mutations the properties are tested against.)
NoTakedownCheck(e) == TRUE
TakedownDone(e) == LastTakedown(e) # 0 /\ op[LastTakedown(e)].state = "succeeded"

AddSite(e) ==
  /\ status[e] = "published"
  /\ \/ row[e].state = "absent"
     \/ row[e].state = "unpublished" /\ TakedownDone(e)
  /\ row' = [row EXCEPT ![e] = Row("pending", NoRelease)]
  /\ url' = [url EXCEPT ![e] = Reserved(@)]
  /\ assessed' = [assessed EXCEPT ![e] = FALSE]
  /\ UNCHANGED <<status, compiled, version, op, registry, remote, history>>

NoRollbackCheck == FALSE
RollbackPending == \E i \in Ids : op[i].kind = "rollback" /\ op[i].state \in {"queued", "running"}

\* removeSite of a published row: one transaction flips the row and the URL and queues
\* the re-release.
RemovePublished(e) ==
  /\ status[e] = "published"
  /\ row[e].state = "published"
  /\ ~RollbackPending
  /\ url[e] = "active"
  /\ url' = [url EXCEPT ![e] = "gone"]
  /\ row' = [row EXCEPT ![e] = Row("unpublished", NoRelease)]
  /\ LET key == [NoKey EXCEPT !.release = row[e].release]
     IN /\ Submit("takedown", e, key)
        /\ reused' = IF Known("takedown", e, key) THEN reused \cup {e} ELSE reused
  /\ UNCHANGED <<status, compiled, version, assessed, registry, remote, faults>>

\* removeSite of any other row, also of one reset by a compilation: the assignment is
\* dropped, and a reserved URL with it.
RemovePending(e) ==
  /\ status[e] = "published"
  /\ row[e].state = "pending"
  /\ url' = [url EXCEPT ![e] = IF @ = "reserved" THEN "none" ELSE @]
  /\ row' = [row EXCEPT ![e] = Row("absent", NoRelease)]
  /\ UNCHANGED <<status, compiled, version, assessed, op, registry, remote, history>>

(***************************************************************************)
(* Rollback intents.                                                       *)
(***************************************************************************)
RowOf(r) == {k \in RowIds : registry[k].release = r}

\* targetPredatesSiteTakedown: the boundary is the first row found that the latest
\* takedown operation wrote last; which one the query finds is not determined.
PredatesTakedown(target) ==
  LET latest == MaxOf(Takedowns)
      boundaries == {k \in RowIds : registry[k].operation = latest}
  IN IF RowOf(target) = {} THEN {TRUE}
     ELSE IF latest = 0 THEN {FALSE}
     ELSE IF boundaries = {} THEN {TRUE}
     ELSE {\E k \in RowOf(target) : k < b : b \in boundaries}

\* handleRollbackIntentPost.
RequestRollback(from, target) ==
  /\ \E k \in RowOf(from) : registry[k].state = "current"
  /\ RowOf(target) # {} /\ target # from
  /\ FALSE \in PredatesTakedown(target)
  /\ NextId \in OperationIds
  /\ op' = Append(op, Operation("rollback", Elsewhere, NoKey, target, from))
  /\ UNCHANGED <<edition, registry, remote, history>>

(***************************************************************************)
(* The worker.  An operation is run from its first step on by every        *)
(* attempt; an attempt that throws is repeated or, at last, gives up.      *)
(***************************************************************************)
At(i, pc) == i \in Ids /\ op[i].pc = pc
GoTo(i, pc) == op' = [op EXCEPT ![i].pc = pc]
FirstStep(i) == IF op[i].kind = "rollback" THEN "consume" ELSE "compile"
Restart(i, pc, attempt) ==
  op' = [op EXCEPT ![i].pc = pc, ![i].attempt = attempt,
                   ![i].plan = Unplanned, ![i].seen = NoRelease]
Finish(i, verdict) ==
  op' = [op EXCEPT ![i].state = verdict, ![i].pc = "idle",
                   ![i].plan = Unplanned, ![i].seen = NoRelease,
                   ![i].attempt = 1, ![i].recorded = {}]
RetriesForever(i) == Restart(i, FirstStep(i), op[i].attempt + 1)
Throw(i) == IF op[i].attempt < MaxAttempts
              THEN Restart(i, FirstStep(i), op[i].attempt + 1)
              ELSE Finish(i, "failed")
FailForGood(i) == Finish(i, "failed")

Busy == Cardinality({i \in Ids : op[i].pc # "idle"})

Begin(i) ==
  /\ At(i, "idle") /\ op[i].state \in {"queued", "running"}
  /\ Busy < Slots
  /\ op' = [op EXCEPT ![i].state = "running", ![i].pc = FirstStep(i)]
  /\ UNCHANGED <<edition, registry, remote, history>>

\* The snapshot shows every member with a URL; while a published edition is being
\* edited, the version its release shows stays.
Selected(e) == /\ Member(e)
               /\ \/ status[e] # "draft" /\ url[e] \in {"reserved", "active"}
                  \/ status[e] = "draft" /\ row[e].state = "published" /\ url[e] = "active"
                     /\ row[e].release # NoRelease

Snapshot == [e \in Editions |-> IF ~Selected(e) THEN 0
                                ELSE IF status[e] = "draft" THEN stored[row[e].release].pages[e]
                                ELSE version[e]]

\* compileAndPlanRelease: the compiler refuses a snapshot with an edition that is not
\* assessed for the site.
Compile(i) ==
  LET e == op[i].edition
      accepted == /\ status[e] # "draft"
                  /\ \A x \in Editions : Selected(x) /\ status[x] # "draft" => assessed[x]
  IN /\ At(i, "compile")
     /\ \/ accepted /\ op' = [op EXCEPT ![i].pc = "record",
                                        ![i].plan = [pages |-> Snapshot, clock |-> version[e]]]
        \/ ~accepted /\ FailForGood(i)
     /\ UNCHANGED <<edition, registry, remote, history>>

\* compileSitePatchOf.
CompiledRow(r, release) ==
  Row(IF r.state = "published" /\ r.release # release THEN "pending" ELSE r.state, release)

\* recordCompileResult.  The first compilation of an approved version resets the row,
\* whatever its state; a later one leaves the row of a removed edition alone.
RecordCompile(i) ==
  LET e == op[i].edition
      recorded == op' = [op EXCEPT ![i].pc = "store", ![i].recorded = @ \cup {op[i].plan}]
      refused == row[e].state = "absent" \/ status[e] = "draft"
      replayed == op[i].plan \in op[i].recorded
  IN /\ At(i, "record")
     /\ \/ refused /\ Throw(i) /\ UNCHANGED edition
        \/ ~refused /\ replayed /\ GoTo(i, "store") /\ UNCHANGED edition
        \/ /\ ~refused /\ ~replayed /\ recorded
           /\ compiled' = [compiled EXCEPT ![e] = i]
           /\ \/ /\ status[e] = "approved"
                 /\ status' = [status EXCEPT ![e] = "compiled"]
                 /\ row' = [row EXCEPT ![e] = Row("pending", i)]
              \/ /\ status[e] # "approved" /\ row[e].state # "unpublished"
                 /\ row' = [row EXCEPT ![e] = CompiledRow(@, i)]
                 /\ UNCHANGED status
              \/ /\ status[e] # "approved" /\ row[e].state = "unpublished"
                 /\ UNCHANGED <<row, status>>
           /\ UNCHANGED <<version, url, assessed>>
     /\ UNCHANGED <<registry, remote, history>>

AnyBytes(content, plan) == TRUE
SameBytes(content, plan) == content = plan

\* publishRelease up to the read of the pointer: a release whose content is stored
\* already only accepts the same bytes; a pointer that names it makes this a replay.
StoreRelease(i) ==
  LET next == op' = [op EXCEPT ![i].seen = pointer,
                               ![i].pc = IF pointer = i THEN "register" ELSE "swap"]
  IN /\ At(i, "store")
     /\ \/ stored[i] = Unplanned /\ stored' = [stored EXCEPT ![i] = op[i].plan] /\ next
        \/ stored[i] # Unplanned /\ SameBytes(stored[i], op[i].plan) /\ next /\ UNCHANGED stored
        \/ stored[i] # Unplanned /\ ~SameBytes(stored[i], op[i].plan) /\ Throw(i) /\ UNCHANGED stored
     /\ UNCHANGED <<edition, registry, pointer, history>>

\* The pointer swap of publishRelease and of rollbackRelease: a pointer that moved is
\* the end of the operation, a first pointer that exists by now is an ordinary error.
SwapPointer(i) ==
  /\ At(i, "swap")
  /\ \/ /\ pointer = op[i].seen /\ pointer' = op[i].target
        /\ GoTo(i, IF op[i].kind = "rollback" THEN "confirm" ELSE "register")
     \/ pointer # op[i].seen /\ op[i].seen = NoRelease /\ Throw(i) /\ UNCHANGED pointer
     \/ pointer # op[i].seen /\ op[i].seen # NoRelease /\ FailForGood(i) /\ UNCHANGED pointer
  /\ UNCHANGED <<edition, registry, stored, history>>

\* updateRelease: the operation that changes a row is recorded on it.
Updated(k, state, i) == [registry[k] EXCEPT !.state = state, !.operation = i]

SupersedesOnly(i) ==
  [k \in RowIds |-> IF registry[k].state = "current" /\ registry[k].release # i
                      THEN Updated(k, "superseded", i)
                    ELSE registry[k]]
Superseding(i) ==
  [k \in RowIds |-> IF registry[k].state = "current" /\ registry[k].release # i
                      THEN Updated(k, "superseded", i)
                    ELSE IF registry[k].release = i /\ registry[k].state # "current"
                      THEN Updated(k, "current", i)
                    ELSE registry[k]]

\* activatePublishedEditionUrl.
Activated(u) == IF u = "reserved" THEN "active" ELSE u

\* recordPublishedRelease, one transaction: the release becomes the current one and the
\* edition is advanced to published, unless its row says it was removed.
RegisterPublished(i) ==
  LET e == op[i].edition
      removed == row[e].state = "unpublished"
      mismatched == ~removed /\ (row[e].state = "absent" \/ row[e].release # i)
      advanced == row[e].state = "published"
      refused == mismatched \/ (~removed /\ ~advanced /\ status[e] \notin {"compiled", "published"})
      inserted == [release |-> i, state |-> "current", operation |-> i]
      register == registry' = IF RowOf(i) = {} THEN Append(Superseding(i), inserted)
                              ELSE Superseding(i)
      activate == url' = [url EXCEPT ![e] = Activated(@)]
  IN /\ At(i, "register") /\ op[i].kind # "rollback"
     /\ \/ refused /\ Throw(i) /\ UNCHANGED <<edition, registry>>
        \/ ~refused /\ removed /\ register /\ GoTo(i, "complete") /\ UNCHANGED edition
        \/ /\ ~refused /\ ~removed
           /\ register /\ activate /\ GoTo(i, "complete")
           /\ row' = [row EXCEPT ![e].state = "published"]
           /\ status' = [status EXCEPT ![e] = IF advanced THEN @ ELSE "published"]
           /\ UNCHANGED <<compiled, version, assessed>>
     /\ UNCHANGED <<remote, history>>

\* consumeRollbackIntent: a consumed intent is accepted again from its own operation,
\* without another look at the takedowns.
ConsumeIntent(i) ==
  /\ At(i, "consume")
  /\ \/ op[i].consumed /\ GoTo(i, "inspect")
     \/ /\ ~op[i].consumed /\ FALSE \in PredatesTakedown(op[i].target)
        /\ op' = [op EXCEPT ![i].consumed = TRUE, ![i].pc = "inspect"]
     \/ ~op[i].consumed /\ TRUE \in PredatesTakedown(op[i].target) /\ Throw(i)
  /\ UNCHANGED <<edition, registry, remote, history>>

\* rollbackRelease: the pointer names the target already, or the expected release.
InspectPointer(i) ==
  /\ At(i, "inspect")
  /\ \/ pointer = op[i].target /\ GoTo(i, "register")
     \/ /\ pointer = op[i].from
        /\ op' = [op EXCEPT ![i].pc = "swap", ![i].seen = pointer]
     \/ pointer \notin {op[i].target, op[i].from} /\ FailForGood(i)
  /\ UNCHANGED <<edition, registry, remote, history>>

ConfirmRollback(i) ==
  /\ At(i, "confirm")
  /\ \/ pointer = op[i].target /\ GoTo(i, "register")
     \/ pointer # op[i].target /\ FailForGood(i)
  /\ UNCHANGED <<edition, registry, remote, history>>

\* recordRollbackReceipt.
RegisterRollback(i) ==
  LET changed(k) ==
        IF registry[k].release = op[i].from /\ registry[k].state # "rolled_back"
          THEN Updated(k, "rolled_back", i)
        ELSE IF registry[k].release = op[i].target /\ registry[k].state # "current"
          THEN Updated(k, "current", i)
        ELSE registry[k]
  IN /\ At(i, "register") /\ op[i].kind = "rollback"
     /\ registry' = [k \in RowIds |-> changed(k)]
     /\ GoTo(i, "complete")
     /\ UNCHANGED <<edition, remote, history>>

Complete(i) ==
  /\ At(i, "complete")
  /\ Finish(i, "succeeded")
  /\ UNCHANGED <<edition, registry, remote, history>>

\* A call of the attempt is lost, or the worker dies and the job waits to be delivered
\* again; the effects of the steps before stay.
Interrupt(i) ==
  /\ i \in Ids /\ ~At(i, "idle")
  /\ MoreUpsets
  /\ faults' = faults + 1 /\ UNCHANGED reused
  /\ Throw(i) \/ Restart(i, "idle", 1)
  /\ UNCHANGED <<edition, registry, remote>>

Next ==
  \/ \E e \in Editions : \/ SubmitPublish(e) \/ StartEditing(e) \/ Approve(e) \/ Evaluate(e)
                         \/ AddSite(e) \/ RemovePublished(e) \/ RemovePending(e)
  \/ \E from, target \in OperationIds : RequestRollback(from, target)
  \/ \E i \in OperationIds :
       \/ Begin(i) \/ Complete(i) \/ Interrupt(i)
       \/ Compile(i) \/ RecordCompile(i) \/ StoreRelease(i) \/ RegisterPublished(i)
       \/ ConsumeIntent(i) \/ InspectPointer(i) \/ ConfirmRollback(i) \/ RegisterRollback(i)
       \/ SwapPointer(i)

Spec == Init /\ [][Next]_vars

(***************************************************************************)
(* Properties.  The concurrency drill of the repository                    *)
(* (my-deploy/e2e-a4-concurrency-drill.sh) checks their like once all      *)
(* operations have ended; here they hold at every step, or name when.      *)
(***************************************************************************)
\* With one worker, as deployed, and as long as no operation of the site failed half way,
\* however its operations were interrupted, delivered again and ordered: between
\* operations one release at most is current, the one the pointer names.  While one runs,
\* a current release that is not served is one it is to supersede or to roll back, and one
\* that is served and not current is its own.
NoneFailed == \A i \in Ids : op[i].state # "failed"
Current == {k \in RowIds : registry[k].state = "current"}
Unfinished == {i \in Ids : op[i].state = "running"}

CurrentReleaseIsServed ==
  Slots = 1 /\ NoneFailed =>
    /\ Unfinished = {} => \A k, l \in Current : k = l
    /\ \A k \in Current \ RowOf(pointer) :
         \E i \in Unfinished : op[i].kind = "rollback" => op[i].from = registry[k].release
    /\ pointer # NoRelease /\ RowOf(pointer) \cap Current = {}
         => \E i \in Unfinished : op[i].target = pointer

\* operations.ts:60-64, no window in which the snapshot of a takedown still has the
\* edition: unless it was approved anew meanwhile, the re-release does not show it.
TakedownReleaseOmits ==
  \A i \in Takedowns :
    op[i].version = version[op[i].edition] => ~Shows(stored[i], op[i].edition)

\* A removal under a key that was used already is not released at all: it finds the
\* operation of the former removal.
Removed(e) == e \notin reused /\ row[e].state = "unpublished" /\ TakedownDone(e)
              /\ op[LastTakedown(e)].version = version[e]

\* Once an edition's takedown has succeeded, no publish operation, an older one that is
\* delivered again included, moves the pointer to a release that shows it, given the one
\* worker.  (With two, one that compiled before the removal may read the pointer after it.)
PublishNeverRestoresRemoved ==
  [][\A i \in Ids :
       Slots = 1 /\ At(i, "swap") /\ op[i].kind # "rollback" /\ pointer' # pointer
         => \A e \in Editions : Removed(e) => ~Shows(stored[pointer'], e)]_vars

\* A rollback only swaps once the last takedown has released: the intent is checked
\* when it is consumed and not again, so none may be queued behind it.
RollbackAfterTakedownReleased ==
  [][\A i \in Ids :
       At(i, "swap") /\ op[i].kind = "rollback" /\ pointer' # pointer /\ Takedowns # {}
         => RowOf(MaxOf(Takedowns)) # {}]_vars
===============================================================================
