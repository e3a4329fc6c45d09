------------------------- MODULE InboxAndPublicationProofs -------------------------
(***************************************************************************)
(* Proofs about what comes in at one end and goes out at the other: the    *)
(* inbox of a tenant (IntakeInbox, for any numbers of calls, workers, rows *)
(* and faults, and any feed) and the publication of releases               *)
(* (ReleasePublication, for every set of releases, builds and workers, any *)
(* number of artifact objects and of rollback calls, with the refinement   *)
(* of ReleaseServing).  The two components share no state, and each part   *)
(* uses the definitions of its own one only.                               *)
(***************************************************************************)
EXTENDS ReleasePublicationRefinement, IntakeInbox, TLAPS, SequenceTheorems, FiniteSetTheorems

(***************************************************************************)
(* ReleasePublication: type correctness.                                   *)
(***************************************************************************)
\* An attempt that ends leaves a well-typed idle worker.
LEMMA StopTyped ==
  ASSUME TasksTyped, NEW w \in Workers, Stop(w)
  PROVE  TasksTyped'
<1>1. Idle \in Tasks /\ TaskShape(Idle)
  BY ReleasePublicationAssumption
  DEF ReleasePublicationAssumption, Idle, Attempt, Tasks, TaskShape, PublishSteps, RollbackSteps
<1> QED BY <1>1 DEF TasksTyped, Stop

\* A worker that becomes a well-typed task leaves all tasks well typed.
LEMMA BecomeTyped ==
  ASSUME TasksTyped, NEW w \in Workers, NEW t, t \in Tasks, TaskShape(t),
         task' = [task EXCEPT ![w] = t]
  PROVE  TasksTyped'
  BY DEF TasksTyped

\* Moving to a step for which the worker already holds what is needed.
LEMMA GoToTyped ==
  ASSUME TasksTyped, NEW w \in Workers, NEW pc \in PublishSteps \cup RollbackSteps,
         GoTo(w, pc), TaskShape([task[w] EXCEPT !.pc = pc])
  PROVE  TasksTyped'
<1>1. [task[w] EXCEPT !.pc = pc] \in Tasks
  BY DEF TasksTyped, Tasks
<1>2. task' = [task EXCEPT ![w] = [task[w] EXCEPT !.pc = pc]]
  BY DEF GoTo
<1> QED BY <1>1, <1>2, BecomeTyped

LEMMA PublishTypedTasks ==
  ASSUME Typed, NEW w \in Workers, Publish(w)
  PROVE  TasksTyped'
<1> USE DEF Typed
<1>t. task[w] \in Tasks /\ TaskShape(task[w])
  BY DEF TasksTyped
<1>1. ASSUME NEW r \in Releases, NEW b \in Builds, StartPublish(w, r, b) PROVE TasksTyped'
  <2> DEFINE t == Attempt("upload", [release |-> r, build |-> b], None, 0)
  <2>1. t \in Tasks /\ TaskShape(t)
    BY ReleasePublicationAssumption
    DEF ReleasePublicationAssumption, Attempt, Tasks, TaskShape, PublishSteps, RollbackSteps, Keys
  <2>2. task' = [task EXCEPT ![w] = t]
    BY <1>1 DEF StartPublish
  <2> QED BY <2>1, <2>2, BecomeTyped
<1>2. ASSUME UploadObject(w) PROVE TasksTyped'
  <2> DEFINE t == [task[w] EXCEPT !.next = task[w].next + 1]
  <2>1. t \in Tasks /\ TaskShape(t)
    BY <1>2, <1>t, ReleasePublicationAssumption
    DEF ReleasePublicationAssumption, UploadObject, At, ObjectIds, Tasks, TaskShape
  <2>2. task' = [task EXCEPT ![w] = t] \/ Stop(w)
    BY <1>2 DEF UploadObject
  <2> QED BY <2>1, <2>2, BecomeTyped, StopTyped
<1>3. ASSUME UploadManifest(w) PROVE TasksTyped'
  <2>1. GoTo(w, "verify") \/ Stop(w)
    BY <1>3 DEF UploadManifest
  <2>2. TaskShape([task[w] EXCEPT !.pc = "verify"])
    BY <1>3, <1>t DEF UploadManifest, At, Tasks, TaskShape, RollbackSteps
  <2> QED BY <2>1, <2>2, GoToTyped, StopTyped DEF PublishSteps
<1>4. ASSUME VerifyRemote(w) PROVE TasksTyped'
  <2>1. GoTo(w, "head") \/ Stop(w)
    BY <1>4 DEF VerifyRemote
  <2>2. TaskShape([task[w] EXCEPT !.pc = "head"])
    BY <1>4, <1>t DEF VerifyRemote, At, Tasks, TaskShape, RollbackSteps
  <2> QED BY <2>1, <2>2, GoToTyped, StopTyped DEF PublishSteps
<1>5. ASSUME HeadPointer(w) PROVE TasksTyped'
  <2> DEFINE t == [task[w] EXCEPT !.seen = pointer,
                                  !.pc = IF pointer = None THEN "create" ELSE "read"]
  <2>1. t \in Tasks /\ TaskShape(t)
    BY <1>5, <1>t DEF HeadPointer, At, TypeOK, Tasks, TaskShape, PublishSteps, RollbackSteps
  <2>2. task' = [task EXCEPT ![w] = t]
    BY <1>5 DEF HeadPointer
  <2> QED BY <2>1, <2>2, BecomeTyped
<1>6. ASSUME CreatePointer(w) \/ SwapPointer(w) PROVE TasksTyped'
  <2>1. GoTo(w, "final") \/ Stop(w)
    BY <1>6 DEF CreatePointer, SwapPointer
  <2>2. TaskShape([task[w] EXCEPT !.pc = "final"])
    BY <1>6, <1>t DEF CreatePointer, SwapPointer, At, Tasks, TaskShape, RollbackSteps
  <2> QED BY <2>1, <2>2, GoToTyped, StopTyped DEF PublishSteps
<1>7. ASSUME ReadPointerBody(w) PROVE TasksTyped'
  <2>1. GoTo(w, "swap") \/ Stop(w)
    BY <1>7 DEF ReadPointerBody, Report
  <2>2. TaskShape([task[w] EXCEPT !.pc = "swap"])
    BY <1>7, <1>t DEF ReadPointerBody, At, Tasks, TaskShape, RollbackSteps
  <2> QED BY <2>1, <2>2, GoToTyped, StopTyped DEF PublishSteps
<1>8. ASSUME FinishPublish(w) PROVE TasksTyped'
  BY <1>8, StopTyped DEF FinishPublish, Report
<1> QED BY <1>1, <1>2, <1>3, <1>4, <1>5, <1>6, <1>7, <1>8 DEF Publish

LEMMA RollbackTypedTasks ==
  ASSUME Typed, NEW w \in Workers, Rollback(w)
  PROVE  TasksTyped'
<1> USE DEF Typed
<1>t. task[w] \in Tasks /\ TaskShape(task[w])
  BY DEF TasksTyped
<1>1. ASSUME NEW from \in Keys, NEW target \in Keys, StartRollback(w, from, target)
      PROVE TasksTyped'
  <2> DEFINE t == Attempt("locate", target, from, rollbacks + 1)
  <2>1. rollbacks + 1 \in 0..MaxRollbacks
    BY <1>1, ReleasePublicationAssumption
    DEF ReleasePublicationAssumption, StartRollback, TypeOK
  <2>2. t \in Tasks /\ TaskShape(t)
    BY <2>1, ReleasePublicationAssumption
    DEF ReleasePublicationAssumption, Attempt, Tasks, TaskShape, PublishSteps, RollbackSteps
  <2>3. task' = [task EXCEPT ![w] = t]
    BY <1>1 DEF StartRollback
  <2> QED BY <2>2, <2>3, BecomeTyped
<1>2. ASSUME LocatePointer(w) PROVE TasksTyped'
  <2> DEFINE t == [task[w] EXCEPT !.seen = pointer, !.pc = "inspect"]
  <2>1. ASSUME pointer # None PROVE t \in Tasks /\ TaskShape(t)
    BY <1>2, <1>t, <2>1
    DEF LocatePointer, At, TypeOK, Tasks, TaskShape, PublishSteps, RollbackSteps
  <2>2. (pointer # None /\ task' = [task EXCEPT ![w] = t]) \/ Stop(w)
    BY <1>2 DEF LocatePointer
  <2> QED BY <2>1, <2>2, BecomeTyped, StopTyped
<1>3. ASSUME InspectTarget(w) PROVE TasksTyped'
  <2>1. GoTo(w, "switch") \/ Stop(w)
    BY <1>3 DEF InspectTarget, Report
  <2>2. TaskShape([task[w] EXCEPT !.pc = "switch"])
    BY <1>3, <1>t DEF InspectTarget, At, Tasks, TaskShape, RollbackSteps
  <2> QED BY <2>1, <2>2, GoToTyped, StopTyped DEF RollbackSteps
<1>4. ASSUME SwitchPointer(w) PROVE TasksTyped'
  <2>1. GoTo(w, "confirm") \/ Stop(w)
    BY <1>4 DEF SwitchPointer
  <2>2. TaskShape([task[w] EXCEPT !.pc = "confirm"])
    BY <1>4, <1>t DEF SwitchPointer, At, Tasks, TaskShape, RollbackSteps
  <2> QED BY <2>1, <2>2, GoToTyped, StopTyped DEF RollbackSteps
<1>5. ASSUME ConfirmRollback(w) PROVE TasksTyped'
  BY <1>5, StopTyped DEF ConfirmRollback, Report
<1> QED BY <1>1, <1>2, <1>3, <1>4, <1>5 DEF Rollback

\* A stopped worker, whoever stops it.
LEMMA TypedTasks ==
  ASSUME Typed, [Next]_vars
  PROVE  TasksTyped'
<1>1. ASSUME NEW w \in Workers, Publish(w) \/ Rollback(w) \/ Abort(w) PROVE TasksTyped'
  BY <1>1, PublishTypedTasks, RollbackTypedTasks, StopTyped DEF Typed, Abort
<1>2. CASE UNCHANGED vars
  BY <1>2 DEF vars, Typed, TasksTyped
<1> QED BY <1>1, <1>2 DEF Next

LEMMA TypeInvariantStep ==
  ASSUME Typed, [Next]_vars
  PROVE  TypeOK'
<1> USE DEF Typed, TypeOK
<1>t. task' \in [Workers -> Tasks]
  BY TypedTasks DEF TasksTyped
<1>1. ASSUME NEW w \in Workers, Publish(w) PROVE TypeOK'
  <2>0. task[w] \in Tasks /\ TaskShape(task[w])
    BY DEF TasksTyped
  <2>1. CASE \E r \in Releases, b \in Builds : StartPublish(w, r, b)
    BY <1>t, <2>1 DEF StartPublish, store
  <2>2. CASE UploadObject(w)
    <3>1. task[w].key \in Keys
      BY <2>0, <2>2 DEF UploadObject, At, TaskShape
    <3>2. object' \in [Releases -> [ObjectIds -> Bodies \cup {Absent}]]
      BY <2>2, <3>1, ReleasePublicationAssumption
      DEF ReleasePublicationAssumption, UploadObject, Keys
    <3> QED BY <1>t, <2>2, <3>2 DEF UploadObject
  <2>3. CASE UploadManifest(w)
    <3>1. task[w].key \in Keys
      BY <2>0, <2>3 DEF UploadManifest, At, TaskShape
    <3>2. manifest' \in [Releases -> Builds \cup {Absent}]
      BY <2>3, <3>1 DEF UploadManifest, Keys
    <3> QED BY <1>t, <2>3, <3>2 DEF UploadManifest
  <2>4. CASE VerifyRemote(w) \/ HeadPointer(w)
    BY <1>t, <2>4 DEF VerifyRemote, HeadPointer, store
  <2>5. CASE CreatePointer(w) \/ SwapPointer(w)
    <3>1. PointerOf(task[w]) \in Pointers /\ PointerOf(task[w]).key \in Keys
      BY <2>0, <2>5 DEF CreatePointer, SwapPointer, At, TaskShape, Tasks, PointerOf, Pointers
    <3> QED BY <1>t, <2>5, <3>1 DEF CreatePointer, SwapPointer, WritePointer, store
  <2>6. CASE ReadPointerBody(w) \/ FinishPublish(w)
    <3>1. task[w].key \in Keys
      BY <2>0, <2>6 DEF ReadPointerBody, FinishPublish, At, TaskShape
    <3>2. /\ [action |-> "publish", key |-> task[w].key, moved |-> TRUE] \in Receipts
          /\ [action |-> "publish", key |-> task[w].key, moved |-> FALSE] \in Receipts
      BY <3>1 DEF Receipts
    <3>3. receipts' \subseteq Receipts
      BY <2>6, <3>2 DEF ReadPointerBody, FinishPublish, Report
    <3> QED BY <1>t, <2>6, <3>3 DEF ReadPointerBody, FinishPublish, store
  <2> QED BY <1>1, <2>1, <2>2, <2>3, <2>4, <2>5, <2>6 DEF Publish
<1>2. ASSUME NEW w \in Workers, Rollback(w) PROVE TypeOK'
  <2>0. task[w] \in Tasks /\ TaskShape(task[w])
    BY DEF TasksTyped
  <2>1. CASE \E from, target \in Keys : StartRollback(w, from, target)
    BY <1>t, <2>1, ReleasePublicationAssumption
    DEF ReleasePublicationAssumption, StartRollback, store
  <2>2. CASE LocatePointer(w)
    BY <1>t, <2>2 DEF LocatePointer, store
  <2>3. CASE InspectTarget(w) \/ ConfirmRollback(w)
    <3>1. task[w].key \in Keys
      BY <2>0, <2>3 DEF InspectTarget, ConfirmRollback, At, TaskShape
    <3>2. /\ [action |-> "rollback", key |-> task[w].key, moved |-> TRUE] \in Receipts
          /\ [action |-> "rollback", key |-> task[w].key, moved |-> FALSE] \in Receipts
      BY <3>1 DEF Receipts
    <3>3. receipts' \subseteq Receipts
      BY <2>3, <3>2 DEF InspectTarget, ConfirmRollback, Report
    <3> QED BY <1>t, <2>3, <3>3 DEF InspectTarget, ConfirmRollback, store
  <2>4. CASE SwitchPointer(w)
    <3>1. PointerOf(task[w]) \in Pointers /\ PointerOf(task[w]).key \in Keys
      BY <2>0, <2>4 DEF SwitchPointer, At, TaskShape, Tasks, PointerOf, Pointers
    <3> QED BY <1>t, <2>4, <3>1 DEF SwitchPointer, WritePointer, store
  <2> QED BY <1>2, <2>1, <2>2, <2>3, <2>4 DEF Rollback
<1>3. ASSUME NEW w \in Workers, Abort(w) PROVE TypeOK'
  BY <1>t, <1>3 DEF Abort, store
<1>4. CASE UNCHANGED vars
  BY <1>4 DEF vars
<1> QED BY <1>1, <1>2, <1>3, <1>4 DEF Next

\* Every attempt starts idle on an empty store.
LEMMA TypedInit == Init => Typed
<1>1. ASSUME Init PROVE Typed
  <2>1. Idle \in Tasks /\ TaskShape(Idle)
    BY ReleasePublicationAssumption
    DEF ReleasePublicationAssumption, Idle, Attempt, Tasks, TaskShape, PublishSteps, RollbackSteps
  <2>2. TasksTyped
    BY <1>1, <2>1 DEF Init, TasksTyped
  <2> QED BY <1>1, <2>2, ReleasePublicationAssumption
          DEF ReleasePublicationAssumption, Init, Typed, TypeOK, TasksTyped
<1> QED BY <1>1

\* Store, tasks and histories keep their types, and each attempt holds the release,
\* the expected release and the ETag its step uses.
THEOREM TypeCorrect == Spec => []TypeOK
<1>1. Typed /\ [Next]_vars => Typed'
  BY TypedTasks, TypeInvariantStep DEF Typed
<1>2. Typed => TypeOK
  BY DEF Typed
<1> QED BY TypedInit, <1>1, <1>2, PTL DEF Spec

(***************************************************************************)
(* Safety.  No step takes anything out of the store, so what one worker    *)
(* knows about it survives every step of another.                          *)
(***************************************************************************)
StoreGrows ==
  /\ \A r \in Releases, i \in ObjectIds :
       object[r][i] # Absent => object'[r][i] = object[r][i]
  /\ \A r \in Releases : manifest[r] # Absent => manifest'[r] = manifest[r]
  /\ held \subseteq held'
  /\ pointer # None => pointer' # None

\* What a step of w leaves alone.
LEMMA StepFrame ==
  ASSUME Typed, NEW w \in Workers, Publish(w) \/ Rollback(w) \/ Abort(w)
  PROVE  StoreGrows /\ \A v \in Workers \ {w} : task'[v] = task[v]
<1>0. task[w] \in Tasks /\ TaskShape(task[w])
  BY DEF Typed, TasksTyped
<1>1. CASE \E r \in Releases, b \in Builds : StartPublish(w, r, b)
  BY <1>1 DEF StartPublish, store, StoreGrows, Typed, TypeOK
<1>2. CASE UploadObject(w)
  <2>1. task[w].key \in Keys
    BY <1>0, <1>2 DEF UploadObject, At, TaskShape
  <2> QED BY <1>2, <2>1 DEF UploadObject, Stop, StoreGrows, Typed, TypeOK, Keys, Free
<1>3. CASE UploadManifest(w)
  <2>1. task[w].key \in Keys
    BY <1>0, <1>3 DEF UploadManifest, At, TaskShape
  <2> QED BY <1>3, <2>1 DEF UploadManifest, GoTo, Stop, StoreGrows, Typed, TypeOK, Keys, Free
<1>4. CASE VerifyRemote(w) \/ HeadPointer(w) \/ ReadPointerBody(w) \/ FinishPublish(w)
  BY <1>4 DEF VerifyRemote, HeadPointer, ReadPointerBody, FinishPublish, GoTo, Stop, Report,
              store, StoreGrows, Typed, TypeOK
<1>5. CASE CreatePointer(w) \/ SwapPointer(w) \/ SwitchPointer(w)
  <2>1. PointerOf(task[w]) \in Pointers
    BY <1>0, <1>5 DEF CreatePointer, SwapPointer, SwitchPointer, At, TaskShape, Tasks,
                      PointerOf, Pointers
  <2> QED BY <1>5, <2>1, NoneAssumption
          DEF CreatePointer, SwapPointer, SwitchPointer, WritePointer, GoTo, Stop, store,
              StoreGrows, Typed, TypeOK, NoneAssumption
<1>6. CASE \E from, target \in Keys : StartRollback(w, from, target)
  BY <1>6 DEF StartRollback, store, StoreGrows, Typed, TypeOK
<1>7. CASE LocatePointer(w) \/ InspectTarget(w) \/ ConfirmRollback(w) \/ Abort(w)
  BY <1>7 DEF LocatePointer, InspectTarget, ConfirmRollback, Abort, GoTo, Stop, Report,
              store, StoreGrows, Typed, TypeOK
<1> QED BY <1>1, <1>2, <1>3, <1>4, <1>5, <1>6, <1>7 DEF Publish, Rollback

\* A release that is complete stays complete.
LEMMA CompleteStays ==
  ASSUME StoreGrows, NEW k \in Keys, ReleaseComplete(k)
  PROVE  ReleaseComplete(k)'
<1>1. k.release \in Releases /\ k.build \in Builds
  BY DEF Keys
<1>2. manifest'[k.release] = k.build
  BY <1>1, ReleasePublicationAssumption
  DEF ReleasePublicationAssumption, StoreGrows, ReleaseComplete
<1>3. ASSUME NEW i \in ObjectIds, BodyOf[k.build][i] # Absent
      PROVE object'[k.release][i] = BodyOf[k.build][i]
  BY <1>1, <1>3 DEF StoreGrows, ReleaseComplete, ObjectsStored
<1> QED BY <1>2, <1>3 DEF ReleaseComplete, ObjectsStored

\* What an attempt knows at its step survives every step that leaves it alone.
LEMMA ProgressStays ==
  ASSUME StoreGrows, NEW t \in Tasks, TaskShape(t), Progress(t)
  PROVE  Progress(t)'
<1>1. ASSUME t.pc = "upload", NEW i \in ObjectIds, i < t.next, BodyOf[t.key.build][i] # Absent
      PROVE object'[t.key.release][i] = BodyOf[t.key.build][i]
  <2>1. t.key.release \in Releases
    BY <1>1 DEF TaskShape, Keys
  <2>2. object[t.key.release][i] = BodyOf[t.key.build][i]
    BY <1>1 DEF Progress
  <2> QED BY <1>1, <2>1, <2>2 DEF StoreGrows
<1>2. ASSUME t.pc \in {"verify", "head", "create", "read", "swap", "final", "switch", "confirm"}
      PROVE ReleaseComplete(t.key)'
  <2>1. t.key \in Keys
    BY <1>2 DEF TaskShape
  <2> QED BY <1>2, <2>1, CompleteStays DEF Progress
<1> QED BY <1>1, <1>2 DEF Progress, StoreGrows

\* The worker that takes a step knows at the next one what that step needs.
LEMMA OwnProgress ==
  ASSUME IInv, NEW w \in Workers, Publish(w) \/ Rollback(w) \/ Abort(w)
  PROVE  Progress(task[w])'
<1> DEFINE t == task[w]
<1>0. t \in Tasks /\ TaskShape(t) /\ Progress(t) /\ StoreGrows /\ task \in [Workers -> Tasks]
  BY StepFrame DEF IInv, Typed, TasksTyped
<1>1. t.seen # None => t.seen.key \in held'
  BY <1>0 DEF Progress, StoreGrows
<1>s. ASSUME Stop(w) PROVE Progress(task[w])'
  BY <1>0, <1>s DEF Stop, Idle, Attempt, Progress
<1>2. CASE \E r \in Releases, b \in Builds : StartPublish(w, r, b)
  <2>1. ASSUME NEW i \in ObjectIds PROVE ~(i < 1)
    BY <2>1 DEF ObjectIds
  <2> QED BY <1>0, <1>2, <2>1 DEF StartPublish, Attempt, Progress
<1>3. CASE UploadObject(w) /\ ~Stop(w)
  <2>1. /\ t.pc = "upload" /\ t.next \in ObjectIds /\ t.key \in Keys
        /\ task' = [task EXCEPT ![w].next = t.next + 1]
    BY <1>0, <1>3 DEF UploadObject, At, TaskShape
  <2>2. BodyOf[t.key.build][t.next] # Absent
          => object'[t.key.release][t.next] = BodyOf[t.key.build][t.next]
    BY <1>0, <1>3, <2>1
    DEF UploadObject, SameContent, IInv, Typed, TypeOK, Keys
  <2>3. ASSUME NEW i \in ObjectIds, i < t.next + 1, BodyOf[t.key.build][i] # Absent
        PROVE object'[t.key.release][i] = BodyOf[t.key.build][i]
    <3>1. CASE i = t.next
      BY <2>2, <2>3, <3>1
    <3>2. CASE i < t.next
      <4>1. object[t.key.release][i] = BodyOf[t.key.build][i]
        BY <1>0, <2>1, <2>3, <3>2 DEF Progress
      <4> QED BY <1>0, <2>1, <2>3, <4>1 DEF StoreGrows, Keys
    <3> QED BY <2>1, <2>3, <3>1, <3>2 DEF ObjectIds
  <2>4. task'[w] = [t EXCEPT !.next = t.next + 1]
    BY <1>0, <2>1
  <2> QED BY <1>0, <1>1, <2>1, <2>3, <2>4 DEF Progress, Tasks
<1>4. CASE UploadManifest(w) /\ ~Stop(w)
  <2>1. t.pc = "upload" /\ t.next = ObjectCount + 1 /\ t.key \in Keys /\ GoTo(w, "verify")
    BY <1>0, <1>4 DEF UploadManifest, ObjectsUploaded, At, TaskShape
  <2>2. manifest'[t.key.release] = t.key.build
    BY <1>0, <1>4, <2>1 DEF UploadManifest, SameContent, IInv, Typed, TypeOK, Keys
  <2>3. ASSUME NEW i \in ObjectIds, BodyOf[t.key.build][i] # Absent
        PROVE object'[t.key.release][i] = BodyOf[t.key.build][i]
    <3>1. i < t.next
      BY <2>1, ReleasePublicationAssumption DEF ReleasePublicationAssumption, ObjectIds
    <3> QED BY <1>0, <1>4, <2>1, <2>3, <3>1 DEF Progress, UploadManifest
  <2>4. task'[w].pc = "verify" /\ task'[w].key = t.key /\ task'[w].seen = t.seen
    BY <1>0, <2>1 DEF GoTo, Tasks
  <2>5. ReleaseComplete(task[w].key)'
    BY <2>2, <2>3, <2>4 DEF ReleaseComplete, ObjectsStored
  <2> QED BY <1>1, <2>4, <2>5 DEF Progress
<1>5. CASE VerifyRemote(w) /\ ~Stop(w)
  <2>1. t.pc = "verify" /\ GoTo(w, "head") /\ UNCHANGED store
    BY <1>5 DEF VerifyRemote, At
  <2> QED BY <1>0, <2>1 DEF GoTo, Progress, Tasks, ReleaseComplete, ObjectsStored, store
<1>6. CASE HeadPointer(w)
  <2>1. t.pc = "head" /\ UNCHANGED store
        /\ task' = [task EXCEPT ![w].seen = pointer,
                                ![w].pc = IF pointer = None THEN "create" ELSE "read"]
    BY <1>6 DEF HeadPointer, At
  <2>2. task'[w] = [t EXCEPT !.seen = pointer, !.pc = IF pointer = None THEN "create" ELSE "read"]
    BY <1>0, <2>1
  <2>3. /\ task'[w].pc = (IF pointer = None THEN "create" ELSE "read")
        /\ task'[w].seen = pointer /\ task'[w].key = t.key
    BY <1>0, <2>2 DEF Tasks
  <2> QED BY <1>0, <2>1, <2>3
          DEF Progress, ReleaseComplete, ObjectsStored, store, IInv, HeldReleasesComplete
<1>7. CASE (CreatePointer(w) \/ SwapPointer(w) \/ SwitchPointer(w)) /\ ~Stop(w)
  <2>1. /\ t.pc \in {"create", "swap", "switch"} /\ WritePointer(PointerOf(t))
        /\ GoTo(w, "final") \/ GoTo(w, "confirm")
    BY <1>7 DEF CreatePointer, SwapPointer, SwitchPointer, At
  <2>2. pointer' # None /\ t.key \in held'
    BY <1>0, <2>1, NoneAssumption
    DEF NoneAssumption, WritePointer, PointerOf, Pointers, Tasks, TaskShape
  <2>3. /\ task'[w].pc \in {"final", "confirm"} /\ task'[w].key = t.key
        /\ task'[w].seen = t.seen
    BY <1>0, <2>1 DEF GoTo, Tasks
  <2>4. t.key \in Keys /\ ReleaseComplete(t.key)
    BY <1>0, <2>1 DEF TaskShape, Progress
  <2>5. ReleaseComplete(task[w].key)'
    BY <1>0, <2>3, <2>4, CompleteStays
  <2> QED BY <1>1, <2>2, <2>3, <2>5 DEF Progress
<1>8. CASE ReadPointerBody(w) /\ ~Stop(w)
  <2>1. t.pc = "read" /\ GoTo(w, "swap") /\ UNCHANGED store
    BY <1>8 DEF ReadPointerBody, Report, At
  <2> QED BY <1>0, <2>1 DEF GoTo, Progress, Tasks, ReleaseComplete, ObjectsStored, store
<1>9. CASE \E from, target \in Keys : StartRollback(w, from, target)
  BY <1>0, <1>9 DEF StartRollback, Attempt, Progress
<1>10. CASE LocatePointer(w) /\ ~Stop(w)
  <2>1. /\ t.pc = "locate" /\ UNCHANGED store /\ pointer # None
        /\ task' = [task EXCEPT ![w].seen = pointer, ![w].pc = "inspect"]
    BY <1>10 DEF LocatePointer, At
  <2>2. /\ task'[w].pc = "inspect" /\ task'[w].seen = pointer
    BY <1>0, <2>1 DEF Tasks
  <2> QED BY <1>0, <2>1, <2>2 DEF Progress, store, IInv, HeldReleasesComplete
<1>11. CASE InspectTarget(w) /\ ~Stop(w)
  <2>1. /\ t.pc = "inspect" /\ GoTo(w, "switch") /\ UNCHANGED store /\ t.seen.key = t.from
        /\ manifest[t.key.release] = t.key.build /\ object[t.key.release] = BodyOf[t.key.build]
    BY <1>11 DEF InspectTarget, Report, At, NamesRelease, InventoryExact
  <2>2. /\ task'[w].pc = "switch" /\ task'[w].key = t.key /\ task'[w].from = t.from
        /\ task'[w].seen = t.seen
    BY <1>0, <2>1 DEF GoTo, Tasks
  <2> QED BY <1>0, <1>1, <2>1, <2>2 DEF Progress, ReleaseComplete, ObjectsStored, store
<1> QED
  BY <1>s, <1>2, <1>3, <1>4, <1>5, <1>6, <1>7, <1>8, <1>9, <1>10, <1>11
  DEF Publish, Rollback, Abort, FinishPublish, ConfirmRollback, Report

\* The store-wide parts of the invariant across a step of w.
LEMMA GlobalStep ==
  ASSUME IInv, NEW w \in Workers, Publish(w) \/ Rollback(w) \/ Abort(w)
  PROVE  ManifestIsCommitRecord' /\ HeldReleasesComplete' /\ ReceiptsNameHeldReleases'
<1> DEFINE t == task[w]
<1>0. t \in Tasks /\ TaskShape(t) /\ Progress(t) /\ StoreGrows /\ TypeOK
  BY StepFrame DEF IInv, Typed, TasksTyped
<1>1. ManifestIsCommitRecord'
  <2> SUFFICES ASSUME NEW r \in Releases, manifest'[r] # Absent,
                      NEW i \in ObjectIds, BodyOf[manifest'[r]][i] # Absent
               PROVE  object'[r][i] = BodyOf[manifest'[r]][i]
    BY DEF ManifestIsCommitRecord, ObjectsStored
  <2>1. CASE manifest[r] # Absent
    <3>1. manifest'[r] = manifest[r]
      BY <1>0, <2>1 DEF StoreGrows
    <3>2. object[r][i] = BodyOf[manifest[r]][i]
      BY <2>1, <3>1 DEF IInv, ManifestIsCommitRecord, ObjectsStored
    <3> QED BY <1>0, <3>1, <3>2 DEF StoreGrows
  <2>2. CASE manifest[r] = Absent
    <3>1. UploadManifest(w)
      BY <2>2 DEF Publish, Rollback, Abort, StartPublish, UploadObject, VerifyRemote,
                  HeadPointer, CreatePointer, ReadPointerBody, SwapPointer, FinishPublish,
                  StartRollback, LocatePointer, InspectTarget, SwitchPointer,
                  ConfirmRollback, WritePointer, store
    <3>2. /\ t.pc = "upload" /\ t.next = ObjectCount + 1 /\ t.key \in Keys
          /\ UNCHANGED object
      BY <1>0, <3>1 DEF UploadManifest, ObjectsUploaded, At, TaskShape
    <3>3. t.key.release = r /\ manifest'[r] = t.key.build
      BY <1>0, <2>2, <3>1, <3>2 DEF UploadManifest, TypeOK, Keys
    <3>4. i < t.next
      BY <3>2, ReleasePublicationAssumption DEF ReleasePublicationAssumption, ObjectIds
    <3> QED BY <1>0, <3>2, <3>3, <3>4 DEF Progress
  <2> QED BY <2>1, <2>2
<1>2. HeldReleasesComplete'
  <2>1. \/ UNCHANGED <<pointer, held>>
        \/ /\ WritePointer(PointerOf(t))
           /\ t.pc \in {"create", "swap", "switch"}
    BY DEF Publish, Rollback, Abort, StartPublish, UploadObject, UploadManifest, VerifyRemote,
           HeadPointer, CreatePointer, ReadPointerBody, SwapPointer, FinishPublish,
           StartRollback, LocatePointer, InspectTarget, SwitchPointer,
           ConfirmRollback, store, At
  <2>2. CASE UNCHANGED <<pointer, held>>
    <3>1. \A k \in held' : k \in Keys /\ ReleaseComplete(k)
      BY <1>0, <2>2 DEF TypeOK, IInv, HeldReleasesComplete
    <3>2. \A k \in held' : ReleaseComplete(k)'
      BY <1>0, <3>1, CompleteStays
    <3> QED BY <2>2, <3>2 DEF IInv, HeldReleasesComplete
  <2>3. CASE WritePointer(PointerOf(t)) /\ t.pc \in {"create", "swap", "switch"}
    <3>1. pointer'.key = t.key /\ held' = held \cup {t.key}
      BY <2>3 DEF WritePointer, PointerOf
    <3>2. \A k \in held' : k \in Keys /\ ReleaseComplete(k)
      BY <1>0, <2>3, <3>1 DEF TypeOK, IInv, HeldReleasesComplete, TaskShape, Progress
    <3>3. \A k \in held' : ReleaseComplete(k)'
      BY <1>0, <3>2, CompleteStays
    <3> QED BY <3>1, <3>3 DEF HeldReleasesComplete
  <2> QED BY <2>1, <2>2, <2>3
<1>3. ReceiptsNameHeldReleases'
  <2>1. ASSUME NEW receipt \in receipts', receipt \notin receipts
        PROVE  receipt.key \in held
    <3>1. ReadPointerBody(w) \/ FinishPublish(w) \/ InspectTarget(w) \/ ConfirmRollback(w)
      BY <2>1 DEF Publish, Rollback, Abort, StartPublish, UploadObject, UploadManifest,
           VerifyRemote, HeadPointer, CreatePointer, SwapPointer, StartRollback,
           LocatePointer, SwitchPointer
    <3>2. receipt.key = t.key
      BY <2>1, <3>1 DEF ReadPointerBody, FinishPublish, InspectTarget, ConfirmRollback, Report
    <3>3. CASE ReadPointerBody(w) \/ ConfirmRollback(w)
      <4>1. pointer # None
        BY <1>0, <3>3 DEF ReadPointerBody, ConfirmRollback, At, Progress
      <4>2. pointer.key = t.key
        BY <2>1, <3>3 DEF ReadPointerBody, ConfirmRollback, NamesRelease
      <4> QED BY <3>2, <4>1, <4>2 DEF IInv, HeldReleasesComplete
    <3>4. CASE FinishPublish(w)
      BY <1>0, <3>2, <3>4 DEF FinishPublish, At, Progress
    <3>5. CASE InspectTarget(w)
      <4>1. t.seen.key = t.key
        BY <2>1, <3>5 DEF InspectTarget, NamesRelease
      <4>2. t.seen \in Pointers
        BY <1>0, <3>5 DEF InspectTarget, At, TaskShape
      <4> QED BY <1>0, <3>2, <4>1, <4>2, NoneAssumption DEF NoneAssumption, Progress
    <3> QED BY <3>1, <3>3, <3>4, <3>5
  <2> QED BY <1>0, <2>1 DEF ReceiptsNameHeldReleases, IInv, StoreGrows
<1> QED BY <1>1, <1>2, <1>3

LEMMA InvariantInit == Init => IInv
<1>1. ASSUME Init PROVE IInv
  <2>1. Typed
    BY <1>1, TypedInit
  <2>2. \A w \in Workers : Progress(task[w])
    BY <1>1 DEF Init, Idle, Attempt, Progress
  <2> QED BY <1>1, <2>1, <2>2
          DEF Init, IInv, ManifestIsCommitRecord, HeldReleasesComplete, ReceiptsNameHeldReleases
<1> QED BY <1>1

LEMMA InvariantStep ==
  ASSUME IInv, [Next]_vars
  PROVE  IInv'
<1>1. Typed'
  BY TypedTasks, TypeInvariantStep DEF IInv, Typed
<1>2. ASSUME NEW w \in Workers, Publish(w) \/ Rollback(w) \/ Abort(w) PROVE IInv'
  <2>1. StoreGrows /\ \A v \in Workers \ {w} : task'[v] = task[v]
    BY <1>2, StepFrame DEF IInv
  <2>2. ASSUME NEW v \in Workers \ {w} PROVE Progress(task[v])'
    <3>1. task[v] \in Tasks /\ TaskShape(task[v]) /\ Progress(task[v])
      BY DEF IInv, Typed, TasksTyped
    <3> QED BY <2>1, <3>1, ProgressStays
  <2>3. \A v \in Workers : Progress(task[v])'
    BY <1>2, <2>2, OwnProgress
  <2> QED BY <1>1, <1>2, <2>3, GlobalStep DEF IInv
<1>3. CASE UNCHANGED vars
  BY <1>1, <1>3 DEF vars, IInv, ManifestIsCommitRecord, ObjectsStored, HeldReleasesComplete,
                    ReleaseComplete, ReceiptsNameHeldReleases, Progress
<1> QED BY <1>2, <1>3 DEF Next

LEMMA Invariant == Spec => []IInv
  BY InvariantInit, InvariantStep, PTL DEF Spec

\* Wherever manifest.json is stored, every object it lists is stored with the listed
\* bytes, whatever attempts with other builds ran or died: the manifest is last.
THEOREM CommitRecord == Spec => []ManifestIsCommitRecord
<1>1. IInv => ManifestIsCommitRecord
  BY DEF IInv
<1> QED BY Invariant, <1>1, PTL

\* The site's pointer only names releases whose manifest and objects are all stored.
THEOREM PointerComplete == Spec => []PointerNamesCompleteRelease
<1>1. IInv => PointerNamesCompleteRelease
  BY DEF IInv, HeldReleasesComplete, PointerNamesCompleteRelease
<1> QED BY Invariant, <1>1, PTL

\* A receipt handed to the caller names a release that was the site's current one.
THEOREM ReceiptsTrue == Spec => []ReceiptsNameHeldReleases
<1>1. IInv => ReceiptsNameHeldReleases
  BY DEF IInv
<1> QED BY Invariant, <1>1, PTL

\* The release of an attempt past verification stays complete until it swaps.
THEOREM VerifiedStays == Spec => []VerifiedStaysComplete
<1>1. IInv => VerifiedStaysComplete
  BY DEF IInv, VerifiedStaysComplete, Progress
<1> QED BY Invariant, <1>1, PTL

\* No step replaces or removes a stored object or manifest.
THEOREM Immutable == Spec => ArtifactsImmutable
<1> DEFINE Keeps == /\ \A r \in Releases, i \in ObjectIds :
                          object[r][i] # Absent => object'[r][i] = object[r][i]
                    /\ \A r \in Releases : manifest[r] # Absent => manifest'[r] = manifest[r]
<1>1. IInv /\ [Next]_vars => [Keeps]_vars
  <2>1. ASSUME IInv, NEW w \in Workers, Publish(w) \/ Rollback(w) \/ Abort(w) PROVE Keeps
    BY <2>1, StepFrame DEF IInv, StoreGrows
  <2> QED BY <2>1 DEF Next
<1> QED BY Invariant, <1>1, PTL DEF Spec, ArtifactsImmutable

\* A rollback moves the pointer only off the release its intent expected, however the
\* pointer moved between its read and its swap.
THEOREM RollbackExpected == Spec => RollbackLeavesExpectedRelease
<1> DEFINE Leaves == \A w \in Workers :
                       At(w, "switch") /\ task'[w].pc = "confirm"
                         => /\ pointer # None /\ pointer.key = task[w].from
                            /\ pointer' = PointerOf(task[w])
<1>1. IInv /\ [Next]_vars => [Leaves]_vars
  <2> SUFFICES ASSUME IInv, Next, NEW w \in Workers, At(w, "switch"), task'[w].pc = "confirm"
               PROVE  /\ pointer # None /\ pointer.key = task[w].from
                      /\ pointer' = PointerOf(task[w])
    OBVIOUS
  <2>1. task[w] \in Tasks /\ Progress(task[w]) /\ task \in [Workers -> Tasks]
    BY DEF IInv, Typed, TasksTyped
  <2>2. PICK v \in Workers : Publish(v) \/ Rollback(v) \/ Abort(v)
    BY DEF Next
  <2>3. v = w
    BY <2>2, StepFrame DEF IInv, At
  <2>4. SwitchPointer(w) \/ Stop(w)
    BY <2>2, <2>3 DEF At, Publish, Rollback, Abort, StartPublish, UploadObject, UploadManifest,
         VerifyRemote, HeadPointer, CreatePointer, ReadPointerBody, SwapPointer, FinishPublish,
         StartRollback, LocatePointer, InspectTarget, ConfirmRollback
  <2>5. ~Stop(w)
    BY <2>1 DEF Stop, Idle, Attempt
  <2>6. EtagMatches(task[w]) /\ WritePointer(PointerOf(task[w]))
    BY <2>4, <2>5 DEF SwitchPointer
  <2> QED BY <2>1, <2>6 DEF At, Progress, EtagMatches, WritePointer
<1> QED BY Invariant, <1>1, PTL DEF Spec, RollbackLeavesExpectedRelease

(***************************************************************************)
(* Refinement of ReleaseServing.                                           *)
(***************************************************************************)
\* Under the invariant a key is complete exactly when its manifest is stored.
LEMMA CompleteMeansManifest ==
  IInv => CompleteKeys = {k \in Keys : manifest[k.release] = k.build}
<1> SUFFICES ASSUME IInv, NEW k \in Keys, manifest[k.release] = k.build
             PROVE  ReleaseComplete(k)
  BY DEF CompleteKeys, ReleaseComplete
<1>1. k.release \in Releases /\ manifest[k.release] # Absent
  BY ReleasePublicationAssumption DEF ReleasePublicationAssumption, Keys
<1> QED BY <1>1 DEF IInv, ManifestIsCommitRecord, ReleaseComplete

\* Every step is an abstract Complete, an abstract Serve, or invisible to readers.
LEMMA StepImplements ==
  ASSUME IInv, [Next]_vars
  PROVE  [Serving!Next]_Serving!abstractVars
<1>k. Serving!Keys = Keys
  BY DEF Serving!Keys, Keys
<1>c. CompleteKeys' = {k \in Keys : manifest'[k.release] = k.build}
  <2>1. IInv'
    BY InvariantStep
  <2>2. (IInv => CompleteKeys = {k \in Keys : manifest[k.release] = k.build})'
    BY CompleteMeansManifest, PTL
  <2> QED BY <2>1, <2>2
<1>1. ASSUME UNCHANGED <<manifest, pointer>>
      PROVE  UNCHANGED Serving!abstractVars
  BY <1>1, <1>c, CompleteMeansManifest DEF Serving!abstractVars, ServedKey
<1>2. ASSUME NEW w \in Workers, Publish(w) \/ Rollback(w) \/ Abort(w)
      PROVE  [Serving!Next]_Serving!abstractVars
  <2>0. task[w] \in Tasks /\ TaskShape(task[w]) /\ Progress(task[w])
    BY DEF IInv, Typed, TasksTyped
  <2>1. CASE UploadManifest(w) /\ ~UNCHANGED manifest
    <3> DEFINE k == task[w].key
    <3>1. k \in Keys /\ manifest[k.release] = Absent /\ UNCHANGED pointer
          /\ manifest' = [manifest EXCEPT ![k.release] = k.build]
      BY <2>0, <2>1 DEF UploadManifest, At, TaskShape, Free
    <3>2. \A c \in CompleteKeys : c.release # k.release
      BY <3>1, CompleteMeansManifest, ReleasePublicationAssumption
      DEF ReleasePublicationAssumption, Keys
    <3>3. CompleteKeys' = CompleteKeys \cup {k}
      <4>1. ASSUME NEW c \in Keys
            PROVE  manifest'[c.release] = c.build <=> manifest[c.release] = c.build \/ c = k
        <5>1. c.release = k.release /\ c.build = k.build => c = k
          BY <3>1 DEF Keys
        <5>2. manifest'[c.release] = IF c.release = k.release THEN k.build
                                                             ELSE manifest[c.release]
          BY <3>1 DEF Keys, IInv, Typed, TypeOK
        <5>3. c.build # Absent
          BY ReleasePublicationAssumption DEF ReleasePublicationAssumption, Keys
        <5> QED BY <3>1, <5>1, <5>2, <5>3
      <4> QED BY <1>c, <3>1, <4>1, CompleteMeansManifest
    <3>4. UNCHANGED ServedKey
      BY <3>1 DEF ServedKey
    <3>5. Serving!Complete(k)
      BY <3>2, <3>3, <3>4 DEF Serving!Complete
    <3> QED BY <1>k, <3>1, <3>5 DEF Serving!Next
  <2>2. CASE ~UNCHANGED pointer
    <3> DEFINE k == task[w].key
    <3>1. /\ CreatePointer(w) \/ SwapPointer(w) \/ SwitchPointer(w)
          /\ WritePointer(PointerOf(task[w]))
      BY <1>2, <2>2 DEF Publish, Rollback, Abort, StartPublish, UploadObject, UploadManifest,
           VerifyRemote, HeadPointer, CreatePointer, ReadPointerBody, SwapPointer,
           FinishPublish, StartRollback, LocatePointer, InspectTarget, SwitchPointer,
           ConfirmRollback, store
    <3>2. k \in Keys /\ ReleaseComplete(k)
      BY <2>0, <3>1 DEF CreatePointer, SwapPointer, SwitchPointer, At, TaskShape, Progress
    <3>3. pointer' # None /\ pointer'.key = k /\ UNCHANGED manifest
      BY <2>0, <3>1, <3>2, NoneAssumption
      DEF NoneAssumption, WritePointer, PointerOf, Pointers, Tasks
    <3>4. ServedKey' = k /\ UNCHANGED CompleteKeys
      BY <1>c, <3>3, CompleteMeansManifest DEF ServedKey
    <3>5. k \in CompleteKeys
      BY <3>2 DEF CompleteKeys
    <3> QED BY <1>k, <3>2, <3>4, <3>5 DEF Serving!Next, Serving!Serve
  <2>3. CASE UNCHANGED pointer /\ ~(UploadManifest(w) /\ ~UNCHANGED manifest)
    <3>1. UNCHANGED manifest
      BY <1>2, <2>3 DEF Publish, Rollback, Abort, StartPublish, UploadObject, VerifyRemote,
           HeadPointer, CreatePointer, ReadPointerBody, SwapPointer, FinishPublish,
           StartRollback, LocatePointer, InspectTarget, SwitchPointer,
           ConfirmRollback, WritePointer, store
    <3> QED BY <1>1, <2>3, <3>1
  <2> QED BY <2>1, <2>2, <2>3
<1>3. CASE UNCHANGED vars
  BY <1>1, <1>3 DEF vars
<1> QED BY <1>2, <1>3 DEF Next

\* publishRelease and rollbackRelease, interleaved call by call and cut off anywhere,
\* implement the atomic switch between complete, immutable releases.
THEOREM Implements == Spec => ImplementsServing
<1>1. Init => Serving!Init
  <2>1. ASSUME Init PROVE CompleteKeys = {} /\ ServedKey = None
    BY <2>1, ReleasePublicationAssumption
    DEF ReleasePublicationAssumption, Init, CompleteKeys, ServedKey, ReleaseComplete, Keys
  <2> QED BY <2>1 DEF Serving!Init
<1>2. IInv /\ [Next]_vars => [Serving!Next]_Serving!abstractVars
  BY StepImplements
<1> QED BY Invariant, <1>1, <1>2, PTL DEF Spec, ImplementsServing, Serving!Spec

(***************************************************************************)
(* IntakeInbox: the inductive invariant.                                   *)
(***************************************************************************)
\* A row of an entry is a link of the feed.
ItemsSound ==
  /\ item \in Seq(Items) /\ Len(item) <= MaxItems
  /\ \A i \in Rows : item[i].entry => item[i].channel = "url" /\ item[i].content \in Entries
JobsSound == IsABag(queue) /\ \A job \in Waiting : job \in Jobs /\ job.item \in Rows

\* A call that goes on has a row, and one that may set a row back to new made it itself.
SoundCall(k) ==
  /\ k \in CallStates /\ k.item \in Rows \cup {NoItem}
  /\ k.step \in {"adopt", "enqueue", "mark"} =>
       k.item \in Rows /\ (k.kind = "submit" => ~item[k.item].entry)
CallsSound == call \in [Calls -> CallStates] /\ \A c \in Calls : SoundCall(call[c])

\* A worker that goes on has a row.  It has created rows only while it is to send their
\* jobs, for a feed, and no more than the feed has entries; an entry whose fetch it has
\* claimed is not new any more.
SoundFetch(u) ==
  /\ u \in WorkerStates /\ u.item \in Rows \cup {NoItem}
  /\ u.step # "idle" => u.item \in Rows
  /\ u.created \subseteq Rows /\ IsFiniteSet(u.created)
  /\ Cardinality(u.created) <= Cardinality(Entries)
  /\ u.created # {} => u.step = "send"
  /\ u.step \in {"entries", "creating", "send"} => item[u.item].channel = "rss"
  /\ u.step \in {"fetch", "complete", "completing"} /\ item[u.item].entry => Status(u.item) # "new"
FetchersSound == worker \in [Fetchers -> WorkerStates] /\ \A w \in Fetchers : SoundFetch(worker[w])

InboxTyped ==
  /\ plot \in Plots /\ decisions \in 0..plot.decisions /\ faults \in 0..plot.faults
  /\ left \subseteq Rows
  /\ ItemsSound /\ JobsSound /\ CallsSound /\ FetchersSound
InboxSound == InboxTyped /\ NothingIsForgotten

(***************************************************************************)
(* IntakeInbox: what steps have in common.                                 *)
(***************************************************************************)
\* Rows are only added, they keep their channel and their kind, and the row of an entry
\* that is not new does not become so again.
InboxGrows ==
  /\ plot' = plot /\ Rows \subseteq Rows'
  /\ \A i \in Rows : /\ item'[i].channel = item[i].channel /\ item'[i].entry = item[i].entry
                     /\ item[i].entry /\ item[i].status # "new" => item'[i].status # "new"

\* Who is attended or about to be sent a job stays so.
KeepsAttention ==
  \A i : (Attended(i) => Attended(i)') /\ (Sending(i) => Attended(i)' \/ Sending(i)')

LEMMA InboxBounds ==
  ASSUME plot \in Plots
  PROVE  /\ MaxItems \in Nat \ {0} /\ MaxAttempts \in Nat \ {0} /\ RetryLimit \in Nat
         /\ plot.rows \in Nat /\ plot.decisions \in Nat /\ plot.faults \in Nat
         /\ plot.channels \subseteq {"rss", "url", "webhook"}
         /\ IsFiniteSet(Entries) /\ Cardinality(Entries) \in Nat
<1>1. IsFiniteSet(Entries) BY IntakeInboxAssumption
<1>2. Cardinality(Entries) \in Nat BY <1>1, FS_CardinalityType
<1> QED BY <1>1, <1>2, IntakeInboxAssumption

LEMMA RowsAreNumbered ==
  ASSUME ItemsSound
  PROVE  /\ Len(item) \in Nat /\ Rows = 1..Len(item) /\ Rows \subseteq ItemIds
         /\ \A i \in Rows : item[i] \in Items
         /\ IsFiniteSet(Rows)
<1>1. Len(item) \in Nat /\ Rows = 1..Len(item) BY LenProperties DEF ItemsSound, Rows
<1>2. MaxItems \in Nat BY IntakeInboxAssumption
<1>3. Rows \subseteq ItemIds BY <1>1, <1>2 DEF ItemsSound, ItemIds
<1>4. \A i \in Rows : item[i] \in Items BY <1>1, ElementOfSeq DEF ItemsSound
<1>5. IsFiniteSet(Rows) BY <1>1, FS_Interval
<1> QED BY <1>1, <1>3, <1>4, <1>5

LEMMA CallStaysSound ==
  ASSUME InboxGrows, NEW k, SoundCall(k)
  PROVE  SoundCall(k)'
BY DEF InboxGrows, SoundCall

LEMMA FetchStaysSound ==
  ASSUME InboxGrows, NEW u, SoundFetch(u)
  PROVE  SoundFetch(u)'
<1>1. u.step # "idle" => u.item \in Rows BY DEF SoundFetch
<1>2. u.step \in {"entries", "creating", "send"} => item'[u.item].channel = "rss"
  BY <1>1 DEF InboxGrows, SoundFetch
<1>3. u.step \in {"fetch", "complete", "completing"} /\ item'[u.item].entry => item'[u.item].status # "new"
  BY <1>1 DEF InboxGrows, SoundFetch, Status
<1>4. u.item \in Rows' \cup {NoItem} /\ u.created \subseteq Rows' /\ (u.step # "idle" => u.item \in Rows')
  BY <1>1 DEF InboxGrows, SoundFetch
<1> QED BY <1>2, <1>3, <1>4 DEF SoundFetch, Status

LEMMA UnchangedInbox ==
  ASSUME InboxTyped, InboxGrows
  PROVE  /\ item' = item => ItemsSound'
         /\ queue' = queue => JobsSound'
         /\ call' = call => CallsSound'
         /\ worker' = worker => FetchersSound'
         /\ left' \subseteq left => left' \subseteq Rows'
         /\ decisions' = decisions => decisions' \in 0..plot'.decisions
         /\ faults' = faults => faults' \in 0..plot'.faults
         /\ plot' \in Plots
<1>1. plot' = plot /\ Rows \subseteq Rows' BY DEF InboxGrows
<1>2. ASSUME item' = item PROVE ItemsSound' BY <1>2 DEF InboxTyped, ItemsSound, Rows
<1>3. ASSUME queue' = queue PROVE JobsSound'
  <2>1. Waiting' = Waiting BY <1>3 DEF Waiting
  <2> QED BY <1>1, <1>3, <2>1 DEF InboxTyped, JobsSound
<1>4. ASSUME call' = call PROVE CallsSound'
  <2>1. ASSUME NEW c \in Calls PROVE SoundCall(call[c])'
    <3>1. PICK k : k = call[c] OBVIOUS
    <3>2. SoundCall(k)' BY <3>1, CallStaysSound DEF InboxTyped, CallsSound
    <3> QED BY <1>4, <3>1, <3>2 DEF SoundCall
  <2> QED BY <1>4, <2>1 DEF InboxTyped, CallsSound
<1>5. ASSUME worker' = worker PROVE FetchersSound'
  <2>1. ASSUME NEW w \in Fetchers PROVE SoundFetch(worker[w])'
    <3>1. PICK u : u = worker[w] OBVIOUS
    <3>2. SoundFetch(u)' BY <3>1, FetchStaysSound DEF InboxTyped, FetchersSound
    <3>3. worker'[w] = u BY <1>5, <3>1
    <3> QED BY <3>2, <3>3 DEF SoundFetch
  <2> QED BY <1>5, <2>1 DEF InboxTyped, FetchersSound
<1> QED BY <1>1, <1>2, <1>3, <1>4, <1>5 DEF InboxTyped

LEMMA StayingInboxGrows ==
  ASSUME plot' = plot, item' = item
  PROVE  InboxGrows
BY DEF InboxGrows, Rows

\* The status of one row is written.
LEMMA StatusIsSet ==
  ASSUME InboxTyped, plot' = plot, NEW i \in Rows, NEW status \in Statuses, SetStatus(i, status),
         item[i].entry => status # "new"
  PROVE  /\ InboxGrows /\ ItemsSound' /\ Rows' = Rows
         /\ item'[i].status = status
         /\ \A j \in Rows : j # i => item'[j] = item[j]
<1>1. /\ Len(item) \in Nat /\ Rows = 1..Len(item) /\ item[i] \in Items BY RowsAreNumbered DEF InboxTyped
<1>2. PICK row : row = [item[i] EXCEPT !.status = status] OBVIOUS
<1>3. /\ row \in Items /\ row.channel = item[i].channel /\ row.entry = item[i].entry
      /\ row.content = item[i].content /\ row.status = status
  BY <1>1, <1>2 DEF Items
<1>4. item' = [item EXCEPT ![i] = row] BY <1>2 DEF SetStatus
<1>5. /\ item' \in Seq(Items) /\ Len(item') = Len(item)
      /\ \A j \in 1..Len(item) : item'[j] = IF j = i THEN row ELSE item[j]
  BY <1>1, <1>3, <1>4, ExceptSeq DEF InboxTyped, ItemsSound
<1>6. Rows' = Rows BY <1>1, <1>5, LenProperties DEF Rows
<1>7. InboxGrows BY <1>1, <1>3, <1>5, <1>6 DEF InboxGrows
<1>8. ItemsSound' BY <1>1, <1>3, <1>5, <1>6 DEF InboxTyped, ItemsSound
<1> QED BY <1>1, <1>3, <1>5, <1>6, <1>7, <1>8

\* A row is added that is not made for an entry.
LEMMA RowIsAdded ==
  ASSUME InboxTyped, plot' = plot, Len(item) < MaxItems, NEW row \in Items, ~row.entry,
         item' = Append(item, row)
  PROVE  /\ InboxGrows /\ ItemsSound' /\ Rows' = Rows \cup {Len(item) + 1} /\ Len(item) + 1 \notin Rows
         /\ item'[Len(item) + 1] = row /\ \A i \in Rows : item'[i] = item[i]
<1>1. Len(item) \in Nat /\ Rows = 1..Len(item) BY RowsAreNumbered DEF InboxTyped
<1>2. /\ item' \in Seq(Items) /\ Len(item') = Len(item) + 1
      /\ \A i \in 1..Len(item) : item'[i] = item[i]
      /\ item'[Len(item) + 1] = row
  BY AppendProperties DEF InboxTyped, ItemsSound
<1>3. Rows' = 1..(Len(item) + 1) BY <1>2, LenProperties DEF Rows
<1>4. Rows' = Rows \cup {Len(item) + 1} /\ Len(item) + 1 \notin Rows BY <1>1, <1>3
<1>5. InboxGrows BY <1>1, <1>2, <1>4 DEF InboxGrows
<1>6. MaxItems \in Nat BY InboxBounds DEF InboxTyped
<1>7. Len(item') <= MaxItems BY <1>1, <1>2, <1>6
<1>8. ItemsSound' BY <1>1, <1>2, <1>4, <1>7 DEF InboxTyped, ItemsSound
<1> QED BY <1>1, <1>2, <1>4, <1>5, <1>8

\* The rows of the entries that are made at a time.
LEMMA InsertionsAre ==
  ASSUME NEW fresh, fresh \subseteq Entries
  PROVE  /\ Insertions(fresh) \in Seq(Items) /\ IsFiniteSet(fresh)
         /\ Len(Insertions(fresh)) = Cardinality(fresh)
         /\ Cardinality(fresh) \in Nat /\ Cardinality(fresh) <= Cardinality(Entries)
         /\ DOMAIN Insertions(fresh) = 1..Cardinality(fresh)
         /\ \A n \in 1..Cardinality(fresh) :
              LET row == Insertions(fresh)[n]
              IN row.channel = "url" /\ row.content \in Entries /\ row.status = "new" /\ row.entry
<1> DEFINE size == Cardinality(fresh)
           order == CHOOSE f \in Bijection(1..size, fresh) : TRUE
           rows == [n \in DOMAIN order |-> NewRow("url", order[n], "new", TRUE)]
<1>1. IsFiniteSet(Entries) BY IntakeInboxAssumption
<1>2. IsFiniteSet(fresh) /\ size <= Cardinality(Entries) BY <1>1, FS_Subset
<1>3. size \in Nat /\ ExistsBijection(1..size, fresh) BY <1>2, FS_CardinalityType
<1>4. order \in Bijection(1..size, fresh) BY <1>3 DEF ExistsBijection
<1>5. order \in [1..size -> fresh] BY <1>4 DEF Bijection, Injection, IsInjective
<1>6. Insertions(fresh) = rows BY DEF Insertions
<1> HIDE DEF size, order
<1>7. \A n \in 1..size : NewRow("url", order[n], "new", TRUE) \in Items
  BY <1>5 DEF NewRow, Items, Contents, Statuses
<1>8. rows \in [1..size -> Items] BY <1>5, <1>7
<1>9. rows \in Seq(Items) /\ DOMAIN rows = 1..size
  <2>1. PICK r : r = rows OBVIOUS
  <2>2. r \in [1..size -> Items] BY <1>8, <2>1
  <2>3. r \in Seq(Items) /\ DOMAIN r = 1..size BY <1>3, <2>2, SeqDef
  <2> QED BY <2>1, <2>3
<1>10. Len(rows) = size BY <1>3, <1>9, LenProperties
<1>11. \A n \in 1..size : rows[n].channel = "url" /\ rows[n].content \in Entries
                          /\ rows[n].status = "new" /\ rows[n].entry
  BY <1>5 DEF NewRow
<1> HIDE DEF rows
<1> QED BY <1>2, <1>3, <1>6, <1>9, <1>10, <1>11 DEF size

LEMMA EntriesAreAdded ==
  ASSUME InboxTyped, plot' = plot, NEW fresh, fresh \subseteq Entries,
         Len(item) + Cardinality(fresh) <= MaxItems, item' = item \o Insertions(fresh)
  PROVE  /\ InboxGrows /\ ItemsSound' /\ \A i \in Rows : item'[i] = item[i]
         /\ Rows' = Rows \cup {Len(item) + n : n \in DOMAIN Insertions(fresh)}
         /\ \A i \in Rows' \ Rows : item'[i].status = "new"
         /\ IsFiniteSet({Len(item) + n : n \in DOMAIN Insertions(fresh)})
         /\ Cardinality({Len(item) + n : n \in DOMAIN Insertions(fresh)}) <= Cardinality(Entries)
<1>1. Len(item) \in Nat /\ Rows = 1..Len(item) /\ item \in Seq(Items)
  BY RowsAreNumbered DEF InboxTyped, ItemsSound
<1> DEFINE rows == Insertions(fresh)
           size == Cardinality(fresh)
<1>2. /\ rows \in Seq(Items) /\ size \in Nat /\ size <= Cardinality(Entries)
      /\ DOMAIN rows = 1..size /\ Len(rows) = size
      /\ \A n \in 1..size : rows[n].channel = "url" /\ rows[n].content \in Entries
                            /\ rows[n].status = "new" /\ rows[n].entry
  BY InsertionsAre
<1>3. item' = item \o rows OBVIOUS
<1>4. Len(item) + size <= MaxItems OBVIOUS
<1> HIDE DEF rows, size
<1>5. /\ item' \in Seq(Items) /\ Len(item') = Len(item) + size
      /\ \A i \in 1..(Len(item) + size) :
           item'[i] = IF i <= Len(item) THEN item[i] ELSE rows[i - Len(item)]
  <2>1. /\ item \o rows \in Seq(Items) /\ Len(item \o rows) = Len(item) + Len(rows)
        /\ \A i \in 1..(Len(item) + Len(rows)) :
             (item \o rows)[i] = IF i <= Len(item) THEN item[i] ELSE rows[i - Len(item)]
    BY <1>1, <1>2, ConcatProperties
  <2> QED BY <1>2, <1>3, <2>1
<1>6. Rows' = 1..(Len(item) + size) BY <1>5, LenProperties DEF Rows
<1>7. {Len(item) + n : n \in DOMAIN rows} = (Len(item) + 1)..(Len(item) + size)
  <2>1. \A i \in (Len(item) + 1)..(Len(item) + size) : i - Len(item) \in 1..size /\ i = Len(item) + (i - Len(item))
    BY <1>1, <1>2
  <2>2. \A i \in (Len(item) + 1)..(Len(item) + size) : i \in {Len(item) + n : n \in 1..size}
    BY <2>1
  <2>3. \A n \in 1..size : Len(item) + n \in (Len(item) + 1)..(Len(item) + size) BY <1>1, <1>2
  <2> QED BY <1>2, <2>2, <2>3
<1>8. Rows' = Rows \cup {Len(item) + n : n \in DOMAIN rows} BY <1>1, <1>2, <1>6, <1>7
<1>9. \A i \in Rows : item'[i] = item[i] BY <1>1, <1>2, <1>5
<1>10. InboxGrows BY <1>8, <1>9 DEF InboxGrows
<1>11. \A i \in Rows' \ Rows : item'[i] = rows[i - Len(item)] /\ i - Len(item) \in 1..size
  BY <1>1, <1>2, <1>5, <1>6
<1>12. ItemsSound'
  <2>1. \A i \in Rows' \ Rows : item'[i].channel = "url" /\ item'[i].content \in Entries
    BY <1>2, <1>11
  <2>2. \A i \in Rows : item'[i].entry => item'[i].channel = "url" /\ item'[i].content \in Entries
    BY <1>9 DEF InboxTyped, ItemsSound
  <2>3. \A i \in Rows' : item'[i].entry => item'[i].channel = "url" /\ item'[i].content \in Entries
    BY <2>1, <2>2
  <2> QED BY <1>4, <1>5, <2>3 DEF ItemsSound
<1>13. /\ IsFiniteSet((Len(item) + 1)..(Len(item) + size))
       /\ Cardinality((Len(item) + 1)..(Len(item) + size)) = size
  <2>1. Len(item) + 1 \in Int /\ Len(item) + size \in Int BY <1>1, <1>2
  <2>2. /\ IsFiniteSet((Len(item) + 1)..(Len(item) + size))
        /\ Cardinality((Len(item) + 1)..(Len(item) + size))
             = IF Len(item) + 1 > Len(item) + size THEN 0 ELSE (Len(item) + size) - (Len(item) + 1) + 1
    BY <2>1, FS_Interval
  <2> QED BY <1>1, <1>2, <2>2
<1>14. /\ IsFiniteSet({Len(item) + n : n \in DOMAIN rows})
       /\ Cardinality({Len(item) + n : n \in DOMAIN rows}) <= Cardinality(Entries)
  BY <1>2, <1>7, <1>13
<1>15. \A i \in Rows' \ Rows : item'[i].status = "new" BY <1>2, <1>11
<1> QED BY <1>8, <1>9, <1>10, <1>12, <1>14, <1>15 DEF rows

\* Jobs wait that waited before, and others.
LEMMA JobsGetSound ==
  ASSUME InboxTyped, InboxGrows, NEW S \in SUBSET Jobs, \A job \in S : job.item \in Rows',
         queue' = queue (+) SetToBag(S)
  PROVE  JobsSound' /\ Waiting' = Waiting \cup S
<1>1. IsABag(queue) BY DEF InboxTyped, JobsSound
<1>2. IsABag(queue') /\ BagToSet(queue') = BagToSet(queue) \cup S
  BY <1>1 DEF IsABag, BagToSet, SetToBag, (+)
<1>3. Waiting' = Waiting \cup S BY <1>2 DEF Waiting
<1>4. \A job \in Waiting : job \in Jobs /\ job.item \in Rows' BY DEF InboxTyped, JobsSound, InboxGrows
<1> QED BY <1>2, <1>3, <1>4 DEF JobsSound

LEMMA SentIsSound ==
  ASSUME InboxTyped, InboxGrows, NEW S \in SUBSET Rows, queue' = Send(S, queue)
  PROVE  JobsSound' /\ Waiting \subseteq Waiting' /\ \A i \in S : \E job \in Waiting' : job.item = i
<1> DEFINE J == {[item |-> i, tries |-> 0] : i \in S}
<1>1. Rows \subseteq ItemIds /\ RetryLimit \in Nat BY RowsAreNumbered, InboxBounds DEF InboxTyped
<1>2. J \subseteq Jobs /\ \A job \in J : job.item \in Rows'
  <2>1. 0 \in 0..RetryLimit /\ S \subseteq ItemIds /\ S \subseteq Rows' BY <1>1 DEF InboxGrows
  <2>2. \A i \in S : [item |-> i, tries |-> 0] \in Jobs BY <2>1 DEF Jobs
  <2>3. ASSUME NEW job \in J PROVE job \in Jobs /\ job.item \in Rows'
    <3>1. PICK i \in S : job = [item |-> i, tries |-> 0] OBVIOUS
    <3> QED BY <2>1, <2>2, <3>1
  <2>4. \A job \in J : job \in Jobs /\ job.item \in Rows' BY <2>3
  <2> HIDE DEF J
  <2> QED BY <2>4
<1>3. ASSUME NEW i \in S PROVE \E job \in J : job.item = i
  <2>1. [item |-> i, tries |-> 0] \in J /\ [item |-> i, tries |-> 0].item = i OBVIOUS
  <2> HIDE DEF J
  <2> QED BY <2>1
<1>4. queue' = queue (+) SetToBag(J \ Waiting) BY DEF Send, Waiting
<1> HIDE DEF J
<1>5. J \ Waiting \in SUBSET Jobs BY <1>2
<1>6. JobsSound' /\ Waiting' = Waiting \cup (J \ Waiting) BY <1>2, <1>4, <1>5, JobsGetSound
<1> QED BY <1>3, <1>6

\* A job is taken from those that wait.
LEMMA JobIsTaken ==
  ASSUME InboxTyped, InboxGrows, NEW job \in Waiting, queue' = queue (-) SetToBag({job})
  PROVE  JobsSound' /\ Waiting \subseteq Waiting' \cup {job}
<1>1. IsABag(queue) BY DEF InboxTyped, JobsSound
<1>2. IsABag(queue') /\ BagToSet(queue') \subseteq BagToSet(queue)
  BY <1>1 DEF IsABag, BagToSet, SetToBag, (-)
<1>3. BagToSet(queue) \subseteq BagToSet(queue') \cup {job}
  BY <1>1 DEF IsABag, BagToSet, SetToBag, (-)
<1>4. Waiting' \subseteq Waiting /\ Waiting \subseteq Waiting' \cup {job} BY <1>2, <1>3 DEF Waiting
<1>5. \A j \in Waiting : j \in Jobs /\ j.item \in Rows' BY DEF InboxTyped, JobsSound, InboxGrows
<1> QED BY <1>2, <1>4, <1>5 DEF JobsSound

\* A call moves to the state k.
LEMMA CallMoves ==
  ASSUME InboxTyped, InboxGrows, NEW c \in Calls, NEW k, SoundCall(k)', call' = [call EXCEPT ![c] = k]
  PROVE  CallsSound'
<1>1. call \in [Calls -> CallStates] /\ k \in CallStates BY DEF InboxTyped, CallsSound, SoundCall
<1>2. call'[c] = k /\ \A d \in Calls : d # c => call'[d] = call[d] BY <1>1
<1>3. ASSUME NEW d \in Calls PROVE SoundCall(call[d])'
  <2>1. PICK h : h = call[d] OBVIOUS
  <2>2. SoundCall(h)' BY <2>1, CallStaysSound DEF InboxTyped, CallsSound
  <2>3. call'[d] = IF d = c THEN k ELSE h BY <1>2, <2>1
  <2> QED BY <2>2, <2>3 DEF SoundCall
<1> QED BY <1>1, <1>3 DEF CallsSound

LEMMA CallReturns ==
  ASSUME InboxTyped, InboxGrows, NEW c \in Calls, Return(c)
  PROVE  CallsSound'
<1>1. PICK k : k = NoCall OBVIOUS
<1>2. k \in CallStates /\ k.item = NoItem /\ k.step = "idle" BY <1>1 DEF NoCall, CallStates, Contents
<1>3. SoundCall(k)' BY <1>2 DEF SoundCall
<1>4. call' = [call EXCEPT ![c] = k] BY <1>1 DEF Return
<1> QED BY <1>3, <1>4, CallMoves

LEMMA CallStarts ==
  ASSUME InboxTyped, InboxGrows, ItemsSound', NEW c \in Calls, NEW kind \in {"submit", "retry", "poll"},
         NEW i \in Rows', kind = "submit" => ~item'[i].entry, Start(c, kind, i)
  PROVE  CallsSound'
<1>1. PICK k : k = [NoCall EXCEPT !.kind = kind, !.item = i, !.step = "enqueue"] OBVIOUS
<1>2. i \in ItemIds
  <2>1. MaxItems \in Nat BY IntakeInboxAssumption
  <2>2. Len(item') \in Nat /\ Rows' = 1..Len(item') /\ Len(item') <= MaxItems
    BY LenProperties DEF ItemsSound, Rows
  <2> QED BY <2>1, <2>2 DEF ItemIds
<1>3. k \in CallStates /\ k.item = i /\ k.step = "enqueue" /\ k.kind = kind
  BY <1>1, <1>2 DEF NoCall, CallStates, Contents
<1>4. SoundCall(k)' BY <1>3 DEF SoundCall
<1>5. call' = [call EXCEPT ![c] = k] BY <1>1 DEF Start
<1> QED BY <1>4, <1>5, CallMoves

\* A worker moves to the state u.
LEMMA FetcherMoves ==
  ASSUME InboxTyped, NEW w \in Fetchers, NEW u, worker' = [worker EXCEPT ![w] = u]
  PROVE  worker'[w] = u /\ \A v \in Fetchers : v # w => worker'[v] = worker[v]
BY DEF InboxTyped, FetchersSound

LEMMA FetcherStaysSound ==
  ASSUME InboxTyped, InboxGrows, NEW w \in Fetchers, NEW u, SoundFetch(u)',
         worker' = [worker EXCEPT ![w] = u]
  PROVE  FetchersSound'
<1>1. worker \in [Fetchers -> WorkerStates] /\ u \in WorkerStates
  BY DEF InboxTyped, FetchersSound, SoundFetch
<1>2. worker' \in [Fetchers -> WorkerStates] BY <1>1
<1>3. ASSUME NEW v \in Fetchers PROVE SoundFetch(worker[v])'
  <2>1. PICK h : h = worker[v] OBVIOUS
  <2>2. SoundFetch(h)' BY <2>1, FetchStaysSound DEF InboxTyped, FetchersSound
  <2>3. worker'[v] = IF v = w THEN u ELSE h BY <2>1, FetcherMoves
  <2> QED BY <2>2, <2>3 DEF SoundFetch
<1> QED BY <1>2, <1>3 DEF FetchersSound

LEMMA NothingCreated ==
  ASSUME plot \in Plots
  PROVE  IsFiniteSet({}) /\ Cardinality({}) <= Cardinality(Entries)
<1>1. IsFiniteSet({}) /\ Cardinality({}) = 0 BY FS_EmptySet
<1> QED BY <1>1, InboxBounds

LEMMA FetcherDrops ==
  ASSUME InboxTyped, InboxGrows, NEW w \in Fetchers, Drop(w)
  PROVE  FetchersSound'
<1>1. PICK u : u = NoWork OBVIOUS
<1>2. u \in WorkerStates /\ u.item = NoItem /\ u.step = "idle" /\ u.created = {}
  BY <1>1, InboxBounds DEF NoWork, WorkerStates, WorkerSteps, InboxTyped
<1>3. SoundFetch(u)' BY <1>2, NothingCreated DEF SoundFetch, InboxTyped
<1>4. worker' = [worker EXCEPT ![w] = u] BY <1>1 DEF Drop
<1> QED BY <1>3, <1>4, FetcherStaysSound

LEMMA OthersKeepAttention ==
  ASSUME worker' = worker, Waiting \subseteq Waiting'
  PROVE  KeepsAttention
BY DEF KeepsAttention, Attended, Sending

LEMMA FetcherKeepsAttention ==
  ASSUME InboxTyped, NEW w \in Fetchers, NEW u, worker' = [worker EXCEPT ![w] = u],
         Waiting \subseteq Waiting',
         ~Doing(w, "idle") => u.step # "idle" /\ u.item = Mine(w),
         \A i \in worker[w].created : i \in u.created \/ \E job \in Waiting' : job.item = i
  PROVE  KeepsAttention
<1>1. worker'[w] = u /\ \A v \in Fetchers : v # w => worker'[v] = worker[v] BY FetcherMoves
<1>2. ASSUME NEW i, Attended(i) PROVE Attended(i)'
  <2>1. CASE \E job \in Waiting : job.item = i BY <2>1 DEF Attended
  <2>2. CASE \E v \in Fetchers : worker[v].step # "idle" /\ worker[v].item = i
    <3>1. PICK v \in Fetchers : worker[v].step # "idle" /\ worker[v].item = i BY <2>2
    <3>2. worker'[v].step # "idle" /\ worker'[v].item = i BY <1>1, <3>1 DEF Doing, Mine
    <3> QED BY <3>2 DEF Attended
  <2> QED BY <1>2, <2>1, <2>2 DEF Attended
<1>3. ASSUME NEW i, Sending(i) PROVE Attended(i)' \/ Sending(i)'
  <2>1. PICK v \in Fetchers : i \in worker[v].created BY <1>3 DEF Sending
  <2>2. i \in worker'[v].created \/ \E job \in Waiting' : job.item = i BY <1>1, <2>1
  <2> QED BY <2>2 DEF Attended, Sending
<1> QED BY <1>2, <1>3 DEF KeepsAttention

\* A worker goes on with its job, without rows whose jobs it has to send.
LEMMA FetcherGoesOn ==
  ASSUME InboxTyped, InboxGrows, NEW w \in Fetchers, NEW u \in WorkerStates,
         worker' = [worker EXCEPT ![w] = u], ~Doing(w, "idle"),
         u.step \notin {"idle", "send"}, u.item = Mine(w), u.created = {},
         u.step \in {"entries", "creating"} => item[Mine(w)].channel = "rss",
         u.step \in {"fetch", "complete", "completing"} /\ item[Mine(w)].entry
           => item'[Mine(w)].status # "new"
  PROVE  FetchersSound'
<1>1. PICK i : i = Mine(w) OBVIOUS
<1>2. i \in Rows /\ i \in Rows' /\ item'[i].channel = item[i].channel /\ item'[i].entry = item[i].entry
  BY <1>1 DEF InboxTyped, FetchersSound, SoundFetch, Mine, Doing, InboxGrows
<1>3. item'[i].status = Status(i)' BY DEF Status
<1>4. SoundFetch(u)' BY <1>1, <1>2, <1>3, NothingCreated DEF SoundFetch, InboxTyped
<1> QED BY <1>4, FetcherStaysSound

LEMMA FetcherTurns ==
  ASSUME InboxTyped, InboxGrows, NEW w \in Fetchers, NEW step \in WorkerSteps \ {"idle", "send"},
         Turn(w, step), ~Doing(w, "idle"), ~Doing(w, "send"),
         step \in {"entries", "creating"} => item[Mine(w)].channel = "rss",
         step \in {"fetch", "complete", "completing"} /\ item[Mine(w)].entry
           => item'[Mine(w)].status # "new"
  PROVE  FetchersSound' /\ (Waiting \subseteq Waiting' => KeepsAttention)
<1>1. PICK old : old = worker[w] OBVIOUS
<1>2. PICK u : u = [old EXCEPT !.step = step] OBVIOUS
<1>3. old \in WorkerStates /\ old.item = Mine(w) /\ old.created = {} /\ SoundFetch(old)
  BY <1>1 DEF InboxTyped, FetchersSound, SoundFetch, Doing, Mine
<1>4. u \in WorkerStates /\ u.step = step /\ u.item = old.item /\ u.created = {}
  BY <1>2, <1>3 DEF WorkerStates
<1>5. worker' = [worker EXCEPT ![w] = u] BY <1>1, <1>2 DEF Turn
<1>6. FetchersSound' BY <1>3, <1>4, <1>5, FetcherGoesOn
<1>7. ASSUME Waiting \subseteq Waiting' PROVE KeepsAttention
  BY <1>1, <1>3, <1>4, <1>5, <1>7, FetcherKeepsAttention
<1> QED BY <1>6, <1>7

\* The catch block of an attempt that created nothing.
LEMMA FetcherTriesAgain ==
  ASSUME InboxTyped, InboxGrows, NEW w \in Fetchers, NEW permanent \in BOOLEAN,
         NextAttempt(w, permanent), ~Doing(w, "idle")
  PROVE  /\ FetchersSound'
         /\ Waiting \subseteq Waiting' /\ (\A i \in worker[w].created : \E job \in Waiting' : job.item = i)
              => KeepsAttention
         /\ Waiting \subseteq Waiting' =>
              \A i : /\ Attended(i) => Attended(i)'
                     /\ i \notin worker[w].created => (Sending(i) => Sending(i)')
<1>1. PICK old : old = worker[w] OBVIOUS
<1>2. old \in WorkerStates /\ old.item = Mine(w) /\ SoundFetch(old)
  BY <1>1 DEF InboxTyped, FetchersSound, Mine
<1>3. old.attempt \in 1..MaxAttempts /\ MaxAttempts \in Nat
  BY <1>2, InboxBounds DEF WorkerStates, InboxTyped
<1>4. PICK attempt : attempt = IF permanent \/ old.attempt = MaxAttempts THEN old.attempt ELSE old.attempt + 1
  OBVIOUS
<1>5. attempt \in 1..MaxAttempts BY <1>3, <1>4
<1>6. PICK step : step = IF permanent \/ old.attempt = MaxAttempts THEN "fail" ELSE "claim" OBVIOUS
<1>7. PICK u : u = [old EXCEPT !.fresh = {}, !.created = {}, !.step = step, !.attempt = attempt] OBVIOUS
<1>8. u \in WorkerStates /\ u.step = step /\ u.item = old.item /\ u.created = {}
  BY <1>2, <1>5, <1>6, <1>7 DEF WorkerStates, WorkerSteps
<1>9. worker' = [worker EXCEPT ![w] = u]
  <2>1. worker' = [worker EXCEPT ![w] = [old EXCEPT !.fresh = {}, !.created = {}, !.step = step,
                                                    !.attempt = attempt]]
    BY <1>1, <1>4, <1>6 DEF NextAttempt, InboxTyped, FetchersSound
  <2> QED BY <1>7, <2>1
<1>10. FetchersSound' BY <1>2, <1>6, <1>8, <1>9, FetcherGoesOn
<1>11. ASSUME Waiting \subseteq Waiting', \A i \in worker[w].created : \E job \in Waiting' : job.item = i
       PROVE  KeepsAttention
  BY <1>2, <1>6, <1>8, <1>9, <1>11, FetcherKeepsAttention
<1>12. ASSUME Waiting \subseteq Waiting', NEW i
       PROVE  /\ Attended(i) => Attended(i)'
              /\ i \notin worker[w].created => (Sending(i) => Sending(i)')
  <2>1. worker'[w] = u /\ \A v \in Fetchers : v # w => worker'[v] = worker[v] BY <1>9, FetcherMoves
  <2>2. u.step # "idle" /\ u.item = worker[w].item BY <1>2, <1>6, <1>8 DEF Mine
  <2>3. ASSUME Attended(i) PROVE Attended(i)'
    <3>1. CASE \E job \in Waiting : job.item = i BY <1>12, <3>1 DEF Attended
    <3>2. CASE \E v \in Fetchers : worker[v].step # "idle" /\ worker[v].item = i
      <4>1. PICK v \in Fetchers : worker[v].step # "idle" /\ worker[v].item = i BY <3>2
      <4>2. worker'[v].step # "idle" /\ worker'[v].item = i BY <2>1, <2>2, <4>1
      <4> QED BY <4>2 DEF Attended
    <3> QED BY <2>3, <3>1, <3>2 DEF Attended
  <2>4. i \notin worker[w].created => (Sending(i) => Sending(i)') BY <2>1 DEF Sending
  <2> QED BY <2>3, <2>4
<1> QED BY <1>10, <1>11, <1>12

\* A job that ended is delivered again, where its deliveries are not used up.
LEMMA RedeliveredIsSound ==
  ASSUME InboxTyped, InboxGrows, NEW w \in Fetchers, ~Doing(w, "idle"), Redeliver(w)
  PROVE  /\ JobsSound' /\ Waiting \subseteq Waiting'
         /\ worker[w].tries < RetryLimit => \E job \in Waiting' : job.item = Mine(w)
<1>1. PICK old : old = worker[w] OBVIOUS
<1>2. /\ old.tries \in 0..RetryLimit /\ RetryLimit \in Nat /\ Mine(w) = old.item
      /\ Mine(w) \in Rows /\ Mine(w) \in ItemIds /\ Mine(w) \in Rows'
  BY <1>1, InboxBounds, RowsAreNumbered
  DEF InboxTyped, FetchersSound, SoundFetch, WorkerStates, Doing, Mine, InboxGrows
<1>3. CASE old.tries < RetryLimit
  <2>1. PICK job : job = [item |-> Mine(w), tries |-> old.tries + 1] OBVIOUS
  <2>2. job \in Jobs /\ job.item = Mine(w) BY <1>2, <1>3, <2>1 DEF Jobs
  <2>3. queue' = queue (+) SetToBag({job}) BY <1>1, <1>3, <2>1 DEF Redeliver
  <2>4. {job} \in SUBSET Jobs /\ \A j \in {job} : j.item \in Rows' BY <1>2, <2>2
  <2>5. JobsSound' /\ Waiting' = Waiting \cup {job} BY <2>3, <2>4, JobsGetSound
  <2> QED BY <2>2, <2>5
<1>4. CASE ~(old.tries < RetryLimit)
  <2>1. queue' = queue BY <1>1, <1>4 DEF Redeliver
  <2>2. JobsSound' BY <2>1, UnchangedInbox
  <2> QED BY <1>1, <1>4, <2>1, <2>2 DEF Waiting
<1> QED BY <1>3, <1>4

\* What a worker leaves when its job ends.
LEMMA EndedIsLeft ==
  ASSUME InboxTyped, NEW w \in Fetchers, Drop(w), Waiting \subseteq Waiting', NEW i
  PROVE  /\ i # Mine(w) => (Attended(i) => Attended(i)')
         /\ i \notin worker[w].created => (Sending(i) => Sending(i)')
<1>1. \A v \in Fetchers : v # w => worker'[v] = worker[v]
  BY DEF Drop, InboxTyped, FetchersSound
<1>2. ASSUME i # Mine(w), Attended(i) PROVE Attended(i)'
  <2>1. CASE \E job \in Waiting : job.item = i BY <2>1 DEF Attended
  <2>2. CASE \E v \in Fetchers : worker[v].step # "idle" /\ worker[v].item = i
    <3>1. PICK v \in Fetchers : worker[v].step # "idle" /\ worker[v].item = i BY <2>2
    <3>2. worker'[v] = worker[v] BY <1>1, <1>2, <3>1 DEF Mine
    <3> QED BY <3>1, <3>2 DEF Attended
  <2> QED BY <1>2, <2>1, <2>2 DEF Attended
<1>3. i \notin worker[w].created => (Sending(i) => Sending(i)') BY <1>1 DEF Sending
<1> QED BY <1>2, <1>3

LEMMA DoneIsSound ==
  ASSUME InboxTyped, InboxGrows, NEW w \in Fetchers, ~Doing(w, "idle"), ~Doing(w, "send"), Done(w)
  PROVE  /\ JobsSound' /\ FetchersSound'
         /\ faults' \in 0..plot'.faults /\ faults' \in {faults, faults + 1}
         /\ \A i : i # Mine(w) => (Attended(i) => Attended(i)')
         /\ \A i : Sending(i) => Sending(i)'
<1>1. Drop(w) BY DEF Done
<1>2. FetchersSound' BY <1>1, FetcherDrops
<1>3. plot' = plot /\ plot.faults \in Nat /\ faults \in 0..plot.faults
  BY InboxBounds DEF InboxGrows, InboxTyped
<1>4. /\ JobsSound' /\ Waiting \subseteq Waiting'
      /\ faults' \in 0..plot'.faults /\ faults' \in {faults, faults + 1}
  <2>1. CASE UNCHANGED <<queue, faults>> BY <1>3, <2>1, UnchangedInbox DEF Waiting
  <2>2. CASE faults < plot.faults /\ faults' = faults + 1 /\ Redeliver(w)
    <3>1. JobsSound' /\ Waiting \subseteq Waiting' BY <2>2, RedeliveredIsSound
    <3>2. faults' \in 0..plot'.faults BY <1>3, <2>2
    <3> QED BY <2>2, <3>1, <3>2
  <2> QED BY <2>1, <2>2 DEF Done
<1>5. worker[w].created = {} BY DEF InboxTyped, FetchersSound, SoundFetch, Doing
<1>6. \A i : /\ i # Mine(w) => (Attended(i) => Attended(i)')
             /\ i \notin worker[w].created => (Sending(i) => Sending(i)')
  BY <1>1, <1>4, EndedIsLeft
<1> QED BY <1>2, <1>4, <1>5, <1>6

LEMMA ThrowsIsSound ==
  ASSUME InboxTyped, InboxGrows, NEW w \in Fetchers, ~Doing(w, "idle"), Throws(w)
  PROVE  /\ JobsSound' /\ FetchersSound' /\ left \subseteq left' /\ left' \subseteq Rows'
         /\ \A i : i # Mine(w) => (Attended(i) => Attended(i)')
         /\ \A i : i \notin worker[w].created => (Sending(i) => Sending(i)')
         /\ \A i : i = Mine(w) /\ Status(i)' = "fetching" => Attended(i)' \/ i \in left'
<1>1. PICK i : i = Mine(w) OBVIOUS
<1>2. Drop(w) /\ Redeliver(w) BY DEF Throws
<1>3. FetchersSound' BY <1>2, FetcherDrops
<1>4. JobsSound' /\ Waiting \subseteq Waiting' /\ (worker[w].tries < RetryLimit => \E job \in Waiting' : job.item = i)
  BY <1>1, <1>2, RedeliveredIsSound
<1>5. \A j : /\ j # Mine(w) => (Attended(j) => Attended(j)')
             /\ j \notin worker[w].created => (Sending(j) => Sending(j)')
  BY <1>2, <1>4, EndedIsLeft
<1>6. left' = IF worker[w].tries < RetryLimit \/ Status(i)' # "fetching" \/ Attended(i)'
                THEN left ELSE left \cup {i}
  BY <1>1 DEF Throws
<1>7. i \in Rows /\ Rows \subseteq Rows' /\ left \subseteq Rows
  BY <1>1 DEF InboxTyped, InboxGrows, FetchersSound, SoundFetch, Doing, Mine
<1>8. left \subseteq left' /\ left' \subseteq Rows' BY <1>6, <1>7
<1>9. Status(i)' = "fetching" => Attended(i)' \/ i \in left'
  <2>1. CASE worker[w].tries < RetryLimit
    <3>1. \E job \in Waiting' : job.item = i BY <1>4, <2>1
    <3> QED BY <3>1 DEF Attended
  <2>2. CASE ~(worker[w].tries < RetryLimit) BY <1>6, <2>2
  <2> QED BY <2>1, <2>2
<1> QED BY <1>1, <1>3, <1>4, <1>5, <1>8, <1>9

(***************************************************************************)
(* IntakeInbox: what is forgotten.                                         *)
(***************************************************************************)
LEMMA FaultsTimesEntries ==
  ASSUME NEW f \in Nat, NEW c \in Nat
  PROVE  f * c \in Nat /\ (f + 1) * c = f * c + c
OBVIOUS

LEMMA FetchingStaysAttended ==
  ASSUME InboxSound,
         \A i \in Rows' : Status(i)' = "fetching" =>
            \/ Attended(i)' \/ i \in left'
            \/ /\ i \in Rows /\ Status(i) = "fetching"
               /\ (Attended(i) => Attended(i)') /\ (i \in left => i \in left')
  PROVE  FetchingIsAttended'
<1>1. \A i \in Rows : Status(i) = "fetching" => Attended(i) \/ i \in left
  BY DEF InboxSound, NothingIsForgotten, FetchingIsAttended
<1>2. ASSUME NEW i \in Rows', Status(i)' = "fetching" PROVE Attended(i)' \/ i \in left'
  BY <1>1, <1>2
<1> QED BY <1>2 DEF FetchingIsAttended

\* A step forgets nothing, or a fault has made it forget X.
LEMMA EntriesStaySent ==
  ASSUME InboxSound, InboxGrows, NEW X,
         \/ X = {} /\ faults' \in {faults, faults + 1}
         \/ faults' = faults + 1 /\ IsFiniteSet(X) /\ Cardinality(X) <= Cardinality(Entries),
         \A i \in Rows' : item'[i].entry /\ Status(i)' = "new" =>
            \/ Attended(i)' \/ Sending(i)' \/ i \in X
            \/ i \in Rows /\ (Attended(i) => Attended(i)') /\ (Sending(i) => Attended(i)' \/ Sending(i)')
  PROVE  EntriesAreSent'
<1>1. ASSUME NEW i \in Rows', item'[i].entry, Status(i)' = "new", ~Attended(i)', ~Sending(i)'
      PROVE  i \in Forgotten \cup X
  <2>1. CASE i \in X BY <2>1
  <2>2. CASE i \in Rows /\ (Attended(i) => Attended(i)') /\ (Sending(i) => Attended(i)' \/ Sending(i)')
    <3>1. ~Attended(i) /\ ~Sending(i) BY <1>1, <2>2
    <3>2. item[i].entry /\ Status(i) = "new" BY <1>1, <2>2 DEF InboxGrows, Status
    <3> QED BY <2>2, <3>1, <3>2 DEF Forgotten
  <2> QED BY <1>1, <2>1, <2>2
<1>2. Forgotten' \subseteq Forgotten \cup X BY <1>1 DEF Forgotten
<1>3. Forgotten \subseteq Rows /\ IsFiniteSet(Rows)
  BY RowsAreNumbered DEF Forgotten, InboxSound, InboxTyped
<1>4. IsFiniteSet(Forgotten) BY <1>3, FS_Subset
<1>5. IsFiniteSet(X) /\ Cardinality(X) \in Nat
  <2>1. IsFiniteSet(X) BY FS_EmptySet
  <2> QED BY <2>1, FS_CardinalityType
<1>6. IsFiniteSet(Forgotten \cup X) BY <1>4, <1>5, FS_Union
<1>7. Cardinality(Forgotten \cup X) <= Cardinality(Forgotten) + Cardinality(X)
  <2>1. Cardinality(Forgotten \cup X)
          = Cardinality(Forgotten) + Cardinality(X) - Cardinality(Forgotten \cap X)
    BY <1>4, <1>5, FS_Union
  <2>2. IsFiniteSet(Forgotten \cap X) BY <1>4, FS_Intersection
  <2>3. Cardinality(Forgotten \cap X) \in Nat BY <2>2, FS_CardinalityType
  <2>4. Cardinality(Forgotten) \in Nat BY <1>4, FS_CardinalityType
  <2> QED BY <1>5, <2>1, <2>3, <2>4
<1>8. PICK after : after = Forgotten' OBVIOUS
<1>9. IsFiniteSet(after) /\ Cardinality(after) <= Cardinality(Forgotten \cup X) BY <1>2, <1>6, <1>8, FS_Subset
<1>10. /\ Cardinality(after) \in Nat /\ Cardinality(Forgotten) \in Nat /\ Cardinality(Forgotten \cup X) \in Nat
  BY <1>4, <1>6, <1>9, FS_CardinalityType
<1>11. faults \in Nat /\ Cardinality(Entries) \in Nat
  BY InboxBounds DEF InboxSound, InboxTyped
<1>12. Cardinality(Forgotten) <= faults * Cardinality(Entries)
  BY DEF InboxSound, NothingIsForgotten, EntriesAreSent
<1>13. PICK n : n = faults * Cardinality(Entries) OBVIOUS
<1>14. n \in Nat /\ (faults + 1) * Cardinality(Entries) = n + Cardinality(Entries)
  BY <1>11, <1>13, FaultsTimesEntries
<1>15. Cardinality(after) <= Cardinality(Forgotten) + Cardinality(X) BY <1>5, <1>7, <1>9, <1>10
<1>16. Cardinality(after) <= faults' * Cardinality(Entries)
  <2>1. CASE X = {} /\ faults' \in {faults, faults + 1}
    <3>1. Cardinality(X) = 0 BY <2>1, FS_EmptySet
    <3>2. Cardinality(after) <= n BY <1>10, <1>12, <1>13, <1>14, <1>15, <3>1
    <3>3. CASE faults' = faults BY <1>13, <3>2, <3>3
    <3>4. CASE faults' = faults + 1 BY <1>10, <1>11, <1>14, <3>2, <3>4
    <3> QED BY <2>1, <3>3, <3>4
  <2>2. CASE faults' = faults + 1 /\ Cardinality(X) <= Cardinality(Entries)
    <3>1. Cardinality(after) <= n + Cardinality(Entries)
      BY <1>5, <1>10, <1>11, <1>12, <1>13, <1>14, <1>15, <2>2
    <3> QED BY <1>14, <2>2, <3>1
  <2> QED BY <2>1, <2>2
<1> QED BY <1>8, <1>16 DEF EntriesAreSent

LEMMA NothingMoreForgotten ==
  ASSUME InboxSound, InboxGrows, KeepsAttention, faults' \in {faults, faults + 1},
         \A i \in Rows' : Status(i)' = "fetching" =>
            \/ Attended(i)' \/ i \in left'
            \/ i \in Rows /\ Status(i) = "fetching" /\ (i \in left => i \in left'),
         \A i \in Rows' \ Rows : item'[i].entry /\ Status(i)' = "new" => Attended(i)' \/ Sending(i)'
  PROVE  NothingIsForgotten'
<1>1. FetchingIsAttended'
  <2>1. \A i \in Rows' : Status(i)' = "fetching" =>
          \/ Attended(i)' \/ i \in left'
          \/ /\ i \in Rows /\ Status(i) = "fetching"
             /\ (Attended(i) => Attended(i)') /\ (i \in left => i \in left')
    BY DEF KeepsAttention
  <2> QED BY <2>1, FetchingStaysAttended
<1>2. EntriesAreSent'
  <2>1. \A i \in Rows' : item'[i].entry /\ Status(i)' = "new" =>
          \/ Attended(i)' \/ Sending(i)' \/ i \in {}
          \/ i \in Rows /\ (Attended(i) => Attended(i)') /\ (Sending(i) => Attended(i)' \/ Sending(i)')
    BY DEF KeepsAttention
  <2> QED BY <2>1, EntriesStaySent
<1> QED BY <1>1, <1>2 DEF NothingIsForgotten

\* The row i is written, and no other.
LEMMA OneRowIsWritten ==
  ASSUME InboxSound, InboxGrows, KeepsAttention, faults' \in {faults, faults + 1}, NEW i \in Rows,
         Rows' = Rows, \A j \in Rows : j # i => item'[j] = item[j] /\ (j \in left => j \in left'),
         item'[i].status = "fetching" => Attended(i)' \/ i \in left'
  PROVE  NothingIsForgotten'
<1>1. ASSUME NEW j \in Rows', Status(j)' = "fetching"
      PROVE  \/ Attended(j)' \/ j \in left'
             \/ j \in Rows /\ Status(j) = "fetching" /\ (j \in left => j \in left')
  <2>1. CASE j = i BY <1>1, <2>1 DEF Status
  <2>2. CASE j # i BY <1>1, <2>2 DEF Status
  <2> QED BY <2>1, <2>2
<1>2. \A j \in Rows' \ Rows : item'[j].entry /\ Status(j)' = "new" => Attended(j)' \/ Sending(j)' OBVIOUS
<1> QED BY <1>1, <1>2, NothingMoreForgotten

LEMMA NoRowIsWritten ==
  ASSUME InboxSound, KeepsAttention, faults' \in {faults, faults + 1}, plot' = plot, item' = item,
         left \subseteq left'
  PROVE  NothingIsForgotten'
<1>1. InboxGrows BY StayingInboxGrows
<1>2. Rows' = Rows /\ \A i : Status(i)' = Status(i) BY DEF Rows, Status
<1> QED BY <1>1, <1>2, NothingMoreForgotten

\* A row that is not made for an entry is new.
LEMMA OneRowIsAdded ==
  ASSUME InboxSound, InboxGrows, KeepsAttention, faults' \in {faults, faults + 1}, NEW id,
         Rows' = Rows \cup {id}, \A i \in Rows : item'[i] = item[i], left' = left,
         id \in Rows' /\ ~item'[id].entry /\ item'[id].status # "fetching"
  PROVE  NothingIsForgotten'
<1>1. ASSUME NEW j \in Rows', Status(j)' = "fetching"
      PROVE  \/ Attended(j)' \/ j \in left'
             \/ j \in Rows /\ Status(j) = "fetching" /\ (j \in left => j \in left')
  BY <1>1 DEF Status
<1>2. \A j \in Rows' \ Rows : item'[j].entry /\ Status(j)' = "new" => Attended(j)' \/ Sending(j)' OBVIOUS
<1> QED BY <1>1, <1>2, NothingMoreForgotten

(***************************************************************************)
(* IntakeInbox: one lemma for each action.                                 *)
(***************************************************************************)
LEMMA OnlyTheCallMoves ==
  ASSUME InboxSound, CallsSound', faults' \in 0..plot'.faults, faults' \in {faults, faults + 1},
         UNCHANGED <<plot, item, queue, worker, decisions, left>>
  PROVE  InboxSound'
<1>1. InboxGrows /\ InboxTyped BY StayingInboxGrows DEF InboxSound
<1>2. Waiting \subseteq Waiting' BY DEF Waiting
<1>3. KeepsAttention BY <1>2, OthersKeepAttention
<1>4. NothingIsForgotten' BY <1>3, NoRowIsWritten
<1>5. InboxTyped'
  <2>1. /\ plot' \in Plots /\ decisions' \in 0..plot'.decisions /\ left' \subseteq Rows'
        /\ ItemsSound' /\ JobsSound' /\ FetchersSound'
    BY <1>1, UnchangedInbox
  <2> QED BY <2>1 DEF InboxTyped
<1> QED BY <1>4, <1>5 DEF InboxSound

LEMMA SubmitKeeps ==
  ASSUME InboxSound, NEW c \in Calls, NEW channel \in plot.channels, NEW content \in Contents,
         Submit(c, channel, content)
  PROVE  InboxSound'
<1>1. InboxTyped /\ InboxGrows BY StayingInboxGrows DEF InboxSound, Submit
<1>2. PICK known : known = Known(content) OBVIOUS
<1>3. known \in BOOLEAN BY <1>2 DEF Known
<1>4. PICK k : k = [NoCall EXCEPT !.step = "insert", !.channel = channel, !.content = content,
                                  !.duplicate = known]
  OBVIOUS
<1>5. channel \in {"rss", "url", "webhook"} BY <1>1, InboxBounds DEF InboxTyped
<1>6. k \in CallStates /\ k.item = NoItem /\ k.step = "insert"
  BY <1>3, <1>4, <1>5 DEF NoCall, CallStates
<1>7. SoundCall(k)' BY <1>6 DEF SoundCall
<1>8. call' = [call EXCEPT ![c] = k] BY <1>2, <1>4 DEF Submit
<1>9. CallsSound' BY <1>1, <1>7, <1>8, CallMoves
<1>10. faults' \in 0..plot'.faults /\ faults' = faults BY <1>1 DEF Submit, InboxTyped
<1> QED BY <1>9, <1>10, OnlyTheCallMoves DEF Submit

LEMMA RetryKeeps ==
  ASSUME InboxSound, NEW c \in Calls, NEW i \in ItemIds, Retry(c, i)
  PROVE  InboxSound'
<1>1. InboxTyped /\ InboxGrows BY StayingInboxGrows DEF InboxSound, Retry
<1>2. ItemsSound' BY <1>1, UnchangedInbox DEF Retry
<1>3. i \in Rows' /\ Start(c, "retry", i) BY <1>1 DEF Retry, InboxGrows
<1>4. CallsSound' BY <1>1, <1>2, <1>3, CallStarts
<1>5. faults' \in 0..plot'.faults /\ faults' = faults BY <1>1 DEF Retry, InboxTyped
<1> QED BY <1>4, <1>5, OnlyTheCallMoves DEF Retry

LEMMA CallDiesKeeps ==
  ASSUME InboxSound, NEW c \in Calls, CallDies(c)
  PROVE  InboxSound'
<1>1. InboxTyped /\ InboxGrows BY StayingInboxGrows DEF InboxSound, CallDies
<1>2. CallsSound' BY <1>1, CallReturns DEF CallDies
<1>3. plot.faults \in Nat /\ faults \in 0..plot.faults BY <1>1, InboxBounds DEF InboxTyped
<1>4. faults' \in 0..plot'.faults /\ faults' = faults + 1 BY <1>3 DEF CallDies
<1> QED BY <1>2, <1>4, OnlyTheCallMoves DEF CallDies

\* A call adds a row that is no entry, and goes on.
LEMMA CallAddsARow ==
  ASSUME InboxSound, NEW row \in Items, ~row.entry, row.status # "fetching", RoomForOwn,
         item' = Append(item, row), CallsSound',
         UNCHANGED <<plot, queue, worker, decisions, faults, left>>
  PROVE  InboxSound'
<1>1. InboxTyped BY DEF InboxSound
<1>2. Len(item) < MaxItems BY DEF RoomForOwn
<1>3. PICK id : id = Len(item) + 1 OBVIOUS
<1>4. /\ InboxGrows /\ ItemsSound' /\ Rows' = Rows \cup {id}
      /\ item'[id] = row /\ \A i \in Rows : item'[i] = item[i]
  BY <1>1, <1>2, <1>3, RowIsAdded
<1>5. Waiting \subseteq Waiting' BY DEF Waiting
<1>6. KeepsAttention BY <1>5, OthersKeepAttention
<1>7. NothingIsForgotten' BY <1>4, <1>6, OneRowIsAdded
<1>8. InboxTyped'
  <2>1. /\ plot' \in Plots /\ decisions' \in 0..plot'.decisions /\ left' \subseteq Rows'
        /\ JobsSound' /\ FetchersSound' /\ faults' \in 0..plot'.faults
    BY <1>1, <1>4, UnchangedInbox
  <2> QED BY <1>4, <2>1 DEF InboxTyped
<1> QED BY <1>7, <1>8 DEF InboxSound

LEMMA InsertKeeps ==
  ASSUME InboxSound, NEW c \in Calls, Insert(c)
  PROVE  InboxSound'
<1>1. InboxTyped BY DEF InboxSound
<1>2. PICK old : old = call[c] OBVIOUS
<1>3. old \in CallStates BY <1>1, <1>2 DEF InboxTyped, CallsSound
<1>4. PICK status : status = IF old.duplicate THEN "duplicate"
                             ELSE IF old.channel = "webhook" THEN "ready" ELSE "new"
  OBVIOUS
<1>5. status \in {"duplicate", "ready", "new"} BY <1>4
<1>6. PICK row : row = NewRow(old.channel, old.content, status, FALSE) OBVIOUS
<1>7. row \in Items /\ ~row.entry /\ row.status # "fetching"
  BY <1>3, <1>5, <1>6 DEF NewRow, Items, CallStates, Statuses
<1>8. PICK id : id = Len(item) + 1 OBVIOUS
<1>9. /\ RoomForOwn /\ item' = Append(item, row)
      /\ UNCHANGED <<plot, queue, worker, decisions, faults, left>>
      /\ \/ status = "new" /\ Start(c, "submit", id)
         \/ call' = [call EXCEPT ![c].step = "adopt", ![c].item = id]
         \/ Return(c)
  BY <1>2, <1>4, <1>6, <1>8 DEF Insert
<1>10. Len(item) < MaxItems BY <1>9 DEF RoomForOwn
<1>11. /\ InboxGrows /\ ItemsSound' /\ id \in Rows' /\ item'[id] = row
  BY <1>1, <1>7, <1>8, <1>9, <1>10, RowIsAdded
<1>12. id \in ItemIds
  <2>1. Len(item) \in Nat /\ MaxItems \in Nat BY <1>1, RowsAreNumbered, InboxBounds DEF InboxTyped
  <2> QED BY <1>8, <1>10, <2>1 DEF ItemIds
<1>13. CallsSound'
  <2>1. CASE Start(c, "submit", id) BY <1>1, <1>7, <1>11, <2>1, CallStarts
  <2>2. CASE call' = [call EXCEPT ![c].step = "adopt", ![c].item = id]
    <3>1. PICK k : k = [old EXCEPT !.step = "adopt", !.item = id] OBVIOUS
    <3>2. k \in CallStates /\ k.item = id BY <1>3, <1>12, <3>1 DEF CallStates
    <3>3. SoundCall(k)' BY <1>7, <1>11, <3>2 DEF SoundCall
    <3>4. call' = [call EXCEPT ![c] = k] BY <1>1, <1>2, <2>2, <3>1 DEF InboxTyped, CallsSound
    <3> QED BY <1>1, <1>11, <3>3, <3>4, CallMoves
  <2>3. CASE Return(c) BY <1>1, <1>11, <2>3, CallReturns
  <2> QED BY <1>9, <2>1, <2>2, <2>3
<1> QED BY <1>7, <1>9, <1>13, CallAddsARow

LEMMA PollKeeps ==
  ASSUME InboxSound, NEW c \in Calls, Poll(c)
  PROVE  InboxSound'
<1>1. InboxTyped BY DEF InboxSound
<1>2. ASSUME NEW i \in Rows, Start(c, "poll", i), UNCHANGED item PROVE InboxSound'
  <2>1. InboxGrows BY <1>2, StayingInboxGrows DEF Poll
  <2>2. ItemsSound' BY <1>1, <1>2, <2>1, UnchangedInbox
  <2>3. i \in Rows' BY <2>1 DEF InboxGrows
  <2>4. CallsSound' BY <1>1, <1>2, <2>1, <2>2, <2>3, CallStarts
  <2>5. faults' \in 0..plot'.faults /\ faults' = faults BY <1>1 DEF Poll, InboxTyped
  <2> QED BY <1>2, <2>4, <2>5, OnlyTheCallMoves DEF Poll
<1>3. ASSUME RoomForOwn, item' = Append(item, NewRow("rss", Nothing, "new", FALSE)),
             Start(c, "poll", Len(item) + 1)
      PROVE  InboxSound'
  <2>1. PICK row : row = NewRow("rss", Nothing, "new", FALSE) OBVIOUS
  <2>2. row \in Items /\ ~row.entry /\ row.status # "fetching"
    BY <2>1 DEF NewRow, Items, Statuses, Contents
  <2>3. PICK id : id = Len(item) + 1 OBVIOUS
  <2>4. Len(item) < MaxItems /\ plot' = plot BY <1>3 DEF RoomForOwn, Poll
  <2>5. InboxGrows /\ ItemsSound' /\ id \in Rows' BY <1>1, <1>3, <2>1, <2>2, <2>3, <2>4, RowIsAdded
  <2>6. CallsSound' BY <1>1, <1>3, <2>3, <2>5, CallStarts
  <2> QED BY <1>3, <2>1, <2>2, <2>6, CallAddsARow DEF Poll
<1> QED BY <1>2, <1>3 DEF Poll

\* One status is written, by a step that takes attention from nobody.
LEMMA AStatusIsWritten ==
  ASSUME InboxSound, plot' = plot, NEW i \in Rows, NEW status \in Statuses, SetStatus(i, status),
         item[i].entry => status # "new", KeepsAttention,
         left' \subseteq Rows, \A j \in left : j = i \/ j \in left',
         status = "fetching" => Attended(i)' \/ i \in left',
         JobsSound', CallsSound', FetchersSound',
         decisions' \in 0..plot'.decisions, faults' \in 0..plot'.faults, faults' \in {faults, faults + 1}
  PROVE  InboxSound'
<1>1. InboxTyped BY DEF InboxSound
<1>2. /\ InboxGrows /\ ItemsSound' /\ Rows' = Rows /\ item'[i].status = status
      /\ \A j \in Rows : j # i => item'[j] = item[j]
  BY <1>1, StatusIsSet
<1>3. \A j \in Rows : j # i => item'[j] = item[j] /\ (j \in left => j \in left') BY <1>2
<1>4. NothingIsForgotten' BY <1>2, <1>3, OneRowIsWritten
<1>5. InboxTyped' BY <1>1, <1>2 DEF InboxTyped
<1> QED BY <1>4, <1>5 DEF InboxSound

\* No status is written, by a step that takes attention from nobody.
LEMMA NoStatusIsWritten ==
  ASSUME InboxSound, KeepsAttention,
         JobsSound', CallsSound', FetchersSound', UNCHANGED <<plot, item, left, decisions>>,
         faults' \in 0..plot'.faults, faults' \in {faults, faults + 1}
  PROVE  InboxSound'
<1>1. InboxTyped /\ InboxGrows BY StayingInboxGrows DEF InboxSound
<1>2. NothingIsForgotten' BY NoRowIsWritten
<1>3. plot' \in Plots /\ ItemsSound' /\ left' \subseteq Rows' /\ decisions' \in 0..plot'.decisions
  BY <1>1, UnchangedInbox
<1>4. InboxTyped' BY <1>3 DEF InboxTyped
<1> QED BY <1>2, <1>4 DEF InboxSound

LEMMA AutoAdoptKeeps ==
  ASSUME InboxSound, NEW c \in Calls, AutoAdopt(c)
  PROVE  InboxSound'
<1>1. InboxTyped BY DEF InboxSound
<1>2. PICK i : i = call[c].item OBVIOUS
<1>3. i \in Rows BY <1>1, <1>2 DEF AutoAdopt, CallAt, InboxTyped, CallsSound, SoundCall
<1>4. /\ Return(c) /\ UNCHANGED <<plot, queue, worker, decisions, faults, left>>
      /\ SetStatus(i, "adopted") \/ UNCHANGED item
  BY <1>2 DEF AutoAdopt
<1>5. Waiting \subseteq Waiting' BY <1>4 DEF Waiting
<1>6. KeepsAttention BY <1>4, <1>5, OthersKeepAttention
<1>7. "adopted" \in Statuses BY DEF Statuses
<1>8. InboxGrows BY <1>1, <1>3, <1>4, <1>7, StatusIsSet, StayingInboxGrows
<1>9. /\ CallsSound' /\ JobsSound' /\ FetchersSound' /\ left' \subseteq Rows
      /\ decisions' \in 0..plot'.decisions /\ faults' \in 0..plot'.faults
  BY <1>1, <1>4, <1>8, CallReturns, UnchangedInbox DEF InboxTyped
<1>10. CASE SetStatus(i, "adopted") BY <1>3, <1>4, <1>6, <1>7, <1>9, <1>10, AStatusIsWritten
<1>11. CASE UNCHANGED item BY <1>4, <1>6, <1>9, <1>11, NoStatusIsWritten
<1> QED BY <1>4, <1>10, <1>11

\* A call whose job or whose mark fails.
LEMMA NotQueuedKeeps ==
  ASSUME InboxSound, NEW c \in Calls, CallAt(c, "enqueue") \/ CallAt(c, "mark"), NotQueued(c),
         queue' = Send({call[c].item}, queue) \/ UNCHANGED queue,
         UNCHANGED <<plot, worker, decisions, left>>
  PROVE  InboxSound'
<1>1. InboxTyped BY DEF InboxSound
<1>2. PICK i : i = call[c].item OBVIOUS
<1>3. i \in Rows /\ (call[c].kind = "submit" => ~item[i].entry)
  BY <1>1, <1>2 DEF CallAt, InboxTyped, CallsSound, SoundCall
<1>4. /\ Return(c) /\ faults' = faults + 1
      /\ \/ call[c].kind = "submit" /\ SetStatus(i, "new")
         \/ item' = item
  BY <1>2 DEF NotQueued
<1>5. "new" \in Statuses BY DEF Statuses
<1>6. InboxGrows BY <1>1, <1>3, <1>4, <1>5, StatusIsSet, StayingInboxGrows
<1>7. JobsSound' /\ Waiting \subseteq Waiting'
  <2>1. CASE UNCHANGED queue BY <1>1, <1>6, <2>1, UnchangedInbox DEF Waiting
  <2>2. CASE queue' = Send({i}, queue)
    <3>1. {i} \in SUBSET Rows BY <1>3
    <3> QED BY <1>1, <1>6, <2>2, <3>1, SentIsSound
  <2> QED BY <1>2, <2>1, <2>2
<1>8. KeepsAttention BY <1>7, OthersKeepAttention
<1>9. CallsSound' BY <1>1, <1>4, <1>6, CallReturns
<1>10. FetchersSound' /\ left' \subseteq Rows /\ decisions' \in 0..plot'.decisions
  BY <1>1, <1>6, UnchangedInbox DEF InboxTyped
<1>11. plot.faults \in Nat /\ faults \in 0..plot.faults BY <1>1, InboxBounds DEF InboxTyped
<1>12. faults' \in 0..plot'.faults BY <1>11 DEF NotQueued
<1>13. CASE call[c].kind = "submit" /\ SetStatus(i, "new")
  BY <1>3, <1>4, <1>5, <1>7, <1>8, <1>9, <1>10, <1>12, <1>13, AStatusIsWritten
<1>14. CASE item' = item
  BY <1>4, <1>7, <1>8, <1>9, <1>10, <1>12, <1>14, NoStatusIsWritten
<1> QED BY <1>4, <1>13, <1>14

LEMMA EnqueueKeeps ==
  ASSUME InboxSound, NEW c \in Calls, Enqueue(c)
  PROVE  InboxSound'
<1>1. InboxTyped BY DEF InboxSound
<1>2. CallAt(c, "enqueue") /\ UNCHANGED <<plot, worker, decisions, left>> BY DEF Enqueue
<1>3. ASSUME queue' = Send({call[c].item}, queue), CallGoes(c, "mark"), UNCHANGED <<item, faults>>
      PROVE  InboxSound'
  <2>1. PICK old : old = call[c] OBVIOUS
  <2>2. SoundCall(old) /\ old.step = "enqueue"
    BY <1>1, <1>2, <2>1 DEF CallAt, InboxTyped, CallsSound
  <2>3. PICK k : k = [old EXCEPT !.step = "mark"] OBVIOUS
  <2>4. k \in CallStates /\ k.item = old.item /\ k.kind = old.kind
    BY <2>2, <2>3 DEF SoundCall, CallStates
  <2>5. InboxGrows BY <1>2, <1>3, StayingInboxGrows
  <2>6. SoundCall(k) BY <2>2, <2>4 DEF SoundCall
  <2>7. SoundCall(k)' BY <2>5, <2>6, CallStaysSound
  <2>8. call' = [call EXCEPT ![c] = k] BY <1>3, <2>1, <2>3 DEF CallGoes
  <2>9. CallsSound' BY <1>1, <2>5, <2>7, <2>8, CallMoves
  <2>10. {old.item} \in SUBSET Rows BY <2>2 DEF SoundCall
  <2>11. JobsSound' /\ Waiting \subseteq Waiting' BY <1>1, <1>3, <2>1, <2>5, <2>10, SentIsSound
  <2>12. KeepsAttention BY <1>2, <2>11, OthersKeepAttention
  <2>13. FetchersSound' /\ faults' \in 0..plot'.faults BY <1>1, <1>2, <1>3, <2>5, UnchangedInbox
  <2> QED BY <1>2, <1>3, <2>9, <2>11, <2>12, <2>13, NoStatusIsWritten
<1>4. ASSUME NotQueued(c), queue' = Send({call[c].item}, queue) \/ UNCHANGED queue PROVE InboxSound'
  BY <1>2, <1>4, NotQueuedKeeps
<1> QED BY <1>3, <1>4 DEF Enqueue

\* The mark attends to nobody: the item is left, if it has no job any more.
LEMMA MarkKeeps ==
  ASSUME InboxSound, NEW c \in Calls, Mark(c)
  PROVE  InboxSound'
<1>1. InboxTyped BY DEF InboxSound
<1>2. CallAt(c, "mark") /\ UNCHANGED <<plot, queue, worker, decisions>> BY DEF Mark
<1>3. PICK i : i = call[c].item OBVIOUS
<1>4. i \in Rows BY <1>1, <1>2, <1>3 DEF CallAt, InboxTyped, CallsSound, SoundCall
<1>5. ASSUME SetStatus(i, "fetching"), left' = IF Attended(i) THEN left ELSE left \cup {i},
             Return(c), UNCHANGED faults
      PROVE  InboxSound'
  <2>1. "fetching" \in Statuses /\ "fetching" # "new" BY DEF Statuses
  <2>2. InboxGrows BY <1>1, <1>2, <1>4, <1>5, <2>1, StatusIsSet
  <2>3. Waiting \subseteq Waiting' BY <1>2 DEF Waiting
  <2>4. KeepsAttention BY <1>2, <2>3, OthersKeepAttention
  <2>5. left' \subseteq Rows /\ (\A j \in left : j \in left') /\ (Attended(i)' \/ i \in left')
    BY <1>1, <1>4, <1>5, <2>4 DEF InboxTyped, KeepsAttention
  <2>6. /\ CallsSound' /\ JobsSound' /\ FetchersSound'
        /\ decisions' \in 0..plot'.decisions /\ faults' \in 0..plot'.faults
    BY <1>1, <1>2, <1>5, <2>2, CallReturns, UnchangedInbox
  <2> QED BY <1>2, <1>4, <1>5, <2>1, <2>4, <2>5, <2>6, AStatusIsWritten
<1>6. ASSUME NotQueued(c), UNCHANGED left PROVE InboxSound'
  BY <1>2, <1>6, NotQueuedKeeps
<1> QED BY <1>3, <1>5, <1>6 DEF Mark

LEMMA DecideKeeps ==
  ASSUME InboxSound, NEW i \in ItemIds, NEW status \in Decided, Decide(i, status)
  PROVE  InboxSound'
<1>1. InboxTyped BY DEF InboxSound
<1>2. /\ i \in Rows /\ SetStatus(i, status) /\ left' = left \ {i}
      /\ decisions < plot.decisions /\ decisions' = decisions + 1
      /\ UNCHANGED <<plot, queue, call, worker, faults>>
  BY DEF Decide
<1>3. status \in Statuses /\ status # "new" /\ status # "fetching" BY DEF Decided, Statuses
<1>4. InboxGrows BY <1>1, <1>2, <1>3, StatusIsSet
<1>5. Waiting \subseteq Waiting' BY <1>2 DEF Waiting
<1>6. KeepsAttention BY <1>2, <1>5, OthersKeepAttention
<1>7. CallsSound' /\ JobsSound' /\ FetchersSound' /\ faults' \in 0..plot'.faults
  BY <1>1, <1>2, <1>4, UnchangedInbox
<1>8. decisions' \in 0..plot'.decisions
  <2>1. plot.decisions \in Nat /\ decisions \in 0..plot.decisions BY <1>1, InboxBounds DEF InboxTyped
  <2> QED BY <1>2, <2>1
<1>9. left' \subseteq Rows /\ \A j \in left : j = i \/ j \in left' BY <1>1, <1>2 DEF InboxTyped
<1> QED BY <1>2, <1>3, <1>6, <1>7, <1>8, <1>9, AStatusIsWritten

LEMMA TakeKeeps ==
  ASSUME InboxSound, NEW w \in Fetchers, NEW i \in ItemIds, Take(w, i)
  PROVE  InboxSound'
<1>1. InboxTyped BY DEF InboxSound
<1>2. /\ Doing(w, "idle") /\ UNCHANGED <<plot, item, call, decisions, faults, left>> BY DEF Take
<1>3. PICK job \in Waiting :
        /\ queue' = queue (-) SetToBag({job})
        /\ worker' = [worker EXCEPT ![w] = [NoWork EXCEPT !.step = "claim", !.item = job.item,
                                                          !.tries = job.tries]]
  BY DEF Take
<1>4. InboxGrows BY <1>2, StayingInboxGrows
<1>5. JobsSound' /\ Waiting \subseteq Waiting' \cup {job} BY <1>1, <1>3, <1>4, JobIsTaken
<1>6. PICK u : u = [NoWork EXCEPT !.step = "claim", !.item = job.item, !.tries = job.tries] OBVIOUS
<1>7. job \in Jobs /\ job.item \in Rows BY <1>1 DEF InboxTyped, JobsSound
<1>8. MaxAttempts \in Nat \ {0} BY <1>1, InboxBounds DEF InboxTyped
<1>9. u \in WorkerStates /\ u.step = "claim" /\ u.item = job.item /\ u.created = {}
  <2>1. job.item \in ItemIds /\ job.tries \in 0..RetryLimit /\ 1 \in 1..MaxAttempts
    BY <1>7, <1>8 DEF Jobs
  <2> QED BY <1>6, <2>1 DEF NoWork, WorkerStates, WorkerSteps
<1>10. SoundFetch(u) BY <1>1, <1>7, <1>9, NothingCreated DEF SoundFetch, InboxTyped
<1>11. SoundFetch(u)' BY <1>4, <1>10, FetchStaysSound
<1>12. worker' = [worker EXCEPT ![w] = u] BY <1>3, <1>6
<1>13. FetchersSound' BY <1>1, <1>4, <1>11, <1>12, FetcherStaysSound
<1>14. worker'[w] = u /\ \A v \in Fetchers : v # w => worker'[v] = worker[v]
  BY <1>1, <1>12, FetcherMoves
<1>15. worker[w].step = "idle" /\ worker[w].created = {}
  BY <1>1, <1>2 DEF Doing, InboxTyped, FetchersSound, SoundFetch
<1>16. KeepsAttention
  <2>1. ASSUME NEW n, Attended(n) PROVE Attended(n)'
    <3>1. ASSUME NEW j \in Waiting, j.item = n PROVE Attended(n)'
      <4>1. CASE j \in Waiting' BY <3>1, <4>1 DEF Attended
      <4>2. CASE j = job
        <5>1. worker'[w].step # "idle" /\ worker'[w].item = n BY <1>9, <1>14, <3>1, <4>2
        <5> QED BY <5>1 DEF Attended
      <4> QED BY <1>5, <4>1, <4>2
    <3>2. ASSUME NEW v \in Fetchers, worker[v].step # "idle" /\ worker[v].item = n PROVE Attended(n)'
      <4>1. worker'[v] = worker[v] BY <1>14, <1>15, <3>2
      <4> QED BY <3>2, <4>1 DEF Attended
    <3> QED BY <2>1, <3>1, <3>2 DEF Attended
  <2>2. ASSUME NEW n, Sending(n) PROVE Sending(n)' BY <1>14, <1>15, <2>2 DEF Sending
  <2> QED BY <2>1, <2>2 DEF KeepsAttention
<1>17. CallsSound' /\ faults' \in 0..plot'.faults BY <1>1, <1>2, <1>4, UnchangedInbox
<1> QED BY <1>2, <1>5, <1>13, <1>16, <1>17, NoStatusIsWritten

\* A worker that goes on has a row.
LEMMA MineIsARow ==
  ASSUME InboxTyped, NEW w \in Fetchers, ~Doing(w, "idle")
  PROVE  Mine(w) \in Rows
BY DEF InboxTyped, FetchersSound, SoundFetch, Doing, Mine

\* The job of an item that is not being fetched, and is no entry whose job is still to
\* come, is done.
LEMMA DoneKeeps ==
  ASSUME InboxSound, NEW w \in Fetchers, ~Doing(w, "idle"), ~Doing(w, "send"), Done(w),
         Status(Mine(w)) # "fetching", item[Mine(w)].entry => Status(Mine(w)) # "new",
         UNCHANGED <<plot, item, call, decisions, left>>
  PROVE  InboxSound'
<1>1. InboxTyped /\ InboxGrows BY StayingInboxGrows DEF InboxSound
<1>2. PICK i : i = Mine(w) OBVIOUS
<1>3. /\ JobsSound' /\ FetchersSound'
      /\ faults' \in 0..plot'.faults /\ faults' \in {faults, faults + 1}
      /\ \A j : j # i => (Attended(j) => Attended(j)')
      /\ \A j : Sending(j) => Sending(j)'
  BY <1>1, <1>2, DoneIsSound
<1>4. Rows' = Rows /\ \A j : Status(j)' = Status(j) /\ item'[j] = item[j] BY DEF Rows, Status
<1>5. FetchingIsAttended'
  <2>1. ASSUME NEW j \in Rows', Status(j)' = "fetching"
        PROVE  /\ j \in Rows /\ Status(j) = "fetching"
               /\ (Attended(j) => Attended(j)') /\ (j \in left => j \in left')
    <3>1. j # i BY <1>2, <1>4, <2>1
    <3> QED BY <1>3, <1>4, <2>1, <3>1
  <2> QED BY <2>1, FetchingStaysAttended
<1>6. EntriesAreSent'
  <2>1. ASSUME NEW j \in Rows', item'[j].entry /\ Status(j)' = "new"
        PROVE  j \in Rows /\ (Attended(j) => Attended(j)') /\ (Sending(j) => Attended(j)' \/ Sending(j)')
    <3>1. j # i BY <1>2, <1>4, <2>1
    <3> QED BY <1>3, <1>4, <2>1, <3>1
  <2> QED BY <1>1, <1>3, <2>1, EntriesStaySent
<1>7. /\ plot' \in Plots /\ decisions' \in 0..plot'.decisions /\ left' \subseteq Rows'
      /\ ItemsSound' /\ CallsSound'
  BY <1>1, UnchangedInbox
<1>8. InboxTyped' BY <1>3, <1>7 DEF InboxTyped
<1> QED BY <1>5, <1>6, <1>8 DEF InboxSound, NothingIsForgotten

\* Nothing but the place of a worker, in its job, and its count of faults changes.
LEMMA OnlyTheFetcherMoves ==
  ASSUME InboxSound, FetchersSound', Waiting \subseteq Waiting' => KeepsAttention,
         faults' \in 0..plot'.faults, faults' \in {faults, faults + 1},
         UNCHANGED <<plot, item, queue, call, decisions, left>>
  PROVE  InboxSound'
<1>1. InboxTyped /\ InboxGrows BY StayingInboxGrows DEF InboxSound
<1>2. KeepsAttention BY DEF Waiting
<1>3. CallsSound' /\ JobsSound' BY <1>1, UnchangedInbox
<1> QED BY <1>2, <1>3, NoStatusIsWritten

LEMMA ClaimKeeps ==
  ASSUME InboxSound, NEW w \in Fetchers, Claim(w)
  PROVE  InboxSound'
<1>1. InboxTyped /\ InboxGrows BY StayingInboxGrows DEF InboxSound, Claim
<1>2. Doing(w, "claim") /\ UNCHANGED <<plot, item, call, decisions, left>> BY DEF Claim
<1>3. ~Doing(w, "idle") /\ ~Doing(w, "send") BY <1>2 DEF Doing
<1>4. CASE Status(Mine(w)) \notin {"new", "fetching"} /\ Done(w)
  BY <1>2, <1>3, <1>4, DoneKeeps
<1>5. CASE /\ Status(Mine(w)) \in {"new", "fetching"}
           /\ Turn(w, IF Status(Mine(w)) = "new" THEN "claiming" ELSE "fetch")
           /\ UNCHANGED <<queue, faults>>
  <2>1. PICK step : step = IF Status(Mine(w)) = "new" THEN "claiming" ELSE "fetch" OBVIOUS
  <2>2. step \in WorkerSteps \ {"idle", "send"} /\ step \in {"claiming", "fetch"} /\ Turn(w, step)
    BY <1>5, <2>1 DEF WorkerSteps
  <2>3. step = "fetch" => item'[Mine(w)].status # "new" BY <1>2, <1>5, <2>1 DEF Status
  <2>4. FetchersSound' /\ (Waiting \subseteq Waiting' => KeepsAttention)
    BY <1>1, <1>3, <2>2, <2>3, FetcherTurns
  <2>5. faults' \in 0..plot'.faults BY <1>1, <1>5, UnchangedInbox
  <2> QED BY <1>2, <1>5, <2>4, <2>5, OnlyTheFetcherMoves
<1> QED BY <1>4, <1>5 DEF Claim

LEMMA ClaimingKeeps ==
  ASSUME InboxSound, NEW w \in Fetchers, Claiming(w)
  PROVE  InboxSound'
<1>1. InboxTyped BY DEF InboxSound
<1>2. Doing(w, "claiming") /\ UNCHANGED <<plot, queue, call, decisions, faults, left>> BY DEF Claiming
<1>3. ~Doing(w, "idle") /\ ~Doing(w, "send") BY <1>2 DEF Doing
<1>4. PICK i : i = Mine(w) OBVIOUS
<1>5. i \in Rows /\ SetStatus(i, "fetching") /\ Turn(w, "fetch")
  BY <1>1, <1>3, <1>4, MineIsARow DEF Claiming
<1>6. "fetching" \in Statuses /\ "fetching" # "new" BY DEF Statuses
<1>7. InboxGrows /\ item'[i].status = "fetching" BY <1>1, <1>2, <1>5, <1>6, StatusIsSet
<1>8. FetchersSound' /\ (Waiting \subseteq Waiting' => KeepsAttention)
  <2>1. "fetch" \in WorkerSteps \ {"idle", "send"} BY DEF WorkerSteps
  <2> QED BY <1>1, <1>3, <1>4, <1>5, <1>6, <1>7, <2>1, FetcherTurns
<1>9. KeepsAttention BY <1>2, <1>8 DEF Waiting
<1>10. Attended(i)'
  <2>1. Attended(i) BY <1>3, <1>4 DEF Attended, Doing, Mine
  <2> QED BY <1>9, <2>1 DEF KeepsAttention
<1>11. /\ JobsSound' /\ CallsSound' /\ decisions' \in 0..plot'.decisions /\ faults' \in 0..plot'.faults
  BY <1>1, <1>2, <1>7, UnchangedInbox
<1>12. left' \subseteq Rows /\ \A j \in left : j = i \/ j \in left' BY <1>1, <1>2 DEF InboxTyped
<1> QED BY <1>2, <1>5, <1>6, <1>8, <1>9, <1>10, <1>11, <1>12, AStatusIsWritten

LEMMA FetchKeeps ==
  ASSUME InboxSound, NEW w \in Fetchers, Fetch(w)
  PROVE  InboxSound'
<1>1. InboxTyped /\ InboxGrows BY StayingInboxGrows DEF InboxSound, Fetch
<1>2. Doing(w, "fetch") /\ UNCHANGED <<plot, item, call, decisions, left>> BY DEF Fetch
<1>3. ~Doing(w, "idle") /\ ~Doing(w, "send") BY <1>2 DEF Doing
<1>4. PICK old : old = worker[w] OBVIOUS
<1>5. SoundFetch(old) /\ old.item = Mine(w) /\ old.step = "fetch" /\ old.created = {}
  BY <1>1, <1>2, <1>4 DEF InboxTyped, FetchersSound, SoundFetch, Doing, Mine
<1>6. CASE Status(Mine(w)) \notin {"new", "fetching"} /\ Done(w)
  BY <1>2, <1>3, <1>6, DoneKeeps
<1>7. ASSUME Turn(w, IF item[Mine(w)].channel = "rss" THEN "entries" ELSE "complete"),
             UNCHANGED <<queue, faults>>
      PROVE  InboxSound'
  <2>1. PICK step : step = IF item[Mine(w)].channel = "rss" THEN "entries" ELSE "complete" OBVIOUS
  <2>2. step \in WorkerSteps \ {"idle", "send"} /\ step \in {"entries", "complete"} /\ Turn(w, step)
    BY <1>7, <2>1 DEF WorkerSteps
  <2>3. step = "entries" => item[Mine(w)].channel = "rss" BY <2>1
  <2>4. item[Mine(w)].entry => item'[Mine(w)].status # "new"
    <3>1. item[old.item].entry => item[old.item].status # "new" BY <1>5 DEF SoundFetch, Status
    <3> QED BY <1>2, <1>5, <3>1
  <2>5. FetchersSound' /\ (Waiting \subseteq Waiting' => KeepsAttention)
    BY <1>1, <1>3, <2>2, <2>3, <2>4, FetcherTurns
  <2>6. faults' \in 0..plot'.faults BY <1>1, <1>7, UnchangedInbox
  <2> QED BY <1>2, <1>7, <2>5, <2>6, OnlyTheFetcherMoves
<1>8. ASSUME NEW permanent \in BOOLEAN, NextAttempt(w, permanent), UNCHANGED <<queue, faults>>
      PROVE  InboxSound'
  <2>1. FetchersSound' /\ (Waiting \subseteq Waiting' => KeepsAttention)
    BY <1>1, <1>3, <1>4, <1>5, <1>8, FetcherTriesAgain
  <2>2. faults' \in 0..plot'.faults BY <1>1, <1>8, UnchangedInbox
  <2> QED BY <1>2, <1>8, <2>1, <2>2, OnlyTheFetcherMoves
<1> QED BY <1>6, <1>7, <1>8 DEF Fetch

LEMMA ReadEntriesKeeps ==
  ASSUME InboxSound, NEW w \in Fetchers, ReadEntries(w)
  PROVE  InboxSound'
<1>1. InboxTyped /\ InboxGrows BY StayingInboxGrows DEF InboxSound, ReadEntries
<1>2. Doing(w, "entries") /\ UNCHANGED <<plot, item, queue, call, decisions, faults, left>>
  BY DEF ReadEntries
<1>3. ~Doing(w, "idle") BY <1>2 DEF Doing
<1>4. PICK old : old = worker[w] OBVIOUS
<1>5. /\ SoundFetch(old) /\ old \in WorkerStates /\ old.item = Mine(w) /\ old.created = {}
      /\ item[Mine(w)].channel = "rss"
  BY <1>1, <1>2, <1>4 DEF InboxTyped, FetchersSound, SoundFetch, Doing, Mine
<1>6. PICK fresh : fresh = NewEntries OBVIOUS
<1>7. fresh \subseteq Entries BY <1>6 DEF NewEntries
<1>8. PICK u : u = [old EXCEPT !.step = "creating", !.fresh = fresh] OBVIOUS
<1>9. u \in WorkerStates /\ u.step = "creating" /\ u.item = Mine(w) /\ u.created = {}
  BY <1>5, <1>7, <1>8 DEF WorkerStates, WorkerSteps
<1>10. worker' = [worker EXCEPT ![w] = u]
  BY <1>1, <1>4, <1>6, <1>8 DEF ReadEntries, InboxTyped, FetchersSound
<1>11. FetchersSound' BY <1>1, <1>3, <1>5, <1>9, <1>10, FetcherGoesOn
<1>12. Waiting \subseteq Waiting' => KeepsAttention
  BY <1>1, <1>4, <1>5, <1>9, <1>10, FetcherKeepsAttention
<1>13. faults' \in 0..plot'.faults BY <1>1, <1>2, UnchangedInbox
<1> QED BY <1>2, <1>11, <1>12, <1>13, OnlyTheFetcherMoves

LEMMA RowsStayNumbered ==
  ASSUME ItemsSound'
  PROVE  Rows' \subseteq ItemIds
<1>1. MaxItems \in Nat BY IntakeInboxAssumption
<1>2. Len(item') \in Nat /\ Rows' = 1..Len(item') /\ Len(item') <= MaxItems
  BY LenProperties DEF ItemsSound, Rows
<1> QED BY <1>1, <1>2 DEF ItemIds

\* The rows that a worker makes are the ones it is to send a job for.
LEMMA CreateEntriesKeeps ==
  ASSUME InboxSound, NEW w \in Fetchers, CreateEntries(w)
  PROVE  InboxSound'
<1>1. InboxTyped BY DEF InboxSound
<1>2. PICK old : old = worker[w] OBVIOUS
<1>3. PICK fresh : fresh = old.fresh OBVIOUS
<1>4. /\ SoundFetch(old) /\ old \in WorkerStates /\ old.step = "creating" /\ old.created = {}
      /\ old.item = Mine(w) /\ fresh \subseteq Entries
  BY <1>1, <1>2, <1>3
  DEF CreateEntries, Doing, Mine, InboxTyped, FetchersSound, SoundFetch, WorkerStates
<1>5. /\ UNCHANGED <<plot, queue, call, decisions, faults, left>>
      /\ item' = item \o Insertions(fresh) /\ Len(item) + Len(Insertions(fresh)) <= MaxItems
  BY <1>2, <1>3 DEF CreateEntries
<1>6. Len(item) + Cardinality(fresh) <= MaxItems BY <1>4, <1>5, InsertionsAre
<1>7. PICK ids : ids = {Len(item) + n : n \in DOMAIN Insertions(fresh)} OBVIOUS
<1>8. /\ InboxGrows /\ ItemsSound' /\ Rows' = Rows \cup ids
      /\ \A i \in Rows : item'[i] = item[i]
      /\ \A i \in Rows' \ Rows : item'[i].status = "new"
      /\ IsFiniteSet(ids) /\ Cardinality(ids) <= Cardinality(Entries)
  BY <1>1, <1>4, <1>5, <1>6, <1>7, EntriesAreAdded
<1>9. PICK u : u = [old EXCEPT !.step = "send", !.fresh = {}, !.created = ids] OBVIOUS
<1>10. worker' = [worker EXCEPT ![w] = u]
  <2>1. worker' = [worker EXCEPT ![w].step = "send", ![w].fresh = {}, ![w].created = ids]
    BY <1>2, <1>3, <1>7 DEF CreateEntries, Answer
  <2> QED BY <1>1, <1>2, <1>9, <2>1 DEF InboxTyped, FetchersSound
<1>11. ids \subseteq Rows' /\ ids \subseteq ItemIds BY <1>8, RowsStayNumbered
<1>12. u \in WorkerStates /\ u.step = "send" /\ u.created = ids /\ u.item = old.item
  BY <1>4, <1>9, <1>11 DEF WorkerStates, WorkerSteps
<1>13. SoundFetch(u)'
  <2>1. u.item \in Rows /\ item[u.item].channel = "rss" BY <1>4, <1>12 DEF SoundFetch
  <2>2. u.item \in Rows' /\ item'[u.item].channel = "rss" BY <1>8, <2>1
  <2> QED BY <1>8, <1>11, <1>12, <2>2 DEF SoundFetch
<1>14. FetchersSound' BY <1>1, <1>8, <1>10, <1>13, FetcherStaysSound
<1>15. Waiting \subseteq Waiting' BY <1>5 DEF Waiting
<1>16. KeepsAttention
  BY <1>1, <1>2, <1>4, <1>10, <1>12, <1>15, FetcherKeepsAttention
<1>17. worker'[w] = u BY <1>1, <1>10, FetcherMoves
<1>18. \A i \in Rows' \ Rows : Sending(i)' BY <1>8, <1>12, <1>17 DEF Sending
<1>19. ASSUME NEW i \in Rows', Status(i)' = "fetching"
       PROVE  i \in Rows /\ Status(i) = "fetching" /\ (i \in left => i \in left')
  <2>1. item'[i].status = "fetching" BY <1>19 DEF Status
  <2>2. i \in Rows BY <1>8, <2>1
  <2> QED BY <1>5, <1>8, <2>1, <2>2 DEF Status
<1>20. NothingIsForgotten' BY <1>5, <1>8, <1>16, <1>18, <1>19, NothingMoreForgotten
<1>21. /\ plot' \in Plots /\ decisions' \in 0..plot'.decisions /\ faults' \in 0..plot'.faults
       /\ left' \subseteq Rows' /\ JobsSound' /\ CallsSound'
  BY <1>1, <1>5, <1>8, UnchangedInbox
<1>22. InboxTyped' BY <1>8, <1>14, <1>21 DEF InboxTyped
<1> QED BY <1>20, <1>22 DEF InboxSound

LEMMA SendEntriesKeeps ==
  ASSUME InboxSound, NEW w \in Fetchers, SendEntries(w)
  PROVE  InboxSound'
<1>1. InboxTyped /\ InboxGrows BY StayingInboxGrows DEF InboxSound, SendEntries
<1>2. PICK old : old = worker[w] OBVIOUS
<1>3. /\ SoundFetch(old) /\ old \in WorkerStates /\ old.step = "send"
      /\ old.item = Mine(w) /\ old.created \subseteq Rows /\ Mine(w) \in Rows
  BY <1>1, <1>2 DEF SendEntries, Doing, Mine, InboxTyped, FetchersSound, SoundFetch
<1>4. UNCHANGED <<plot, item, call, decisions, left>> /\ ~Doing(w, "idle")
  BY <1>2, <1>3 DEF SendEntries, Doing
<1>5. ~item[Mine(w)].entry
  <2>1. item[old.item].channel = "rss" BY <1>3 DEF SoundFetch
  <2> QED BY <1>1, <1>3, <2>1 DEF InboxTyped, ItemsSound
<1>6. ASSUME queue' = Send(worker[w].created, queue), UNCHANGED faults,
             worker' = [worker EXCEPT ![w].step = "complete", ![w].created = {}]
      PROVE  InboxSound'
  <2>1. JobsSound' /\ Waiting \subseteq Waiting' /\ \A i \in old.created : \E job \in Waiting' : job.item = i
    BY <1>1, <1>2, <1>3, <1>6, SentIsSound
  <2>2. PICK u : u = [old EXCEPT !.step = "complete", !.created = {}] OBVIOUS
  <2>3. u \in WorkerStates /\ u.step = "complete" /\ u.item = Mine(w) /\ u.created = {}
    BY <1>3, <2>2 DEF WorkerStates, WorkerSteps
  <2>4. worker' = [worker EXCEPT ![w] = u] BY <1>1, <1>2, <1>6, <2>2 DEF InboxTyped, FetchersSound
  <2>5. FetchersSound' BY <1>1, <1>4, <1>5, <2>3, <2>4, FetcherGoesOn
  <2>6. KeepsAttention BY <1>1, <1>2, <2>1, <2>3, <2>4, FetcherKeepsAttention
  <2>7. CallsSound' /\ faults' \in 0..plot'.faults BY <1>1, <1>4, <1>6, UnchangedInbox
  <2> QED BY <1>4, <1>6, <2>1, <2>5, <2>6, <2>7, NoStatusIsWritten
<1>7. ASSUME faults < plot.faults, faults' = faults + 1, NextAttempt(w, FALSE),
             NEW S \in SUBSET worker[w].created, queue' = Send(S, queue)
      PROVE  InboxSound'
  <2>1. S \in SUBSET Rows BY <1>2, <1>3
  <2>2. JobsSound' /\ Waiting \subseteq Waiting' BY <1>1, <1>7, <2>1, SentIsSound
  <2>3. /\ FetchersSound'
        /\ \A i : /\ Attended(i) => Attended(i)'
                  /\ i \notin old.created => (Sending(i) => Sending(i)')
    BY <1>1, <1>2, <1>4, <1>7, <2>2, FetcherTriesAgain
  <2>4. Rows' = Rows /\ \A i : Status(i)' = Status(i) /\ item'[i] = item[i] BY <1>4 DEF Rows, Status
  <2>5. FetchingIsAttended'
    <3>1. \A i \in Rows' : Status(i)' = "fetching" =>
            /\ i \in Rows /\ Status(i) = "fetching"
            /\ (Attended(i) => Attended(i)') /\ (i \in left => i \in left')
      BY <1>4, <2>3, <2>4
    <3> QED BY <3>1, FetchingStaysAttended
  <2>6. EntriesAreSent'
    <3>1. \A i \in Rows' : item'[i].entry /\ Status(i)' = "new" =>
            \/ i \in old.created
            \/ i \in Rows /\ (Attended(i) => Attended(i)') /\ (Sending(i) => Attended(i)' \/ Sending(i)')
      BY <2>3, <2>4
    <3>2. IsFiniteSet(old.created) /\ Cardinality(old.created) <= Cardinality(Entries)
      BY <1>3 DEF SoundFetch
    <3> QED BY <1>1, <1>7, <3>1, <3>2, EntriesStaySent
  <2>7. faults' \in 0..plot'.faults
    <3>1. plot.faults \in Nat /\ faults \in 0..plot.faults BY <1>1, InboxBounds DEF InboxTyped
    <3> QED BY <1>4, <1>7, <3>1
  <2>8. /\ plot' \in Plots /\ decisions' \in 0..plot'.decisions /\ left' \subseteq Rows'
        /\ ItemsSound' /\ CallsSound'
    BY <1>1, <1>4, UnchangedInbox
  <2>9. InboxTyped' BY <2>2, <2>3, <2>7, <2>8 DEF InboxTyped
  <2> QED BY <2>5, <2>6, <2>9 DEF InboxSound, NothingIsForgotten
<1> QED BY <1>6, <1>7 DEF SendEntries

LEMMA CompleteKeeps ==
  ASSUME InboxSound, NEW w \in Fetchers, Complete(w)
  PROVE  InboxSound'
<1>1. InboxTyped /\ InboxGrows BY StayingInboxGrows DEF InboxSound, Complete
<1>2. Doing(w, "complete") /\ UNCHANGED <<plot, item, call, decisions, left>> BY DEF Complete
<1>3. ~Doing(w, "idle") /\ ~Doing(w, "send") BY <1>2 DEF Doing
<1>4. item[Mine(w)].entry => Status(Mine(w)) # "new"
  BY <1>1, <1>2 DEF InboxTyped, FetchersSound, SoundFetch, Doing, Mine
<1>5. CASE Status(Mine(w)) \notin {"fetching", "ready"} /\ Done(w)
  BY <1>2, <1>3, <1>4, <1>5, DoneKeeps
<1>6. ASSUME Turn(w, "completing"), UNCHANGED <<queue, faults>> PROVE InboxSound'
  <2>1. "completing" \in WorkerSteps \ {"idle", "send"} BY DEF WorkerSteps
  <2>2. item[Mine(w)].entry => item'[Mine(w)].status # "new" BY <1>2, <1>4 DEF Status
  <2>3. FetchersSound' /\ (Waiting \subseteq Waiting' => KeepsAttention)
    BY <1>1, <1>3, <1>6, <2>1, <2>2, FetcherTurns
  <2>4. faults' \in 0..plot'.faults BY <1>1, <1>6, UnchangedInbox
  <2> QED BY <1>2, <1>6, <2>3, <2>4, OnlyTheFetcherMoves
<1> QED BY <1>5, <1>6 DEF Complete

\* The item of a job that is done is ready, or has failed.
LEMMA SettledKeeps ==
  ASSUME InboxSound, NEW w \in Fetchers, ~Doing(w, "idle"), ~Doing(w, "send"), Done(w),
         NEW status \in {"ready", "failed"}, SetStatus(Mine(w), status), left' = left \ {Mine(w)},
         UNCHANGED <<plot, call, decisions>>
  PROVE  InboxSound'
<1>1. InboxTyped BY DEF InboxSound
<1>2. PICK i : i = Mine(w) OBVIOUS
<1>3. i \in Rows /\ SetStatus(i, status) /\ left' = left \ {i} BY <1>1, <1>2, MineIsARow
<1>4. status \in Statuses /\ status # "new" /\ status # "fetching" BY DEF Statuses
<1>5. /\ InboxGrows /\ ItemsSound' /\ Rows' = Rows /\ item'[i].status = status
      /\ \A j \in Rows : j # i => item'[j] = item[j]
  BY <1>1, <1>3, <1>4, StatusIsSet
<1>6. /\ JobsSound' /\ FetchersSound'
      /\ faults' \in 0..plot'.faults /\ faults' \in {faults, faults + 1}
      /\ \A j : j # i => (Attended(j) => Attended(j)')
      /\ \A j : Sending(j) => Sending(j)'
  BY <1>1, <1>2, <1>5, DoneIsSound
<1>7. FetchingIsAttended'
  <2>1. ASSUME NEW j \in Rows', Status(j)' = "fetching"
        PROVE  /\ j \in Rows /\ Status(j) = "fetching"
               /\ (Attended(j) => Attended(j)') /\ (j \in left => j \in left')
    <3>1. j # i BY <1>4, <1>5, <2>1 DEF Status
    <3> QED BY <1>3, <1>5, <1>6, <2>1, <3>1 DEF Status
  <2> QED BY <2>1, FetchingStaysAttended
<1>8. EntriesAreSent'
  <2>1. ASSUME NEW j \in Rows', item'[j].entry /\ Status(j)' = "new"
        PROVE  j \in Rows /\ (Attended(j) => Attended(j)') /\ (Sending(j) => Attended(j)' \/ Sending(j)')
    <3>1. j # i BY <1>4, <1>5, <2>1 DEF Status
    <3> QED BY <1>5, <1>6, <3>1
  <2> QED BY <1>5, <1>6, <2>1, EntriesStaySent
<1>9. plot' \in Plots /\ decisions' \in 0..plot'.decisions /\ CallsSound'
  BY <1>1, <1>5, UnchangedInbox
<1>10. left' \subseteq Rows' BY <1>1, <1>3, <1>5 DEF InboxTyped
<1>11. InboxTyped' BY <1>5, <1>6, <1>9, <1>10 DEF InboxTyped
<1> QED BY <1>7, <1>8, <1>11 DEF InboxSound, NothingIsForgotten

LEMMA CompletingKeeps ==
  ASSUME InboxSound, NEW w \in Fetchers, Completing(w)
  PROVE  InboxSound'
<1>1. ~Doing(w, "idle") /\ ~Doing(w, "send") BY DEF Completing, Doing
<1>2. Done(w) /\ SetStatus(Mine(w), "ready") /\ left' = left \ {Mine(w)} BY DEF Completing
<1> QED BY <1>1, <1>2, SettledKeeps DEF Completing

LEMMA FailingKeeps ==
  ASSUME InboxSound, NEW w \in Fetchers, Failing(w)
  PROVE  InboxSound'
<1>1. ~Doing(w, "idle") /\ ~Doing(w, "send") BY DEF Failing, Doing
<1>2. Done(w) /\ SetStatus(Mine(w), "failed") /\ left' = left \ {Mine(w)} BY DEF Failing, RecordsFailure
<1> QED BY <1>1, <1>2, SettledKeeps DEF Failing

\* A job that ended without a result leaves its item fetching only if it is to be delivered
\* again or the queue gave it up, and forgets what its worker was to send, or the entry it
\* was to fetch.
LEMMA ThrowKeeps ==
  ASSUME InboxSound, InboxGrows, ItemsSound', NEW w \in Fetchers, ~Doing(w, "idle"), Throws(w),
         Rows' = Rows, NEW i, i = Mine(w), \A j \in Rows : j # i => item'[j] = item[j],
         \/ faults' = faults /\ item'[i].status # "new" /\ ~Doing(w, "send")
         \/ faults < plot.faults /\ faults' = faults + 1,
         UNCHANGED <<plot, call, decisions>>
  PROVE  InboxSound'
<1>1. InboxTyped BY DEF InboxSound
<1>2. PICK old : old = worker[w] OBVIOUS
<1>3. SoundFetch(old) /\ i \in Rows /\ old.item = i /\ (~Doing(w, "send") => old.created = {})
  BY <1>1, <1>2, MineIsARow DEF InboxTyped, FetchersSound, SoundFetch, Doing, Mine
<1>4. /\ JobsSound' /\ FetchersSound' /\ left \subseteq left' /\ left' \subseteq Rows'
      /\ \A j : j # i => (Attended(j) => Attended(j)')
      /\ \A j : j \notin old.created => (Sending(j) => Sending(j)')
      /\ Status(i)' = "fetching" => Attended(i)' \/ i \in left'
  BY <1>1, <1>2, ThrowsIsSound
<1>5. FetchingIsAttended'
  <2>1. ASSUME NEW j \in Rows', Status(j)' = "fetching"
        PROVE  \/ Attended(j)' \/ j \in left'
               \/ /\ j \in Rows /\ Status(j) = "fetching"
                  /\ (Attended(j) => Attended(j)') /\ (j \in left => j \in left')
    <3>1. CASE j = i BY <1>4, <2>1, <3>1
    <3>2. CASE j # i BY <1>4, <2>1, <3>2 DEF Status
    <3> QED BY <3>1, <3>2
  <2> QED BY <2>1, FetchingStaysAttended
<1>6. ASSUME NEW j \in Rows', j # i, j \notin old.created
      PROVE  j \in Rows /\ (Attended(j) => Attended(j)') /\ (Sending(j) => Attended(j)' \/ Sending(j)')
  BY <1>4, <1>6
<1>7. EntriesAreSent'
  <2>1. CASE faults' = faults /\ item'[i].status # "new" /\ ~Doing(w, "send")
    <3>1. ASSUME NEW j \in Rows', item'[j].entry /\ Status(j)' = "new"
          PROVE  j \in Rows /\ (Attended(j) => Attended(j)') /\ (Sending(j) => Attended(j)' \/ Sending(j)')
      <4>1. j # i /\ j \notin old.created BY <1>3, <2>1, <3>1 DEF Status
      <4> QED BY <1>6, <4>1
    <3> QED BY <2>1, <3>1, EntriesStaySent
  <2>2. CASE faults' = faults + 1 /\ Doing(w, "send")
    <3>1. ~item'[i].entry
      <4>1. item[i].channel = "rss" BY <1>2, <1>3, <2>2 DEF SoundFetch, Doing
      <4>2. ~item[i].entry BY <1>1, <1>3, <4>1 DEF InboxTyped, ItemsSound
      <4> QED BY <1>3, <4>2 DEF InboxGrows
    <3>2. ASSUME NEW j \in Rows', item'[j].entry /\ Status(j)' = "new"
          PROVE  \/ j \in old.created
                 \/ j \in Rows /\ (Attended(j) => Attended(j)') /\ (Sending(j) => Attended(j)' \/ Sending(j)')
      BY <1>6, <3>1, <3>2
    <3>3. IsFiniteSet(old.created) /\ Cardinality(old.created) <= Cardinality(Entries)
      BY <1>3 DEF SoundFetch
    <3> QED BY <2>2, <3>2, <3>3, EntriesStaySent
  <2>3. CASE faults' = faults + 1 /\ ~Doing(w, "send") /\ ~item[i].entry
    <3>1. ASSUME NEW j \in Rows', item'[j].entry /\ Status(j)' = "new"
          PROVE  j \in Rows /\ (Attended(j) => Attended(j)') /\ (Sending(j) => Attended(j)' \/ Sending(j)')
      <4>1. j # i BY <1>3, <2>3, <3>1 DEF InboxGrows
      <4> QED BY <1>3, <1>6, <2>3, <4>1
    <3> QED BY <2>3, <3>1, EntriesStaySent
  <2>4. CASE faults' = faults + 1 /\ ~Doing(w, "send") /\ item[i].entry
    <3>1. ASSUME NEW j \in Rows', item'[j].entry /\ Status(j)' = "new"
          PROVE  \/ j \in {i}
                 \/ j \in Rows /\ (Attended(j) => Attended(j)') /\ (Sending(j) => Attended(j)' \/ Sending(j)')
      <4>1. CASE j = i BY <4>1
      <4>2. CASE j # i BY <1>3, <1>6, <2>4, <4>2
      <4> QED BY <4>1, <4>2
    <3>2. IsFiniteSet({i}) /\ Cardinality({i}) = 1 BY FS_Singleton
    <3>3. 1 <= Cardinality(Entries)
      <4>1. item[i].content \in Entries BY <1>1, <1>3, <2>4 DEF InboxTyped, ItemsSound
      <4>2. IsFiniteSet(Entries) /\ Cardinality(Entries) \in Nat BY <1>1, InboxBounds DEF InboxTyped
      <4>3. Cardinality(Entries) # 0 BY <4>1, <4>2, FS_EmptySet
      <4> QED BY <4>2, <4>3
    <3>4. Cardinality({i}) <= Cardinality(Entries) BY <3>2, <3>3
    <3> QED BY <2>4, <3>1, <3>2, <3>4, EntriesStaySent
  <2> QED BY <2>1, <2>2, <2>3, <2>4
<1>8. faults' \in 0..plot'.faults
  <2>1. plot.faults \in Nat /\ faults \in 0..plot.faults BY <1>1, InboxBounds DEF InboxTyped
  <2> QED BY <2>1
<1>9. plot' \in Plots /\ decisions' \in 0..plot'.decisions /\ CallsSound' BY <1>1, UnchangedInbox
<1>10. InboxTyped' BY <1>4, <1>8, <1>9 DEF InboxTyped
<1> QED BY <1>5, <1>7, <1>10 DEF InboxSound, NothingIsForgotten

LEMMA FailKeeps ==
  ASSUME InboxSound, NEW w \in Fetchers, Fail(w)
  PROVE  InboxSound'
<1>1. InboxTyped /\ InboxGrows BY StayingInboxGrows DEF InboxSound, Fail
<1>2. Doing(w, "fail") /\ UNCHANGED <<plot, item, call, decisions, faults>> BY DEF Fail
<1>3. ~Doing(w, "idle") /\ ~Doing(w, "send") BY <1>2 DEF Doing
<1>4. ASSUME Turn(w, "failing"), UNCHANGED <<queue, left>> PROVE InboxSound'
  <2>1. "failing" \in WorkerSteps \ {"idle", "send"} BY DEF WorkerSteps
  <2>2. FetchersSound' /\ (Waiting \subseteq Waiting' => KeepsAttention)
    BY <1>1, <1>3, <1>4, <2>1, FetcherTurns
  <2>3. faults' \in 0..plot'.faults BY <1>1, <1>2, UnchangedInbox
  <2> QED BY <1>2, <1>4, <2>2, <2>3, OnlyTheFetcherMoves
<1>5. ASSUME Status(Mine(w)) \notin {"new", "fetching", "failed"}, Throws(w) PROVE InboxSound'
  <2>1. PICK i : i = Mine(w) OBVIOUS
  <2>2. ItemsSound' BY <1>1, <1>2, UnchangedInbox
  <2>3. Rows' = Rows /\ \A j \in Rows : item'[j] = item[j] BY <1>2 DEF Rows
  <2>4. item'[i].status # "new" BY <1>2, <1>5, <2>1 DEF Status
  <2> QED BY <1>1, <1>2, <1>3, <1>5, <2>1, <2>2, <2>3, <2>4, ThrowKeeps
<1> QED BY <1>4, <1>5 DEF Fail

LEMMA CrashKeeps ==
  ASSUME InboxSound, NEW w \in Fetchers, Crash(w)
  PROVE  InboxSound'
<1>1. InboxTyped BY DEF InboxSound
<1>2. PICK i : i = Mine(w) OBVIOUS
<1>3. /\ ~Doing(w, "idle") /\ faults < plot.faults /\ faults' = faults + 1 /\ Throws(w)
      /\ UNCHANGED <<plot, call, decisions>>
      /\ UNCHANGED item \/ SetStatus(i, "failed")
  BY <1>2 DEF Crash
<1>4. CASE UNCHANGED item
  <2>1. InboxGrows BY <1>3, <1>4, StayingInboxGrows
  <2>2. ItemsSound' BY <1>1, <1>4, <2>1, UnchangedInbox
  <2>3. Rows' = Rows /\ \A j \in Rows : item'[j] = item[j] BY <1>4 DEF Rows
  <2> QED BY <1>2, <1>3, <2>1, <2>2, <2>3, ThrowKeeps
<1>5. CASE SetStatus(i, "failed")
  <2>1. "failed" \in Statuses /\ "failed" # "new" BY DEF Statuses
  <2>2. i \in Rows BY <1>1, <1>2, <1>3, MineIsARow
  <2>3. /\ InboxGrows /\ ItemsSound' /\ Rows' = Rows
        /\ \A j \in Rows : j # i => item'[j] = item[j]
    BY <1>1, <1>3, <1>5, <2>1, <2>2, StatusIsSet
  <2> QED BY <1>2, <1>3, <2>3, ThrowKeeps
<1> QED BY <1>3, <1>4, <1>5

LEMMA UnansweredKeeps ==
  ASSUME InboxSound, NEW w \in Fetchers, Unanswered(w)
  PROVE  InboxSound'
<1>1. InboxTyped BY DEF InboxSound
<1>2. PICK old : old = worker[w] OBVIOUS
<1>3. PICK i : i = Mine(w) OBVIOUS
<1>4. PICK fresh : fresh = old.fresh OBVIOUS
<1>5. /\ faults < plot.faults /\ faults' = faults + 1 /\ NextAttempt(w, FALSE)
      /\ UNCHANGED <<plot, queue, call, decisions, left>>
      /\ \/ UNCHANGED item
         \/ SetStatus(i, "fetching") \/ SetStatus(i, "ready")
         \/ Len(item) + Cardinality(fresh) <= MaxItems /\ item' = item \o Insertions(fresh)
  BY <1>2, <1>3, <1>4 DEF Unanswered
<1>6. ~Doing(w, "idle") /\ ~Doing(w, "send") BY DEF Unanswered, Doing
<1>7. old.created = {} /\ fresh \subseteq Entries /\ i \in Rows
  BY <1>1, <1>2, <1>3, <1>4, <1>6, MineIsARow
  DEF InboxTyped, FetchersSound, SoundFetch, WorkerStates, Doing
<1>8. Waiting \subseteq Waiting' BY <1>5 DEF Waiting
<1>9. ASSUME InboxGrows
      PROVE  /\ FetchersSound' /\ KeepsAttention /\ Attended(i)'
             /\ JobsSound' /\ CallsSound' /\ left' \subseteq Rows' /\ plot' \in Plots
             /\ decisions' \in 0..plot'.decisions /\ faults' \in 0..plot'.faults
  <2>1. FetchersSound' /\ KeepsAttention
    BY <1>1, <1>2, <1>5, <1>6, <1>7, <1>8, <1>9, FetcherTriesAgain
  <2>2. Attended(i) BY <1>3, <1>6 DEF Attended, Doing, Mine
  <2>3. Attended(i)' BY <2>1, <2>2 DEF KeepsAttention
  <2>4. plot.faults \in Nat /\ faults \in 0..plot.faults BY <1>1, InboxBounds DEF InboxTyped
  <2>5. faults' \in 0..plot'.faults BY <1>5, <2>4
  <2> QED BY <1>1, <1>5, <1>9, <2>1, <2>3, <2>5, UnchangedInbox
<1>10. left' \subseteq Rows /\ left' = left BY <1>1, <1>5 DEF InboxTyped
<1>11. CASE UNCHANGED item
  <2>1. InboxGrows BY <1>5, <1>11, StayingInboxGrows
  <2> QED BY <1>5, <1>9, <1>11, <2>1, NoStatusIsWritten
<1>12. ASSUME NEW status \in {"fetching", "ready"}, SetStatus(i, status) PROVE InboxSound'
  <2>1. status \in Statuses /\ status # "new" BY DEF Statuses
  <2>2. InboxGrows BY <1>1, <1>5, <1>7, <1>12, <2>1, StatusIsSet
  <2> QED BY <1>5, <1>7, <1>9, <1>10, <1>12, <2>1, <2>2, AStatusIsWritten
<1>13. CASE Len(item) + Cardinality(fresh) <= MaxItems /\ item' = item \o Insertions(fresh)
  <2>1. PICK ids : ids = {Len(item) + n : n \in DOMAIN Insertions(fresh)} OBVIOUS
  <2>2. /\ InboxGrows /\ ItemsSound' /\ Rows' = Rows \cup ids
        /\ \A j \in Rows : item'[j] = item[j]
        /\ \A j \in Rows' \ Rows : item'[j].status = "new"
        /\ IsFiniteSet(ids) /\ Cardinality(ids) <= Cardinality(Entries)
    BY <1>1, <1>5, <1>7, <1>13, <2>1, EntriesAreAdded
  <2>3. FetchingIsAttended'
    <3>1. ASSUME NEW j \in Rows', Status(j)' = "fetching"
          PROVE  /\ j \in Rows /\ Status(j) = "fetching"
                 /\ (Attended(j) => Attended(j)') /\ (j \in left => j \in left')
      <4>1. item'[j].status = "fetching" BY <3>1 DEF Status
      <4>2. j \in Rows /\ item[j].status = "fetching" BY <2>2, <4>1
      <4> QED BY <1>9, <1>10, <2>2, <4>2 DEF Status, KeepsAttention
    <3> QED BY <3>1, FetchingStaysAttended
  <2>4. EntriesAreSent'
    <3>1. KeepsAttention BY <1>9, <2>2
    <3>2. \A j \in Rows' : item'[j].entry /\ Status(j)' = "new" =>
            \/ j \in ids
            \/ j \in Rows /\ (Attended(j) => Attended(j)') /\ (Sending(j) => Attended(j)' \/ Sending(j)')
      BY <2>2, <3>1 DEF KeepsAttention
    <3> QED BY <1>5, <2>2, <3>2, EntriesStaySent
  <2>5. InboxTyped' BY <1>9, <2>2 DEF InboxTyped
  <2> QED BY <2>3, <2>4, <2>5 DEF InboxSound, NothingIsForgotten
<1> QED BY <1>5, <1>11, <1>12, <1>13

(***************************************************************************)
(* IntakeInbox: the theorems.                                              *)
(***************************************************************************)
LEMMA InboxStarts ==
  ASSUME IntakeInit
  PROVE  InboxSound
<1>1. plot \in Plots /\ item = <<>> /\ faults = 0 /\ decisions = 0 /\ left = {} BY DEF IntakeInit
<1>2. Rows = {} BY <1>1 DEF Rows
<1>3. plot.decisions \in Nat /\ plot.faults \in Nat /\ MaxItems \in Nat /\ MaxAttempts \in Nat \ {0} /\ RetryLimit \in Nat
  BY <1>1, InboxBounds
<1>4. ItemsSound
  <2>1. item \in Seq(Items) /\ Len(item) = 0 BY <1>1, EmptySeq
  <2> QED BY <1>2, <1>3, <2>1 DEF ItemsSound
<1>5. JobsSound
  <2>1. IsABag(queue) /\ BagToSet(queue) = {} BY DEF IntakeInit, EmptyBag, IsABag, BagToSet, SetToBag
  <2> QED BY <2>1 DEF JobsSound, Waiting
<1>6. CallsSound
  <2>1. PICK k : k = NoCall OBVIOUS
  <2>2. k \in CallStates /\ k.item = NoItem /\ k.step = "idle" BY <2>1 DEF NoCall, CallStates, Contents
  <2>3. SoundCall(k) BY <2>2 DEF SoundCall
  <2> QED BY <2>1, <2>2, <2>3 DEF CallsSound, IntakeInit
<1>7. FetchersSound
  <2>1. PICK u : u = NoWork OBVIOUS
  <2>2. u \in WorkerStates /\ u.item = NoItem /\ u.step = "idle" /\ u.created = {}
    BY <1>3, <2>1 DEF NoWork, WorkerStates, WorkerSteps
  <2>3. SoundFetch(u) BY <1>1, <2>2, NothingCreated DEF SoundFetch
  <2> QED BY <2>1, <2>2, <2>3 DEF FetchersSound, IntakeInit
<1>8. InboxTyped BY <1>1, <1>3, <1>4, <1>5, <1>6, <1>7 DEF InboxTyped
<1>9. FetchingIsAttended BY <1>2 DEF FetchingIsAttended
<1>10. EntriesAreSent
  <2>1. Forgotten = {} BY <1>2 DEF Forgotten
  <2>2. Cardinality(Forgotten) = 0 BY <2>1, FS_EmptySet
  <2>3. Cardinality(Entries) \in Nat BY <1>1, InboxBounds
  <2>4. faults * Cardinality(Entries) \in Nat BY <1>1, <2>3, FaultsTimesEntries
  <2> QED BY <2>2, <2>4 DEF EntriesAreSent
<1> QED BY <1>8, <1>9, <1>10 DEF InboxSound, NothingIsForgotten

LEMMA InboxSoundIsKept ==
  ASSUME InboxSound, [IntakeNext]_intakeVars
  PROVE  InboxSound'
<1>1. CASE UNCHANGED intakeVars
  <2>1. UNCHANGED <<plot, item, queue, call, worker, decisions, faults, left>> BY <1>1 DEF intakeVars
  <2>2. InboxTyped /\ InboxGrows BY <2>1, StayingInboxGrows DEF InboxSound
  <2>3. CallsSound' /\ faults' \in 0..plot'.faults BY <2>1, <2>2, UnchangedInbox
  <2> QED BY <2>1, <2>3, OnlyTheCallMoves
<1>2. ASSUME NEW c \in Calls, NEW channel \in plot.channels, NEW content \in Contents,
             Submit(c, channel, content)
      PROVE  InboxSound'
  BY <1>2, SubmitKeeps
<1>3. ASSUME NEW c \in Calls, NEW i \in ItemIds, Retry(c, i) PROVE InboxSound'
  BY <1>3, RetryKeeps
<1>4. ASSUME NEW c \in Calls, Poll(c) \/ CallStep(c) \/ CallDies(c) PROVE InboxSound'
  BY <1>4, PollKeeps, InsertKeeps, AutoAdoptKeeps, EnqueueKeeps, MarkKeeps, CallDiesKeeps DEF CallStep
<1>5. ASSUME NEW i \in ItemIds, NEW status \in Decided, Decide(i, status) PROVE InboxSound'
  BY <1>5, DecideKeeps
<1>6. ASSUME NEW w \in Fetchers, NEW i \in ItemIds, Take(w, i) PROVE InboxSound'
  BY <1>6, TakeKeeps
<1>7. ASSUME NEW w \in Fetchers, WorkerStep(w) PROVE InboxSound'
  BY <1>7, ClaimKeeps, ClaimingKeeps, FetchKeeps, ReadEntriesKeeps, CreateEntriesKeeps,
     SendEntriesKeeps, CompleteKeeps, CompletingKeeps, FailKeeps, FailingKeeps DEF WorkerStep
<1>8. ASSUME NEW w \in Fetchers, Unanswered(w) \/ Crash(w) PROVE InboxSound'
  BY <1>8, UnansweredKeeps, CrashKeeps
<1> QED BY <1>1, <1>2, <1>3, <1>4, <1>5, <1>6, <1>7, <1>8 DEF IntakeNext

LEMMA InboxIsTyped ==
  ASSUME InboxSound
  PROVE  IntakeTypeOK
<1>1. InboxTyped BY DEF InboxSound
<1>2. Len(item) <= MaxItems /\ \A i \in Rows : item[i] \in Items
  BY <1>1, RowsAreNumbered DEF InboxTyped, ItemsSound
<1>3. IsABag(queue) /\ Waiting \subseteq Jobs BY <1>1 DEF InboxTyped, JobsSound
<1>4. call \in [Calls -> CallStates] /\ \A c \in Calls : call[c].item \in Rows \cup {NoItem}
  BY <1>1 DEF InboxTyped, CallsSound, SoundCall
<1>5. /\ worker \in [Fetchers -> WorkerStates]
      /\ \A w \in Fetchers : worker[w].created \cup {worker[w].item} \subseteq Rows \cup {NoItem}
  BY <1>1 DEF InboxTyped, FetchersSound, SoundFetch
<1> QED BY <1>1, <1>2, <1>3, <1>4, <1>5 DEF IntakeTypeOK, InboxTyped

LEMMA InboxIsAlwaysSound == IntakeSpec => []InboxSound
<1>1. IntakeInit => InboxSound BY InboxStarts
<1>2. InboxSound /\ [IntakeNext]_intakeVars => InboxSound' BY InboxSoundIsKept
<1> QED BY <1>1, <1>2, PTL DEF IntakeSpec

\* The rows, the jobs, the calls and the workers of an inbox keep their types, and every
\* row that a job, a call or a worker names exists: handleIntakeOpsAction and the poller
\* make the row before they send its job, and none of these operations deletes a row.
THEOREM IntakeTypesCorrect == IntakeSpec => []IntakeTypeOK
<1>1. InboxSound => IntakeTypeOK BY InboxIsTyped
<1> QED BY <1>1, InboxIsAlwaysSound, PTL

\* However many calls and workers there are: an item that is shown as being fetched has a
\* job, unless it was marked too late or the queue gave its job up (intake-ops.ts:652,
\* connector-polling.ts:138); and for each error, crash or needless redelivery no more
\* entries wait for a job that nobody will send than the feed has (intake.ts:122).
THEOREM NothingIsEverForgotten == IntakeSpec => []NothingIsForgotten
<1>1. InboxSound => NothingIsForgotten BY DEF InboxSound
<1> QED BY <1>1, InboxIsAlwaysSound, PTL
================================================================================
