-------------------------- MODULE ReleasePublication --------------------------
(***************************************************************************)
(* The artifact store of one site and the workers that publish releases    *)
(* into it and roll it back: packages/publisher, publishRelease and        *)
(* rollbackRelease, one action per call they make to the object store.     *)
(*                                                                         *)
(* A publish operation fixes the release id; the bytes come from a compile *)
(* snapshot that is read again by every attempt, so two attempts at one    *)
(* release may carry different builds.  Workers run concurrently, the      *)
(* queue may deliver one operation twice, and an attempt may end at any    *)
(* point (process death, or a store call that throws before or after it    *)
(* took effect).                                                           *)
(***************************************************************************)
EXTENDS Naturals, FiniteSets

CONSTANTS Releases,      \* release ids of the site, one per publish operation
          Builds,        \* the byte contents a compilation can produce
          Bodies,        \* contents of single artifact objects
          ObjectCount,   \* artifact objects 1..ObjectCount in upload order
          BodyOf,        \* BodyOf[b][i]: object i of build b, or Absent
          Workers,       \* concurrent attempts
          MaxRollbacks,  \* bound on the rollback calls explored
          Absent, None   \* no such object, no such pointer

ObjectIds == 1..ObjectCount
Keys == [release: Releases, build: Builds]

ASSUME ReleasePublicationAssumption ==
  /\ ObjectCount \in Nat
  /\ MaxRollbacks \in Nat
  /\ Absent \notin Bodies
  /\ Absent \notin Builds
  /\ BodyOf \in [Builds -> [ObjectIds -> Bodies \cup {Absent}]]

(***************************************************************************)
(* The pointer object is a pure function of the release and its stamp:     *)
(* publish stamps it with the manifest's createdAt (0 here, so the same    *)
(* release gives the same bytes), rollback with the time of the call (a    *)
(* number never used before).  The store derives the ETag from the bytes,  *)
(* so a pointer stands for its own ETag.                                   *)
(***************************************************************************)
Pointers == [key: Keys, stamp: 0..MaxRollbacks]
ASSUME NoneAssumption == None \notin Pointers /\ None \notin Keys

VARIABLES object,     \* object[r][i]: body stored at the release's i-th path
          manifest,   \* manifest[r]: build whose manifest.json is stored
          pointer,    \* the site's current pointer object
          task,       \* what each worker is doing
          rollbacks,  \* rollback calls made so far
          receipts,   \* history: receipts handed to the caller
          held        \* history: keys the pointer has named

vars == <<object, manifest, pointer, task, rollbacks, receipts, held>>
store == <<object, manifest, pointer, held>>

PublishSteps == {"upload", "verify", "head", "create", "read", "swap", "final"}
RollbackSteps == {"locate", "inspect", "switch", "confirm"}

\* seen is the ETag the worker holds: before a swap the expected one, after it
\* the one it replaced.
Tasks == [pc: PublishSteps \cup RollbackSteps \cup {"idle"},
          key: Keys \cup {None}, from: Keys \cup {None},
          next: 1..ObjectCount + 1, seen: Pointers \cup {None},
          stamp: 0..MaxRollbacks]

\* Of the two ETags of a receipt only this matters: whether they differ, that is
\* whether the receipt records a move of the pointer or a replay.
Receipts == [action: {"publish", "rollback"}, key: Keys, moved: BOOLEAN]

Attempt(pc, key, from, stamp) == [pc |-> pc, key |-> key, from |-> from, next |-> 1,
                                  seen |-> None, stamp |-> stamp]
Idle == Attempt("idle", None, None, 0)

PointerOfExpected(t) == [key |-> t.from, stamp |-> t.stamp]
PointerOf(t) == [key |-> t.key, stamp |-> t.stamp]

TypeOK ==
  /\ object \in [Releases -> [ObjectIds -> Bodies \cup {Absent}]]
  /\ manifest \in [Releases -> Builds \cup {Absent}]
  /\ pointer \in Pointers \cup {None}
  /\ task \in [Workers -> Tasks]
  /\ rollbacks \in 0..MaxRollbacks
  /\ receipts \subseteq Receipts
  /\ held \subseteq Keys

Init ==
  /\ object = [r \in Releases |-> [i \in ObjectIds |-> Absent]]
  /\ manifest = [r \in Releases |-> Absent]
  /\ pointer = None
  /\ task = [w \in Workers |-> Idle]
  /\ rollbacks = 0
  /\ receipts = {}
  /\ held = {}

(***************************************************************************)
(* Step vocabulary.                                                        *)
(***************************************************************************)
At(w, pc) == task[w].pc = pc
GoTo(w, pc) == task' = [task EXCEPT ![w].pc = pc]
Stop(w) == task' = [task EXCEPT ![w] = Idle]
Report(w, receipt) == /\ receipts' = receipts \cup {receipt}
                      /\ Stop(w)

\* Every object of build b is stored under release r with b's bytes.
ObjectsStored(r, b) ==
  \A i \in ObjectIds : BodyOf[b][i] # Absent => object[r][i] = BodyOf[b][i]

\* The remote prefix of r holds exactly what the manifest of b lists.
InventoryExact(r, b) == object[r] = BodyOf[b]

ReleaseComplete(k) == manifest[k.release] = k.build /\ ObjectsStored(k.release, k.build)

WritePointer(p) == /\ pointer' = p
                   /\ held' = held \cup {p.key}
                   /\ UNCHANGED <<object, manifest>>

(***************************************************************************)
(* publishRelease                                                          *)
(***************************************************************************)
StartPublish(w, r, b) ==
  /\ At(w, "idle")
  /\ task' = [task EXCEPT ![w] =
                Attempt("upload", [release |-> r, build |-> b], None, 0)]
  /\ UNCHANGED <<store, rollbacks, receipts>>

\* uploadConditionally: If-None-Match creates a free key; a taken one is accepted
\* when it is read back with the planned bytes and an error otherwise.
\* (Variants named after a mistake, like the next, are used by no action: they are
\* the mutations the properties are tested against.)
UnconditionalPut(stored) == TRUE
Free(stored) == stored = Absent
AnyContent(stored, planned) == stored # Absent
SameContent(stored, planned) == stored = planned

UploadObject(w) ==
  LET r == task[w].key.release
      i == task[w].next
      body == BodyOf[task[w].key.build][i]
      advance == task' = [task EXCEPT ![w].next = i + 1]
  IN /\ At(w, "upload")
     /\ i \in ObjectIds
     /\ \/ body = Absent /\ advance /\ UNCHANGED object
        \/ /\ body # Absent /\ Free(object[r][i])
           /\ object' = [object EXCEPT ![r][i] = body]
           /\ advance
        \/ /\ body # Absent /\ ~Free(object[r][i]) /\ SameContent(object[r][i], body)
           /\ advance /\ UNCHANGED object
        \/ /\ body # Absent /\ ~Free(object[r][i]) /\ ~SameContent(object[r][i], body)
           /\ Stop(w) /\ UNCHANGED object
     /\ UNCHANGED <<manifest, pointer, held, rollbacks, receipts>>

\* The manifest goes last, by the same conditional create.
BeforeObjects(t) == TRUE
ObjectsUploaded(t) == t.next = ObjectCount + 1

UploadManifest(w) ==
  LET r == task[w].key.release
      b == task[w].key.build
  IN /\ At(w, "upload")
     /\ ObjectsUploaded(task[w])
     /\ \/ /\ Free(manifest[r])
           /\ manifest' = [manifest EXCEPT ![r] = b]
           /\ GoTo(w, "verify")
        \/ /\ ~Free(manifest[r]) /\ SameContent(manifest[r], b)
           /\ GoTo(w, "verify") /\ UNCHANGED manifest
        \/ /\ ~Free(manifest[r]) /\ ~SameContent(manifest[r], b)
           /\ Stop(w) /\ UNCHANGED manifest
     /\ UNCHANGED <<object, pointer, held, rollbacks, receipts>>

\* HEAD of every planned object, then the manifest is read back and hashed.
VerifyRemote(w) ==
  LET k == task[w].key
      present == \A i \in ObjectIds :
                   BodyOf[k.build][i] # Absent => object[k.release][i] # Absent
  IN /\ At(w, "verify")
     /\ \/ present /\ manifest[k.release] = k.build /\ GoTo(w, "head")
        \/ ~(present /\ manifest[k.release] = k.build) /\ Stop(w)
     /\ UNCHANGED <<store, rollbacks, receipts>>

HeadPointer(w) ==
  /\ At(w, "head")
  /\ task' = [task EXCEPT ![w].seen = pointer,
                          ![w].pc = IF pointer = None THEN "create" ELSE "read"]
  /\ UNCHANGED <<store, rollbacks, receipts>>

\* First publish of the site: If-None-Match; a conflict is an ordinary error.
CreatePointer(w) ==
  /\ At(w, "create")
  /\ \/ pointer = None /\ WritePointer(PointerOf(task[w])) /\ GoTo(w, "final")
     \/ pointer # None /\ Stop(w) /\ UNCHANGED store
  /\ UNCHANGED <<rollbacks, receipts>>

\* The body is read after, and apart from, the HEAD that gave the ETag.  It is a
\* replay when release id and manifest hash are both the planned ones.
NamesSite(p, k) == TRUE
NamesRelease(p, k) == p.key = k

ReadPointerBody(w) ==
  /\ At(w, "read")
  /\ \/ /\ NamesRelease(pointer, task[w].key)
        /\ Report(w, [action |-> "publish", key |-> task[w].key,
                      moved |-> FALSE])
     \/ ~NamesRelease(pointer, task[w].key) /\ GoTo(w, "swap") /\ UNCHANGED receipts
  /\ UNCHANGED <<store, rollbacks>>

\* If-Match; a stale ETag is the terminal StalePointerEtagError.
IgnoredEtag(t) == TRUE
EtagMatches(t) == pointer = t.seen

SwapPointer(w) ==
  /\ At(w, "swap")
  /\ \/ EtagMatches(task[w]) /\ WritePointer(PointerOf(task[w])) /\ GoTo(w, "final")
     \/ ~EtagMatches(task[w]) /\ Stop(w) /\ UNCHANGED store
  /\ UNCHANGED <<rollbacks, receipts>>

\* The final pointer is read back but only has to exist.
FinishPublish(w) ==
  /\ At(w, "final")
  /\ pointer # None
  /\ Report(w, [action |-> "publish", key |-> task[w].key,
                moved |-> TRUE])
  /\ UNCHANGED <<store, rollbacks>>

(***************************************************************************)
(* rollbackRelease.  Its two releases are rows of the release registry,    *)
(* which are inserted from publish receipts.                               *)
(***************************************************************************)
Registered == {r.key : r \in {x \in receipts : x.action = "publish"}}

StartRollback(w, from, target) ==
  /\ At(w, "idle")
  /\ rollbacks < MaxRollbacks
  /\ {from, target} \subseteq Registered
  /\ from # target
  /\ rollbacks' = rollbacks + 1
  /\ task' = [task EXCEPT ![w] = Attempt("locate", target, from, rollbacks + 1)]
  /\ UNCHANGED <<store, receipts>>

\* pointerOf: body and ETag of one read.
LocatePointer(w) ==
  /\ At(w, "locate")
  /\ \/ pointer = None /\ Stop(w)
     \/ /\ pointer # None
        /\ task' = [task EXCEPT ![w].seen = pointer, ![w].pc = "inspect"]
  /\ UNCHANGED <<store, rollbacks, receipts>>

\* verifyRemoteRelease, then the comparison with the expected current release.
InspectTarget(w) ==
  LET t == task[w]
      verified == manifest[t.key.release] = t.key.build
                  /\ InventoryExact(t.key.release, t.key.build)
  IN /\ At(w, "inspect")
     /\ \/ ~verified /\ Stop(w) /\ UNCHANGED receipts
        \/ /\ verified /\ NamesRelease(t.seen, t.key)
           /\ Report(w, [action |-> "rollback", key |-> t.key,
                         moved |-> FALSE])
        \/ /\ verified /\ NamesRelease(t.seen, t.from)
           /\ GoTo(w, "switch") /\ UNCHANGED receipts
        \/ /\ verified /\ ~NamesRelease(t.seen, t.key) /\ ~NamesRelease(t.seen, t.from)
           /\ Stop(w) /\ UNCHANGED receipts
     /\ UNCHANGED <<store, rollbacks>>

SwitchPointer(w) ==
  /\ At(w, "switch")
  /\ \/ EtagMatches(task[w]) /\ WritePointer(PointerOf(task[w])) /\ GoTo(w, "confirm")
     \/ ~EtagMatches(task[w]) /\ Stop(w) /\ UNCHANGED store
  /\ UNCHANGED <<rollbacks, receipts>>

\* The pointer is read again and has to name the target, else the call throws
\* although the swap took effect.
ConfirmRollback(w) ==
  /\ At(w, "confirm")
  /\ \/ /\ NamesRelease(pointer, task[w].key)
        /\ Report(w, [action |-> "rollback", key |-> task[w].key,
                      moved |-> TRUE])
     \/ ~NamesRelease(pointer, task[w].key) /\ Stop(w) /\ UNCHANGED receipts
  /\ UNCHANGED <<store, rollbacks>>

(***************************************************************************)
(* The attempt ends where it stands: the worker dies, or a call to the     *)
(* store throws, its effect (if any) having been taken by the step before. *)
(***************************************************************************)
Abort(w) ==
  /\ ~At(w, "idle")
  /\ Stop(w)
  /\ UNCHANGED <<store, rollbacks, receipts>>

Publish(w) ==
  \/ \E r \in Releases, b \in Builds : StartPublish(w, r, b)
  \/ UploadObject(w) \/ UploadManifest(w) \/ VerifyRemote(w) \/ HeadPointer(w)
  \/ CreatePointer(w) \/ ReadPointerBody(w) \/ SwapPointer(w) \/ FinishPublish(w)

Rollback(w) ==
  \/ \E from, target \in Keys : StartRollback(w, from, target)
  \/ LocatePointer(w) \/ InspectTarget(w) \/ SwitchPointer(w) \/ ConfirmRollback(w)

Next == \E w \in Workers : Publish(w) \/ Rollback(w) \/ Abort(w)

Spec == Init /\ [][Next]_vars

(***************************************************************************)
(* Safety.                                                                 *)
(***************************************************************************)

\* manifest.json is the commit record of a release: wherever it is stored, every
\* object it lists is stored with the listed bytes, whatever attempts with other
\* builds of the same release died half way or still run.
ManifestIsCommitRecord ==
  \A r \in Releases : manifest[r] # Absent => ObjectsStored(r, manifest[r])

\* The pointer only ever names a release whose manifest and objects are all there
\* (ADR 005: the serving plane sees complete, hash-verified releases or a 503).
PointerNamesCompleteRelease == pointer # None => ReleaseComplete(pointer.key)

\* No receipt claims a release that never was the site's current one, although the
\* replay branch answers from two reads with other workers' swaps between them.
ReceiptsNameHeldReleases == \A receipt \in receipts : receipt.key \in held

\* A worker that is past verification holds a release that is still complete, so
\* the unguarded time between verification and swap does no harm.
VerifiedStaysComplete ==
  \A w \in Workers :
    task[w].pc \in {"head", "create", "read", "swap", "final", "switch", "confirm"}
      => ReleaseComplete(task[w].key)

(***************************************************************************)
(* The inductive invariant behind the four invariants above.               *)
(***************************************************************************)
\* A worker past "idle" has a release and build; one that read a pointer and has
\* not stopped holds it; a rollback has its expected release.
TaskShape(t) ==
  /\ t.pc # "idle" => t.key \in Keys
  /\ t.pc \in RollbackSteps => t.from \in Keys
  /\ t.pc \in {"read", "swap", "inspect", "switch", "confirm"} => t.seen \in Pointers
  /\ t.pc = "create" => t.seen = None

TasksTyped == task \in [Workers -> Tasks] /\ \A w \in Workers : TaskShape(task[w])

Typed == TypeOK /\ TasksTyped

\* What an attempt knows at its step: how far its upload is, that its release is
\* complete, that the site has a pointer, what it saw and what it wrote.
Progress(t) ==
  /\ t.pc = "upload" =>
       \A i \in ObjectIds : i < t.next /\ BodyOf[t.key.build][i] # Absent
                              => object[t.key.release][i] = BodyOf[t.key.build][i]
  /\ t.pc \in {"verify", "head", "create", "read", "swap", "final", "switch", "confirm"}
       => ReleaseComplete(t.key)
  /\ t.pc \in {"read", "swap", "final", "inspect", "switch", "confirm"} => pointer # None
  /\ t.pc \in {"final", "confirm"} => t.key \in held
  /\ t.pc = "switch" => t.seen.key = t.from
  /\ t.seen # None => t.seen.key \in held

HeldReleasesComplete == /\ pointer # None => pointer.key \in held
                        /\ \A k \in held : ReleaseComplete(k)

IInv == /\ Typed
        /\ ManifestIsCommitRecord
        /\ HeldReleasesComplete
        /\ ReceiptsNameHeldReleases
        /\ \A w \in Workers : Progress(task[w])

(***************************************************************************)
(* Action properties.                                                      *)
(***************************************************************************)

\* Stored bytes are immutable: no step replaces or removes an object or manifest.
ArtifactsImmutable ==
  [][/\ \A r \in Releases, i \in ObjectIds :
          object[r][i] # Absent => object'[r][i] = object[r][i]
     /\ \A r \in Releases : manifest[r] # Absent => manifest'[r] = manifest[r]]_vars

\* A rollback moves the pointer only off the release its intent expects to be
\* current, however the pointer moved between its read and its swap.
RollbackLeavesExpectedRelease ==
  [][\A w \in Workers :
       At(w, "switch") /\ task'[w].pc = "confirm"
         => /\ pointer # None /\ pointer.key = task[w].from
            /\ pointer' = PointerOf(task[w])]_vars
===============================================================================
