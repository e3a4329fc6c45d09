-------------------------- MODULE SiteReleasesProofs --------------------------
(***************************************************************************)
(* Proofs about SiteReleases for every finite set of editions, and any     *)
(* number of versions, operations, attempts and interruptions.             *)
(***************************************************************************)
EXTENDS SiteReleases, TLAPS, FiniteSetTheorems, SequenceTheorems, NaturalsInduction,
        FunctionTheorems, WellFoundedInduction

(***************************************************************************)
(* Type correctness.                                                       *)
(***************************************************************************)
\* The steps of an operation are those of its kind, a rollback has been consumed by the
\* time it looks at the pointer, and only a running operation takes a step.
Formed(o, i) ==
  /\ o.kind # "rollback" => o.edition \in Editions /\ o.target = i
  /\ o.kind = "rollback" => o.from # o.target
  /\ o.pc \in {"compile", "record", "store"} => o.kind # "rollback"
  /\ o.pc \in {"consume", "inspect", "confirm"} => o.kind = "rollback"
  /\ o.kind = "rollback" /\ o.pc \notin {"idle", "consume"} => o.consumed
  /\ o.pc # "idle" => o.state = "running"

OpsTyped ==
  /\ op \in Seq(Operations) /\ Len(op) <= MaxOperations
  /\ \A i \in Ids : Formed(op[i], i)

EditionsTyped ==
  /\ status \in [Editions -> {"draft", "approved", "compiled", "published"}]
  /\ compiled \in [Editions -> {Elsewhere} \cup ReleaseIds]
  /\ version \in [Editions -> Nat \ {0}]
  /\ \A e \in Editions : /\ version[e] <= MaxVersions[e]
                         /\ status[e] = "draft" => version[e] < MaxVersions[e]
  /\ row \in [Editions -> Rows]
  /\ url \in [Editions -> {"none", "reserved", "active", "gone"}]
  /\ assessed \in [Editions -> BOOLEAN]

\* A release has one row, and it was last written by an operation that exists.
RegistryTyped ==
  /\ registry \in Seq(Registered)
  /\ \A k, l \in RowIds : registry[k].release = registry[l].release => k = l
  /\ \A k \in RowIds : registry[k].operation \in Ids

RemoteTyped == stored \in [OperationIds -> Plans] /\ pointer \in ReleaseIds
HistoryTyped == faults \in 0..MaxUpsets /\ reused \subseteq Editions

Typed == OpsTyped /\ EditionsTyped /\ RegistryTyped /\ RemoteTyped /\ HistoryTyped

LEMMA ConstantsAre ==
  /\ MaxOperations \in Nat /\ MaxOperations > 0 /\ Slots \in Nat /\ Slots > 0
  /\ MaxAttempts \in Nat /\ MaxAttempts > 0 /\ MaxUpsets \in Nat
  /\ OperationIds = 1..MaxOperations /\ ReleaseIds = 0..MaxOperations
  /\ NoRelease \in ReleaseIds /\ OperationIds \subseteq ReleaseIds
  /\ 1 \in 1..MaxAttempts
  BY SiteReleasesAssumption
  DEF SiteReleasesAssumption, OperationIds, ReleaseIds, NoRelease

LEMMA UnplannedIsPlan == Unplanned \in Plans
  BY DEF Unplanned, Plans

LEMMA IdsAre ==
  ASSUME OpsTyped
  PROVE  /\ Ids = 1..Len(op) /\ Len(op) \in Nat /\ Ids \subseteq OperationIds
         /\ \A i \in Ids : op[i] \in Operations /\ i \in Nat /\ i # 0
<1>1. Ids = 1..Len(op) /\ Len(op) \in Nat
  BY LenProperties DEF OpsTyped, Ids
<1>2. \A i \in Ids : op[i] \in Operations
  BY <1>1, ElementOfSeq DEF OpsTyped
<1>3. Ids \subseteq OperationIds
  BY <1>1, ConstantsAre DEF OpsTyped
<1> QED BY <1>1, <1>2, <1>3

LEMMA RowIdsAre ==
  ASSUME RegistryTyped
  PROVE  /\ RowIds = 1..Len(registry) /\ Len(registry) \in Nat
         /\ \A k \in RowIds : registry[k] \in Registered
<1>1. RowIds = 1..Len(registry) /\ Len(registry) \in Nat
  BY LenProperties DEF RegistryTyped, RowIds
<1> QED BY <1>1, ElementOfSeq DEF RegistryTyped

\* One row for each release: there are no more rows than releases.
LEMMA RowsBounded == RegistryTyped => Len(registry) <= MaxOperations
<1> SUFFICES ASSUME RegistryTyped PROVE Len(registry) <= MaxOperations
  OBVIOUS
<1> DEFINE f == [k \in RowIds |-> registry[k].release]
<1>1. RowIds = 1..Len(registry) /\ Len(registry) \in Nat
      /\ \A k \in RowIds : registry[k] \in Registered
  BY RowIdsAre
<1>2. f \in Injection(RowIds, OperationIds)
  <2>1. f \in [RowIds -> OperationIds]
    BY <1>1 DEF Registered
  <2>2. \A k, l \in RowIds : f[k] = f[l] => k = l
    BY DEF RegistryTyped
  <2> QED BY <2>1, <2>2, Fun_IsInj
<1>3. IsFiniteSet(OperationIds) /\ Cardinality(OperationIds) = MaxOperations
  BY FS_Interval, ConstantsAre
<1>4. Cardinality(RowIds) <= MaxOperations
  BY <1>2, <1>3, FS_Injection
<1>5. Cardinality(RowIds) = Len(registry)
  <2>1. Cardinality(1..Len(registry)) = IF 1 > Len(registry) THEN 0 ELSE Len(registry) - 1 + 1
    <3>1. 1 \in Int /\ Len(registry) \in Int
      BY <1>1
    <3> QED BY <3>1, FS_Interval
  <2> QED BY <1>1, <2>1
<1> QED BY <1>4, <1>5

LEMMA TypedIsTypeOK == Typed => TypeOK
<1> SUFFICES ASSUME Typed PROVE TypeOK
  OBVIOUS
<1>1. Len(op) <= MaxOperations /\ \A i \in Ids : op[i] \in Operations
  BY IdsAre DEF Typed, OpsTyped
<1>2. Len(registry) <= MaxOperations /\ \A k \in RowIds : registry[k] \in Registered
  BY RowsBounded, RowIdsAre DEF Typed
<1> QED BY <1>1, <1>2 DEF Typed, TypeOK, EditionsTyped, RemoteTyped, HistoryTyped

LEMMA InitTyped == Init => Typed
<1> SUFFICES ASSUME Init PROVE Typed
  OBVIOUS
<1>1. OpsTyped
  <2>1. op = <<>> /\ Ids = {}
    BY DEF Init, Ids
  <2> QED BY <2>1, EmptySeq, ConstantsAre DEF OpsTyped
<1>2. EditionsTyped
  <2>1. status \in [Editions -> {"approved", "published"}] /\ \A e \in Editions : version[e] = 1
    BY DEF Init
  <2>2. \A e \in Editions : 1 <= MaxVersions[e]
    BY SiteReleasesAssumption DEF SiteReleasesAssumption
  <2>3. \A e \in Editions : /\ version[e] <= MaxVersions[e]
                            /\ status[e] = "draft" => version[e] < MaxVersions[e]
    BY <2>1, <2>2
  <2>4. row \in [Editions -> Rows]
    BY ConstantsAre DEF Init, Rows, Row
  <2>5. /\ compiled \in [Editions -> {Elsewhere} \cup ReleaseIds]
        /\ version \in [Editions -> Nat \ {0}]
        /\ url \in [Editions -> {"none", "reserved", "active", "gone"}]
        /\ assessed \in [Editions -> BOOLEAN]
    BY ConstantsAre DEF Init
  <2> QED BY <2>1, <2>3, <2>4, <2>5 DEF EditionsTyped
<1>3. RegistryTyped
  <2>1. registry = <<>> /\ RowIds = {}
    BY DEF Init, RowIds
  <2> QED BY <2>1, EmptySeq DEF RegistryTyped
<1>4. RemoteTyped
  BY ConstantsAre, UnplannedIsPlan DEF Init, RemoteTyped
<1>5. HistoryTyped
  BY ConstantsAre DEF Init, HistoryTyped
<1> QED BY <1>1, <1>2, <1>3, <1>4, <1>5 DEF Typed

(***************************************************************************)
(* The largest id of a set.                                                *)
(***************************************************************************)
LEMMA HasMax ==
  ASSUME NEW n \in Nat, NEW S \in SUBSET (1..n), S # {}
  PROVE  \E m \in S : \A j \in S : j <= m
<1> DEFINE T == {x \in Nat : n - x \in S}
           R == OpToRel(<, Nat)
<1>1. T \subseteq Nat /\ T # {}
  <2>1. PICK j \in S : TRUE
    OBVIOUS
  <2>2. n - j \in Nat /\ n - (n - j) = j
    OBVIOUS
  <2> QED BY <2>1, <2>2
<1>2. PICK x \in T : \A y \in T : <<y, x>> \notin R
  <2>1. IsWellFoundedOn(R, Nat)
    BY NatLessThanWellFounded
  <2> HIDE DEF T, R
  <2> QED BY <1>1, <2>1, WFMin
<1>3. ASSUME NEW j \in S PROVE j <= n - x
  <2>1. n - j \in T /\ x \in Nat /\ j \in Nat
    OBVIOUS
  <2>2. ~(n - j < x)
    BY <1>2, <2>1 DEF OpToRel
  <2> HIDE DEF T, R
  <2> QED BY <2>1, <2>2
<1> QED BY <1>2, <1>3

LEMMA MaxOfProperties ==
  ASSUME OpsTyped, NEW S \in SUBSET Ids
  PROVE  /\ S = {} => MaxOf(S) = 0
         /\ S # {} => MaxOf(S) \in S /\ \A j \in S : j <= MaxOf(S)
         /\ MaxOf(S) \in 0..MaxOperations
<1>1. Ids = 1..Len(op) /\ Len(op) \in Nat /\ Ids \subseteq 1..MaxOperations
  BY IdsAre, ConstantsAre
<1>2. CASE S = {}
  BY <1>2, ConstantsAre DEF MaxOf
<1>3. CASE S # {}
  <2>1. \E m \in S : \A j \in S : j <= m
    BY <1>1, <1>3, HasMax
  <2>2. MaxOf(S) = CHOOSE n \in S : \A m \in S : m <= n
    BY <1>3 DEF MaxOf
  <2>3. MaxOf(S) \in S /\ \A j \in S : j <= MaxOf(S)
    BY <2>1, <2>2
  <2>4. MaxOf(S) \in 0..MaxOperations
    BY <1>1, <2>3, ConstantsAre
  <2> QED BY <1>3, <2>3, <2>4
<1> QED BY <1>2, <1>3

(***************************************************************************)
(* What the steps do to the operations.                                    *)
(***************************************************************************)
\* What never changes of an operation.
Same(o, p) == /\ o.kind = p.kind /\ o.edition = p.edition /\ o.version = p.version
              /\ o.key = p.key /\ o.target = p.target /\ o.from = p.from
              /\ p.consumed => o.consumed

Turns(i, o) == op' = [op EXCEPT ![i] = o] /\ Formed(o, i) /\ Same(o, op[i])

LEMMA TurnsTyped ==
  ASSUME OpsTyped, NEW i \in Ids, NEW o \in Operations, Turns(i, o)
  PROVE  /\ OpsTyped' /\ Ids' = Ids /\ Len(op') = Len(op)
         /\ op'[i] = o /\ \A j \in Ids : j # i => op'[j] = op[j]
         /\ \A j \in Ids : Same(op'[j], op[j])
<1>1. i \in 1..Len(op) /\ op \in Seq(Operations) /\ Ids = 1..Len(op)
  BY IdsAre DEF OpsTyped
<1>2. /\ op' \in Seq(Operations) /\ Len(op') = Len(op)
      /\ \A j \in 1..Len(op) : op'[j] = IF j = i THEN o ELSE op[j]
  BY <1>1, ExceptSeq DEF Turns
<1>3. Ids' = Ids
  BY <1>1, <1>2, LenProperties DEF Ids
<1>4. \A j \in Ids : Same(op'[j], op[j]) /\ Formed(op'[j], j)
  BY <1>1, <1>2 DEF Turns, Same, OpsTyped
<1> QED BY <1>1, <1>2, <1>3, <1>4 DEF OpsTyped

\* The operation leaves its run: for another attempt, to be delivered again, or for good.
Stops(i) == Throw(i) \/ FailForGood(i) \/ Restart(i, "idle", 1)

LEMMA StopsTurns ==
  ASSUME OpsTyped, NEW i \in Ids, op[i].pc # "idle", Stops(i)
  PROVE  \E o \in Operations : /\ Turns(i, o)
                                /\ o.pc \in {"idle", "compile", "consume"}
                                /\ o.state \in {"running", "failed"}
                                /\ o.consumed = op[i].consumed
<1>1. op[i] \in Operations /\ Formed(op[i], i) /\ op[i].state = "running"
  BY IdsAre DEF OpsTyped, Formed
<1>2. ASSUME NEW pc \in {"idle", FirstStep(i)}, NEW a \in 1..MaxAttempts, Restart(i, pc, a)
      PROVE  \E o \in Operations : /\ Turns(i, o)
                                    /\ o.pc \in {"idle", "compile", "consume"}
                                    /\ o.state \in {"running", "failed"}
                                    /\ o.consumed = op[i].consumed
  <2> DEFINE o == [op[i] EXCEPT !.pc = pc, !.attempt = a, !.plan = Unplanned, !.seen = NoRelease]
  <2>1. op' = [op EXCEPT ![i] = o]
    BY <1>2 DEF Restart
  <2>2. o \in Operations
    BY <1>1, ConstantsAre, UnplannedIsPlan DEF Operations, Steps, FirstStep
  <2>3. Formed(o, i) /\ Same(o, op[i]) /\ o.pc \in {"idle", "compile", "consume"}
        /\ o.state = "running" /\ o.pc = pc /\ o.consumed = op[i].consumed
    BY <1>1 DEF Formed, Same, FirstStep, Operations
  <2> HIDE DEF o
  <2> QED BY <1>2, <2>1, <2>2, <2>3 DEF Turns
<1>3. ASSUME FailForGood(i)
      PROVE  \E o \in Operations : /\ Turns(i, o)
                                    /\ o.pc = "idle" /\ o.state = "failed"
                                    /\ o.consumed = op[i].consumed
  <2> DEFINE o == [op[i] EXCEPT !.state = "failed", !.pc = "idle", !.plan = Unplanned,
                                !.seen = NoRelease, !.attempt = 1, !.recorded = {}]
  <2>1. op' = [op EXCEPT ![i] = o]
    BY <1>3 DEF FailForGood, Finish
  <2>2. o \in Operations
    BY <1>1, ConstantsAre, UnplannedIsPlan DEF Operations, Steps
  <2>3. Formed(o, i) /\ Same(o, op[i]) /\ o.pc = "idle" /\ o.state = "failed"
        /\ o.consumed = op[i].consumed
    BY <1>1 DEF Formed, Same, Operations
  <2> HIDE DEF o
  <2> QED BY <2>1, <2>2, <2>3 DEF Turns
<1>4. CASE Throw(i)
  <2>1. CASE op[i].attempt < MaxAttempts
    <3>1. op[i].attempt + 1 \in 1..MaxAttempts
      BY <1>1, <2>1, ConstantsAre DEF Operations
    <3>2. Restart(i, FirstStep(i), op[i].attempt + 1)
      BY <1>4, <2>1 DEF Throw
    <3> QED BY <1>2, <2>1, <3>1, <3>2
  <2>2. CASE ~(op[i].attempt < MaxAttempts)
    BY <1>3, <1>4, <2>2 DEF Throw, FailForGood
  <2> QED BY <2>1, <2>2
<1>5. CASE Restart(i, "idle", 1)
  BY <1>2, <1>5, ConstantsAre
<1> QED BY <1>3, <1>4, <1>5 DEF Stops

\* A step on to pc, with what else it changes.
GoesTo(i, pc, o) == Turns(i, o) /\ o.pc = pc /\ o.state = "running"

LEMMA GoToTurns ==
  ASSUME OpsTyped, NEW i \in Ids, NEW pc \in Steps, op[i].pc # "idle", GoTo(i, pc),
         Formed([op[i] EXCEPT !.pc = pc], i)
  PROVE  \E o \in Operations : /\ GoesTo(i, pc, o) /\ o.plan = op[i].plan /\ o.seen = op[i].seen
                                /\ o.consumed = op[i].consumed
<1>1. op[i] \in Operations /\ op[i].state = "running"
  BY IdsAre DEF OpsTyped, Formed
<1> DEFINE o == [op[i] EXCEPT !.pc = pc]
<1>2. o \in Operations /\ Same(o, op[i]) /\ o.pc = pc /\ o.state = "running"
      /\ o.plan = op[i].plan /\ o.seen = op[i].seen /\ o.consumed = op[i].consumed
  BY <1>1 DEF Operations, Same
<1>3. op' = [op EXCEPT ![i] = o]
  BY DEF GoTo
<1> QED BY <1>2, <1>3 DEF GoesTo, Turns

LEMMA BeginTurns ==
  ASSUME OpsTyped, NEW i, Begin(i)
  PROVE  i \in Ids /\ \E o \in Operations :
           GoesTo(i, FirstStep(i), o) /\ o.consumed = op[i].consumed /\ op[i].pc = "idle"
<1>1. i \in Ids /\ op[i] \in Operations /\ Formed(op[i], i) /\ op[i].pc = "idle"
  BY IdsAre DEF OpsTyped, Begin, At
<1> DEFINE o == [op[i] EXCEPT !.state = "running", !.pc = FirstStep(i)]
<1>2. o \in Operations
  BY <1>1 DEF Operations, Steps, FirstStep
<1>3. Formed(o, i) /\ Same(o, op[i]) /\ o.pc = FirstStep(i) /\ o.state = "running"
      /\ o.consumed = op[i].consumed
  BY <1>1 DEF Formed, Same, FirstStep, Operations
<1>4. op' = [op EXCEPT ![i] = o]
  BY DEF Begin
<1> HIDE DEF o
<1> QED BY <1>1, <1>2, <1>3, <1>4 DEF GoesTo, Turns

LEMMA SnapshotIsPages == Typed => Snapshot \in [Editions -> Nat]
<1> SUFFICES ASSUME Typed, NEW e \in Editions
             PROVE  (IF ~Selected(e) THEN 0
                     ELSE IF status[e] = "draft" THEN stored[row[e].release].pages[e]
                     ELSE version[e]) \in Nat
  BY DEF Snapshot
<1>1. version[e] \in Nat /\ row[e].release \in ReleaseIds
  BY DEF Typed, EditionsTyped, Rows
<1>2. ASSUME Selected(e), status[e] = "draft" PROVE stored[row[e].release].pages[e] \in Nat
  <2>1. row[e].release \in OperationIds
    BY <1>1, <1>2, ConstantsAre DEF Selected, NoRelease
  <2>2. stored[row[e].release] \in Plans
    BY <2>1 DEF Typed, RemoteTyped
  <2> QED BY <2>2 DEF Plans
<1> QED BY <1>1, <1>2

LEMMA CompileTurns ==
  ASSUME Typed, NEW i, Compile(i)
  PROVE  /\ i \in Ids /\ op[i].pc = "compile" /\ op[i].kind # "rollback"
         /\ \/ \E o \in Operations : /\ GoesTo(i, "record", o) /\ o.consumed = op[i].consumed
                                      /\ o.plan.pages = Snapshot
            \/ Stops(i)
<1>1. i \in Ids /\ op[i] \in Operations /\ Formed(op[i], i) /\ op[i].pc = "compile"
  BY IdsAre DEF Typed, OpsTyped, Compile, At
<1>2. op[i].kind # "rollback" /\ op[i].edition \in Editions /\ op[i].state = "running"
  BY <1>1 DEF Formed
<1> DEFINE plan == [pages |-> Snapshot, clock |-> version[op[i].edition]]
           o == [op[i] EXCEPT !.pc = "record", !.plan = plan]
<1>3. CASE op' = [op EXCEPT ![i].pc = "record", ![i].plan = plan]
  <2>1. plan \in Plans
    BY <1>2, SnapshotIsPages DEF Plans, Typed, EditionsTyped
  <2>2. plan.pages = Snapshot
    OBVIOUS
  <2>3. o \in Operations /\ o.plan = plan
    <3> HIDE DEF plan
    <3> QED BY <1>1, <2>1 DEF Operations, Steps
  <2>4. Formed(o, i) /\ Same(o, op[i]) /\ o.pc = "record" /\ o.state = "running"
        /\ o.consumed = op[i].consumed
    <3> HIDE DEF plan
    <3> QED BY <1>1, <1>2 DEF Formed, Same, Operations
  <2>5. op' = [op EXCEPT ![i] = o]
    BY <1>3
  <2> HIDE DEF o, plan
  <2> QED BY <1>1, <1>2, <2>2, <2>3, <2>4, <2>5 DEF GoesTo, Turns
<1>4. CASE FailForGood(i)
  BY <1>1, <1>2, <1>4 DEF Stops
<1> QED BY <1>3, <1>4 DEF Compile

LEMMA RecordTurns ==
  ASSUME Typed, NEW i, RecordCompile(i)
  PROVE  /\ i \in Ids /\ op[i].pc = "record" /\ op[i].kind # "rollback" /\ op[i].edition \in Editions
         /\ \/ \E o \in Operations : /\ GoesTo(i, "store", o) /\ o.plan = op[i].plan
                                      /\ o.consumed = op[i].consumed
            \/ Stops(i)
<1>1. i \in Ids /\ op[i] \in Operations /\ Formed(op[i], i) /\ op[i].pc = "record"
  BY IdsAre DEF Typed, OpsTyped, RecordCompile, At
<1>2. op[i].kind # "rollback" /\ op[i].edition \in Editions /\ op[i].state = "running"
  BY <1>1 DEF Formed
<1>3. CASE op' = [op EXCEPT ![i].pc = "store", ![i].recorded = @ \cup {op[i].plan}]
  <2> DEFINE o == [op[i] EXCEPT !.pc = "store", !.recorded = op[i].recorded \cup {op[i].plan}]
  <2>1. op[i].recorded \cup {op[i].plan} \in SUBSET Plans
    BY <1>1 DEF Operations
  <2>2. o \in Operations
    BY <1>1, <2>1 DEF Operations, Steps
  <2>3. Formed(o, i) /\ Same(o, op[i]) /\ o.pc = "store" /\ o.state = "running" /\ o.plan = op[i].plan
        /\ o.consumed = op[i].consumed
    BY <1>1, <1>2 DEF Formed, Same, Operations
  <2>4. op' = [op EXCEPT ![i] = o]
    BY <1>3
  <2> HIDE DEF o
  <2> QED BY <1>1, <1>2, <2>2, <2>3, <2>4 DEF GoesTo, Turns
<1>4. CASE GoTo(i, "store")
  <2>1. Formed([op[i] EXCEPT !.pc = "store"], i)
    BY <1>1, <1>2 DEF Formed, Operations
  <2>2. \E o \in Operations : GoesTo(i, "store", o) /\ o.plan = op[i].plan /\ o.consumed = op[i].consumed
    BY <1>1, <1>4, <2>1, GoToTurns DEF Steps, Typed
  <2> QED BY <1>1, <1>2, <2>2
<1>5. CASE Throw(i)
  BY <1>1, <1>2, <1>5 DEF Stops
<1> QED BY <1>3, <1>4, <1>5 DEF RecordCompile

LEMMA StoreTurns ==
  ASSUME Typed, NEW i, StoreRelease(i)
  PROVE  /\ i \in Ids /\ op[i].pc = "store" /\ op[i].kind # "rollback"
         /\ \/ /\ \E o \in Operations : /\ GoesTo(i, IF pointer = i THEN "register" ELSE "swap", o)
                                         /\ o.plan = op[i].plan /\ o.seen = pointer
                                         /\ o.consumed = op[i].consumed
               /\ stored' = [stored EXCEPT ![i] = op[i].plan]
            \/ Stops(i) /\ UNCHANGED stored
<1>1. i \in Ids /\ op[i] \in Operations /\ Formed(op[i], i) /\ op[i].pc = "store"
  BY IdsAre DEF Typed, OpsTyped, StoreRelease, At
<1>2. op[i].kind # "rollback" /\ op[i].state = "running"
  BY <1>1 DEF Formed
<1> DEFINE pc == IF pointer = i THEN "register" ELSE "swap"
           o == [op[i] EXCEPT !.seen = pointer, !.pc = pc]
<1>3. CASE /\ op' = [op EXCEPT ![i].seen = pointer, ![i].pc = pc]
           /\ stored' = [stored EXCEPT ![i] = op[i].plan]
  <2>1. pc \in {"register", "swap"}
    OBVIOUS
  <2>2. pointer \in ReleaseIds
    BY DEF Typed, RemoteTyped
  <2>3. o \in Operations
    <3> HIDE DEF pc
    <3> QED BY <1>1, <2>1, <2>2 DEF Operations, Steps
  <2>4. Formed(o, i) /\ Same(o, op[i]) /\ o.pc = pc /\ o.state = "running" /\ o.plan = op[i].plan
        /\ o.seen = pointer /\ o.consumed = op[i].consumed
    <3> HIDE DEF pc
    <3> QED BY <1>1, <1>2, <2>1 DEF Formed, Same, Operations
  <2>5. op' = [op EXCEPT ![i] = o]
    BY <1>3
  <2> HIDE DEF o
  <2> QED BY <1>1, <1>2, <1>3, <2>3, <2>4, <2>5 DEF GoesTo, Turns
<1>4. CASE Throw(i) /\ UNCHANGED stored
  BY <1>1, <1>2, <1>4 DEF Stops
<1>5. stored[i] = op[i].plan => stored = [stored EXCEPT ![i] = op[i].plan]
  BY <1>1, IdsAre DEF Typed, RemoteTyped
<1> QED BY <1>3, <1>4, <1>5 DEF StoreRelease, SameBytes

LEMMA SwapTurns ==
  ASSUME Typed, NEW i, SwapPointer(i)
  PROVE  /\ i \in Ids /\ op[i].pc = "swap"
         /\ \/ /\ \E o \in Operations :
                     /\ GoesTo(i, IF op[i].kind = "rollback" THEN "confirm" ELSE "register", o)
                     /\ o.consumed = op[i].consumed
               /\ pointer = op[i].seen /\ pointer' = op[i].target
            \/ Stops(i) /\ UNCHANGED pointer
<1>1. i \in Ids /\ op[i] \in Operations /\ Formed(op[i], i) /\ op[i].pc = "swap"
  BY IdsAre DEF Typed, OpsTyped, SwapPointer, At
<1> DEFINE pc == IF op[i].kind = "rollback" THEN "confirm" ELSE "register"
<1>2. CASE pointer = op[i].seen /\ pointer' = op[i].target /\ GoTo(i, pc)
  <2>1. pc \in Steps /\ Formed([op[i] EXCEPT !.pc = pc], i)
    BY <1>1 DEF Formed, Operations, Steps
  <2>2. \E o \in Operations : GoesTo(i, pc, o) /\ o.consumed = op[i].consumed
    <3> HIDE DEF pc
    <3> QED BY <1>1, <1>2, <2>1, GoToTurns DEF Typed
  <2> QED BY <1>1, <1>2, <2>2
<1>3. CASE (Throw(i) \/ FailForGood(i)) /\ UNCHANGED pointer
  BY <1>1, <1>3 DEF Stops
<1> QED BY <1>2, <1>3 DEF SwapPointer

LEMMA PublishedTurns ==
  ASSUME Typed, NEW i, RegisterPublished(i)
  PROVE  /\ i \in Ids /\ op[i].pc = "register" /\ op[i].kind # "rollback" /\ op[i].edition \in Editions
         /\ \/ /\ \E o \in Operations : GoesTo(i, "complete", o) /\ o.consumed = op[i].consumed
               /\ registry' = IF RowOf(i) = {}
                                THEN Append(Superseding(i), [release |-> i, state |-> "current", operation |-> i])
                              ELSE Superseding(i)
            \/ Stops(i) /\ UNCHANGED <<edition, registry>>
<1>1. i \in Ids /\ op[i] \in Operations /\ Formed(op[i], i) /\ op[i].pc = "register" /\ op[i].kind # "rollback"
  BY IdsAre DEF Typed, OpsTyped, RegisterPublished, At
<1>2. GoTo(i, "complete") => \E o \in Operations : GoesTo(i, "complete", o) /\ o.consumed = op[i].consumed
  <2>1. Formed([op[i] EXCEPT !.pc = "complete"], i)
    BY <1>1 DEF Formed, Operations
  <2> QED BY <1>1, <2>1, GoToTurns DEF Steps, Typed
<1>3. op[i].edition \in Editions
  BY <1>1 DEF Formed
<1> QED BY <1>1, <1>2, <1>3 DEF RegisterPublished, Stops

LEMMA ConsumeTurns ==
  ASSUME Typed, NEW i, ConsumeIntent(i)
  PROVE  /\ i \in Ids /\ op[i].pc = "consume" /\ op[i].kind = "rollback"
         /\ \/ /\ \E o \in Operations : GoesTo(i, "inspect", o)
               /\ op[i].consumed \/ FALSE \in PredatesTakedown(op[i].target)
            \/ Stops(i)
<1>1. i \in Ids /\ op[i] \in Operations /\ Formed(op[i], i) /\ op[i].pc = "consume"
  BY IdsAre DEF Typed, OpsTyped, ConsumeIntent, At
<1>2. op[i].kind = "rollback" /\ op[i].state = "running"
  BY <1>1 DEF Formed
<1>3. CASE op[i].consumed /\ GoTo(i, "inspect")
  <2>1. Formed([op[i] EXCEPT !.pc = "inspect"], i)
    BY <1>1, <1>2, <1>3 DEF Formed, Operations
  <2>2. \E o \in Operations : GoesTo(i, "inspect", o)
    BY <1>1, <1>3, <2>1, GoToTurns DEF Steps, Typed
  <2> QED BY <1>1, <1>2, <1>3, <2>2
<1>4. CASE /\ FALSE \in PredatesTakedown(op[i].target)
           /\ op' = [op EXCEPT ![i].consumed = TRUE, ![i].pc = "inspect"]
  <2> DEFINE o == [op[i] EXCEPT !.consumed = TRUE, !.pc = "inspect"]
  <2>1. o \in Operations
    BY <1>1 DEF Operations, Steps
  <2>2. Formed(o, i) /\ Same(o, op[i]) /\ o.pc = "inspect" /\ o.state = "running"
    BY <1>1, <1>2 DEF Formed, Same, Operations
  <2>3. op' = [op EXCEPT ![i] = o]
    BY <1>4
  <2> HIDE DEF o
  <2>4. \E q \in Operations : GoesTo(i, "inspect", q)
    BY <2>1, <2>2, <2>3 DEF GoesTo, Turns
  <2> QED BY <1>1, <1>2, <1>4, <2>4
<1>5. CASE Throw(i)
  BY <1>1, <1>2, <1>5 DEF Stops
<1> QED BY <1>3, <1>4, <1>5 DEF ConsumeIntent

LEMMA InspectTurns ==
  ASSUME Typed, NEW i, InspectPointer(i)
  PROVE  /\ i \in Ids /\ op[i].pc = "inspect" /\ op[i].kind = "rollback" /\ op[i].consumed
         /\ \/ pointer = op[i].target /\ \E o \in Operations : GoesTo(i, "register", o)
            \/ pointer = op[i].from /\ \E o \in Operations : GoesTo(i, "swap", o) /\ o.seen = pointer
            \/ Stops(i)
<1>1. i \in Ids /\ op[i] \in Operations /\ Formed(op[i], i) /\ op[i].pc = "inspect"
  BY IdsAre DEF Typed, OpsTyped, InspectPointer, At
<1>2. op[i].kind = "rollback" /\ op[i].state = "running" /\ op[i].consumed
  BY <1>1 DEF Formed
<1>3. CASE pointer = op[i].target /\ GoTo(i, "register")
  <2>1. Formed([op[i] EXCEPT !.pc = "register"], i)
    BY <1>1, <1>2 DEF Formed, Operations
  <2>2. \E o \in Operations : GoesTo(i, "register", o)
    BY <1>1, <1>3, <2>1, GoToTurns DEF Steps, Typed
  <2> QED BY <1>1, <1>2, <1>3, <2>2
<1>4. CASE pointer = op[i].from /\ op' = [op EXCEPT ![i].pc = "swap", ![i].seen = pointer]
  <2> DEFINE o == [op[i] EXCEPT !.pc = "swap", !.seen = pointer]
  <2>1. pointer \in ReleaseIds
    BY DEF Typed, RemoteTyped
  <2>2. o \in Operations
    BY <1>1, <2>1 DEF Operations, Steps
  <2>3. Formed(o, i) /\ Same(o, op[i]) /\ o.pc = "swap" /\ o.state = "running" /\ o.seen = pointer
    BY <1>1, <1>2 DEF Formed, Same, Operations
  <2>4. op' = [op EXCEPT ![i] = o]
    BY <1>4
  <2> HIDE DEF o
  <2>5. \E q \in Operations : GoesTo(i, "swap", q) /\ q.seen = pointer
    BY <2>2, <2>3, <2>4 DEF GoesTo, Turns
  <2> QED BY <1>1, <1>2, <1>4, <2>5
<1>5. CASE FailForGood(i)
  BY <1>1, <1>2, <1>5 DEF Stops
<1> QED BY <1>3, <1>4, <1>5 DEF InspectPointer

LEMMA ConfirmTurns ==
  ASSUME Typed, NEW i, ConfirmRollback(i)
  PROVE  /\ i \in Ids /\ op[i].pc = "confirm" /\ op[i].kind = "rollback"
         /\ \/ pointer = op[i].target /\ \E o \in Operations : GoesTo(i, "register", o)
            \/ Stops(i)
<1>1. i \in Ids /\ op[i] \in Operations /\ Formed(op[i], i) /\ op[i].pc = "confirm"
  BY IdsAre DEF Typed, OpsTyped, ConfirmRollback, At
<1>2. op[i].kind = "rollback" /\ op[i].state = "running" /\ op[i].consumed
  BY <1>1 DEF Formed
<1>3. CASE pointer = op[i].target /\ GoTo(i, "register")
  <2>1. Formed([op[i] EXCEPT !.pc = "register"], i)
    BY <1>1, <1>2 DEF Formed, Operations
  <2>2. \E o \in Operations : GoesTo(i, "register", o)
    BY <1>1, <1>3, <2>1, GoToTurns DEF Steps, Typed
  <2> QED BY <1>1, <1>2, <1>3, <2>2
<1>5. CASE FailForGood(i)
  BY <1>1, <1>2, <1>5 DEF Stops
<1> QED BY <1>3, <1>5 DEF ConfirmRollback

LEMMA RolledBackTurns ==
  ASSUME Typed, NEW i, RegisterRollback(i)
  PROVE  /\ i \in Ids /\ op[i].pc = "register" /\ op[i].kind = "rollback"
         /\ \E o \in Operations : GoesTo(i, "complete", o)
<1>1. i \in Ids /\ op[i] \in Operations /\ Formed(op[i], i) /\ op[i].pc = "register" /\ op[i].kind = "rollback"
  BY IdsAre DEF Typed, OpsTyped, RegisterRollback, At
<1>2. Formed([op[i] EXCEPT !.pc = "complete"], i)
  BY <1>1 DEF Formed, Operations
<1>3. GoTo(i, "complete")
  BY DEF RegisterRollback
<1> QED BY <1>1, <1>2, <1>3, GoToTurns DEF Steps, Typed

LEMMA CompleteTurns ==
  ASSUME Typed, NEW i, Complete(i)
  PROVE  /\ i \in Ids /\ op[i].pc = "complete"
         /\ \E o \in Operations : Turns(i, o) /\ o.pc = "idle" /\ o.state = "succeeded"
                                  /\ o.consumed = op[i].consumed
<1>1. i \in Ids /\ op[i] \in Operations /\ Formed(op[i], i) /\ op[i].pc = "complete"
  BY IdsAre DEF Typed, OpsTyped, Complete, At
<1> DEFINE o == [op[i] EXCEPT !.state = "succeeded", !.pc = "idle", !.plan = Unplanned,
                              !.seen = NoRelease, !.attempt = 1, !.recorded = {}]
<1>2. op' = [op EXCEPT ![i] = o]
  BY DEF Complete, Finish
<1>3. o \in Operations
  BY <1>1, ConstantsAre, UnplannedIsPlan DEF Operations, Steps
<1>4. Formed(o, i) /\ Same(o, op[i]) /\ o.pc = "idle" /\ o.state = "succeeded" /\ o.consumed = op[i].consumed
  BY <1>1 DEF Formed, Same, Operations
<1> HIDE DEF o
<1> QED BY <1>1, <1>2, <1>3, <1>4 DEF Turns

LEMMA InterruptTurns ==
  ASSUME Typed, NEW i, Interrupt(i)
  PROVE  i \in Ids /\ op[i].pc # "idle" /\ Stops(i)
  BY DEF Interrupt, At, Stops

\* An operation is submitted.
Joins(o) == /\ op' = Append(op, o) /\ o \in Operations /\ Formed(o, NextId) /\ NextId \in OperationIds
            /\ o.state = "queued" /\ o.pc = "idle" /\ ~o.consumed

LEMMA JoinsTyped ==
  ASSUME OpsTyped, NEW o, Joins(o)
  PROVE  /\ OpsTyped' /\ Ids' = Ids \cup {NextId} /\ NextId \notin Ids
         /\ op'[NextId] = o /\ \A j \in Ids : op'[j] = op[j]
         /\ \A j \in Ids : j < NextId
<1>1. op \in Seq(Operations) /\ Ids = 1..Len(op) /\ Len(op) \in Nat
  BY IdsAre DEF OpsTyped
<1>2. /\ op' \in Seq(Operations) /\ Len(op') = Len(op) + 1
      /\ \A j \in 1..Len(op) : op'[j] = op[j]
      /\ op'[Len(op) + 1] = o
  BY <1>1, AppendProperties DEF Joins
<1>3. Ids' = 1..(Len(op) + 1)
  BY <1>2, LenProperties DEF Ids
<1>4. Ids' = Ids \cup {NextId} /\ NextId \notin Ids /\ \A j \in Ids : j < NextId
  BY <1>1, <1>3 DEF NextId
<1>5. Len(op') <= MaxOperations
  BY <1>1, <1>2, ConstantsAre DEF Joins, NextId
<1>6. \A j \in Ids' : Formed(op'[j], j)
  BY <1>1, <1>2, <1>4 DEF Joins, NextId, OpsTyped
<1> QED BY <1>1, <1>2, <1>4, <1>5, <1>6 DEF OpsTyped, NextId

KeysTyped(key) ==
  key \in [version: Nat, release: {Elsewhere} \cup ReleaseIds, retry: 0..MaxOperations]

LEMMA SubmitJoins ==
  ASSUME Typed, NEW kind \in {"publish", "takedown"}, NEW e \in Editions, NEW key,
         KeysTyped(key), Submit(kind, e, key)
  PROVE  \/ UNCHANGED op /\ Known(kind, e, key)
         \/ Joins(Operation(kind, e, key, NextId, NoRelease)) /\ ~Known(kind, e, key)
<1>1. CASE Known(kind, e, key)
  BY <1>1 DEF Submit
<1>2. CASE ~Known(kind, e, key)
  <2> DEFINE o == Operation(kind, e, key, NextId, NoRelease)
  <2>1. NextId \in OperationIds /\ op' = Append(op, o)
    BY <1>2 DEF Submit
  <2>2. version[e] \in Nat
    BY DEF Typed, EditionsTyped
  <2>3. o \in Operations
    BY <2>1, <2>2, ConstantsAre, UnplannedIsPlan
    DEF Operation, Operations, Kinds, Steps, KeysTyped
  <2>4. Formed(o, NextId) /\ o.state = "queued" /\ o.pc = "idle" /\ ~o.consumed
    BY DEF Operation, Formed
  <2>5. Joins(o)
    <3> HIDE DEF o
    <3> QED BY <2>1, <2>3, <2>4 DEF Joins
  <2> QED BY <1>2, <2>5
<1> QED BY <1>1, <1>2

LEMMA SubmitPublishJoins ==
  ASSUME Typed, NEW e \in Editions, SubmitPublish(e)
  PROVE  \/ UNCHANGED op
         \/ \E key : Joins(Operation("publish", e, key, NextId, NoRelease))
<1> DEFINE failures == {i \in Ids : /\ op[i].kind = "publish" /\ op[i].edition = e
                                     /\ op[i].state = "failed"}
           key == [version |-> version[e], release |-> compiled[e],
                   retry |-> IF status[e] = "published" THEN MaxOf(failures) ELSE 0]
<1>1. MaxOf(failures) \in 0..MaxOperations
  BY MaxOfProperties DEF Typed
<1>2. KeysTyped(key)
  <2> HIDE DEF failures
  <2> QED BY <1>1, ConstantsAre DEF KeysTyped, Typed, EditionsTyped
<1>3. Submit("publish", e, key)
  BY DEF SubmitPublish
<1> HIDE DEF key
<1> QED BY <1>2, <1>3, SubmitJoins

TakedownKey(e) == [NoKey EXCEPT !.release = row[e].release]

LEMMA RemoveJoins ==
  ASSUME Typed, NEW e \in Editions, RemovePublished(e)
  PROVE  \/ UNCHANGED op /\ reused' = reused \cup {e}
         \/ Joins(Operation("takedown", e, TakedownKey(e), NextId, NoRelease)) /\ UNCHANGED reused
<1>1. KeysTyped(TakedownKey(e))
  BY ConstantsAre DEF KeysTyped, TakedownKey, NoKey, Typed, EditionsTyped, Rows
<1>2. /\ Submit("takedown", e, TakedownKey(e))
      /\ reused' = IF Known("takedown", e, TakedownKey(e)) THEN reused \cup {e} ELSE reused
  BY DEF RemovePublished, TakedownKey
<1> QED BY <1>1, <1>2, SubmitJoins

LEMMA RequestJoins ==
  ASSUME Typed, NEW from \in OperationIds, NEW target \in OperationIds, RequestRollback(from, target)
  PROVE  Joins(Operation("rollback", Elsewhere, NoKey, target, from))
<1> DEFINE o == Operation("rollback", Elsewhere, NoKey, target, from)
<1>1. o \in Operations
  BY ConstantsAre, UnplannedIsPlan DEF Operation, Operations, Kinds, Steps, NoKey
<1>2. Formed(o, NextId) /\ o.state = "queued" /\ o.pc = "idle" /\ ~o.consumed
  BY DEF Operation, Formed, RequestRollback
<1>3. NextId \in OperationIds /\ op' = Append(op, o)
  BY DEF RequestRollback
<1>4. Joins(o)
  <2> HIDE DEF o
  <2> QED BY <1>1, <1>2, <1>3 DEF Joins
<1> QED BY <1>4

(***************************************************************************)
(* The actions of the editions' workflow, and the worker's.                *)
(***************************************************************************)
Submissions ==
  \/ \E e \in Editions : SubmitPublish(e) \/ RemovePublished(e)
  \/ \E from, target \in OperationIds : RequestRollback(from, target)
Workflow(e) == StartEditing(e) \/ Approve(e) \/ Evaluate(e) \/ AddSite(e) \/ RemovePending(e)
Worker(i) == \/ Begin(i) \/ Complete(i) \/ Interrupt(i)
             \/ Compile(i) \/ RecordCompile(i) \/ StoreRelease(i) \/ RegisterPublished(i)
             \/ ConsumeIntent(i) \/ InspectPointer(i) \/ ConfirmRollback(i) \/ RegisterRollback(i)
             \/ SwapPointer(i)

LEMMA NextIs ==
  Next <=> \/ Submissions
           \/ \E e \in Editions : Workflow(e)
           \/ \E i \in OperationIds : Worker(i)
  BY DEF Next, Submissions, Workflow, Worker

LEMMA WorkflowKeepsOps ==
  ASSUME NEW e \in Editions, Workflow(e)
  PROVE  UNCHANGED <<op, registry, stored, pointer, faults, reused>>
  BY DEF Workflow, StartEditing, Approve, Evaluate, AddSite, RemovePending, remote, history

LEMMA SubmissionsKeep ==
  ASSUME Typed, Submissions
  PROVE  /\ UNCHANGED <<registry, stored, pointer, faults, status, compiled, version, assessed>>
         /\ UNCHANGED op \/ \E o : Joins(o)
<1>1. ASSUME NEW e \in Editions, SubmitPublish(e)
      PROVE  UNCHANGED <<registry, stored, pointer, faults, status, compiled, version, assessed>>
             /\ (UNCHANGED op \/ \E o : Joins(o))
  BY <1>1, SubmitPublishJoins DEF SubmitPublish, edition, remote, history
<1>2. ASSUME NEW e \in Editions, RemovePublished(e)
      PROVE  UNCHANGED <<registry, stored, pointer, faults, status, compiled, version, assessed>>
             /\ (UNCHANGED op \/ \E o : Joins(o))
  BY <1>2, RemoveJoins DEF RemovePublished, remote
<1>3. ASSUME NEW from \in OperationIds, NEW target \in OperationIds, RequestRollback(from, target)
      PROVE  UNCHANGED <<registry, stored, pointer, faults, status, compiled, version, assessed>>
             /\ (UNCHANGED op \/ \E o : Joins(o))
  BY <1>3, RequestJoins DEF RequestRollback, edition, remote, history
<1> QED BY <1>1, <1>2, <1>3 DEF Submissions

\* Every step of the worker is one turn of one operation that has not ended, and the intent
\* of a rollback is consumed by a look at the takedowns only.
MayConsume(i, o) ==
  o.consumed => op[i].consumed \/ FALSE \in PredatesTakedown(op[i].target)

\* Of a plan, only what was compiled is recorded and stored.
MayPlan(i, o) ==
  /\ o.pc = "record" => o.plan.pages = Snapshot
  /\ o.pc = "store" => op[i].pc = "record" /\ o.plan = op[i].plan

\* It is not queued again, and only completion makes it succeed.
MayEnd(i, o) == o.state # "queued" /\ (o.state = "succeeded" => Complete(i))

LEMMA WorkerTurns ==
  ASSUME Typed, NEW i \in OperationIds, Worker(i)
  PROVE  /\ i \in Ids /\ op[i].state \in {"queued", "running"} /\ (op[i].pc # "idle" \/ Begin(i))
         /\ \E o \in Operations : Turns(i, o) /\ MayConsume(i, o) /\ MayPlan(i, o) /\ MayEnd(i, o)
<1> DEFINE Result == /\ i \in Ids /\ op[i].state \in {"queued", "running"} /\ (op[i].pc # "idle" \/ Begin(i))
                     /\ \E o \in Operations : Turns(i, o) /\ MayConsume(i, o) /\ MayPlan(i, o) /\ MayEnd(i, o)
<1>0. \A j \in Ids : /\ op[j].pc # "idle" => op[j].state = "running"
                     /\ op[j].kind = "rollback" /\ op[j].pc \notin {"idle", "consume"} => op[j].consumed
  BY DEF Typed, OpsTyped, Formed
<1>1. Begin(i) => Result
  BY BeginTurns DEF Typed, GoesTo, Begin, FirstStep, MayConsume, MayPlan, MayEnd
<1>2. i \in Ids /\ op[i].pc # "idle" /\ Stops(i) => Result
  <2>1. SUFFICES ASSUME i \in Ids, op[i].pc # "idle", Stops(i)
                 PROVE  Result
    OBVIOUS
  <2>2. PICK o \in Operations : Turns(i, o) /\ o.consumed = op[i].consumed
                                 /\ o.pc \in {"idle", "compile", "consume"}
                                 /\ o.state \in {"running", "failed"}
    BY <2>1, StopsTurns DEF Typed
  <2> QED BY <1>0, <2>1, <2>2 DEF MayConsume, MayPlan, MayEnd
<1>3. Compile(i) => Result
  BY <1>0, <1>2, CompileTurns DEF GoesTo, MayConsume, MayPlan, MayEnd
<1>4. RecordCompile(i) => Result
  BY <1>0, <1>2, RecordTurns DEF GoesTo, MayConsume, MayPlan, MayEnd
<1>5. StoreRelease(i) => Result
  BY <1>0, <1>2, StoreTurns DEF GoesTo, MayConsume, MayPlan, MayEnd
<1>6. SwapPointer(i) => Result
  BY <1>0, <1>2, SwapTurns DEF GoesTo, MayConsume, MayPlan, MayEnd
<1>7. RegisterPublished(i) => Result
  BY <1>0, <1>2, PublishedTurns DEF GoesTo, MayConsume, MayPlan, MayEnd
<1>8. ConsumeIntent(i) => Result
  BY <1>0, <1>2, ConsumeTurns DEF GoesTo, MayConsume, MayPlan, MayEnd
<1>9. InspectPointer(i) => Result
  BY <1>0, <1>2, InspectTurns DEF GoesTo, MayConsume, MayPlan, MayEnd
<1>10. ConfirmRollback(i) => Result
  BY <1>0, <1>2, ConfirmTurns DEF GoesTo, MayConsume, MayPlan, MayEnd
<1>11. RegisterRollback(i) => Result
  BY <1>0, RolledBackTurns DEF GoesTo, MayConsume, MayPlan, MayEnd
<1>12. Complete(i) => Result
  BY <1>0, CompleteTurns DEF MayConsume, MayPlan, MayEnd
<1>13. Interrupt(i) => Result
  BY <1>2, InterruptTurns
<1> QED BY <1>1, <1>3, <1>4, <1>5, <1>6, <1>7, <1>8, <1>9, <1>10, <1>11, <1>12, <1>13 DEF Worker

(***************************************************************************)
(* What the registry becomes.                                              *)
(***************************************************************************)
LEMMA RowsWritten ==
  ASSUME RegistryTyped, NEW i \in Ids, Ids \subseteq OperationIds, NEW f,
         f \in [RowIds -> Registered]
  PROVE  f \in Seq(Registered) /\ Len(f) = Len(registry) /\ DOMAIN f = RowIds
<1>1. RowIds = 1..Len(registry) /\ Len(registry) \in Nat
  BY RowIdsAre
<1>2. f \in Seq(Registered)
  BY <1>1, SeqDef
<1>3. DOMAIN f = 1..Len(f) /\ Len(f) \in Nat /\ DOMAIN f = 1..Len(registry)
  BY <1>1, <1>2, LenProperties
<1>4. Len(f) = Len(registry)
  BY <1>1, <1>3
<1> QED BY <1>1, <1>2, <1>3, <1>4

\* recordPublishedRelease: the release has a row, and it alone is current.
LEMMA PublishedRows ==
  ASSUME RegistryTyped, NEW i \in Ids, Ids \subseteq OperationIds,
         registry' = IF RowOf(i) = {}
                       THEN Append(Superseding(i), [release |-> i, state |-> "current", operation |-> i])
                     ELSE Superseding(i)
  PROVE  /\ registry' \in Seq(Registered) /\ RowIds \subseteq RowIds'
         /\ \A k \in RowIds : /\ registry'[k].release = registry[k].release
                              /\ registry'[k].operation \in {registry[k].operation, i}
         /\ \A k \in RowIds' \ RowIds : RowOf(i) = {} /\ registry'[k].release = i
                                         /\ registry'[k].operation = i /\ k = Len(registry) + 1
         /\ \A k \in RowIds' : registry'[k].state = "current" <=> registry'[k].release = i
         /\ \E k \in RowIds' : registry'[k].release = i
<1> DEFINE f == Superseding(i)
<1>1. RowIds = 1..Len(registry) /\ Len(registry) \in Nat
      /\ \A k \in RowIds : registry[k] \in Registered
  BY RowIdsAre
<1>2. f \in [RowIds -> Registered]
      /\ \A k \in RowIds : /\ f[k].release = registry[k].release
                           /\ f[k].operation \in {registry[k].operation, i}
                           /\ f[k].state = "current" <=> registry[k].release = i
  <2> SUFFICES ASSUME NEW k \in RowIds
               PROVE  /\ f[k] \in Registered
                      /\ f[k].release = registry[k].release
                      /\ f[k].operation \in {registry[k].operation, i}
                      /\ f[k].state = "current" <=> registry[k].release = i
    BY DEF Superseding
  <2>1. registry[k] \in Registered /\ i \in OperationIds
    BY <1>1
  <2>2. f[k] = IF registry[k].state = "current" /\ registry[k].release # i
                      THEN [registry[k] EXCEPT !.state = "superseded", !.operation = i]
                    ELSE IF registry[k].release = i /\ registry[k].state # "current"
                      THEN [registry[k] EXCEPT !.state = "current", !.operation = i]
                    ELSE registry[k]
    BY DEF Superseding, Updated
  <2> HIDE DEF f
  <2> QED BY <2>1, <2>2 DEF Registered
<1>3. f \in Seq(Registered) /\ Len(f) = Len(registry) /\ DOMAIN f = RowIds
  <2> HIDE DEF f
  <2> QED BY <1>2, RowsWritten
<1>4. CASE RowOf(i) = {}
  <2> DEFINE new == [release |-> i, state |-> "current", operation |-> i]
  <2>1. new \in Registered /\ new.release = i /\ new.state = "current" /\ new.operation = i
    BY DEF Registered
  <2>2. registry' = Append(f, new)
    BY <1>4
  <2>3. /\ registry' \in Seq(Registered) /\ Len(registry') = Len(registry) + 1
        /\ \A k \in RowIds : registry'[k] = f[k]
        /\ registry'[Len(registry) + 1] = new
    <3> HIDE DEF f, new
    <3>1. /\ Append(f, new) \in Seq(Registered) /\ Len(Append(f, new)) = Len(f) + 1
          /\ \A k \in 1..Len(f) : Append(f, new)[k] = f[k]
          /\ Append(f, new)[Len(f) + 1] = new
      BY <1>3, <2>1, AppendProperties
    <3> QED BY <1>1, <1>3, <2>2, <3>1
  <2>4. RowIds' = 1..(Len(registry) + 1)
    BY <2>3, LenProperties DEF RowIds
  <2>5. RowIds' = RowIds \cup {Len(registry) + 1}
    BY <1>1, <2>4
  <2> HIDE DEF f, new
  <2> QED BY <1>2, <1>4, <2>1, <2>3, <2>5
<1>5. CASE RowOf(i) # {}
  <2>1. registry' = f /\ RowIds' = RowIds
    BY <1>3, <1>5 DEF RowIds
  <2>2. PICK k \in RowIds : registry[k].release = i
    BY <1>5 DEF RowOf
  <2> HIDE DEF f
  <2> QED BY <1>2, <1>3, <2>1, <2>2
<1> QED BY <1>4, <1>5

\* recordRollbackReceipt: the release left is not current, the target is.
LEMMA RolledBackRows ==
  ASSUME RegistryTyped, NEW i \in Ids, Ids \subseteq OperationIds, op[i].from # op[i].target,
         RegisterRollback(i)
  PROVE  /\ registry' \in Seq(Registered) /\ RowIds' = RowIds
         /\ \A k \in RowIds : /\ registry'[k].release = registry[k].release
                              /\ registry'[k].operation \in {registry[k].operation, i}
                              /\ registry'[k].state = "current"
                                   <=> \/ registry[k].release = op[i].target
                                       \/ registry[k].release # op[i].from /\ registry[k].state = "current"
<1>1. RowIds = 1..Len(registry) /\ Len(registry) \in Nat
      /\ \A k \in RowIds : registry[k] \in Registered
  BY RowIdsAre
<1>2. registry' \in [RowIds -> Registered]
      /\ \A k \in RowIds : /\ registry'[k].release = registry[k].release
                           /\ registry'[k].operation \in {registry[k].operation, i}
                           /\ registry'[k].state = "current"
                                <=> \/ registry[k].release = op[i].target
                                    \/ registry[k].release # op[i].from /\ registry[k].state = "current"
  <2> DEFINE changed(k) ==
        IF registry[k].release = op[i].from /\ registry[k].state # "rolled_back"
          THEN [registry[k] EXCEPT !.state = "rolled_back", !.operation = i]
        ELSE IF registry[k].release = op[i].target /\ registry[k].state # "current"
          THEN [registry[k] EXCEPT !.state = "current", !.operation = i]
        ELSE registry[k]
  <2>1. registry' = [k \in RowIds |-> changed(k)]
    BY DEF RegisterRollback, Updated
  <2>2. ASSUME NEW k \in RowIds
        PROVE  /\ changed(k) \in Registered
               /\ changed(k).release = registry[k].release
               /\ changed(k).operation \in {registry[k].operation, i}
               /\ changed(k).state = "current"
                                <=> \/ registry[k].release = op[i].target
                                    \/ registry[k].release # op[i].from /\ registry[k].state = "current"
    <3>1. registry[k] \in Registered /\ i \in OperationIds
      BY <1>1
    <3>2. CASE registry[k].release = op[i].from /\ registry[k].state # "rolled_back"
      BY <3>1, <3>2 DEF Registered
    <3>3. CASE registry[k].release = op[i].target /\ registry[k].state # "current"
      BY <3>1, <3>3 DEF Registered
    <3>4. CASE /\ ~(registry[k].release = op[i].from /\ registry[k].state # "rolled_back")
               /\ ~(registry[k].release = op[i].target /\ registry[k].state # "current")
      <4>1. changed(k) = registry[k]
        BY <3>4
      <4> HIDE DEF changed
      <4> QED BY <3>1, <3>4, <4>1 DEF Registered
    <3> QED BY <3>2, <3>3, <3>4
  <2> HIDE DEF changed
  <2> QED BY <2>1, <2>2
<1>3. registry' \in Seq(Registered) /\ RowIds' = RowIds
  BY <1>2, RowsWritten DEF RowIds
<1> QED BY <1>2, <1>3

(***************************************************************************)
(* Typed is kept by every step.                                            *)
(***************************************************************************)
LEMMA OpsStayTyped ==
  ASSUME Typed, [Next]_vars
  PROVE  OpsTyped' /\ Ids \subseteq Ids' /\ Ids' \subseteq OperationIds
<1>1. CASE UNCHANGED op
  <2>1. OpsTyped' /\ Ids' = Ids
    BY <1>1 DEF Typed, OpsTyped, Ids, Formed
  <2> QED BY <2>1, IdsAre DEF Typed
<1>2. ASSUME NEW o, Joins(o) PROVE OpsTyped' /\ Ids \subseteq Ids' /\ Ids' \subseteq OperationIds
  <2>1. OpsTyped' /\ Ids' = Ids \cup {NextId} /\ NextId \in OperationIds /\ Ids \subseteq OperationIds
    BY <1>2, JoinsTyped, IdsAre DEF Typed, Joins
  <2> QED BY <2>1
<1>3. ASSUME NEW i \in OperationIds, Worker(i)
      PROVE  OpsTyped' /\ Ids \subseteq Ids' /\ Ids' \subseteq OperationIds
  <2>1. i \in Ids
    BY <1>3, WorkerTurns
  <2>2. PICK o \in Operations : Turns(i, o)
    BY <1>3, WorkerTurns
  <2> QED BY <2>1, <2>2, TurnsTyped, IdsAre DEF Typed
<1>4. CASE Submissions
  BY <1>1, <1>2, <1>4, SubmissionsKeep
<1>5. CASE \E e \in Editions : Workflow(e)
  BY <1>1, <1>5, WorkflowKeepsOps
<1>6. CASE UNCHANGED vars
  BY <1>1, <1>6 DEF vars
<1> QED BY <1>3, <1>4, <1>5, <1>6, NextIs

LEMMA EditionsStayTyped ==
  ASSUME Typed, [Next]_vars
  PROVE  EditionsTyped'
<1> USE DEF EditionsTyped
<1>0. EditionsTyped /\ OpsTyped
  BY DEF Typed
<1>1. ASSUME UNCHANGED edition PROVE EditionsTyped'
  BY <1>0, <1>1 DEF edition
<1>2. ASSUME NEW e \in Editions, Workflow(e) PROVE EditionsTyped'
  <2>1. CASE StartEditing(e)
    BY <1>0, <2>1, ConstantsAre DEF StartEditing
  <2>2. CASE Approve(e)
    <3>1. version[e] + 1 \in Nat \ {0} /\ version[e] + 1 <= MaxVersions[e]
      <4>1. version[e] \in Nat \ {0} /\ version[e] < MaxVersions[e]
        BY <1>0, <2>2 DEF Approve
      <4>2. MaxVersions[e] \in Nat
        BY SiteReleasesAssumption DEF SiteReleasesAssumption
      <4> QED BY <4>1, <4>2
    <3>2. /\ status' \in [Editions -> {"draft", "approved", "compiled", "published"}]
          /\ version' \in [Editions -> Nat \ {0}]
          /\ url' \in [Editions -> {"none", "reserved", "active", "gone"}]
      BY <1>0, <2>2, <3>1 DEF Approve, Reserved
    <3>3. \A x \in Editions : /\ version'[x] <= MaxVersions[x]
                              /\ status'[x] = "draft" => version'[x] < MaxVersions[x]
      BY <1>0, <2>2, <3>1 DEF Approve
    <3> QED BY <1>0, <2>2, <3>2, <3>3 DEF Approve
  <2>3. CASE Evaluate(e)
    BY <1>0, <2>3 DEF Evaluate
  <2>4. CASE AddSite(e)
    <3>1. Row("pending", NoRelease) \in Rows
      BY ConstantsAre DEF Row, Rows
    <3> QED BY <1>0, <2>4, <3>1 DEF AddSite, Reserved
  <2>5. CASE RemovePending(e)
    <3>1. Row("absent", NoRelease) \in Rows
      BY ConstantsAre DEF Row, Rows
    <3> QED BY <1>0, <2>5, <3>1 DEF RemovePending
  <2> QED BY <1>2, <2>1, <2>2, <2>3, <2>4, <2>5 DEF Workflow
<1>3. ASSUME NEW e \in Editions, RemovePublished(e) PROVE EditionsTyped'
  <2>1. Row("unpublished", NoRelease) \in Rows
    BY ConstantsAre DEF Row, Rows
  <2> QED BY <1>0, <1>3, <2>1 DEF RemovePublished
<1>4. ASSUME NEW i \in OperationIds, RecordCompile(i) PROVE EditionsTyped'
  <2> DEFINE e == op[i].edition
  <2>1. e \in Editions /\ i \in ReleaseIds
    BY <1>4, RecordTurns, ConstantsAre
  <2>2. Row("pending", i) \in Rows /\ CompiledRow(row[e], i) \in Rows
    BY <1>0, <2>1 DEF Row, Rows, CompiledRow
  <2>3. CASE UNCHANGED edition
    BY <1>1, <2>3
  <2>4. CASE /\ status[e] # "draft"
             /\ compiled' = [compiled EXCEPT ![e] = i]
             /\ \/ /\ status[e] = "approved"
                   /\ status' = [status EXCEPT ![e] = "compiled"]
                   /\ row' = [row EXCEPT ![e] = Row("pending", i)]
                \/ /\ status[e] # "approved" /\ row[e].state # "unpublished"
                   /\ row' = [row EXCEPT ![e] = CompiledRow(row[e], i)]
                   /\ UNCHANGED status
                \/ /\ status[e] # "approved" /\ row[e].state = "unpublished"
                   /\ UNCHANGED <<row, status>>
             /\ UNCHANGED <<version, url, assessed>>
    <3> HIDE DEF e
    <3>1. row' \in [Editions -> Rows]
      BY <1>0, <2>1, <2>2, <2>4
    <3>2. /\ status' \in [Editions -> {"draft", "approved", "compiled", "published"}]
          /\ \A x \in Editions : status'[x] = "draft" => status[x] = "draft"
      BY <1>0, <2>1, <2>4
    <3>3. compiled' \in [Editions -> {Elsewhere} \cup ReleaseIds]
      BY <1>0, <2>1, <2>4
    <3> QED BY <1>0, <2>4, <3>1, <3>2, <3>3
  <2> QED BY <1>4, <2>3, <2>4 DEF RecordCompile
<1>5. ASSUME NEW i \in OperationIds, RegisterPublished(i) PROVE EditionsTyped'
  <2> DEFINE e == op[i].edition
  <2>1. e \in Editions
    BY <1>5, PublishedTurns
  <2>2. CASE UNCHANGED edition
    BY <1>1, <2>2
  <2>3. CASE /\ url' = [url EXCEPT ![e] = Activated(url[e])]
             /\ row' = [row EXCEPT ![e].state = "published"]
             /\ status' = [status EXCEPT ![e] = IF row[e].state = "published" THEN status[e] ELSE "published"]
             /\ UNCHANGED <<compiled, version, assessed>>
    <3> HIDE DEF e
    <3>1. row' \in [Editions -> Rows]
      BY <1>0, <2>1, <2>3 DEF Rows
    <3>2. /\ status' \in [Editions -> {"draft", "approved", "compiled", "published"}]
          /\ \A x \in Editions : status'[x] = "draft" => status[x] = "draft"
      BY <1>0, <2>1, <2>3
    <3>3. url' \in [Editions -> {"none", "reserved", "active", "gone"}]
      BY <1>0, <2>1, <2>3 DEF Activated
    <3> QED BY <1>0, <2>3, <3>1, <3>2, <3>3
  <2> QED BY <1>5, <2>2, <2>3 DEF RegisterPublished
<1>6. ASSUME NEW i \in OperationIds, Worker(i) PROVE EditionsTyped'
  <2>1. CASE \/ Begin(i) \/ Complete(i) \/ Interrupt(i) \/ Compile(i) \/ StoreRelease(i)
             \/ ConsumeIntent(i) \/ InspectPointer(i) \/ ConfirmRollback(i) \/ RegisterRollback(i)
             \/ SwapPointer(i)
    BY <1>1, <2>1 DEF Begin, Complete, Interrupt, Compile, StoreRelease, ConsumeIntent, InspectPointer,
                      ConfirmRollback, RegisterRollback, SwapPointer
  <2> QED BY <1>4, <1>5, <1>6, <2>1 DEF Worker
<1>7. CASE Submissions
  <2>1. ASSUME NEW e \in Editions, SubmitPublish(e) PROVE EditionsTyped'
    BY <1>1, <2>1 DEF SubmitPublish
  <2>2. ASSUME NEW from, NEW target, RequestRollback(from, target) PROVE EditionsTyped'
    BY <1>1, <2>2 DEF RequestRollback
  <2> QED BY <1>3, <1>7, <2>1, <2>2 DEF Submissions
<1>8. CASE UNCHANGED vars
  BY <1>1, <1>8 DEF vars
<1> QED BY <1>2, <1>6, <1>7, <1>8, NextIs

\* The registry is only written by the two registrations.
LEMMA RegistryKept ==
  ASSUME Typed, [Next]_vars
  PROVE  \/ UNCHANGED registry
         \/ \E i \in OperationIds : RegisterPublished(i) \/ RegisterRollback(i)
<1>1. ASSUME NEW i \in OperationIds, Worker(i)
      PROVE  UNCHANGED registry \/ RegisterPublished(i) \/ RegisterRollback(i)
  BY <1>1 DEF Worker, Begin, Complete, Interrupt, Compile, RecordCompile, StoreRelease, ConsumeIntent,
              InspectPointer, ConfirmRollback, SwapPointer
<1>2. CASE Submissions
  BY <1>2, SubmissionsKeep
<1>3. CASE \E e \in Editions : Workflow(e)
  BY <1>3, WorkflowKeepsOps
<1>4. CASE UNCHANGED vars
  BY <1>4 DEF vars
<1> QED BY <1>1, <1>2, <1>3, <1>4, NextIs

LEMMA RegistryStaysTyped ==
  ASSUME Typed, [Next]_vars
  PROVE  RegistryTyped'
<1>0. RegistryTyped /\ Ids \subseteq Ids' /\ Ids \subseteq OperationIds
  BY OpsStayTyped, IdsAre DEF Typed
<1>1. CASE UNCHANGED registry
  BY <1>0, <1>1 DEF RegistryTyped, RowIds
<1>2. ASSUME NEW i \in OperationIds, RegisterPublished(i) PROVE RegistryTyped'
  <2>1. i \in Ids /\ op[i].pc # "idle"
    BY <1>2, PublishedTurns
  <2>2. CASE registry' = IF RowOf(i) = {}
                           THEN Append(Superseding(i), [release |-> i, state |-> "current", operation |-> i])
                         ELSE Superseding(i)
    <3>1. /\ registry' \in Seq(Registered) /\ RowIds \subseteq RowIds'
          /\ \A k \in RowIds : /\ registry'[k].release = registry[k].release
                               /\ registry'[k].operation \in {registry[k].operation, i}
          /\ \A k \in RowIds' \ RowIds : RowOf(i) = {} /\ registry'[k].release = i
                                          /\ registry'[k].operation = i /\ k = Len(registry) + 1
      BY <1>0, <2>1, <2>2, PublishedRows
    <3>2. \A k \in RowIds' : registry'[k].operation \in Ids'
      BY <1>0, <2>1, <3>1 DEF RegistryTyped
    <3>3. \A k, l \in RowIds' : registry'[k].release = registry'[l].release => k = l
      BY <1>0, <3>1 DEF RegistryTyped, RowOf
    <3> QED BY <3>1, <3>2, <3>3 DEF RegistryTyped
  <2> QED BY <1>1, <1>2, <2>2, PublishedTurns
<1>3. ASSUME NEW i \in OperationIds, RegisterRollback(i) PROVE RegistryTyped'
  <2>1. i \in Ids /\ op[i].kind = "rollback"
    BY <1>3, RolledBackTurns
  <2>2. op[i].from # op[i].target
    BY <2>1 DEF Typed, OpsTyped, Formed
  <2>3. /\ registry' \in Seq(Registered) /\ RowIds' = RowIds
        /\ \A k \in RowIds : /\ registry'[k].release = registry[k].release
                             /\ registry'[k].operation \in {registry[k].operation, i}
    BY <1>0, <1>3, <2>1, <2>2, RolledBackRows
  <2> QED BY <1>0, <2>1, <2>3 DEF RegistryTyped
<1> QED BY <1>1, <1>2, <1>3, RegistryKept

LEMMA RemoteStaysTyped ==
  ASSUME Typed, [Next]_vars
  PROVE  RemoteTyped'
<1>0. RemoteTyped /\ OpsTyped /\ Ids \subseteq OperationIds
      /\ \A i \in Ids : op[i].target \in OperationIds /\ op[i].plan \in Plans
  <2>1. \A i \in Ids : op[i] \in Operations
    BY IdsAre DEF Typed
  <2> QED BY <2>1, IdsAre DEF Typed, Operations
<1>1. ASSUME UNCHANGED <<stored, pointer>> PROVE RemoteTyped'
  BY <1>0, <1>1 DEF RemoteTyped
<1>2. ASSUME NEW i \in OperationIds, StoreRelease(i) PROVE RemoteTyped'
  <2>1. i \in Ids
    BY <1>2, StoreTurns
  <2>2. stored' = stored \/ stored' = [stored EXCEPT ![i] = op[i].plan]
    BY <1>2, StoreTurns
  <2>3. pointer' = pointer
    BY <1>2 DEF StoreRelease
  <2> QED BY <1>0, <2>1, <2>2, <2>3 DEF RemoteTyped
<1>3. ASSUME NEW i \in OperationIds, SwapPointer(i) PROVE RemoteTyped'
  <2>1. i \in Ids /\ (pointer' = pointer \/ pointer' = op[i].target)
    BY <1>3, SwapTurns
  <2>2. stored' = stored
    BY <1>3 DEF SwapPointer
  <2> QED BY <1>0, <2>1, <2>2, ConstantsAre DEF RemoteTyped
<1>4. ASSUME NEW i \in OperationIds, Worker(i) PROVE RemoteTyped'
  <2>1. CASE \/ Begin(i) \/ Complete(i) \/ Interrupt(i) \/ Compile(i) \/ RecordCompile(i)
             \/ ConsumeIntent(i) \/ InspectPointer(i) \/ ConfirmRollback(i) \/ RegisterRollback(i)
             \/ RegisterPublished(i)
    BY <1>1, <2>1 DEF Begin, Complete, Interrupt, Compile, RecordCompile, ConsumeIntent, InspectPointer,
                      ConfirmRollback, RegisterRollback, RegisterPublished, remote
  <2> QED BY <1>2, <1>3, <1>4, <2>1 DEF Worker
<1>5. CASE Submissions
  BY <1>1, <1>5, SubmissionsKeep
<1>6. CASE \E e \in Editions : Workflow(e)
  BY <1>1, <1>6, WorkflowKeepsOps
<1>7. CASE UNCHANGED vars
  BY <1>1, <1>7 DEF vars, remote
<1> QED BY <1>4, <1>5, <1>6, <1>7, NextIs

LEMMA HistoryStaysTyped ==
  ASSUME Typed, [Next]_vars
  PROVE  HistoryTyped'
<1>0. HistoryTyped
  BY DEF Typed
<1>1. ASSUME UNCHANGED <<faults, reused>> PROVE HistoryTyped'
  BY <1>0, <1>1 DEF HistoryTyped
<1>2. ASSUME NEW i \in OperationIds, Interrupt(i) PROVE HistoryTyped'
  <2>1. IsFiniteSet(Revised)
    BY FS_Subset, SiteReleasesAssumption DEF Revised, SiteReleasesAssumption
  <2>2. Cardinality(Revised) \in Nat
    BY <2>1, FS_CardinalityType
  <2>3. faults \in Nat /\ faults + Cardinality(Revised) < MaxUpsets
    BY <1>0, <1>2, ConstantsAre DEF HistoryTyped, Interrupt, MoreUpsets
  <2>4. faults + 1 \in 0..MaxUpsets
    BY <2>2, <2>3, ConstantsAre
  <2> QED BY <1>0, <1>2, <2>4 DEF HistoryTyped, Interrupt
<1>3. ASSUME NEW i \in OperationIds, Worker(i) PROVE HistoryTyped'
  <2>1. CASE \/ Begin(i) \/ Complete(i) \/ SwapPointer(i) \/ Compile(i) \/ RecordCompile(i)
             \/ ConsumeIntent(i) \/ InspectPointer(i) \/ ConfirmRollback(i) \/ RegisterRollback(i)
             \/ RegisterPublished(i) \/ StoreRelease(i)
    BY <1>1, <2>1 DEF Begin, Complete, SwapPointer, Compile, RecordCompile, ConsumeIntent, InspectPointer,
                      ConfirmRollback, RegisterRollback, RegisterPublished, StoreRelease, history
  <2> QED BY <1>2, <1>3, <2>1 DEF Worker
<1>4. CASE Submissions
  <2>1. ASSUME NEW e \in Editions, RemovePublished(e) PROVE HistoryTyped'
    <3>1. faults' = faults /\ (reused' = reused \/ reused' = reused \cup {e})
      BY <2>1, RemoveJoins DEF RemovePublished
    <3> QED BY <1>0, <3>1 DEF HistoryTyped
  <2>2. ASSUME NEW e, SubmitPublish(e) PROVE HistoryTyped'
    BY <1>1, <2>2 DEF SubmitPublish, history
  <2>3. ASSUME NEW from, NEW target, RequestRollback(from, target) PROVE HistoryTyped'
    BY <1>1, <2>3 DEF RequestRollback, history
  <2> QED BY <1>4, <2>1, <2>2, <2>3 DEF Submissions
<1>5. CASE \E e \in Editions : Workflow(e)
  BY <1>1, <1>5, WorkflowKeepsOps
<1>6. CASE UNCHANGED vars
  BY <1>1, <1>6 DEF vars, history
<1> QED BY <1>3, <1>4, <1>5, <1>6, NextIs

LEMMA StepTyped == Typed /\ [Next]_vars => Typed'
  BY OpsStayTyped, EditionsStayTyped, RegistryStaysTyped, RemoteStaysTyped, HistoryStaysTyped DEF Typed

\* Every variable keeps its type: a release has one row, so there are never more rows
\* than operations.
THEOREM TypeCorrect == Spec => []TypeOK
<1>1. Init => Typed
  BY InitTyped
<1>2. Typed /\ [Next]_vars => Typed'
  BY StepTyped
<1>3. Typed => TypeOK
  BY TypedIsTypeOK
<1> QED BY <1>1, <1>2, <1>3, PTL DEF Spec

(***************************************************************************)
(* A rollback that has been let through comes after the last takedown.     *)
(***************************************************************************)
LastTakedownReleased == Takedowns # {} => RowOf(MaxOf(Takedowns)) # {}

\* The row an operation other than a rollback wrote last says that it released; and once
\* the intent of a rollback was consumed, no takedown that has not released comes before
\* its end: removeSite refuses as long as a rollback is queued or runs.
WritersReleased ==
  \A k \in RowIds : op[registry[k].operation].kind # "rollback" => RowOf(registry[k].operation) # {}
ConsumedAreLater ==
  \A i \in Ids : op[i].kind = "rollback" /\ op[i].consumed /\ op[i].state \in {"queued", "running"}
                   => LastTakedownReleased
RollbacksGuarded == WritersReleased /\ ConsumedAreLater

\* Rows are never dropped, nor do they change their release.
LEMMA RowsStay ==
  ASSUME Typed, [Next]_vars
  PROVE  \A r : RowOf(r) # {} => RowOf(r)' # {}
<1>0. RegistryTyped /\ Ids \subseteq OperationIds
  BY IdsAre DEF Typed
<1>1. ASSUME RowIds \subseteq RowIds', \A k \in RowIds : registry'[k].release = registry[k].release
      PROVE  \A r : RowOf(r) # {} => RowOf(r)' # {}
  BY <1>1 DEF RowOf
<1>2. CASE UNCHANGED registry
  BY <1>2 DEF RowOf, RowIds
<1>3. ASSUME NEW i \in OperationIds, RegisterPublished(i)
      PROVE  \A r : RowOf(r) # {} => RowOf(r)' # {}
  <2>1. i \in Ids
    BY <1>3, PublishedTurns
  <2>2. UNCHANGED registry \/ (RowIds \subseteq RowIds' /\ \A k \in RowIds : registry'[k].release = registry[k].release)
    BY <1>0, <1>3, <2>1, PublishedTurns, PublishedRows
  <2> QED BY <1>1, <1>2, <2>2
<1>4. ASSUME NEW i \in OperationIds, RegisterRollback(i)
      PROVE  \A r : RowOf(r) # {} => RowOf(r)' # {}
  <2>1. i \in Ids /\ op[i].from # op[i].target
    BY <1>4, RolledBackTurns DEF Typed, OpsTyped, Formed
  <2>2. RowIds \subseteq RowIds' /\ \A k \in RowIds : registry'[k].release = registry[k].release
    BY <1>0, <1>4, <2>1, RolledBackRows
  <2> QED BY <1>1, <2>2
<1> QED BY <1>2, <1>3, <1>4, RegistryKept

LEMMA ConsumedIsAfterTakedown ==
  ASSUME Typed, RollbacksGuarded, NEW i \in Ids, FALSE \in PredatesTakedown(op[i].target)
  PROVE  LastTakedownReleased
<1> SUFFICES ASSUME Takedowns # {} PROVE RowOf(MaxOf(Takedowns)) # {}
  BY DEF LastTakedownReleased
<1> DEFINE latest == MaxOf(Takedowns)
<1>1. latest \in Takedowns /\ latest # 0
  BY MaxOfProperties, IdsAre DEF Typed, Takedowns
<1>2. PICK k \in RowIds : registry[k].operation = latest
  BY <1>1 DEF PredatesTakedown
<1> QED BY <1>1, <1>2 DEF RollbacksGuarded, WritersReleased, Takedowns

LEMMA InitGuarded == Init => RollbacksGuarded
  BY DEF Init, RollbacksGuarded, WritersReleased, ConsumedAreLater, RowIds, Ids

LEMMA StepGuarded ==
  ASSUME Typed, RollbacksGuarded, [Next]_vars
  PROVE  RollbacksGuarded'
<1>0. /\ Typed' /\ Ids \subseteq Ids' /\ \A r : RowOf(r) # {} => RowOf(r)' # {}
      /\ \A k \in RowIds : registry[k].operation \in Ids
      /\ RegistryTyped /\ Ids \subseteq OperationIds
  BY StepTyped, OpsStayTyped, RowsStay, IdsAre DEF Typed, RegistryTyped
\* The kinds stay, so the takedowns do unless one is submitted.
<1>1. ASSUME UNCHANGED registry,
             \A j \in Ids : op'[j].kind = op[j].kind
      PROVE  WritersReleased'
  <2>1. RowIds' = RowIds /\ \A r : RowOf(r)' = RowOf(r)
    BY <1>1 DEF RowIds, RowOf
  <2>2. \A k \in RowIds : op[registry[k].operation].kind # "rollback" => RowOf(registry[k].operation) # {}
    BY DEF RollbacksGuarded, WritersReleased
  <2>3. \A k \in RowIds : op'[registry'[k].operation].kind = op[registry[k].operation].kind
    BY <1>0, <1>1
  <2> QED BY <1>1, <2>1, <2>2, <2>3 DEF WritersReleased
<1>2. ASSUME Takedowns' = Takedowns
      PROVE  LastTakedownReleased => LastTakedownReleased'
  <2>1. MaxOf(Takedowns)' = MaxOf(Takedowns)
    BY <1>2 DEF MaxOf
  <2> QED BY <1>0, <1>2, <2>1 DEF LastTakedownReleased
<1>3. CASE UNCHANGED op /\ UNCHANGED registry
  <2>1. Takedowns' = Takedowns /\ Ids' = Ids
    BY <1>3 DEF Takedowns, Ids
  <2>2. WritersReleased'
    BY <1>1, <1>3
  <2> QED BY <1>2, <1>3, <2>1, <2>2 DEF RollbacksGuarded, ConsumedAreLater
<1>4. ASSUME NEW o, Joins(o), UNCHANGED registry, o.kind = "takedown" => ~RollbackPending
      PROVE  RollbacksGuarded'
  <2>1. /\ Ids' = Ids \cup {NextId} /\ NextId \notin Ids
        /\ op'[NextId] = o /\ \A j \in Ids : op'[j] = op[j]
        /\ ~o.consumed
    BY <1>4, JoinsTyped DEF Joins, Typed
  <2>2. WritersReleased'
    BY <1>1, <1>4, <2>1
  <2>3. CASE o.kind = "takedown"
    <3>1. \A j \in Ids : ~(op[j].kind = "rollback" /\ op[j].state \in {"queued", "running"})
      BY <1>4, <2>3 DEF RollbackPending
    <3>2. ConsumedAreLater'
      BY <2>1, <3>1 DEF ConsumedAreLater
    <3> QED BY <2>2, <3>2 DEF RollbacksGuarded
  <2>4. CASE o.kind # "takedown"
    <3>1. Takedowns' = Takedowns
      BY <2>1, <2>4 DEF Takedowns
    <3>2. ConsumedAreLater'
      BY <1>2, <2>1, <3>1 DEF RollbacksGuarded, ConsumedAreLater
    <3> QED BY <2>2, <3>2 DEF RollbacksGuarded
  <2> QED BY <2>3, <2>4
<1>5. CASE Submissions
  <2>0. UNCHANGED registry
    BY <1>5, SubmissionsKeep
  <2>1. ASSUME NEW e \in Editions, SubmitPublish(e) PROVE RollbacksGuarded'
    <3>1. \A key : Operation("publish", e, key, NextId, NoRelease).kind # "takedown"
      BY DEF Operation
    <3> QED BY <1>3, <1>4, <2>0, <2>1, <3>1, SubmitPublishJoins
  <2>2. ASSUME NEW e \in Editions, RemovePublished(e) PROVE RollbacksGuarded'
    <3>1. ~RollbackPending
      BY <2>2 DEF RemovePublished
    <3> QED BY <1>3, <1>4, <2>0, <2>2, <3>1, RemoveJoins
  <2>3. ASSUME NEW from \in OperationIds, NEW target \in OperationIds, RequestRollback(from, target)
        PROVE  RollbacksGuarded'
    <3>1. Operation("rollback", Elsewhere, NoKey, target, from).kind # "takedown"
      BY DEF Operation
    <3> QED BY <1>4, <2>0, <2>3, <3>1, RequestJoins
  <2> QED BY <1>5, <2>1, <2>2, <2>3 DEF Submissions
<1>6. ASSUME NEW i \in OperationIds, Worker(i) PROVE RollbacksGuarded'
  <2>1. i \in Ids /\ op[i].state \in {"queued", "running"}
    BY <1>6, WorkerTurns
  <2>2. PICK o \in Operations : Turns(i, o) /\ MayConsume(i, o)
    BY <1>6, WorkerTurns
  <2>3. /\ Ids' = Ids /\ op'[i] = o /\ \A j \in Ids : j # i => op'[j] = op[j]
        /\ \A j \in Ids : op'[j].kind = op[j].kind
    BY <2>1, <2>2, TurnsTyped DEF Same, Typed
  <2>4. Takedowns' = Takedowns
    BY <2>3 DEF Takedowns
  <2>5. ConsumedAreLater'
    <3>1. ASSUME NEW j \in Ids, op'[j].kind = "rollback", op'[j].consumed, op'[j].state \in {"queued", "running"}
          PROVE  LastTakedownReleased'
      <4>1. CASE j # i
        BY <1>2, <2>3, <2>4, <3>1, <4>1 DEF RollbacksGuarded, ConsumedAreLater
      <4>2. CASE j = i
        <5>1. LastTakedownReleased
          BY <2>1, <2>2, <2>3, <3>1, <4>2, ConsumedIsAfterTakedown
          DEF RollbacksGuarded, ConsumedAreLater, MayConsume
        <5> QED BY <1>2, <2>4, <5>1
      <4> QED BY <4>1, <4>2
    <3> QED BY <2>3, <3>1 DEF ConsumedAreLater
  <2>6. WritersReleased'
    <3>1. CASE UNCHANGED registry
      BY <1>1, <2>3, <3>1
    <3>2. CASE RegisterPublished(i) /\ ~UNCHANGED registry
      <4>1. /\ RowIds \subseteq RowIds'
            /\ \A l \in RowIds : /\ registry'[l].release = registry[l].release
                                 /\ registry'[l].operation \in {registry[l].operation, i}
            /\ \A l \in RowIds' \ RowIds : registry'[l].operation = i
            /\ \E l \in RowIds' : registry'[l].release = i
        BY <1>0, <2>1, <3>2, PublishedTurns, PublishedRows
      <4>2. RowOf(i)' # {}
        BY <4>1 DEF RowOf
      <4> SUFFICES ASSUME NEW k \in RowIds', (op[registry[k].operation].kind # "rollback")'
                   PROVE  (RowOf(registry[k].operation) # {})'
        BY DEF WritersReleased
      <4>3. CASE registry'[k].operation = i
        BY <4>2, <4>3
      <4>4. CASE k \in RowIds /\ registry'[k].operation = registry[k].operation
        <5>1. op[registry[k].operation].kind # "rollback"
          BY <1>0, <2>3, <4>4
        <5>2. RowOf(registry[k].operation) # {}
          BY <4>4, <5>1 DEF RollbacksGuarded, WritersReleased
        <5> QED BY <1>0, <4>4, <5>2
      <4> QED BY <4>1, <4>3, <4>4
    <3>3. CASE RegisterRollback(i)
      <4>1. op[i].kind = "rollback" /\ op[i].from # op[i].target
        BY <3>3, RolledBackTurns DEF Typed, OpsTyped, Formed
      <4>2. RowIds' = RowIds /\ \A l \in RowIds : registry'[l].operation \in {registry[l].operation, i}
        BY <1>0, <2>1, <3>3, <4>1, RolledBackRows
      <4> SUFFICES ASSUME NEW k \in RowIds', (op[registry[k].operation].kind # "rollback")'
                   PROVE  (RowOf(registry[k].operation) # {})'
        BY DEF WritersReleased
      <4>3. registry'[k].operation = registry[k].operation /\ op[registry[k].operation].kind # "rollback"
        BY <1>0, <2>1, <2>3, <4>1, <4>2
      <4>4. RowOf(registry[k].operation) # {}
        BY <4>2, <4>3 DEF RollbacksGuarded, WritersReleased
      <4> QED BY <1>0, <4>3, <4>4
    <3>4. UNCHANGED registry \/ RegisterPublished(i) \/ RegisterRollback(i)
      BY <1>6 DEF Worker, Begin, Complete, Interrupt, Compile, RecordCompile, StoreRelease, ConsumeIntent,
                  InspectPointer, ConfirmRollback, SwapPointer
    <3> QED BY <3>1, <3>2, <3>3, <3>4
  <2> QED BY <2>5, <2>6 DEF RollbacksGuarded
<1>7. CASE \E e \in Editions : Workflow(e)
  BY <1>3, <1>7, WorkflowKeepsOps
<1>8. CASE UNCHANGED vars
  BY <1>3, <1>8 DEF vars
<1> QED BY <1>5, <1>6, <1>7, <1>8, NextIs

\* consumeRollbackIntent looks at the takedowns once; with removeSite refused while a
\* rollback waits or runs, the swap itself comes after the last takedown's release, for
\* any number of workers.
THEOREM RollbacksAreGuarded == Spec => RollbackAfterTakedownReleased
<1> DEFINE Step == \A i \in Ids :
       At(i, "swap") /\ op[i].kind = "rollback" /\ pointer' # pointer /\ Takedowns # {}
         => RowOf(MaxOf(Takedowns)) # {}
<1>1. Init => Typed /\ RollbacksGuarded
  BY InitTyped, InitGuarded
<1>2. Typed /\ RollbacksGuarded /\ [Next]_vars => (Typed /\ RollbacksGuarded)'
  BY StepTyped, StepGuarded
<1>3. Typed /\ RollbacksGuarded => Step
  BY DEF Typed, OpsTyped, Formed, At, RollbacksGuarded, ConsumedAreLater, LastTakedownReleased
<1>4. Typed /\ RollbacksGuarded /\ [Next]_vars => [Step]_vars
  BY <1>3
<1> QED BY <1>1, <1>2, <1>4, PTL DEF Spec, RollbackAfterTakedownReleased

(***************************************************************************)
(* The release of a takedown does not show the edition.                    *)
(***************************************************************************)
Open(i) == op[i].state \in {"queued", "running"}

\* The edition has not been approved since the operation was submitted.
Standing(i) == op[i].version = version[op[i].edition]

Omitted(i) ==
  LET e == op[i].edition
  IN /\ ~Shows(stored[i], e)
     /\ op[i].pc \in {"record", "store"} => ~Shows(op[i].plan, e)
     /\ status[e] \in {"published", "draft"}
     /\ Open(i) => /\ row[e].state = "unpublished"
                   /\ \A j \in Takedowns : op[j].edition = e => j <= i

\* From its submission on, until its edition is approved anew, the edition of a takedown
\* stays removed while the operation is open: addSite and a removal both ask for the last
\* takedown to have succeeded, or for a published row.
Omissions ==
  /\ \A i \in Ids : op[i].kind # "rollback" => op[i].version <= version[op[i].edition]
  /\ \A j \in OperationIds \ Ids : stored[j] = Unplanned
  /\ \A i \in Takedowns : Standing(i) => Omitted(i)

LEMMA InitOmits == Init => Omissions
  BY DEF Init, Omissions, Takedowns, Ids

LEMMA VersionsGrow ==
  ASSUME Typed, [Next]_vars
  PROVE  /\ \A e \in Editions : version[e] <= version'[e]
         /\ UNCHANGED version \/ \E e \in Editions : Approve(e)
<1>0. \A e \in Editions : version[e] \in Nat
  BY DEF Typed, EditionsTyped
<1>1. CASE UNCHANGED version
  BY <1>0, <1>1
<1>2. ASSUME NEW e \in Editions, Approve(e)
      PROVE  \A x \in Editions : version[x] <= version'[x]
  BY <1>0, <1>2 DEF Approve, Typed, EditionsTyped
<1>3. UNCHANGED version \/ \E e \in Editions : Approve(e)
  <2>1. ASSUME NEW e \in Editions, Workflow(e) PROVE UNCHANGED version \/ Approve(e)
    BY <2>1 DEF Workflow, StartEditing, Evaluate, AddSite, RemovePending
  <2>2. ASSUME NEW i \in OperationIds, Worker(i) PROVE UNCHANGED version
    BY <2>2 DEF Worker, Begin, Complete, Interrupt, Compile, RecordCompile, StoreRelease, ConsumeIntent,
                InspectPointer, ConfirmRollback, SwapPointer, RegisterPublished, RegisterRollback, edition
  <2>3. CASE Submissions
    BY <2>3, SubmissionsKeep
  <2>4. CASE UNCHANGED vars
    BY <2>4 DEF vars, edition
  <2> QED BY <2>1, <2>2, <2>3, <2>4, NextIs
<1> QED BY <1>1, <1>2, <1>3

\* The release of an operation is only stored by it.
LEMMA StoredBy ==
  ASSUME Typed, [Next]_vars
  PROVE  \/ UNCHANGED stored
         \/ \E i \in Ids : /\ StoreRelease(i) /\ op[i].pc = "store" /\ op[i].kind # "rollback"
                           /\ stored' = [stored EXCEPT ![i] = op[i].plan]
<1>1. ASSUME NEW i \in OperationIds, Worker(i)
      PROVE  UNCHANGED stored \/ StoreRelease(i)
  BY <1>1 DEF Worker, Begin, Complete, Interrupt, Compile, RecordCompile, ConsumeIntent, InspectPointer,
              ConfirmRollback, SwapPointer, RegisterPublished, RegisterRollback, remote
<1>2. CASE Submissions \/ (\E e \in Editions : Workflow(e)) \/ UNCHANGED vars
  BY <1>2, SubmissionsKeep, WorkflowKeepsOps DEF vars, remote
<1> QED BY <1>1, <1>2, StoreTurns, NextIs

\* Of an edition whose takedown is open, or has released what does not show it, only the
\* approval of another version changes what the takedown relies on.
LEMMA RowStaysRemoved ==
  ASSUME Typed, Omissions, [Next]_vars, NEW i \in Takedowns, Standing(i), Standing(i)'
  PROVE  LET e == op[i].edition
         IN /\ status'[e] \in {"published", "draft"}
            /\ Open(i) => row'[e].state = "unpublished"
<1> DEFINE e == op[i].edition
           Kept == status'[e] \in {"published", "draft"} /\ (Open(i) => row'[e].state = "unpublished")
<1> SUFFICES Kept
  OBVIOUS
<1>1. /\ i \in Ids /\ e \in Editions /\ op[i].kind = "takedown"
      /\ op'[i].edition = e /\ op'[i].version = op[i].version
      /\ version'[e] = version[e] /\ version[e] \in Nat
  <2>1. i \in Ids /\ op[i].kind = "takedown" /\ e \in Editions
    BY DEF Takedowns, Typed, OpsTyped, Formed
  <2>2. op'[i].edition = e /\ op'[i].version = op[i].version
    <3>1. UNCHANGED op => op'[i].edition = e /\ op'[i].version = op[i].version
      OBVIOUS
    <3>2. ASSUME NEW o, Joins(o) PROVE op'[i].edition = e /\ op'[i].version = op[i].version
      BY <2>1, <3>2, JoinsTyped DEF Typed
    <3>3. ASSUME NEW j \in OperationIds, Worker(j)
          PROVE  op'[i].edition = e /\ op'[i].version = op[i].version
      BY <2>1, <3>3, WorkerTurns, TurnsTyped DEF Typed, Same
    <3>4. CASE Submissions
      BY <3>1, <3>2, <3>4, SubmissionsKeep
    <3>5. CASE (\E x \in Editions : Workflow(x)) \/ UNCHANGED vars
      BY <3>1, <3>5, WorkflowKeepsOps DEF vars
    <3> QED BY <3>3, <3>4, <3>5, NextIs
  <2>3. version'[e] = version[e]
    BY <2>2 DEF Standing
  <2> QED BY <2>1, <2>2, <2>3 DEF Typed, EditionsTyped
<1>2. /\ status[e] \in {"published", "draft"}
      /\ Open(i) => /\ row[e].state = "unpublished"
                    /\ \A j \in Takedowns : op[j].edition = e => j <= i
  BY DEF Omissions, Omitted
<1>3. ASSUME UNCHANGED <<status, row>> PROVE Kept
  BY <1>2, <1>3
<1>4. /\ status \in [Editions -> {"draft", "approved", "compiled", "published"}]
      /\ row \in [Editions -> Rows] /\ version \in [Editions -> Nat \ {0}]
  BY DEF Typed, EditionsTyped
<1> HIDE DEF e
<1>5. ASSUME NEW x \in Editions, Workflow(x) PROVE Kept
  <2>1. CASE StartEditing(x)
    BY <1>1, <1>2, <1>4, <2>1 DEF StartEditing
  <2>2. CASE Approve(x)
    <3>1. x # e
      BY <1>1, <1>4, <2>2 DEF Approve
    <3> QED BY <1>1, <1>2, <1>4, <2>2, <3>1 DEF Approve
  <2>3. CASE Evaluate(x)
    BY <1>3, <2>3 DEF Evaluate
  <2>4. CASE AddSite(x)
    <3>1. UNCHANGED status /\ (x # e => row'[e] = row[e])
      BY <1>1, <1>4, <2>4 DEF AddSite
    <3>2. CASE x = e /\ Open(i)
      <4>1. TakedownDone(e)
        BY <1>2, <2>4, <3>2 DEF AddSite
      <4>2. LastTakedown(e) = i
        <5> DEFINE S == {j \in Takedowns : op[j].edition = e}
        <5>1. i \in S /\ S \in SUBSET Ids
          BY DEF Takedowns, e
        <5>2. MaxOf(S) \in S /\ i <= MaxOf(S)
          BY <5>1, MaxOfProperties DEF Typed
        <5>3. MaxOf(S) <= i
          BY <1>2, <3>2, <5>2
        <5>4. MaxOf(S) \in Nat /\ i \in Nat
          BY <5>1, <5>2, IdsAre DEF Typed
        <5>5. MaxOf(S) = i
          <6> HIDE DEF S
          <6> QED BY <5>2, <5>3, <5>4
        <5> QED BY <5>5 DEF LastTakedown
      <4> QED BY <3>2, <4>1, <4>2 DEF TakedownDone, Open
    <3> QED BY <1>2, <3>1, <3>2
  <2>5. CASE RemovePending(x)
    BY <1>1, <1>2, <1>4, <2>5 DEF RemovePending
  <2> QED BY <1>5, <2>1, <2>2, <2>3, <2>4, <2>5 DEF Workflow
<1>6. CASE Submissions
  <2>1. ASSUME NEW x \in Editions, SubmitPublish(x) PROVE Kept
    BY <1>3, <2>1 DEF SubmitPublish, edition
  <2>2. ASSUME NEW x \in Editions, RemovePublished(x) PROVE Kept
    <3>1. UNCHANGED status /\ row' = [row EXCEPT ![x] = Row("unpublished", NoRelease)]
      BY <2>2 DEF RemovePublished
    <3> QED BY <1>1, <1>2, <1>4, <3>1 DEF Row
  <2>3. ASSUME NEW from, NEW target, RequestRollback(from, target) PROVE Kept
    BY <1>3, <2>3 DEF RequestRollback, edition
  <2> QED BY <1>6, <2>1, <2>2, <2>3 DEF Submissions
<1>7. ASSUME NEW k \in OperationIds, RecordCompile(k) PROVE Kept
  <2> DEFINE x == op[k].edition
  <2>1. x \in Editions
    BY <1>7, RecordTurns
  <2>2. CASE UNCHANGED edition
    BY <1>3, <2>2 DEF edition
  <2>3. CASE \/ /\ status[x] = "approved"
                /\ status' = [status EXCEPT ![x] = "compiled"]
                /\ row' = [row EXCEPT ![x] = Row("pending", k)]
             \/ /\ status[x] # "approved" /\ row[x].state # "unpublished"
                /\ row' = [row EXCEPT ![x] = CompiledRow(row[x], k)]
                /\ UNCHANGED status
             \/ UNCHANGED <<row, status>>
    <3> HIDE DEF x
    <3> QED BY <1>1, <1>2, <1>3, <1>4, <2>1, <2>3
  <2> QED BY <1>7, <2>2, <2>3 DEF RecordCompile
<1>8. ASSUME NEW k \in OperationIds, RegisterPublished(k) PROVE Kept
  <2> DEFINE x == op[k].edition
  <2>1. x \in Editions
    BY <1>8, PublishedTurns
  <2>2. CASE UNCHANGED edition
    BY <1>3, <2>2 DEF edition
  <2>3. CASE /\ row[x].state # "unpublished"
             /\ row' = [row EXCEPT ![x].state = "published"]
             /\ status' = [status EXCEPT ![x] = IF row[x].state = "published" THEN status[x] ELSE "published"]
    <3> HIDE DEF x
    <3> QED BY <1>1, <1>2, <1>4, <2>1, <2>3
  <2> QED BY <1>8, <2>2, <2>3 DEF RegisterPublished
<1>9. ASSUME NEW k \in OperationIds, Worker(k) PROVE Kept
  <2>1. CASE \/ Begin(k) \/ Complete(k) \/ Interrupt(k) \/ Compile(k) \/ StoreRelease(k)
             \/ ConsumeIntent(k) \/ InspectPointer(k) \/ ConfirmRollback(k) \/ RegisterRollback(k)
             \/ SwapPointer(k)
    BY <1>3, <2>1 DEF Begin, Complete, Interrupt, Compile, StoreRelease, ConsumeIntent, InspectPointer,
                      ConfirmRollback, RegisterRollback, SwapPointer, edition
  <2> QED BY <1>7, <1>8, <1>9, <2>1 DEF Worker
<1>10. CASE UNCHANGED vars
  BY <1>3, <1>10 DEF vars, edition
<1> QED BY <1>5, <1>6, <1>9, <1>10, NextIs

LEMMA StepOmits ==
  ASSUME Typed, Omissions, [Next]_vars
  PROVE  Omissions'
<1>0. /\ OpsTyped /\ Ids \subseteq OperationIds /\ RemoteTyped
      /\ \A e \in Editions : version[e] \in Nat /\ version'[e] \in Nat /\ version[e] <= version'[e]
      /\ \A j \in Ids : op[j].version \in Nat
      /\ \A j \in Ids : op[j].kind # "rollback" => op[j].edition \in Editions
      /\ \A j \in Ids : op[j].kind # "rollback" => op[j].version <= version[op[j].edition]
      /\ \A j \in OperationIds \ Ids : stored[j] = Unplanned
  <2>1. \A j \in Ids : op[j].version \in Nat
    BY IdsAre DEF Typed, Operations
  <2>2. \A e \in Editions : version[e] \in Nat /\ version'[e] \in Nat
    BY EditionsStayTyped DEF Typed, EditionsTyped
  <2> QED BY <2>1, <2>2, IdsAre, VersionsGrow DEF Typed, OpsTyped, Formed, Omissions
<1>1. ASSUME Ids' = Ids, \A j \in Ids : Same(op'[j], op[j])
      PROVE  /\ \A j \in Ids' : op'[j].kind # "rollback" => op'[j].version <= version'[op'[j].edition]
             /\ \A j \in OperationIds \ Ids' : stored'[j] = Unplanned
  <2>1. \A j \in Ids' : op'[j].kind # "rollback" => op'[j].version <= version'[op'[j].edition]
    <3> SUFFICES ASSUME NEW j \in Ids, op[j].kind # "rollback"
                 PROVE  op[j].version <= version'[op[j].edition]
      BY <1>1 DEF Same
    <3>1. op[j].edition \in Editions /\ op[j].version \in Nat
          /\ op[j].version <= version[op[j].edition]
      BY <1>0
    <3>2. /\ version[op[j].edition] \in Nat /\ version'[op[j].edition] \in Nat
          /\ version[op[j].edition] <= version'[op[j].edition]
      BY <1>0, <3>1
    <3> QED BY <3>1, <3>2
  <2>2. \A j \in OperationIds \ Ids' : stored'[j] = Unplanned
    BY <1>0, <1>1, StoredBy DEF RemoteTyped
  <2> QED BY <2>1, <2>2
\* A takedown that there was, and that still stands.
<1>2. ASSUME NEW i \in Takedowns, Standing(i)'
      PROVE  op'[i].version = op[i].version /\ op'[i].edition = op[i].edition => Standing(i)
  <2>1. op[i].edition \in Editions /\ op[i].version \in Nat
        /\ op[i].version <= version[op[i].edition]
    BY <1>0 DEF Takedowns
  <2>2. /\ version[op[i].edition] \in Nat /\ version'[op[i].edition] \in Nat
        /\ version[op[i].edition] <= version'[op[i].edition]
    BY <1>0, <2>1
  <2> SUFFICES ASSUME op'[i].version = op[i].version, op'[i].edition = op[i].edition
               PROVE  op[i].version = version[op[i].edition]
    BY DEF Standing
  <2>3. op[i].version = version'[op[i].edition]
    BY <1>2 DEF Standing
  <2> QED BY <2>1, <2>2, <2>3
<1>3. ASSUME Ids' = Ids, \A j \in Ids : op'[j] = op[j], UNCHANGED stored
      PROVE  Omissions'
  <2>1. Takedowns' = Takedowns
    BY <1>3 DEF Takedowns
  <2>2. ASSUME NEW i \in Takedowns, Standing(i)' PROVE Omitted(i)'
    <3>1. i \in Ids /\ op'[i] = op[i]
      BY <1>3 DEF Takedowns
    <3>2. Standing(i) /\ Omitted(i)
      BY <1>2, <2>2, <3>1 DEF Omissions
    <3>3. /\ status'[op[i].edition] \in {"published", "draft"}
          /\ Open(i) => row'[op[i].edition].state = "unpublished"
      BY <2>2, <3>2, RowStaysRemoved
    <3>4. Open(i)' => \A j \in Takedowns : op'[j].edition = op[i].edition => j <= i
      BY <1>3, <3>1, <3>2 DEF Omitted, Open, Takedowns
    <3>5. Open(i)' = Open(i)
      BY <3>1 DEF Open
    <3> QED BY <1>3, <2>1, <3>1, <3>2, <3>3, <3>4, <3>5 DEF Omitted
  <2>3. \A j \in Ids : Same(op'[j], op[j])
    BY <1>3 DEF Same
  <2> QED BY <1>1, <1>3, <2>1, <2>2, <2>3 DEF Omissions
<1>4. ASSUME NEW o, Joins(o), UNCHANGED <<stored, status, version>>,
             o.kind # "rollback" => o.version <= version[o.edition],
             o.kind = "takedown" => /\ status[o.edition] = "published"
                                    /\ row[o.edition].state = "published"
                                    /\ row'[o.edition].state = "unpublished"
      PROVE  Omissions'
  <2>1. /\ Ids' = Ids \cup {NextId} /\ NextId \notin Ids
        /\ op'[NextId] = o /\ \A j \in Ids : op'[j] = op[j]
        /\ \A j \in Ids : j < NextId
        /\ o \in Operations /\ o.pc = "idle" /\ NextId \in OperationIds
        /\ o.kind # "rollback" => o.edition \in Editions
    BY <1>0, <1>4, JoinsTyped DEF Joins, Formed
  <2>2. /\ \A j \in Ids' : op'[j].kind # "rollback" => op'[j].version <= version'[op'[j].edition]
        /\ \A j \in OperationIds \ Ids' : stored'[j] = Unplanned
    BY <1>0, <1>4, <2>1
  <2>3. ASSUME NEW i \in Takedowns, Standing(i)' PROVE Omitted(i)'
    <3>1. i \in Ids /\ op'[i] = op[i]
      BY <2>1 DEF Takedowns
    <3>2. Standing(i) /\ Omitted(i)
      BY <1>2, <2>3, <3>1 DEF Omissions
    <3>3. /\ status'[op[i].edition] \in {"published", "draft"}
          /\ Open(i) => row'[op[i].edition].state = "unpublished"
      BY <2>3, <3>2, RowStaysRemoved
    <3>4. ASSUME Open(i), NEW j \in Takedowns', op'[j].edition = op[i].edition PROVE j <= i
      <4>1. CASE j \in Takedowns
        BY <2>1, <3>2, <3>4, <4>1 DEF Omitted, Takedowns
      <4>2. CASE j = NextId
        BY <1>4, <2>1, <3>2, <3>4, <4>2 DEF Omitted, Takedowns
      <4> QED BY <2>1, <3>4, <4>1, <4>2 DEF Takedowns
    <3>5. Open(i)' = Open(i)
      BY <3>1 DEF Open
    <3> QED BY <1>4, <3>1, <3>2, <3>3, <3>4, <3>5 DEF Omitted
  <2>4. ASSUME o.kind = "takedown", NEW n, n = NextId PROVE Omitted(n)'
    <3>1. stored'[n] = Unplanned /\ op'[n] = o
      BY <1>0, <1>4, <2>1, <2>4
    <3>2. ~Shows(stored'[n], o.edition)
      BY <2>1, <2>4, <3>1 DEF Shows, Unplanned
    <3>3. \A j \in Takedowns' : j <= n
      <4>1. \A j \in Ids' : j <= n
        BY <1>0, <2>1, <2>4, IdsAre DEF NextId
      <4> QED BY <4>1 DEF Takedowns
    <3> QED BY <1>4, <2>1, <2>4, <3>1, <3>2, <3>3 DEF Omitted
  <2>5. \A i \in Takedowns' : i \in Takedowns \/ (i = NextId /\ o.kind = "takedown")
    BY <2>1 DEF Takedowns
  <2> QED BY <2>2, <2>3, <2>4, <2>5 DEF Omissions
<1>5. ASSUME NEW k \in OperationIds, Worker(k) PROVE Omissions'
  <2>1. k \in Ids /\ Open(k)
    BY <1>5, WorkerTurns DEF Open
  <2>2. PICK o \in Operations : Turns(k, o) /\ MayPlan(k, o)
    BY <1>5, WorkerTurns
  <2>3. /\ Ids' = Ids /\ op'[k] = o /\ \A j \in Ids : j # k => op'[j] = op[j]
        /\ \A j \in Ids : Same(op'[j], op[j])
    BY <1>0, <2>1, <2>2, TurnsTyped
  <2>4. Takedowns' = Takedowns
    BY <2>3 DEF Takedowns, Same
  <2>5. ASSUME NEW i \in Takedowns, Standing(i)' PROVE Omitted(i)'
    <3> DEFINE e == op[i].edition
    <3>1. i \in Ids /\ op'[i].version = op[i].version /\ op'[i].edition = e
      BY <2>3 DEF Takedowns, Same
    <3>2. Standing(i) /\ Omitted(i)
      BY <1>2, <2>5, <3>1 DEF Omissions
    <3>3. /\ status'[e] \in {"published", "draft"}
          /\ Open(i) => row'[e].state = "unpublished"
      BY <2>5, <3>2, RowStaysRemoved
    <3>4. Open(i)' => Open(i)
      BY <2>1, <2>3, <3>1 DEF Open
    <3>5. Open(i)' => \A j \in Takedowns : op'[j].edition = e => j <= i
      <4>1. \A j \in Takedowns : op'[j].edition = op[j].edition
        BY <2>3 DEF Takedowns, Same
      <4> QED BY <3>2, <3>4, <4>1 DEF Omitted
    <3>6. ~Shows(stored'[i], e)
      <4>1. CASE UNCHANGED stored
        BY <3>2, <4>1 DEF Omitted
      <4>2. ASSUME NEW j \in Ids, op[j].pc = "store", stored' = [stored EXCEPT ![j] = op[j].plan]
            PROVE  ~Shows(stored'[i], e)
        <5>1. j # i => stored'[i] = stored[i]
          BY <4>2
        <5>2. j = i => stored'[i] = op[i].plan
          BY <1>0, <3>1, <4>2 DEF RemoteTyped
        <5> QED BY <3>2, <4>2, <5>1, <5>2 DEF Omitted
      <4> QED BY <4>1, <4>2, StoredBy
    <3>7. op'[i].pc \in {"record", "store"} => ~Shows(op'[i].plan, e)
      <4>1. CASE i # k
        BY <2>3, <3>1, <3>2, <4>1 DEF Omitted
      <4>2. CASE i = k /\ o.pc = "record"
        <5>1. o.plan.pages = Snapshot /\ e \in Editions
          BY <1>0, <2>2, <4>2 DEF MayPlan, Takedowns
        <5>2. row[e].state = "unpublished"
          BY <2>1, <3>2, <4>2 DEF Omitted
        <5>3. Snapshot[e] = 0
          BY <5>1, <5>2 DEF Snapshot, Selected, Member
        <5> QED BY <2>3, <4>2, <5>1, <5>3 DEF Shows
      <4>3. CASE i = k /\ o.pc = "store"
        BY <2>2, <2>3, <3>2, <4>3 DEF MayPlan, Omitted
      <4> QED BY <2>3, <3>1, <4>1, <4>2, <4>3
    <3> QED BY <2>4, <3>1, <3>3, <3>4, <3>5, <3>6, <3>7 DEF Omitted
  <2> QED BY <1>1, <2>3, <2>4, <2>5 DEF Omissions
<1>6. ASSUME UNCHANGED <<op, stored>> PROVE Omissions'
  <2>1. Ids' = Ids
    BY <1>6 DEF Ids
  <2> QED BY <1>3, <1>6, <2>1
<1>7. CASE Submissions
  <2>0. UNCHANGED <<stored, status, version>>
    BY <1>7, SubmissionsKeep
  <2>1. ASSUME NEW e \in Editions, NEW kind \in {"publish", "takedown"}, NEW key
        PROVE  LET o == Operation(kind, e, key, NextId, NoRelease)
               IN o.kind = kind /\ o.edition = e /\ o.version <= version[e]
    <3>1. version[e] \in Nat
      BY <1>0
    <3> QED BY <3>1 DEF Operation
  <2>2. ASSUME NEW e \in Editions, SubmitPublish(e) PROVE Omissions'
    <3>1. ASSUME NEW key, Joins(Operation("publish", e, key, NextId, NoRelease)) PROVE Omissions'
      <4> DEFINE o == Operation("publish", e, key, NextId, NoRelease)
      <4>1. Joins(o) /\ o.kind = "publish" /\ o.edition = e /\ o.version <= version[e]
        BY <2>1, <3>1
      <4> HIDE DEF o
      <4> QED BY <1>4, <2>0, <4>1
    <3> QED BY <1>6, <2>0, <2>2, <3>1, SubmitPublishJoins
  <2>3. ASSUME NEW e \in Editions, RemovePublished(e) PROVE Omissions'
    <3> DEFINE o == Operation("takedown", e, TakedownKey(e), NextId, NoRelease)
    <3>1. o.kind = "takedown" /\ o.edition = e /\ o.version <= version[e]
      BY <2>1
    <3>2. status[e] = "published" /\ row[e].state = "published" /\ row'[e].state = "unpublished"
      BY <2>3 DEF RemovePublished, Row, Typed, EditionsTyped
    <3>3. Joins(o) \/ UNCHANGED op
      BY <2>3, RemoveJoins
    <3> HIDE DEF o
    <3> QED BY <1>4, <1>6, <2>0, <3>1, <3>2, <3>3
  <2>4. ASSUME NEW from \in OperationIds, NEW target \in OperationIds, RequestRollback(from, target)
        PROVE  Omissions'
    <3> DEFINE o == Operation("rollback", Elsewhere, NoKey, target, from)
    <3>1. o.kind = "rollback"
      BY DEF Operation
    <3>2. Joins(o)
      BY <2>4, RequestJoins
    <3> HIDE DEF o
    <3> QED BY <1>4, <2>0, <3>1, <3>2
  <2> QED BY <1>7, <2>2, <2>3, <2>4 DEF Submissions
<1>8. CASE (\E e \in Editions : Workflow(e)) \/ UNCHANGED vars
  BY <1>6, <1>8, WorkflowKeepsOps DEF vars, remote
<1> QED BY <1>5, <1>7, <1>8, NextIs

\* operations.ts:60-64: for any number of workers, the release of a takedown never shows
\* the edition, as long as no other version of it was approved since.
THEOREM TakedownsOmit == Spec => []TakedownReleaseOmits
<1>1. Init => Typed /\ Omissions
  BY InitTyped, InitOmits
<1>2. Typed /\ Omissions /\ [Next]_vars => (Typed /\ Omissions)'
  BY StepTyped, StepOmits
<1>3. Omissions => TakedownReleaseOmits
  BY DEF Omissions, Omitted, Standing, TakedownReleaseOmits
<1> QED BY <1>1, <1>2, <1>3, PTL DEF Spec

(***************************************************************************)
(* One operation at a time.                                                *)
(***************************************************************************)
Active(i) == op[i].pc # "idle"
Alone == \A i, j \in Ids : Active(i) /\ Active(j) => i = j

LEMMA BusyIsActive ==
  ASSUME Typed, Busy < 1
  PROVE  \A i \in Ids : ~Active(i)
<1> DEFINE S == {i \in Ids : op[i].pc # "idle"}
<1>1. IsFiniteSet(S)
  <2>1. IsFiniteSet(OperationIds)
    BY FS_Interval, ConstantsAre
  <2>2. S \subseteq OperationIds
    BY IdsAre DEF Typed
  <2> QED BY <2>1, <2>2, FS_Subset
<1>2. Cardinality(S) \in Nat /\ Cardinality(S) < 1
  BY <1>1, FS_CardinalityType DEF Busy
<1>3. Cardinality(S) = 0
  <2> HIDE DEF S
  <2> QED BY <1>2
<1>4. S = {}
  <2> HIDE DEF S
  <2> QED BY <1>1, <1>3, FS_EmptySet
<1> QED BY <1>4 DEF Active

\* With one slot, while an operation takes a step no other is between two of its own.
LEMMA OthersIdle ==
  ASSUME Typed, Slots = 1, Alone, NEW i \in OperationIds, Worker(i)
  PROVE  \A j \in Ids : j # i => ~Active(j)
<1>1. i \in Ids /\ (Active(i) \/ Begin(i))
  BY WorkerTurns DEF Active
<1>2. CASE Begin(i)
  BY <1>2, BusyIsActive DEF Begin
<1>3. CASE Active(i)
  BY <1>1, <1>3 DEF Alone
<1> QED BY <1>1, <1>2, <1>3

(***************************************************************************)
(* What is removed stays so until an operation completes.                  *)
(***************************************************************************)
TakedownsOf(e) == {i \in Takedowns : op[i].edition = e}

LEMMA LastTakedownIsLast ==
  ASSUME NEW e
  PROVE  OpsTyped /\ TakedownsOf(e) # {}
           => LastTakedown(e) \in TakedownsOf(e) /\ \A j \in TakedownsOf(e) : j <= LastTakedown(e)
<1> SUFFICES ASSUME OpsTyped, TakedownsOf(e) # {}
             PROVE  LastTakedown(e) \in TakedownsOf(e) /\ \A j \in TakedownsOf(e) : j <= LastTakedown(e)
  OBVIOUS
<1>1. TakedownsOf(e) \in SUBSET Ids
  BY DEF TakedownsOf, Takedowns
<1>2. LastTakedown(e) = MaxOf(TakedownsOf(e))
  BY DEF LastTakedown, TakedownsOf
<1> QED BY <1>1, <1>2, MaxOfProperties

LEMMA RemovedWas ==
  ASSUME Typed, Omissions, [Next]_vars, NEW e \in Editions, Removed(e)',
         \A k \in OperationIds : ~Complete(k)
  PROVE  Removed(e)
<1> DEFINE S == TakedownsOf(e)
           L == LastTakedown(e)
\* It is enough that no takedown of the edition came or succeeded, and that its row and
\* what is known of its former removals were the same.
<1>1. ASSUME S' = S, row[e].state = "unpublished", reused \subseteq reused',
             \A i \in S : op'[i].version = op[i].version /\ op'[i].edition = e
                          /\ (op'[i].state = "succeeded" => op[i].state = "succeeded")
      PROVE  Removed(e)
  <2>1. L' = L
    <3>1. MaxOf(S)' = MaxOf(S)
      <4> HIDE DEF S
      <4> QED BY <1>1 DEF MaxOf
    <3> QED BY <3>1 DEF LastTakedown, TakedownsOf
  <2>2. L # 0 /\ op'[L].state = "succeeded" /\ op'[L].version = version'[e] /\ e \notin reused
    BY <1>1, <2>1 DEF Removed, TakedownDone
  <2>3. L \in S
    <3>1. S = {} => L = 0
      BY DEF LastTakedown, MaxOf, TakedownsOf
    <3> QED BY <2>2, <3>1, LastTakedownIsLast DEF Typed
  <2>4. op[L].state = "succeeded" /\ op[L].version = version'[e]
    <3> HIDE DEF S, L
    <3> QED BY <1>1, <2>2, <2>3
  <2>5. L \in Ids /\ op[L].kind = "takedown" /\ op[L].edition = e
    BY <2>3 DEF Takedowns, TakedownsOf
  <2>6. op[L].version <= version[e]
    BY <2>5 DEF Omissions
  <2>7. version[e] <= version'[e] /\ version[e] \in Nat /\ version'[e] \in Nat
    BY VersionsGrow, EditionsStayTyped DEF Typed, EditionsTyped
  <2>8. op[L].version = version[e]
    <3> HIDE DEF L
    <3> QED BY <2>4, <2>6, <2>7
  <2> QED BY <1>1, <2>2, <2>4, <2>8 DEF Removed, TakedownDone
<1>2. ASSUME UNCHANGED op, row[e].state = "unpublished", reused \subseteq reused' PROVE Removed(e)
  <2>1. S' = S
    BY <1>2 DEF Takedowns, Ids, TakedownsOf
  <2>2. \A i \in S : op'[i].version = op[i].version /\ op'[i].edition = e
                     /\ (op'[i].state = "succeeded" => op[i].state = "succeeded")
    BY <1>2 DEF TakedownsOf
  <2> QED BY <1>1, <1>2, <2>1, <2>2
<1>3. ASSUME NEW o, Joins(o), ~(o.kind = "takedown" /\ o.edition = e),
             row[e].state = "unpublished", reused \subseteq reused'
      PROVE  Removed(e)
  <2>1. /\ Ids' = Ids \cup {NextId} /\ NextId \notin Ids
        /\ op'[NextId] = o /\ \A j \in Ids : op'[j] = op[j]
    BY <1>3, JoinsTyped DEF Typed
  <2>2. S' = S
    BY <1>3, <2>1 DEF Takedowns, TakedownsOf
  <2>3. \A i \in S : op'[i].version = op[i].version /\ op'[i].edition = e
                     /\ (op'[i].state = "succeeded" => op[i].state = "succeeded")
    BY <2>1 DEF Takedowns, TakedownsOf
  <2> QED BY <1>1, <1>3, <2>2, <2>3
<1>4. row'[e].state = "unpublished" /\ e \notin reused'
  BY DEF Removed
<1>5. \A x \in Editions : row[x] \in Rows
  BY DEF Typed, EditionsTyped
<1> HIDE DEF S, L
<1>6. CASE Submissions
  <2>1. ASSUME NEW x \in Editions, SubmitPublish(x) PROVE Removed(e)
    <3>1. row[e].state = "unpublished" /\ reused \subseteq reused'
      BY <1>4, <2>1 DEF SubmitPublish, edition, history
    <3>2. \A key : Operation("publish", x, key, NextId, NoRelease).kind # "takedown"
      BY DEF Operation
    <3> QED BY <1>2, <1>3, <2>1, <3>1, <3>2, SubmitPublishJoins
  <2>2. ASSUME NEW x \in Editions, RemovePublished(x) PROVE Removed(e)
    <3> DEFINE o == Operation("takedown", x, TakedownKey(x), NextId, NoRelease)
    <3>1. o.kind = "takedown" /\ o.edition = x /\ o.state = "queued"
      BY DEF Operation
    <3>2. \/ UNCHANGED op /\ reused' = reused \cup {x}
          \/ Joins(o) /\ UNCHANGED reused
      BY <2>2, RemoveJoins
    <3>3. row' = [row EXCEPT ![x] = Row("unpublished", NoRelease)]
      BY <2>2 DEF RemovePublished
    <3> HIDE DEF o
    <3>4. CASE x # e
      <4>1. row[e].state = "unpublished"
        BY <1>4, <3>3, <3>4
      <4> QED BY <1>2, <1>3, <3>1, <3>2, <3>4, <4>1
    <3>5. CASE x = e
      <4>1. Joins(o)
        BY <1>4, <3>2, <3>5
      <4>2. /\ OpsTyped' /\ Ids' = Ids \cup {NextId} /\ op'[NextId] = o
            /\ \A j \in Ids : j < NextId
        BY <4>1, JoinsTyped DEF Typed
      <4>3. NextId \in S'
        BY <3>1, <3>5, <4>2 DEF S, Takedowns, TakedownsOf
      <4>4. L' \in S' /\ \A j \in S' : j <= L'
        <5>1. (OpsTyped /\ TakedownsOf(e) # {}
                => LastTakedown(e) \in TakedownsOf(e) /\ \A j \in TakedownsOf(e) : j <= LastTakedown(e))'
          BY LastTakedownIsLast, PTL
        <5> QED BY <4>2, <4>3, <5>1 DEF S, L
      <4>5. L' = NextId
        <5>1. L' \in Ids' /\ NextId <= L'
          BY <4>3, <4>4 DEF S, Takedowns, TakedownsOf
        <5>2. NextId \in Nat /\ \A j \in Ids : j \in Nat
          BY IdsAre DEF Typed, NextId
        <5> QED BY <4>2, <5>1, <5>2
      <4>6. op'[NextId].state = "succeeded"
        BY <4>5 DEF Removed, TakedownDone, L
      <4> QED BY <3>1, <4>2, <4>6
    <3> QED BY <3>4, <3>5
  <2>3. ASSUME NEW from \in OperationIds, NEW target \in OperationIds, RequestRollback(from, target)
        PROVE  Removed(e)
    <3>1. row[e].state = "unpublished" /\ reused \subseteq reused'
      BY <1>4, <2>3 DEF RequestRollback, edition, history
    <3>2. Operation("rollback", Elsewhere, NoKey, target, from).kind # "takedown"
      BY DEF Operation
    <3> QED BY <1>3, <2>3, <3>1, <3>2, RequestJoins
  <2> QED BY <1>6, <2>1, <2>2, <2>3 DEF Submissions
<1>7. ASSUME NEW x \in Editions, Workflow(x) PROVE Removed(e)
  <2>1. row[e].state = "unpublished"
    <3>1. CASE row'[e] = row[e]
      BY <1>4, <3>1
    <3>2. CASE AddSite(x) \/ RemovePending(x)
      BY <1>4, <3>2 DEF AddSite, RemovePending, Row, Typed, EditionsTyped
    <3> QED BY <1>7, <3>1, <3>2 DEF Workflow, StartEditing, Approve, Evaluate
  <2> QED BY <1>2, <1>7, <2>1, WorkflowKeepsOps
<1>8. ASSUME NEW k \in OperationIds, Worker(k) PROVE Removed(e)
  <2>1. k \in Ids
    BY <1>8, WorkerTurns
  <2>2. PICK o \in Operations : Turns(k, o) /\ MayEnd(k, o)
    BY <1>8, WorkerTurns
  <2>3. /\ Ids' = Ids /\ op'[k] = o /\ \A j \in Ids : j # k => op'[j] = op[j]
        /\ \A j \in Ids : Same(op'[j], op[j])
    BY <2>1, <2>2, TurnsTyped DEF Typed
  <2>4. S' = S /\ S \subseteq Ids /\ \A i \in S : op[i].edition = e
    BY <2>3 DEF S, Takedowns, TakedownsOf, Same
  <2>5. \A i \in S : op'[i].version = op[i].version /\ op'[i].edition = e
                     /\ (op'[i].state = "succeeded" => op[i].state = "succeeded")
    BY <2>2, <2>3, <2>4 DEF Same, MayEnd
  <2>6. reused \subseteq reused'
    BY <1>8 DEF Worker, Begin, Complete, Interrupt, Compile, RecordCompile, StoreRelease, ConsumeIntent,
                InspectPointer, ConfirmRollback, SwapPointer, RegisterPublished, RegisterRollback, history
  <2>7. row[e].state = "unpublished"
    <3>1. CASE UNCHANGED row
      BY <1>4, <3>1
    <3>2. CASE RecordCompile(k)
      <4> DEFINE x == op[k].edition
      <4>1. x \in Editions
        BY <3>2, RecordTurns
      <4>2. \/ UNCHANGED row
            \/ row' = [row EXCEPT ![x] = Row("pending", k)]
            \/ row[x].state # "unpublished" /\ row' = [row EXCEPT ![x] = CompiledRow(row[x], k)]
        BY <3>2 DEF RecordCompile, edition
      <4> HIDE DEF x
      <4> QED BY <1>4, <4>1, <4>2 DEF Row, CompiledRow, Typed, EditionsTyped
    <3>3. CASE RegisterPublished(k)
      <4> DEFINE x == op[k].edition
      <4>1. x \in Editions
        BY <3>3, PublishedTurns
      <4>2. UNCHANGED row \/ row' = [row EXCEPT ![x].state = "published"]
        BY <3>3 DEF RegisterPublished, edition
      <4> HIDE DEF x
      <4> QED BY <1>4, <1>5, <4>1, <4>2 DEF Typed, EditionsTyped, Rows
    <3> QED BY <1>8, <3>1, <3>2, <3>3
        DEF Worker, Begin, Complete, Interrupt, Compile, StoreRelease, ConsumeIntent,
            InspectPointer, ConfirmRollback, SwapPointer, RegisterRollback, edition
  <2> QED BY <1>1, <2>4, <2>5, <2>6, <2>7
<1>9. CASE UNCHANGED vars
  <2>1. row[e].state = "unpublished" /\ UNCHANGED op /\ reused \subseteq reused'
    BY <1>4, <1>9 DEF vars, edition, history
  <2> QED BY <1>2, <2>1
<1> QED BY <1>6, <1>7, <1>8, <1>9, NextIs

(***************************************************************************)
(* Between its steps the active operation finds what it left.              *)
(***************************************************************************)
\* The plan of the active operation shows no edition whose takedown has succeeded: no
\* other operation completes meanwhile.
PlanOmits(i) == \A e \in Editions : Removed(e) => ~Shows(op[i].plan, e)

Settled(i) ==
  /\ op[i].kind # "rollback" /\ op[i].pc \in {"record", "store", "swap"} => PlanOmits(i)
  /\ op[i].pc = "swap" => /\ op[i].seen = pointer
                          /\ op[i].kind # "rollback" => stored[i] = op[i].plan
                          /\ op[i].kind = "rollback" => pointer = op[i].from
  /\ op[i].pc \in {"confirm", "register", "complete"} => pointer = op[i].target
  /\ op[i].pc = "complete" =>
       /\ RowOf(op[i].target) \cap Current # {}
       /\ op[i].kind # "rollback" => Current \subseteq RowOf(op[i].target)
       /\ op[i].kind = "rollback" => RowOf(op[i].from) \cap Current = {}

TargetsReleased == \A i \in Ids : op[i].kind = "rollback" => RowOf(op[i].target) # {}

Solo == Slots = 1 => Alone /\ \A i \in Ids : Settled(i)

LEMMA InitSolo == Init => Solo /\ TargetsReleased
  BY DEF Init, Solo, Alone, TargetsReleased, Ids

LEMMA StepTargets ==
  ASSUME Typed, TargetsReleased, [Next]_vars
  PROVE  TargetsReleased'
<1>0. OpsTyped /\ \A r : RowOf(r) # {} => RowOf(r)' # {}
  BY RowsStay DEF Typed
<1>1. ASSUME Ids' = Ids, \A j \in Ids : Same(op'[j], op[j]) PROVE TargetsReleased'
  BY <1>0, <1>1 DEF TargetsReleased, Same
<1>2. CASE UNCHANGED op
  BY <1>1, <1>2 DEF Same, Ids
<1>3. ASSUME NEW o, Joins(o), o.kind = "rollback" => RowOf(o.target) # {} PROVE TargetsReleased'
  <2>1. Ids' = Ids \cup {NextId} /\ op'[NextId] = o /\ \A j \in Ids : op'[j] = op[j]
    BY <1>0, <1>3, JoinsTyped
  <2> QED BY <1>0, <1>3, <2>1 DEF TargetsReleased
<1>4. CASE Submissions
  <2>1. ASSUME NEW e \in Editions, SubmitPublish(e) PROVE TargetsReleased'
    <3>1. \A key : Operation("publish", e, key, NextId, NoRelease).kind # "rollback"
      BY DEF Operation
    <3> QED BY <1>2, <1>3, <2>1, <3>1, SubmitPublishJoins
  <2>2. ASSUME NEW e \in Editions, RemovePublished(e) PROVE TargetsReleased'
    <3>1. Operation("takedown", e, TakedownKey(e), NextId, NoRelease).kind # "rollback"
      BY DEF Operation
    <3> QED BY <1>2, <1>3, <2>2, <3>1, RemoveJoins
  <2>3. ASSUME NEW from \in OperationIds, NEW target \in OperationIds, RequestRollback(from, target)
        PROVE  TargetsReleased'
    <3>1. RowOf(target) # {}
      BY <2>3 DEF RequestRollback
    <3>2. Operation("rollback", Elsewhere, NoKey, target, from).target = target
      BY DEF Operation
    <3> QED BY <1>3, <2>3, <3>1, <3>2, RequestJoins
  <2> QED BY <1>4, <2>1, <2>2, <2>3 DEF Submissions
<1>5. ASSUME NEW k \in OperationIds, Worker(k) PROVE TargetsReleased'
  BY <1>0, <1>1, <1>5, WorkerTurns, TurnsTyped
<1>6. CASE (\E e \in Editions : Workflow(e)) \/ UNCHANGED vars
  BY <1>2, <1>6, WorkflowKeepsOps DEF vars
<1> QED BY <1>4, <1>5, <1>6, NextIs

\* What the steps that are not of the worker leave.
LEMMA SettledStays ==
  ASSUME Typed, Omissions, [Next]_vars, \A k \in OperationIds : ~Complete(k),
         UNCHANGED <<registry, stored, pointer>>,
         NEW i \in Ids, Settled(i), op'[i] = op[i]
  PROVE  Settled(i)'
<1>1. PlanOmits(i) => PlanOmits(i)'
  BY RemovedWas DEF PlanOmits
<1>2. Current' = Current /\ \A r : RowOf(r)' = RowOf(r)
  BY DEF Current, RowOf, RowIds
<1> QED BY <1>1, <1>2 DEF Settled

LEMMA CompletionIsTurn ==
  ASSUME Typed, NEW k \in OperationIds, Complete(k)
  PROVE  \E o \in Operations : Turns(k, o) /\ o.pc = "idle" /\ o.state = "succeeded"
  BY CompleteTurns

\* Complete is a step of the worker only.
LEMMA SubmissionsCompleteNone ==
  ASSUME Typed, Submissions \/ (\E e \in Editions : Workflow(e)) \/ UNCHANGED vars
  PROVE  \A k \in OperationIds : ~Complete(k)
<1> SUFFICES ASSUME NEW k \in OperationIds, Complete(k) PROVE FALSE
  OBVIOUS
<1>1. k \in Ids /\ op[k].pc = "complete"
  BY CompleteTurns
<1>2. PICK o \in Operations : Turns(k, o) /\ o.pc = "idle"
  BY CompletionIsTurn
<1>3. op'[k].pc = "idle"
  BY <1>1, <1>2, TurnsTyped DEF Typed
<1>4. UNCHANGED op => FALSE
  BY <1>1, <1>3
<1>5. ASSUME NEW q, Joins(q) PROVE FALSE
  BY <1>1, <1>3, <1>5, JoinsTyped DEF Typed
<1> QED BY <1>4, <1>5, SubmissionsKeep, WorkflowKeepsOps DEF vars

LEMMA StepSolo ==
  ASSUME Typed, Omissions, TargetsReleased, Solo, [Next]_vars
  PROVE  Solo'
<1> SUFFICES ASSUME Slots = 1 PROVE (Alone /\ \A i \in Ids : Settled(i))'
  BY DEF Solo
<1>0. /\ Alone /\ \A i \in Ids : Settled(i)
      /\ OpsTyped /\ Ids \subseteq OperationIds /\ RegistryTyped /\ RemoteTyped
      /\ \A r : RowOf(r) # {} => RowOf(r)' # {}
  BY IdsAre, RowsStay DEF Solo, Typed
<1>1. CASE Submissions \/ (\E e \in Editions : Workflow(e)) \/ UNCHANGED vars
  <2>1. \A k \in OperationIds : ~Complete(k)
    BY <1>1, SubmissionsCompleteNone
  <2>2. UNCHANGED <<registry, stored, pointer>>
    BY <1>1, SubmissionsKeep, WorkflowKeepsOps DEF vars, remote
  <2>3. CASE UNCHANGED op
    <3>1. Ids' = Ids
      BY <2>3 DEF Ids
    <3>2. \A i \in Ids : Settled(i)'
      BY <1>0, <2>1, <2>2, <2>3, SettledStays
    <3> QED BY <1>0, <2>3, <3>1, <3>2 DEF Alone, Active
  <2>4. ASSUME NEW o, Joins(o) PROVE (Alone /\ \A i \in Ids : Settled(i))'
    <3>1. /\ Ids' = Ids \cup {NextId} /\ op'[NextId] = o /\ o.pc = "idle"
          /\ \A j \in Ids : op'[j] = op[j]
      BY <1>0, <2>4, JoinsTyped DEF Joins
    <3>2. \A i \in Ids : Settled(i)'
      BY <1>0, <2>1, <2>2, <3>1, SettledStays
    <3>3. ASSUME NEW n, n = NextId PROVE Settled(n)'
      BY <3>1, <3>3 DEF Settled
    <3> QED BY <1>0, <3>1, <3>2, <3>3 DEF Alone, Active
  <2> QED BY <1>1, <2>3, <2>4, SubmissionsKeep, WorkflowKeepsOps DEF vars
<1>2. ASSUME NEW k \in OperationIds, Worker(k) PROVE (Alone /\ \A i \in Ids : Settled(i))'
  <2>1. k \in Ids /\ \A j \in Ids : j # k => ~Active(j)
    BY <1>0, <1>2, WorkerTurns, OthersIdle
  <2>2. ASSUME NEW o \in Operations, Turns(k, o)
        PROVE  /\ Ids' = Ids /\ op'[k] = o /\ \A j \in Ids : j # k => op'[j] = op[j]
               /\ Same(op'[k], op[k]) /\ Alone'
               /\ \A j \in Ids : j # k => Settled(j)'
    <3>1. /\ Ids' = Ids /\ op'[k] = o /\ \A j \in Ids : j # k => op'[j] = op[j]
          /\ Same(op'[k], op[k])
      BY <1>0, <2>1, <2>2, TurnsTyped
    <3>2. \A j \in Ids : j # k => op'[j].pc = "idle"
      BY <2>1, <3>1 DEF Active
    <3> QED BY <3>1, <3>2 DEF Alone, Active, Settled
  <2>3. SUFFICES Settled(k)'
    BY <1>2, <2>1, <2>2, WorkerTurns
\* Nothing is asked of an operation that stops or is about to compile or to consume.
  <2>4. ASSUME NEW o \in Operations, Turns(k, o), o.pc \in {"idle", "compile", "consume", "inspect"}
        PROVE  Settled(k)'
    BY <2>2, <2>4 DEF Settled
  <2>5. ASSUME op[k].pc # "idle", Stops(k) PROVE Settled(k)'
    BY <1>0, <2>1, <2>4, <2>5, StopsTurns
  <2>6. op[k].kind # "rollback" => op[k].target = k
    BY <1>0, <2>1 DEF OpsTyped, Formed
  <2>7. UNCHANGED registry => Current' = Current /\ \A r : RowOf(r)' = RowOf(r)
    BY DEF Current, RowOf, RowIds
  <2>8. Settled(k)
    BY <1>0, <2>1
  <2>9. ASSUME op'[k].state = "running", op'[k].plan = op[k].plan, PlanOmits(k) PROVE PlanOmits(k)'
    <3>1. \A x \in OperationIds : ~Complete(x)
      <4> SUFFICES ASSUME NEW x \in OperationIds, Complete(x) PROVE FALSE
        OBVIOUS
      <4>1. x \in Ids /\ op[x].pc = "complete"
        BY CompleteTurns
      <4>2. PICK o \in Operations : Turns(x, o) /\ o.state = "succeeded"
        BY CompletionIsTurn
      <4>3. op'[x].state = "succeeded"
        BY <1>0, <4>1, <4>2, TurnsTyped
      <4>4. x = k
        BY <2>1, <4>1 DEF Active
      <4> QED BY <2>9, <4>3, <4>4
    <3> QED BY <2>9, <3>1, RemovedWas DEF PlanOmits
  <2>10. CASE Begin(k)
    <3>1. PICK o \in Operations : GoesTo(k, FirstStep(k), o)
      BY <1>0, <2>10, BeginTurns
    <3>2. o.pc \in {"compile", "consume"}
      BY <3>1 DEF GoesTo, FirstStep
    <3> QED BY <2>4, <3>1, <3>2 DEF GoesTo
  <2>11. CASE Complete(k)
    <3>1. PICK o \in Operations : Turns(k, o) /\ o.pc = "idle"
      BY <2>11, CompletionIsTurn
    <3> QED BY <2>4, <3>1
  <2>12. CASE Interrupt(k)
    BY <2>5, <2>12, InterruptTurns
  <2>13. CASE Compile(k)
    <3>1. ASSUME NEW o \in Operations, GoesTo(k, "record", o), o.plan.pages = Snapshot
          PROVE  Settled(k)'
      <4>1. op'[k] = o /\ o.pc = "record"
        BY <2>2, <3>1 DEF GoesTo
      <4>2. PlanOmits(k)'
        <5> SUFFICES ASSUME NEW e \in Editions, Removed(e)' PROVE ~Shows(op'[k].plan, e)
          BY DEF PlanOmits
        <5>1. row[e].state = "unpublished"
          BY <2>13 DEF Compile, edition, Removed
        <5>2. Snapshot[e] = 0
          BY <5>1 DEF Snapshot, Selected, Member
        <5> QED BY <3>1, <4>1, <5>2 DEF Shows
      <4> QED BY <4>1, <4>2 DEF Settled
    <3> QED BY <2>5, <2>13, <3>1, CompileTurns
  <2>14. CASE RecordCompile(k)
    <3>0. op[k].pc = "record" /\ op[k].kind # "rollback"
      BY <2>14, RecordTurns
    <3>1. ASSUME NEW o \in Operations, GoesTo(k, "store", o), o.plan = op[k].plan
          PROVE  Settled(k)'
      <4>1. op'[k] = o /\ o.pc = "store" /\ o.state = "running"
        BY <2>2, <3>1 DEF GoesTo
      <4>2. PlanOmits(k)'
        BY <2>8, <2>9, <3>0, <3>1, <4>1 DEF Settled
      <4> QED BY <4>1, <4>2 DEF Settled
    <3> QED BY <2>5, <2>14, <3>0, <3>1, RecordTurns
  <2>15. CASE StoreRelease(k)
    <3>0. op[k].pc = "store" /\ op[k].kind # "rollback" /\ pointer' = pointer
      BY <2>15, StoreTurns DEF StoreRelease
    <3>1. ASSUME NEW o \in Operations, GoesTo(k, IF pointer = k THEN "register" ELSE "swap", o),
                 o.plan = op[k].plan, o.seen = pointer, stored' = [stored EXCEPT ![k] = op[k].plan]
          PROVE  Settled(k)'
      <4>1. op'[k] = o /\ o.state = "running" /\ o.kind = op[k].kind /\ o.target = k
        BY <2>2, <2>6, <3>0, <3>1 DEF GoesTo, Same
      <4>2. PlanOmits(k)'
        BY <2>8, <2>9, <3>0, <3>1, <4>1 DEF Settled
      <4>3. stored'[k] = o.plan
        BY <1>0, <2>1, <3>1 DEF RemoteTyped
      <4>4. CASE pointer = k /\ o.pc = "register"
        BY <3>0, <4>1, <4>2, <4>4 DEF Settled
      <4>5. CASE pointer # k /\ o.pc = "swap"
        BY <3>0, <3>1, <4>1, <4>2, <4>3, <4>5 DEF Settled
      <4> QED BY <3>1, <4>4, <4>5 DEF GoesTo
    <3> QED BY <2>5, <2>15, <3>0, <3>1, StoreTurns
  <2>16. CASE SwapPointer(k)
    <3>0. op[k].pc = "swap"
      BY <2>16, SwapTurns
    <3>1. ASSUME NEW o \in Operations, GoesTo(k, IF op[k].kind = "rollback" THEN "confirm" ELSE "register", o),
                 pointer' = op[k].target
          PROVE  Settled(k)'
      <4>1. op'[k] = o /\ o.target = op[k].target /\ o.pc \in {"confirm", "register"}
        BY <2>2, <3>1 DEF GoesTo, Same
      <4> QED BY <3>1, <4>1 DEF Settled
    <3> QED BY <2>5, <2>16, <3>0, <3>1, SwapTurns
  <2>17. CASE RegisterPublished(k)
    <3>0. op[k].pc = "register" /\ op[k].kind # "rollback" /\ pointer' = pointer
      BY <2>17, PublishedTurns DEF RegisterPublished, remote
    <3>1. ASSUME NEW o \in Operations, GoesTo(k, "complete", o),
                 registry' = IF RowOf(k) = {}
                       THEN Append(Superseding(k), [release |-> k, state |-> "current", operation |-> k])
                     ELSE Superseding(k)
          PROVE  Settled(k)'
      <4>1. op'[k] = o /\ o.target = k /\ o.kind # "rollback" /\ o.pc = "complete"
        BY <2>2, <2>6, <3>0, <3>1 DEF GoesTo, Same
      <4>2. /\ \A l \in RowIds' : registry'[l].state = "current" <=> registry'[l].release = k
            /\ \E l \in RowIds' : registry'[l].release = k
        BY <1>0, <2>1, <3>1, PublishedRows
      <4>3. Current' = RowOf(k)' /\ RowOf(k)' # {}
        BY <4>2 DEF Current, RowOf
      <4>4. pointer = k
        BY <2>6, <2>8, <3>0 DEF Settled
      <4> QED BY <3>0, <4>1, <4>3, <4>4 DEF Settled
    <3> QED BY <2>5, <2>17, <3>0, <3>1, PublishedTurns
  <2>18. CASE ConsumeIntent(k)
    <3>1. op[k].pc = "consume" /\ (Stops(k) \/ \E o \in Operations : GoesTo(k, "inspect", o))
      BY <2>18, ConsumeTurns
    <3> QED BY <2>4, <2>5, <3>1 DEF GoesTo
  <2>19. CASE InspectPointer(k)
    <3>0. op[k].pc = "inspect" /\ op[k].kind = "rollback" /\ pointer' = pointer
      BY <2>19, InspectTurns DEF InspectPointer, remote
    <3>1. ASSUME NEW o \in Operations, GoesTo(k, "register", o), pointer = op[k].target
          PROVE  Settled(k)'
      <4>1. op'[k] = o /\ o.target = op[k].target /\ o.pc = "register"
        BY <2>2, <3>1 DEF GoesTo, Same
      <4> QED BY <3>0, <3>1, <4>1 DEF Settled
    <3>2. ASSUME NEW o \in Operations, GoesTo(k, "swap", o), o.seen = pointer, pointer = op[k].from
          PROVE  Settled(k)'
      <4>1. op'[k] = o /\ o.from = op[k].from /\ o.kind = "rollback" /\ o.pc = "swap"
        BY <2>2, <3>0, <3>2 DEF GoesTo, Same
      <4> QED BY <3>0, <3>2, <4>1 DEF Settled
    <3> QED BY <2>5, <2>19, <3>0, <3>1, <3>2, InspectTurns
  <2>20. CASE ConfirmRollback(k)
    <3>0. op[k].pc = "confirm" /\ pointer' = pointer
      BY <2>20, ConfirmTurns DEF ConfirmRollback, remote
    <3>1. ASSUME NEW o \in Operations, GoesTo(k, "register", o), pointer = op[k].target
          PROVE  Settled(k)'
      <4>1. op'[k] = o /\ o.target = op[k].target /\ o.pc = "register"
        BY <2>2, <3>1 DEF GoesTo, Same
      <4> QED BY <3>0, <3>1, <4>1 DEF Settled
    <3> QED BY <2>5, <2>20, <3>0, <3>1, ConfirmTurns
  <2>21. CASE RegisterRollback(k)
    <3>0. op[k].pc = "register" /\ op[k].kind = "rollback" /\ pointer' = pointer
      BY <2>21, RolledBackTurns DEF RegisterRollback, remote
    <3>1. PICK o \in Operations : GoesTo(k, "complete", o)
      BY <2>21, RolledBackTurns
    <3>2. op'[k] = o /\ o.target = op[k].target /\ o.from = op[k].from /\ o.kind = "rollback" /\ o.pc = "complete"
      BY <2>2, <3>0, <3>1 DEF GoesTo, Same
    <3>3. op[k].from # op[k].target
      BY <1>0, <2>1, <3>0 DEF OpsTyped, Formed
    <3>4. RowIds' = RowIds
          /\ \A l \in RowIds : /\ registry'[l].release = registry[l].release
                               /\ registry'[l].state = "current"
                                    <=> \/ registry[l].release = op[k].target
                                        \/ registry[l].release # op[k].from /\ registry[l].state = "current"
      BY <1>0, <2>1, <2>21, <3>3, RolledBackRows
    <3>5. RowOf(op[k].target) # {}
      BY <2>1, <3>0 DEF TargetsReleased
    <3>6. (RowOf(o.target) \cap Current # {})' /\ (RowOf(o.from) \cap Current = {})'
      BY <3>2, <3>3, <3>4, <3>5 DEF RowOf, Current
    <3>7. pointer = op[k].target
      BY <2>8, <3>0 DEF Settled
    <3> QED BY <3>0, <3>2, <3>6, <3>7 DEF Settled
  <2> QED BY <1>2, <2>10, <2>11, <2>12, <2>13, <2>14, <2>15, <2>16, <2>17, <2>18, <2>19, <2>20, <2>21 DEF Worker
<1> QED BY <1>1, <1>2, NextIs

\* Only the swap of an operation moves the pointer, to what the operation is for.
LEMMA PointerMovedBy ==
  ASSUME Typed, [Next]_vars, pointer' # pointer
  PROVE  \E k \in OperationIds : SwapPointer(k) /\ pointer' = op[k].target
<1>1. ASSUME NEW k \in OperationIds, Worker(k) PROVE SwapPointer(k)
  BY <1>1 DEF Worker, Begin, Complete, Interrupt, Compile, RecordCompile, StoreRelease, ConsumeIntent,
              InspectPointer, ConfirmRollback, RegisterPublished, RegisterRollback, remote
<1>2. \E k \in OperationIds : SwapPointer(k)
  BY <1>1, SubmissionsKeep, WorkflowKeepsOps, NextIs DEF vars, remote
<1> QED BY <1>2, SwapTurns

Whole == Typed /\ Omissions /\ TargetsReleased /\ Solo

LEMMA InitWhole == Init => Whole
  BY InitTyped, InitOmits, InitSolo DEF Whole

LEMMA StepWhole == Whole /\ [Next]_vars => Whole'
  BY StepTyped, StepOmits, StepTargets, StepSolo DEF Whole

LEMMA NeverRestores ==
  ASSUME Whole, [Next]_vars, Slots = 1, NEW i \in Ids, At(i, "swap"), op[i].kind # "rollback",
         pointer' # pointer
  PROVE  \A e \in Editions : Removed(e) => ~Shows(stored[pointer'], e)
<1>1. PICK k \in OperationIds : SwapPointer(k) /\ pointer' = op[k].target
  BY PointerMovedBy DEF Whole
<1>2. k \in Ids /\ op[k].pc = "swap"
  BY <1>1, SwapTurns DEF Whole
<1>3. k = i
  BY <1>2 DEF Whole, Solo, Alone, Active, At
<1>4. op[i].target = i /\ stored[i] = op[i].plan /\ PlanOmits(i)
  BY DEF Whole, Solo, Settled, At, Typed, OpsTyped, Formed
<1> QED BY <1>1, <1>3, <1>4 DEF PlanOmits

\* The one worker runs the compilation and the swap of an operation without another
\* operation between: whatever was removed before the compilation is not released again.
THEOREM RemovedStaysRemoved == Spec => PublishNeverRestoresRemoved
<1> DEFINE Step == \A i \in Ids :
       Slots = 1 /\ At(i, "swap") /\ op[i].kind # "rollback" /\ pointer' # pointer
         => \A e \in Editions : Removed(e) => ~Shows(stored[pointer'], e)
<1>1. Init => Whole
  BY InitWhole
<1>2. Whole /\ [Next]_vars => Whole'
  BY StepWhole
<1>3. Whole /\ [Next]_vars => [Step]_vars
  BY NeverRestores
<1> QED BY <1>1, <1>2, <1>3, PTL DEF Spec, PublishNeverRestoresRemoved

(***************************************************************************)
(* The current release and the one that is served.                         *)
(***************************************************************************)
\* A current row that is not served, and a served release that is not current, each have
\* an unfinished operation that answers for it.
Answered ==
  Slots = 1 /\ NoneFailed =>
    /\ \A k \in Current \ RowOf(pointer) :
         \E i \in Unfinished : op[i].kind = "rollback" => op[i].from = registry[k].release
    /\ pointer # NoRelease /\ RowOf(pointer) \cap Current = {}
         => \E i \in Unfinished : op[i].target = pointer

LEMMA InitAnswered == Init => Answered
  BY DEF Init, Answered, Current, RowIds

LEMMA StepAnswered ==
  ASSUME Whole, Answered, [Next]_vars
  PROVE  Answered'
<1> SUFFICES ASSUME Slots = 1, NoneFailed'
             PROVE  /\ \A k \in (Current \ RowOf(pointer))' :
                         \E i \in Unfinished' : op'[i].kind = "rollback" => op'[i].from = registry'[k].release
                    /\ pointer' # NoRelease /\ (RowOf(pointer) \cap Current)' = {}
                         => \E i \in Unfinished' : op'[i].target = pointer'
  BY DEF Answered
<1> DEFINE Goal == /\ \A k \in (Current \ RowOf(pointer))' :
                         \E i \in Unfinished' : op'[i].kind = "rollback" => op'[i].from = registry'[k].release
                   /\ pointer' # NoRelease /\ (RowOf(pointer) \cap Current)' = {}
                         => \E i \in Unfinished' : op'[i].target = pointer'
<1>0. /\ OpsTyped /\ RegistryTyped /\ Ids \subseteq OperationIds
      /\ Alone /\ \A i \in Ids : Settled(i)
  BY IdsAre DEF Whole, Typed, Solo
\* An operation that has failed stays so.
<1>1. ASSUME Ids \subseteq Ids', \A i \in Ids : op[i].state = "failed" => op'[i].state = "failed"
      PROVE  /\ \A k \in Current \ RowOf(pointer) :
                  \E i \in Unfinished : op[i].kind = "rollback" => op[i].from = registry[k].release
             /\ pointer # NoRelease /\ RowOf(pointer) \cap Current = {}
                  => \E i \in Unfinished : op[i].target = pointer
  <2>1. NoneFailed
    BY <1>1 DEF NoneFailed
  <2> QED BY <2>1 DEF Answered
\* A step that moves neither pointer nor rows, and after which none has ended.
<1>2. ASSUME UNCHANGED <<registry, pointer>>, Ids \subseteq Ids',
             \A i \in Ids : op[i].state = "failed" => op'[i].state = "failed",
             \A i \in Unfinished : op'[i].state = "running" /\ Same(op'[i], op[i])
      PROVE  Goal
  <2>1. Current' = Current /\ \A r : RowOf(r)' = RowOf(r)
    BY <1>2 DEF Current, RowOf, RowIds
  <2>2. \A i \in Unfinished : i \in Unfinished' /\ op'[i].kind = op[i].kind
                              /\ op'[i].from = op[i].from /\ op'[i].target = op[i].target
    BY <1>2 DEF Unfinished, Same
  <2>3. RowOf(pointer)' = RowOf(pointer)
    BY <1>2, <2>1
  <2> QED BY <1>1, <1>2, <2>1, <2>2, <2>3
<1>3. CASE Submissions \/ (\E e \in Editions : Workflow(e)) \/ UNCHANGED vars
  <2>1. UNCHANGED <<registry, pointer>>
    BY <1>3, SubmissionsKeep, WorkflowKeepsOps DEF vars, remote, Whole
  <2>2. Ids \subseteq Ids' /\ \A i \in Ids : op'[i] = op[i]
    <3>1. CASE UNCHANGED op
      BY <3>1 DEF Ids
    <3>2. ASSUME NEW o, Joins(o) PROVE Ids \subseteq Ids' /\ \A i \in Ids : op'[i] = op[i]
      BY <1>0, <3>2, JoinsTyped
    <3> QED BY <1>3, <3>1, <3>2, SubmissionsKeep, WorkflowKeepsOps DEF vars, Whole
  <2> QED BY <1>2, <2>1, <2>2 DEF Unfinished, Same
<1>4. ASSUME NEW k \in OperationIds, Worker(k) PROVE Goal
  <2>1. k \in Ids /\ op[k].state \in {"queued", "running"} /\ Settled(k)
    BY <1>0, <1>4, WorkerTurns DEF Whole
  <2>2. PICK o \in Operations : Turns(k, o) /\ MayEnd(k, o)
    BY <1>4, WorkerTurns DEF Whole
  <2>3. /\ Ids' = Ids /\ op'[k] = o /\ \A j \in Ids : j # k => op'[j] = op[j]
        /\ \A j \in Ids : Same(op'[j], op[j])
    BY <1>0, <2>1, <2>2, TurnsTyped
  <2>4. \A i \in Ids : op[i].state = "failed" => op'[i].state = "failed"
    BY <2>1, <2>3
  <2>5. /\ \A l \in Current \ RowOf(pointer) :
             \E i \in Unfinished : op[i].kind = "rollback" => op[i].from = registry[l].release
        /\ pointer # NoRelease /\ RowOf(pointer) \cap Current = {}
             => \E i \in Unfinished : op[i].target = pointer
    BY <1>1, <2>3, <2>4
  <2>6. UNCHANGED registry => Current' = Current /\ \A r : RowOf(r)' = RowOf(r)
    BY DEF Current, RowOf, RowIds
  <2>7. o.state \in {"running", "succeeded"} /\ (o.state = "succeeded" => Complete(k))
    <3>1. o.state # "failed"
      BY <2>1, <2>3 DEF NoneFailed
    <3> QED BY <2>2, <3>1 DEF MayEnd, Operations
  <2>8. CASE Complete(k)
    <3>1. op[k].pc = "complete" /\ UNCHANGED <<registry, pointer>>
      BY <2>8, CompleteTurns DEF Complete, remote, Whole
    <3>2. /\ pointer = op[k].target /\ RowOf(op[k].target) \cap Current # {}
          /\ op[k].kind # "rollback" => Current \subseteq RowOf(op[k].target)
          /\ op[k].kind = "rollback" => RowOf(op[k].from) \cap Current = {}
      BY <2>1, <3>1 DEF Settled
    <3>3. ASSUME NEW l \in Current \ RowOf(pointer)
          PROVE  \E i \in Unfinished' : op'[i].kind = "rollback" => op'[i].from = registry[l].release
      <4>1. PICK i \in Unfinished : op[i].kind = "rollback" => op[i].from = registry[l].release
        BY <2>5, <3>3
      <4>2. op[k].kind = "rollback"
        BY <3>2, <3>3
      <4>3. registry[l].release # op[k].from
        BY <3>2, <3>3, <4>2 DEF RowOf, Current
      <4>4. i # k
        BY <4>1, <4>2, <4>3
      <4>5. i \in Unfinished' /\ op'[i] = op[i]
        BY <2>3, <4>1, <4>4 DEF Unfinished
      <4> QED BY <4>1, <4>5
    <3> QED BY <2>6, <3>1, <3>2, <3>3
  <2>9. CASE ~Complete(k)
    <3>1. \A i \in Unfinished : i \in Unfinished' /\ op'[i].state = "running" /\ Same(op'[i], op[i])
      BY <2>3, <2>7, <2>9 DEF Unfinished
    <3>2. k \in Unfinished'
      BY <2>1, <2>3, <2>7, <2>9 DEF Unfinished
    <3>3. CASE UNCHANGED <<registry, pointer>>
      BY <1>2, <2>3, <2>4, <3>1, <3>3
    <3>4. CASE SwapPointer(k) /\ pointer' = op[k].target /\ pointer' # pointer
      <4>1. op[k].pc = "swap" /\ UNCHANGED registry
        BY <3>4, SwapTurns DEF SwapPointer, Whole
      <4>2. op[k].kind = "rollback" => pointer = op[k].from
        BY <2>1, <4>1 DEF Settled
      <4>3. ASSUME NEW l \in Current, l \notin RowOf(pointer')
            PROVE  \E i \in Unfinished' : op'[i].kind = "rollback" => op'[i].from = registry[l].release
        <5>1. CASE l \in RowOf(pointer)
          <6>1. registry[l].release = pointer
            BY <5>1 DEF RowOf
          <6>2. op'[k].kind = op[k].kind /\ op'[k].from = op[k].from
            BY <2>1, <2>3 DEF Same
          <6> QED BY <3>2, <4>2, <6>1, <6>2
        <5>2. CASE l \notin RowOf(pointer)
          BY <2>5, <3>1, <4>3, <5>2 DEF Same
        <5> QED BY <5>1, <5>2
      <4>4. op'[k].target = pointer'
        BY <2>1, <2>3, <3>4 DEF Same
      <4>5. RowOf(pointer)' = RowOf(pointer') /\ Current' = Current
        BY <4>1 DEF RowOf, RowIds, Current
      <4> QED BY <3>2, <4>1, <4>3, <4>4, <4>5
    <3>5. CASE RegisterPublished(k) /\ ~UNCHANGED registry
      <4>1. op[k].pc = "register" /\ op[k].kind # "rollback" /\ pointer' = pointer /\ pointer = k
        <5>1. op[k].pc = "register" /\ op[k].kind # "rollback" /\ pointer' = pointer
          BY <3>5, PublishedTurns DEF RegisterPublished, remote, Whole
        <5> QED BY <1>0, <2>1, <5>1 DEF OpsTyped, Formed, Settled
      <4>2. /\ \A l \in RowIds' : registry'[l].state = "current" <=> registry'[l].release = k
            /\ \E l \in RowIds' : registry'[l].release = k
        BY <1>0, <2>1, <3>5, PublishedTurns, PublishedRows DEF Whole
      <4>3. Current' = RowOf(pointer)' /\ RowOf(pointer)' # {}
        BY <4>1, <4>2 DEF Current, RowOf
      <4> QED BY <4>3
    <3>6. CASE RegisterRollback(k)
      <4>1. op[k].pc = "register" /\ op[k].kind = "rollback" /\ pointer' = pointer
        BY <3>6, RolledBackTurns DEF RegisterRollback, remote, Whole
      <4>2. pointer = op[k].target /\ op[k].from # op[k].target
        BY <1>0, <2>1, <4>1 DEF OpsTyped, Formed, Settled
      <4>3. RowIds' = RowIds
            /\ \A l \in RowIds : /\ registry'[l].release = registry[l].release
                                 /\ registry'[l].state = "current"
                                      <=> \/ registry[l].release = op[k].target
                                          \/ registry[l].release # op[k].from /\ registry[l].state = "current"
        BY <1>0, <2>1, <3>6, <4>2, RolledBackRows
      <4>4. RowOf(op[k].target) # {}
        BY <2>1, <4>1 DEF Whole, TargetsReleased
      <4>5. RowOf(pointer)' = RowOf(pointer) /\ (RowOf(pointer) \cap Current)' # {}
        BY <4>1, <4>2, <4>3, <4>4 DEF RowOf, Current
      <4>6. ASSUME NEW l \in Current', l \notin RowOf(pointer)
            PROVE  \E i \in Unfinished' : op'[i].kind = "rollback" => op'[i].from = registry'[l].release
        <5>1. l \in Current \ RowOf(pointer) /\ registry'[l].release = registry[l].release
          BY <4>2, <4>3, <4>6 DEF Current, RowOf
        <5> QED BY <2>5, <3>1, <5>1 DEF Same
      <4> QED BY <4>5, <4>6
    <3>7. \/ UNCHANGED <<registry, pointer>>
          \/ SwapPointer(k) /\ pointer' = op[k].target /\ pointer' # pointer
          \/ RegisterPublished(k) /\ ~UNCHANGED registry
          \/ RegisterRollback(k)
      BY <1>4, SwapTurns DEF Worker, Begin, Complete, Interrupt, Compile, RecordCompile, StoreRelease, ConsumeIntent,
              InspectPointer, ConfirmRollback, SwapPointer, RegisterPublished, RegisterRollback, remote, Whole
    <3> QED BY <3>3, <3>4, <3>5, <3>6, <3>7
  <2> QED BY <2>8, <2>9
<1> QED BY <1>3, <1>4, NextIs

LEMMA AnsweredIsServed == Whole /\ Answered => CurrentReleaseIsServed
<1> SUFFICES ASSUME Whole, Answered, Slots = 1, NoneFailed
             PROVE  Unfinished = {} => \A k, l \in Current : k = l
  BY DEF Answered, CurrentReleaseIsServed
<1>1. \A k, l \in RowIds : registry[k].release = registry[l].release => k = l
  BY DEF Whole, Typed, RegistryTyped
<1> QED BY <1>1 DEF Answered, Current, RowOf

\* Between operations at most one release is current, the one the pointer names; while an
\* operation runs, it answers for what differs.  For one worker, as deployed, and as long
\* as no operation of the site has failed half way.
THEOREM CurrentIsServed == Spec => []CurrentReleaseIsServed
<1>1. Init => Whole /\ Answered
  BY InitWhole, InitAnswered
<1>2. Whole /\ Answered /\ [Next]_vars => (Whole /\ Answered)'
  BY StepWhole, StepAnswered
<1>3. Whole /\ Answered => CurrentReleaseIsServed
  BY AnsweredIsServed
<1> QED BY <1>1, <1>2, <1>3, PTL DEF Spec
===============================================================================
