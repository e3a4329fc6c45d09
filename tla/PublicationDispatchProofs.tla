----------------------- MODULE PublicationDispatchProofs -----------------------
(***************************************************************************)
(* Proofs about PublicationDispatch for any sites, requests, calls,        *)
(* workers, page sizes, operations and faults.                             *)
(***************************************************************************)
EXTENDS PublicationDispatch, TLAPS, FiniteSetTheorems, SequenceTheorems, NaturalsInduction,
        FunctionTheorems, WellFoundedInduction

(***************************************************************************)
(* Type correctness.                                                       *)
(***************************************************************************)
Rows == UNION {[S -> RowsRead] : S \in SUBSET Plans}

OpsTyped == op \in Seq(Operations) /\ Len(op) <= MaxOperations
PlansTyped == plan \in [Plans -> PlanRows]
CallsTyped == call \in [Calls -> CallStates(Rows)]
ContentTyped == /\ members \in Assignments
                /\ edition \in Editions
                /\ row \in [Sites -> SiteRows]
TimeTyped == clock \in 0..MaxRequests /\ faults \in 0..MaxFaults[members]

Typed == OpsTyped /\ PlansTyped /\ CallsTyped /\ ContentTyped /\ TimeTyped

LEMMA ConstantsAre ==
  /\ MaxRequests \in Nat \ {0} /\ MaxOperations \in Nat \ {0} /\ IsFiniteSet(Calls)
  /\ OperationIds = 1..MaxOperations /\ None = 0 /\ None \notin OperationIds
  /\ \A m \in Assignments : MaxFaults[m] \in Nat /\ m \subseteq Sites
  /\ \A c \in Calls : WorkerOf[c] \in Workers
  BY PublicationDispatchAssumption
  DEF PublicationDispatchAssumption, OperationIds, None, Workers

LEMMA PlansAre ==
  /\ NoPlan \notin Plans
  /\ \A p \in Plans : SiteOf(p) \in Sites /\ p = <<p[1], p[2]>> /\ p[1] \in Requests
  BY DEF NoPlan, Plans, SiteOf

LEMMA IdsAre ==
  ASSUME OpsTyped
  PROVE  /\ Ids = 1..Len(op) /\ Len(op) \in Nat /\ Ids \subseteq OperationIds
         /\ \A i \in Ids : op[i] \in Operations /\ i \in Nat /\ i # None
         /\ IsFiniteSet(Ids)
<1>1. Ids = 1..Len(op) /\ Len(op) \in Nat
  BY LenProperties DEF OpsTyped, Ids
<1>2. \A i \in Ids : op[i] \in Operations
  BY <1>1, ElementOfSeq DEF OpsTyped
<1>3. Ids \subseteq OperationIds
  BY <1>1, ConstantsAre DEF OpsTyped
<1>4. IsFiniteSet(Ids)
  BY <1>1, FS_Interval
<1> QED BY <1>1, <1>2, <1>3, <1>4, ConstantsAre

\* The largest id of a set.
LEMMA HasLast ==
  ASSUME NEW n \in Nat, NEW S \in SUBSET (1..n), S # {}
  PROVE  \E i \in S : \A j \in S : j <= i
<1> DEFINE T == {x \in Nat : n - x \in S}
           R == OpToRel(<, Nat)
<1>1. T \subseteq Nat /\ T # {}
  <2>1. PICK j \in S : TRUE
    OBVIOUS
  <2>2. n - j \in Nat /\ n - (n - j) = j
    OBVIOUS
  <2> QED BY <2>1, <2>2
<1>2. PICK x \in T : \A y \in T : <<y, x>> \notin R
  <2>1. IsWellFoundedOn(R, Nat)
    BY NatLessThanWellFounded
  <2> HIDE DEF T, R
  <2> QED BY <1>1, <2>1, WFMin
<1>3. ASSUME NEW j \in S PROVE j <= n - x
  <2>1. n - j \in T /\ x \in Nat /\ j \in Nat
    OBVIOUS
  <2>2. ~(n - j < x)
    BY <1>2, <2>1 DEF OpToRel
  <2> HIDE DEF T, R
  <2> QED BY <2>1, <2>2
<1> QED BY <1>2, <1>3

LEMMA LastOfIs ==
  ASSUME OpsTyped, NEW S \in SUBSET Ids
  PROVE  LastOf(S) \in {None} \cup Ids /\ (S # {} => LastOf(S) \in S)
<1>1. CASE S = {}
  BY <1>1 DEF LastOf
<1>2. CASE S # {}
  <2>1. \E i \in S : \A j \in S : j <= i
    BY <1>2, IdsAre, HasLast
  <2> QED BY <1>2, <2>1 DEF LastOf
<1> QED BY <1>1, <1>2

LEMMA RestingIsState == Resting \in CallStates(Rows) /\ DOMAIN Resting.todo = {}
<1>1. << >> \in [{} -> RowsRead] /\ DOMAIN << >> = {}
  OBVIOUS
<1>2. << >> \in Rows
  BY <1>1 DEF Rows
<1> QED BY <1>1, <1>2
    DEF Resting, CallStates, Phases, Steps, NoRow, RowsRead, Statuses, NotRead, Editions

LEMMA AsReadIsRow ==
  ASSUME PlansTyped, NEW p \in Plans
  PROVE  AsRead(p) \in RowsRead
  BY DEF PlansTyped, PlanRows, AsRead, RowsRead

LEMMA InitTyped == Init => Typed
<1> SUFFICES ASSUME Init PROVE Typed
  OBVIOUS
<1>1. OpsTyped
  BY EmptySeq, ConstantsAre DEF Init, OpsTyped
<1>2. PlansTyped
  BY DEF Init, PlansTyped, PlanRows, Unplanned, Statuses, Nobody
<1>3. CallsTyped
  BY RestingIsState DEF Init, CallsTyped
<1>4. ContentTyped
  BY DEF Init, ContentTyped, Editions, SiteRows
<1>5. TimeTyped
  BY ConstantsAre DEF Init, TimeTyped
<1> QED BY <1>1, <1>2, <1>3, <1>4, <1>5 DEF Typed

(***************************************************************************)
(* What the steps do to the operations.                                    *)
(***************************************************************************)
\* Operations stay those of their plans, and ended ones stay as they ended.
OpsGrow ==
  /\ OpsTyped' /\ Ids \subseteq Ids'
  /\ \A i \in Ids : op'[i].by = op[i].by /\ (Ended(i) => op'[i].state = op[i].state)
NoneCreated == \A p \in Plans : CreatedFor(p)' = CreatedFor(p)

LEMMA SameOps ==
  ASSUME OpsTyped, op' = op
  PROVE  OpsGrow /\ NoneCreated /\ Ids' = Ids
  BY DEF OpsTyped, OpsGrow, NoneCreated, Ids, Ended, CreatedFor

LEMMA StateSet ==
  ASSUME OpsTyped, NEW i \in Ids, ~Ended(i),
         NEW state \in {"compiled", "succeeded", "failed"}, SetState(i, state)
  PROVE  OpsGrow /\ NoneCreated /\ Ids' = Ids
<1> DEFINE o == [op[i] EXCEPT !.state = state]
<1>1. i \in 1..Len(op) /\ op \in Seq(Operations) /\ Ids = 1..Len(op) /\ op[i] \in Operations
  BY IdsAre DEF OpsTyped
<1>2. o \in Operations /\ o.by = op[i].by /\ op' = [op EXCEPT ![i] = o]
  BY <1>1 DEF Operations, SetState
<1> HIDE DEF o
<1>3. /\ op' \in Seq(Operations) /\ Len(op') = Len(op)
      /\ \A j \in 1..Len(op) : op'[j] = IF j = i THEN o ELSE op[j]
  BY <1>1, <1>2, ExceptSeq
<1>4. Ids' = Ids
  BY <1>1, <1>3, LenProperties DEF Ids
<1>5. \A j \in Ids : op'[j].by = op[j].by /\ (Ended(j) => op'[j].state = op[j].state)
  BY <1>1, <1>2, <1>3 DEF Ended
<1>6. OpsTyped'
  BY <1>3 DEF OpsTyped
<1>7. ASSUME NEW p \in Plans PROVE CreatedFor(p)' = CreatedFor(p)
  BY <1>4, <1>5 DEF CreatedFor
<1> QED BY <1>4, <1>5, <1>6, <1>7 DEF OpsGrow, NoneCreated

\* An operation with the key is there, or one is added for p.
LEMMA Submits ==
  ASSUME OpsTyped, NEW key \in Keys, NEW p \in Plans \cup {NoPlan}, Submit(key, p)
  PROVE  /\ OpsGrow /\ SubmittedId(key) \in Ids' /\ SubmittedId(key) # None
         /\ \A q \in Plans : /\ q # p => CreatedFor(q)' = CreatedFor(q)
                             /\ CreatedFor(q)' \subseteq CreatedFor(q) \cup {Len(op) + 1}
<1>1. op \in Seq(Operations) /\ Ids = 1..Len(op) /\ Len(op) \in Nat
  BY IdsAre DEF OpsTyped
<1>2. CASE WithKey(key) # {}
  <2>1. op' = op /\ SubmittedId(key) = LastOf(WithKey(key)) /\ WithKey(key) \subseteq Ids
    BY <1>2 DEF Submit, SubmittedId, WithKey
  <2>2. SubmittedId(key) \in Ids /\ SubmittedId(key) # None
    BY <1>2, <2>1, LastOfIs, IdsAre
  <2> QED BY <2>1, <2>2, SameOps DEF NoneCreated
<1>3. CASE WithKey(key) = {}
  <2> DEFINE o == [key |-> key, by |-> p, state |-> "queued"]
             n == Len(op) + 1
  <2>1. o \in Operations /\ op' = Append(op, o) /\ n <= MaxOperations /\ SubmittedId(key) = n
    BY <1>1, <1>3, ConstantsAre DEF Operations, Submit, SubmittedId
  <2>2. o.by = p
    OBVIOUS
  <2> HIDE DEF o
  <2>3. /\ op' \in Seq(Operations) /\ Len(op') = n /\ op'[n] = o
        /\ \A i \in 1..Len(op) : op'[i] = op[i]
    BY <1>1, <2>1, AppendProperties
  <2>4. Ids' = 1..n
    BY <2>3, LenProperties DEF Ids
  <2>5. Ids' = Ids \cup {n} /\ n \notin Ids /\ n # None
    BY <1>1, <2>4, ConstantsAre
  <2>6. OpsGrow
    BY <1>1, <2>1, <2>3, <2>5 DEF OpsGrow, OpsTyped, Ended
  <2>7. ASSUME NEW q \in Plans
        PROVE  /\ q # p => CreatedFor(q)' = CreatedFor(q)
               /\ CreatedFor(q)' \subseteq CreatedFor(q) \cup {n}
    BY <1>1, <2>2, <2>3, <2>5 DEF CreatedFor
  <2> QED BY <2>1, <2>5, <2>6, <2>7
<1> QED BY <1>2, <1>3

LEMMA KeyOfIs ==
  ASSUME OpsTyped, NEW seen \in Editions, NEW s \in Sites
  PROVE  KeyOf(seen, s) \in Keys
<1>1. LastOf(Failures(s)) \in {None} \cup OperationIds
  BY LastOfIs, IdsAre DEF Failures
<1> QED BY <1>1 DEF KeyOf, Keys, Editions

(***************************************************************************)
(* What the steps do to a call.                                            *)
(***************************************************************************)
\* Only c moves, to k.
Moves(c, k) ==
  /\ CallsTyped' /\ call'[c] = k
  /\ \A d \in Calls \ {c} : call'[d] = call[d]

LEMMA CallMoves ==
  ASSUME CallsTyped, NEW c \in Calls, NEW k \in CallStates(Rows), call' = [call EXCEPT ![c] = k]
  PROVE  Moves(c, k)
  BY DEF CallsTyped, Moves

LEMMA CallIs ==
  ASSUME CallsTyped, NEW c \in Calls
  PROVE  /\ call[c] \in CallStates(Rows)
         /\ DOMAIN call[c].todo \subseteq Plans
         /\ \A p \in DOMAIN call[c].todo : call[c].todo[p] \in RowsRead
<1>1. call[c] \in CallStates(Rows) /\ call[c].todo \in Rows
  BY DEF CallsTyped, CallStates
<1>2. PICK S \in SUBSET Plans : call[c].todo \in [S -> RowsRead]
  BY <1>1 DEF Rows
<1> QED BY <1>1, <1>2

\* At the beginning of a loop, with the rows of T.
LEMMA TurnMoves ==
  ASSUME PlansTyped, CallsTyped, NEW c \in Calls, NEW phase \in Phases, NEW T \in SUBSET Plans,
         Turn(c, phase, T)
  PROVE  /\ CallsTyped' /\ \A d \in Calls \ {c} : call'[d] = call[d]
         /\ call'[c].phase = phase /\ call'[c].step = "next" /\ call'[c].plan = NoPlan
         /\ DOMAIN call'[c].todo = T /\ \A p \in T : call'[c].todo[p] = AsRead(p)
<1> DEFINE k == [Resting EXCEPT !.phase = phase, !.todo = [p \in T |-> AsRead(p)]]
<1>1. [p \in T |-> AsRead(p)] \in [T -> RowsRead]
  BY AsReadIsRow
<1>2. [p \in T |-> AsRead(p)] \in Rows
  BY <1>1 DEF Rows
<1>3. k \in CallStates(Rows) /\ k.phase = phase /\ k.step = "next" /\ k.plan = NoPlan
      /\ k.todo = [p \in T |-> AsRead(p)]
  BY <1>2, RestingIsState DEF CallStates, Resting
<1>4. call' = [call EXCEPT ![c] = k]
  BY DEF Turn
<1> HIDE DEF k
<1>5. Moves(c, k)
  BY <1>3, <1>4, CallMoves
<1> QED BY <1>3, <1>5 DEF Moves

LEMMA LeaveMoves ==
  ASSUME CallsTyped, NEW c \in Calls, Leave(c)
  PROVE  /\ CallsTyped' /\ \A d \in Calls \ {c} : call'[d] = call[d]
         /\ call'[c].phase = call[c].phase /\ call'[c].todo = call[c].todo
         /\ call'[c].step = "next" /\ call'[c].plan = NoPlan
<1> DEFINE k == [Resting EXCEPT !.phase = call[c].phase, !.todo = call[c].todo]
<1>1. k \in CallStates(Rows) /\ k.phase = call[c].phase /\ k.todo = call[c].todo
      /\ k.step = "next" /\ k.plan = NoPlan
  BY CallIs, RestingIsState DEF CallStates, Resting
<1>2. call' = [call EXCEPT ![c] = k]
  BY DEF Leave
<1> HIDE DEF k
<1> QED BY <1>1, <1>2, CallMoves DEF Moves

LEMMA GoToMoves ==
  ASSUME CallsTyped, NEW c \in Calls, NEW step \in Steps, GoTo(c, step)
  PROVE  /\ CallsTyped' /\ \A d \in Calls \ {c} : call'[d] = call[d]
         /\ call'[c] = [call[c] EXCEPT !.step = step]
<1> DEFINE k == [call[c] EXCEPT !.step = step]
<1>1. k \in CallStates(Rows)
  BY CallIs DEF CallStates
<1>2. call' = [call EXCEPT ![c] = k]
  BY DEF GoTo
<1> QED BY <1>1, <1>2, CallMoves DEF Moves

\* The rows but that of p.
LEMMA WithoutIs ==
  ASSUME CallsTyped, NEW c \in Calls, NEW p
  PROVE  /\ Without(c, p) \in Rows
         /\ DOMAIN Without(c, p) = DOMAIN call[c].todo \ {p}
         /\ \A q \in DOMAIN call[c].todo \ {p} : Without(c, p)[q] = call[c].todo[q]
<1> DEFINE S == DOMAIN call[c].todo \ {p}
<1>1. S \subseteq Plans /\ \A q \in S : call[c].todo[q] \in RowsRead
  BY CallIs
<1>2. Without(c, p) = [q \in S |-> call[c].todo[q]]
  BY DEF Without, Restrict
<1>3. Without(c, p) \in [S -> RowsRead]
  BY <1>1, <1>2
<1> QED BY <1>1, <1>2, <1>3 DEF Rows

LEMMA SettleMoves ==
  ASSUME CallsTyped, NEW c \in Calls, NEW p \in Plans, Settle(c, p)
  PROVE  /\ CallsTyped' /\ \A d \in Calls \ {c} : call'[d] = call[d]
         /\ call'[c] = [call[c] EXCEPT !.todo = Without(c, p)]
<1> DEFINE k == [call[c] EXCEPT !.todo = Without(c, p)]
<1>1. k \in CallStates(Rows)
  BY CallIs, WithoutIs DEF CallStates
<1>2. call' = [call EXCEPT ![c] = k]
  BY DEF Settle
<1> QED BY <1>1, <1>2, CallMoves DEF Moves

LEMMA ClaimMoves ==
  ASSUME CallsTyped, NEW c \in Calls, NEW p \in Plans, Claim(c, p)
  PROVE  LET old == call[c].todo[p]
             won == Unchanged(p, old, old.status)
         IN /\ CallsTyped' /\ \A d \in Calls \ {c} : call'[d] = call[d]
            /\ call'[c].todo = Without(c, p) /\ call'[c].phase = call[c].phase
            /\ won => call'[c].step = "reread" /\ call'[c].plan = p
            /\ ~won => call'[c].step = "next" /\ call'[c].plan = NoPlan
<1> DEFINE old == call[c].todo[p]
           won == Unchanged(p, old, old.status)
           k == [call[c] EXCEPT !.todo = Without(c, p),
                                !.step = IF won THEN "reread" ELSE "next",
                                !.plan = IF won THEN p ELSE NoPlan]
<1>1. call' = [call EXCEPT ![c] = k]
  BY DEF Claim
<1> HIDE DEF won
<1>2. k \in CallStates(Rows) /\ k.todo = Without(c, p) /\ k.phase = call[c].phase
      /\ (won => k.step = "reread" /\ k.plan = p) /\ (~won => k.step = "next" /\ k.plan = NoPlan)
  BY CallIs, WithoutIs DEF CallStates, Steps
<1> HIDE DEF k
<1>3. Moves(c, k)
  BY <1>1, <1>2, CallMoves
<1> QED BY <1>2, <1>3 DEF Moves, won

LEMMA RereadMoves ==
  ASSUME CallsTyped, PlansTyped, NEW c \in Calls, call[c].plan \in Plans, Reread(c)
  PROVE  \/ ~HoldsPlan(c) /\ Leave(c)
         \/ /\ HoldsPlan(c)
            /\ CallsTyped' /\ \A d \in Calls \ {c} : call'[d] = call[d]
            /\ call'[c] = [call[c] EXCEPT !.step = "look", !.row = AsRead(call[c].plan)]
<1>1. CASE ~HoldsPlan(c)
  BY <1>1 DEF Reread
<1>2. CASE HoldsPlan(c)
  <2> DEFINE k == [call[c] EXCEPT !.step = "look", !.row = AsRead(call[c].plan)]
  <2>1. k \in CallStates(Rows)
    BY CallIs, AsReadIsRow DEF CallStates, Steps
  <2>2. call' = [call EXCEPT ![c] = k]
    BY <1>2 DEF Reread
  <2> QED BY <1>2, <2>1, <2>2, CallMoves DEF Moves
<1> QED BY <1>1, <1>2

LEMMA ReadMoves ==
  ASSUME CallsTyped, ContentTyped, NEW c \in Calls, Read(c)
  PROVE  /\ CallsTyped' /\ \A d \in Calls \ {c} : call'[d] = call[d]
         /\ \E step \in {"submit", "recover"}, seen \in Editions :
              call'[c] = [call[c] EXCEPT !.step = step, !.seen = seen]
<1>1. call[c] \in CallStates(Rows)
  BY CallIs
<1>2. PICK step \in {"submit", "recover"}, seen \in Editions :
        call' = [call EXCEPT ![c] = [call[c] EXCEPT !.step = step, !.seen = seen]]
  <2>1. CASE Publishable(edition, SiteOf(call[c].plan))
    <3>1. call' = [call EXCEPT ![c] = [call[c] EXCEPT !.step = "submit", !.seen = edition]]
      BY <2>1 DEF Read
    <3> QED BY <3>1 DEF ContentTyped
  <2>2. CASE ~Publishable(edition, SiteOf(call[c].plan))
    <3>1. call' = [call EXCEPT ![c] = [call[c] EXCEPT !.step = "recover", !.seen = call[c].seen]]
      BY <1>1, <2>2 DEF Read, GoTo, CallStates
    <3>2. call[c].seen \in Editions
      BY <1>1 DEF CallStates
    <3> QED BY <3>1, <3>2
  <2> QED BY <2>1, <2>2
<1> DEFINE k == [call[c] EXCEPT !.step = step, !.seen = seen]
<1>3. k \in CallStates(Rows)
  BY <1>1 DEF CallStates, Steps
<1> QED BY <1>2, <1>3, CallMoves DEF Moves

LEMMA SubmitMoves ==
  ASSUME OpsTyped, CallsTyped, NEW c \in Calls, call[c].plan \in Plans, SubmitFor(c)
  PROVE  /\ CallsTyped' /\ \A d \in Calls \ {c} : call'[d] = call[d]
         /\ call'[c].todo = call[c].todo /\ call'[c].phase = call[c].phase
         /\ call'[c].plan = call[c].plan /\ call'[c].row = call[c].row
         /\ \/ /\ call'[c].step = "record" /\ call'[c].found \in Ids'
               /\ Submit(KeyOf(call[c].seen, SiteOf(call[c].plan)), call[c].plan) /\ faults' = faults
            \/ /\ call'[c].step = "recover" /\ faults' = faults + 1 /\ faults < MaxFaults[members]
               /\ Submit(KeyOf(call[c].seen, SiteOf(call[c].plan)), call[c].plan) \/ op' = op
<1> DEFINE key == KeyOf(call[c].seen, SiteOf(call[c].plan))
<1>1. call[c] \in CallStates(Rows) /\ key \in Keys
  BY CallIs, KeyOfIs, PlansAre DEF CallStates
<1> HIDE DEF key
<1>2. CASE /\ Submit(key, call[c].plan) /\ faults' = faults
           /\ call' = [call EXCEPT ![c].step = "record", ![c].seen = NotRead,
                                   ![c].found = SubmittedId(key)]
  <2>1. SubmittedId(key) \in Ids' /\ SubmittedId(key) \in OperationIds
    <3>1. SubmittedId(key) \in Ids' /\ OpsTyped'
      BY <1>1, <1>2, Submits DEF OpsGrow
    <3>2. OpsTyped => Ids \subseteq OperationIds
      BY IdsAre
    <3>3. OpsTyped' => Ids' \subseteq OperationIds
      <4>1. OpsTyped' => Ids' = 1..Len(op') /\ Len(op') <= MaxOperations /\ Len(op') \in Nat
        BY LenProperties DEF OpsTyped, Ids
      <4> QED BY <4>1, ConstantsAre
    <3> QED BY <3>1, <3>3
  <2> DEFINE k == [call[c] EXCEPT !.step = "record", !.seen = NotRead, !.found = SubmittedId(key)]
  <2>2. call' = [call EXCEPT ![c] = k]
    BY <1>2
  <2>3. k \in CallStates(Rows) /\ k.step = "record" /\ k.found = SubmittedId(key)
        /\ k.todo = call[c].todo /\ k.phase = call[c].phase /\ k.plan = call[c].plan
        /\ k.row = call[c].row
    BY <1>1, <2>1 DEF CallStates, Steps, NotRead, Editions
  <2> HIDE DEF k
  <2>4. Moves(c, k)
    BY <2>2, <2>3, CallMoves
  <2> QED BY <1>2, <2>1, <2>3, <2>4 DEF Moves, key
<1>3. CASE /\ faults < MaxFaults[members] /\ faults' = faults + 1
           /\ Submit(key, call[c].plan) \/ op' = op
           /\ call' = [call EXCEPT ![c].step = "recover", ![c].seen = NotRead]
  <2> DEFINE k == [call[c] EXCEPT !.step = "recover", !.seen = NotRead]
  <2>1. call' = [call EXCEPT ![c] = k]
    BY <1>3
  <2>2. k \in CallStates(Rows) /\ k.step = "recover"
        /\ k.todo = call[c].todo /\ k.phase = call[c].phase /\ k.plan = call[c].plan
        /\ k.row = call[c].row
    BY <1>1 DEF CallStates, Steps, NotRead, Editions
  <2> HIDE DEF k
  <2>3. Moves(c, k)
    BY <2>1, <2>2, CallMoves
  <2> QED BY <1>3, <2>2, <2>3 DEF Moves, key
<1> QED BY <1>2, <1>3 DEF SubmitFor, key

LEMMA RecordMoves ==
  ASSUME CallsTyped, NEW c \in Calls, Record(c)
  PROVE  \/ Attach(c) /\ Leave(c) /\ faults' = faults
         \/ /\ faults < MaxFaults[members] /\ faults' = faults + 1
            /\ Attach(c) \/ plan' = plan
            /\ CallsTyped' /\ \A d \in Calls \ {c} : call'[d] = call[d]
            /\ call'[c] = [call[c] EXCEPT !.step = "recover", !.found = None]
<1>1. CASE Attach(c) /\ Leave(c) /\ UNCHANGED faults
  BY <1>1
<1>2. CASE /\ faults < MaxFaults[members] /\ faults' = faults + 1
           /\ Attach(c) \/ UNCHANGED plan
           /\ call' = [call EXCEPT ![c].step = "recover", ![c].found = None]
  <2> DEFINE k == [call[c] EXCEPT !.step = "recover", !.found = None]
  <2>1. k \in CallStates(Rows)
    BY CallIs DEF CallStates, Steps
  <2>2. call' = [call EXCEPT ![c] = k]
    BY <1>2
  <2>3. Moves(c, k)
    BY <2>1, <2>2, CallMoves
  <2> QED BY <1>2, <2>3 DEF Moves
<1> QED BY <1>1, <1>2 DEF Record

LEMMA CutOffMoves ==
  ASSUME CallsTyped, NEW c \in Calls, CutOff(c)
  PROVE  /\ CallsTyped' /\ \A d \in Calls \ {c} : call'[d] = call[d]
         /\ call'[c] = Resting
  BY RestingIsState, CallMoves DEF CutOff, Moves

(***************************************************************************)
(* What the steps do to a plan.                                            *)
(***************************************************************************)
\* Only p is written, with r.
Writes(p, r) ==
  /\ r \in PlanRows /\ PlansTyped' /\ plan'[p] = r
  /\ \A q \in Plans \ {p} : plan'[q] = plan[q]

LEMMA PlanWrites ==
  ASSUME PlansTyped, NEW p \in Plans, NEW r \in PlanRows, plan' = [plan EXCEPT ![p] = r]
  PROVE  Writes(p, r)
  BY DEF PlansTyped, Writes

LEMMA UpdateWrites ==
  ASSUME PlansTyped, NEW p \in Plans, NEW old \in RowsRead, NEW status, NEW new \in PlanRows,
         Update(p, old, status, new)
  PROVE  \/ ~Unchanged(p, old, status) /\ plan' = plan
         \/ /\ Unchanged(p, old, status)
            /\ Writes(p, [new EXCEPT !.revision = plan[p].revision + 1])
<1>1. CASE ~Unchanged(p, old, status)
  BY <1>1 DEF Update
<1>2. CASE Unchanged(p, old, status)
  <2> DEFINE r == [new EXCEPT !.revision = plan[p].revision + 1]
  <2>1. plan' = [plan EXCEPT ![p] = r]
    BY <1>2 DEF Update, Unchanged
  <2>2. r \in PlanRows
    BY DEF PlansTyped, PlanRows
  <2> QED BY <1>2, <2>1, <2>2, PlanWrites
<1> QED BY <1>1, <1>2

LEMMA CreateWrites ==
  ASSUME PlansTyped, ContentTyped, NEW r \in Requests, Create(r)
  PROVE  /\ PlansTyped'
         /\ \A p \in Plans : \/ plan'[p] = plan[p]
                             \/ /\ plan[p].status = "absent"
                                /\ plan'[p] = [plan[p] EXCEPT !.status = "pending"]
<1>1. \A p \in Plans : plan[p] \in PlanRows
  BY DEF PlansTyped
<1>2. \A p \in Plans : [plan[p] EXCEPT !.status = "pending"] \in PlanRows
  BY <1>1 DEF PlanRows, Statuses
<1>3. plan' = [p \in Plans |-> IF p \in {r} \X members THEN [plan[p] EXCEPT !.status = "pending"]
                              ELSE plan[p]]
  BY DEF Create
<1>4. PlansTyped'
  BY <1>1, <1>2, <1>3 DEF PlansTyped
<1>5. ASSUME NEW p \in Plans, p \in {r} \X members
      PROVE  plan[p].status = "absent"
  <2>1. PICK s \in members : p = <<r, s>>
    BY <1>5
  <2> QED BY <2>1 DEF Create
<1> QED BY <1>3, <1>4, <1>5

LEMMA CancelWrites ==
  ASSUME PlansTyped, NEW p \in Plans, Cancel(p)
  PROVE  /\ plan[p].status = "pending"
         /\ Writes(p, [plan[p] EXCEPT !.status = "cancelled", !.revision = plan[p].revision + 1])
<1> DEFINE r == [plan[p] EXCEPT !.status = "cancelled", !.revision = plan[p].revision + 1]
<1>1. plan[p] \in PlanRows /\ plan[p].revision + 1 \in Nat
  BY DEF PlansTyped, PlanRows
<1>2. r \in PlanRows
  BY <1>1 DEF PlanRows, Statuses
<1>3. plan' = [plan EXCEPT ![p] = r]
  BY <1>1 DEF Cancel, PlansTyped
<1> QED BY <1>2, <1>3, PlanWrites DEF Cancel, Cancellable

LEMMA LapseWrites ==
  ASSUME PlansTyped, NEW p \in Plans, Lapse(p)
  PROVE  /\ plan[p].status = "running" /\ plan[p].operation = None /\ ~plan[p].lapsed
         /\ Writes(p, [plan[p] EXCEPT !.lapsed = TRUE])
         /\ \/ ~Held(p) /\ faults' = faults
            \/ Held(p) /\ faults < MaxFaults[members] /\ faults' = faults + 1
<1> DEFINE r == [plan[p] EXCEPT !.lapsed = TRUE]
<1>1. r \in PlanRows
  BY DEF PlansTyped, PlanRows
<1>2. plan' = [plan EXCEPT ![p] = r]
  BY DEF Lapse
<1> QED BY <1>1, <1>2, PlanWrites DEF Lapse

\* The rows an update writes.
LEMMA NewRows ==
  ASSUME PlansTyped, NEW p \in Plans
  PROVE  /\ \A status \in Statuses : With(p, status) \in PlanRows
         /\ \A i \in OperationIds \cup {None} : [plan[p] EXCEPT !.operation = i] \in PlanRows
         /\ \A c \in Calls : [With(p, "running") EXCEPT !.holder = WorkerOf[c], !.lapsed = FALSE]
                               \in PlanRows
<1>1. plan[p] \in PlanRows
  BY DEF PlansTyped
<1>2. \A status \in Statuses : With(p, status) \in PlanRows
  BY <1>1 DEF With, PlanRows
<1>3. \A i \in OperationIds \cup {None} : [plan[p] EXCEPT !.operation = i] \in PlanRows
  BY <1>1 DEF PlanRows
<1>4. ASSUME NEW c \in Calls
      PROVE  [With(p, "running") EXCEPT !.holder = WorkerOf[c], !.lapsed = FALSE] \in PlanRows
  <2>1. With(p, "running") \in PlanRows
    BY <1>2 DEF Statuses
  <2> QED BY <2>1, ConstantsAre DEF PlanRows
<1> QED BY <1>2, <1>3, <1>4

LEMMA SettleWrites ==
  ASSUME PlansTyped, CallsTyped, NEW c \in Calls, NEW p \in Plans, Settle(c, p)
  PROVE  LET old == call[c].todo[p]
         IN \/ plan' = plan
            \/ /\ Unchanged(p, old, "running") /\ Ended(old.operation)
               /\ Writes(p, [plan[p] EXCEPT !.status = op[old.operation].state,
                                            !.revision = plan[p].revision + 1])
<1> DEFINE old == call[c].todo[p]
<1>1. old \in RowsRead
  BY CallIs DEF Settle
<1>2. CASE Ended(old.operation) /\ Update(p, old, "running", With(p, Verdict(old.operation)))
  <2>1. Verdict(old.operation) \in Statuses
    BY <1>2 DEF Ended, Verdict, Statuses
  <2>2. With(p, Verdict(old.operation)) \in PlanRows
    BY <2>1, NewRows
  <2>3. \/ ~Unchanged(p, old, "running") /\ plan' = plan
        \/ /\ Unchanged(p, old, "running")
           /\ Writes(p, [With(p, Verdict(old.operation)) EXCEPT !.revision = plan[p].revision + 1])
    BY <1>1, <1>2, <2>2, UpdateWrites
  <2> QED BY <1>2, <2>3 DEF With, Verdict
<1> QED BY <1>2 DEF Settle

LEMMA ClaimWrites ==
  ASSUME PlansTyped, CallsTyped, NEW c \in Calls, NEW p \in Plans, Claim(c, p)
  PROVE  LET old == call[c].todo[p]
         IN \/ ~Unchanged(p, old, old.status) /\ plan' = plan
            \/ /\ Unchanged(p, old, old.status)
               /\ Writes(p, [plan[p] EXCEPT !.status = "running", !.holder = WorkerOf[c],
                                            !.lapsed = FALSE, !.revision = plan[p].revision + 1])
<1> DEFINE old == call[c].todo[p]
           new == [With(p, "running") EXCEPT !.holder = WorkerOf[c], !.lapsed = FALSE]
<1>1. old \in RowsRead
  BY CallIs DEF Claim
<1>2. new \in PlanRows
  BY NewRows
<1>3. Update(p, old, old.status, new)
  BY DEF Claim
<1>4. \/ ~Unchanged(p, old, old.status) /\ plan' = plan
      \/ /\ Unchanged(p, old, old.status)
         /\ Writes(p, [new EXCEPT !.revision = plan[p].revision + 1])
  <2> HIDE DEF new, old
  <2> QED BY <1>1, <1>2, <1>3, UpdateWrites
<1>5. [new EXCEPT !.revision = plan[p].revision + 1]
        = [plan[p] EXCEPT !.status = "running", !.holder = WorkerOf[c],
                          !.lapsed = FALSE, !.revision = plan[p].revision + 1]
  BY DEF PlansTyped, PlanRows, With
<1> QED BY <1>4, <1>5

LEMMA FailWrites ==
  ASSUME PlansTyped, CallsTyped, NEW c \in Calls, call[c].plan \in Plans, FailPlan(c)
  PROVE  LET p == call[c].plan
         IN \/ ~Unchanged(p, call[c].row, "running") /\ plan' = plan
            \/ /\ Unchanged(p, call[c].row, "running")
               /\ Writes(p, [plan[p] EXCEPT !.status = "failed", !.revision = plan[p].revision + 1])
<1> DEFINE p == call[c].plan
<1>1. call[c].row \in RowsRead
  BY CallIs DEF CallStates
<1>2. With(p, "failed") \in PlanRows
  BY NewRows DEF Statuses
<1> QED BY <1>1, <1>2, UpdateWrites DEF FailPlan, With

LEMMA AttachWrites ==
  ASSUME PlansTyped, CallsTyped, NEW c \in Calls, call[c].plan \in Plans, Attach(c)
  PROVE  LET p == call[c].plan
         IN \/ ~Unchanged(p, call[c].row, "running") /\ plan' = plan
            \/ /\ Unchanged(p, call[c].row, "running")
               /\ Writes(p, [plan[p] EXCEPT !.operation = call[c].found,
                                            !.revision = plan[p].revision + 1])
<1> DEFINE p == call[c].plan
           new == [plan[p] EXCEPT !.operation = call[c].found]
<1>1. call[c].row \in RowsRead /\ call[c].found \in OperationIds \cup {None}
  BY CallIs DEF CallStates
<1>2. new \in PlanRows
  BY <1>1, NewRows
<1>3. Update(p, call[c].row, "running", new)
  BY DEF Attach
<1>4. \/ ~Unchanged(p, call[c].row, "running") /\ plan' = plan
      \/ /\ Unchanged(p, call[c].row, "running")
         /\ Writes(p, [new EXCEPT !.revision = plan[p].revision + 1])
  <2> HIDE DEF new
  <2> QED BY <1>1, <1>2, <1>3, UpdateWrites
<1> QED BY <1>4

(***************************************************************************)
(* What a call knows.  A row that was read is of the plan as it is, or as  *)
(* it was at an earlier revision; a plan a call works on was claimed.      *)
(***************************************************************************)
Begun == {"running", "succeeded", "failed"}

PlanSound(p) ==
  /\ plan[p].status \in {"absent", "pending"} => plan[p].revision = 0
  /\ plan[p].status \notin Begun => plan[p].operation = None /\ CreatedFor(p) = {}
  /\ plan[p].operation \in {None} \cup Ids
  /\ plan[p].status = "succeeded" =>
       plan[p].operation # None /\ op[plan[p].operation].state = "succeeded"
  /\ plan[p].status = "failed" /\ plan[p].operation # None =>
       op[plan[p].operation].state = "failed"

ReadOf(p, old) ==
  /\ old.revision <= plan[p].revision
  /\ old.operation \in {None, plan[p].operation}
  /\ old.revision = plan[p].revision =>
       old.status = plan[p].status /\ old.operation = plan[p].operation

Listed(k, p) ==
  LET old == k.todo[p]
  IN /\ ReadOf(p, old)
     /\ k.phase = "settle" => old.status = "running" /\ old.operation \in Ids
     /\ k.phase = "resume" => /\ old.status = "running" /\ old.operation = None
                              /\ old.revision = plan[p].revision => plan[p].lapsed
     /\ k.phase = "due" => old.status = "pending" /\ old.operation = None

Working(k) ==
  /\ plan[k.plan].status \in Begun
  /\ k.step # "reread" => ReadOf(k.plan, k.row)
  /\ k.step \in {"read", "submit", "record"} => k.row.operation = None
  /\ k.step = "record" => k.found \in Ids

CallSound(k) ==
  /\ k.step = "next" <=> k.plan = NoPlan
  /\ k.phase = "idle" => k.step = "next" /\ DOMAIN k.todo = {}
  /\ \A p \in DOMAIN k.todo : Listed(k, p)
  /\ k.plan # NoPlan => Working(k)

Sound == (\A p \in Plans : PlanSound(p)) /\ (\A c \in Calls : CallSound(call[c]))

LEMMA InitSound == Init => Sound
<1> SUFFICES ASSUME Init PROVE Sound
  OBVIOUS
<1>1. Ids = {} /\ \A p \in Plans : CreatedFor(p) = {}
  BY DEF Init, Ids, CreatedFor
<1>2. ASSUME NEW p \in Plans PROVE PlanSound(p)
  BY <1>1, <1>2 DEF Init, Unplanned, PlanSound, Begun
<1>3. ASSUME NEW c \in Calls PROVE CallSound(call[c])
  BY RestingIsState DEF Init, Resting, CallSound
<1> QED BY <1>2, <1>3 DEF Sound

LEMMA WorksOn ==
  ASSUME CallsTyped, Sound, NEW c \in Calls, call[c].step # "next"
  PROVE  call[c].plan \in Plans /\ Working(call[c]) /\ call[c].row \in RowsRead
<1>1. call[c].plan # NoPlan /\ Working(call[c])
  BY DEF Sound, CallSound
<1>2. call[c] \in CallStates(Rows)
  BY CallIs
<1> QED BY <1>1, <1>2 DEF CallStates

LEMMA ListedIs ==
  ASSUME CallsTyped, Sound, NEW c \in Calls, NEW p \in DOMAIN call[c].todo
  PROVE  p \in Plans /\ Listed(call[c], p) /\ call[c].todo[p] \in RowsRead
  BY CallIs DEF Sound, CallSound

(***************************************************************************)
(* The ways of a plan.                                                     *)
(***************************************************************************)
Goes(p) ==
  \/ plan'[p] = plan[p]
  \/ /\ plan[p].status = "absent"
     /\ plan'[p] = [plan[p] EXCEPT !.status = "pending"]
  \/ /\ plan[p].status = "pending"
     /\ plan'[p] = [plan[p] EXCEPT !.status = "cancelled", !.revision = plan[p].revision + 1]
  \/ /\ plan[p].status = "running" /\ plan[p].operation = None
     /\ plan'[p] = [plan[p] EXCEPT !.lapsed = TRUE]
  \/ /\ plan[p].status = "running" /\ plan[p].operation \in Ids /\ Ended(plan[p].operation)
     /\ plan'[p] = [plan[p] EXCEPT !.status = op[plan[p].operation].state,
                                   !.revision = plan[p].revision + 1]
  \/ /\ plan[p].status \in {"pending", "running"} /\ plan[p].operation = None
     /\ \E w \in Workers :
          plan'[p] = [plan[p] EXCEPT !.status = "running", !.holder = w, !.lapsed = FALSE,
                                     !.revision = plan[p].revision + 1]
  \/ /\ plan[p].status = "running" /\ plan[p].operation = None
     /\ plan'[p] = [plan[p] EXCEPT !.status = "failed", !.revision = plan[p].revision + 1]
  \/ /\ plan[p].status = "running" /\ plan[p].operation = None
     /\ \E i \in Ids : plan'[p] = [plan[p] EXCEPT !.operation = i,
                                                  !.revision = plan[p].revision + 1]

AllGo == PlansTyped' /\ \A p \in Plans : Goes(p)

LEMMA WritesGo ==
  ASSUME PlansTyped, NEW p \in Plans, NEW r, Writes(p, r), Goes(p)
  PROVE  AllGo
  BY DEF Writes, AllGo, Goes

LEMMA SamePlans == PlansTyped /\ plan' = plan => AllGo
  BY DEF AllGo, Goes, PlansTyped

LEMMA SettleGoes ==
  ASSUME Typed, Sound, NEW c \in Calls, NEW p \in Plans, Settle(c, p)
  PROVE  AllGo
<1> DEFINE old == call[c].todo[p]
<1>1. p \in DOMAIN call[c].todo /\ call[c].phase = "settle"
  BY DEF Settle
<1>2. Listed(call[c], p)
  BY <1>1, ListedIs DEF Typed
<1>3. CASE /\ Unchanged(p, old, "running") /\ Ended(old.operation)
           /\ Writes(p, [plan[p] EXCEPT !.status = op[old.operation].state,
                                        !.revision = plan[p].revision + 1])
  <2>1. /\ plan[p].status = "running" /\ plan[p].operation = old.operation
        /\ old.operation \in Ids
    BY <1>1, <1>2, <1>3 DEF Unchanged, Listed, ReadOf
  <2>2. Goes(p)
    BY <1>3, <2>1 DEF Goes, Writes
  <2> QED BY <1>3, <2>2, WritesGo DEF Typed
<1> QED BY <1>3, SettleWrites, SamePlans DEF Typed

LEMMA ClaimGoes ==
  ASSUME Typed, Sound, NEW c \in Calls, NEW p \in Plans, Claim(c, p)
  PROVE  AllGo
<1> DEFINE old == call[c].todo[p]
<1>1. p \in DOMAIN call[c].todo /\ call[c].phase \in {"resume", "due"}
  BY DEF Claim
<1>2. Listed(call[c], p)
  BY <1>1, ListedIs DEF Typed
<1>3. CASE /\ Unchanged(p, old, old.status)
           /\ Writes(p, [plan[p] EXCEPT !.status = "running", !.holder = WorkerOf[c],
                                        !.lapsed = FALSE, !.revision = plan[p].revision + 1])
  <2>1. plan[p].status \in {"pending", "running"} /\ plan[p].operation = None
    BY <1>1, <1>2, <1>3 DEF Unchanged, Listed, ReadOf
  <2>2. Goes(p)
    BY <1>3, <2>1, ConstantsAre DEF Goes, Writes
  <2> QED BY <1>3, <2>2, WritesGo DEF Typed
<1> QED BY <1>3, ClaimWrites, SamePlans DEF Typed

LEMMA FailGoes ==
  ASSUME Typed, Sound, NEW c \in Calls, call[c].step # "next", ~Attached(c), FailPlan(c)
  PROVE  AllGo
<1> DEFINE p == call[c].plan
<1>1. p \in Plans
  BY WorksOn DEF Typed
<1>2. CASE /\ Unchanged(p, call[c].row, "running")
           /\ Writes(p, [plan[p] EXCEPT !.status = "failed", !.revision = plan[p].revision + 1])
  <2>1. Goes(p)
    BY <1>2 DEF Goes, Writes, Unchanged, Attached
  <2> QED BY <1>1, <1>2, <2>1, WritesGo DEF Typed
<1> QED BY <1>1, <1>2, FailWrites, SamePlans DEF Typed

LEMMA AttachGoes ==
  ASSUME Typed, Sound, NEW c \in Calls, call[c].step = "record", Attach(c)
  PROVE  AllGo
<1> DEFINE p == call[c].plan
<1>1. p \in Plans /\ Working(call[c])
  BY WorksOn DEF Typed
<1>2. CASE /\ Unchanged(p, call[c].row, "running")
           /\ Writes(p, [plan[p] EXCEPT !.operation = call[c].found,
                                        !.revision = plan[p].revision + 1])
  <2>1. plan[p].operation = None /\ call[c].found \in Ids
    BY <1>1, <1>2 DEF Working, ReadOf, Unchanged
  <2>2. Goes(p)
    BY <1>2, <2>1 DEF Goes, Writes, Unchanged
  <2> QED BY <1>1, <1>2, <2>2, WritesGo DEF Typed
<1> QED BY <1>1, <1>2, AttachWrites, SamePlans DEF Typed

(***************************************************************************)
(* Steps outside the calls.                                                *)
(***************************************************************************)
WorldStep ==
  \/ \E r \in Requests : Create(r)
  \/ \E p \in Plans : Cancel(p) \/ Lapse(p)
  \/ \E s \in Sites : PublishNow(s)
  \/ \E i \in OperationIds : Compile(i) \/ Register(i) \/ FailOperation(i)
  \/ Tick \/ StartEditing
  \/ UNCHANGED vars
CallStep(c) == Begin(c) \/ Step(c) \/ CutOff(c)

LEMMA NextIs == [Next]_vars => WorldStep \/ \E c \in Calls : CallStep(c)
  BY DEF Next, WorldStep, CallStep

\* Content and time stay, but for faults.
Still == UNCHANGED <<content, clock>>

LEMMA StillTyped == ContentTyped /\ Still => ContentTyped' /\ members' = members
  BY DEF ContentTyped, Still, content

LEMMA TimeStays ==
  ASSUME ContentTyped, TimeTyped, Still,
         \/ faults' = faults
         \/ faults < MaxFaults[members] /\ faults' = faults + 1
  PROVE  TimeTyped'
<1>1. members' = members /\ clock' = clock /\ MaxFaults[members] \in Nat
  BY ConstantsAre DEF Still, content, ContentTyped
<1> QED BY <1>1 DEF TimeTyped

LEMMA WorldGoes ==
  ASSUME Typed, Sound, WorldStep
  PROVE  /\ AllGo /\ OpsGrow /\ call' = call /\ ContentTyped' /\ TimeTyped' /\ NoneCreated
         /\ \/ faults' = faults
            \/ (\E p \in Plans : Lapse(p)) /\ plan' # plan
<1> USE DEF Typed
<1>1. ASSUME NEW r \in Requests, Create(r)
      PROVE  AllGo /\ op' = op /\ call' = call /\ Still /\ faults' = faults
  <2>1. AllGo
    BY <1>1, CreateWrites DEF AllGo, Goes
  <2> QED BY <1>1, <2>1 DEF Create, Still
<1>2. ASSUME NEW p \in Plans, Cancel(p)
      PROVE  AllGo /\ op' = op /\ call' = call /\ Still /\ faults' = faults
  <2>1. Goes(p) /\ PlansTyped' /\ \A q \in Plans \ {p} : plan'[q] = plan[q]
    BY <1>2, CancelWrites DEF Goes, Writes
  <2> QED BY <1>2, <2>1 DEF Cancel, Still, AllGo, Goes
<1>3. ASSUME NEW p \in Plans, Lapse(p)
      PROVE  AllGo /\ op' = op /\ call' = call /\ Still /\ TimeTyped' /\ plan' # plan
  <2>1. Goes(p) /\ PlansTyped' /\ \A q \in Plans \ {p} : plan'[q] = plan[q]
    BY <1>3, LapseWrites DEF Goes, Writes
  <2>2. AllGo /\ op' = op /\ call' = call /\ Still
    BY <1>3, <2>1 DEF Lapse, Still, AllGo, Goes
  <2>3. plan' # plan
    BY <1>3, LapseWrites DEF Writes, PlansTyped, PlanRows
  <2>4. TimeTyped'
    BY <1>3, <2>2, LapseWrites, TimeStays
  <2> QED BY <2>2, <2>3, <2>4
<1>4. ASSUME NEW s \in Sites, PublishNow(s)
      PROVE  /\ plan' = plan /\ call' = call /\ Still /\ faults' = faults
             /\ OpsGrow /\ NoneCreated
  <2>1. KeyOf(edition, s) \in Keys /\ Submit(KeyOf(edition, s), NoPlan)
    BY <1>4, KeyOfIs DEF PublishNow, ContentTyped
  <2>2. OpsGrow /\ NoneCreated
    BY <2>1, Submits, PlansAre DEF NoneCreated
  <2> QED BY <1>4, <2>2 DEF PublishNow, Still
<1>5. ASSUME NEW i \in OperationIds, Compile(i) \/ Register(i) \/ FailOperation(i)
      PROVE  /\ plan' = plan /\ call' = call /\ UNCHANGED <<members, clock>> /\ faults' = faults
             /\ OpsGrow /\ NoneCreated /\ ContentTyped'
  <2>1. i \in Ids /\ ~Ended(i) /\ op[i].key.site \in Sites
    BY <1>5, IdsAre DEF Compile, Register, FailOperation, Ended, Operations, Keys
  <2>2. \E state \in {"compiled", "succeeded", "failed"} : SetState(i, state)
    BY <1>5 DEF Compile, Register, FailOperation
  <2>3. OpsGrow /\ NoneCreated
    BY <2>1, <2>2, StateSet
  <2>4. CASE Compile(i)
    <3> DEFINE s == op[i].key.site
    <3>1. edition' \in Editions
      BY <2>4 DEF Compile, Editions, ContentTyped
    <3>2. row' = [row EXCEPT ![s] = [published |-> FALSE, release |-> i]]
      BY <2>4 DEF Compile
    <3>3. row' \in [Sites -> SiteRows]
      BY <3>2 DEF SiteRows, ContentTyped
    <3> QED BY <2>3, <2>4, <3>1, <3>3 DEF Compile, ContentTyped
  <2>5. CASE Register(i)
    <3> DEFINE s == op[i].key.site
    <3>1. edition' \in Editions
      BY <2>5 DEF Register, Editions, ContentTyped
    <3>2. row' = [row EXCEPT ![s].published = TRUE]
      BY <2>5 DEF Register
    <3>3. row' \in [Sites -> SiteRows]
      BY <3>2 DEF SiteRows, ContentTyped
    <3> QED BY <2>3, <2>5, <3>1, <3>3 DEF Register, ContentTyped
  <2>6. CASE FailOperation(i)
    BY <2>3, <2>6 DEF FailOperation, content, ContentTyped
  <2> QED BY <1>5, <2>4, <2>5, <2>6
<1>6. ASSUME Tick
      PROVE  plan' = plan /\ op' = op /\ call' = call /\ faults' = faults
             /\ ContentTyped' /\ TimeTyped'
  <2>1. clock + 1 \in 0..MaxRequests
    BY <1>6, ConstantsAre DEF Tick, TimeTyped
  <2> QED BY <1>6, <2>1 DEF Tick, content, ContentTyped, TimeTyped
<1>7. ASSUME StartEditing
      PROVE  plan' = plan /\ op' = op /\ call' = call /\ faults' = faults
             /\ ContentTyped' /\ TimeTyped'
  BY <1>7 DEF StartEditing, ContentTyped, TimeTyped, Editions
<1>8. ASSUME UNCHANGED vars
      PROVE  plan' = plan /\ op' = op /\ call' = call /\ Still /\ faults' = faults
  BY <1>8 DEF vars, Still
<1>9. ASSUME AllGo, op' = op, call' = call, Still, faults' = faults
      PROVE  AllGo /\ OpsGrow /\ call' = call /\ ContentTyped' /\ TimeTyped' /\ NoneCreated
  BY <1>9, SameOps, StillTyped, TimeStays
<1>10. CASE \E i \in OperationIds : Compile(i) \/ Register(i) \/ FailOperation(i)
  <2>1. PICK i \in OperationIds : Compile(i) \/ Register(i) \/ FailOperation(i)
    BY <1>10
  <2>2. TimeTyped'
    BY <1>5, <2>1 DEF TimeTyped
  <2> QED BY <1>5, <2>1, <2>2, SamePlans
<1>11. CASE \E r \in Requests : Create(r)
  BY <1>1, <1>9, <1>11
<1>12. CASE \E p \in Plans : Cancel(p)
  BY <1>2, <1>9, <1>12
<1>13. CASE \E p \in Plans : Lapse(p)
  BY <1>3, <1>13, SameOps, StillTyped
<1>14. CASE \E s \in Sites : PublishNow(s)
  BY <1>4, <1>14, SamePlans, StillTyped, TimeStays
<1>15. CASE Tick \/ StartEditing
  BY <1>6, <1>7, <1>15, SamePlans, SameOps
<1>16. CASE UNCHANGED vars
  BY <1>8, <1>9, <1>16, SamePlans
<1> QED BY <1>10, <1>11, <1>12, <1>13, <1>14, <1>15, <1>16 DEF WorldStep

(***************************************************************************)
(* Steps of a call.                                                        *)
(***************************************************************************)
LEMMA CallGoes ==
  ASSUME Typed, Sound, NEW c \in Calls, CallStep(c)
  PROVE  /\ AllGo /\ OpsGrow /\ CallsTyped' /\ ContentTyped' /\ TimeTyped'
         /\ \A d \in Calls \ {c} : call'[d] = call[d]
         /\ \A p \in Plans : p # call[c].plan => CreatedFor(p)' = CreatedFor(p)
         /\ op' = op \/ SubmitFor(c)
<1> USE DEF Typed
<1>1. Still /\ ((faults' = faults) \/ (faults < MaxFaults[members] /\ faults' = faults + 1))
  BY DEF CallStep, Begin, Step, CutOff, Advance, Settle, Claim, Reread, Look, Read, SubmitFor,
         Record, Recover, Still
<1>2. ContentTyped' /\ TimeTyped'
  BY <1>1, StillTyped, TimeStays
<1>3. op' = op => OpsGrow /\ \A p \in Plans : CreatedFor(p)' = CreatedFor(p)
  BY SameOps DEF NoneCreated
<1> DEFINE Others == \A d \in Calls \ {c} : call'[d] = call[d]
<1>4. CASE Begin(c)
  <2>1. \A T : T \in Page(Running, SettleLimit) => {p \in T : plan[p].operation # None} \in SUBSET Plans
    BY DEF Page, Running
  <2>2. CallsTyped' /\ Others
    BY <1>4, <2>1, TurnMoves DEF Begin, Phases
  <2>3. AllGo /\ op' = op
    BY <1>4, SamePlans DEF Begin
  <2> QED BY <1>2, <1>3, <2>2, <2>3
<1>5. CASE Advance(c)
  <2>1. CallsTyped' /\ Others
    <3>1. \A T : T \in Page(Running, Limit) => {p \in T : Resumable(p)} \in SUBSET Plans
      BY DEF Page, Running
    <3>2. \A T : T \in FirstPage(Pending, Limit) => T \in SUBSET Plans
      BY DEF Page, FirstPage, Pending
    <3>3. CASE \E T \in Page(Running, Limit) : Turn(c, "resume", {p \in T : Resumable(p)})
      BY <3>1, <3>3, TurnMoves DEF Phases
    <3>4. CASE \E T \in FirstPage(Pending, Limit) : Turn(c, "due", T)
      BY <3>2, <3>4, TurnMoves DEF Phases
    <3>5. CASE call' = [call EXCEPT ![c] = Resting]
      BY <3>5, RestingIsState, CallMoves DEF Moves
    <3> QED BY <1>5, <3>3, <3>4, <3>5 DEF Advance
  <2>2. AllGo /\ op' = op
    BY <1>5, SamePlans DEF Advance
  <2> QED BY <1>2, <1>3, <2>1, <2>2
<1>6. ASSUME NEW p \in Plans, Settle(c, p)
      PROVE  AllGo /\ op' = op /\ CallsTyped' /\ Others
  BY <1>6, SettleGoes, SettleMoves DEF Settle
<1>7. ASSUME NEW p \in Plans, Claim(c, p)
      PROVE  AllGo /\ op' = op /\ CallsTyped' /\ Others
  BY <1>7, ClaimGoes, ClaimMoves DEF Claim
<1>8. CASE Reread(c)
  <2>1. call[c].plan \in Plans
    BY <1>8, WorksOn DEF Reread, Here
  <2>2. CallsTyped' /\ Others
    BY <1>8, <2>1, RereadMoves, LeaveMoves
  <2> QED BY <1>2, <1>3, <1>8, <2>2, SamePlans DEF Reread
<1>9. CASE Look(c)
  <2>1. CallsTyped' /\ Others
    BY <1>9, LeaveMoves, GoToMoves DEF Look, Steps
  <2>2. AllGo
    BY <1>9, FailGoes, SamePlans DEF Look, Here
  <2> QED BY <1>2, <1>3, <1>9, <2>1, <2>2 DEF Look
<1>10. CASE Read(c)
  BY <1>2, <1>3, <1>10, ReadMoves, SamePlans DEF Read
<1>11. CASE SubmitFor(c)
  <2>1. call[c].plan \in Plans /\ call[c] \in CallStates(Rows)
    BY <1>11, WorksOn, CallIs DEF SubmitFor, Here
  <2>2. KeyOf(call[c].seen, SiteOf(call[c].plan)) \in Keys
    BY <2>1, KeyOfIs, PlansAre DEF CallStates
  <2>3. CallsTyped' /\ Others
    BY <1>11, <2>1, SubmitMoves
  <2>4. OpsGrow /\ \A p \in Plans : p # call[c].plan => CreatedFor(p)' = CreatedFor(p)
    <3>1. Submit(KeyOf(call[c].seen, SiteOf(call[c].plan)), call[c].plan) \/ op' = op
      BY <1>11 DEF SubmitFor
    <3> QED BY <1>3, <2>1, <2>2, <3>1, Submits
  <2> QED BY <1>2, <1>11, <2>3, <2>4, SamePlans DEF SubmitFor
<1>12. CASE Record(c)
  <2>1. call[c].step = "record" /\ op' = op
    BY <1>12 DEF Record, Here
  <2>2. CallsTyped' /\ Others
    BY <1>12, RecordMoves, LeaveMoves
  <2>3. AllGo
    BY <1>12, <2>1, AttachGoes, SamePlans DEF Record
  <2> QED BY <1>2, <1>3, <2>1, <2>2, <2>3
<1>13. CASE Recover(c)
  <2>1. AllGo
    BY <1>13, FailGoes, SamePlans DEF Recover, Here
  <2> QED BY <1>2, <1>3, <1>13, <2>1, LeaveMoves DEF Recover
<1>14. CASE CutOff(c)
  <2>1. AllGo /\ op' = op
    BY <1>14, SamePlans DEF CutOff
  <2> QED BY <1>2, <1>3, <1>14, <2>1, CutOffMoves
<1> QED BY <1>2, <1>3, <1>4, <1>5, <1>6, <1>7, <1>8, <1>9, <1>10, <1>11, <1>12, <1>13, <1>14
        DEF CallStep, Step

LEMMA StepTyped ==
  ASSUME Typed, Sound, [Next]_vars
  PROVE  Typed' /\ AllGo /\ OpsGrow
<1>1. CASE WorldStep
  <2>1. CallsTyped'
    BY <1>1, WorldGoes DEF Typed, CallsTyped
  <2> QED BY <1>1, <2>1, WorldGoes DEF Typed, AllGo, OpsGrow
<1>2. ASSUME NEW c \in Calls, CallStep(c)
      PROVE  Typed' /\ AllGo /\ OpsGrow
  BY <1>2, CallGoes DEF Typed, AllGo, OpsGrow
<1> QED BY <1>1, <1>2, NextIs

(***************************************************************************)
(* What a call knows stays true.                                           *)
(***************************************************************************)
LEMMA GoesKinds ==
  ASSUME PlansTyped, NEW p \in Plans, Goes(p), PlanSound(p)
  PROVE  /\ plan[p].status \in Begun => plan'[p].status \in Begun
         /\ plan[p].operation # None => plan'[p].operation = plan[p].operation
         /\ \/ plan'[p].revision = plan[p].revision + 1
            \/ /\ plan'[p].revision = plan[p].revision
               /\ plan'[p].status = plan[p].status \/ plan[p].status = "absent"
               /\ plan'[p].operation = plan[p].operation
               /\ plan[p].lapsed => plan'[p].lapsed
<1>1. plan[p] \in PlanRows
  BY DEF PlansTyped
<1> QED BY <1>1 DEF Goes, PlanRows, PlanSound, Begun, Ended

LEMMA PlanStaysSound ==
  ASSUME OpsTyped, PlansTyped, NEW p \in Plans, PlanSound(p), Goes(p), OpsGrow,
         CreatedFor(p)' = CreatedFor(p) \/ plan[p].status \in Begun
  PROVE  PlanSound(p)'
<1>1. plan[p] \in PlanRows /\ plan[p].revision \in Nat
  BY DEF PlansTyped, PlanRows
<1>2. \A i \in Ids : i \in Ids' /\ i # None /\ (Ended(i) => op'[i].state = op[i].state)
  BY IdsAre DEF OpsGrow
<1>3. plan[p].operation # None => plan[p].operation \in Ids
  BY DEF PlanSound
<1>4. /\ plan'[p].status \in {"absent", "pending"} => plan'[p].revision = 0
      /\ plan'[p].status \notin Begun =>
           plan[p].status \notin Begun /\ plan'[p].operation = None
      /\ plan'[p].operation \in {None} \cup Ids
      /\ plan'[p].status = "succeeded" =>
           /\ plan'[p].operation # None /\ plan'[p].operation = plan[p].operation
           /\ op[plan[p].operation].state = "succeeded"
      /\ plan'[p].status = "failed" /\ plan'[p].operation # None =>
           /\ plan'[p].operation = plan[p].operation
           /\ op[plan[p].operation].state = "failed"
  BY <1>1, <1>2, <1>3 DEF Goes, PlanRows, PlanSound, Begun, Ended
<1>5. plan'[p].status \notin Begun => CreatedFor(p)' = {}
  BY <1>4 DEF PlanSound
<1>6. plan'[p].status = "succeeded" => op'[plan'[p].operation].state = "succeeded"
  BY <1>2, <1>3, <1>4 DEF Ended
<1>7. plan'[p].status = "failed" /\ plan'[p].operation # None =>
        op'[plan'[p].operation].state = "failed"
  BY <1>2, <1>3, <1>4 DEF Ended
<1> QED BY <1>2, <1>4, <1>5, <1>6, <1>7 DEF PlanSound, Begun

LEMMA ReadStays ==
  ASSUME PlansTyped, NEW p \in Plans, PlanSound(p), Goes(p),
         NEW old \in RowsRead, ReadOf(p, old), old.status # "absent"
  PROVE  /\ ReadOf(p, old)'
         /\ old.revision = plan'[p].revision =>
              old.revision = plan[p].revision /\ (plan[p].lapsed => plan'[p].lapsed)
<1>1. plan[p].revision \in Nat /\ old.revision \in Nat
  BY DEF PlansTyped, PlanRows, RowsRead
<1>2. old.operation # None => plan[p].operation = old.operation /\ plan[p].operation # None
  BY DEF ReadOf
<1>3. plan'[p].revision = plan[p].revision => plan[p].status # "absent" \/ old.revision # plan[p].revision
  BY DEF ReadOf
<1> QED BY <1>1, <1>2, <1>3, GoesKinds DEF ReadOf

LEMMA ListedStays ==
  ASSUME PlansTyped, NEW k, NEW p \in Plans, k.todo[p] \in RowsRead,
         k.phase \in {"settle", "resume", "due"},
         PlanSound(p), Goes(p), Ids \subseteq Ids', Listed(k, p)
  PROVE  Listed(k, p)'
<1> DEFINE old == k.todo[p]
<1>1. ReadOf(p, old) /\ old.status # "absent"
  BY DEF Listed
<1>2. /\ ReadOf(p, old)'
      /\ old.revision = plan'[p].revision =>
           old.revision = plan[p].revision /\ (plan[p].lapsed => plan'[p].lapsed)
  BY <1>1, ReadStays
<1> QED BY <1>2 DEF Listed

LEMMA WorkingStays ==
  ASSUME PlansTyped, NEW k, k.plan \in Plans, k.row \in RowsRead,
         PlanSound(k.plan), Goes(k.plan), Ids \subseteq Ids', Working(k)
  PROVE  Working(k)'
<1> DEFINE p == k.plan
<1>1. plan'[p].status \in Begun
  BY GoesKinds DEF Working
<1>2. ASSUME ReadOf(p, k.row) PROVE ReadOf(p, k.row)'
  <2>1. plan[p].revision \in Nat /\ k.row.revision \in Nat
    BY DEF PlansTyped, PlanRows, RowsRead
  <2>2. plan[p].status # "absent"
    BY DEF Working, Begun
  <2> QED BY <1>2, <2>1, <2>2, GoesKinds DEF ReadOf
<1> QED BY <1>1, <1>2 DEF Working

\* A call that does not move.
LEMMA OtherStaysSound ==
  ASSUME Typed, Sound, AllGo, OpsGrow, NEW d \in Calls, call'[d] = call[d]
  PROVE  CallSound(call[d])'
<1> DEFINE k == call[d]
<1>1. k \in CallStates(Rows) /\ CallSound(k)
  BY CallIs DEF Typed, Sound
<1> SUFFICES ASSUME NEW l, l = call[d], l = call'[d] PROVE CallSound(l)'
  OBVIOUS
<1>2. l \in CallStates(Rows) /\ CallSound(l) /\ l.phase \in Phases
  BY <1>1 DEF CallStates
<1>3. ASSUME NEW p \in DOMAIN l.todo PROVE Listed(l, p)'
  <2>1. p \in Plans /\ l.todo[p] \in RowsRead /\ Listed(l, p)
    BY ListedIs DEF Typed
  <2>2. l.phase \in {"settle", "resume", "due"}
    BY <1>2 DEF CallSound, Phases
  <2> QED BY <2>1, <2>2, ListedStays DEF Typed, Sound, AllGo, OpsGrow
<1>4. l.plan # NoPlan => Working(l)'
  <2> SUFFICES ASSUME l.plan # NoPlan PROVE Working(l)'
    OBVIOUS
  <2>1. l.plan \in Plans /\ l.row \in RowsRead /\ Working(l)
    BY <1>2 DEF CallStates, CallSound
  <2> QED BY <2>1, WorkingStays DEF Typed, Sound, AllGo, OpsGrow
<1> QED BY <1>2, <1>3, <1>4 DEF CallSound

\* The rows a call has not handled yet.
LEMMA TodoStays ==
  ASSUME Typed, Sound, AllGo, OpsGrow, NEW c \in Calls, NEW l, call[c].phase # "idle",
         l.phase = call[c].phase, DOMAIN l.todo \subseteq DOMAIN call[c].todo,
         \A q \in DOMAIN l.todo : l.todo[q] = call[c].todo[q]
  PROVE  \A q \in DOMAIN l.todo : Listed(l, q)'
<1> SUFFICES ASSUME NEW q \in DOMAIN l.todo PROVE Listed(l, q)'
  OBVIOUS
<1>1. q \in Plans /\ l.todo[q] \in RowsRead /\ Listed(call[c], q)
  BY ListedIs DEF Typed
<1>2. Listed(l, q)
  BY <1>1 DEF Listed
<1>3. l.phase \in {"settle", "resume", "due"}
  BY CallIs DEF Typed, CallStates, Phases
<1> QED BY <1>1, <1>2, <1>3, ListedStays DEF Typed, Sound, AllGo, OpsGrow

\* A call goes on with the plan it works on.
LEMMA WorkGoesOn ==
  ASSUME Typed, Sound, AllGo, OpsGrow, NEW c \in Calls, call[c].step \notin {"next", "reread"},
         NEW l, l.plan = call[c].plan, l.row = call[c].row,
         l.step \in {"read", "submit", "record"} => l.row.operation = None,
         l.step = "record" => l.found \in Ids'
  PROVE  Working(l)'
<1>1. call[c].plan \in Plans /\ Working(call[c]) /\ call[c].row \in RowsRead
  BY WorksOn DEF Typed
<1> DEFINE k == call[c]
<1> SUFFICES ASSUME NEW j, j = call[c] PROVE Working(l)'
  OBVIOUS
<1>2. Working(j) /\ j.plan \in Plans /\ j.row \in RowsRead /\ j.step # "reread"
      /\ l.plan = j.plan /\ l.row = j.row
  BY <1>1
<1>3. Working(j)'
  BY <1>2, WorkingStays DEF Typed, Sound, AllGo, OpsGrow
<1> QED BY <1>2, <1>3 DEF Working

LEMMA TurnSound ==
  ASSUME Typed, Sound, plan' = plan, Ids \subseteq Ids', NEW l, NEW T \in SUBSET Plans,
         l.step = "next", l.plan = NoPlan, DOMAIN l.todo = T,
         \A p \in T : l.todo[p] = AsRead(p),
         \/ l.phase = "settle" /\ \A p \in T : plan[p].status = "running" /\ plan[p].operation # None
         \/ l.phase = "resume" /\ \A p \in T : plan[p].status = "running" /\ Resumable(p)
         \/ l.phase = "due" /\ \A p \in T : plan[p].status = "pending"
  PROVE  CallSound(l)'
<1>1. ASSUME NEW p \in T PROVE Listed(l, p)'
  <2> DEFINE old == AsRead(p)
  <2>0. l.todo[p] = old /\ p \in Plans
    OBVIOUS
  <2>1. old.status = plan[p].status /\ old.revision = plan[p].revision
        /\ old.operation = plan[p].operation
    BY DEF AsRead
  <2> HIDE DEF old
  <2>2. PlanSound(p) /\ plan[p].revision \in Nat
    BY DEF Sound, Typed, PlansTyped, PlanRows
  <2> QED BY <2>0, <2>1, <2>2 DEF Listed, ReadOf, PlanSound, Begun, Resumable
<1> QED BY <1>1 DEF CallSound

LEMMA LeaveSound ==
  ASSUME Typed, Sound, AllGo, OpsGrow, NEW c \in Calls, Leave(c), call[c].phase # "idle"
  PROVE  CallSound(call[c])'
<1>1. /\ call'[c].phase = call[c].phase /\ call'[c].todo = call[c].todo
      /\ call'[c].step = "next" /\ call'[c].plan = NoPlan
  BY LeaveMoves DEF Typed
<1> SUFFICES ASSUME NEW l, l = call'[c] PROVE CallSound(l)'
  OBVIOUS
<1>2. \A q \in DOMAIN l.todo : Listed(l, q)'
  BY <1>1, TodoStays
<1> QED BY <1>1, <1>2 DEF CallSound

\* The call goes on with its plan, and with the rows it has.
LEMMA GoesOnSound ==
  ASSUME Typed, Sound, AllGo, OpsGrow, NEW c \in Calls, call[c].phase # "idle",
         call[c].step \notin {"next", "reread"},
         call'[c].phase = call[c].phase, call'[c].todo = call[c].todo,
         call'[c].plan = call[c].plan, call'[c].row = call[c].row, call'[c].step # "next",
         call'[c].step \in {"read", "submit", "record"} => call[c].row.operation = None,
         call'[c].step = "record" => call'[c].found \in Ids'
  PROVE  CallSound(call[c])'
<1> SUFFICES ASSUME NEW l, l = call'[c] PROVE CallSound(l)'
  OBVIOUS
<1>1. \A q \in DOMAIN l.todo : Listed(l, q)'
  BY TodoStays
<1>2. Working(l)' /\ l.plan # NoPlan
  BY WorkGoesOn, WorksOn, PlansAre DEF Typed
<1> QED BY <1>1, <1>2 DEF CallSound

LEMMA CallStaysSound ==
  ASSUME Typed, Sound, NEW c \in Calls, CallStep(c)
  PROVE  CallSound(call[c])'
<1>1. AllGo /\ OpsGrow
  BY CallGoes
<1>2. call[c] \in CallStates(Rows) /\ CallSound(call[c])
  BY CallIs DEF Typed, Sound
<1>3. CASE Begin(c)
  <2>1. PICK T \in Page(Running, SettleLimit) :
          Turn(c, "settle", {p \in T : plan[p].operation # None})
    BY <1>3 DEF Begin
  <2> DEFINE U == {p \in T : plan[p].operation # None}
  <2>2. U \in SUBSET Plans /\ \A p \in U : plan[p].status = "running" /\ plan[p].operation # None
    BY DEF Page, Running
  <2>3. /\ call'[c].phase = "settle" /\ call'[c].step = "next" /\ call'[c].plan = NoPlan
        /\ DOMAIN call'[c].todo = U /\ \A p \in U : call'[c].todo[p] = AsRead(p)
    BY <2>1, <2>2, TurnMoves DEF Typed, Phases
  <2> HIDE DEF U
  <2> SUFFICES ASSUME NEW l, l = call'[c] PROVE CallSound(l)'
    OBVIOUS
  <2> QED BY <1>1, <1>3, <2>2, <2>3, TurnSound DEF OpsGrow, Begin
<1>4. CASE Advance(c)
  <2>1. CASE \E T \in Page(Running, Limit) : Turn(c, "resume", {p \in T : Resumable(p)})
    <3>1. PICK T \in Page(Running, Limit) : Turn(c, "resume", {p \in T : Resumable(p)})
      BY <2>1
    <3> DEFINE U == {p \in T : Resumable(p)}
    <3>2. U \in SUBSET Plans /\ \A p \in U : plan[p].status = "running" /\ Resumable(p)
      BY DEF Page, Running
    <3>3. /\ call'[c].phase = "resume" /\ call'[c].step = "next" /\ call'[c].plan = NoPlan
          /\ DOMAIN call'[c].todo = U /\ \A p \in U : call'[c].todo[p] = AsRead(p)
      BY <3>1, <3>2, TurnMoves DEF Typed, Phases
    <3> HIDE DEF U
    <3> SUFFICES ASSUME NEW l, l = call'[c] PROVE CallSound(l)'
      OBVIOUS
    <3> QED BY <1>1, <1>4, <3>2, <3>3, TurnSound DEF OpsGrow, Advance
  <2>2. CASE \E T \in FirstPage(Pending, Limit) : Turn(c, "due", T)
    <3>1. PICK T \in FirstPage(Pending, Limit) : Turn(c, "due", T)
      BY <2>2
    <3>2. T \in SUBSET Plans /\ \A p \in T : plan[p].status = "pending"
      BY DEF FirstPage, Page, Pending
    <3>3. /\ call'[c].phase = "due" /\ call'[c].step = "next" /\ call'[c].plan = NoPlan
          /\ DOMAIN call'[c].todo = T /\ \A p \in T : call'[c].todo[p] = AsRead(p)
      BY <3>1, <3>2, TurnMoves DEF Typed, Phases
    <3> SUFFICES ASSUME NEW l, l = call'[c] PROVE CallSound(l)'
      OBVIOUS
    <3> QED BY <1>1, <1>4, <3>2, <3>3, TurnSound DEF OpsGrow, Advance
  <2>3. CASE call' = [call EXCEPT ![c] = Resting]
    <3>1. call'[c] = Resting
      BY <2>3 DEF Typed, CallsTyped
    <3> QED BY <3>1, RestingIsState DEF CallSound, Resting
  <2> QED BY <1>4, <2>1, <2>2, <2>3 DEF Advance
<1>5. ASSUME NEW p \in Plans, Settle(c, p)
      PROVE  CallSound(call[c])'
  <2>1. call'[c] = [call[c] EXCEPT !.todo = Without(c, p)]
    BY <1>5, SettleMoves DEF Typed
  <2>2. /\ call'[c].todo = Without(c, p) /\ call'[c].phase = call[c].phase
        /\ call'[c].step = "next" /\ call'[c].plan = NoPlan /\ call[c].phase # "idle"
    BY <1>2, <1>5, <2>1 DEF Settle, Here, CallStates, CallSound
  <2> SUFFICES ASSUME NEW l, l = call'[c] PROVE CallSound(l)'
    OBVIOUS
  <2>3. \A q \in DOMAIN l.todo : Listed(l, q)'
    <3> DEFINE rest == Without(c, p)
    <3>1. l.todo = rest
      BY <2>2
    <3>2. DOMAIN rest \subseteq DOMAIN call[c].todo
          /\ \A q \in DOMAIN rest : rest[q] = call[c].todo[q]
      BY WithoutIs DEF Typed
    <3> HIDE DEF rest
    <3> QED BY <1>1, <2>2, <3>1, <3>2, TodoStays
  <2> QED BY <2>2, <2>3 DEF CallSound
<1>6. ASSUME NEW p \in Plans, Claim(c, p)
      PROVE  CallSound(call[c])'
  <2> DEFINE old == call[c].todo[p]
             won == Unchanged(p, old, old.status)
  <2>1. /\ call'[c].todo = Without(c, p) /\ call'[c].phase = call[c].phase /\ call[c].phase # "idle"
        /\ won => call'[c].step = "reread" /\ call'[c].plan = p
        /\ ~won => call'[c].step = "next" /\ call'[c].plan = NoPlan
    BY <1>6, ClaimMoves DEF Typed, Claim, Here
  <2>2. won => plan'[p].status = "running"
    <3> SUFFICES ASSUME won PROVE plan'[p].status = "running"
      OBVIOUS
    <3>1. plan'[p] = [plan[p] EXCEPT !.status = "running", !.holder = WorkerOf[c],
                                     !.lapsed = FALSE, !.revision = plan[p].revision + 1]
      BY <1>6, ClaimWrites DEF Typed, Writes
    <3>2. plan[p] \in PlanRows
      BY DEF Typed, PlansTyped
    <3> QED BY <3>1, <3>2 DEF PlanRows
  <2> HIDE DEF won
  <2> SUFFICES ASSUME NEW l, l = call'[c] PROVE CallSound(l)'
    OBVIOUS
  <2>3. \A q \in DOMAIN l.todo : Listed(l, q)'
    <3> DEFINE rest == Without(c, p)
    <3>1. l.todo = rest
      BY <2>1
    <3>2. DOMAIN rest \subseteq DOMAIN call[c].todo
          /\ \A q \in DOMAIN rest : rest[q] = call[c].todo[q]
      BY WithoutIs DEF Typed
    <3> HIDE DEF rest
    <3> QED BY <1>1, <2>1, <3>1, <3>2, TodoStays
  <2>4. l.plan # NoPlan => Working(l)'
    BY <2>1, <2>2, PlansAre DEF Working, Begun
  <2> QED BY <2>1, <2>3, <2>4, PlansAre DEF CallSound
<1>7. CASE Reread(c)
  <2>1. call[c].step = "reread" /\ call[c].phase # "idle" /\ plan' = plan
    BY <1>7 DEF Reread, Here
  <2>2. call[c].plan \in Plans /\ Working(call[c])
    BY <2>1, WorksOn DEF Typed
  <2>3. CASE /\ HoldsPlan(c)
             /\ call'[c] = [call[c] EXCEPT !.step = "look", !.row = AsRead(call[c].plan)]
    <3>1. /\ call'[c].step = "look" /\ call'[c].row = AsRead(call[c].plan)
          /\ call'[c].plan = call[c].plan /\ call'[c].todo = call[c].todo
          /\ call'[c].phase = call[c].phase
      BY <1>2, <2>3 DEF CallStates
    <3> SUFFICES ASSUME NEW l, l = call'[c] PROVE CallSound(l)'
      OBVIOUS
    <3>2. \A q \in DOMAIN l.todo : Listed(l, q)'
      BY <1>1, <2>1, <3>1, TodoStays
    <3>3. Working(l)' /\ l.plan # NoPlan
      <4>1. plan[l.plan].revision \in Nat /\ l.plan \in Plans /\ plan[l.plan].status \in Begun
        BY <2>2, <3>1 DEF Typed, PlansTyped, PlanRows, Working
      <4> QED BY <2>1, <3>1, <4>1, PlansAre DEF Working, ReadOf, AsRead
    <3> QED BY <2>1, <3>1, <3>2, <3>3 DEF CallSound
  <2> QED BY <1>1, <1>7, <2>1, <2>2, <2>3, RereadMoves, LeaveSound DEF Typed
<1>8. CASE Look(c)
  <2>1. call[c].step = "look" /\ call[c].phase # "idle"
    BY <1>8 DEF Look, Here
  <2>2. Working(call[c])
    BY <2>1, WorksOn DEF Typed
  <2>3. CASE ~Attached(c) /\ GoTo(c, "read")
    <3>1. call'[c] = [call[c] EXCEPT !.step = "read"]
      BY <2>3, GoToMoves DEF Typed, Steps
    <3>2. call[c].row.operation = None
      BY <2>1, <2>2, <2>3 DEF Working, ReadOf, Attached
    <3>3. /\ call'[c].phase = call[c].phase /\ call'[c].todo = call[c].todo
          /\ call'[c].plan = call[c].plan /\ call'[c].row = call[c].row /\ call'[c].step = "read"
      BY <1>2, <3>1 DEF CallStates
    <3> QED BY <1>1, <2>1, <3>2, <3>3, GoesOnSound
  <2> QED BY <1>1, <1>8, <2>1, <2>3, LeaveSound DEF Look
<1>9. CASE Read(c)
  <2>1. call[c].step = "read" /\ call[c].phase # "idle"
    BY <1>9 DEF Read, Here
  <2>2. PICK step \in {"submit", "recover"}, seen \in Editions :
          call'[c] = [call[c] EXCEPT !.step = step, !.seen = seen]
    BY <1>9, ReadMoves DEF Typed
  <2>3. call[c].row.operation = None
    BY <2>1, WorksOn DEF Working, Typed
  <2>4. /\ call'[c].phase = call[c].phase /\ call'[c].todo = call[c].todo
        /\ call'[c].plan = call[c].plan /\ call'[c].row = call[c].row
        /\ call'[c].step \in {"submit", "recover"}
    BY <1>2, <2>2 DEF CallStates
  <2> QED BY <1>1, <2>1, <2>3, <2>4, GoesOnSound
<1>10. CASE SubmitFor(c)
  <2>1. call[c].step = "submit" /\ call[c].phase # "idle"
    BY <1>10 DEF SubmitFor, Here
  <2>2. call[c].row.operation = None /\ call[c].plan \in Plans
    BY <2>1, WorksOn DEF Working, Typed
  <2>3. /\ call'[c].todo = call[c].todo /\ call'[c].phase = call[c].phase
        /\ call'[c].plan = call[c].plan /\ call'[c].row = call[c].row
        /\ \/ call'[c].step = "record" /\ call'[c].found \in Ids'
           \/ call'[c].step = "recover"
    BY <1>10, <2>2, SubmitMoves DEF Typed
  <2> QED BY <1>1, <2>1, <2>2, <2>3, GoesOnSound
<1>11. CASE Record(c)
  <2>1. call[c].step = "record" /\ call[c].phase # "idle"
    BY <1>11 DEF Record, Here
  <2>2. CASE call'[c] = [call[c] EXCEPT !.step = "recover", !.found = None]
    <3>1. /\ call'[c].phase = call[c].phase /\ call'[c].todo = call[c].todo
          /\ call'[c].plan = call[c].plan /\ call'[c].row = call[c].row
          /\ call'[c].step = "recover"
      BY <1>2, <2>2 DEF CallStates
    <3> QED BY <1>1, <2>1, <3>1, GoesOnSound
  <2> QED BY <1>1, <1>11, <2>1, <2>2, RecordMoves, LeaveSound DEF Typed
<1>12. CASE Recover(c)
  BY <1>1, <1>12, LeaveSound DEF Recover, Here
<1>13. CASE CutOff(c)
  <2>1. call'[c] = Resting
    BY <1>13, CutOffMoves DEF Typed
  <2> QED BY <2>1, RestingIsState DEF CallSound, Resting
<1> QED BY <1>3, <1>4, <1>5, <1>6, <1>7, <1>8, <1>9, <1>10, <1>11, <1>12, <1>13
        DEF CallStep, Step

LEMMA StepSound ==
  ASSUME Typed, Sound, [Next]_vars
  PROVE  Sound'
<1>1. AllGo /\ OpsGrow
  BY StepTyped
<1>2. CASE WorldStep
  <2>1. call' = call /\ NoneCreated
    BY <1>2, WorldGoes
  <2>2. \A p \in Plans : PlanSound(p)'
    BY <1>1, <2>1, PlanStaysSound DEF Typed, Sound, AllGo, NoneCreated
  <2>3. \A c \in Calls : CallSound(call[c])'
    BY <1>1, <2>1, OtherStaysSound
  <2> QED BY <2>2, <2>3 DEF Sound
<1>3. ASSUME NEW c \in Calls, CallStep(c)
      PROVE  Sound'
  <2>1. /\ \A d \in Calls \ {c} : call'[d] = call[d]
        /\ \A p \in Plans : p # call[c].plan => CreatedFor(p)' = CreatedFor(p)
    BY <1>3, CallGoes
  <2>2. call[c].plan \in Plans => plan[call[c].plan].status \in Begun
    BY PlansAre DEF Sound, CallSound, Working
  <2>3. \A p \in Plans : PlanSound(p)'
    BY <1>1, <2>1, <2>2, PlanStaysSound DEF Typed, Sound, AllGo
  <2>4. \A d \in Calls : CallSound(call[d])'
    BY <1>1, <1>3, <2>1, OtherStaysSound, CallStaysSound
  <2> QED BY <2>3, <2>4 DEF Sound
<1> QED BY <1>2, <1>3, NextIs

(***************************************************************************)
(* What an operation costs.  A plan may be claimed while it is pending, or *)
(* while it runs without an operation and no call that can still attach    *)
(* one is at work.  Each claim lets one call submit once, and a plan can   *)
(* only be claimed again after a fault.                                    *)
(***************************************************************************)
Ready(c, p) ==
  /\ call[c].plan = p
  /\ \/ call[c].step = "reread" /\ WorkerOf[c] = plan[p].holder
     \/ call[c].step # "reread" /\ call[c].row.revision = plan[p].revision

Claimable(p) ==
  \/ plan[p].status \in {"absent", "pending"}
  \/ /\ plan[p].status = "running" /\ plan[p].operation = None
     /\ plan[p].lapsed \/ \A c \in Calls : ~Ready(c, p)

\* The calls that may submit for a plan, and the submissions there were.
MaySubmit(c, p) == call[c].plan = p /\ call[c].step \in {"reread", "look", "read", "submit"}
Submitters(p) == {c \in Calls : MaySubmit(c, p)}
Spent(p) == Cardinality(CreatedFor(p)) + Cardinality(Submitters(p))

Counted(p) ==
  /\ Spent(p) + (IF Claimable(p) THEN 1 ELSE 0) <= 1 + faults
  /\ plan[p].status = "running" =>
       plan[p].revision + (IF Claimable(p) THEN 1 ELSE 0)
         <= (IF plan[p].operation = None THEN 1 ELSE 2) + faults
  /\ plan[p].revision <= 3 + faults

AllCounted == \A p \in Plans : Counted(p)

\* A step that only uses up what there is, or pays for it by a fault.
Pays(p) ==
  /\ Claimable(p)' => Claimable(p) \/ faults' = faults + 1
  /\ \/ Spent(p)' <= Spent(p)
     \/ Claimable(p) /\ ~Claimable(p)' /\ Spent(p)' <= Spent(p) + 1
  /\ /\ plan'[p].status = "running" /\ plan'[p].operation = None
     /\ plan'[p].revision # plan[p].revision
     => Claimable(p) /\ ~Claimable(p)'

LEMMA SetsFinite ==
  ASSUME OpsTyped, NEW p
  PROVE  /\ IsFiniteSet(CreatedFor(p)) /\ IsFiniteSet(Submitters(p))
         /\ Cardinality(CreatedFor(p)) \in Nat /\ Cardinality(Submitters(p)) \in Nat
         /\ Spent(p) \in Nat
<1>1. IsFiniteSet(CreatedFor(p))
  BY IdsAre, FS_Subset DEF CreatedFor
<1>2. IsFiniteSet(Submitters(p))
  BY ConstantsAre, FS_Subset DEF Submitters
<1>3. Cardinality(CreatedFor(p)) \in Nat /\ Cardinality(Submitters(p)) \in Nat
  BY <1>1, <1>2, FS_CardinalityType
<1> QED BY <1>1, <1>2, <1>3 DEF Spent

\* Submitters, when only c moves.
LEMMA SubmittersCount ==
  ASSUME OpsTyped, NEW c \in Calls, NEW p, \A d \in Calls \ {c} : call'[d] = call[d]
  PROVE  /\ (MaySubmit(c, p)' => MaySubmit(c, p))
              => Cardinality(Submitters(p))' <= Cardinality(Submitters(p))
         /\ MaySubmit(c, p) /\ ~MaySubmit(c, p)'
              => Cardinality(Submitters(p))' = Cardinality(Submitters(p)) - 1
         /\ Cardinality(Submitters(p))' <= Cardinality(Submitters(p)) + 1
         /\ Cardinality(Submitters(p))' \in Nat
<1> DEFINE S == Submitters(p)
<1>1. \A d \in Calls \ {c} : MaySubmit(d, p)' <=> MaySubmit(d, p)
  BY DEF MaySubmit
<1>2. IsFiniteSet(S) /\ Cardinality(S) \in Nat
  BY SetsFinite
<1>3. S = {d \in Calls : MaySubmit(d, p)} /\ S' = {d \in Calls : MaySubmit(d, p)'}
  BY DEF Submitters
<1>4. CASE MaySubmit(c, p) <=> MaySubmit(c, p)'
  <2>1. S' = S
    BY <1>1, <1>3, <1>4
  <2> QED BY <1>2, <1>4, <2>1
<1>5. CASE MaySubmit(c, p) /\ ~MaySubmit(c, p)'
  <2>1. S' = S \ {c} /\ c \in S
    BY <1>1, <1>3, <1>5
  <2>2. Cardinality(S \ {c}) = Cardinality(S) - 1 /\ Cardinality(S \ {c}) \in Nat
    BY <1>2, <2>1, FS_RemoveElement, FS_CardinalityType
  <2> QED BY <1>2, <1>5, <2>1, <2>2
<1>6. CASE ~MaySubmit(c, p) /\ MaySubmit(c, p)'
  <2>1. S' = S \cup {c} /\ c \notin S
    BY <1>1, <1>3, <1>6
  <2>2. Cardinality(S \cup {c}) = Cardinality(S) + 1
    BY <1>2, <2>1, FS_AddElement
  <2> QED BY <1>2, <1>6, <2>1, <2>2
<1> QED BY <1>4, <1>5, <1>6

LEMMA CountedStays ==
  ASSUME Typed, Typed', Sound, NEW p \in Plans, Goes(p), Pays(p), Counted(p),
         faults' = faults \/ faults' = faults + 1
  PROVE  Counted(p)'
<1> DEFINE V == IF Claimable(p) THEN 1 ELSE 0
           W == IF Claimable(p)' THEN 1 ELSE 0
<1>1. Spent(p) \in Nat /\ faults \in Nat /\ plan[p] \in PlanRows
  BY SetsFinite, ConstantsAre DEF Typed, TimeTyped, PlansTyped, ContentTyped
<1>2. Spent(p)' \in Nat /\ faults' \in Nat
  <2>1. Typed => Spent(p) \in Nat
    BY SetsFinite DEF Typed
  <2>2. (Typed => Spent(p) \in Nat)'
    BY SetsFinite, PTL DEF Typed
  <2> QED BY <1>1, <2>2
<1>3. Spent(p)' + W <= 1 + faults'
  BY <1>1, <1>2 DEF Pays, Counted
<1>4. plan[p].revision \in Nat /\ PlanSound(p)
  BY <1>1 DEF PlanRows, Sound
<1>5. plan[p].status = "pending" => plan[p].revision = 0
  BY <1>4 DEF PlanSound
<1>6. plan'[p].revision = plan[p].revision \/ plan'[p].revision = plan[p].revision + 1
  BY <1>4, GoesKinds DEF Typed
<1>7. plan'[p].status = "running" /\ plan'[p].operation = None =>
        \/ /\ plan'[p].revision = plan[p].revision
           /\ plan[p].status = "running" /\ plan[p].operation = None
        \/ /\ plan'[p].revision = plan[p].revision + 1
           /\ plan[p].status = "pending" \/ (plan[p].status = "running" /\ plan[p].operation = None)
  BY <1>1 DEF Goes, PlanRows, Ended
<1>8. plan'[p].status = "running" /\ plan'[p].operation # None =>
        /\ plan[p].status = "running"
        /\ \/ plan'[p].revision = plan[p].revision /\ plan[p].operation # None
           \/ plan'[p].revision = plan[p].revision + 1 /\ plan[p].operation = None
  BY <1>1 DEF Goes, PlanRows, Ended
<1>9. plan'[p].status = "running" =>
        plan'[p].revision + W <= (IF plan'[p].operation = None THEN 1 ELSE 2) + faults'
  <2>1. CASE plan'[p].status = "running" /\ plan'[p].operation = None
    <3>1. CASE plan'[p].revision = plan[p].revision
      BY <1>1, <1>2, <1>4, <1>7, <2>1, <3>1 DEF Pays, Counted
    <3>2. CASE plan'[p].revision # plan[p].revision
      <4>1. V = 1 /\ W = 0
        BY <2>1, <3>2 DEF Pays
      <4>2. plan[p].revision + V <= 1 + faults
        BY <1>1, <1>4, <1>5, <1>7, <2>1, <3>2, <4>1 DEF Counted
      <4> QED BY <1>1, <1>2, <1>4, <1>6, <2>1, <3>2, <4>1, <4>2
    <3> QED BY <3>1, <3>2
  <2>2. CASE plan'[p].status = "running" /\ plan'[p].operation # None
    <3>1. W = 0
      BY <2>2 DEF Claimable
    <3>2. plan[p].revision <= (IF plan[p].operation = None THEN 1 ELSE 2) + faults
      BY <1>1, <1>4, <1>8, <2>2 DEF Counted
    <3> QED BY <1>1, <1>2, <1>4, <1>8, <2>2, <3>1, <3>2
  <2> QED BY <2>1, <2>2
<1>10. plan'[p].revision <= 3 + faults'
  <2>1. CASE plan'[p].revision = plan[p].revision
    BY <1>1, <1>2, <1>4, <2>1 DEF Counted
  <2>2. CASE plan'[p].revision # plan[p].revision
    <3>1. plan[p].status \in {"pending", "running"}
      BY <1>1, <2>2 DEF Goes, PlanRows
    <3>2. plan[p].revision <= 2 + faults
      BY <1>1, <1>4, <1>5, <3>1 DEF Counted
    <3> QED BY <1>1, <1>2, <1>4, <1>6, <2>2, <3>2
  <2> QED BY <2>1, <2>2
<1> QED BY <1>3, <1>9, <1>10 DEF Counted

(***************************************************************************)
(* Every step pays.                                                        *)
(***************************************************************************)
\* A plan that is not written becomes claimable only if a call that could still attach an
\* operation to it gives up.
LEMMA QuietPays ==
  ASSUME Typed, NEW c \in Calls, NEW p \in Plans, plan'[p] = plan[p],
         CreatedFor(p)' = CreatedFor(p), \A d \in Calls \ {c} : call'[d] = call[d],
         \/ Ready(c, p) => Ready(c, p)'
         \/ plan[p].status = "running" => plan[p].operation # None
         \/ faults' = faults + 1,
         MaySubmit(c, p)' => MaySubmit(c, p)
  PROVE  Pays(p)
<1>1. \A d \in Calls \ {c} : Ready(d, p)' <=> Ready(d, p)
  BY DEF Ready
<1>2. Claimable(p)' => Claimable(p) \/ faults' = faults + 1
  BY <1>1 DEF Claimable
<1>3. Spent(p)' <= Spent(p)
  <2>1. /\ Cardinality(Submitters(p))' <= Cardinality(Submitters(p))
        /\ Cardinality(Submitters(p))' \in Nat
        /\ Cardinality(Submitters(p)) \in Nat /\ Cardinality(CreatedFor(p)) \in Nat
    BY SubmittersCount, SetsFinite DEF Typed
  <2> QED BY <2>1 DEF Spent
<1> QED BY <1>2, <1>3 DEF Pays

\* A plan the call that moves has nothing to do with.
LEMMA AsidePays ==
  ASSUME Typed, NEW c \in Calls, NEW p \in Plans, plan'[p] = plan[p],
         CreatedFor(p)' = CreatedFor(p),
         \A d \in Calls \ {c} : call'[d] = call[d], call[c].plan # p, call'[c].plan # p
  PROVE  Pays(p)
<1>1. ~Ready(c, p) /\ ~MaySubmit(c, p)'
  BY DEF Ready, MaySubmit
<1> QED BY <1>1, QuietPays

\* A plan that ends, or gets its operation, is not claimed any more.
LEMMA EndPays ==
  ASSUME Typed, NEW c \in Calls, NEW p \in Plans, CreatedFor(p)' = CreatedFor(p),
         \A d \in Calls \ {c} : call'[d] = call[d], MaySubmit(c, p)' => MaySubmit(c, p),
         plan'[p].status \notin {"absent", "pending"},
         plan'[p].status = "running" => plan'[p].operation # None
  PROVE  Pays(p)
<1>1. ~Claimable(p)'
  BY DEF Claimable
<1>2. Spent(p)' <= Spent(p)
  <2>1. /\ Cardinality(Submitters(p))' <= Cardinality(Submitters(p))
        /\ Cardinality(Submitters(p))' \in Nat
        /\ Cardinality(Submitters(p)) \in Nat /\ Cardinality(CreatedFor(p)) \in Nat
    BY SubmittersCount, SetsFinite DEF Typed
  <2> QED BY <2>1 DEF Spent
<1> QED BY <1>1, <1>2 DEF Pays

LEMMA WorldPays ==
  ASSUME Typed, Sound, WorldStep, NEW p \in Plans
  PROVE  Pays(p)
<1>1. call' = call /\ CreatedFor(p)' = CreatedFor(p)
  BY WorldGoes DEF NoneCreated
<1>2. Spent(p)' = Spent(p) /\ Spent(p) \in Nat
  BY <1>1, SetsFinite DEF Spent, Submitters, MaySubmit, Typed
<1>3. \A d \in Calls : (Ready(d, p) => call[d].plan = p)
  BY DEF Ready
<1>4. plan[p] \in PlanRows
  BY DEF Typed, PlansTyped
<1>5. CASE plan'[p] = plan[p]
  <2>1. Claimable(p)' => Claimable(p)
    BY <1>1, <1>5 DEF Claimable, Ready
  <2> QED BY <1>2, <1>5, <2>1 DEF Pays
<1>6. CASE /\ plan[p].status = "absent"
           /\ plan'[p] = [plan[p] EXCEPT !.status = "pending"]
  <2>1. Claimable(p) /\ plan'[p].status = "pending"
    BY <1>4, <1>6 DEF Claimable, PlanRows
  <2> QED BY <1>2, <2>1 DEF Pays
<1>7. ASSUME Cancel(p) PROVE Pays(p)
  <2>1. plan'[p] = [plan[p] EXCEPT !.status = "cancelled", !.revision = plan[p].revision + 1]
    BY <1>7, CancelWrites DEF Writes, Typed
  <2>2. plan'[p].status = "cancelled"
    BY <1>4, <2>1 DEF PlanRows
  <2>3. ~Claimable(p)'
    BY <2>2 DEF Claimable
  <2> QED BY <1>2, <2>2, <2>3 DEF Pays
<1>8. ASSUME Lapse(p) PROVE Pays(p)
  <2>1. /\ plan[p].status = "running" /\ plan[p].operation = None
        /\ plan'[p] = [plan[p] EXCEPT !.lapsed = TRUE]
        /\ (~Held(p)) \/ faults' = faults + 1
    BY <1>8, LapseWrites DEF Writes, Typed
  <2>2. ~Held(p) => Claimable(p)
    BY <1>3, <2>1 DEF Claimable, Held
  <2>3. plan'[p].revision = plan[p].revision
    BY <1>4, <2>1 DEF PlanRows
  <2> QED BY <1>2, <2>1, <2>2, <2>3 DEF Pays
<1>9. \/ plan'[p] = plan[p] \/ Cancel(p) \/ Lapse(p)
      \/ /\ plan[p].status = "absent"
         /\ plan'[p] = [plan[p] EXCEPT !.status = "pending"]
  <2>1. CASE \E r \in Requests : Create(r)
    BY <2>1, CreateWrites DEF Typed
  <2>2. ASSUME NEW q \in Plans, Cancel(q) \/ Lapse(q), q # p
        PROVE  plan'[p] = plan[p]
    BY <2>2, CancelWrites, LapseWrites DEF Writes, Typed
  <2>3. CASE \E q \in Plans : Cancel(q) \/ Lapse(q)
    BY <2>2, <2>3
  <2>4. CASE (\E s \in Sites : PublishNow(s)) \/ Tick \/ StartEditing \/ UNCHANGED vars
    BY <2>4 DEF PublishNow, Tick, StartEditing, vars
  <2>5. CASE \E i \in OperationIds : Compile(i) \/ Register(i) \/ FailOperation(i)
    BY <2>5 DEF Compile, Register, FailOperation
  <2> QED BY <2>1, <2>3, <2>4, <2>5 DEF WorldStep
<1> QED BY <1>5, <1>6, <1>7, <1>8, <1>9

(***************************************************************************)
(* Each step of a call pays.                                               *)
(***************************************************************************)
CallPays(c) == \A p \in Plans : Pays(p)

\* The call does not work on a plan before or after, and writes none.
LEMMA LoopPays ==
  ASSUME Typed, Sound, NEW c \in Calls, CallStep(c), plan' = plan, op' = op,
         call[c].step = "next", call'[c].plan = NoPlan
  PROVE  CallPays(c)
<1>1. call[c].plan = NoPlan
  BY DEF Sound, CallSound
<1>2. \A p \in Plans : CreatedFor(p)' = CreatedFor(p)
  BY SameOps DEF NoneCreated, Typed
<1>3. \A d \in Calls \ {c} : call'[d] = call[d]
  BY CallGoes
<1> QED BY <1>1, <1>2, <1>3, PlansAre, AsidePays DEF CallPays

LEMMA SettlePays ==
  ASSUME Typed, Sound, NEW c \in Calls, NEW p \in Plans, Settle(c, p)
  PROVE  CallPays(c)
<1> DEFINE old == call[c].todo[p]
<1>1. call[c].plan = NoPlan /\ op' = op /\ p \in DOMAIN call[c].todo /\ call[c].phase = "settle"
  BY DEF Settle, Here, Sound, CallSound
<1>2. \A q \in Plans : CreatedFor(q)' = CreatedFor(q)
  BY <1>1, SameOps DEF NoneCreated, Typed
<1>3. (\A d \in Calls \ {c} : call'[d] = call[d]) /\ call'[c].plan = NoPlan
  <2>1. call[c] \in CallStates(Rows)
    BY CallIs DEF Typed
  <2> QED BY <1>1, <2>1, SettleMoves DEF Typed, CallStates
<1>4. \A q \in Plans : plan'[q] = plan[q] => Pays(q)
  BY <1>1, <1>2, <1>3, PlansAre, AsidePays
<1>5. CASE /\ Unchanged(p, old, "running") /\ Ended(old.operation)
           /\ Writes(p, [plan[p] EXCEPT !.status = op[old.operation].state,
                                        !.revision = plan[p].revision + 1])
  <2>1. plan'[p].status \in {"succeeded", "failed"}
    BY <1>5 DEF Writes, Ended, Typed, PlansTyped, PlanRows
  <2>2. ~MaySubmit(c, p)'
    BY <1>3, PlansAre DEF MaySubmit
  <2>3. Pays(p)
    BY <1>2, <1>3, <2>1, <2>2, EndPays
  <2> QED BY <1>4, <1>5, <2>3 DEF Writes, CallPays
<1> QED BY <1>4, <1>5, SettleWrites DEF Typed, CallPays

\* A claim of a plan that is due, or whose claim has lapsed.
LEMMA ClaimPays ==
  ASSUME Typed, Sound, NEW c \in Calls, NEW p \in Plans, Claim(c, p)
  PROVE  CallPays(c)
<1> DEFINE old == call[c].todo[p]
           won == Unchanged(p, old, old.status)
<1>1. call[c].plan = NoPlan /\ op' = op /\ p \in DOMAIN call[c].todo
      /\ call[c].phase \in {"resume", "due"}
  BY DEF Claim, Here, Sound, CallSound
<1>2. \A q \in Plans : CreatedFor(q)' = CreatedFor(q)
  BY <1>1, SameOps DEF NoneCreated, Typed
<1>3. /\ \A d \in Calls \ {c} : call'[d] = call[d]
      /\ won => call'[c].step = "reread" /\ call'[c].plan = p
      /\ ~won => call'[c].plan = NoPlan
  BY ClaimMoves DEF Typed
<1>4. \A q \in Plans : plan'[q] = plan[q] /\ (q # p \/ ~won) => Pays(q)
  BY <1>1, <1>2, <1>3, PlansAre, AsidePays
<1>5. CASE ~won
  BY <1>4, <1>5, ClaimWrites DEF Typed, CallPays, Writes
<1>6. CASE won
  <2>1. /\ \A q \in Plans \ {p} : plan'[q] = plan[q]
        /\ plan'[p] = [plan[p] EXCEPT !.status = "running", !.holder = WorkerOf[c],
                                      !.lapsed = FALSE, !.revision = plan[p].revision + 1]
    BY <1>6, ClaimWrites DEF Typed, Writes
  <2>2. Claimable(p)
    <3>1. Listed(call[c], p)
      BY <1>1, ListedIs DEF Typed
    <3> QED BY <1>1, <1>6, <3>1 DEF Listed, ReadOf, Unchanged, Claimable
  <2>3. plan'[p].holder = WorkerOf[c] /\ ~plan'[p].lapsed /\ plan'[p].status = "running"
    BY <2>1 DEF Typed, PlansTyped, PlanRows
  <2>4. ~Claimable(p)'
    BY <1>3, <1>6, <2>3 DEF Claimable, Ready
  <2>5. Spent(p)' <= Spent(p) + 1
    <3>1. /\ Cardinality(Submitters(p))' <= Cardinality(Submitters(p)) + 1
          /\ Cardinality(Submitters(p))' \in Nat
          /\ Cardinality(Submitters(p)) \in Nat /\ Cardinality(CreatedFor(p)) \in Nat
      BY <1>3, SubmittersCount, SetsFinite DEF Typed
    <3> QED BY <1>2, <3>1 DEF Spent
  <2>6. Pays(p)
    BY <2>2, <2>4, <2>5 DEF Pays
  <2> QED BY <1>4, <2>1, <2>6 DEF CallPays
<1> QED BY <1>5, <1>6

\* A call that works on p, and writes no other plan.
LEMMA WorkPays ==
  ASSUME Typed, Sound, NEW c \in Calls, NEW p \in Plans, CallStep(c), op' = op,
         call[c].plan = p, call'[c].plan \in {NoPlan, p},
         MaySubmit(c, p)' => MaySubmit(c, p),
         \A q \in Plans \ {p} : plan'[q] = plan[q],
         \/ /\ plan'[p] = plan[p]
            /\ \/ Ready(c, p) => Ready(c, p)'
               \/ plan[p].status = "running" => plan[p].operation # None
               \/ faults' = faults + 1
         \/ /\ plan'[p].status \notin {"absent", "pending"}
            /\ plan'[p].status = "running" => plan'[p].operation # None
  PROVE  CallPays(c)
<1>1. \A q \in Plans : CreatedFor(q)' = CreatedFor(q)
  BY SameOps DEF NoneCreated, Typed
<1>2. \A d \in Calls \ {c} : call'[d] = call[d]
  BY CallGoes
<1>3. ASSUME NEW q \in Plans, q # p PROVE Pays(q)
  BY <1>1, <1>2, <1>3, PlansAre, AsidePays
<1>4. Pays(p)
  <2>1. CASE /\ plan'[p] = plan[p]
             /\ \/ Ready(c, p) => Ready(c, p)'
                \/ plan[p].status = "running" => plan[p].operation # None
                \/ faults' = faults + 1
    BY <1>1, <1>2, <2>1, QuietPays
  <2>2. CASE /\ plan'[p].status \notin {"absent", "pending"}
             /\ plan'[p].status = "running" => plan'[p].operation # None
    BY <1>1, <1>2, <2>2, EndPays
  <2> QED BY <2>1, <2>2
<1> QED BY <1>3, <1>4 DEF CallPays

\* An update that fails was not of a call that could attach an operation.
LEMMA LateIsNotReady ==
  ASSUME NEW c \in Calls, NEW p \in Plans, call[c].step # "reread", Ready(c, p),
         ~Unchanged(p, call[c].row, "running")
  PROVE  plan[p].status # "running"
  BY DEF Ready, Unchanged

LEMMA FailPays ==
  ASSUME Typed, Sound, NEW c \in Calls, CallStep(c), op' = op,
         call[c].step \notin {"next", "reread"}, FailPlan(c), call'[c].plan = NoPlan
  PROVE  CallPays(c)
<1> SUFFICES ASSUME NEW p, p = call[c].plan PROVE CallPays(c)
  OBVIOUS
<1>1. p \in Plans /\ ~MaySubmit(c, p)'
  BY WorksOn, PlansAre DEF Typed, MaySubmit
<1>2. CASE ~Unchanged(p, call[c].row, "running") /\ plan' = plan
  BY <1>1, <1>2, LateIsNotReady, WorkPays
<1>3. CASE Writes(p, [plan[p] EXCEPT !.status = "failed", !.revision = plan[p].revision + 1])
  <2>1. plan'[p].status = "failed" /\ \A q \in Plans \ {p} : plan'[q] = plan[q]
    BY <1>1, <1>3 DEF Writes, Typed, PlansTyped, PlanRows
  <2> QED BY <1>1, <2>1, WorkPays
<1> QED BY <1>1, <1>2, <1>3, FailWrites DEF Typed

LEMMA RecordPays ==
  ASSUME Typed, Sound, NEW c \in Calls, Record(c)
  PROVE  CallPays(c)
<1> SUFFICES ASSUME NEW p, p = call[c].plan PROVE CallPays(c)
  OBVIOUS
<1>1. /\ call[c].step = "record" /\ op' = op /\ CallStep(c)
      /\ Attach(c) \/ plan' = plan
  BY DEF Record, Here, CallStep, Step
<1>2. p \in Plans /\ call[c].found \in Ids /\ call[c].found # None
  BY <1>1, WorksOn, IdsAre DEF Typed, Working
<1>3. call[c] \in CallStates(Rows)
  BY CallIs DEF Typed
<1>4. call'[c].plan \in {NoPlan, p} /\ ~MaySubmit(c, p)'
  <2>1. CASE Leave(c)
    BY <1>2, <2>1, LeaveMoves, PlansAre DEF Typed, MaySubmit
  <2>2. CASE call'[c] = [call[c] EXCEPT !.step = "recover", !.found = None]
    BY <1>3, <2>2 DEF MaySubmit, CallStates
  <2> QED BY <2>1, <2>2, RecordMoves DEF Typed
<1>5. CASE plan' = plan /\ faults' = faults + 1
  BY <1>1, <1>2, <1>4, <1>5, WorkPays
<1>6. CASE ~Unchanged(p, call[c].row, "running") /\ plan' = plan
  BY <1>1, <1>2, <1>4, <1>6, LateIsNotReady, WorkPays
<1>7. CASE /\ Unchanged(p, call[c].row, "running")
           /\ Writes(p, [plan[p] EXCEPT !.operation = call[c].found,
                                        !.revision = plan[p].revision + 1])
  <2>1. /\ plan'[p].status = "running" /\ plan'[p].operation # None
        /\ \A q \in Plans \ {p} : plan'[q] = plan[q]
    BY <1>2, <1>7 DEF Writes, Typed, PlansTyped, PlanRows, Unchanged
  <2> QED BY <1>1, <1>2, <1>4, <2>1, WorkPays
<1>8. Attach(c) \/ (plan' = plan /\ faults' = faults + 1)
  BY DEF Record
<1> QED BY <1>1, <1>2, <1>5, <1>6, <1>7, <1>8, AttachWrites DEF Typed

\* The submission: what is created is made up for by the call that has submitted.
LEMMA SubmitPays ==
  ASSUME Typed, Sound, NEW c \in Calls, SubmitFor(c)
  PROVE  CallPays(c)
<1> SUFFICES ASSUME NEW p, p = call[c].plan PROVE CallPays(c)
  OBVIOUS
<1>1. call[c].step = "submit" /\ plan' = plan /\ CallStep(c)
  BY DEF SubmitFor, Here, CallStep, Step
<1>2. p \in Plans /\ call[c] \in CallStates(Rows)
  BY <1>1, WorksOn, CallIs DEF Typed
<1>3. /\ \A d \in Calls \ {c} : call'[d] = call[d]
      /\ call'[c].plan = p /\ call'[c].row = call[c].row /\ call'[c].step \in {"record", "recover"}
      /\ Submit(KeyOf(call[c].seen, SiteOf(p)), p) \/ op' = op
  BY <1>2, SubmitMoves DEF Typed
<1>4. KeyOf(call[c].seen, SiteOf(p)) \in Keys
  BY <1>2, KeyOfIs, PlansAre DEF CallStates, Typed
<1>5. /\ \A q \in Plans : q # p => CreatedFor(q)' = CreatedFor(q)
      /\ CreatedFor(p)' \subseteq CreatedFor(p) \cup {Len(op) + 1}
  BY <1>2, <1>3, <1>4, Submits, SameOps DEF Typed, NoneCreated
<1>6. ASSUME NEW q \in Plans, q # p PROVE Pays(q)
  BY <1>1, <1>3, <1>5, <1>6, AsidePays
<1>7. Pays(p)
  <2>1. Ready(c, p) => Ready(c, p)'
    BY <1>1, <1>3 DEF Ready
  <2>2. Claimable(p)' => Claimable(p)
    <3>1. \A d \in Calls \ {c} : Ready(d, p)' <=> Ready(d, p)
      BY <1>1, <1>3 DEF Ready
    <3> QED BY <1>1, <2>1, <3>1 DEF Claimable
  <2>3. MaySubmit(c, p) /\ ~MaySubmit(c, p)'
    BY <1>1, <1>3 DEF MaySubmit
  <2>4. /\ Cardinality(Submitters(p))' = Cardinality(Submitters(p)) - 1
        /\ Cardinality(Submitters(p)) \in Nat /\ Cardinality(CreatedFor(p)) \in Nat
        /\ IsFiniteSet(CreatedFor(p))
    BY <1>3, <2>3, SubmittersCount, SetsFinite DEF Typed
  <2>5. Cardinality(CreatedFor(p)') <= Cardinality(CreatedFor(p)) + 1
        /\ Cardinality(CreatedFor(p)') \in Nat
    <3> DEFINE S == CreatedFor(p)
               T == CreatedFor(p)'
               U == S \cup {Len(op) + 1}
    <3>1. IsFiniteSet(U) /\ Cardinality(U) <= Cardinality(S) + 1 /\ Cardinality(U) \in Nat
      <4> DEFINE n == Len(op) + 1
      <4>1. IsFiniteSet(S) /\ Cardinality(S) \in Nat
        BY <2>4
      <4> HIDE DEF S, n
      <4>2. /\ IsFiniteSet(S \cup {n})
            /\ Cardinality(S \cup {n}) \in {Cardinality(S), Cardinality(S) + 1}
        BY <4>1, FS_AddElement
      <4>3. Cardinality(S \cup {n}) \in Nat /\ Cardinality(S \cup {n}) <= Cardinality(S) + 1
        BY <4>1, <4>2
      <4> QED BY <4>2, <4>3 DEF n
    <3>2. T \subseteq U
      BY <1>5
    <3> HIDE DEF S, T, U
    <3>3. IsFiniteSet(T) /\ Cardinality(T) <= Cardinality(U) /\ Cardinality(T) \in Nat
      BY <3>1, <3>2, FS_Subset, FS_CardinalityType
    <3>4. Cardinality(S) \in Nat
      BY <2>4 DEF S
    <3> QED BY <3>1, <3>3, <3>4 DEF S, T
  <2>6. Spent(p)' <= Spent(p)
    BY <2>4, <2>5 DEF Spent
  <2> QED BY <1>1, <2>2, <2>6 DEF Pays
<1> QED BY <1>6, <1>7 DEF CallPays

LEMMA RereadPays ==
  ASSUME Typed, Sound, NEW c \in Calls, Reread(c)
  PROVE  CallPays(c)
<1> SUFFICES ASSUME NEW p, p = call[c].plan PROVE CallPays(c)
  OBVIOUS
<1>1. call[c].step = "reread" /\ plan' = plan /\ op' = op /\ CallStep(c)
  BY DEF Reread, Here, CallStep, Step
<1>2. p \in Plans /\ call[c] \in CallStates(Rows)
  BY <1>1, WorksOn, CallIs DEF Typed
<1>3. MaySubmit(c, p)
  BY <1>1 DEF MaySubmit
<1>4. CASE ~HoldsPlan(c) /\ Leave(c)
  <2>1. ~Ready(c, p) /\ call'[c].plan = NoPlan
    BY <1>1, <1>4, LeaveMoves DEF HoldsPlan, Ready, Typed
  <2> QED BY <1>1, <1>2, <1>3, <2>1, WorkPays
<1>5. CASE call'[c] = [call[c] EXCEPT !.step = "look", !.row = AsRead(p)]
  <2>1. call'[c].plan = p /\ call'[c].step = "look" /\ call'[c].row.revision = plan[p].revision
    BY <1>2, <1>5 DEF CallStates, AsRead
  <2>2. Ready(c, p)'
    BY <1>1, <2>1 DEF Ready
  <2> QED BY <1>1, <1>2, <1>3, <2>1, <2>2, WorkPays
<1> QED BY <1>2, <1>4, <1>5, RereadMoves DEF Typed

\* The call leaves a plan that has its operation.
LEMMA LeavePays ==
  ASSUME Typed, Sound, NEW c \in Calls, CallStep(c), op' = op, plan' = plan,
         call[c].step # "next", Attached(c), Leave(c)
  PROVE  CallPays(c)
<1> SUFFICES ASSUME NEW p, p = call[c].plan PROVE CallPays(c)
  OBVIOUS
<1>1. p \in Plans /\ plan[p].operation # None
  BY WorksOn DEF Typed, Attached
<1>2. call'[c].plan = NoPlan
  BY LeaveMoves DEF Typed
<1>3. ~MaySubmit(c, p)'
  BY <1>1, <1>2, PlansAre DEF MaySubmit
<1> QED BY <1>1, <1>2, <1>3, WorkPays

\* The call goes on to a later step with the same plan and row.
LEMMA GoOnPays ==
  ASSUME Typed, Sound, NEW c \in Calls, CallStep(c), op' = op, plan' = plan,
         call[c].step \in {"look", "read"}, call'[c].step # "reread",
         call'[c].plan = call[c].plan, call'[c].row = call[c].row
  PROVE  CallPays(c)
<1> SUFFICES ASSUME NEW p, p = call[c].plan PROVE CallPays(c)
  OBVIOUS
<1>1. p \in Plans
  BY WorksOn DEF Typed
<1>2. MaySubmit(c, p) /\ (Ready(c, p) => Ready(c, p)')
  BY DEF MaySubmit, Ready
<1> QED BY <1>1, <1>2, WorkPays

LEMMA LookPays ==
  ASSUME Typed, Sound, NEW c \in Calls, Look(c)
  PROVE  CallPays(c)
<1>1. call[c].step = "look" /\ op' = op /\ CallStep(c)
  BY DEF Look, Here, CallStep, Step
<1>2. CASE Attached(c) /\ Leave(c) /\ plan' = plan
  BY <1>1, <1>2, LeavePays
<1>3. CASE GoTo(c, "read") /\ plan' = plan
  <2>1. call'[c] = [call[c] EXCEPT !.step = "read"] /\ call[c] \in CallStates(Rows)
    BY <1>3, GoToMoves, CallIs DEF Typed, Steps
  <2>2. call'[c].step = "read" /\ call'[c].plan = call[c].plan /\ call'[c].row = call[c].row
    BY <2>1 DEF CallStates
  <2> QED BY <1>1, <1>3, <2>2, GoOnPays
<1>4. CASE FailPlan(c) /\ Leave(c)
  BY <1>1, <1>4, LeaveMoves, FailPays DEF Typed
<1> QED BY <1>2, <1>3, <1>4 DEF Look

LEMMA CallStepPays ==
  ASSUME Typed, Sound, NEW c \in Calls, CallStep(c)
  PROVE  CallPays(c)
<1>1. call[c] \in CallStates(Rows) /\ CallSound(call[c])
  BY CallIs DEF Typed, Sound
<1>2. CASE Begin(c)
  <2>1. call[c].step = "next" /\ plan' = plan /\ op' = op
    BY <1>1, <1>2 DEF Begin, CallSound
  <2>2. call'[c].plan = NoPlan
    <3>1. \A T : T \in Page(Running, SettleLimit) =>
            {p \in T : plan[p].operation # None} \in SUBSET Plans
      BY DEF Page, Running
    <3> QED BY <1>2, <3>1, TurnMoves DEF Typed, Begin, Phases
  <2> QED BY <2>1, <2>2, LoopPays
<1>3. CASE Advance(c)
  <2>1. call[c].step = "next" /\ plan' = plan /\ op' = op
    BY <1>3 DEF Advance, Here
  <2>2. call'[c].plan = NoPlan
    <3>1. \A T : T \in Page(Running, Limit) => {p \in T : Resumable(p)} \in SUBSET Plans
      BY DEF Page, Running
    <3>2. \A T : T \in FirstPage(Pending, Limit) => T \in SUBSET Plans
      BY DEF Page, FirstPage, Pending
    <3>3. CASE \E T \in Page(Running, Limit) : Turn(c, "resume", {p \in T : Resumable(p)})
      BY <3>1, <3>3, TurnMoves DEF Typed, Phases
    <3>4. CASE \E T \in FirstPage(Pending, Limit) : Turn(c, "due", T)
      BY <3>2, <3>4, TurnMoves DEF Typed, Phases
    <3>5. CASE call' = [call EXCEPT ![c] = Resting]
      BY <3>5 DEF Typed, CallsTyped, Resting
    <3> QED BY <1>3, <3>3, <3>4, <3>5 DEF Advance
  <2> QED BY <2>1, <2>2, LoopPays
<1>4. CASE \E p \in Plans : Settle(c, p) \/ Claim(c, p)
  BY <1>4, SettlePays, ClaimPays
<1>5. CASE Read(c)
  <2>1. call[c].step = "read" /\ plan' = plan /\ op' = op
    BY <1>5 DEF Read, Here
  <2>2. PICK step \in {"submit", "recover"}, seen \in Editions :
          call'[c] = [call[c] EXCEPT !.step = step, !.seen = seen]
    BY <1>5, ReadMoves DEF Typed
  <2>3. /\ call'[c].step \in {"submit", "recover"}
        /\ call'[c].plan = call[c].plan /\ call'[c].row = call[c].row
    BY <1>1, <2>2 DEF CallStates
  <2> QED BY <2>1, <2>3, GoOnPays
<1>6. CASE Recover(c)
  <2>1. call[c].step = "recover" /\ op' = op /\ Leave(c)
    BY <1>6 DEF Recover, Here
  <2>2. CASE Attached(c) /\ plan' = plan
    BY <2>1, <2>2, LeavePays
  <2>3. CASE FailPlan(c)
    BY <2>1, <2>3, LeaveMoves, FailPays DEF Typed
  <2> QED BY <1>6, <2>2, <2>3 DEF Recover
<1>7. CASE CutOff(c)
  <2>1. plan' = plan /\ op' = op /\ faults' = faults + 1 /\ call'[c] = Resting
    BY <1>7, CutOffMoves DEF CutOff, Typed
  <2>2. call'[c].plan = NoPlan
    BY <2>1 DEF Resting
  <2>3. CASE call[c].plan = NoPlan
    BY <1>1, <2>1, <2>2, <2>3, LoopPays DEF CallSound
  <2>4. CASE call[c].plan # NoPlan
    <3> SUFFICES ASSUME NEW p, p = call[c].plan PROVE CallPays(c)
      OBVIOUS
    <3>1. p \in Plans
      BY <1>1, <2>4 DEF CallStates
    <3>2. ~MaySubmit(c, p)'
      BY <2>2, <3>1, PlansAre DEF MaySubmit
    <3> QED BY <2>1, <2>2, <3>1, <3>2, WorkPays
  <2> QED BY <2>3, <2>4
<1> QED BY <1>2, <1>3, <1>4, <1>5, <1>6, <1>7, RereadPays, LookPays, SubmitPays, RecordPays
        DEF CallStep, Step

(***************************************************************************)
(* The invariant.                                                          *)
(***************************************************************************)
LEMMA InitCounted == Init => AllCounted
<1> SUFFICES ASSUME Init, NEW p \in Plans PROVE Counted(p)
  BY DEF AllCounted
<1>1. CreatedFor(p) = {} /\ Submitters(p) = {}
  BY PlansAre DEF Init, CreatedFor, Ids, Submitters, MaySubmit, Resting
<1>2. Spent(p) = 0
  BY <1>1, FS_EmptySet DEF Spent
<1>3. plan[p].status = "absent" /\ plan[p].revision = 0 /\ faults = 0
  BY DEF Init, Unplanned
<1> QED BY <1>2, <1>3 DEF Counted

LEMMA FaultsGrow ==
  ASSUME Typed, Sound, [Next]_vars
  PROVE  faults' = faults \/ faults' = faults + 1
<1>1. CASE WorldStep
  BY <1>1, WorldGoes, LapseWrites DEF Typed
<1>2. ASSUME NEW c \in Calls, CallStep(c)
      PROVE  faults' = faults \/ faults' = faults + 1
  BY <1>2 DEF CallStep, Begin, Step, CutOff, Advance, Settle, Claim, Reread, Look, Read,
              SubmitFor, Record, Recover
<1> QED BY <1>1, <1>2, NextIs

LEMMA StepCounted ==
  ASSUME Typed, Sound, AllCounted, [Next]_vars
  PROVE  AllCounted'
<1>1. Typed' /\ AllGo
  BY StepTyped
<1>2. \A p \in Plans : Pays(p)
  BY WorldPays, CallStepPays, NextIs DEF CallPays
<1> QED BY <1>1, <1>2, FaultsGrow, CountedStays DEF AllCounted, AllGo

Invariant == Typed /\ Sound /\ AllCounted

LEMMA Invariance == Spec => []Invariant
<1>1. Init => Invariant
  BY InitTyped, InitSound, InitCounted DEF Invariant
<1>2. Invariant /\ [Next]_vars => Invariant'
  BY StepTyped, StepSound, StepCounted DEF Invariant
<1> QED BY <1>1, <1>2, PTL DEF Spec

LEMMA InvariantTypes == Invariant => TypeOK
<1> SUFFICES ASSUME Invariant PROVE TypeOK
  OBVIOUS
<1> USE DEF Invariant, Typed
<1>1. members \in Assignments /\ edition \in Editions /\ row \in [Sites -> SiteRows]
  BY DEF ContentTyped
<1>2. clock \in 0..MaxRequests /\ faults \in 0..MaxFaults[members]
  BY DEF TimeTyped
<1>3. \A i \in Ids : op[i] \in Operations
  BY IdsAre
<1>4. ASSUME NEW p \in Plans PROVE plan[p].revision <= 3 + MaxFaults[members]
  <2>1. plan[p].revision <= 3 + faults /\ plan[p].revision \in Nat /\ MaxFaults[members] \in Nat
    BY <1>1, ConstantsAre DEF AllCounted, Counted, PlansTyped, PlanRows
  <2> QED BY <1>2, <2>1
<1>5. ASSUME NEW c \in Calls
      PROVE  /\ call[c] \in CallStates({call[c].todo})
             /\ DOMAIN call[c].todo \subseteq Plans
             /\ \A p \in DOMAIN call[c].todo : call[c].todo[p] \in RowsRead
  <2>1. call[c] \in CallStates(Rows)
    BY CallIs
  <2>2. call[c] \in CallStates({call[c].todo})
    BY <2>1 DEF CallStates
  <2> QED BY <2>2, CallIs
<1> QED BY <1>1, <1>2, <1>3, <1>4, <1>5 DEF TypeOK, OpsTyped, PlansTyped

LEMMA InvariantAgrees == Invariant => PlansAgree
<1> SUFFICES ASSUME Invariant PROVE PlansAgree
  OBVIOUS
<1> USE DEF Invariant
<1>1. \A p \in Plans : PlanSound(p)
  BY DEF Sound
<1>2. CancelledNeverSubmitted /\ SettledAsItsOperation
  BY <1>1 DEF PlanSound, Begun, CancelledNeverSubmitted, SettledAsItsOperation
<1>3. ASSUME NEW p \in Plans PROVE Cardinality(CreatedFor(p)) <= 1 + faults
  <2>1. Cardinality(CreatedFor(p)) \in Nat /\ Cardinality(Submitters(p)) \in Nat
    BY SetsFinite DEF Typed
  <2>2. faults \in Nat
    BY ConstantsAre DEF Typed, TimeTyped, ContentTyped
  <2>3. Spent(p) + (IF Claimable(p) THEN 1 ELSE 0) <= 1 + faults
    BY DEF AllCounted, Counted
  <2> QED BY <2>1, <2>2, <2>3 DEF Spent
<1> QED BY <1>2, <1>3 DEF PlansAgree, ExtraOperationsNeedFaults

\* For any sites, requests, overlapping calls, workers, page sizes, operations and faults,
\* plans, operations and the locals of a call keep their types, and a plan is written at
\* most three times and once more for each fault.
THEOREM TypeCorrect == Spec => []TypeOK
  BY Invariance, InvariantTypes, PTL

\* However calls overlap, are cut off or outlive their leases, and whether or not their
\* workers have the same id: nothing is submitted for a cancelled plan, a plan ends as its
\* operation did, and every operation beyond the first created for a plan costs a fault.
THEOREM PlansAlwaysAgree == Spec => []PlansAgree
  BY Invariance, InvariantAgrees, PTL
===============================================================================
