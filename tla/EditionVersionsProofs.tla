------------------------- MODULE EditionVersionsProofs -------------------------
(***************************************************************************)
(* Proofs about EditionVersions for every set of requests and of attempts. *)
(***************************************************************************)
EXTENDS EditionVersions, TLAPS, SequenceTheorems, FiniteSetTheorems

(***************************************************************************)
(* Type correctness, and what the transactions hold.                       *)
(***************************************************************************)
\* The last row is the latest, and who made a row had asked for it.
VersionsTyped ==
  /\ versions \in Seq(Rows) /\ versions # <<>>
  /\ latest = {Len(versions)}
  /\ \A v \in Ids : By(v) # Initial => asked[By(v)] # Unasked

RequestsTyped ==
  /\ asked \in [Requests -> Asks]
  /\ \A r \in Requests : asked[r] # Unasked => asked[r].seen \in Ids /\ asked[r].source \in Ids
  /\ answered \in [Requests -> Ids \cup {None}]
  /\ \A r \in Requests : answered[r] # None => Kind(r) \in Keyed

CallsTyped ==
  call \in [Calls -> [pc: {"none", "begun", "writing", "refused", "answered"},
                      base: Ids \cup {None}]]

\* A transaction is that of a request, of one whose key is unused; it writes on top of the
\* latest row, which it has accepted; and no other does.
Holds(r, a) ==
  call[<<r, a>>].pc \in InTransaction =>
    /\ asked[r] # Unasked
    /\ Kind(r) \in Keyed => answered[r] = None
    /\ call[<<r, a>>].pc = "begun" => Kind(r) \in Keyed
    /\ call[<<r, a>>].pc = "writing" =>
         call[<<r, a>>].base = Len(versions) /\ Accepts(r, Len(versions))
Alone(r, a, q, b) ==
  /\ call[<<r, a>>].pc = "writing" /\ call[<<q, b>>].pc = "writing" => r = q /\ a = b
  /\ r = q /\ Kind(r) \in Keyed /\ call[<<r, a>>].pc \in InTransaction
       /\ call[<<q, b>>].pc \in InTransaction => a = b
Locked ==
  /\ \A r \in Requests, a \in Attempts : Holds(r, a)
  /\ \A r, q \in Requests, a, b \in Attempts : Alone(r, a, q, b)

Typed == VersionsTyped /\ RequestsTyped /\ CallsTyped

LEMMA InitTyped == Init => Typed /\ Locked
<1> SUFFICES ASSUME Init PROVE Typed /\ Locked
  OBVIOUS
<1>1. PICK status \in Statuses : versions = <<Row({}, status, 0, {}, Initial)>>
  BY DEF Init
<1>2. Row({}, status, 0, {}, Initial) \in Rows
  BY DEF Row, Rows
<1>3. versions \in Seq(Rows) /\ versions # <<>> /\ Len(versions) = 1 /\ By(1) = Initial
  BY <1>1, <1>2 DEF By, Row
<1>4. Ids = 1..1
  BY <1>3 DEF Ids
<1>5. VersionsTyped
  BY <1>3, <1>4 DEF Init, VersionsTyped
<1>6. RequestsTyped
  BY DEF Init, RequestsTyped, Asks, Unasked, Kinds, Lanes, Patches, None
<1>7. CallsTyped
  BY DEF Init, CallsTyped
<1>8. Locked
  BY DEF Init, Locked, Holds, Alone, InTransaction, Calls
<1> QED BY <1>5, <1>6, <1>7, <1>8 DEF Typed

\* What a step may do to the rows, and to what was asked.
LEMMA IdsAre ==
  ASSUME VersionsTyped
  PROVE  Ids = 1..Len(versions) /\ Len(versions) \in Nat /\ Len(versions) >= 1
  BY EmptySeq DEF VersionsTyped, Ids

LEMMA MakersTyped ==
  ASSUME Typed, NEW v \in Ids
  PROVE  versions[v] \in Rows /\ By(v) \in Requests \cup {Initial}
<1>1. versions[v] \in Rows
  BY DEF Typed, VersionsTyped, Ids
<1> QED BY <1>1 DEF By, Rows

LEMMA MadeTyped ==
  ASSUME Typed, NEW r \in Requests, asked[r] # Unasked, NEW base \in Ids
  PROVE  Made(r, base) \in Rows /\ Made(r, base).by = r
<1>1. versions[base] \in Rows /\ versions[asked[r].seen] \in Rows /\ versions[asked[r].source] \in Rows
  BY DEF Typed, VersionsTyped, RequestsTyped, Ids
<1>2. Kind(r) \in Kinds /\ asked[r].lane \in Lanes
  BY DEF Typed, RequestsTyped, Asks, Kind
<1>3. ASSUME NEW row \in Rows, NEW lane \in Statuses
      PROVE  Moved(row, lane, r) \in Rows /\ Moved(row, lane, r).by = row.by
  <2>1. row.revision + 1 \in Nat /\ row.log \cup {r} \in SUBSET Requests
    BY DEF Rows
  <2>2. Moved(row, lane, r) = [row EXCEPT !.status = lane, !.revision = row.revision + 1,
                                          !.log = row.log \cup {r}]
    BY DEF Moved
  <2> QED BY <2>1, <2>2 DEF Rows
<1> DEFINE row == [versions[base] EXCEPT !.by = r]
<1>4. row \in Rows /\ row.by = r
  BY <1>1 DEF Rows
<1>5. CASE Kind(r) = "save"
  BY <1>1, <1>4, <1>5 DEF Made, Rows
<1>6. CASE Kind(r) = "generate"
  BY <1>1, <1>4, <1>6 DEF Made, Rows
<1>7. CASE Kind(r) \in {"decide", "move"}
  BY <1>2, <1>3, <1>4, <1>7 DEF Made, Statuses
<1>8. CASE Kind(r) = "restore"
  <2>1. Moved(row, "draft", r) \in Rows /\ Moved(row, "draft", r).by = r
    BY <1>3, <1>4 DEF Statuses, Lanes
  <2> QED BY <1>1, <1>4, <1>8, <2>1 DEF Made, KeptLog, Rows
<1>9. CASE Kind(r) = "redraft"
  <2>1. Moved(row, "draft", r) \in Rows /\ Moved(row, "draft", r).by = r
    BY <1>3, <1>4 DEF Statuses, Lanes
  <2> QED BY <1>9, <2>1 DEF Made, Rows
<1>10. CASE Kind(r) = "compile"
  BY <1>3, <1>4, <1>10 DEF Made, Statuses
<1>11. CASE Kind(r) = "advance"
  BY <1>3, <1>4, <1>11 DEF Made, Statuses
<1> QED BY <1>2, <1>5, <1>6, <1>7, <1>8, <1>9, <1>10, <1>11 DEF Kinds

\* A commit appends the row its transaction has prepared to the latest.
LEMMA CommitAppends ==
  ASSUME Typed, Locked, NEW r \in Requests, NEW a \in Attempts, Commit(r, a)
  PROVE  /\ asked[r] # Unasked /\ Accepts(r, Len(versions))
         /\ versions' = Append(versions, Made(r, Len(versions)))
         /\ versions' \in Seq(Rows) /\ versions' # <<>>
         /\ Len(versions') = Len(versions) + 1
         /\ Ids' = Ids \cup {Len(versions) + 1}
         /\ \A v \in Ids : versions'[v] = versions[v]
         /\ versions'[Len(versions) + 1] = Made(r, Len(versions))
         /\ latest' = {Len(versions')}
<1>1. /\ asked[r] # Unasked /\ call[<<r, a>>].base = Len(versions)
      /\ Accepts(r, Len(versions))
  BY DEF Locked, Holds, Commit, InTransaction
<1>2. Made(r, Len(versions)) \in Rows
  BY <1>1, IdsAre, MadeTyped DEF Typed
<1>3. versions' = Append(versions, Made(r, Len(versions)))
  BY <1>1 DEF Commit
<1>4. /\ versions' \in Seq(Rows) /\ Len(versions') = Len(versions) + 1
      /\ \A v \in 1..Len(versions) : versions'[v] = versions[v]
      /\ versions'[Len(versions) + 1] = Made(r, Len(versions))
  BY <1>2, <1>3, AppendProperties DEF Typed, VersionsTyped
<1>5. Len(versions) \in Nat /\ Ids = 1..Len(versions) /\ Ids' = 1..Len(versions')
  BY <1>4, IdsAre DEF Typed, Ids
<1>6. Ids' = Ids \cup {Len(versions) + 1} /\ versions' # <<>>
  BY <1>4, <1>5
<1>7. latest' = {Len(versions')}
  BY <1>1, <1>4 DEF Commit, Typed, VersionsTyped
<1> QED BY <1>1, <1>3, <1>4, <1>5, <1>6, <1>7

LEMMA RowsKept ==
  ASSUME Typed, Locked, [Next]_vars
  PROVE  /\ Ids \subseteq Ids'
         /\ \A v \in Ids : versions'[v] = versions[v]
         /\ \A r \in Requests : asked[r] # Unasked => asked'[r] = asked[r]
<1>1. ASSUME NEW r \in Requests, Ask(r)
      PROVE  UNCHANGED versions /\ \A q \in Requests : asked[q] # Unasked => asked'[q] = asked[q]
  BY <1>1 DEF Ask, Typed, RequestsTyped
<1>2. ASSUME NEW r \in Requests, NEW a \in Attempts, Begin(r, a) \/ Read(r, a) \/ Lose(r, a)
      PROVE  UNCHANGED <<versions, asked>>
  BY <1>2 DEF Begin, Read, Lose
<1>3. ASSUME NEW r \in Requests, NEW a \in Attempts, Commit(r, a)
      PROVE  Ids \subseteq Ids' /\ (\A v \in Ids : versions'[v] = versions[v]) /\ UNCHANGED asked
  BY <1>3, CommitAppends DEF Commit
<1>4. UNCHANGED versions => Ids' = Ids
  BY DEF Ids
<1> QED BY <1>1, <1>2, <1>3, <1>4 DEF Next, vars

\* One call moves on; the others stay as they are.
Turn(c, u) ==
  /\ call' = [call EXCEPT ![c] = u]
  /\ u.pc \in {"none", "begun", "writing", "refused", "answered"} /\ u.base \in Ids \cup {None}
  /\ u = [pc |-> u.pc, base |-> u.base]

LEMMA CallTurns ==
  ASSUME Typed, NEW r \in Requests, NEW a \in Attempts,
         Begin(r, a) \/ Read(r, a) \/ Commit(r, a) \/ Lose(r, a)
  PROVE  \E u : Turn(<<r, a>>, u)
<1> DEFINE u(pc) == [pc |-> pc, base |-> None]
<1>1. ASSUME NEW pc \in {"none", "begun", "writing", "refused", "answered"}, To(<<r, a>>, pc)
      PROVE  Turn(<<r, a>>, u(pc))
  BY <1>1 DEF To, Turn
<1>2. CASE Begin(r, a) \/ Commit(r, a) \/ Lose(r, a)
  BY <1>1, <1>2 DEF Begin, Commit, Lose
<1>3. CASE Read(r, a)
  <2>1. ASSUME NEW base \in latest,
               call' = [call EXCEPT ![<<r, a>>] = [pc |-> "writing", base |-> base]]
        PROVE  Turn(<<r, a>>, [pc |-> "writing", base |-> base])
    <3>1. base \in Ids
      BY IdsAre DEF Typed, VersionsTyped
    <3> QED BY <2>1, <3>1 DEF Turn
  <2> QED BY <1>1, <1>3, <2>1 DEF Read
<1> QED BY <1>2, <1>3

LEMMA StepTyped ==
  ASSUME Typed, Locked, [Next]_vars
  PROVE  Typed'
<1>k. /\ Ids \subseteq Ids'
      /\ \A v \in Ids : versions'[v] = versions[v]
      /\ \A r \in Requests : asked[r] # Unasked => asked'[r] = asked[r]
  BY RowsKept
<1>i. latest \subseteq Ids /\ 1 \in Ids
  BY IdsAre DEF Typed, VersionsTyped
<1>b. \A v \in Ids : By(v) \in Requests \cup {Initial}
  BY MakersTyped
<1>1. ASSUME NEW r \in Requests, Ask(r) PROVE Typed'
  <2>1. PICK kind \in Kinds :
          \E v \in ScreensOf(kind), lane \in LanesOf(kind), source \in SourcesOf(kind),
             patch \in PatchesOf(kind) :
            asked' = [asked EXCEPT ![r] = [kind |-> kind, seen |-> v, lane |-> lane,
                                           source |-> source, patch |-> patch]]
    BY <1>1 DEF Ask
  <2>2. PICK v \in ScreensOf(kind), lane \in LanesOf(kind), source \in SourcesOf(kind),
             patch \in PatchesOf(kind) :
          asked' = [asked EXCEPT ![r] = [kind |-> kind, seen |-> v, lane |-> lane,
                                         source |-> source, patch |-> patch]]
    BY <2>1
  <2> DEFINE ask == [kind |-> kind, seen |-> v, lane |-> lane, source |-> source, patch |-> patch]
  <2>3. lane \in Lanes /\ source \in Ids /\ v \in Ids /\ patch \in Patches
    BY <1>i DEF LanesOf, SourcesOf, ScreensOf, PatchesOf, Patches, Lanes
  <2>4. Ids \subseteq Nat
    BY IdsAre DEF Typed
  <2>5. ask \in Asks
    BY <2>3, <2>4 DEF Asks
  <2>6. UNCHANGED <<versions, latest, call, answered>> /\ Ids' = Ids
    BY <1>1 DEF Ask, Ids
  <2>7. VersionsTyped'
    BY <1>k, <1>b, <2>6, EditionVersionsAssumption
    DEF EditionVersionsAssumption, Typed, VersionsTyped, By
  <2>8. RequestsTyped'
    <3>1. asked[r] = Unasked /\ answered[r] = None
      BY <1>1 DEF Ask, Typed, RequestsTyped, Kind, Unasked, Keyed
    <3>2. asked' \in [Requests -> Asks]
      BY <2>2, <2>5 DEF Typed, RequestsTyped
    <3>3. \A q \in Requests : asked'[q] # Unasked => asked'[q].seen \in Ids /\ asked'[q].source \in Ids
      BY <2>2, <2>3 DEF Typed, RequestsTyped
    <3>4. \A q \in Requests : answered[q] # None => asked'[q] = asked[q]
      BY <2>2, <3>1 DEF Typed, RequestsTyped
    <3> QED BY <2>6, <3>2, <3>3, <3>4 DEF Typed, RequestsTyped, Kind
  <2>9. CallsTyped'
    BY <2>6 DEF Typed, CallsTyped
  <2> QED BY <2>7, <2>8, <2>9 DEF Typed
<1>2. ASSUME NEW r \in Requests, NEW a \in Attempts,
             Begin(r, a) \/ Read(r, a) \/ Commit(r, a) \/ Lose(r, a)
      PROVE  CallsTyped'
  <2>1. PICK u : Turn(<<r, a>>, u)
    BY <1>2, CallTurns
  <2>2. u \in [pc: {"none", "begun", "writing", "refused", "answered"}, base: Ids' \cup {None}]
    BY <1>k, <2>1 DEF Turn
  <2>3. call \in [Calls -> [pc: {"none", "begun", "writing", "refused", "answered"},
                            base: Ids' \cup {None}]]
    BY <1>k DEF Typed, CallsTyped
  <2> QED BY <2>1, <2>2, <2>3 DEF Turn, CallsTyped
<1>3. ASSUME NEW r \in Requests, NEW a \in Attempts, Begin(r, a) \/ Read(r, a) \/ Lose(r, a)
      PROVE  Typed'
  <2>1. UNCHANGED <<versions, latest, asked, answered>> /\ Ids' = Ids
    BY <1>3 DEF Begin, Read, Lose, Ids
  <2>2. VersionsTyped' /\ RequestsTyped'
    BY <2>1 DEF Typed, VersionsTyped, RequestsTyped, By, Kind
  <2> QED BY <1>2, <1>3, <2>2 DEF Typed
<1>4. ASSUME NEW r \in Requests, NEW a \in Attempts, Commit(r, a) PROVE Typed'
  <2>1. /\ asked[r] # Unasked /\ versions' \in Seq(Rows) /\ versions' # <<>>
        /\ Ids' = Ids \cup {Len(versions) + 1}
        /\ versions'[Len(versions) + 1] = Made(r, Len(versions))
        /\ latest' = {Len(versions')}
    BY <1>4, CommitAppends
  <2>2. UNCHANGED asked
    BY <1>4 DEF Commit
  <2>3. Made(r, Len(versions)).by = r
    BY <2>1, IdsAre, MadeTyped DEF Typed
  <2>4. VersionsTyped'
    BY <1>k, <2>1, <2>2, <2>3 DEF Typed, VersionsTyped, By
  <2>5. RequestsTyped'
    <3>1. \A q \in Requests : asked'[q] # Unasked => asked'[q].seen \in Ids' /\ asked'[q].source \in Ids'
      BY <1>k, <2>2 DEF Typed, RequestsTyped
    <3>2. answered' = IF Kind(r) \in Keyed
                        THEN [answered EXCEPT ![r] = Len(versions) + 1] ELSE answered
      BY <1>4 DEF Commit
    <3>3. answered' \in [Requests -> Ids' \cup {None}]
      BY <1>k, <2>1, <3>2 DEF Typed, RequestsTyped
    <3>4. \A q \in Requests : answered'[q] # None => Kind(q) \in Keyed
      BY <3>2 DEF Typed, RequestsTyped
    <3> QED BY <2>2, <3>1, <3>3, <3>4 DEF Typed, RequestsTyped, Kind
  <2> QED BY <1>2, <1>4, <2>4, <2>5 DEF Typed
<1>5. UNCHANGED vars => Typed'
  BY DEF vars, Typed, VersionsTyped, RequestsTyped, CallsTyped, Ids, By, Kind
<1> QED BY <1>1, <1>3, <1>4, <1>5 DEF Next


\* What a request was accepted for on a row stays so: rows and requests do not change.
LEMMA AcceptsStays ==
  ASSUME Typed, Locked, [Next]_vars, NEW r \in Requests, asked[r] # Unasked, NEW base \in Ids,
         Accepts(r, base)
  PROVE  Accepts(r, base)'
<1>1. /\ \A v \in Ids : versions'[v] = versions[v]
      /\ asked'[r] = asked[r]
  BY RowsKept
<1>2. asked[r].seen \in Ids
  BY DEF Typed, RequestsTyped
<1>3. /\ asked'[r] = asked[r] /\ versions'[base] = versions[base]
      /\ versions'[asked[r].seen] = versions[asked[r].seen]
  BY <1>1, <1>2
<1> QED BY <1>3 DEF Accepts, Kind, NotStale, SameRevision

\* A step of a call: the states that tell, of the other calls and of its own.
LEMMA OtherCalls ==
  ASSUME Typed, NEW r \in Requests, NEW a \in Attempts,
         Begin(r, a) \/ Read(r, a) \/ Commit(r, a) \/ Lose(r, a)
  PROVE  \A q \in Requests, b \in Attempts :
           q # r \/ b # a => call'[<<q, b>>] = call[<<q, b>>]
<1>1. PICK u : Turn(<<r, a>>, u)
  BY CallTurns
<1>2. \A q \in Requests, b \in Attempts : <<q, b>> \in Calls
  BY DEF Calls
<1> QED BY <1>1, <1>2 DEF Turn, Typed, CallsTyped

LEMMA OwnCall ==
  ASSUME Typed, Locked, NEW r \in Requests, NEW a \in Attempts,
         Begin(r, a) \/ Read(r, a) \/ Commit(r, a) \/ Lose(r, a)
  PROVE  \/ call'[<<r, a>>].pc \notin InTransaction
         \/ /\ Begin(r, a) /\ call'[<<r, a>>].pc = "begun" /\ answered[r] = None
            /\ Kind(r) \in Keyed /\ KeyFree(r) /\ asked[r] # Unasked
         \/ /\ Read(r, a) /\ call'[<<r, a>>].pc = "writing" /\ EditionFree
            /\ call'[<<r, a>>].base = Len(versions) /\ Accepts(r, Len(versions))
            /\ asked[r] # Unasked
            /\ Kind(r) \in Keyed => call[<<r, a>>].pc = "begun" /\ answered[r] = None
<1> DEFINE c == <<r, a>>
<1>c. c \in Calls
  BY DEF Calls
<1>t. \A pc : To(c, pc) => call'[c].pc = pc
  BY <1>c DEF To, Typed, CallsTyped
<1>1. CASE Begin(r, a)
  <2>1. CASE To(c, "answered")
    BY <1>t, <2>1 DEF InTransaction
  <2>2. CASE answered[r] = None /\ To(c, "begun")
    BY <1>1, <1>t, <2>2 DEF Begin, IsNext
  <2> QED BY <1>1, <2>1, <2>2 DEF Begin
<1>2. CASE Read(r, a)
  <2>1. CASE To(c, "refused")
    BY <1>t, <2>1 DEF InTransaction
  <2>2. ASSUME NEW base \in latest, Accepts(r, base),
               call' = [call EXCEPT ![c] = [pc |-> "writing", base |-> base]]
        PROVE  /\ call'[c].pc = "writing" /\ EditionFree
               /\ call'[c].base = Len(versions) /\ Accepts(r, Len(versions))
               /\ asked[r] # Unasked
               /\ Kind(r) \in Keyed => call[c].pc = "begun" /\ answered[r] = None
    <3>1. base = Len(versions)
      BY DEF Typed, VersionsTyped
    <3>2. call'[c].pc = "writing" /\ call'[c].base = base
      BY <1>c, <2>2 DEF Typed, CallsTyped
    <3>3. EditionFree /\ (call[c].pc = "begun" \/ (IsNext(r, a) /\ Kind(r) \notin Keyed))
      BY <1>2 DEF Read
    <3>4. call[c].pc = "begun" => asked[r] # Unasked /\ (Kind(r) \in Keyed => answered[r] = None)
      BY DEF Locked, Holds, InTransaction
    <3> QED BY <2>2, <3>1, <3>2, <3>3, <3>4 DEF IsNext
  <2> QED BY <1>2, <2>1, <2>2 DEF Read
<1>3. CASE Commit(r, a) \/ Lose(r, a)
  BY <1>3, <1>t DEF Commit, Lose, InTransaction
<1> QED BY <1>1, <1>2, <1>3

LEMMA StepLocked ==
  ASSUME Typed, Locked, [Next]_vars
  PROVE  Locked'
<1>l. Len(versions) \in Ids
  BY IdsAre DEF Typed
<1>k. \A q \in Requests : asked[q] # Unasked => asked'[q] = asked[q] /\ (Kind(q))' = Kind(q)
  BY RowsKept DEF Kind
<1>a. ASSUME NEW q \in Requests, asked[q] # Unasked, Accepts(q, Len(versions)), UNCHANGED versions
      PROVE  Accepts(q, Len(versions))'
  BY <1>l, <1>a, AcceptsStays
<1>h. ASSUME NEW q \in Requests, NEW b \in Attempts, call'[<<q, b>>] = call[<<q, b>>],
             UNCHANGED versions \/ call[<<q, b>>].pc # "writing", answered'[q] = answered[q]
      PROVE  Holds(q, b)'
  <2>1. Holds(q, b)
    BY DEF Locked
  <2>2. CASE call[<<q, b>>].pc \in InTransaction
    <3>1. asked[q] # Unasked /\ asked'[q] = asked[q] /\ Kind(q)' = Kind(q)
      BY <1>k, <2>1, <2>2 DEF Holds
    <3>2. call[<<q, b>>].pc = "writing" =>
            /\ call[<<q, b>>].base = Len(versions) /\ Accepts(q, Len(versions))
            /\ UNCHANGED versions
      BY <1>h, <2>1, <2>2 DEF Holds
    <3>3. call[<<q, b>>].pc = "writing" => Accepts(q, Len(versions))'
      BY <1>a, <3>1, <3>2
    <3>4. call'[<<q, b>>].pc = "writing" =>
            call'[<<q, b>>].base = Len(versions') /\ Accepts(q, Len(versions))'
      BY <1>h, <3>2, <3>3
    <3>5. /\ asked'[q] # Unasked
          /\ Kind(q)' \in Keyed => answered'[q] = None
          /\ call'[<<q, b>>].pc = "begun" => Kind(q)' \in Keyed
      BY <1>h, <2>1, <2>2, <3>1 DEF Holds
    <3> QED BY <3>4, <3>5 DEF Holds
  <2>3. CASE call[<<q, b>>].pc \notin InTransaction
    BY <1>h, <2>3 DEF Holds, InTransaction
  <2> QED BY <2>2, <2>3
<1>u. ASSUME NEW q \in Requests, NEW b \in Attempts, NEW p \in Requests, NEW d \in Attempts,
             call'[<<q, b>>] = call[<<q, b>>], call'[<<p, d>>] = call[<<p, d>>]
      PROVE  Alone(q, b, p, d)'
  <2>1. Alone(q, b, p, d) /\ Holds(q, b)
    BY DEF Locked
  <2>2. call[<<q, b>>].pc \in InTransaction => Kind(q)' = Kind(q)
    BY <1>k, <2>1 DEF Holds
  <2> QED BY <1>u, <2>1, <2>2 DEF Alone
<1>1. ASSUME NEW r \in Requests, Ask(r) PROVE Locked'
  <2>1. UNCHANGED <<versions, call, answered>>
    BY <1>1 DEF Ask
  <2> QED BY <1>h, <1>u, <2>1 DEF Locked
<1>2. ASSUME NEW r \in Requests, NEW a \in Attempts, Begin(r, a) \/ Read(r, a) \/ Lose(r, a)
      PROVE  Locked'
  <2>1. UNCHANGED <<versions, asked, answered>>
    BY <1>2 DEF Begin, Read, Lose
  <2>2. \A q \in Requests, b \in Attempts :
          q # r \/ b # a => call'[<<q, b>>] = call[<<q, b>>]
    BY <1>2, OtherCalls
  <2>3. Holds(r, a)'
    <3>1. asked[r] # Unasked => Kind(r)' = Kind(r) /\ asked'[r] = asked[r]
      BY <1>k
    <3>2. CASE call'[<<r, a>>].pc \notin InTransaction
      BY <3>2 DEF Holds, InTransaction
    <3>3. CASE call'[<<r, a>>].pc = "begun" /\ answered[r] = None
               /\ Kind(r) \in Keyed /\ asked[r] # Unasked
      BY <2>1, <3>1, <3>3 DEF Holds, InTransaction
    <3>4. CASE /\ call'[<<r, a>>].pc = "writing" /\ asked[r] # Unasked
               /\ call'[<<r, a>>].base = Len(versions) /\ Accepts(r, Len(versions))
               /\ Kind(r) \in Keyed => answered[r] = None
      <4>1. Accepts(r, Len(versions))'
        BY <1>a, <2>1, <3>4
      <4> QED BY <2>1, <3>1, <3>4, <4>1 DEF Holds, InTransaction
    <3> QED BY <1>2, <3>2, <3>3, <3>4, OwnCall
  <2>4. ASSUME NEW q \in Requests, NEW b \in Attempts, q # r \/ b # a
        PROVE  Alone(r, a, q, b)' /\ Alone(q, b, r, a)'
    <3>1. call'[<<q, b>>] = call[<<q, b>>] /\ <<q, b>> \in Calls
      BY <2>2, <2>4 DEF Calls
    <3>2. Alone(r, a, q, b) /\ Holds(q, b)
      BY DEF Locked
    <3>3. CASE call'[<<r, a>>].pc \notin InTransaction
      BY <3>3 DEF Alone, InTransaction
    <3>4. CASE call'[<<r, a>>].pc = "begun" /\ KeyFree(r)
      BY <2>4, <3>1, <3>4 DEF Alone, KeyFree
    <3>5. CASE /\ call'[<<r, a>>].pc = "writing" /\ EditionFree /\ asked[r] # Unasked
               /\ Kind(r) \in Keyed => call[<<r, a>>].pc = "begun"
      <4>1. call'[<<q, b>>].pc # "writing"
        BY <3>1, <3>5 DEF EditionFree
      <4>2. Kind(r)' = Kind(r)
        BY <1>k, <3>5
      <4>3. q = r /\ Kind(r) \in Keyed => call[<<q, b>>].pc \notin InTransaction
        BY <2>4, <3>2, <3>5 DEF Alone, InTransaction
      <4> QED BY <3>1, <4>1, <4>2, <4>3 DEF Alone
    <3> QED BY <1>2, <3>3, <3>4, <3>5, OwnCall
  <2>5. \A q \in Requests, b \in Attempts : Holds(q, b)'
    BY <1>h, <2>1, <2>2, <2>3
  <2>6. \A q, p \in Requests, b, d \in Attempts : Alone(q, b, p, d)'
    <3>1. Alone(r, a, r, a)'
      BY DEF Alone
    <3> QED BY <1>u, <2>2, <2>4, <3>1
  <2> QED BY <2>5, <2>6 DEF Locked
<1>3. ASSUME NEW r \in Requests, NEW a \in Attempts, Commit(r, a) PROVE Locked'
  <2>1. call[<<r, a>>].pc = "writing" /\ Holds(r, a)
    BY <1>3 DEF Commit, Locked
  <2>2. \A q \in Requests, b \in Attempts :
          q # r \/ b # a => call'[<<q, b>>] = call[<<q, b>>]
    BY <1>3, OtherCalls
  <2>3. call'[<<r, a>>].pc \notin InTransaction
    BY <1>3, OwnCall DEF Begin, Read, Commit, IsNext
  <2>4. ASSUME NEW q \in Requests, NEW b \in Attempts, q # r \/ b # a PROVE Holds(q, b)'
    <3>1. Alone(r, a, q, b) /\ Holds(q, b)
      BY DEF Locked
    <3>2. call[<<q, b>>].pc # "writing"
      BY <2>1, <2>4, <3>1 DEF Alone
    <3>3. CASE call[<<q, b>>].pc \notin InTransaction
      BY <2>2, <2>4, <3>3 DEF Holds
    <3>4. CASE call[<<q, b>>].pc = "begun"
      <4>1. Kind(q) \in Keyed
        BY <3>1, <3>4 DEF Holds, InTransaction
      <4>2. q # r
        BY <2>1, <2>4, <3>1, <3>4, <4>1 DEF Alone, InTransaction
      <4>3. answered'[q] = answered[q]
        BY <1>3, <4>2 DEF Commit, Typed, RequestsTyped
      <4> QED BY <1>h, <2>2, <2>4, <3>2, <4>3
    <3> QED BY <3>2, <3>3, <3>4 DEF InTransaction
  <2>5. \A q \in Requests, b \in Attempts : Holds(q, b)'
    BY <2>3, <2>4 DEF Holds
  <2>6. \A q, p \in Requests, b, d \in Attempts : Alone(q, b, p, d)'
    <3>1. \A q \in Requests, b \in Attempts : Alone(r, a, q, b)' /\ Alone(q, b, r, a)'
      BY <2>3 DEF Alone, InTransaction
    <3> QED BY <1>u, <2>2, <3>1
  <2> QED BY <2>5, <2>6 DEF Locked
<1>4. UNCHANGED vars => Locked'
  <2>1. UNCHANGED vars => UNCHANGED <<versions, call, answered>>
    BY DEF vars
  <2> QED BY <1>h, <1>u, <2>1 DEF Locked
<1> QED BY <1>1, <1>2, <1>3, <1>4 DEF Next

\* Versions, requests and calls keep their types.
THEOREM TypeCorrect == Spec => []TypeOK
<1>1. Typed /\ Locked /\ [Next]_vars => (Typed /\ Locked)'
  BY StepTyped, StepLocked
<1>2. Typed => TypeOK
  <2> SUFFICES ASSUME Typed PROVE TypeOK
    OBVIOUS
  <2>1. \A v \in Ids : versions[v] \in Rows
    BY MakersTyped
  <2>2. latest \subseteq Ids
    BY IdsAre DEF Typed, VersionsTyped
  <2>3. \A r \in Requests : asked[r].seen \in Ids \cup {None}
    BY DEF Typed, RequestsTyped, Unasked
  <2> QED BY <2>1, <2>2, <2>3 DEF Typed, RequestsTyped, CallsTyped, TypeOK
<1> QED BY InitTyped, <1>1, <1>2, PTL DEF Spec


(***************************************************************************)
(* What a row keeps of the rows before it.                                 *)
(***************************************************************************)
Deciding == {"decide", "move", "restore", "redraft", "advance"}
Replacing == {"restore", "generate"}
Quiet == {"save", "generate", "compile"}

LogKept == \A i, v \in Ids : i <= v /\ MadeBy(i, Deciding) => By(i) \in versions[v].log

\* Without a new draft in between revisions do not fall, and equal ones mean that no
\* decision was taken.
RevisionsTell ==
  \A s, k \in Ids : s < k =>
    \/ \E m \in (s + 1)..k : MadeBy(m, {"redraft"})
    \/ versions[s].revision < versions[k].revision
    \/ /\ versions[s].revision = versions[k].revision
       /\ \A m \in (s + 1)..k : MadeBy(m, Quiet) /\ versions[m].log = versions[s].log

History == LogKept /\ EditsSurvive /\ RevisionsTell /\ DecisionsFollowWhatWasSeen

\* A row, compared with the one it is made of.
LEMMA MadeKeeps ==
  ASSUME Typed, NEW r \in Requests, asked[r] # Unasked, NEW base \in Ids, Accepts(r, base)
  PROVE  LET row == Made(r, base)
             old == versions[base]
         IN /\ old.log \subseteq row.log
            /\ Kind(r) \in Deciding => r \in row.log
            /\ Kind(r) = "save" => r \in row.text
            /\ \/ Kind(r) \in Replacing \/ old.text \subseteq row.text
               \/ /\ Kind(r) = "save" /\ asked[r].patch = "whole"
                  /\ versions[asked[r].seen].text \subseteq row.text
            /\ \/ Kind(r) = "redraft" \/ old.revision < row.revision
               \/ old.revision = row.revision /\ Kind(r) \in Quiet /\ row.log = old.log
<1> DEFINE old == versions[base]
           row == [old EXCEPT !.by = r]
<1>1. old \in Rows /\ versions[asked[r].seen] \in Rows /\ versions[asked[r].source] \in Rows
  BY MakersTyped DEF Typed, RequestsTyped
<1>2. Kind(r) \in Kinds /\ asked[r].lane \in Lanes /\ asked[r].patch \in Patches
  BY DEF Typed, RequestsTyped, Asks, Kind
<1>3. /\ row \in Rows /\ row.text = old.text /\ row.log = old.log
      /\ row.revision = old.revision /\ row.status = old.status /\ old.revision \in Nat
  BY <1>1 DEF Rows
<1>4. ASSUME NEW lane \in Statuses
      PROVE  LET moved == Moved(row, lane, r)
             IN moved \in Rows /\ moved.text = old.text /\ moved.log = old.log \cup {r}
                /\ moved.revision = old.revision + 1
  <2>1. row.revision + 1 \in Nat /\ row.log \cup {r} \in SUBSET Requests
    BY <1>3 DEF Rows
  <2>2. Moved(row, lane, r) = [row EXCEPT !.status = lane, !.revision = row.revision + 1,
                                          !.log = row.log \cup {r}]
    BY DEF Moved
  <2> HIDE DEF row, old
  <2> QED BY <1>3, <2>1, <2>2 DEF Rows
<1>m. ASSUME NEW lane \in Statuses
      PROVE  LET moved == Moved(row, lane, r)
             IN /\ old.log \subseteq moved.log /\ r \in moved.log /\ old.text \subseteq moved.text
                /\ old.revision < moved.revision
  <2> HIDE DEF row, old
  <2> QED BY <1>3, <1>4
<1> USE DEF Deciding, Replacing, Quiet
<1>5. CASE Kind(r) = "save"
  <2> DEFINE kept == IF asked[r].patch = "part" THEN old.text ELSE versions[asked[r].seen].text
  <2>1. /\ asked[r].patch = "whole" /\ kept = versions[asked[r].seen].text
        \/ kept = old.text
    BY <1>2, <1>5 DEF Accepts, NotStale, Patches
  <2>2. Made(r, base) = [row EXCEPT !.text = kept \cup {r}]
    BY <1>3, <1>5 DEF Made
  <2> HIDE DEF row, old, kept
  <2>3. LET new == [row EXCEPT !.text = kept \cup {r}]
        IN new.text = kept \cup {r} /\ new.log = old.log /\ new.revision = old.revision
    BY <1>3 DEF Rows
  <2> QED BY <1>5, <2>1, <2>2, <2>3 DEF old
<1>6. CASE Kind(r) = "generate"
  <2>2. Made(r, base) = [row EXCEPT !.text = {r}]
    BY <1>6 DEF Made
  <2> HIDE DEF row, old
  <2>3. LET new == [row EXCEPT !.text = {r}]
        IN new.log = old.log /\ new.revision = old.revision
    BY <1>3 DEF Rows
  <2> QED BY <1>6, <2>2, <2>3 DEF old
<1>7. CASE Kind(r) \in {"decide", "move"}
  <2>1. asked[r].lane \in Statuses /\ Made(r, base) = Moved(row, asked[r].lane, r)
    BY <1>2, <1>7 DEF Made, Statuses
  <2> HIDE DEF row
  <2> QED BY <1>7, <1>m, <2>1
<1>8. CASE Kind(r) = "restore"
  <2> DEFINE moved == Moved(row, "draft", r)
             text == versions[asked[r].source].text
  <2>0. "draft" \in Statuses
    BY DEF Statuses, Lanes
  <2>1. Made(r, base) = [moved EXCEPT !.text = text, !.log = row.log \cup {r}]
    BY <1>8 DEF Made, KeptLog
  <2>2. moved \in Rows /\ moved.revision = old.revision + 1
    BY <1>4, <2>0
  <2> HIDE DEF moved, text, row, old
  <2>3. LET new == [moved EXCEPT !.text = text, !.log = row.log \cup {r}]
        IN new.log = old.log \cup {r} /\ new.revision = old.revision + 1
    BY <1>3, <2>2 DEF Rows
  <2> QED BY <1>3, <1>8, <2>1, <2>3 DEF old
<1>9. CASE Kind(r) = "redraft"
  <2> DEFINE moved == Moved(row, "draft", r)
  <2>0. "draft" \in Statuses
    BY DEF Statuses, Lanes
  <2>1. Made(r, base) = [moved EXCEPT !.revision = 0]
    BY <1>9 DEF Made
  <2>2. moved \in Rows /\ moved.log = old.log \cup {r} /\ moved.text = old.text
    BY <1>4, <2>0
  <2> HIDE DEF moved, row, old
  <2>3. LET new == [moved EXCEPT !.revision = 0]
        IN new.log = old.log \cup {r} /\ new.text = old.text
    BY <2>2 DEF Rows
  <2> QED BY <1>9, <2>1, <2>3 DEF old
<1>10. CASE Kind(r) = "compile"
  <2>1. CASE row.status = "approved"
    <3>1. Made(r, base) = Moved(row, "compiled", r) /\ "compiled" \in Statuses
      BY <1>10, <2>1 DEF Made, Statuses
    <3> HIDE DEF row
    <3> QED BY <1>10, <1>m, <3>1
  <2>2. CASE row.status # "approved"
    <3>1. Made(r, base) = row
      BY <1>10, <2>2 DEF Made
    <3> HIDE DEF row
    <3> QED BY <1>10, <1>3, <3>1
  <2> QED BY <2>1, <2>2
<1>11. CASE Kind(r) = "advance"
  <2>1. Made(r, base) = Moved(row, "published", r) /\ "published" \in Statuses
    BY <1>11 DEF Made, Statuses
  <2> HIDE DEF row
  <2> QED BY <1>11, <1>m, <2>1
<1> QED BY <1>2, <1>5, <1>6, <1>7, <1>8, <1>9, <1>10, <1>11 DEF Kinds

\* Who made a row, and what it asked for, stays.
LEMMA MadeByStays ==
  ASSUME Typed, Locked, [Next]_vars, NEW i \in Ids
  PROVE  /\ By(i)' = By(i) /\ versions'[i] = versions[i]
         /\ \A K : MadeBy(i, K)' <=> MadeBy(i, K)
         /\ By(i) # Initial => asked'[By(i)] = asked[By(i)]
<1>1. By(i)' = By(i) /\ versions'[i] = versions[i]
  BY RowsKept DEF By
<1>2. By(i) # Initial => By(i) \in Requests /\ asked[By(i)] # Unasked
  BY MakersTyped DEF Typed, VersionsTyped
<1>3. By(i) # Initial => asked'[By(i)] = asked[By(i)]
  BY <1>2, RowsKept
<1> QED BY <1>1, <1>3 DEF MadeBy, Kind


LEMMA OverwritesStays ==
  ASSUME Typed, Locked, [Next]_vars, NEW j \in Ids, NEW i
  PROVE  Overwrites(j, i)' <=> Overwrites(j, i)
  BY MadeByStays DEF Overwrites, MadeBy

LEMMA InitHistory == Init => History
<1> SUFFICES ASSUME Init PROVE History
  OBVIOUS
<1>1. /\ Ids = {1} /\ Len(versions) = 1 /\ ~(By(1) # Initial)
  BY DEF Init, Ids, By, Row
<1>2. \A i \in Ids : \A K : ~MadeBy(i, K)
  BY <1>1 DEF MadeBy
<1> QED BY <1>1, <1>2 DEF History, LogKept, EditsSurvive, RevisionsTell, DecisionsFollowWhatWasSeen

\* Steps that append no row leave all that is said of rows.
LEMMA NoRowHistory ==
  ASSUME Typed, Locked, History, [Next]_vars, UNCHANGED versions
  PROVE  History'
<1>1. Ids' = Ids /\ Len(versions') = Len(versions) /\ Ids = 1..Len(versions) /\ Len(versions) \in Nat
  BY IdsAre DEF Ids, Typed
<1>2. \A i \in Ids : /\ By(i)' = By(i) /\ \A K : MadeBy(i, K)' <=> MadeBy(i, K)
                     /\ By(i) # Initial => asked'[By(i)] = asked[By(i)]
  BY MadeByStays
<1>3. LogKept'
  BY <1>1, <1>2 DEF History, LogKept
<1>4. EditsSurvive'
  <2>1. \A i \in Ids, v \in Ids : i \in Nat /\ \A j \in (i + 1)..v : j \in Ids
    BY <1>1
  <2>2. \A i \in Ids : \A j \in Ids : Overwrites(j, i)' <=> Overwrites(j, i)
    BY OverwritesStays
  <2>3. \A i \in Ids : \A v \in i..Len(versions) : v \in Ids
    BY <1>1
  <2> QED BY <1>1, <1>2, <2>1, <2>2, <2>3 DEF History, EditsSurvive
<1>5. RevisionsTell'
  BY <1>1, <1>2 DEF History, RevisionsTell
<1>6. DecisionsFollowWhatWasSeen'
  <2>1. ASSUME NEW j \in Ids, MadeBy(j, {"decide"})
        PROVE  LET between == {k \in Ids : asked'[versions[j].by].seen < k /\ k < j}
               IN \/ \E k \in between : MadeBy(k, {"redraft"})'
                  \/ \A k \in between :
                       /\ MadeBy(k, {"save", "generate", "compile"})'
                       /\ versions[k].log = versions[asked'[versions[j].by].seen].log
    <3>1. asked'[versions[j].by] = asked[versions[j].by]
      BY <1>2, <2>1 DEF MadeBy, By
    <3> QED BY <1>2, <2>1, <3>1 DEF History, DecisionsFollowWhatWasSeen, By
  <2>2. \A j \in Ids : MadeBy(j, {"decide"})' => MadeBy(j, {"decide"})
    BY <1>2
  <2> QED BY <1>1, <2>1, <2>2 DEF DecisionsFollowWhatWasSeen, By
<1> QED BY <1>3, <1>4, <1>5, <1>6 DEF History

\* The row that a commit appends.
LEMMA NewRow ==
  ASSUME Typed, Locked, NEW r \in Requests, NEW a \in Attempts, Commit(r, a),
         NEW n, n = Len(versions)
  PROVE  /\ n \in Nat /\ n >= 1 /\ Ids = 1..n /\ Ids' = 1..(n + 1) /\ Len(versions') = n + 1
         /\ By(n + 1)' = r /\ \A K : MadeBy(n + 1, K)' <=> Kind(r) \in K
         /\ versions[n].log \subseteq versions'[n + 1].log
         /\ Kind(r) \in Deciding => r \in versions'[n + 1].log
         /\ Kind(r) = "save" => r \in versions'[n + 1].text
         /\ \/ Kind(r) \in Replacing \/ versions[n].text \subseteq versions'[n + 1].text
            \/ /\ Kind(r) = "save" /\ asked[r].patch = "whole"
               /\ versions[asked[r].seen].text \subseteq versions'[n + 1].text
         /\ \/ Kind(r) = "redraft" \/ versions[n].revision < versions'[n + 1].revision
            \/ /\ versions[n].revision = versions'[n + 1].revision /\ Kind(r) \in Quiet
               /\ versions'[n + 1].log = versions[n].log
<1>1. /\ asked[r] # Unasked /\ Accepts(r, n) /\ Len(versions') = n + 1
      /\ Ids' = Ids \cup {n + 1} /\ versions'[n + 1] = Made(r, n)
  BY CommitAppends
<1>2. n \in Nat /\ n >= 1 /\ Ids = 1..n
  BY IdsAre DEF Typed
<1>3. Ids' = 1..(n + 1) /\ n \in Ids
  BY <1>1, <1>2
<1>4. By(n + 1)' = r
  BY <1>1, <1>3, MadeTyped DEF By
<1>5. r # Initial /\ Kind(r)' = Kind(r)
  BY EditionVersionsAssumption DEF EditionVersionsAssumption, Commit, Kind
<1>6. \A K : MadeBy(n + 1, K)' <=> Kind(r) \in K
  BY <1>4, <1>5 DEF MadeBy
<1> QED BY <1>1, <1>2, <1>3, <1>4, <1>6, MadeKeeps

LEMMA CommitKeepsLog ==
  ASSUME Typed, Locked, History, NEW r \in Requests, NEW a \in Attempts, Commit(r, a), [Next]_vars,
         NEW n, n = Len(versions)
  PROVE  LogKept'
<1>n. /\ n \in Nat /\ n >= 1 /\ Ids = 1..n /\ Ids' = 1..(n + 1)
      /\ By(n + 1)' = r /\ \A K : MadeBy(n + 1, K)' <=> Kind(r) \in K
      /\ versions[n].log \subseteq versions'[n + 1].log
      /\ Kind(r) \in Deciding => r \in versions'[n + 1].log
  BY NewRow
<1>o. \A i \in Ids : By(i)' = By(i) /\ versions'[i] = versions[i] /\ \A K : MadeBy(i, K)' <=> MadeBy(i, K)
  BY MadeByStays
<1>1. ASSUME NEW i \in Ids', NEW v \in Ids', i <= v, MadeBy(i, Deciding)'
      PROVE  By(i)' \in versions'[v].log
  <2>1. CASE v \in Ids
    <3>1. i \in Ids
      BY <1>n, <1>1, <2>1
    <3> QED BY <1>o, <1>1, <2>1, <3>1 DEF History, LogKept
  <2>2. CASE v = n + 1 /\ i \in Ids
    <3>1. By(i) \in versions[n].log
      BY <1>n, <1>o, <1>1, <2>2 DEF History, LogKept
    <3> QED BY <1>n, <1>o, <2>2, <3>1
  <2>3. CASE v = n + 1 /\ i = n + 1
    BY <1>n, <1>1, <2>3 DEF MadeBy, By, Kind
  <2> QED BY <1>n, <2>1, <2>2, <2>3
<1> QED BY <1>1 DEF LogKept

LEMMA CommitKeepsEdits ==
  ASSUME Typed, Locked, History, NEW r \in Requests, NEW a \in Attempts, Commit(r, a), [Next]_vars,
         NEW n, n = Len(versions)
  PROVE  EditsSurvive'
<1>n. /\ n \in Nat /\ n >= 1 /\ Ids = 1..n /\ Ids' = 1..(n + 1) /\ Len(versions') = n + 1
      /\ By(n + 1)' = r /\ \A K : MadeBy(n + 1, K)' <=> Kind(r) \in K
      /\ Kind(r) = "save" => r \in versions'[n + 1].text
      /\ \/ Kind(r) \in Replacing \/ versions[n].text \subseteq versions'[n + 1].text
         \/ /\ Kind(r) = "save" /\ asked[r].patch = "whole"
            /\ versions[asked[r].seen].text \subseteq versions'[n + 1].text
  BY NewRow
<1>o. \A i \in Ids : By(i)' = By(i) /\ versions'[i] = versions[i] /\ \A K : MadeBy(i, K)' <=> MadeBy(i, K)
  BY MadeByStays
<1>w. \A i : \A j \in Ids : Overwrites(j, i)' <=> Overwrites(j, i)
  BY OverwritesStays
<1>s. asked[r].seen \in Ids /\ UNCHANGED asked
  BY CommitAppends DEF Typed, RequestsTyped, Commit
<1>h. ASSUME NEW i \in Ids, NEW v \in Ids, i <= v, MadeBy(i, {"save"})'
      PROVE  By(i)' \in versions'[v].text \/ \E j \in (i + 1)..v : Overwrites(j, i)'
  <2>1. v \in i..Len(versions) /\ i \in Nat /\ \A j \in (i + 1)..v : j \in Ids
    BY <1>n, <1>h
  <2>2. By(i) \in versions[v].text \/ \E j \in (i + 1)..v : Overwrites(j, i)
    BY <1>o, <1>h, <2>1 DEF History, EditsSurvive
  <2> QED BY <1>o, <1>w, <2>1, <2>2
<1>1. ASSUME NEW i \in Ids', NEW v \in i..(n + 1), MadeBy(i, {"save"})'
      PROVE  By(i)' \in versions'[v].text \/ \E j \in (i + 1)..v : Overwrites(j, i)'
  <2>i. i \in Nat /\ i >= 1 /\ v \in Nat
    BY <1>n
  <2>1. CASE v <= n
    <3>1. i \in Ids /\ v \in Ids /\ i <= v
      BY <1>n, <2>1, <2>i
    <3> QED BY <1>1, <1>h, <3>1
  <2>2. CASE v = n + 1 /\ i = n + 1
    BY <1>n, <1>1, <2>2 DEF MadeBy, By, Kind
  <2>3. CASE v = n + 1 /\ i <= n
    <3>1. i \in Ids /\ n \in Ids /\ n + 1 \in (i + 1)..v
      BY <1>n, <2>3, <2>i
    <3>2. ASSUME NEW u \in Ids, i <= u, versions[u].text \subseteq versions'[n + 1].text
          PROVE  By(i)' \in versions'[v].text \/ \E j \in (i + 1)..v : Overwrites(j, i)'
      <4>1. By(i)' \in versions'[u].text \/ \E j \in (i + 1)..u : Overwrites(j, i)'
        BY <1>1, <1>h, <3>1, <3>2
      <4>2. \A j \in (i + 1)..u : j \in (i + 1)..v
        BY <1>n, <2>3, <2>i, <3>2
      <4> QED BY <1>o, <2>3, <3>2, <4>1, <4>2
    <3>3. CASE Kind(r) \in Replacing
      <4>1. Overwrites(n + 1, i)'
        BY <1>n, <3>3 DEF Replacing, Overwrites
      <4> QED BY <3>1, <4>1
    <3>4. CASE versions[n].text \subseteq versions'[n + 1].text
      BY <1>n, <2>3, <3>1, <3>2, <3>4
    <3>5. CASE /\ Kind(r) = "save" /\ asked[r].patch = "whole"
               /\ versions[asked[r].seen].text \subseteq versions'[n + 1].text
      <4>1. CASE asked[r].seen < i
        <5>1. Overwrites(n + 1, i)'
          BY <1>n, <1>s, <3>5, <4>1 DEF Overwrites
        <5> QED BY <3>1, <5>1
      <4>2. CASE i <= asked[r].seen
        BY <1>s, <3>2, <3>5, <4>2
      <4> QED BY <1>n, <1>s, <2>i, <4>1, <4>2
    <3> QED BY <1>n, <3>3, <3>4, <3>5
  <2> QED BY <1>n, <2>i, <2>1, <2>2, <2>3
<1> QED BY <1>1, <1>n DEF EditsSurvive

LEMMA CommitTells ==
  ASSUME Typed, Locked, History, NEW r \in Requests, NEW a \in Attempts, Commit(r, a), [Next]_vars,
         NEW n, n = Len(versions)
  PROVE  RevisionsTell'
<1>n. /\ n \in Nat /\ n >= 1 /\ Ids = 1..n /\ Ids' = 1..(n + 1)
      /\ \A K : MadeBy(n + 1, K)' <=> Kind(r) \in K
      /\ \/ Kind(r) = "redraft" \/ versions[n].revision < versions'[n + 1].revision
         \/ /\ versions[n].revision = versions'[n + 1].revision /\ Kind(r) \in Quiet
            /\ versions'[n + 1].log = versions[n].log
  BY NewRow
<1>o. \A i \in Ids : versions'[i] = versions[i] /\ \A K : MadeBy(i, K)' <=> MadeBy(i, K)
  BY MadeByStays
<1>r. \A i \in Ids' : versions'[i].revision \in Nat
  <2>1. Typed'
    BY StepTyped
  <2>2. \A i \in Ids' : versions'[i] \in Rows
    BY <2>1 DEF Typed, VersionsTyped, Ids
  <2> QED BY <2>2 DEF Rows
<1>1. ASSUME NEW s \in Ids', NEW k \in Ids', s < k
      PROVE  \/ \E m \in (s + 1)..k : MadeBy(m, {"redraft"})'
             \/ versions'[s].revision < versions'[k].revision
             \/ /\ versions'[s].revision = versions'[k].revision
                /\ \A m \in (s + 1)..k : MadeBy(m, Quiet)' /\ versions'[m].log = versions'[s].log
  <2>i. s \in Nat /\ s >= 1 /\ k \in Nat /\ s \in Ids /\ n \in Ids
    BY <1>n, <1>1
  <2>1. CASE k <= n
    <3>1. k \in Ids /\ \A m \in (s + 1)..k : m \in Ids
      BY <1>n, <2>i, <2>1
    <3>2. \/ \E m \in (s + 1)..k : MadeBy(m, {"redraft"})
          \/ versions[s].revision < versions[k].revision
          \/ /\ versions[s].revision = versions[k].revision
             /\ \A m \in (s + 1)..k : MadeBy(m, Quiet) /\ versions[m].log = versions[s].log
      BY <1>1, <2>i, <3>1 DEF History, RevisionsTell
    <3> QED BY <1>o, <2>i, <3>1, <3>2
  <2>2. CASE k = n + 1
    <3>m. \A m \in (s + 1)..k : m = n + 1 \/ (m \in (s + 1)..n /\ m \in Ids)
      BY <1>n, <2>i, <2>2
    <3>k. n + 1 \in (s + 1)..k /\ \A m \in (s + 1)..n : m \in (s + 1)..k
      BY <1>n, <1>1, <2>i, <2>2
    <3>1. CASE Kind(r) = "redraft"
      BY <1>n, <3>k, <3>1 DEF MadeBy, By, Kind
    <3>2. CASE \E m \in (s + 1)..n : MadeBy(m, {"redraft"})
      <4>1. PICK m \in (s + 1)..n : MadeBy(m, {"redraft"})
        BY <3>2
      <4>2. m \in Ids
        BY <1>n, <2>i, <4>1
      <4> QED BY <1>o, <3>k, <4>1, <4>2
    <3>3. CASE Kind(r) # "redraft" /\ ~\E m \in (s + 1)..n : MadeBy(m, {"redraft"})
      <4>1. \/ versions[s].revision < versions[n].revision
            \/ /\ versions[s].revision = versions[n].revision
               /\ \A m \in (s + 1)..n : MadeBy(m, Quiet) /\ versions[m].log = versions[s].log
        <5>1. CASE s = n
          BY <1>n, <5>1
        <5>2. CASE s < n
          BY <2>i, <3>3, <5>2 DEF History, RevisionsTell
        <5> QED BY <1>n, <1>1, <2>2, <2>i, <5>1, <5>2
      <4>l. versions[n].log = versions[s].log \/ versions[s].revision < versions[n].revision
        BY <1>n, <1>1, <2>2, <2>i, <4>1
      <4>2. /\ versions'[s].revision = versions[s].revision
            /\ versions'[n].revision = versions[n].revision
            /\ versions'[s].revision \in Nat /\ versions'[n].revision \in Nat
            /\ versions'[n + 1].revision \in Nat
        BY <1>n, <1>o, <1>r, <2>i
      <4>3. CASE versions'[s].revision < versions'[n + 1].revision
        BY <2>2, <4>3
      <4>4. CASE ~(versions'[s].revision < versions'[n + 1].revision)
        <5>1. /\ versions[s].revision = versions[n].revision
              /\ versions[n].revision = versions'[n + 1].revision
          BY <1>n, <3>3, <4>1, <4>2, <4>4
        <5>2. Kind(r) \in Quiet /\ versions'[n + 1].log = versions[n].log
          BY <1>n, <3>3, <4>2, <5>1
        <5>3. /\ versions[n].log = versions[s].log
              /\ \A m \in (s + 1)..n : MadeBy(m, Quiet) /\ versions[m].log = versions[s].log
          BY <4>1, <4>l, <4>2, <5>1
        <5>4. MadeBy(n + 1, Quiet)' /\ versions'[n + 1].log = versions'[s].log
          BY <1>n, <1>o, <2>i, <5>2, <5>3
        <5>5. \A m \in (s + 1)..k : MadeBy(m, Quiet)' /\ versions'[m].log = versions'[s].log
          BY <1>o, <2>i, <3>m, <5>3, <5>4 DEF MadeBy, By, Kind
        <5> QED BY <2>2, <4>2, <5>1, <5>5
      <4> QED BY <4>3, <4>4
    <3> QED BY <3>1, <3>2, <3>3
  <2> QED BY <1>n, <2>i, <2>1, <2>2
<1> QED BY <1>1 DEF RevisionsTell


LEMMA CommitFollows ==
  ASSUME Typed, Locked, History, NEW r \in Requests, NEW a \in Attempts, Commit(r, a), [Next]_vars,
         NEW n, n = Len(versions)
  PROVE  DecisionsFollowWhatWasSeen'
<1>n. /\ n \in Nat /\ n >= 1 /\ Ids = 1..n /\ Ids' = 1..(n + 1)
      /\ By(n + 1)' = r /\ \A K : MadeBy(n + 1, K)' <=> Kind(r) \in K
  BY NewRow
<1>o. \A i \in Ids : /\ By(i)' = By(i) /\ versions'[i] = versions[i]
                     /\ \A K : MadeBy(i, K)' <=> MadeBy(i, K)
                     /\ By(i) # Initial => asked'[By(i)] = asked[By(i)]
  BY MadeByStays
<1>s. asked[r].seen \in Ids /\ UNCHANGED asked /\ Accepts(r, n)
  BY CommitAppends DEF Typed, RequestsTyped, Commit
<1>1. ASSUME NEW j \in Ids, MadeBy(j, {"decide"})
      PROVE  LET between == {k \in Ids' : asked'[versions'[j].by].seen < k /\ k < j}
             IN \/ \E k \in between : MadeBy(k, {"redraft"})'
                \/ \A k \in between :
                     /\ MadeBy(k, {"save", "generate", "compile"})'
                     /\ versions'[k].log = versions'[asked'[versions'[j].by].seen].log
  <2> DEFINE q == versions[j].by
             seen == asked[q].seen
             between == {k \in Ids : seen < k /\ k < j}
  <2>1. q \in Requests /\ asked[q] # Unasked
    BY <1>1, MakersTyped DEF MadeBy, By, Typed, VersionsTyped
  <2>2. seen \in Ids /\ asked'[versions'[j].by].seen = seen
    BY <1>o, <1>s, <2>1 DEF Typed, RequestsTyped
  <2>3. {k \in Ids' : seen < k /\ k < j} = between
    BY <1>n, <1>1, <2>2
  <2>4. \/ \E k \in between : MadeBy(k, {"redraft"})
        \/ \A k \in between : MadeBy(k, {"save", "generate", "compile"})
                              /\ versions[k].log = versions[seen].log
    BY <1>1 DEF History, DecisionsFollowWhatWasSeen, By
  <2> HIDE DEF q, seen
  <2> QED BY <1>o, <2>2, <2>3, <2>4
<1>2. ASSUME Kind(r) = "decide"
      PROVE  LET seen == asked[r].seen
                 between == {k \in Ids' : seen < k /\ k < n + 1}
             IN \/ \E k \in between : MadeBy(k, {"redraft"})'
                \/ \A k \in between : MadeBy(k, {"save", "generate", "compile"})'
                                      /\ versions'[k].log = versions'[seen].log
  <2> DEFINE seen == asked[r].seen
  <2>1. versions[seen].revision = versions[n].revision
    BY <1>s, <1>2 DEF Accepts, SameRevision
  <2>2. versions[n].revision \in Nat /\ seen \in Ids /\ n \in Ids
    <3>1. n \in Ids
      BY <1>n
    <3>2. versions[n] \in Rows
      BY <3>1, MakersTyped
    <3> QED BY <1>s, <3>1, <3>2 DEF Rows
  <2> HIDE DEF seen
  <2>3. \A k : k \in Ids' /\ seen < k /\ k < n + 1 <=> k \in (seen + 1)..n
    BY <1>n, <2>2
  <2>4. CASE seen < n
    <3>1. \/ \E m \in (seen + 1)..n : MadeBy(m, {"redraft"})
          \/ \A m \in (seen + 1)..n : MadeBy(m, Quiet) /\ versions[m].log = versions[seen].log
      <4>1. ~(versions[seen].revision < versions[n].revision)
        BY <2>1, <2>2
      <4> QED BY <2>2, <2>4, <4>1 DEF History, RevisionsTell
    <3>2. \A m \in (seen + 1)..n : m \in Ids
      BY <1>n, <2>2
    <3> QED BY <1>o, <2>2, <2>3, <3>1, <3>2 DEF Quiet, seen
  <2>5. CASE ~(seen < n)
    <3>1. (seen + 1)..n = {}
      BY <1>n, <2>2, <2>5
    <3> QED BY <2>3, <3>1 DEF seen
  <2> QED BY <2>4, <2>5
<1>3. \A j \in Ids : MadeBy(j, {"decide"})' => MadeBy(j, {"decide"})
  BY <1>o
<1> SUFFICES ASSUME NEW j \in Ids', MadeBy(j, {"decide"})'
             PROVE  LET between == {k \in Ids' : asked'[versions'[j].by].seen < k /\ k < j}
                    IN \/ \E k \in between : MadeBy(k, {"redraft"})'
                       \/ \A k \in between :
                            /\ MadeBy(k, {"save", "generate", "compile"})'
                            /\ versions'[k].log = versions'[asked'[versions'[j].by].seen].log
  BY DEF DecisionsFollowWhatWasSeen, By
<1>4. CASE j \in Ids
  BY <1>1, <1>3, <1>4
<1>5. CASE j = n + 1
  <2>1. Kind(r) = "decide" /\ versions'[j].by = r
    BY <1>n, <1>s, <1>5 DEF MadeBy, By, Kind
  <2> QED BY <1>2, <1>s, <1>5, <2>1
<1> QED BY <1>n, <1>4, <1>5

LEMMA StepHistory ==
  ASSUME Typed, Locked, History, [Next]_vars
  PROVE  History'
<1>1. ASSUME NEW r \in Requests, NEW a \in Attempts, Commit(r, a) PROVE History'
  <2>1. PICK n : n = Len(versions)
    OBVIOUS
  <2>2. LogKept' /\ EditsSurvive'
    BY <1>1, <2>1, CommitKeepsLog, CommitKeepsEdits
  <2>3. RevisionsTell' /\ DecisionsFollowWhatWasSeen'
    BY <1>1, <2>1, CommitTells, CommitFollows
  <2> QED BY <2>2, <2>3 DEF History
<1>2. ASSUME NEW r \in Requests, NEW a \in Attempts,
             Begin(r, a) \/ Read(r, a) \/ Lose(r, a)
      PROVE  History'
  <2>1. UNCHANGED versions
    BY <1>2 DEF Begin, Read, Lose
  <2> QED BY <2>1, NoRowHistory
<1>3. ASSUME NEW r \in Requests, Ask(r) PROVE History'
  <2>1. UNCHANGED versions
    BY <1>3 DEF Ask
  <2> QED BY <2>1, NoRowHistory
<1>4. UNCHANGED vars => History'
  BY NoRowHistory DEF vars
<1> QED BY <1>1, <1>2, <1>3, <1>4 DEF Next

LEMMA StepAll == Typed /\ Locked /\ History /\ [Next]_vars => (Typed /\ Locked /\ History)'
  BY StepTyped, StepLocked, StepHistory

\* The latest version carries every change of status on its log, for any number of
\* requests, retries and lost connections; and an accepted save is in every later text,
\* except after a restore, after a generated draft, and after a save sent without a stamp,
\* which replaces the text by one from before it.
THEOREM Kept == Spec => []NothingAcceptedIsLost
<1>1. Typed /\ History => NothingAcceptedIsLost
  <2> SUFFICES ASSUME Typed, History PROVE NothingAcceptedIsLost
    OBVIOUS
  <2>1. /\ latest = {Len(versions)} /\ Ids = 1..Len(versions)
        /\ Len(versions) \in Nat /\ Len(versions) >= 1
    BY IdsAre DEF Typed, VersionsTyped
  <2>2. Cardinality(latest) = 1
    BY <2>1, FS_Singleton
  <2>3. \A i \in Ids : MadeBy(i, Deciding) => By(i) \in versions[Len(versions)].log
    <3>1. Len(versions) \in Ids /\ \A i \in Ids : i <= Len(versions)
      BY <2>1
    <3> QED BY <3>1 DEF History, LogKept
  <2> QED BY <2>1, <2>2, <2>3
          DEF History, NothingAcceptedIsLost, LatestHasTheWholeRecord, Deciding
<1> QED BY InitTyped, InitHistory, StepAll, <1>1, PTL DEF Spec

\* Between the version a reviewer saw and the reviewer's decision no one else decided in
\* the same round: no status and no audit log changed.  Saves and generated drafts may lie
\* between, so it says nothing of the text, which the reviewer may not have seen.
THEOREM NoDecisionBetween == Spec => []DecisionsFollowWhatWasSeen
<1>1. History => DecisionsFollowWhatWasSeen
  BY DEF History
<1> QED BY InitTyped, InitHistory, StepAll, <1>1, PTL DEF Spec

\* A keyed request that was answered keeps its answer, and none of its later calls is
\* refused.
THEOREM Replayed == Spec => RetryIsReplayed
<1>1. ASSUME Typed, Locked, [Next]_vars
      PROVE  \A r \in Requests : answered[r] # None
               => /\ answered'[r] = answered[r]
                  /\ \A a \in Attempts : call'[<<r, a>>].pc = "refused"
                                            => call[<<r, a>>].pc = "refused"
  <2> SUFFICES ASSUME NEW r \in Requests, answered[r] # None
               PROVE  /\ answered'[r] = answered[r]
                      /\ \A a \in Attempts : call'[<<r, a>>].pc = "refused"
                                                => call[<<r, a>>].pc = "refused"
    OBVIOUS
  <2>k. /\ Kind(r) \in Keyed
        /\ \A a \in Attempts : call[<<r, a>>].pc \notin InTransaction
    BY <1>1 DEF Typed, RequestsTyped, Locked, Holds
  <2>1. ASSUME NEW q \in Requests, NEW b \in Attempts,
               Begin(q, b) \/ Read(q, b) \/ Commit(q, b) \/ Lose(q, b)
        PROVE  \A a \in Attempts : call'[<<r, a>>].pc = "refused" => call[<<r, a>>].pc = "refused"
    <3>1. \A a \in Attempts : r # q \/ a # b => call'[<<r, a>>] = call[<<r, a>>]
      BY <1>1, <2>1, OtherCalls
    <3>2. CASE r # q
      BY <3>1, <3>2
    <3>3. CASE r = q
      <4>1. ~Read(q, b) /\ ~Commit(q, b) /\ ~Lose(q, b)
        BY <2>k, <3>3 DEF Read, Commit, Lose, InTransaction
      <4>2. Begin(q, b) /\ <<q, b>> \in Calls
        BY <2>1, <4>1 DEF Calls
      <4>3. call'[<<q, b>>].pc # "refused"
        BY <1>1, <4>2 DEF Begin, To, Typed, CallsTyped
      <4> QED BY <3>1, <3>3, <4>3
    <3> QED BY <3>2, <3>3
  <2>2. ASSUME NEW q \in Requests, NEW b \in Attempts, Commit(q, b)
        PROVE  answered'[r] = answered[r]
    <3>1. q # r
      BY <2>k, <2>2 DEF Commit, InTransaction
    <3> QED BY <1>1, <2>2, <3>1 DEF Commit, Typed, RequestsTyped
  <2>3. ASSUME NEW q \in Requests, NEW b \in Attempts, Begin(q, b) \/ Read(q, b) \/ Lose(q, b)
        PROVE  UNCHANGED answered
    BY <2>3 DEF Begin, Read, Lose
  <2>4. ASSUME NEW q \in Requests, Ask(q) PROVE UNCHANGED <<answered, call>>
    BY <2>4 DEF Ask
  <2> QED BY <1>1, <2>1, <2>2, <2>3, <2>4 DEF Next, vars
<1>2. Typed /\ Locked /\ [Next]_vars => (Typed /\ Locked)'
  BY StepTyped, StepLocked
<1>3. Typed /\ Locked /\ [Next]_vars
        => [\A r \in Requests : answered[r] # None
              => /\ answered'[r] = answered[r]
                 /\ \A a \in Attempts : call'[<<r, a>>].pc = "refused"
                                           => call[<<r, a>>].pc = "refused"]_vars
  BY <1>1
<1> QED BY InitTyped, <1>2, <1>3, PTL DEF Spec, RetryIsReplayed
================================================================================
