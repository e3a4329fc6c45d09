------------------------- MODULE CrawlAndServingProofs -------------------------
(***************************************************************************)
(* Proofs about content on its way in and on its way out: the jobs at the  *)
(* crawl service (CrawlJobs, for any numbers of workers, jobs, faults and  *)
(* redeliveries; what rows, results and remote jobs have in common, for    *)
(* one worker) and the serving of pages (HostServing, for every set of     *)
(* sites, hosts, releases, manifests and requests, and any number of moves *)
(* and faults).  The two components share no state, and each part uses the *)
(* definitions of its own one only.                                        *)
(***************************************************************************)
EXTENDS HostServing, CrawlJobs, TLAPS, SequenceTheorems, FiniteSetTheorems

(***************************************************************************)
(* HostServing: the inductive invariant.                                   *)
(***************************************************************************)
Last == used.routings + used.releases + 1
Files == UNION {Listed(x) : x \in Releases}
Tasks == [step: Steps, kind: Kinds, host: Hosts \cup {Nothing}, path: Paths \cup {Nothing},
          etag: Nat, manifest: Manifests \cup {Nothing}, site: Sites \cup {NoSite},
          release: Releases \cup {Nothing}, object: Files \cup {Nothing},
          answer: Answers, content: Objects \cup {Nothing}]
Entries(values) == [etag: Nat, value: values \cup {Nothing}]

\* No ETag is beyond the last one given; there is one where there is a value.
Given(entry) == entry.etag <= Last
Whole(entry) == entry.etag = 0 <=> entry.value = Nothing

BoundsTyped ==
  /\ plot \in Plots
  /\ used \in [routings: 0..plot.routings, releases: 0..plot.releases, faults: 0..plot.faults]
PointersTyped ==
  /\ routing \in Entries(Manifests) /\ Given(routing) /\ Whole(routing)
  /\ pointer \in [Sites -> Entries(Releases)]
  /\ \A s \in Sites : /\ Given(pointer[s]) /\ Whole(pointer[s])
                      /\ pointer[s].value # Nothing => Built[pointer[s].value].site = s
  /\ damaged \subseteq Objects

\* What is remembered with the ETag that its pointer has is what the pointer names; what a
\* page is remembered under tells its release and its path.
Kept(e) == e = [key |-> PageKey(e.content[1], e.content[2]), content |-> e.content]
CachesTrue ==
  /\ manifests \in [Resolvers -> Entries(Manifests)]
  /\ states \in [Resolvers -> [Sites -> Entries(Releases)]]
  /\ \A v \in Resolvers :
       /\ Given(manifests[v]) /\ (manifests[v].etag = routing.etag => manifests[v].value = routing.value)
       /\ \A s \in Sites :
            /\ Given(states[v][s])
            /\ states[v][s].etag = pointer[s].etag => states[v][s].value = pointer[s].value
  /\ \A e \in pages : e.content \in Objects /\ Kept(e)

RequestsTyped ==
  /\ req \in [Requests -> Tasks]
  /\ seen \in [Requests -> [manifests: SUBSET Manifests, releases: SUBSET Releases,
                            disturbed: BOOLEAN]]
  /\ \A r \in Requests : req[r].etag <= Last

Typed == BoundsTyped /\ PointersTyped /\ RequestsTyped

\* What an open request knows: what the pointers name, and what it read, was named while
\* it was open; and if nothing moved, it still is.
Routed == {"site", "site pointer", "release", "route", "object"}
Placed == {"release", "route", "object"}

Asked(r) ==
  /\ req[r].answer # Nothing <=> At(r, "done")
  /\ r \in Open => /\ req[r].host \in Hosts /\ req[r].path \in Paths
                   /\ routing.value # Nothing => routing.value \in seen[r].manifests
                   /\ Current \subseteq seen[r].releases
Knows(r) ==
  /\ req[r].step \in {"routing pointer", "site pointer"} => req[r].etag # 0
  /\ req[r].step \in Routed \cup {"manifest"} => req[r].manifest \in seen[r].manifests
  /\ At(r, "manifest") /\ req[r].etag = routing.etag => req[r].manifest = routing.value
  /\ req[r].step \in Routed => req[r].site \in Sites
                               /\ Routing[req[r].manifest].site[req[r].host] = req[r].site
  /\ req[r].step \in Placed => req[r].release \in seen[r].releases
                               /\ Built[req[r].release].site = req[r].site
  /\ At(r, "release") /\ req[r].etag = pointer[req[r].site].etag
       => req[r].release = pointer[req[r].site].value
  /\ At(r, "object") => req[r].object = ObjectOf(r) /\ req[r].object # Nothing
Undisturbed(r) ==
  ~seen[r].disturbed =>
    /\ At(r, "routing pointer") => req[r].etag = routing.etag
    /\ req[r].step \in Routed \cup {"manifest"} => req[r].manifest = routing.value
    /\ At(r, "site pointer") => req[r].etag = pointer[req[r].site].etag
    /\ At(r, "release") => req[r].release = pointer[req[r].site].value

\* AnswersAreTrue, of one request.
AnswerTrue(r) ==
  /\ req[r].answer = "unknown host" =>
       \E m \in seen[r].manifests : Routing[m].site[req[r].host] = NoSite
  /\ req[r].answer \in {"page", "gone", "no file"} =>
       /\ req[r].release \in seen[r].releases
       /\ \E m \in seen[r].manifests : Routing[m].site[req[r].host] = Built[req[r].release].site
  /\ req[r].answer = "page" => req[r].content = Object(req[r].release, ObjectOf(r))

Attended(r) == Asked(r) /\ Knows(r) /\ Undisturbed(r) /\ AnswerTrue(r)
IInv == Typed /\ CachesTrue /\ \A r \in Requests : Attended(r)

LEMMA EntryTyped ==
  ASSUME NEW values, NEW etag \in Nat, NEW value \in values \cup {Nothing}
  PROVE  /\ Entry(etag, value) \in Entries(values)
         /\ Entry(etag, value).etag = etag /\ Entry(etag, value).value = value
  BY DEF Entry, Entries

LEMMA InitIInv == Init => IInv
<1> SUFFICES ASSUME Init PROVE IInv
  OBVIOUS
<1>a. NoSite \notin Sites /\ Nothing \notin Releases \cup Manifests
  BY HostServingAssumption DEF HostServingAssumption
<1>1. PICK m \in Manifests, warm \in BOOLEAN, none \in BOOLEAN, first \in [Sites -> Releases \cup {Nothing}] :
       /\ \A s \in Sites : first[s] # Nothing => /\ Built[first[s]].site = s /\ ~none
                                              /\ Built[first[s]].domain = Routing[m].canonical[s]
       /\ routing = IF none THEN NoEntry ELSE Entry(1, m)
       /\ pointer = [s \in Sites |-> IF first[s] = Nothing THEN NoEntry ELSE Entry(1, first[s])]
       /\ manifests = [v \in Resolvers |-> IF warm THEN routing ELSE NoEntry]
       /\ states = [v \in Resolvers |-> [s \in Sites |-> IF warm THEN pointer[s] ELSE NoEntry]]
  BY DEF Init
<1>n. /\ NoEntry \in Entries(Manifests) /\ NoEntry \in Entries(Releases)
      /\ NoEntry.etag = 0 /\ NoEntry.value = Nothing
  BY EntryTyped DEF NoEntry
<1>u. BoundsTyped /\ Last = 1
  <2>1. plot \in Plots /\ used = [routings |-> 0, releases |-> 0, faults |-> 0]
    BY DEF Init
  <2>2. 0 \in 0..plot.routings /\ 0 \in 0..plot.releases /\ 0 \in 0..plot.faults
    BY <2>1, HostServingAssumption DEF HostServingAssumption
  <2> QED BY <2>1, <2>2 DEF BoundsTyped, Last
<1>r. routing \in Entries(Manifests) /\ Given(routing) /\ Whole(routing)
  <2>1. CASE none
    BY <1>1, <1>n, <1>u, <2>1 DEF Given, Whole
  <2>2. CASE ~none
    <3>1. routing = Entry(1, m)
      BY <1>1, <2>2
    <3>m. m \in Manifests \cup {Nothing}
      OBVIOUS
    <3>2. Entry(1, m) \in Entries(Manifests) /\ Entry(1, m).etag = 1 /\ Entry(1, m).value = m
      BY <3>m, EntryTyped
    <3>3. m # Nothing
      BY <1>a
    <3> QED BY <1>u, <3>1, <3>2, <3>3 DEF Given, Whole
  <2> QED BY <2>1, <2>2
<1>p. /\ pointer \in [Sites -> Entries(Releases)]
      /\ \A s \in Sites : /\ Given(pointer[s]) /\ Whole(pointer[s])
                          /\ pointer[s].value # Nothing => Built[pointer[s].value].site = s
  <2>1. ASSUME NEW s \in Sites
        PROVE  /\ pointer[s] \in Entries(Releases) /\ Given(pointer[s]) /\ Whole(pointer[s])
               /\ pointer[s].value # Nothing => Built[pointer[s].value].site = s
    <3>1. CASE first[s] = Nothing
      BY <1>1, <1>n, <1>u, <3>1 DEF Given, Whole
    <3>2. CASE first[s] # Nothing
      <4>1. pointer[s] = Entry(1, first[s]) /\ first[s] \in Releases
        BY <1>1, <3>2
      <4> DEFINE x == first[s]
      <4> HIDE DEF x
      <4>2. Entry(1, x) \in Entries(Releases) /\ Entry(1, x).etag = 1 /\ Entry(1, x).value = x
        BY <4>1, EntryTyped DEF x
      <4>3. x # Nothing /\ Built[x].site = s
        BY <1>1, <3>2 DEF x
      <4> QED BY <1>u, <4>1, <4>2, <4>3 DEF Given, Whole, x
    <3> QED BY <3>1, <3>2
  <2>2. pointer = [s \in Sites |-> pointer[s]]
    BY <1>1
  <2> QED BY <2>1, <2>2
<1>2. PointersTyped
  BY <1>r, <1>p DEF Init, PointersTyped
<1>3. RequestsTyped
  <2>1. NoRequest \in Tasks
    <3>1. "closed" \in Steps /\ "page" \in Kinds /\ Nothing \in Answers
      BY DEF Steps, Kinds, Answers
    <3> QED BY <3>1 DEF NoRequest, Tasks
  <2>2. NoRequest.etag = 0
    BY DEF NoRequest
  <2> QED BY <1>u, <2>1, <2>2 DEF Init, RequestsTyped
<1>4. CachesTrue
  <2>1. /\ manifests \in [Resolvers -> Entries(Manifests)]
        /\ \A v \in Resolvers : Given(manifests[v])
             /\ (manifests[v].etag = routing.etag => manifests[v].value = routing.value)
    BY <1>1, <1>n, <1>r, <1>u DEF Given, Whole
  <2>2. ASSUME NEW v \in Resolvers, NEW s \in Sites
        PROVE  /\ states[v][s] \in Entries(Releases) /\ Given(states[v][s])
               /\ states[v][s].etag = pointer[s].etag => states[v][s].value = pointer[s].value
    BY <1>1, <1>n, <1>p, <1>u DEF Given, Whole
  <2>3. states = [v \in Resolvers |-> [s \in Sites |-> states[v][s]]]
    BY <1>1
  <2> QED BY <2>1, <2>2, <2>3 DEF Init, CachesTrue
<1>5. ASSUME NEW r \in Requests PROVE Attended(r)
  <2>1. req[r] = NoRequest
    BY DEF Init
  <2>2. req[r].step = "closed" /\ req[r].answer = Nothing
    BY <2>1 DEF NoRequest
  <2> QED BY <2>2 DEF Attended, Asked, Knows, Undisturbed, AnswerTrue, Open, At, Routed, Placed, Nothing
<1> QED BY <1>u, <1>2, <1>3, <1>4, <1>5 DEF IInv, Typed


(***************************************************************************)
(* The store: a pointer that moves has an ETag nobody has seen.            *)
(***************************************************************************)
LEMMA BoundsNat ==
  ASSUME Typed
  PROVE  /\ plot.routings \in Nat /\ plot.releases \in Nat /\ plot.faults \in Nat
         /\ used.routings \in 0..plot.routings /\ used.releases \in 0..plot.releases
         /\ used.faults \in 0..plot.faults
         /\ used.routings \in Nat /\ used.releases \in Nat /\ Last \in Nat
<1>1. plot.routings \in Nat /\ plot.releases \in Nat /\ plot.faults \in Nat
  BY HostServingAssumption DEF HostServingAssumption, Typed, BoundsTyped
<1>2. /\ used.routings \in 0..plot.routings /\ used.releases \in 0..plot.releases
      /\ used.faults \in 0..plot.faults
  BY DEF Typed, BoundsTyped
<1> QED BY <1>1, <1>2 DEF Last

LEMMA UseTyped ==
  ASSUME Typed, UNCHANGED plot,
         NEW k \in {"routings", "releases", "faults"}, Use(k)
  PROVE  /\ BoundsTyped' /\ Last' = IF k = "faults" THEN Last ELSE Last + 1
         /\ Last' \in Nat
<1>1. used' = [used EXCEPT ![k] = used[k] + 1] /\ used[k] < plot[k]
  BY DEF Use
<1>2. used \in [routings: 0..plot.routings, releases: 0..plot.releases, faults: 0..plot.faults]
  BY DEF Typed, BoundsTyped
<1>3. CASE k = "routings"
  BY <1>1, <1>2, <1>3, BoundsNat DEF Typed, BoundsTyped, Last
<1>4. CASE k = "releases"
  BY <1>1, <1>2, <1>4, BoundsNat DEF Typed, BoundsTyped, Last
<1>5. CASE k = "faults"
  BY <1>1, <1>2, <1>5, BoundsNat DEF Typed, BoundsTyped, Last
<1> QED BY <1>3, <1>4, <1>5

\* What See adds to every open request, and nothing to the others.
LEMMA Seen ==
  ASSUME Typed, NEW ms \in SUBSET Manifests, NEW xs \in SUBSET Releases, See(ms, xs)
  PROVE  /\ seen' \in [Requests -> [manifests: SUBSET Manifests, releases: SUBSET Releases,
                                    disturbed: BOOLEAN]]
         /\ \A r \in Requests :
              IF r \in Open THEN /\ seen'[r].manifests = seen[r].manifests \cup ms
                                 /\ seen'[r].releases = seen[r].releases \cup xs
                                 /\ seen'[r].disturbed
              ELSE seen'[r] = seen[r]
<1>1. \A r \in Requests : seen[r] \in [manifests: SUBSET Manifests, releases: SUBSET Releases,
                                       disturbed: BOOLEAN]
  BY DEF Typed, RequestsTyped
<1> QED BY <1>1 DEF See

LEMMA ClosedKnowsNothing ==
  ASSUME NEW r \in Requests, r \notin Open
  PROVE  req[r].step \in {"closed", "done"}
  BY DEF Open

\* When a pointer moves or an object is damaged, what a request said of pointers it has
\* read still holds, as the ETag is new.
LEMMA StoreAttended ==
  ASSUME IInv, UNCHANGED req, NEW ms \in SUBSET Manifests, NEW xs \in SUBSET Releases, See(ms, xs),
         routing'.value # Nothing => routing'.value \in ms \/ routing' = routing,
         Current' \subseteq Current \cup xs,
         \A r \in Requests : req[r].etag = routing'.etag => routing' = routing,
         \A r \in Requests, s \in Sites : req[r].etag = pointer'[s].etag => pointer'[s] = pointer[s]
  PROVE  \A r \in Requests : Attended(r)'
<1> SUFFICES ASSUME NEW r \in Requests PROVE Attended(r)'
  OBVIOUS
<1>1. Attended(r) /\ Typed
  BY DEF IInv
<1>2. CASE r \in Open
  <2>1. /\ seen'[r].manifests = seen[r].manifests \cup ms
        /\ seen'[r].releases = seen[r].releases \cup xs
        /\ seen'[r].disturbed
    BY <1>1, <1>2, Seen
  <2>2. Asked(r)'
    BY <1>1, <2>1 DEF Attended, Asked, Open, At
  <2>3. Knows(r)'
    <3>1. req[r].step \in Placed => req[r].step \in Routed
      BY DEF Placed, Routed
    <3>2. At(r, "release") => req[r].step \in Routed
      BY DEF At, Routed
    <3>3. ObjectOf(r)' = ObjectOf(r)
      BY DEF ObjectOf
    <3> QED BY <1>1, <2>1, <3>1, <3>2, <3>3 DEF Attended, Knows, At
  <2>4. Undisturbed(r)'
    BY <2>1 DEF Undisturbed
  <2>5. AnswerTrue(r)'
    <3>1. req[r].answer = Nothing
      BY <1>1, <1>2 DEF Attended, Asked, Open, At
    <3> QED BY <3>1 DEF AnswerTrue, Nothing
  <2> QED BY <2>2, <2>3, <2>4, <2>5 DEF Attended
<1>3. CASE r \notin Open
  <2>1. seen'[r] = seen[r]
    BY <1>1, <1>3, Seen
  <2>2. req[r].step \in {"closed", "done"}
    BY <1>3, ClosedKnowsNothing
  <2>3. Asked(r)'
    BY <1>1, <2>2 DEF Attended, Asked, Open, At
  <2>4. Knows(r)' /\ Undisturbed(r)'
    BY <2>2 DEF Knows, Undisturbed, At, Routed, Placed
  <2>5. AnswerTrue(r)'
    BY <1>1, <2>1 DEF Attended, AnswerTrue, ObjectOf
  <2> QED BY <2>3, <2>4, <2>5 DEF Attended
<1> QED BY <1>2, <1>3

LEMMA RoutingMoves ==
  ASSUME IInv, NEW m \in Manifests, MoveRouting(m)
  PROVE  IInv'
<1>t. Typed /\ CachesTrue
  BY DEF IInv
<1>a. Nothing \notin Manifests
  BY HostServingAssumption DEF HostServingAssumption
<1>1. BoundsTyped' /\ Last' = Last + 1 /\ Last \in Nat
  BY <1>t, UseTyped, BoundsNat DEF MoveRouting
<1>2. NewEtag = Last + 1 /\ NewEtag \in Nat
  BY <1>t, BoundsNat DEF NewEtag, Last
<1>3. /\ routing' \in Entries(Manifests) /\ routing'.etag = Last + 1 /\ routing'.value = m
  <2>1. routing' = Entry(NewEtag, m) /\ m \in Manifests \cup {Nothing}
    BY DEF MoveRouting
  <2> QED BY <1>2, <2>1, EntryTyped
<1>g. \A e : e.etag \in Nat /\ Given(e) => Given(e)' /\ e.etag # Last + 1
  BY <1>1 DEF Given
<1>u. UNCHANGED <<plot, pointer, damaged, manifests, states, pages, req>> /\ See({m}, {})
  BY DEF MoveRouting, caches
<1>4. PointersTyped'
  <2>1. Given(routing)' /\ Whole(routing)'
    BY <1>1, <1>3, <1>a DEF Given, Whole
  <2>2. \A s \in Sites : pointer[s].etag \in Nat /\ Given(pointer[s])
    BY <1>t DEF Typed, PointersTyped, Entries
  <2>3. \A s \in Sites : Given(pointer[s])'
    BY <1>1, <1>u, <2>2 DEF Given
  <2> QED BY <1>t, <1>u, <1>3, <2>1, <2>3 DEF Typed, PointersTyped, Whole
<1>5. CachesTrue'
  <2>1. \A v \in Resolvers : manifests[v].etag \in Nat /\ Given(manifests[v])
    BY <1>t DEF CachesTrue, Entries
  <2>2. \A v \in Resolvers : Given(manifests[v])' /\ manifests[v].etag # routing'.etag
    BY <1>1, <1>3, <1>u, <2>1 DEF Given
  <2>3. \A v \in Resolvers, s \in Sites : states[v][s].etag \in Nat /\ Given(states[v][s])
    BY <1>t DEF CachesTrue, Entries
  <2>4. \A v \in Resolvers, s \in Sites : Given(states[v][s])'
    BY <1>1, <1>u, <2>3 DEF Given
  <2> QED BY <1>t, <1>u, <2>2, <2>4 DEF CachesTrue, Kept, PageKey
<1>6. \A r \in Requests : req[r].etag \in Nat /\ req[r].etag <= Last
  BY <1>t DEF Typed, RequestsTyped, Tasks
<1>7. RequestsTyped'
  <2>1. seen' \in [Requests -> [manifests: SUBSET Manifests, releases: SUBSET Releases,
                                disturbed: BOOLEAN]]
    BY <1>t, <1>u, Seen
  <2> QED BY <1>t, <1>u, <1>1, <1>6, <2>1 DEF Typed, RequestsTyped
<1>8. \A r \in Requests : Attended(r)'
  <2>1. \A r \in Requests : req[r].etag # routing'.etag
    BY <1>1, <1>3, <1>6
  <2>2. Current' \subseteq Current \cup {}
    BY <1>u DEF Current
  <2> QED BY <1>u, <1>3, <2>1, <2>2, StoreAttended
<1> QED BY <1>1, <1>4, <1>5, <1>7, <1>8 DEF IInv, Typed

LEMMA PointerMoves ==
  ASSUME IInv, NEW x \in Releases, MovePointer(x)
  PROVE  IInv'
<1> DEFINE t == Built[x].site
<1>t. Typed /\ CachesTrue
  BY DEF IInv
<1>a. Nothing \notin Releases /\ t \in Sites
  BY HostServingAssumption DEF HostServingAssumption
<1>1. BoundsTyped' /\ Last' = Last + 1 /\ Last \in Nat
  BY <1>t, UseTyped, BoundsNat DEF MovePointer
<1>2. NewEtag = Last + 1 /\ NewEtag \in Nat
  BY <1>t, BoundsNat DEF NewEtag, Last
<1>u. UNCHANGED <<plot, routing, damaged, manifests, states, pages, req>> /\ See({}, {x})
  BY DEF MovePointer, caches
<1>e. /\ Entry(NewEtag, x) \in Entries(Releases)
      /\ Entry(NewEtag, x).etag = Last + 1 /\ Entry(NewEtag, x).value = x
  <2>1. x \in Releases \cup {Nothing}
    OBVIOUS
  <2> QED BY <1>2, <2>1, EntryTyped
<1>3. /\ pointer' \in [Sites -> Entries(Releases)]
      /\ pointer'[t].etag = Last + 1 /\ pointer'[t].value = x
      /\ \A s \in Sites : s # t => pointer'[s] = pointer[s]
  BY <1>t, <1>a, <1>e DEF MovePointer, Typed, PointersTyped
<1>o. \A s \in Sites : pointer[s].etag \in Nat /\ Given(pointer[s])
  BY <1>t DEF Typed, PointersTyped, Entries
<1>4. PointersTyped'
  <2>1. Given(routing)'
    BY <1>t, <1>1, <1>u DEF Given, Typed, PointersTyped, Entries
  <2>2. ASSUME NEW s \in Sites
        PROVE  /\ Given(pointer[s])' /\ Whole(pointer[s])'
               /\ pointer'[s].value # Nothing => Built[pointer'[s].value].site = s
    <3>1. CASE s = t
      BY <1>1, <1>3, <1>a, <3>1 DEF Given, Whole
    <3>2. CASE s # t
      <4>1. pointer'[s] = pointer[s]
        BY <1>3, <3>2
      <4> QED BY <1>t, <1>1, <1>o, <4>1 DEF Given, Whole, Typed, PointersTyped
    <3> QED BY <3>1, <3>2
  <2> QED BY <1>t, <1>u, <1>3, <2>1, <2>2 DEF Typed, PointersTyped, Whole
<1>5. CachesTrue'
  <2>1. \A v \in Resolvers : Given(manifests[v])'
    BY <1>t, <1>1, <1>u DEF CachesTrue, Entries, Given
  <2>2. ASSUME NEW v \in Resolvers, NEW s \in Sites
        PROVE  /\ Given(states[v][s])'
               /\ states[v][s].etag = pointer'[s].etag => states[v][s].value = pointer'[s].value
    <3>1. states[v][s].etag \in Nat /\ states[v][s].etag <= Last
      BY <1>t DEF CachesTrue, Entries, Given
    <3>2. CASE s = t
      BY <1>1, <1>3, <1>u, <3>1, <3>2 DEF Given
    <3>3. CASE s # t
      <4>1. pointer'[s] = pointer[s]
        BY <1>3, <3>3
      <4> QED BY <1>t, <1>1, <1>u, <3>1, <4>1 DEF CachesTrue, Given
    <3> QED BY <3>2, <3>3
  <2> QED BY <1>t, <1>u, <2>1, <2>2 DEF CachesTrue, Kept, PageKey
<1>6. \A r \in Requests : req[r].etag \in Nat /\ req[r].etag <= Last
  BY <1>t DEF Typed, RequestsTyped, Tasks
<1>7. RequestsTyped'
  <2>1. seen' \in [Requests -> [manifests: SUBSET Manifests, releases: SUBSET Releases,
                                disturbed: BOOLEAN]]
    BY <1>t, <1>u, Seen
  <2> QED BY <1>t, <1>u, <1>1, <1>6, <2>1 DEF Typed, RequestsTyped
<1>8. \A r \in Requests : Attended(r)'
  <2>1. ASSUME NEW r \in Requests, NEW s \in Sites, req[r].etag = pointer'[s].etag
        PROVE  pointer'[s] = pointer[s]
    <3>1. s # t
      BY <1>1, <1>3, <1>6, <2>1
    <3> QED BY <1>3, <3>1
  <2>2. Current' \subseteq Current \cup {x}
    BY <1>3 DEF Current
  <2> QED BY <1>u, <2>1, <2>2, StoreAttended
<1> QED BY <1>1, <1>4, <1>5, <1>7, <1>8 DEF IInv, Typed

LEMMA DamageKeeps ==
  ASSUME IInv, NEW object \in Objects, Damage(object)
  PROVE  IInv'
<1>t. Typed /\ CachesTrue
  BY DEF IInv
<1>1. BoundsTyped' /\ Last' = Last
  BY <1>t, UseTyped DEF Damage
<1>u. UNCHANGED <<plot, routing, pointer, manifests, states, pages, req>> /\ See({}, {})
  BY DEF Damage, caches
<1>2. PointersTyped' /\ CachesTrue'
  BY <1>t, <1>1, <1>u
  DEF Damage, Typed, PointersTyped, CachesTrue, Given, Whole, Kept, PageKey
<1>3. RequestsTyped'
  <2>1. seen' \in [Requests -> [manifests: SUBSET Manifests, releases: SUBSET Releases,
                                disturbed: BOOLEAN]]
    BY <1>t, <1>u, Seen
  <2> QED BY <1>t, <1>u, <1>1, <2>1 DEF Typed, RequestsTyped
<1>4. \A r \in Requests : Attended(r)'
  <2>1. Current' \subseteq Current \cup {}
    BY <1>u DEF Current
  <2> QED BY <1>u, <2>1, StoreAttended
<1> QED BY <1>1, <1>2, <1>3, <1>4 DEF IInv, Typed


(***************************************************************************)
(* A step of one request.                                                  *)
(***************************************************************************)
LEMMA OthersAttended ==
  ASSUME NEW q \in Requests, Attended(q), UNCHANGED <<routing, pointer>>,
         req'[q] = req[q], seen'[q] = seen[q]
  PROVE  Attended(q)'
<1>1. ObjectOf(q)' = ObjectOf(q) /\ Current' = Current
  BY DEF ObjectOf, Current
<1>2. Asked(q)'
  BY <1>1 DEF Attended, Asked, Open, At
<1>3. Knows(q)'
  BY <1>1 DEF Attended, Knows, At
<1>4. Undisturbed(q)'
  BY DEF Attended, Undisturbed, At
<1>5. AnswerTrue(q)'
  BY <1>1 DEF Attended, AnswerTrue
<1> QED BY <1>2, <1>3, <1>4, <1>5 DEF Attended

\* seen changes for the request alone, in what disturbs it.
SeenKept(r) ==
  /\ seen' \in [Requests -> [manifests: SUBSET Manifests, releases: SUBSET Releases,
                             disturbed: BOOLEAN]]
  /\ \A q \in Requests : q # r => seen'[q] = seen[q]

LEMMA RequestMoves ==
  ASSUME IInv, UNCHANGED store, Last' = Last, BoundsTyped', CachesTrue', NEW r \in Requests,
         NEW t \in Tasks, t.etag <= Last, req' = [req EXCEPT ![r] = t], SeenKept(r), Attended(r)'
  PROVE  IInv'
<1>t. Typed /\ \A q \in Requests : Attended(q)
  BY DEF IInv
<1>u. UNCHANGED <<plot, routing, pointer, damaged>>
  BY DEF store
<1>1. PointersTyped'
  BY <1>t, <1>u DEF Typed, PointersTyped, Given, Whole
<1>2. req \in [Requests -> Tasks] /\ \A q \in Requests : req[q].etag <= Last
  BY <1>t DEF Typed, RequestsTyped
<1>3. RequestsTyped'
  BY <1>2 DEF RequestsTyped, SeenKept
<1>4. \A q \in Requests : q # r => req'[q] = req[q]
  BY <1>2
<1>5. \A q \in Requests : Attended(q)'
  BY <1>t, <1>u, <1>4, OthersAttended DEF SeenKept
<1> QED BY <1>1, <1>3, <1>5 DEF IInv, Typed

LEMMA SeenUnchanged ==
  ASSUME Typed, UNCHANGED seen, NEW r \in Requests
  PROVE  SeenKept(r)
  BY DEF Typed, RequestsTyped, SeenKept

\* The last step.
Truthful(r, answer, content) ==
  /\ answer = "unknown host" => \E m \in seen[r].manifests : Routing[m].site[req[r].host] = NoSite
  /\ answer \in {"page", "gone", "no file"} =>
       /\ req[r].release \in seen[r].releases
       /\ \E m \in seen[r].manifests : Routing[m].site[req[r].host] = Built[req[r].release].site
  /\ answer = "page" => content = Object(req[r].release, ObjectOf(r))

LEMMA DoneKeeps ==
  ASSUME IInv, UNCHANGED store, Last' = Last, BoundsTyped', CachesTrue', NEW r \in Requests,
         NEW answer \in Answers \ {Nothing}, NEW content \in Objects \cup {Nothing},
         Done(r, answer, content), SeenKept(r), seen'[r].manifests = seen[r].manifests,
         seen'[r].releases = seen[r].releases, Truthful(r, answer, content)
  PROVE  IInv'
<1> DEFINE t == [req[r] EXCEPT !.step = "done", !.answer = answer, !.content = content,
                               !.etag = 0, !.manifest = Nothing, !.object = Nothing]
<1>1. req \in [Requests -> Tasks] /\ req[r] \in Tasks /\ Last \in Nat
  BY BoundsNat DEF IInv, Typed, RequestsTyped
<1>d. "done" \in Steps
  BY DEF Steps
<1>2. /\ t \in Tasks /\ t.step = "done" /\ t.answer = answer /\ t.content = content /\ t.etag = 0
      /\ t.kind = req[r].kind /\ t.host = req[r].host /\ t.path = req[r].path
      /\ t.release = req[r].release
  BY <1>1, <1>d DEF Tasks
<1>3. req' = [req EXCEPT ![r] = t]
  BY <1>1 DEF Done
<1> HIDE DEF t
<1>4. req'[r] = t
  BY <1>1, <1>3
<1>5. Asked(r)'
  BY <1>2, <1>4 DEF Asked, Open, At
<1>6. Knows(r)' /\ Undisturbed(r)'
  BY <1>2, <1>4 DEF Knows, Undisturbed, At, Routed, Placed
<1>7. ObjectOf(r)' = ObjectOf(r)
  BY <1>2, <1>4 DEF ObjectOf
<1>8. AnswerTrue(r)'
  BY <1>2, <1>4, <1>7 DEF AnswerTrue, Truthful
<1>9. Attended(r)' /\ t.etag <= Last
  BY <1>1, <1>2, <1>5, <1>6, <1>8 DEF Attended
<1> QED BY <1>2, <1>3, <1>9, RequestMoves

LEMMA RefuseKeeps ==
  ASSUME IInv, UNCHANGED store, Last' = Last, BoundsTyped', CachesTrue', NEW r \in Requests,
         Refuse(r), SeenKept(r), seen'[r].manifests = seen[r].manifests,
         seen'[r].releases = seen[r].releases
  PROVE  IInv'
<1>1. PICK answer \in {"unavailable", "thrown"} : Done(r, answer, Nothing)
  BY DEF Refuse, Say
<1>2. answer \in Answers \ {Nothing} /\ Nothing \in Objects \cup {Nothing}
  BY DEF Answers, Nothing
<1>3. Truthful(r, answer, Nothing)
  BY DEF Truthful
<1> QED BY <1>1, <1>2, <1>3, DoneKeeps

\* A step on the way.
LEMMA GoesOn ==
  ASSUME IInv, UNCHANGED <<store, seen, used>>, CachesTrue', NEW r \in Requests, r \in Open,
         NEW t \in Tasks, t.etag <= Last, req' = [req EXCEPT ![r] = t],
         t.kind = req[r].kind, t.host = req[r].host, t.path = req[r].path,
         t.answer = req[r].answer, t.step \notin {"closed", "done"},
         Knows(r)', Undisturbed(r)'
  PROVE  IInv'
<1>t. Typed /\ Attended(r)
  BY DEF IInv
<1>1. Last' = Last /\ BoundsTyped' /\ UNCHANGED <<routing, pointer>>
  BY <1>t DEF Last, Typed, BoundsTyped, store
<1>2. req'[r] = t
  BY <1>t DEF Typed, RequestsTyped
<1>3. req[r].answer = Nothing
  BY <1>t DEF Attended, Asked, Open, At
<1>4. Asked(r)'
  BY <1>t, <1>1, <1>2, <1>3 DEF Attended, Asked, Open, At, Current
<1>5. AnswerTrue(r)'
  BY <1>2, <1>3 DEF AnswerTrue, Nothing
<1> QED BY <1>t, <1>1, <1>4, <1>5, SeenUnchanged, RequestMoves DEF Attended


LEMMA FoundKeeps ==
  ASSUME IInv, UNCHANGED <<store, seen, used>>, CachesTrue', NEW r \in Requests, r \in Open,
         NEW m \in seen[r].manifests, ~seen[r].disturbed => m = routing.value, Found(r, m)
  PROVE  IInv'
<1> DEFINE s == Routing[m].site[req[r].host]
           t == [req[r] EXCEPT !.step = "site", !.manifest = m, !.site = s, !.etag = 0]
<1>t. Typed /\ Attended(r)
  BY DEF IInv
<1>b. Last' = Last /\ BoundsTyped' /\ UNCHANGED <<routing, pointer>>
  BY <1>t DEF Last, Typed, BoundsTyped, store
<1>1. CASE s = NoSite /\ Say(r, "unknown host")
  <2>1. "unknown host" \in Answers \ {Nothing} /\ Nothing \in Objects \cup {Nothing}
    BY DEF Answers, Nothing
  <2>2. Truthful(r, "unknown host", Nothing)
    BY <1>1 DEF Truthful
  <2> QED BY <1>t, <1>b, <1>1, <2>1, <2>2, DoneKeeps, SeenUnchanged DEF Say
<1>2. CASE s # NoSite /\ req' = [req EXCEPT ![r] = t]
  <2>1. req \in [Requests -> Tasks] /\ req[r] \in Tasks /\ Last \in Nat /\ m \in Manifests
    BY <1>t, BoundsNat DEF Typed, RequestsTyped
  <2>2. req[r].host \in Hosts
    BY <1>t DEF Attended, Asked
  <2>3. s \in Sites
    BY <1>2, <2>1, <2>2, HostServingAssumption DEF HostServingAssumption
  <2>4. "site" \in Steps
    BY DEF Steps
  <2>5. /\ t \in Tasks /\ t.step = "site" /\ t.manifest = m /\ t.site = s /\ t.etag = 0
        /\ t.kind = req[r].kind /\ t.host = req[r].host /\ t.path = req[r].path
        /\ t.answer = req[r].answer
    BY <2>1, <2>3, <2>4 DEF Tasks
  <2>6. Routing[m].site[t.host] = s
    BY <2>5
  <2> HIDE DEF t, s
  <2>7. req'[r] = t
    BY <1>2, <2>1
  <2>8. Knows(r)'
    BY <2>3, <2>5, <2>6, <2>7 DEF Knows, At, Routed, Placed
  <2>9. Undisturbed(r)'
    BY <1>b, <2>5, <2>7 DEF Undisturbed, At, Routed
  <2>a. t.etag <= Last
    BY <2>1, <2>5
  <2> QED BY <1>2, <2>5, <2>8, <2>9, <2>a, GoesOn
<1> QED BY <1>1, <1>2 DEF Found

LEMMA CachesUnchanged ==
  ASSUME IInv, UNCHANGED <<store, caches, used>>
  PROVE  CachesTrue'
  BY DEF IInv, CachesTrue, store, caches, Given, Last, Kept, PageKey

LEMMA OpenAt ==
  ASSUME NEW r \in Requests, NEW step, At(r, step), step \notin {"closed", "done"}
  PROVE  r \in Open
  BY DEF At, Open

LEMMA HeadRoutingKeeps ==
  ASSUME IInv, NEW r \in Requests, HeadRouting(r)
  PROVE  IInv'
<1> DEFINE v == Resolver(r)
<1>t. Typed /\ CachesTrue /\ Attended(r)
  BY DEF IInv
<1>u. /\ UNCHANGED <<store, caches, seen, used>> /\ CachesTrue' /\ r \in Open
      /\ Last' = Last /\ BoundsTyped' /\ UNCHANGED <<routing, pointer>> /\ v \in Resolvers
  BY <1>t, CachesUnchanged, OpenAt
  DEF HeadRouting, Last, Typed, BoundsTyped, store, Resolver, Resolvers
<1>1. CASE Refuse(r)
  BY <1>t, <1>u, <1>1, RefuseKeeps, SeenUnchanged
<1>2. CASE /\ routing.etag # 0 /\ Fresh(manifests[v], routing.etag)
           /\ Found(r, manifests[v].value)
  <2>1. manifests[v].value = routing.value /\ routing.value # Nothing
    BY <1>t, <1>u, <1>2 DEF CachesTrue, Fresh, Typed, PointersTyped, Whole
  <2>2. routing.value \in seen[r].manifests
    BY <1>t, <1>u, <2>1 DEF Attended, Asked
  <2> QED BY <1>u, <1>2, <2>1, <2>2, FoundKeeps
<1>3. CASE /\ routing.etag # 0
           /\ req' = [req EXCEPT ![r].step = "routing pointer", ![r].etag = routing.etag]
  <2> DEFINE t == [req[r] EXCEPT !.step = "routing pointer", !.etag = routing.etag]
  <2>1. req \in [Requests -> Tasks] /\ req[r] \in Tasks
    BY <1>t DEF Typed, RequestsTyped
  <2>2. routing.etag \in Nat /\ routing.etag <= Last /\ "routing pointer" \in Steps
    BY <1>t DEF Typed, PointersTyped, Entries, Given, Steps
  <2>3. /\ t \in Tasks /\ t.step = "routing pointer" /\ t.etag = routing.etag
        /\ t.kind = req[r].kind /\ t.host = req[r].host /\ t.path = req[r].path
        /\ t.answer = req[r].answer
    BY <2>1, <2>2 DEF Tasks
  <2>4. req' = [req EXCEPT ![r] = t]
    BY <1>3, <2>1
  <2> HIDE DEF t
  <2>5. req'[r] = t
    BY <2>1, <2>4
  <2>6. Knows(r)' /\ Undisturbed(r)'
    BY <1>u, <1>3, <2>3, <2>5 DEF Knows, Undisturbed, At, Routed, Placed
  <2> QED BY <1>u, <2>2, <2>3, <2>4, <2>6, GoesOn
<1> QED BY <1>1, <1>2, <1>3 DEF HeadRouting

LEMMA ReadRoutingKeeps ==
  ASSUME IInv, NEW r \in Requests, ReadRouting(r)
  PROVE  IInv'
<1>t. Typed /\ Attended(r)
  BY DEF IInv
<1>u. /\ UNCHANGED <<store, caches, seen, used>> /\ CachesTrue' /\ r \in Open
      /\ Last' = Last /\ BoundsTyped' /\ UNCHANGED <<routing, pointer>>
  BY <1>t, CachesUnchanged, OpenAt DEF ReadRouting, Last, Typed, BoundsTyped, store
<1>v. AsHeaded(r, routing) => routing.value # Nothing
  BY <1>t DEF AsHeaded, ReadRouting, Attended, Knows, At, Typed, PointersTyped, Whole
<1>1. CASE Refuse(r)
  BY <1>t, <1>u, <1>1, RefuseKeeps, SeenUnchanged
<1>2. CASE /\ AsHeaded(r, routing) /\ routing.value # Nothing
           /\ req' = [req EXCEPT ![r].step = "manifest", ![r].manifest = routing.value]
  <2> DEFINE t == [req[r] EXCEPT !.step = "manifest", !.manifest = routing.value]
  <2>1. req \in [Requests -> Tasks] /\ req[r] \in Tasks /\ req[r].etag <= Last
    BY <1>t DEF Typed, RequestsTyped
  <2>2. routing.value \in Manifests /\ "manifest" \in Steps
    BY <1>t, <1>2 DEF Typed, PointersTyped, Entries, Steps
  <2>3. /\ t \in Tasks /\ t.step = "manifest" /\ t.manifest = routing.value
        /\ t.etag = req[r].etag
        /\ t.kind = req[r].kind /\ t.host = req[r].host /\ t.path = req[r].path
        /\ t.answer = req[r].answer
    BY <2>1, <2>2 DEF Tasks
  <2>4. req' = [req EXCEPT ![r] = t]
    BY <1>2, <2>1
  <2> HIDE DEF t
  <2>5. req'[r] = t
    BY <2>1, <2>4
  <2>6. routing.value \in seen[r].manifests
    BY <1>t, <1>u, <1>2 DEF Attended, Asked
  <2>7. Knows(r)' /\ Undisturbed(r)'
    BY <1>u, <2>3, <2>5, <2>6 DEF Knows, Undisturbed, At, Routed, Placed
  <2> QED BY <1>u, <2>1, <2>3, <2>4, <2>7, GoesOn
<1> QED BY <1>1, <1>2, <1>v DEF ReadRouting


\* What a request has read is remembered under the ETag of its pointer.
LEMMA ReadManifestKeeps ==
  ASSUME IInv, NEW r \in Requests, ReadManifest(r)
  PROVE  IInv'
<1> DEFINE v == Resolver(r)
           e == Entry(req[r].etag, req[r].manifest)
<1>t. Typed /\ CachesTrue /\ Attended(r) /\ v \in Resolvers
  BY DEF IInv, Resolver, Resolvers
<1>u. UNCHANGED <<store, states, pages, seen, used>> /\ r \in Open /\ At(r, "manifest")
  BY OpenAt DEF ReadManifest
<1>w. Last' = Last /\ UNCHANGED <<routing, pointer>>
  BY <1>u DEF Last, store
<1>1. req[r] \in Tasks /\ req[r].etag <= Last /\ req[r].manifest \in seen[r].manifests
  BY <1>t, <1>u DEF Typed, RequestsTyped, Attended, Knows, At
<1>2. req[r].manifest \in Manifests /\ req[r].etag \in Nat
  BY <1>t, <1>1 DEF Typed, RequestsTyped, Tasks
<1>3. e \in Entries(Manifests) /\ e.etag = req[r].etag /\ e.value = req[r].manifest
  BY <1>2, EntryTyped
<1>4. e.etag = routing.etag => e.value = routing.value
  BY <1>t, <1>u, <1>3 DEF Attended, Knows
<1>5. manifests' = [manifests EXCEPT ![v] = e]
  BY DEF ReadManifest
<1> HIDE DEF e, v
<1>6. /\ manifests' \in [Resolvers -> Entries(Manifests)]
      /\ \A w \in Resolvers : Given(manifests[w])'
           /\ (manifests'[w].etag = routing.etag => manifests'[w].value = routing.value)
  BY <1>t, <1>w, <1>1, <1>3, <1>4, <1>5 DEF CachesTrue, Given
<1>7. CachesTrue'
  BY <1>t, <1>u, <1>w, <1>6 DEF CachesTrue, Given, Kept, PageKey
<1>8. ~seen[r].disturbed => req[r].manifest = routing.value
  BY <1>t, <1>u DEF Attended, Undisturbed, At
<1> QED BY <1>u, <1>1, <1>7, <1>8, FoundKeeps DEF ReadManifest

LEMMA HeadPointerCaches ==
  ASSUME IInv, NEW r \in Requests, HeadPointer(r)
  PROVE  CachesTrue'
<1>t. Typed /\ CachesTrue
  BY DEF IInv
<1>u. UNCHANGED <<store, manifests, used>>
  BY DEF HeadPointer
<1>w. Last' = Last /\ UNCHANGED <<routing, pointer>> /\ Last \in Nat
  BY <1>t, <1>u, BoundsNat DEF Last, store
<1>1. CASE UNCHANGED <<states, pages>>
  BY <1>u, <1>1, CachesUnchanged DEF caches
<1>2. ASSUME NEW v \in Resolvers, NEW s \in Sites,
             states' = [states EXCEPT ![v][s] = NoEntry], pages' \subseteq pages
      PROVE  CachesTrue'
  <2>1. NoEntry \in Entries(Releases) /\ NoEntry.etag = 0 /\ NoEntry.value = Nothing
    BY EntryTyped DEF NoEntry
  <2>2. states' \in [Resolvers -> [Sites -> Entries(Releases)]]
    BY <1>t, <1>2, <2>1 DEF CachesTrue
  <2>3. ASSUME NEW w \in Resolvers, NEW q \in Sites
        PROVE  /\ Given(states[w][q])'
               /\ states'[w][q].etag = pointer[q].etag => states'[w][q].value = pointer[q].value
    <3>1. CASE states'[w][q] = states[w][q]
      BY <1>t, <1>w, <3>1 DEF CachesTrue, Given
    <3>2. CASE states'[w][q] = NoEntry
      BY <1>t, <1>w, <2>1, <3>2 DEF Given, Typed, PointersTyped, Whole
    <3> QED BY <1>t, <1>2, <3>1, <3>2 DEF CachesTrue
  <2> QED BY <1>t, <1>u, <1>w, <1>2, <2>2, <2>3 DEF CachesTrue, Given, Kept, PageKey
<1>3. Resolver(r) \in Resolvers
  BY DEF Resolver, Resolvers
<1>4. req[r].site \in Sites
  BY DEF IInv, Attended, Knows, HeadPointer, At, Routed
<1> QED BY <1>1, <1>2, <1>3, <1>4 DEF HeadPointer

\* The site and the release of a request: what its pointer names has been seen.
LEMMA PointedSeen ==
  ASSUME IInv, NEW r \in Requests, r \in Open, NEW s \in Sites, pointer[s].value # Nothing
  PROVE  /\ pointer[s].value \in Releases /\ pointer[s].value \in seen[r].releases
         /\ Built[pointer[s].value].site = s
<1>t. Typed /\ Attended(r)
  BY DEF IInv
<1>1. pointer[s].value \in Releases /\ Built[pointer[s].value].site = s
  BY <1>t DEF Typed, PointersTyped, Entries
<1>2. pointer[s].value \in Current
  BY DEF Current
<1> QED BY <1>t, <1>1, <1>2 DEF Attended, Asked

LEMMA HeadPointerKeeps ==
  ASSUME IInv, NEW r \in Requests, HeadPointer(r)
  PROVE  IInv'
<1> DEFINE s == req[r].site
           x == states[Resolver(r)][s].value
<1>t. Typed /\ CachesTrue /\ Attended(r) /\ Resolver(r) \in Resolvers
  BY DEF IInv, Resolver, Resolvers
<1>u. /\ UNCHANGED <<store, seen, used>> /\ CachesTrue' /\ r \in Open /\ At(r, "site")
      /\ Last' = Last /\ BoundsTyped' /\ UNCHANGED <<routing, pointer>>
  BY <1>t, HeadPointerCaches, OpenAt DEF HeadPointer, Last, Typed, BoundsTyped, store
<1>1. /\ req \in [Requests -> Tasks] /\ req[r] \in Tasks /\ s \in Sites
      /\ req[r].manifest \in seen[r].manifests
      /\ Routing[req[r].manifest].site[req[r].host] = s
  BY <1>t, <1>u DEF Typed, RequestsTyped, Attended, Knows, At, Routed
<1>m. ~seen[r].disturbed => req[r].manifest = routing.value
  BY <1>t, <1>u DEF Attended, Undisturbed, At, Routed
<1>2. CASE Refuse(r)
  BY <1>t, <1>u, <1>2, RefuseKeeps, SeenUnchanged
<1>3. CASE /\ pointer[s].etag # 0 /\ Fresh(states[Resolver(r)][s], pointer[s].etag)
           /\ req' = [req EXCEPT ![r].step = "route", ![r].release = x]
  <2> DEFINE t == [req[r] EXCEPT !.step = "route", !.release = x]
  <2>1. x = pointer[s].value /\ pointer[s].value # Nothing
    BY <1>t, <1>1, <1>3 DEF CachesTrue, Fresh, Typed, PointersTyped, Whole
  <2>2. x \in Releases /\ x \in seen[r].releases /\ Built[x].site = s /\ "route" \in Steps
    BY <1>u, <1>1, <2>1, PointedSeen DEF Steps
  <2>3. /\ t \in Tasks /\ t.step = "route" /\ t.release = x /\ t.etag = req[r].etag
        /\ t.manifest = req[r].manifest /\ t.site = s
        /\ t.kind = req[r].kind /\ t.host = req[r].host /\ t.path = req[r].path
        /\ t.answer = req[r].answer
    BY <1>1, <2>2 DEF Tasks
  <2>4. req' = [req EXCEPT ![r] = t]
    BY <1>1, <1>3
  <2> HIDE DEF t, x, s
  <2>5. req'[r] = t /\ t.etag <= Last
    BY <1>t, <1>1, <2>3, <2>4 DEF Typed, RequestsTyped
  <2>6. Knows(r)'
    BY <1>1, <1>u, <2>2, <2>3, <2>5 DEF Knows, At, Routed, Placed
  <2>7. Undisturbed(r)'
    BY <1>m, <1>u, <2>3, <2>5 DEF Undisturbed, At, Routed
  <2> QED BY <1>u, <2>3, <2>4, <2>5, <2>6, <2>7, GoesOn
<1>4. CASE /\ pointer[s].etag # 0
           /\ req' = [req EXCEPT ![r].step = "site pointer", ![r].etag = pointer[s].etag]
  <2> DEFINE t == [req[r] EXCEPT !.step = "site pointer", !.etag = pointer[s].etag]
  <2>2. pointer[s].etag \in Nat /\ pointer[s].etag <= Last /\ "site pointer" \in Steps
    BY <1>t, <1>1 DEF Typed, PointersTyped, Entries, Given, Steps
  <2>3. /\ t \in Tasks /\ t.step = "site pointer" /\ t.etag = pointer[s].etag
        /\ t.manifest = req[r].manifest /\ t.site = s
        /\ t.kind = req[r].kind /\ t.host = req[r].host /\ t.path = req[r].path
        /\ t.answer = req[r].answer
    BY <1>1, <2>2 DEF Tasks
  <2>4. req' = [req EXCEPT ![r] = t]
    BY <1>1, <1>4
  <2> HIDE DEF t, s
  <2>5. req'[r] = t
    BY <1>1, <2>4
  <2>6. Knows(r)'
    BY <1>1, <1>4, <1>u, <2>3, <2>5 DEF Knows, At, Routed, Placed
  <2>7. Undisturbed(r)'
    BY <1>m, <1>u, <2>3, <2>5 DEF Undisturbed, At, Routed
  <2> QED BY <1>u, <2>2, <2>3, <2>4, <2>6, <2>7, GoesOn
<1> QED BY <1>2, <1>3, <1>4 DEF HeadPointer

LEMMA ReadPointerKeeps ==
  ASSUME IInv, NEW r \in Requests, ReadPointer(r)
  PROVE  IInv'
<1> DEFINE s == req[r].site
           x == pointer[s].value
<1>t. Typed /\ Attended(r)
  BY DEF IInv
<1>u. /\ UNCHANGED <<store, caches, seen, used>> /\ CachesTrue' /\ r \in Open
      /\ Last' = Last /\ BoundsTyped' /\ UNCHANGED <<routing, pointer>> /\ At(r, "site pointer")
  BY <1>t, CachesUnchanged, OpenAt DEF ReadPointer, Last, Typed, BoundsTyped, store
<1>1. /\ req \in [Requests -> Tasks] /\ req[r] \in Tasks /\ s \in Sites
      /\ req[r].manifest \in seen[r].manifests /\ req[r].etag # 0
      /\ Routing[req[r].manifest].site[req[r].host] = s
  BY <1>t, <1>u DEF Typed, RequestsTyped, Attended, Knows, At, Routed
<1>m. ~seen[r].disturbed => req[r].manifest = routing.value
  BY <1>t, <1>u DEF Attended, Undisturbed, At, Routed
<1>2. CASE Refuse(r)
  BY <1>t, <1>u, <1>2, RefuseKeeps, SeenUnchanged
<1>3. CASE /\ AsHeaded(r, pointer[s])
           /\ req' = [req EXCEPT ![r].step = "release", ![r].release = x]
  <2> DEFINE t == [req[r] EXCEPT !.step = "release", !.release = x]
  <2>1. pointer[s].value # Nothing
    BY <1>t, <1>1, <1>3 DEF AsHeaded, Typed, PointersTyped, Whole
  <2>2. x \in Releases /\ x \in seen[r].releases /\ Built[x].site = s /\ "release" \in Steps
    BY <1>u, <1>1, <2>1, PointedSeen DEF Steps
  <2>3. /\ t \in Tasks /\ t.step = "release" /\ t.release = x /\ t.etag = req[r].etag
        /\ t.manifest = req[r].manifest /\ t.site = s
        /\ t.kind = req[r].kind /\ t.host = req[r].host /\ t.path = req[r].path
        /\ t.answer = req[r].answer
    BY <1>1, <2>2 DEF Tasks
  <2>4. req' = [req EXCEPT ![r] = t]
    BY <1>1, <1>3
  <2>x. x = pointer[s].value
    OBVIOUS
  <2> HIDE DEF t, x, s
  <2>5. req'[r] = t /\ t.etag <= Last
    BY <1>t, <1>1, <2>3, <2>4 DEF Typed, RequestsTyped
  <2>6. Knows(r)'
    BY <1>1, <1>u, <2>2, <2>3, <2>5, <2>x DEF Knows, At, Routed, Placed
  <2>7. Undisturbed(r)'
    BY <1>m, <1>u, <2>3, <2>5, <2>x DEF Undisturbed, At, Routed
  <2> QED BY <1>u, <2>3, <2>4, <2>5, <2>6, <2>7, GoesOn
<1> QED BY <1>2, <1>3 DEF ReadPointer


LEMMA ReadReleaseKeeps ==
  ASSUME IInv, NEW r \in Requests, ReadRelease(r)
  PROVE  IInv'
<1> DEFINE s == req[r].site
           x == req[r].release
           v == Resolver(r)
           e == Entry(req[r].etag, x)
<1>t. Typed /\ CachesTrue /\ Attended(r) /\ v \in Resolvers
  BY DEF IInv, Resolver, Resolvers
<1>u. /\ UNCHANGED <<store, manifests, pages, seen, used>> /\ r \in Open /\ At(r, "release")
      /\ Last' = Last /\ BoundsTyped' /\ UNCHANGED <<routing, pointer>>
  BY <1>t, OpenAt DEF ReadRelease, Last, Typed, BoundsTyped, store
<1>1. /\ req \in [Requests -> Tasks] /\ req[r] \in Tasks /\ s \in Sites
      /\ req[r].etag <= Last /\ req[r].manifest \in seen[r].manifests
      /\ Routing[req[r].manifest].site[req[r].host] = s
      /\ x \in seen[r].releases /\ Built[x].site = s
  BY <1>t, <1>u DEF Typed, RequestsTyped, Attended, Knows, At, Routed, Placed
<1>r. x \in Releases /\ req[r].etag \in Nat /\ Last \in Nat
  BY <1>t, <1>1, BoundsNat DEF Typed, RequestsTyped, Tasks
<1>m. ~seen[r].disturbed => req[r].manifest = routing.value
  BY <1>t, <1>u DEF Attended, Undisturbed, At, Routed
<1>e. e \in Entries(Releases) /\ e.etag = req[r].etag /\ e.value = x
  BY <1>r DEF Entry, Entries
<1>2. CASE Refuse(r) /\ UNCHANGED states
  <2>1. CachesTrue'
    BY <1>u, <1>2, CachesUnchanged DEF caches
  <2> QED BY <1>t, <1>u, <1>2, <2>1, RefuseKeeps, SeenUnchanged
<1>3. CASE /\ states' = [states EXCEPT ![v][s] = e]
           /\ req' = [req EXCEPT ![r].step = "route", ![r].etag = 0]
  <2> DEFINE t == [req[r] EXCEPT !.step = "route", !.etag = 0]
  <2>1. "route" \in Steps
    BY DEF Steps
  <2>2. /\ t \in Tasks /\ t.step = "route" /\ t.release = x /\ t.etag = 0
        /\ t.manifest = req[r].manifest /\ t.site = s
        /\ t.kind = req[r].kind /\ t.host = req[r].host /\ t.path = req[r].path
        /\ t.answer = req[r].answer
    BY <1>1, <2>1 DEF Tasks
  <2>3. req' = [req EXCEPT ![r] = t]
    BY <1>1, <1>3
  <2>4. e \in Entries(Releases) /\ e.etag = req[r].etag /\ e.value = x
    BY <1>e
  <2>5. e.etag = pointer[s].etag => e.value = pointer[s].value
    BY <1>t, <1>u, <2>4 DEF Attended, Knows
  <2> HIDE DEF t, x, s, e, v
  <2>6. CachesTrue'
    <3>1. states' \in [Resolvers -> [Sites -> Entries(Releases)]]
      BY <1>t, <1>3, <2>4 DEF CachesTrue
    <3>2. ASSUME NEW w \in Resolvers, NEW q \in Sites
          PROVE  /\ Given(states[w][q])'
                 /\ states'[w][q].etag = pointer[q].etag => states'[w][q].value = pointer[q].value
      <4>1. CASE w = v /\ q = s
        <5>1. states'[w][q] = e
          BY <1>t, <1>3, <4>1 DEF CachesTrue
        <5> QED BY <1>1, <1>u, <2>4, <2>5, <4>1, <5>1 DEF Given
      <4>2. CASE ~(w = v /\ q = s)
        <5>1. states'[w][q] = states[w][q]
          BY <1>t, <1>3, <4>2 DEF CachesTrue
        <5> QED BY <1>t, <1>u, <5>1 DEF CachesTrue, Given
      <4> QED BY <4>1, <4>2
    <3> QED BY <1>t, <1>u, <3>1, <3>2 DEF CachesTrue, Given, Kept, PageKey
  <2>7. req'[r] = t /\ t.etag <= Last
    BY <1>1, <1>r, <2>2, <2>3
  <2>8. Knows(r)'
    BY <1>1, <1>u, <2>2, <2>7 DEF Knows, At, Routed, Placed
  <2>9. Undisturbed(r)'
    BY <1>m, <1>u, <2>2, <2>7 DEF Undisturbed, At, Routed
  <2> QED BY <1>u, <2>2, <2>3, <2>6, <2>7, <2>8, <2>9, GoesOn
<1> QED BY <1>2, <1>3 DEF ReadRelease

(***************************************************************************)
(* The object of a request, and the pages remembered.                      *)
(***************************************************************************)
LEMMA ObjectListed ==
  ASSUME NEW r \in Requests, req[r].release \in Releases, req[r].path \in Paths,
         ObjectOf(r) # Nothing
  PROVE  /\ ObjectOf(r) \in Listed(req[r].release)
         /\ ObjectOf(r) \in Files /\ Object(req[r].release, ObjectOf(r)) \in Objects
<1>1. ObjectOf(r) \in Listed(req[r].release)
  BY DEF ObjectOf, Listed
<1>2. ObjectOf(r) \in Files
  BY <1>1 DEF Files
<1>3. Object(req[r].release, ObjectOf(r)) \in Objects
  BY <1>1 DEF Objects
<1> QED BY <1>1, <1>2, <1>3

LEMMA KeyTells ==
  ASSUME CachesTrue, NEW e \in pages, NEW x, NEW p, e.key = PageKey(x, p)
  PROVE  e.content = Object(x, p) /\ e.content \in Objects
<1>1. e.content \in Objects /\ e.key = PageKey(e.content[1], e.content[2])
  BY DEF CachesTrue, Kept
<1>2. PICK y, q : e.content = <<y, q>>
  BY <1>1 DEF Objects, Object
<1>3. e.content[1] = x /\ e.content[2] = p
  BY <1>1 DEF PageKey
<1> QED BY <1>1, <1>2, <1>3 DEF Object

LEMMA Placement ==
  ASSUME IInv, NEW r \in Requests, req[r].step \in {"route", "object"}
  PROVE  /\ req[r].release \in Releases /\ req[r].path \in Paths
         /\ req[r].manifest \in seen[r].manifests /\ req[r].release \in seen[r].releases
         /\ Routing[req[r].manifest].site[req[r].host] = req[r].site
         /\ Built[req[r].release].site = req[r].site /\ req[r].site \in Sites
         /\ ~seen[r].disturbed => req[r].manifest = routing.value
         /\ \A answer \in {"gone", "no file"} : Truthful(r, answer, Nothing)
         /\ Truthful(r, "page", Object(req[r].release, ObjectOf(r)))
<1>t. Typed /\ Attended(r) /\ r \in Open
  BY DEF IInv, Open
<1>1. /\ req[r].manifest \in seen[r].manifests /\ req[r].release \in seen[r].releases
      /\ Routing[req[r].manifest].site[req[r].host] = req[r].site
      /\ Built[req[r].release].site = req[r].site /\ req[r].site \in Sites
      /\ ~seen[r].disturbed => req[r].manifest = routing.value
  BY <1>t DEF Attended, Knows, Undisturbed, Routed, Placed
<1>2. req[r].release \in Releases
  BY <1>t, <1>1 DEF Typed, RequestsTyped
<1>3. req[r].path \in Paths
  BY <1>t DEF Attended, Asked
<1>4. /\ \A answer \in {"gone", "no file"} : Truthful(r, answer, Nothing)
      /\ Truthful(r, "page", Object(req[r].release, ObjectOf(r)))
  BY <1>1 DEF Truthful
<1> QED BY <1>1, <1>2, <1>3, <1>4

LEMMA RouteKeeps ==
  ASSUME IInv, NEW r \in Requests, Route(r)
  PROVE  IInv'
<1> DEFINE object == ObjectOf(r)
           x == req[r].release
<1>t. Typed /\ CachesTrue /\ Attended(r)
  BY DEF IInv
<1>u. /\ UNCHANGED <<store, caches, seen, used>> /\ CachesTrue' /\ r \in Open
      /\ Last' = Last /\ BoundsTyped' /\ UNCHANGED <<routing, pointer>> /\ At(r, "route")
  BY <1>t, CachesUnchanged, OpenAt DEF Route, Last, Typed, BoundsTyped, store
<1>s. SeenKept(r)
  BY <1>t, <1>u, SeenUnchanged
<1>p. /\ x \in Releases /\ req[r].path \in Paths
      /\ req[r].manifest \in seen[r].manifests /\ x \in seen[r].releases
      /\ Routing[req[r].manifest].site[req[r].host] = req[r].site
      /\ Built[x].site = req[r].site /\ req[r].site \in Sites
      /\ ~seen[r].disturbed => req[r].manifest = routing.value
      /\ \A answer \in {"gone", "no file"} : Truthful(r, answer, Nothing)
      /\ Truthful(r, "page", Object(x, object))
  BY <1>u, Placement DEF At
<1>1. CASE Say(r, IF req[r].kind = "media" THEN "no file" ELSE "gone")
  <2>1. PICK answer \in {"gone", "no file"} : Done(r, answer, Nothing)
    BY <1>1 DEF Say
  <2>2. answer \in Answers \ {Nothing} /\ Nothing \in Objects \cup {Nothing}
    BY DEF Answers, Nothing
  <2> QED BY <1>u, <1>s, <1>p, <2>1, <2>2, DoneKeeps
<1>2. ASSUME NEW e \in pages, e.key = PageKey(x, object), Give(r, e.content)
      PROVE  IInv'
  <2>1. e.content = Object(x, object) /\ e.content \in Objects
    BY <1>t, <1>2, KeyTells
  <2>2. "page" \in Answers \ {Nothing}
    BY DEF Answers, Nothing
  <2>3. Truthful(r, "page", e.content)
    BY <1>p, <2>1
  <2> QED BY <1>u, <1>s, <1>2, <2>1, <2>2, <2>3, DoneKeeps DEF Give
<1>3. CASE /\ object # Nothing
           /\ req' = [req EXCEPT ![r].step = "object", ![r].object = object]
  <2> DEFINE t == [req[r] EXCEPT !.step = "object", !.object = object]
  <2>1. object \in Files /\ "object" \in Steps
    BY <1>p, <1>3, ObjectListed DEF Steps
  <2>2. req \in [Requests -> Tasks] /\ req[r] \in Tasks /\ req[r].etag <= Last
    BY <1>t DEF Typed, RequestsTyped
  <2>o. object = ObjectOf(r)
    OBVIOUS
  <2> HIDE DEF object
  <2>3. /\ t \in Tasks /\ t.step = "object" /\ t.release = x /\ t.etag = req[r].etag
        /\ t.manifest = req[r].manifest /\ t.site = req[r].site /\ t.object = object
        /\ t.kind = req[r].kind /\ t.host = req[r].host /\ t.path = req[r].path
        /\ t.answer = req[r].answer
    BY <2>1, <2>2 DEF Tasks
  <2>4. req' = [req EXCEPT ![r] = t]
    BY <1>3, <2>2
  <2> HIDE DEF t, x
  <2>5. req'[r] = t
    BY <2>2, <2>4
  <2>6. ObjectOf(r)' = object
    BY <2>3, <2>5, <2>o DEF ObjectOf, x
  <2>7. Knows(r)'
    BY <1>p, <1>u, <1>3, <2>3, <2>5, <2>6 DEF Knows, At, Routed, Placed
  <2>8. Undisturbed(r)'
    BY <1>p, <1>u, <2>3, <2>5 DEF Undisturbed, At, Routed
  <2> QED BY <1>u, <2>2, <2>3, <2>4, <2>7, <2>8, GoesOn
<1> QED BY <1>1, <1>2, <1>3 DEF Route

LEMMA ReadObjectKeeps ==
  ASSUME IInv, NEW r \in Requests, ReadObject(r)
  PROVE  IInv'
<1> DEFINE x == req[r].release
           p == req[r].object
<1>t. Typed /\ CachesTrue /\ Attended(r)
  BY DEF IInv
<1>u. /\ UNCHANGED <<store, manifests, states, seen, used>> /\ r \in Open
      /\ Last' = Last /\ BoundsTyped' /\ UNCHANGED <<routing, pointer>> /\ At(r, "object")
  BY <1>t, OpenAt DEF ReadObject, Last, Typed, BoundsTyped, store
<1>p. /\ p = ObjectOf(r) /\ p # Nothing /\ x \in Releases /\ req[r].path \in Paths
      /\ Truthful(r, "page", Object(x, ObjectOf(r)))
  BY <1>t, <1>u, Placement DEF At, Attended, Knows
<1>o. Object(x, p) \in Objects
  BY <1>p, ObjectListed
<1>1. CASE Refuse(r) /\ UNCHANGED pages
  <2>1. CachesTrue'
    BY <1>u, <1>1, CachesUnchanged DEF caches
  <2> QED BY <1>t, <1>u, <1>1, <2>1, RefuseKeeps, SeenUnchanged
<1>2. CASE /\ Give(r, Object(x, p))
           /\ pages' \subseteq pages \cup {[key |-> PageKey(x, p), content |-> Object(x, p)]}
  <2>1. CachesTrue'
    <3>1. \A e \in pages' : e.content \in Objects /\ Kept(e)
      BY <1>t, <1>o, <1>2 DEF CachesTrue, Kept, Object
    <3> QED BY <1>t, <1>u, <3>1 DEF CachesTrue, Given, Kept, PageKey
  <2>2. "page" \in Answers \ {Nothing}
    BY DEF Answers, Nothing
  <2>3. SeenKept(r)
    BY <1>t, <1>u, SeenUnchanged
  <2> QED BY <1>u, <1>p, <1>o, <1>2, <2>1, <2>2, <2>3, DoneKeeps DEF Give
<1>3. \/ Refuse(r) /\ UNCHANGED pages
      \/ /\ Give(r, Object(x, p))
         /\ pages' \subseteq pages \cup {[key |-> PageKey(x, p), content |-> Object(x, p)]}
  BY DEF ReadObject
<1> QED BY <1>1, <1>2, <1>3

LEMMA CallFailsKeeps ==
  ASSUME IInv, NEW r \in Requests, CallFails(r)
  PROVE  IInv'
<1>t. Typed /\ CachesTrue
  BY DEF IInv
<1>1. BoundsTyped' /\ Last' = Last
  BY <1>t, UseTyped DEF CallFails, store
<1>u. UNCHANGED <<store, caches>> /\ Refuse(r)
  BY DEF CallFails
<1>2. CachesTrue'
  BY <1>t, <1>1, <1>u DEF CachesTrue, Given, Kept, PageKey, store, caches
<1>3. /\ SeenKept(r) /\ seen'[r].manifests = seen[r].manifests
      /\ seen'[r].releases = seen[r].releases
  BY <1>t DEF CallFails, SeenKept, Typed, RequestsTyped
<1> QED BY <1>u, <1>1, <1>2, <1>3, RefuseKeeps

LEMMA AskKeeps ==
  ASSUME IInv, NEW r \in Requests, Ask(r)
  PROVE  IInv'
<1> DEFINE q == plot.questions[r]
           t == [req[r] EXCEPT !.step = "routing", !.kind = q.kind, !.host = q.host, !.path = q.path]
<1>t. Typed /\ CachesTrue /\ Attended(r)
  BY DEF IInv
<1>u. /\ UNCHANGED <<store, caches, used>> /\ CachesTrue' /\ At(r, "closed")
      /\ Last' = Last /\ BoundsTyped' /\ UNCHANGED <<routing, pointer>>
  BY <1>t, CachesUnchanged DEF Ask, Last, Typed, BoundsTyped, store
<1>1. q.kind \in Kinds /\ q.host \in Hosts /\ q.path \in Paths
  BY <1>t, HostServingAssumption DEF HostServingAssumption, Typed, BoundsTyped
<1>2. req \in [Requests -> Tasks] /\ req[r] \in Tasks /\ req[r].etag <= Last
  BY <1>t DEF Typed, RequestsTyped
<1>3. "routing" \in Steps
  BY DEF Steps
<1>n. req[r].answer = Nothing
  BY <1>t, <1>u DEF Attended, Asked, At
<1>4. req' = [req EXCEPT ![r] = t]
  BY <1>2 DEF Ask
<1> HIDE DEF q
<1>5. /\ t \in Tasks /\ t.step = "routing" /\ t.etag = req[r].etag
      /\ t.host = q.host /\ t.path = q.path /\ t.answer = Nothing
  BY <1>1, <1>2, <1>3, <1>n DEF Tasks
<1> HIDE DEF t
<1>6. req'[r] = t
  BY <1>2, <1>4
<1>c. Current \subseteq Releases /\ {routing.value} \ {Nothing} \subseteq Manifests
  BY <1>t DEF Current, Typed, PointersTyped, Entries
<1>7. /\ SeenKept(r) /\ seen'[r].manifests = {routing.value} \ {Nothing}
      /\ seen'[r].releases = Current
  BY <1>t, <1>c DEF Ask, SeenKept, Typed, RequestsTyped
<1>8. Attended(r)'
  <2>1. Asked(r)'
    BY <1>1, <1>5, <1>6, <1>7, <1>u DEF Asked, At, Current, Nothing
  <2>2. Knows(r)' /\ Undisturbed(r)' /\ AnswerTrue(r)'
    BY <1>5, <1>6 DEF Knows, Undisturbed, AnswerTrue, At, Routed, Placed, Nothing
  <2> QED BY <2>1, <2>2 DEF Attended
<1> QED BY <1>u, <1>2, <1>4, <1>5, <1>7, <1>8, RequestMoves

LEMMA StepIInv == IInv /\ [Next]_vars => IInv'
<1> SUFFICES ASSUME IInv, [Next]_vars PROVE IInv'
  OBVIOUS
<1>1. CASE \E m \in Manifests : MoveRouting(m)
  BY <1>1, RoutingMoves
<1>2. CASE \E x \in Releases : MovePointer(x)
  BY <1>2, PointerMoves
<1>3. CASE \E object \in Objects : Damage(object)
  BY <1>3, DamageKeeps
<1>4. ASSUME NEW r \in Requests, Ask(r) \/ Serve(r) \/ CallFails(r)
      PROVE  IInv'
  BY <1>4, AskKeeps, HeadRoutingKeeps, ReadRoutingKeeps, ReadManifestKeeps, HeadPointerKeeps,
     ReadPointerKeeps, ReadReleaseKeeps, RouteKeeps, ReadObjectKeeps, CallFailsKeeps DEF Serve
<1>5. CASE UNCHANGED vars
  <2>u. UNCHANGED <<plot, routing, pointer, damaged, manifests, states, pages, req, seen, used>>
    BY <1>5 DEF vars
  <2>1. Typed' /\ CachesTrue'
    BY <2>u DEF IInv, Typed, BoundsTyped, PointersTyped, RequestsTyped, CachesTrue, Given, Whole,
                Last, Kept, PageKey
  <2>2. ASSUME NEW r \in Requests PROVE Attended(r)'
    <3>1. Attended(r) /\ req'[r] = req[r] /\ seen'[r] = seen[r]
      BY <2>u DEF IInv
    <3> QED BY <2>u, <3>1, OthersAttended
  <2> QED BY <2>1, <2>2 DEF IInv
<1> QED BY <1>1, <1>2, <1>3, <1>4, <1>5 DEF Next

(***************************************************************************)
(* The theorems.                                                           *)
(***************************************************************************)
LEMMA OnePage ==
  ASSUME CachesTrue
  PROVE  \A e, f \in pages : e.key = f.key => e = f
<1> SUFFICES ASSUME NEW e \in pages, NEW f \in pages, e.key = f.key PROVE e = f
  OBVIOUS
<1>1. Kept(e) /\ Kept(f)
  BY DEF CachesTrue
<1>2. PICK x, p : e.content = Object(x, p) /\ e.key = PageKey(x, p)
  BY <1>1 DEF CachesTrue, Kept, Objects, Object
<1>3. f.content = Object(x, p)
  BY <1>2, KeyTells
<1> QED BY <1>1, <1>2, <1>3 DEF Kept

LEMMA Types == IInv => TypeOK
<1> SUFFICES ASSUME IInv PROVE TypeOK
  OBVIOUS
<1>t. Typed /\ CachesTrue
  BY DEF IInv
<1>1. plot \in Plots /\ damaged \subseteq Objects
  BY <1>t DEF Typed, BoundsTyped, PointersTyped
<1>2. ASSUME NEW etag \in Nat, etag <= Last PROVE etag \in 0..plot.routings + plot.releases + 1
  BY <1>t, <1>2, BoundsNat DEF Last
<1>3. /\ routing.etag \in 0..plot.routings + plot.releases + 1
      /\ routing.value \in Manifests \cup {Nothing}
  BY <1>t, <1>2 DEF Typed, PointersTyped, Entries, Given
<1>4. \A s \in Sites : /\ pointer[s].etag \in 0..plot.routings + plot.releases + 1
                       /\ pointer[s].value \in Releases \cup {Nothing}
  BY <1>t, <1>2 DEF Typed, PointersTyped, Entries, Given
<1>5. \A v \in Resolvers : /\ manifests[v].value \in Manifests \cup {Nothing}
                           /\ \A s \in Sites : states[v][s].value \in Releases \cup {Nothing}
  BY <1>t DEF CachesTrue, Entries
<1>6. /\ \A e \in pages : e.content \in Objects
      /\ \A e, f \in pages : e.key = f.key => e = f
  BY <1>t, OnePage DEF CachesTrue
<1>7. ASSUME NEW r \in Requests
      PROVE  /\ req[r].step \in Steps /\ req[r].kind \in Kinds /\ req[r].answer \in Answers
             /\ req[r].step = "object" => Object(req[r].release, req[r].object) \in Objects
             /\ (req[r].answer # Nothing) <=> At(r, "done")
  <2>1. req[r].step \in Steps /\ req[r].kind \in Kinds /\ req[r].answer \in Answers
    BY <1>t DEF Typed, RequestsTyped, Tasks
  <2>2. ASSUME req[r].step = "object"
        PROVE  Object(req[r].release, req[r].object) \in Objects
    <3>1. req[r].release \in Releases /\ req[r].path \in Paths
      BY <2>2, Placement
    <3>2. req[r].object = ObjectOf(r) /\ ObjectOf(r) # Nothing
      BY <2>2 DEF IInv, Attended, Knows, At
    <3> QED BY <3>1, <3>2, ObjectListed
  <2>3. (req[r].answer # Nothing) <=> At(r, "done")
    BY DEF IInv, Attended, Asked
  <2> QED BY <2>1, <2>2, <2>3
<1>8. \A k \in DOMAIN used : used[k] \in 0..plot[k]
  <2>1. DOMAIN used = {"routings", "releases", "faults"}
    BY <1>t DEF Typed, BoundsTyped
  <2> QED BY <1>t, <2>1, BoundsNat
<1> QED BY <1>1, <1>3, <1>4, <1>5, <1>6, <1>7, <1>8 DEF TypeOK

\* Pointers, what is remembered and requests keep their types, and no page is remembered
\* twice.
THEOREM TypeCorrect == Spec => []TypeOK
  BY InitIInv, StepIInv, Types, PTL DEF Spec

\* However pointers move between the calls of a request, and whatever the resolvers remember
\* or forget: what is answered is of one release, and of one that its site was on while the
\* request was open.
THEOREM AnswersTrue == Spec => []AnswersAreTrue
<1>1. IInv => AnswersAreTrue
  BY DEF IInv, Attended, AnswerTrue, AnswersAreTrue, AnswerWasCurrent, AnswerIsOneRelease
<1> QED BY InitIInv, StepIInv, <1>1, PTL DEF Spec

(***************************************************************************)
(* Refusals.                                                               *)
(***************************************************************************)
Refused(r) == req'[r].answer \in {"unavailable", "thrown"} /\ req[r].answer = Nothing
Reason(r) ==
  LET x == pointer[req[r].site].value
  IN \/ seen'[r].disturbed
     \/ damaged # {}
     \/ routing = NoEntry
     \/ req[r].site # NoSite /\ (x = Nothing \/ Built[x].domain # Routing[routing.value].canonical[req[r].site])

\* Only a step of its own answers a request.
LEMMA OthersUnanswered ==
  ASSUME IInv, NEW q \in Requests, NEW r \in Requests, q # r, Ask(q) \/ Serve(q) \/ CallFails(q)
  PROVE  req'[r] = req[r]
<1>1. req \in [Requests -> Tasks]
  BY DEF IInv, Typed, RequestsTyped
<1>2. ASSUME NEW answer, NEW content, Done(q, answer, content) PROVE req'[r] = req[r]
  BY <1>1, <1>2 DEF Done
<1>3. ASSUME NEW m, Found(q, m) PROVE req'[r] = req[r]
  BY <1>1, <1>2, <1>3 DEF Found, Say
<1>4. Refuse(q) => req'[r] = req[r]
  BY <1>2 DEF Refuse, Say
<1>5. CASE Ask(q)
  BY <1>1, <1>5 DEF Ask
<1>6. CASE HeadRouting(q) \/ ReadRouting(q) \/ ReadManifest(q)
  BY <1>1, <1>3, <1>4, <1>6 DEF HeadRouting, ReadRouting, ReadManifest
<1>7. CASE HeadPointer(q) \/ ReadPointer(q) \/ ReadRelease(q)
  BY <1>1, <1>4, <1>7 DEF HeadPointer, ReadPointer, ReadRelease
<1>8. CASE Route(q) \/ ReadObject(q)
  BY <1>1, <1>2, <1>4, <1>8 DEF Route, ReadObject, Say, Give
<1>9. CASE CallFails(q)
  BY <1>4, <1>9 DEF CallFails
<1> QED BY <1>5, <1>6, <1>7, <1>8, <1>9 DEF Serve

LEMMA NotRefused ==
  ASSUME IInv, NEW r \in Requests, req[r].answer = Nothing, NEW answer, NEW content,
         Done(r, answer, content) \/ req'[r].answer = Nothing,
         answer \notin {"unavailable", "thrown"}
  PROVE  ~Refused(r)
<1>1. req \in [Requests -> Tasks] /\ req[r] \in Tasks
  BY DEF IInv, Typed, RequestsTyped
<1>2. Done(r, answer, content) => req'[r].answer = answer
  BY <1>1 DEF Done, Tasks
<1> QED BY <1>2 DEF Refused, Nothing

LEMMA FoundNotRefused ==
  ASSUME IInv, NEW r \in Requests, req[r].answer = Nothing, NEW m, Found(r, m)
  PROVE  ~Refused(r)
<1>1. req \in [Requests -> Tasks] /\ req[r] \in Tasks
  BY DEF IInv, Typed, RequestsTyped
<1>2. CASE Say(r, "unknown host")
  <2>1. Done(r, "unknown host", Nothing) /\ "unknown host" \notin {"unavailable", "thrown"}
    BY <1>2 DEF Say
  <2> QED BY <2>1, NotRefused
<1>3. CASE ~Say(r, "unknown host")
  <2> DEFINE s == Routing[m].site[req[r].host]
  <2>1. req' = [req EXCEPT ![r].step = "site", ![r].manifest = m, ![r].site = s, ![r].etag = 0]
    BY <1>3 DEF Found
  <2> HIDE DEF s
  <2>2. req'[r].answer = Nothing
    BY <1>1, <2>1 DEF Tasks
  <2> QED BY <2>2 DEF Refused, Nothing
<1> QED BY <1>2, <1>3

LEMMA RoutingReasons ==
  ASSUME IInv, NEW r \in Requests, HeadRouting(r) \/ ReadRouting(r) \/ ReadManifest(r), Refused(r)
  PROVE  Reason(r)
<1>t. Typed /\ Attended(r) /\ req[r].answer = Nothing
  BY DEF IInv, Refused
<1>1. req \in [Requests -> Tasks] /\ req[r] \in Tasks
  BY <1>t DEF Typed, RequestsTyped
<1>2. CASE HeadRouting(r)
  <2>1. CASE routing.etag = 0
    <3>1. routing \in Entries(Manifests) /\ routing.value = Nothing
      BY <1>t, <2>1 DEF Typed, PointersTyped, Whole
    <3>2. routing = NoEntry
      BY <2>1, <3>1 DEF Entries, NoEntry, Entry
    <3> QED BY <3>2 DEF Reason
  <2>2. CASE Found(r, manifests[Resolver(r)].value)
    BY <1>t, <2>2, FoundNotRefused
  <2>3. CASE req' = [req EXCEPT ![r].step = "routing pointer", ![r].etag = routing.etag]
    BY <1>t, <1>1, <2>3 DEF Refused, Tasks, Nothing
  <2> QED BY <1>2, <2>1, <2>2, <2>3 DEF HeadRouting
<1>3. CASE ReadRouting(r)
  <2>1. CASE ~AsHeaded(r, routing)
    <3>1. seen[r].disturbed /\ seen' = seen
      BY <1>t, <1>3, <2>1 DEF ReadRouting, AsHeaded, Attended, Undisturbed, At
    <3> QED BY <3>1 DEF Reason
  <2>2. CASE req' = [req EXCEPT ![r].step = "manifest", ![r].manifest = routing.value]
    BY <1>t, <1>1, <2>2 DEF Refused, Tasks, Nothing
  <2> QED BY <1>3, <2>1, <2>2 DEF ReadRouting
<1>4. CASE ReadManifest(r)
  BY <1>t, <1>4, FoundNotRefused DEF ReadManifest
<1> QED BY <1>2, <1>3, <1>4

LEMMA ReleaseReasons ==
  ASSUME IInv, NEW r \in Requests, HeadPointer(r) \/ ReadPointer(r) \/ ReadRelease(r), Refused(r)
  PROVE  Reason(r)
<1> DEFINE s == req[r].site
           x == pointer[s].value
<1>t. Typed /\ Attended(r) /\ req[r].answer = Nothing
  BY DEF IInv, Refused
<1>1. req \in [Requests -> Tasks] /\ req[r] \in Tasks
  BY <1>t DEF Typed, RequestsTyped
<1>s. s \in Sites /\ s # NoSite /\ seen' = seen
  BY <1>t, HostServingAssumption
  DEF HostServingAssumption, Attended, Knows, At, Routed, HeadPointer, ReadPointer, ReadRelease
<1>2. CASE HeadPointer(r)
  <2>1. CASE pointer[s].etag = 0
    <3>1. x = Nothing
      BY <1>t, <1>s, <2>1 DEF Typed, PointersTyped, Whole
    <3> QED BY <1>s, <3>1 DEF Reason
  <2>2. CASE req' = [req EXCEPT ![r].step = "route", ![r].release = states[Resolver(r)][s].value]
    BY <1>t, <1>1, <2>2 DEF Refused, Tasks, Nothing
  <2>3. CASE req' = [req EXCEPT ![r].step = "site pointer", ![r].etag = pointer[s].etag]
    BY <1>t, <1>1, <2>3 DEF Refused, Tasks, Nothing
  <2> QED BY <1>2, <2>1, <2>2, <2>3 DEF HeadPointer
<1>3. CASE ReadPointer(r)
  <2>1. CASE ~AsHeaded(r, pointer[s])
    <3>1. seen[r].disturbed
      BY <1>t, <1>3, <2>1 DEF ReadPointer, AsHeaded, Attended, Undisturbed, At
    <3> QED BY <1>s, <3>1 DEF Reason
  <2>2. CASE req' = [req EXCEPT ![r].step = "release", ![r].release = x]
    BY <1>t, <1>1, <2>2 DEF Refused, Tasks, Nothing
  <2> QED BY <1>3, <2>1, <2>2 DEF ReadPointer
<1>4. CASE ReadRelease(r)
  <2>1. CASE req' = [req EXCEPT ![r].step = "route", ![r].etag = 0]
    BY <1>t, <1>1, <2>1 DEF Refused, Tasks, Nothing
  <2>2. CASE ~Verified(req[r].release, "manifest.json") \/ ~Verified(req[r].release, "routes.json")
    BY <2>2 DEF Verified, Reason
  <2>3. CASE ~DomainAgrees(r, req[r].release)
    <3>1. ~seen[r].disturbed => req[r].release = x /\ req[r].manifest = routing.value
      BY <1>t, <1>4 DEF ReadRelease, Attended, Undisturbed, At, Routed
    <3> QED BY <1>s, <2>3, <3>1 DEF DomainAgrees, Reason
  <2> QED BY <1>4, <2>1, <2>2, <2>3 DEF ReadRelease
<1> QED BY <1>2, <1>3, <1>4

LEMMA ObjectReasons ==
  ASSUME IInv, NEW r \in Requests, Route(r) \/ ReadObject(r), Refused(r)
  PROVE  Reason(r)
<1>t. req[r].answer = Nothing /\ req \in [Requests -> Tasks] /\ req[r] \in Tasks
  BY DEF IInv, Typed, RequestsTyped, Refused
<1>1. CASE Route(r)
  <2>1. CASE Say(r, IF req[r].kind = "media" THEN "no file" ELSE "gone")
    <3>1. PICK answer \in {"gone", "no file"} : Done(r, answer, Nothing)
      BY <2>1 DEF Say
    <3> QED BY <1>t, <3>1, NotRefused
  <2>2. ASSUME NEW content, Give(r, content) PROVE FALSE
    BY <1>t, <2>2, NotRefused DEF Give
  <2>3. CASE req' = [req EXCEPT ![r].step = "object", ![r].object = ObjectOf(r)]
    BY <1>t, <2>3 DEF Refused, Tasks, Nothing
  <2> QED BY <1>1, <2>1, <2>2, <2>3 DEF Route
<1>2. CASE ReadObject(r)
  <2>1. CASE Give(r, Object(req[r].release, req[r].object))
    BY <1>t, <2>1, NotRefused DEF Give
  <2>2. CASE ~Verified(req[r].release, req[r].object)
    BY <2>2 DEF Verified, Reason
  <2> QED BY <1>2, <2>1, <2>2 DEF ReadObject
<1> QED BY <1>1, <1>2

\* Nobody is turned away while nothing moved, failed or is damaged, and the site was
\* released for the domain it has.
THEOREM Reasoned == Spec => RefusedForAReason
<1>1. ASSUME IInv, [Next]_vars, NEW r \in Requests, Refused(r)
      PROVE  Reason(r)
  <2>r. req'[r] # req[r] /\ req[r].answer = Nothing
    BY <1>1 DEF Refused, Nothing
  <2>1. PICK q \in Requests : Ask(q) \/ Serve(q) \/ CallFails(q)
    BY <1>1, <2>r DEF Next, vars, MoveRouting, MovePointer, Damage
  <2>2. q = r
    BY <1>1, <2>r, <2>1, OthersUnanswered
  <2>3. req \in [Requests -> Tasks] /\ req[r] \in Tasks
    BY <1>1 DEF IInv, Typed, RequestsTyped
  <2>4. CASE Ask(r)
    BY <1>1, <2>r, <2>3, <2>4 DEF Ask, Refused, Tasks, Nothing
  <2>5. CASE Serve(r)
    BY <1>1, <2>5, RoutingReasons, ReleaseReasons, ObjectReasons DEF Serve
  <2>6. CASE CallFails(r)
    <3>1. seen'[r].disturbed
      BY <1>1, <2>6 DEF CallFails, IInv, Typed, RequestsTyped
    <3> QED BY <3>1 DEF Reason
  <2> QED BY <2>1, <2>2, <2>4, <2>5, <2>6
<1>2. IInv /\ [Next]_vars
        => [\A r \in Requests :
              req'[r].answer \in {"unavailable", "thrown"} /\ req[r].answer = Nothing =>
                LET x == pointer[req[r].site].value
                IN \/ seen'[r].disturbed
                   \/ damaged # {}
                   \/ routing = NoEntry
                   \/ req[r].site # NoSite /\ (x = Nothing \/ Built[x].domain # Routing[routing.value].canonical[req[r].site])]_vars
  BY <1>1 DEF Refused, Reason
<1> QED BY InitIInv, StepIInv, <1>2, PTL DEF Spec, RefusedForAReason

(***************************************************************************)
(* CrawlJobs: the inductive invariant.                                     *)
(***************************************************************************)
\* What holds however many workers there are: a message is about a job there is, one to
\* ingest about a job that has a remote job, and so is what a worker does.
Sane(kind, j) == j \in Jobs /\ (kind = "ingest" => job[j].remote # NoRemote)

JobsSound ==
  /\ job \in Seq(JobRows) /\ Len(job) <= bound.jobs
  /\ \A j \in Jobs : job[j].remote \in Known \cup {NoRemote}
RemotesSound ==
  /\ remote \in Seq(Remotes) /\ Len(remote) <= MaxRemotes
  /\ \A r \in Known : remote[r].of \in Jobs
ArticlesSound ==
  /\ article \in Seq([of: JobIds, status: {"ready", "duplicate"}])
  /\ \A n \in DOMAIN article : article[n].of \in Jobs
QueueSound == IsABag(queue) /\ \A m \in Waiting : m \in Messages /\ Sane(m.kind, m.job)

IngestSteps == {"read", "mark", "get", "complete", "fail", "delete", "ack"}
SoundWork(work) ==
  /\ work \in WorkerStates
  /\ work.created \in Known \cup {NoRemote}
  /\ work.step # "idle" => Sane(work.kind, work.job)
  /\ work.step \in IngestSteps => work.kind = "ingest"
  /\ work.step = "record" => work.created # NoRemote
WorkersSound == worker \in [Workers -> WorkerStates] /\ \A w \in Workers : SoundWork(worker[w])

CrawlSound ==
  /\ bound \in Bounds /\ faults \in 0..bound.faults /\ listed \subseteq Jobs
  /\ JobsSound /\ RemotesSound /\ ArticlesSound /\ QueueSound /\ WorkersSound

(***************************************************************************)
(* CrawlJobs: what steps have in common.                                   *)
(***************************************************************************)
\* A step only adds rows and remote jobs, and a remote id that is recorded stays so.
CrawlGrows ==
  /\ bound' = bound
  /\ Jobs \subseteq Jobs' /\ Known \subseteq Known'
  /\ \A j \in Jobs : job[j].remote # NoRemote => job'[j].remote # NoRemote

LEMMA BoundsAreSound ==
  ASSUME bound \in Bounds
  PROVE  /\ bound.jobs \in 1..MaxJobs /\ bound.attempts \in Nat \ {0}
         /\ bound.redeliveries \in Nat /\ bound.faults \in Nat
         /\ MaxJobs \in Nat /\ MaxRemotes \in Nat
         /\ bound.outcomes \subseteq Outcomes
BY CrawlJobsAssumption

LEMMA JobsAreNumbered ==
  ASSUME CrawlSound
  PROVE  /\ Len(job) \in Nat /\ Jobs = 1..Len(job) /\ Jobs \subseteq JobIds
         /\ Len(remote) \in Nat /\ Known = 1..Len(remote) /\ Known \subseteq RemoteIds
         /\ Len(article) \in Nat /\ DOMAIN article = 1..Len(article)
         /\ \A j \in Jobs : job[j] \in JobRows
         /\ \A r \in Known : remote[r] \in Remotes
         /\ \A n \in DOMAIN article : article[n] \in [of: JobIds, status: {"ready", "duplicate"}]
<1> USE DEF CrawlSound, JobsSound, RemotesSound, ArticlesSound, Jobs, Known
<1>1. Len(job) \in Nat /\ Jobs = 1..Len(job) BY LenProperties
<1>2. Len(remote) \in Nat /\ Known = 1..Len(remote) BY LenProperties
<1>3. Len(article) \in Nat /\ DOMAIN article = 1..Len(article) BY LenProperties
<1>4. Jobs \subseteq JobIds BY <1>1, BoundsAreSound DEF JobIds
<1>5. Known \subseteq RemoteIds BY <1>2, BoundsAreSound DEF RemoteIds
<1>6. \A j \in Jobs : job[j] \in JobRows BY <1>1, ElementOfSeq
<1>7. \A r \in Known : remote[r] \in Remotes BY <1>2, ElementOfSeq
<1>8. \A n \in DOMAIN article : article[n] \in [of: JobIds, status: {"ready", "duplicate"}]
  BY <1>3, ElementOfSeq
<1> QED BY <1>1, <1>2, <1>3, <1>4, <1>5, <1>6, <1>7, <1>8

LEMMA SaneStays ==
  ASSUME CrawlGrows, NEW kind, NEW j, Sane(kind, j)
  PROVE  Sane(kind, j)'
BY DEF CrawlGrows, Sane

LEMMA UnchangedIsSound ==
  ASSUME CrawlSound, CrawlGrows
  PROVE  /\ job' = job => JobsSound'
         /\ remote' = remote => RemotesSound'
         /\ article' = article => ArticlesSound'
         /\ queue' = queue => QueueSound'
         /\ worker' = worker => WorkersSound'
         /\ listed' = listed => listed' \subseteq Jobs'
         /\ faults' = faults => faults' \in 0..bound'.faults
         /\ bound' \in Bounds
<1>1. bound' = bound /\ Jobs \subseteq Jobs' /\ Known \subseteq Known' BY DEF CrawlGrows
<1>2. ASSUME job' = job PROVE JobsSound'
  BY <1>1, <1>2 DEF CrawlSound, JobsSound, JobRows, Jobs
<1>3. ASSUME remote' = remote PROVE RemotesSound'
  BY <1>1, <1>3 DEF CrawlSound, RemotesSound, Known
<1>4. ASSUME article' = article PROVE ArticlesSound'
  BY <1>1, <1>4 DEF CrawlSound, ArticlesSound
<1>5. ASSUME queue' = queue PROVE QueueSound'
  <2>1. IsABag(queue)' BY <1>5 DEF CrawlSound, QueueSound
  <2>2. Waiting' = Waiting BY <1>5 DEF Waiting
  <2>3. Messages' = Messages BY <1>1 DEF Messages
  <2> QED BY <2>1, <2>2, <2>3, SaneStays DEF CrawlSound, QueueSound
<1>6. ASSUME worker' = worker PROVE WorkersSound'
  <2>1. WorkerStates' = WorkerStates BY <1>1 DEF WorkerStates
  <2>2. ASSUME NEW v \in Workers PROVE SoundWork(worker[v])'
    <3>0. PICK u : u = worker[v] OBVIOUS
    <3>1. worker[v] = u /\ worker'[v] = u BY <1>6, <3>0
    <3>2. SoundWork(u) BY <3>0 DEF CrawlSound, WorkersSound
    <3>3. u.step # "idle" => Sane(u.kind, u.job)' BY <3>2, SaneStays DEF SoundWork
    <3> QED BY <3>1, <3>2, <3>3, <2>1, <1>1 DEF SoundWork
  <2> QED BY <2>1, <2>2, <1>6 DEF CrawlSound, WorkersSound
<1> QED BY <1>1, <1>2, <1>3, <1>4, <1>5, <1>6 DEF CrawlSound

\* One row changes.
RowSet(j, row) == job' = [job EXCEPT ![j] = row]

LEMMA RowSetIsSound ==
  ASSUME CrawlSound, NEW j \in Jobs, NEW row \in JobRows, RowSet(j, row),
         bound' = bound, Known \subseteq Known', row.remote \in Known' \cup {NoRemote},
         job[j].remote # NoRemote => row.remote # NoRemote
  PROVE  /\ CrawlGrows /\ JobsSound' /\ Jobs' = Jobs
         /\ job'[j] = row /\ \A k \in Jobs : k # j => job'[k] = job[k]
<1>0. Len(job) \in Nat /\ Jobs = 1..Len(job) BY JobsAreNumbered
<1>1. job \in Seq(JobRows) BY DEF CrawlSound, JobsSound
<1>2. job' \in Seq(JobRows) /\ Len(job') = Len(job)
      /\ \A k \in 1..Len(job) : job'[k] = IF k = j THEN row ELSE job[k]
  BY <1>0, <1>1, ExceptSeq DEF RowSet
<1>3. Jobs' = Jobs BY <1>0, <1>2, LenProperties DEF Jobs
<1>4. JobRows' = JobRows BY DEF JobRows
<1>5. CrawlGrows BY <1>0, <1>2, <1>3 DEF CrawlGrows
<1>6. JobsSound' BY <1>0, <1>2, <1>3, <1>4 DEF CrawlSound, JobsSound
<1> QED BY <1>0, <1>2, <1>3, <1>5, <1>6

\* One remote job changes.
RemoteSet(r, row) == remote' = [remote EXCEPT ![r] = row]

LEMMA RemoteSetIsSound ==
  ASSUME CrawlSound, NEW r \in Known, NEW row \in Remotes, RemoteSet(r, row),
         bound' = bound, job' = job, row.of = remote[r].of
  PROVE  /\ CrawlGrows /\ RemotesSound' /\ Known' = Known
         /\ remote'[r] = row /\ \A s \in Known : s # r => remote'[s] = remote[s]
<1>0. Len(remote) \in Nat /\ Known = 1..Len(remote) BY JobsAreNumbered
<1>1. remote \in Seq(Remotes) BY DEF CrawlSound, RemotesSound
<1>2. remote' \in Seq(Remotes) /\ Len(remote') = Len(remote)
      /\ \A k \in 1..Len(remote) : remote'[k] = IF k = r THEN row ELSE remote[k]
  BY <1>0, <1>1, ExceptSeq DEF RemoteSet
<1>3. Known' = Known BY <1>0, <1>2, LenProperties DEF Known
<1>4. Jobs' = Jobs BY DEF Jobs
<1>5. CrawlGrows BY <1>3, <1>4 DEF CrawlGrows
<1>6. RemotesSound' BY <1>0, <1>2, <1>3, <1>4 DEF CrawlSound, RemotesSound
<1> QED BY <1>0, <1>2, <1>3, <1>5, <1>6

\* The messages after a send, a take and a redelivery.
LEMMA BagGets ==
  ASSUME NEW B, IsABag(B), NEW m
  PROVE  IsABag(B (+) SetToBag({m})) /\ BagToSet(B (+) SetToBag({m})) = BagToSet(B) \cup {m}
BY DEF IsABag, BagToSet, SetToBag, (+)

LEMMA BagLoses ==
  ASSUME NEW B, IsABag(B), NEW m
  PROVE  IsABag(B (-) SetToBag({m})) /\ BagToSet(B (-) SetToBag({m})) \subseteq BagToSet(B)
BY DEF IsABag, BagToSet, SetToBag, (-)

LEMMA QueueGetsSound ==
  ASSUME CrawlSound, CrawlGrows, NEW m \in Messages, Sane(m.kind, m.job)',
         queue' = queue (+) SetToBag({m})
  PROVE  QueueSound'
<1>1. IsABag(queue) BY DEF CrawlSound, QueueSound
<1>2. IsABag(queue') /\ Waiting' = Waiting \cup {m} BY <1>1, BagGets DEF Waiting
<1>3. Messages' = Messages BY DEF Messages, CrawlGrows
<1>4. ASSUME NEW n \in Waiting' PROVE n \in Messages' /\ Sane(n.kind, n.job)'
  <2>1. CASE n = m BY <2>1, <1>3
  <2>2. CASE n \in Waiting BY <2>2, <1>3, SaneStays DEF CrawlSound, QueueSound
  <2> QED BY <1>2, <2>1, <2>2
<1> QED BY <1>2, <1>4 DEF QueueSound

LEMMA SendIsSound ==
  ASSUME CrawlSound, CrawlGrows, NEW kind \in {"dispatch", "ingest"}, NEW j \in JobIds,
         Sane(kind, j)', Send(kind, j)
  PROVE  QueueSound'
<1> DEFINE m == [kind |-> kind, job |-> j, tries |-> 0]
<1>1. m \in Messages BY BoundsAreSound DEF CrawlSound, Messages
<1>2. m.kind = kind /\ m.job = j OBVIOUS
<1>3. queue' = queue \/ queue' = queue (+) SetToBag({m}) BY DEF Send
<1> HIDE DEF m
<1>4. Sane(m.kind, m.job)' BY <1>2
<1> QED BY <1>1, <1>3, <1>4, QueueGetsSound, UnchangedIsSound

\* One worker moves.
WorkSet(w, work) == worker' = [worker EXCEPT ![w] = work]

LEMMA WorkSetIsSound ==
  ASSUME CrawlSound, CrawlGrows, NEW w \in Workers, NEW work, SoundWork(work)', WorkSet(w, work)
  PROVE  WorkersSound'
<1>1. bound' = bound BY DEF CrawlGrows
<1>2. WorkerStates' = WorkerStates BY <1>1 DEF WorkerStates
<1>3. worker' \in [Workers -> WorkerStates] BY <1>2 DEF CrawlSound, WorkersSound, SoundWork, WorkSet
<1>4. ASSUME NEW v \in Workers PROVE SoundWork(worker[v])'
  <2>1. CASE v = w
    <3>1. worker'[v] = work BY <2>1 DEF CrawlSound, WorkersSound, WorkSet
    <3> QED BY <3>1 DEF SoundWork
  <2>2. CASE v # w
    <3>0. PICK u : u = worker[v] OBVIOUS
    <3>1. worker'[v] = u BY <2>2, <3>0 DEF CrawlSound, WorkersSound, WorkSet
    <3>2. SoundWork(u) BY <3>0 DEF CrawlSound, WorkersSound
    <3>3. u.step # "idle" => Sane(u.kind, u.job)' BY <3>2, SaneStays DEF SoundWork
    <3> QED BY <3>1, <3>2, <3>3, <1>1, <1>2 DEF SoundWork, CrawlGrows
  <2> QED BY <2>1, <2>2
<1> QED BY <1>2, <1>3, <1>4 DEF WorkersSound

\* A worker goes on with its message, has done with it, or throws.
LEMMA TurnIsSound ==
  ASSUME CrawlSound, CrawlGrows, NEW w \in Workers, ~Doing(w, "idle"),
         NEW step \in WorkerSteps \ {"record"}, step \in IngestSteps => worker[w].kind = "ingest",
         Turn(w, step)
  PROVE  WorkersSound'
<1>0. PICK u : u = worker[w] OBVIOUS
<1> DEFINE next == [u EXCEPT !.step = step]
<1>1. SoundWork(u) /\ u \in WorkerStates BY <1>0 DEF CrawlSound, WorkersSound, SoundWork
<1>2. WorkSet(w, next) BY <1>0 DEF Turn, WorkSet
<1>3. u.step # "idle" BY <1>0 DEF Doing
<1>4. step \in IngestSteps => u.kind = "ingest" BY <1>0
<1>5. next \in WorkerStates /\ next.kind = u.kind /\ next.job = u.job /\ next.created = u.created
      /\ next.step = step
  BY <1>1 DEF WorkerStates
<1>6. Sane(u.kind, u.job)' BY <1>1, <1>3, SaneStays DEF SoundWork
<1>7. WorkerStates' = WorkerStates BY DEF WorkerStates, CrawlGrows
<1> HIDE DEF next
<1>8. SoundWork(next)' BY <1>1, <1>4, <1>5, <1>6, <1>7 DEF SoundWork, CrawlGrows
<1> QED BY <1>2, <1>8, WorkSetIsSound

LEMMA NoWorkIsSound ==
  ASSUME bound \in Bounds
  PROVE  SoundWork(NoWork)
BY BoundsAreSound DEF SoundWork, NoWork, WorkerStates, WorkerSteps, IngestSteps, JobIds, RemoteIds

LEMMA DropIsSound ==
  ASSUME CrawlSound, CrawlGrows, NEW w \in Workers, Drop(w)
  PROVE  WorkersSound'
<1>1. SoundWork(NoWork)' BY UnchangedIsSound, BoundsAreSound, JobsAreNumbered
        DEF SoundWork, NoWork, WorkerStates, WorkerSteps, IngestSteps, CrawlGrows
<1> QED BY <1>1, WorkSetIsSound DEF Drop, WorkSet, NoWork

LEMMA ThrowIsSound ==
  ASSUME CrawlSound, CrawlGrows, NEW w \in Workers, ~Doing(w, "idle"), Throw(w)
  PROVE  QueueSound' /\ WorkersSound'
<1>0. PICK u : u = worker[w] OBVIOUS
<1> DEFINE m == [kind |-> u.kind, job |-> u.job, tries |-> u.tries + 1]
<1>1. WorkersSound' BY DropIsSound DEF Throw
<1>2. SoundWork(u) /\ u.step # "idle" BY <1>0 DEF CrawlSound, WorkersSound, Doing
<1>3. queue' = queue \/ (queue' = queue (+) SetToBag({m}) /\ u.tries < bound.redeliveries)
  BY <1>0 DEF Throw, DeliveredAgain, Mine
<1>4. CASE queue' = queue BY <1>4, <1>1, UnchangedIsSound
<1>5. CASE queue' = queue (+) SetToBag({m}) /\ u.tries < bound.redeliveries
  <2>1. bound.redeliveries \in Nat BY BoundsAreSound DEF CrawlSound
  <2>2. u \in WorkerStates /\ Sane(u.kind, u.job) BY <1>2 DEF SoundWork
  <2>3. u.job \in JobIds BY <2>2, JobsAreNumbered DEF Sane
  <2>4. m \in Messages BY <1>5, <2>1, <2>2, <2>3 DEF Messages, WorkerStates
  <2>5. m.kind = u.kind /\ m.job = u.job OBVIOUS
  <2>6. Sane(u.kind, u.job)' BY <2>2, SaneStays
  <2> HIDE DEF m
  <2>7. Sane(m.kind, m.job)' BY <2>5, <2>6
  <2> QED BY <1>1, <1>5, <2>4, <2>7, QueueGetsSound
<1> QED BY <1>1, <1>3, <1>4, <1>5

LEMMA FaultIsSound ==
  ASSUME CrawlSound, bound' = bound, Fault
  PROVE  faults' \in 0..bound'.faults /\ faults' = faults + 1
BY BoundsAreSound DEF CrawlSound, Fault

LEMMA ReturnIsSound ==
  ASSUME CrawlSound, CrawlGrows, NEW w \in Workers, ~Doing(w, "idle"), Return(w)
  PROVE  QueueSound' /\ WorkersSound' /\ faults' \in 0..bound'.faults
<1>1. bound' = bound BY DEF CrawlGrows
<1>2. CASE Drop(w) /\ UNCHANGED <<queue, faults>> BY <1>2, DropIsSound, UnchangedIsSound
<1>3. CASE Fault /\ Throw(w) BY <1>1, <1>3, ThrowIsSound, FaultIsSound
<1> QED BY <1>2, <1>3 DEF Return

LEMMA StayingGrows ==
  ASSUME bound' = bound, job' = job, remote' = remote
  PROVE  CrawlGrows
BY DEF CrawlGrows, Jobs, Known

\* The rows that steps of the server and of the workers leave.
Changes(row, next) ==
  \/ \E st \in InFlight \cup Final, p \in {"fetching", "ready", "failed"} :
       next = [row EXCEPT !.state = st, !.parent = p]
  \/ \E st \in InFlight : next = [row EXCEPT !.state = st]
  \/ next = [row EXCEPT !.notified = TRUE, !.state = "notified"]
  \/ next = [row EXCEPT !.acked = TRUE]
  \/ \E a \in 0..bound.attempts : next = [row EXCEPT !.attempts = a]

LEMMA ChangesKeepRemotes ==
  ASSUME NEW row \in JobRows, NEW next, Changes(row, next)
  PROVE  next \in JobRows /\ next.remote = row.remote
<1>1. CASE \E st \in InFlight \cup Final, p \in {"fetching", "ready", "failed"} :
             next = [row EXCEPT !.state = st, !.parent = p]
  BY <1>1 DEF JobRows
<1>2. CASE \E st \in InFlight : next = [row EXCEPT !.state = st]
  BY <1>2 DEF JobRows
<1>3. CASE next = [row EXCEPT !.notified = TRUE, !.state = "notified"]
  BY <1>3 DEF JobRows, InFlight
<1>4. CASE next = [row EXCEPT !.acked = TRUE]
  BY <1>4 DEF JobRows
<1>5. CASE \E a \in 0..bound.attempts : next = [row EXCEPT !.attempts = a]
  BY <1>5 DEF JobRows
<1> QED BY <1>1, <1>2, <1>3, <1>4, <1>5 DEF Changes

LEMMA ChangeIsSound ==
  ASSUME CrawlSound, NEW j \in Jobs, NEW row, Changes(job[j], row), RowSet(j, row),
         bound' = bound, remote' = remote
  PROVE  /\ CrawlGrows /\ JobsSound' /\ Jobs' = Jobs
         /\ job'[j] = row /\ \A k \in Jobs : k # j => job'[k] = job[k]
<1>1. job[j] \in JobRows BY JobsAreNumbered
<1>2. row \in JobRows /\ row.remote = job[j].remote BY <1>1, ChangesKeepRemotes
<1>3. Known' = Known BY DEF Known
<1>4. job[j].remote \in Known \cup {NoRemote} BY DEF CrawlSound, JobsSound
<1> QED BY <1>2, <1>3, <1>4, RowSetIsSound

LEMMA CrawlStartsSound == CrawlInit => CrawlSound
<1> SUFFICES ASSUME CrawlInit PROVE CrawlSound OBVIOUS
<1> USE DEF CrawlInit
<1>1. bound \in Bounds OBVIOUS
<1>2. /\ bound.jobs \in Nat /\ bound.faults \in Nat /\ MaxRemotes \in Nat BY <1>1, BoundsAreSound
<1>3. Jobs = {} /\ Known = {} /\ DOMAIN article = {} BY DEF Jobs, Known
<1>4. JobsSound BY <1>2, <1>3, EmptySeq DEF JobsSound
<1>5. RemotesSound BY <1>2, <1>3, EmptySeq DEF RemotesSound
<1>6. ArticlesSound BY <1>3, EmptySeq DEF ArticlesSound
<1>7. QueueSound BY DEF QueueSound, IsABag, EmptyBag, Waiting, BagToSet, SetToBag
<1>8. SoundWork(NoWork) BY <1>1, NoWorkIsSound
<1>9. WorkersSound BY <1>8 DEF WorkersSound, SoundWork
<1> QED BY <1>1, <1>2, <1>4, <1>5, <1>6, <1>7, <1>9 DEF CrawlSound

LEMMA SoundIsTyped == CrawlSound => CrawlTypeOK
<1> SUFFICES ASSUME CrawlSound PROVE CrawlTypeOK OBVIOUS
<1>1. \A n \in DOMAIN article : article[n] \in [of: Jobs, status: {"ready", "duplicate"}]
  BY JobsAreNumbered DEF CrawlSound, ArticlesSound
<1> QED BY <1>1, JobsAreNumbered
     DEF CrawlSound, CrawlTypeOK, JobsSound, RemotesSound, QueueSound, WorkersSound

(***************************************************************************)
(* CrawlJobs: the steps, with any number of workers.                       *)
(***************************************************************************)
LEMMA PollIsSound == CrawlSound /\ Poll => CrawlSound'
<1> SUFFICES ASSUME CrawlSound, Poll PROVE CrawlSound' OBVIOUS
<1>1. /\ Len(job) < bound.jobs /\ job' = Append(job, NewJob) /\ Send("dispatch", Len(job) + 1)
      /\ bound' = bound /\ remote' = remote /\ article' = article /\ worker' = worker
      /\ listed' = listed /\ faults' = faults
  BY DEF Poll
<1>2. Len(job) \in Nat /\ Jobs = 1..Len(job) BY JobsAreNumbered
<1>3. bound.jobs \in 1..MaxJobs /\ bound.attempts \in Nat /\ MaxJobs \in Nat
  BY BoundsAreSound DEF CrawlSound
<1>4. NewJob \in JobRows BY <1>3 DEF NewJob, JobRows, InFlight
<1>5. /\ job' \in Seq(JobRows) /\ Len(job') = Len(job) + 1
      /\ \A j \in 1..Len(job) : job'[j] = job[j]
      /\ job'[Len(job) + 1] = NewJob
  BY <1>1, <1>4, AppendProperties DEF CrawlSound, JobsSound
<1>6. Jobs' = 1..(Len(job) + 1) BY <1>5, LenProperties DEF Jobs
<1>7. CrawlGrows BY <1>1, <1>2, <1>5, <1>6 DEF CrawlGrows, Known
<1>8. JobsSound'
  <2>1. JobRows' = JobRows BY <1>1 DEF JobRows
  <2>2. ASSUME NEW j \in Jobs' PROVE job'[j].remote \in Known' \cup {NoRemote}
    <3>1. CASE j = Len(job) + 1 BY <3>1, <1>5 DEF NewJob
    <3>2. CASE j \in 1..Len(job)
      BY <3>2, <1>1, <1>2, <1>5 DEF CrawlSound, JobsSound, Known
    <3> QED BY <1>2, <1>6, <3>1, <3>2
  <2>3. Len(job') <= bound'.jobs BY <1>1, <1>2, <1>3, <1>5
  <2> QED BY <1>5, <2>1, <2>2, <2>3 DEF JobsSound
<1>9. QueueSound'
  <2> DEFINE n == Len(job) + 1
  <2>0. PICK m : m = Len(job) + 1 OBVIOUS
  <2>1. m \in JobIds /\ m \in Jobs' BY <2>0, <1>1, <1>2, <1>3, <1>6 DEF JobIds
  <2>2. Sane("dispatch", m)' BY <2>1 DEF Sane
  <2> QED BY <2>0, <2>1, <2>2, <1>1, <1>7, SendIsSound
<1> QED BY <1>1, <1>7, <1>8, <1>9, UnchangedIsSound DEF CrawlSound

LEMMA NotifyIsSound ==
  ASSUME NEW j \in JobIds, CrawlSound, Notify(j)
  PROVE  CrawlSound'
<1>1. /\ j \in Jobs /\ job[j].remote # NoRemote
      /\ job' = [job EXCEPT ![j].notified = TRUE, ![j].state = "notified"] /\ Send("ingest", j)
      /\ bound' = bound /\ remote' = remote /\ article' = article /\ worker' = worker
      /\ listed' = listed /\ faults' = faults
  BY DEF Notify
<1>0. PICK row : row = [job[j] EXCEPT !.notified = TRUE, !.state = "notified"] OBVIOUS
<1>2. Changes(job[j], row) BY <1>0 DEF Changes
<1>3. RowSet(j, row)
  BY <1>0, <1>1 DEF RowSet
<1>4. CrawlGrows /\ JobsSound' BY <1>1, <1>2, <1>3, ChangeIsSound
<1>5. Sane("ingest", j)' BY <1>1, <1>4, SaneStays DEF Sane
<1>6. QueueSound' BY <1>1, <1>4, <1>5, SendIsSound
<1> QED BY <1>1, <1>4, <1>6, UnchangedIsSound DEF CrawlSound

LEMMA ReconcileIsSound ==
  ASSUME NEW j \in JobIds, CrawlSound, Reconcile(j)
  PROVE  CrawlSound'
<1>1. /\ j \in listed /\ listed' = listed \ {j}
      /\ bound' = bound /\ remote' = remote /\ article' = article /\ worker' = worker
      /\ faults' = faults
  BY DEF Reconcile
<1>2. j \in Jobs BY <1>1 DEF CrawlSound
<1>3. ASSUME CrawlGrows, JobsSound', QueueSound' PROVE CrawlSound'
  <2>1. listed' \subseteq Jobs' BY <1>1, <1>3 DEF CrawlSound, CrawlGrows
  <2> QED BY <1>1, <1>3, <2>1, UnchangedIsSound DEF CrawlSound
<1>4. CASE UNCHANGED <<job, queue>> BY <1>1, <1>3, <1>4, StayingGrows, UnchangedIsSound
<1>5. CASE GiveUp(j) /\ UNCHANGED queue
  <2>0. PICK row : row = [job[j] EXCEPT !.state = "failed", !.parent = "failed"] OBVIOUS
  <2>1. Changes(job[j], row) BY <2>0 DEF Changes, Final
  <2>2. RowSet(j, row) BY <2>0, <1>2, <1>5 DEF RowSet, GiveUp
  <2>3. CrawlGrows /\ JobsSound' BY <1>1, <1>2, <2>1, <2>2, ChangeIsSound
  <2> QED BY <1>3, <1>5, <2>3, UnchangedIsSound
<1>6. CASE /\ Send(IF job[j].remote = NoRemote THEN "dispatch" ELSE "ingest", j)
           /\ job' = [job EXCEPT ![j].attempts = IF @ < bound.attempts THEN @ + 1 ELSE @]
  <2>0. PICK a : a = IF job[j].attempts < bound.attempts THEN job[j].attempts + 1
                                                         ELSE job[j].attempts OBVIOUS
  <2>1. job[j].attempts \in 0..bound.attempts BY <1>2, JobsAreNumbered DEF JobRows
  <2>2. bound.attempts \in Nat BY BoundsAreSound DEF CrawlSound
  <2>3. a \in 0..bound.attempts BY <2>0, <2>1, <2>2
  <2>4. PICK row : row = [job[j] EXCEPT !.attempts = a] OBVIOUS
  <2>5. Changes(job[j], row) BY <2>3, <2>4 DEF Changes
  <2>6. RowSet(j, row) BY <2>0, <2>4, <1>2, <1>6 DEF RowSet
  <2>7. CrawlGrows /\ JobsSound' BY <1>1, <1>2, <2>5, <2>6, ChangeIsSound
  <2>8. PICK kind : kind = IF job[j].remote = NoRemote THEN "dispatch" ELSE "ingest" OBVIOUS
  <2>9. Sane(kind, j) BY <2>8, <1>2 DEF Sane
  <2>10. QueueSound' BY <1>6, <2>7, <2>8, <2>9, SaneStays, SendIsSound
  <2> QED BY <1>3, <2>7, <2>10
<1> QED BY <1>4, <1>5, <1>6 DEF Reconcile

LEMMA RemoteEndsIsSound ==
  ASSUME NEW r \in RemoteIds, NEW outcome \in Outcomes, CrawlSound, RemoteEnds(r, outcome)
  PROVE  CrawlSound'
<1>1. /\ r \in Known /\ remote' = [remote EXCEPT ![r].state = outcome]
      /\ bound' = bound /\ job' = job /\ article' = article /\ queue' = queue /\ worker' = worker
      /\ listed' = listed /\ faults' = faults
  BY DEF RemoteEnds
<1>0. PICK row : row = [remote[r] EXCEPT !.state = outcome] OBVIOUS
<1>2. row \in Remotes /\ row.of = remote[r].of
  BY <1>0, <1>1, JobsAreNumbered DEF Remotes, Outcomes
<1>3. RemoteSet(r, row) BY <1>0, <1>1 DEF RemoteSet
<1>4. CrawlGrows /\ RemotesSound' BY <1>1, <1>2, <1>3, RemoteSetIsSound
<1> QED BY <1>1, <1>4, UnchangedIsSound DEF CrawlSound

LEMMA TakeIsSound ==
  ASSUME NEW w \in Workers, CrawlSound, Take(w)
  PROVE  CrawlSound'
<1>1. /\ bound' = bound /\ job' = job /\ remote' = remote /\ article' = article
      /\ listed' = listed /\ faults' = faults
  BY DEF Take
<1>2. PICK message \in Waiting :
        /\ queue' = queue (-) SetToBag({message})
        /\ worker' = [worker EXCEPT ![w] = [NoWork EXCEPT !.kind = message.kind, !.job = message.job,
                        !.tries = message.tries,
                        !.step = IF message.kind = "dispatch" THEN "input" ELSE "read"]]
  BY DEF Take
<1>3. CrawlGrows BY <1>1, StayingGrows
<1>4. IsABag(queue') /\ Waiting' \subseteq Waiting BY <1>2, BagLoses DEF CrawlSound, QueueSound, Waiting
<1>5. Messages' = Messages BY <1>1 DEF Messages
<1>6. QueueSound' BY <1>3, <1>4, <1>5, SaneStays DEF CrawlSound, QueueSound
<1>7. message \in Messages /\ Sane(message.kind, message.job) BY DEF CrawlSound, QueueSound
<1>8. PICK work : work = [NoWork EXCEPT !.kind = message.kind, !.job = message.job,
                        !.tries = message.tries,
                        !.step = IF message.kind = "dispatch" THEN "input" ELSE "read"] OBVIOUS
<1>9. work \in WorkerStates
  BY <1>7, <1>8, BoundsAreSound
     DEF Messages, NoWork, WorkerStates, WorkerSteps, RemoteIds, CrawlSound
<1>10. /\ work.kind = message.kind /\ work.job = message.job /\ work.created = NoRemote
       /\ work.step = IF message.kind = "dispatch" THEN "input" ELSE "read"
  BY <1>8 DEF NoWork
<1>11. message.kind \in {"dispatch", "ingest"} BY <1>7 DEF Messages
<1>12. SoundWork(work) BY <1>7, <1>9, <1>10, <1>11 DEF SoundWork, IngestSteps
<1>13. SoundWork(work)'
  <2>1. Sane(work.kind, work.job)' BY <1>3, <1>7, <1>10, SaneStays
  <2> QED BY <1>1, <1>12, <2>1 DEF SoundWork, WorkerStates, Known
<1>14. WorkersSound' BY <1>2, <1>3, <1>8, <1>13, WorkSetIsSound DEF WorkSet
<1> QED BY <1>1, <1>3, <1>6, <1>14, UnchangedIsSound DEF CrawlSound

\* What a worker that is not idle works on.
LEMMA WorkIsSound ==
  ASSUME CrawlSound, NEW w \in Workers, ~Doing(w, "idle")
  PROVE  /\ SoundWork(worker[w]) /\ Mine(w) \in Jobs
         /\ worker[w].step \in IngestSteps =>
              worker[w].kind = "ingest" /\ job[Mine(w)].remote \in Known
         /\ Doing(w, "record") => worker[w].created \in Known /\ worker[w].created # NoRemote
BY DEF CrawlSound, WorkersSound, JobsSound, SoundWork, Sane, Doing, Mine

LEMMA InputIsSound ==
  ASSUME NEW w \in Workers, CrawlSound, Input(w)
  PROVE  CrawlSound'
<1>1. /\ bound' = bound /\ job' = job /\ remote' = remote /\ article' = article
      /\ listed' = listed /\ faults' = faults /\ Doing(w, "input") /\ ~Doing(w, "idle")
  BY DEF Input, Doing
<1>2. CrawlGrows BY <1>1, StayingGrows
<1>3. ASSUME QueueSound', WorkersSound' PROVE CrawlSound'
  BY <1>1, <1>2, <1>3, UnchangedIsSound DEF CrawlSound
<1>4. CASE Turn(w, "post") /\ UNCHANGED queue
  BY <1>1, <1>2, <1>3, <1>4, TurnIsSound, UnchangedIsSound DEF WorkerSteps, IngestSteps
<1>5. CASE Throw(w) BY <1>1, <1>2, <1>3, <1>5, ThrowIsSound
<1> QED BY <1>4, <1>5 DEF Input

LEMMA CreatedIsSound ==
  ASSUME CrawlSound, NEW w \in Workers, ~Doing(w, "idle"), Len(remote) < MaxRemotes, Created(w),
         bound' = bound, job' = job
  PROVE  /\ CrawlGrows /\ RemotesSound' /\ Len(remote) + 1 \in Known' \ Known
         /\ Known' = Known \cup {Len(remote) + 1} /\ Len(remote) + 1 \in RemoteIds
         /\ remote'[Len(remote) + 1] = [state |-> "running", of |-> Mine(w)]
         /\ \A r \in Known : remote'[r] = remote[r]
<1> DEFINE row == [state |-> "running", of |-> Mine(w)]
<1>1. Mine(w) \in Jobs BY WorkIsSound
<1>2. Len(remote) \in Nat /\ Known = 1..Len(remote) /\ Jobs \subseteq JobIds BY JobsAreNumbered
<1>3. row \in Remotes BY <1>1, <1>2 DEF Remotes
<1>4. remote' = Append(remote, row) BY DEF Created
<1>0. row.of = Mine(w) OBVIOUS
<1> HIDE DEF row
<1>5. /\ remote' \in Seq(Remotes) /\ Len(remote') = Len(remote) + 1
      /\ \A r \in 1..Len(remote) : remote'[r] = remote[r]
      /\ remote'[Len(remote) + 1] = row
  BY <1>3, <1>4, AppendProperties DEF CrawlSound, RemotesSound
<1>6. Known' = 1..(Len(remote) + 1) BY <1>5, LenProperties DEF Known
<1>7. Jobs' = Jobs BY DEF Jobs
<1>8. CrawlGrows BY <1>2, <1>6, <1>7 DEF CrawlGrows
<1>9. MaxRemotes \in Nat BY BoundsAreSound DEF CrawlSound
<1>10. \A r \in Known' : remote'[r].of \in Jobs'
  <2> SUFFICES ASSUME NEW r \in Known' PROVE remote'[r].of \in Jobs' OBVIOUS
  <2>1. CASE r = Len(remote) + 1 BY <2>1, <1>0, <1>1, <1>5, <1>7
  <2>2. CASE r \in Known BY <2>2, <1>2, <1>5, <1>7 DEF CrawlSound, RemotesSound
  <2> QED BY <1>2, <1>6, <2>1, <2>2
<1>11. RemotesSound' BY <1>2, <1>5, <1>9, <1>10 DEF RemotesSound
<1>12. Known' = Known \cup {Len(remote) + 1} /\ Len(remote) + 1 \notin Known /\ Len(remote) + 1 \in RemoteIds
  BY <1>2, <1>6, <1>9 DEF RemoteIds
<1> QED BY <1>2, <1>5, <1>8, <1>11, <1>12 DEF row

LEMMA PostIsSound ==
  ASSUME NEW w \in Workers, CrawlSound, Post(w)
  PROVE  CrawlSound'
<1>1. /\ bound' = bound /\ job' = job /\ article' = article /\ queue' = queue
      /\ listed' = listed /\ Doing(w, "post") /\ ~Doing(w, "idle") /\ Len(remote) < MaxRemotes
  BY DEF Post, Doing
<1>2. ASSUME CrawlGrows, RemotesSound', WorkersSound', faults' \in 0..bound'.faults PROVE CrawlSound'
  BY <1>1, <1>2, UnchangedIsSound DEF CrawlSound
<1>3. CASE /\ Created(w)
           /\ worker' = [worker EXCEPT ![w].step = "record", ![w].created = Len(remote) + 1]
           /\ UNCHANGED faults
  <2>1. /\ CrawlGrows /\ RemotesSound' /\ Len(remote) + 1 \in Known' /\ Len(remote) + 1 \in RemoteIds
    BY <1>1, <1>3, CreatedIsSound
  <2>0. PICK u, r : u = worker[w] /\ r = Len(remote) + 1 OBVIOUS
  <2>2. PICK work : work = [u EXCEPT !.step = "record", !.created = r] OBVIOUS
  <2>3. SoundWork(u) /\ u.step # "idle" BY <2>0, <1>1, WorkIsSound DEF Doing
  <2>4. /\ work \in WorkerStates /\ work.kind = u.kind /\ work.job = u.job /\ work.step = "record"
        /\ work.created = r
    BY <2>0, <2>1, <2>2, <2>3 DEF SoundWork, WorkerStates, WorkerSteps
  <2>5. Sane(u.kind, u.job)' BY <2>1, <2>3, SaneStays DEF SoundWork
  <2>6. r # NoRemote BY <2>0, <2>1 DEF RemoteIds, NoRemote
  <2>7. SoundWork(work)' BY <2>0, <2>1, <2>4, <2>5, <2>6, <1>1 DEF SoundWork, WorkerStates, IngestSteps
  <2>8. WorkSet(w, work) BY <1>3, <2>0, <2>2 DEF WorkSet, CrawlSound, WorkersSound
  <2>9. WorkersSound' BY <2>1, <2>7, <2>8, WorkSetIsSound
  <2> QED BY <1>1, <1>2, <1>3, <2>1, <2>9, UnchangedIsSound
<1>4. CASE Turn(w, "refuse") /\ UNCHANGED <<remote, faults>>
  <2>1. CrawlGrows BY <1>1, <1>4, StayingGrows
  <2>2. WorkersSound' BY <1>1, <1>4, <2>1, TurnIsSound DEF WorkerSteps, IngestSteps
  <2> QED BY <1>2, <1>4, <2>1, <2>2, UnchangedIsSound
<1>5. CASE Created(w) /\ Turn(w, "refuse") /\ Fault
  <2>1. CrawlGrows /\ RemotesSound' BY <1>1, <1>5, CreatedIsSound
  <2>2. WorkersSound' BY <1>1, <1>5, <2>1, TurnIsSound DEF WorkerSteps, IngestSteps
  <2> QED BY <1>1, <1>2, <1>5, <2>1, <2>2, FaultIsSound
<1> QED BY <1>3, <1>4, <1>5 DEF Post

LEMMA RecordedIsSound ==
  ASSUME CrawlSound, NEW w \in Workers, Doing(w, "record"), Recorded(w),
         bound' = bound, remote' = remote
  PROVE  /\ CrawlGrows /\ JobsSound' /\ Jobs' = Jobs /\ job[Mine(w)].remote = NoRemote
         /\ job'[Mine(w)] = [job[Mine(w)] EXCEPT !.remote = worker[w].created, !.state = "dispatched",
                                                 !.parent = "fetching"]
         /\ \A k \in Jobs : k # Mine(w) => job'[k] = job[k]
<1>0. PICK j, r : j = Mine(w) /\ r = worker[w].created OBVIOUS
<1>1. j \in Jobs /\ r \in Known BY <1>0, WorkIsSound DEF Doing
<1>2. /\ job[j].remote = NoRemote
      /\ job' = [job EXCEPT ![j].remote = r, ![j].state = "dispatched", ![j].parent = "fetching"]
  BY <1>0 DEF Recorded
<1>3. PICK row : row = [job[j] EXCEPT !.remote = r, !.state = "dispatched", !.parent = "fetching"] OBVIOUS
<1>4. r \in RemoteIds /\ job[j] \in JobRows BY <1>1, JobsAreNumbered
<1>5. row \in JobRows /\ row.remote = r BY <1>3, <1>4 DEF JobRows, InFlight
<1>6. RowSet(j, row) BY <1>2, <1>3 DEF RowSet
<1>7. Known' = Known BY DEF Known
<1>8. /\ CrawlGrows /\ JobsSound' /\ Jobs' = Jobs /\ job'[j] = row
      /\ \A k \in Jobs : k # j => job'[k] = job[k]
  BY <1>1, <1>2, <1>5, <1>6, <1>7, RowSetIsSound
<1> QED BY <1>0, <1>2, <1>3, <1>8

LEMMA RecordIsSound ==
  ASSUME NEW w \in Workers, CrawlSound, Record(w)
  PROVE  CrawlSound'
<1>1. /\ bound' = bound /\ remote' = remote /\ article' = article
      /\ listed' = listed /\ Doing(w, "record") /\ ~Doing(w, "idle")
  BY DEF Record, Doing
<1>2. ASSUME CrawlGrows, JobsSound', QueueSound', WorkersSound', faults' \in 0..bound'.faults
      PROVE  CrawlSound'
  BY <1>1, <1>2, UnchangedIsSound DEF CrawlSound
<1>3. CASE Recorded(w) /\ Return(w) BY <1>1, <1>2, <1>3, RecordedIsSound, ReturnIsSound
<1>4. CASE Turn(w, "refuse") /\ UNCHANGED <<job, queue, faults>>
  <2>1. CrawlGrows BY <1>1, <1>4, StayingGrows
  <2>2. WorkersSound' BY <1>1, <1>4, <2>1, TurnIsSound DEF WorkerSteps, IngestSteps
  <2> QED BY <1>2, <1>4, <2>1, <2>2, UnchangedIsSound
<1>5. CASE Fault /\ (Recorded(w) \/ UNCHANGED job) /\ Turn(w, "refuse") /\ UNCHANGED queue
  <2>1. CrawlGrows /\ JobsSound' BY <1>1, <1>5, RecordedIsSound, StayingGrows, UnchangedIsSound
  <2>2. WorkersSound' BY <1>1, <1>5, <2>1, TurnIsSound DEF WorkerSteps, IngestSteps
  <2> QED BY <1>1, <1>2, <1>5, <2>1, <2>2, UnchangedIsSound, FaultIsSound
<1> QED BY <1>3, <1>4, <1>5 DEF Record

\* A row that is given up, or left as it is.
LEMMA FailedRowIsSound ==
  ASSUME CrawlSound, NEW j \in Jobs, bound' = bound, remote' = remote,
         job' = job \/ GiveUp(j)
  PROVE  CrawlGrows /\ JobsSound' /\ Jobs' = Jobs
         /\ \A k \in Jobs : k # j => job'[k] = job[k]
<1>1. CASE job' = job BY <1>1, StayingGrows, UnchangedIsSound DEF Jobs
<1>2. CASE GiveUp(j)
  <2>0. PICK row : row = [job[j] EXCEPT !.state = "failed", !.parent = "failed"] OBVIOUS
  <2>1. Changes(job[j], row) BY <2>0 DEF Changes, Final
  <2>2. RowSet(j, row) BY <2>0, <1>2 DEF RowSet, GiveUp
  <2> QED BY <2>1, <2>2, ChangeIsSound
<1> QED BY <1>1, <1>2

LEMMA RefuseDispatchIsSound ==
  ASSUME NEW w \in Workers, CrawlSound, RefuseDispatch(w)
  PROVE  CrawlSound'
<1>1. /\ bound' = bound /\ remote' = remote /\ article' = article
      /\ listed' = listed /\ ~Doing(w, "idle") /\ Throw(w)
      /\ (FailedDispatch(Mine(w)) /\ UNCHANGED faults) \/ (UNCHANGED job /\ Fault)
  BY DEF RefuseDispatch, Doing
<1>2. Mine(w) \in Jobs BY <1>1, WorkIsSound
<1>3. job' = job \/ GiveUp(Mine(w)) BY <1>1 DEF FailedDispatch, GiveUp
<1>4. CrawlGrows /\ JobsSound' BY <1>1, <1>2, <1>3, FailedRowIsSound
<1>5. faults' \in 0..bound'.faults BY <1>1, <1>4, FaultIsSound, UnchangedIsSound
<1> QED BY <1>1, <1>4, <1>5, ThrowIsSound, UnchangedIsSound DEF CrawlSound

LEMMA ReadIsSound ==
  ASSUME NEW w \in Workers, CrawlSound, Read(w)
  PROVE  CrawlSound'
<1>1. /\ bound' = bound /\ job' = job /\ remote' = remote /\ article' = article /\ queue' = queue
      /\ listed' = listed /\ faults' = faults /\ Doing(w, "read") /\ ~Doing(w, "idle")
  BY DEF Read, Doing
<1>2. CrawlGrows BY <1>1, StayingGrows
<1>3. Mine(w) \in Jobs /\ worker[w].kind = "ingest" BY <1>1, WorkIsSound DEF Doing, IngestSteps
<1>4. State(Mine(w)) \in InFlight \cup Final BY <1>3, JobsAreNumbered DEF State, JobRows
<1>5. Turn(w, "mark") \/ Turn(w, "get") \/ Turn(w, "delete") BY <1>4 DEF Read, InFlight
<1>6. WorkersSound' BY <1>1, <1>2, <1>3, <1>5, TurnIsSound DEF WorkerSteps
<1> QED BY <1>1, <1>2, <1>6, UnchangedIsSound DEF CrawlSound

LEMMA MarkIsSound ==
  ASSUME CrawlSound, NEW j \in Jobs, bound' = bound, remote' = remote,
         job' = [job EXCEPT ![j].state = "ingesting"]
  PROVE  /\ CrawlGrows /\ JobsSound' /\ Jobs' = Jobs
         /\ job'[j] = [job[j] EXCEPT !.state = "ingesting"]
         /\ \A k \in Jobs : k # j => job'[k] = job[k]
<1>1. PICK row : row = [job[j] EXCEPT !.state = "ingesting"] OBVIOUS
<1>2. Changes(job[j], row) BY <1>1 DEF Changes, InFlight
<1>3. RowSet(j, row) BY <1>1 DEF RowSet
<1> QED BY <1>1, <1>2, <1>3, ChangeIsSound

LEMMA MarkIngestingIsSound ==
  ASSUME NEW w \in Workers, CrawlSound, MarkIngesting(w)
  PROVE  CrawlSound'
<1>1. /\ bound' = bound /\ remote' = remote /\ article' = article /\ queue' = queue
      /\ listed' = listed /\ faults' = faults /\ Doing(w, "mark") /\ ~Doing(w, "idle")
      /\ job' = [job EXCEPT ![Mine(w)].state = "ingesting"] /\ Turn(w, "get")
  BY DEF MarkIngesting, Doing
<1>2. Mine(w) \in Jobs /\ worker[w].kind = "ingest" BY <1>1, WorkIsSound DEF Doing, IngestSteps
<1>3. CrawlGrows /\ JobsSound' BY <1>1, <1>2, MarkIsSound
<1>4. WorkersSound' BY <1>1, <1>2, <1>3, TurnIsSound DEF WorkerSteps
<1> QED BY <1>1, <1>3, <1>4, UnchangedIsSound DEF CrawlSound

LEMMA GetResultIsSound ==
  ASSUME NEW w \in Workers, CrawlSound, GetResult(w)
  PROVE  CrawlSound'
<1>1. /\ bound' = bound /\ job' = job /\ remote' = remote /\ article' = article
      /\ listed' = listed /\ Doing(w, "get") /\ ~Doing(w, "idle")
  BY DEF GetResult, Doing
<1>2. CrawlGrows BY <1>1, StayingGrows
<1>3. worker[w].kind = "ingest" BY <1>1, WorkIsSound DEF Doing, IngestSteps
<1>4. CASE Return(w) BY <1>1, <1>2, <1>4, ReturnIsSound, UnchangedIsSound DEF CrawlSound
<1>5. CASE (Turn(w, "complete") \/ Turn(w, "fail")) /\ UNCHANGED <<queue, faults>>
  <2>1. WorkersSound' BY <1>1, <1>2, <1>3, <1>5, TurnIsSound DEF WorkerSteps
  <2> QED BY <1>1, <1>2, <1>5, <2>1, UnchangedIsSound DEF CrawlSound
<1>6. CASE Throw(w) /\ UNCHANGED faults
  BY <1>1, <1>2, <1>6, ThrowIsSound, UnchangedIsSound DEF CrawlSound
<1> QED BY <1>4, <1>5, <1>6 DEF GetResult

LEMMA CompletedIsSound ==
  ASSUME CrawlSound, NEW j \in Jobs, bound' = bound, remote' = remote, Completed(j)
  PROVE  /\ CrawlGrows /\ JobsSound' /\ ArticlesSound' /\ Jobs' = Jobs
         /\ \A k \in Jobs : k # j => job'[k] = job[k]
         /\ ~ToStore(j) => job' = job /\ article' = article
         /\ ToStore(j) => /\ job'[j] = [job[j] EXCEPT !.state = "ingested", !.parent = "ready"]
                          /\ DOMAIN article' = DOMAIN article \cup {Len(article) + 1}
                          /\ Len(article) + 1 \notin DOMAIN article
                          /\ \A n \in DOMAIN article : article'[n] = article[n]
                          /\ article'[Len(article) + 1].of = j
                          /\ article'[Len(article) + 1].status = "ready" => Len(article) = 0
<1>1. CASE ~ToStore(j)
  BY <1>1, StayingGrows, UnchangedIsSound DEF Completed, Jobs
<1>2. CASE ToStore(j)
  <2>1. Store(j) BY <1>2 DEF Completed
  <2>2. PICK row : row = [job[j] EXCEPT !.state = "ingested", !.parent = "ready"] OBVIOUS
  <2>3. Changes(job[j], row) BY <2>2 DEF Changes, Final
  <2>4. RowSet(j, row) BY <2>1, <2>2 DEF RowSet, Store
  <2>5. /\ CrawlGrows /\ JobsSound' /\ Jobs' = Jobs /\ job'[j] = row
        /\ \A k \in Jobs : k # j => job'[k] = job[k]
    BY <2>3, <2>4, ChangeIsSound
  <2> DEFINE A == [of: JobIds, status: {"ready", "duplicate"}]
  <2>6. PICK new : new = [of |-> j, status |-> IF article = <<>> THEN "ready" ELSE "duplicate"] OBVIOUS
  <2>7. Len(article) \in Nat /\ DOMAIN article = 1..Len(article) /\ j \in JobIds BY JobsAreNumbered
  <2>8. new \in A /\ new.of = j /\ (new.status = "ready" => Len(article) = 0)
    BY <2>6, <2>7, EmptySeq
  <2>9. article \in Seq(A) BY DEF CrawlSound, ArticlesSound
  <2>10. article' = Append(article, new) BY <2>1, <2>6 DEF Store
  <2> HIDE DEF A
  <2>11. /\ article' \in Seq(A) /\ Len(article') = Len(article) + 1
         /\ \A n \in 1..Len(article) : article'[n] = article[n]
         /\ article'[Len(article) + 1] = new
    BY <2>8, <2>9, <2>10, AppendProperties
  <2>12. DOMAIN article' = 1..(Len(article) + 1) BY <2>11, LenProperties
  <2>13. \A n \in DOMAIN article' : article'[n].of \in Jobs'
    <3> SUFFICES ASSUME NEW n \in DOMAIN article' PROVE article'[n].of \in Jobs' OBVIOUS
    <3>1. CASE n = Len(article) + 1 BY <3>1, <2>5, <2>8, <2>11
    <3>2. CASE n \in DOMAIN article BY <3>2, <2>5, <2>7, <2>11 DEF CrawlSound, ArticlesSound
    <3> QED BY <2>7, <2>12, <3>1, <3>2
  <2>14. ArticlesSound' BY <2>11, <2>13 DEF ArticlesSound, A
  <2>15. DOMAIN article' = DOMAIN article \cup {Len(article) + 1} /\ Len(article) + 1 \notin DOMAIN article
    BY <2>7, <2>12
  <2> QED BY <1>2, <2>2, <2>5, <2>7, <2>8, <2>11, <2>14, <2>15
<1> QED BY <1>1, <1>2

LEMMA CompleteIsSound ==
  ASSUME NEW w \in Workers, CrawlSound, Complete(w)
  PROVE  CrawlSound'
<1>1. /\ bound' = bound /\ remote' = remote
      /\ listed' = listed /\ Doing(w, "complete") /\ ~Doing(w, "idle")
  BY DEF Complete, Doing
<1>2. Mine(w) \in Jobs /\ worker[w].kind = "ingest" BY <1>1, WorkIsSound DEF Doing, IngestSteps
<1>3. ASSUME CrawlGrows, JobsSound', ArticlesSound', QueueSound', WorkersSound', faults' \in 0..bound'.faults
      PROVE  CrawlSound'
  BY <1>1, <1>3, UnchangedIsSound DEF CrawlSound
<1>4. CASE Completed(Mine(w)) /\ Turn(w, "delete") /\ UNCHANGED <<queue, faults>>
  <2>1. CrawlGrows /\ JobsSound' /\ ArticlesSound' BY <1>1, <1>2, <1>4, CompletedIsSound
  <2>2. WorkersSound' BY <1>1, <1>2, <1>4, <2>1, TurnIsSound DEF WorkerSteps
  <2> QED BY <1>3, <1>4, <2>1, <2>2, UnchangedIsSound
<1>5. CASE Throw(w) /\ UNCHANGED <<job, article, faults>>
  <2>1. CrawlGrows BY <1>1, <1>5, StayingGrows
  <2> QED BY <1>1, <1>3, <1>5, <2>1, UnchangedIsSound, ThrowIsSound
<1>6. CASE Completed(Mine(w)) /\ Fault /\ Throw(w)
  <2>1. CrawlGrows /\ JobsSound' /\ ArticlesSound' BY <1>1, <1>2, <1>6, CompletedIsSound
  <2> QED BY <1>1, <1>3, <1>6, <2>1, ThrowIsSound, FaultIsSound
<1> QED BY <1>4, <1>5, <1>6 DEF Complete

LEMMA FailIsSound ==
  ASSUME NEW w \in Workers, CrawlSound, Fail(w)
  PROVE  CrawlSound'
<1>1. /\ bound' = bound /\ remote' = remote /\ article' = article
      /\ listed' = listed /\ Doing(w, "fail") /\ ~Doing(w, "idle") /\ FailedIngest(Mine(w))
  BY DEF Fail, Doing
<1>2. Mine(w) \in Jobs /\ worker[w].kind = "ingest" BY <1>1, WorkIsSound DEF Doing, IngestSteps
<1>3. job' = job \/ GiveUp(Mine(w)) BY <1>1 DEF FailedIngest, GiveUp
<1>4. CrawlGrows /\ JobsSound' BY <1>1, <1>2, <1>3, FailedRowIsSound
<1>5. ASSUME QueueSound', WorkersSound', faults' \in 0..bound'.faults PROVE CrawlSound'
  BY <1>1, <1>4, <1>5, UnchangedIsSound DEF CrawlSound
<1>6. CASE Turn(w, "delete") /\ UNCHANGED <<queue, faults>>
  <2>1. WorkersSound' BY <1>1, <1>2, <1>4, <1>6, TurnIsSound DEF WorkerSteps
  <2> QED BY <1>4, <1>5, <1>6, <2>1, UnchangedIsSound
<1>7. CASE Fault /\ Throw(w) BY <1>1, <1>4, <1>5, <1>7, ThrowIsSound, FaultIsSound
<1> QED BY <1>6, <1>7 DEF Fail

LEMMA RemoveIsSound ==
  ASSUME CrawlSound, NEW w \in Workers, Doing(w, "delete"), Remove(w), bound' = bound, job' = job
  PROVE  /\ CrawlGrows /\ RemotesSound' /\ Known' = Known
         /\ remote'[job[Mine(w)].remote] = [remote[job[Mine(w)].remote] EXCEPT !.state = "removed"]
         /\ \A r \in Known : r # job[Mine(w)].remote => remote'[r] = remote[r]
<1>0. PICK r : r = job[Mine(w)].remote OBVIOUS
<1>1. r \in Known BY <1>0, WorkIsSound DEF Doing, IngestSteps
<1>2. PICK row : row = [remote[r] EXCEPT !.state = "removed"] OBVIOUS
<1>3. row \in Remotes /\ row.of = remote[r].of BY <1>1, <1>2, JobsAreNumbered DEF Remotes
<1>4. RemoteSet(r, row) BY <1>0, <1>2 DEF Remove, RemoteSet
<1>5. /\ CrawlGrows /\ RemotesSound' /\ Known' = Known
      /\ remote'[r] = row /\ \A s \in Known : s # r => remote'[s] = remote[s]
  BY <1>1, <1>3, <1>4, RemoteSetIsSound
<1> QED BY <1>0, <1>2, <1>5

LEMMA DeleteIsSound ==
  ASSUME NEW w \in Workers, CrawlSound, Delete(w)
  PROVE  CrawlSound'
<1>1. /\ bound' = bound /\ job' = job /\ article' = article
      /\ listed' = listed /\ Doing(w, "delete") /\ ~Doing(w, "idle")
  BY DEF Delete, Doing
<1>2. worker[w].kind = "ingest" BY <1>1, WorkIsSound DEF Doing, IngestSteps
<1>3. ASSUME CrawlGrows, RemotesSound', QueueSound', WorkersSound', faults' \in 0..bound'.faults
      PROVE  CrawlSound'
  BY <1>1, <1>3, UnchangedIsSound DEF CrawlSound
<1>4. CASE Return(w) /\ UNCHANGED remote
  <2>1. CrawlGrows BY <1>1, <1>4, StayingGrows
  <2> QED BY <1>1, <1>3, <1>4, <2>1, UnchangedIsSound, ReturnIsSound
<1>5. CASE Remove(w) /\ Turn(w, "ack") /\ UNCHANGED <<queue, faults>>
  <2>1. CrawlGrows /\ RemotesSound' BY <1>1, <1>5, RemoveIsSound
  <2>2. WorkersSound' BY <1>1, <1>2, <1>5, <2>1, TurnIsSound DEF WorkerSteps
  <2> QED BY <1>3, <1>5, <2>1, <2>2, UnchangedIsSound
<1>6. CASE Remove(w) /\ Fault /\ Throw(w)
  <2>1. CrawlGrows /\ RemotesSound' BY <1>1, <1>6, RemoveIsSound
  <2> QED BY <1>1, <1>3, <1>6, <2>1, ThrowIsSound, FaultIsSound
<1> QED BY <1>4, <1>5, <1>6 DEF Delete

LEMMA AcknowledgedIsSound ==
  ASSUME CrawlSound, NEW j \in Jobs, bound' = bound, remote' = remote,
         job' = [job EXCEPT ![j].acked = TRUE]
  PROVE  /\ CrawlGrows /\ JobsSound' /\ Jobs' = Jobs
         /\ job'[j] = [job[j] EXCEPT !.acked = TRUE]
         /\ \A k \in Jobs : k # j => job'[k] = job[k]
<1>1. PICK row : row = [job[j] EXCEPT !.acked = TRUE] OBVIOUS
<1>2. Changes(job[j], row) BY <1>1 DEF Changes
<1>3. RowSet(j, row) BY <1>1 DEF RowSet
<1> QED BY <1>1, <1>2, <1>3, ChangeIsSound

LEMMA AcknowledgeIsSound ==
  ASSUME NEW w \in Workers, CrawlSound, Acknowledge(w)
  PROVE  CrawlSound'
<1>1. /\ bound' = bound /\ remote' = remote /\ article' = article
      /\ listed' = listed /\ ~Doing(w, "idle") /\ Return(w)
      /\ job' = [job EXCEPT ![Mine(w)].acked = TRUE]
  BY DEF Acknowledge, Doing
<1>2. Mine(w) \in Jobs BY <1>1, WorkIsSound
<1>3. CrawlGrows /\ JobsSound' BY <1>1, <1>2, AcknowledgedIsSound
<1> QED BY <1>1, <1>3, ReturnIsSound, UnchangedIsSound DEF CrawlSound

LEMMA CrashIsSound ==
  ASSUME NEW w \in Workers, CrawlSound, Crash(w)
  PROVE  CrawlSound'
<1>1. /\ bound' = bound /\ job' = job /\ remote' = remote /\ article' = article
      /\ listed' = listed /\ ~Doing(w, "idle") /\ Fault /\ Throw(w)
  BY DEF Crash
<1>2. CrawlGrows BY <1>1, StayingGrows
<1> QED BY <1>1, <1>2, ThrowIsSound, FaultIsSound, UnchangedIsSound DEF CrawlSound

LEMMA CrawlSoundStays == CrawlSound /\ [CrawlNext]_crawlVars => CrawlSound'
<1> SUFFICES ASSUME CrawlSound, [CrawlNext]_crawlVars PROVE CrawlSound' OBVIOUS
<1>1. CASE UNCHANGED crawlVars
  <2>1. CrawlGrows BY <1>1, StayingGrows DEF crawlVars
  <2> QED BY <1>1, <2>1, UnchangedIsSound DEF CrawlSound, crawlVars
<1>2. CASE Poll BY <1>2, PollIsSound
<1>3. CASE List
  <2>1. CrawlGrows /\ listed' \subseteq Jobs'
    BY <1>3, StayingGrows DEF List, CrawlGrows
  <2> QED BY <1>3, <2>1, UnchangedIsSound DEF CrawlSound, List
<1>4. ASSUME NEW j \in JobIds, Notify(j) PROVE CrawlSound' BY <1>4, NotifyIsSound
<1>5. ASSUME NEW j \in JobIds, Reconcile(j) PROVE CrawlSound' BY <1>5, ReconcileIsSound
<1>6. ASSUME NEW r \in RemoteIds, NEW outcome \in bound.outcomes, RemoteEnds(r, outcome)
      PROVE  CrawlSound'
  BY <1>6, BoundsAreSound, RemoteEndsIsSound DEF CrawlSound
<1>7. ASSUME NEW w \in Workers, Take(w) PROVE CrawlSound' BY <1>7, TakeIsSound
<1>8. ASSUME NEW w \in Workers, Crash(w) PROVE CrawlSound' BY <1>8, CrashIsSound
<1>9. ASSUME NEW w \in Workers, WorkerStep(w) PROVE CrawlSound'
  <2>1. CASE Input(w) BY <2>1, InputIsSound
  <2>2. CASE Post(w) BY <2>2, PostIsSound
  <2>3. CASE Record(w) BY <2>3, RecordIsSound
  <2>4. CASE RefuseDispatch(w) BY <2>4, RefuseDispatchIsSound
  <2>5. CASE Read(w) BY <2>5, ReadIsSound
  <2>6. CASE MarkIngesting(w) BY <2>6, MarkIngestingIsSound
  <2>7. CASE GetResult(w) BY <2>7, GetResultIsSound
  <2>8. CASE Complete(w) BY <2>8, CompleteIsSound
  <2>9. CASE Fail(w) BY <2>9, FailIsSound
  <2>10. CASE Delete(w) BY <2>10, DeleteIsSound
  <2>11. CASE Acknowledge(w) BY <2>11, AcknowledgeIsSound
  <2> QED BY <1>9, <2>1, <2>2, <2>3, <2>4, <2>5, <2>6, <2>7, <2>8, <2>9, <2>10, <2>11 DEF WorkerStep
<1> QED BY <1>1, <1>2, <1>3, <1>4, <1>5, <1>6, <1>7, <1>8, <1>9 DEF CrawlNext

\* Rows, results, remote jobs, messages and workers have the form they are declared with, for
\* every number of workers, jobs, faults and redeliveries: no message or worker is about a job
\* there is not.
THEOREM CrawlTypesCorrect == CrawlSpec => []CrawlTypeOK
<1>1. CrawlSpec => []CrawlSound BY CrawlStartsSound, CrawlSoundStays, PTL DEF CrawlSpec
<1> QED BY <1>1, SoundIsTyped, PTL

(***************************************************************************)
(* CrawlJobs: what a single worker keeps.                                  *)
(***************************************************************************)
OneWorker == \A v, w \in Workers : v = w

\* Of each job, beside what the run checks: one without remote job has not got any further,
\* and the remote job of one is its own.
StoredFor(j) == \E n \in DOMAIN article : article[n].of = j
JobAgrees(j) ==
  /\ State(j) = "ingested" <=> job[j].parent = "ready"
  /\ State(j) = "failed" => job[j].parent = "failed"
  /\ State(j) = "ingested" <=> StoredFor(j)
  /\ job[j].remote = NoRemote => State(j) \in {"dispatched", "failed"} /\ ~job[j].acked
  /\ job[j].remote # NoRemote =>
       /\ remote[job[j].remote].of = j
       /\ remote[job[j].remote].state = "removed" => State(j) \in Final
  /\ job[j].acked => State(j) \in Final
RowsAgree == \A j \in Jobs : JobAgrees(j)
RemovedAreRecorded == \A r \in Known : remote[r].state = "removed" => job[remote[r].of].remote = r

\* A job has one result, and the first one stored is the one that is offered.
ArticlesAgree ==
  /\ \A m, n \in DOMAIN article : article[m].of = article[n].of => m = n
  /\ \A n \in DOMAIN article : article[n].status = "ready" => n = 1

\* What the worker knows between its calls: nobody else dispatches its job, stores its
\* result or brings it back once it has ended.
WorkerAgrees(w) ==
  /\ worker[w].step \in {"post", "record"} => job[Mine(w)].remote = NoRemote
  /\ worker[w].step = "record" => remote[worker[w].created].of = Mine(w)
  /\ worker[w].step = "mark" => /\ State(Mine(w)) # "ingested" /\ ~job[Mine(w)].acked
                                /\ Result(w) # "removed"
  /\ worker[w].step \in {"delete", "ack"} => State(Mine(w)) \in Final
WorkersAgree == \A w \in Workers : WorkerAgrees(w)

\* Remote jobs that no row knows nor the worker is about to record.
Recording(r) == \E w \in Workers : Doing(w, "record") /\ worker[w].created = r
Lost == {r \in Known : job[remote[r].of].remote # r /\ ~Recording(r)}
LostNeedFaults == Cardinality(Lost) <= faults

CrawlAgreed ==
  RowsAgree /\ RemovedAreRecorded /\ ArticlesAgree /\ WorkersAgree /\ LostNeedFaults

LEMMA CrawlStartsAgreed == CrawlInit => CrawlAgreed
<1> SUFFICES ASSUME CrawlInit PROVE CrawlAgreed OBVIOUS
<1>1. Jobs = {} /\ Known = {} /\ DOMAIN article = {} BY DEF CrawlInit, Jobs, Known
<1>2. RowsAgree /\ RemovedAreRecorded /\ ArticlesAgree BY <1>1 DEF RowsAgree, RemovedAreRecorded, ArticlesAgree
<1>3. WorkersAgree BY DEF CrawlInit, WorkersAgree, WorkerAgrees, NoWork
<1>4. Lost = {} BY <1>1 DEF Lost
<1>5. Cardinality(Lost) = 0 BY <1>4, FS_EmptySet
<1>6. LostNeedFaults BY <1>5 DEF LostNeedFaults, CrawlInit
<1> QED BY <1>2, <1>3, <1>6 DEF CrawlAgreed

LEMMA LostAreFinite ==
  ASSUME CrawlSound
  PROVE  IsFiniteSet(Known) /\ IsFiniteSet(Lost) /\ Cardinality(Lost) \in Nat
<1>1. Len(remote) \in Nat /\ Known = 1..Len(remote) BY JobsAreNumbered
<1>2. IsFiniteSet(Known) BY <1>1, FS_Interval
<1>3. Lost \subseteq Known BY DEF Lost
<1>4. IsFiniteSet(Lost) BY <1>2, <1>3, FS_Subset
<1> QED BY <1>2, <1>4, FS_CardinalityType

\* The agreement gives what the run checks.
LEMMA AgreedIsChecked == CrawlSound /\ CrawlAgreed => JobsAgree
<1> SUFFICES ASSUME CrawlSound, CrawlAgreed PROVE JobsAgree OBVIOUS
<1>1. ParentAgrees BY DEF ParentAgrees, CrawlAgreed, RowsAgree, JobAgrees
<1>2. RemovedOnlyEnded BY DEF RemovedOnlyEnded, CrawlAgreed, RowsAgree, JobAgrees
<1>3. StoredOnce
  <2>1. ASSUME NEW j \in Jobs
        PROVE  Cardinality({n \in DOMAIN article : article[n].of = j}) = (IF State(j) = "ingested" THEN 1 ELSE 0)
    <3> DEFINE N == {n \in DOMAIN article : article[n].of = j}
    <3>1. State(j) = "ingested" <=> StoredFor(j) BY DEF CrawlAgreed, RowsAgree, JobAgrees
    <3>2. CASE StoredFor(j)
      <4>1. PICK n \in DOMAIN article : article[n].of = j BY <3>2 DEF StoredFor
      <4>2. N = {n} BY <4>1 DEF CrawlAgreed, ArticlesAgree
      <4> HIDE DEF N
      <4>3. Cardinality(N) = 1 BY <4>2, FS_Singleton
      <4> QED BY <3>1, <3>2, <4>3 DEF N
    <3>3. CASE ~StoredFor(j)
      <4>1. N = {} BY <3>3 DEF StoredFor
      <4> HIDE DEF N
      <4>2. Cardinality(N) = 0 BY <4>1, FS_EmptySet
      <4> QED BY <3>1, <3>3, <4>2 DEF N
    <3> QED BY <3>2, <3>3
  <2>2. Cardinality({n \in DOMAIN article : article[n].status = "ready"}) <= 1
    <3> DEFINE N == {n \in DOMAIN article : article[n].status = "ready"}
    <3>1. N \in SUBSET {1} BY DEF CrawlAgreed, ArticlesAgree
    <3> HIDE DEF N
    <3>2. IsFiniteSet({1}) /\ Cardinality({1}) = 1 BY FS_Singleton
    <3>3. Cardinality(N) <= Cardinality({1}) BY <3>1, <3>2, FS_Subset
    <3> QED BY <3>2, <3>3 DEF N
  <2> QED BY <2>1, <2>2 DEF StoredOnce
<1>4. OrphansNeedFaults
  <2>1. Orphans \in SUBSET Lost BY DEF Orphans, Lost, Recording
  <2>2. IsFiniteSet(Lost) /\ Cardinality(Lost) \in Nat BY LostAreFinite
  <2>3. IsFiniteSet(Orphans) /\ Cardinality(Orphans) <= Cardinality(Lost) BY <2>1, <2>2, FS_Subset
  <2>4. Cardinality(Orphans) \in Nat BY <2>3, FS_CardinalityType
  <2>5. Cardinality(Lost) <= faults /\ faults \in Nat
    BY BoundsAreSound DEF CrawlAgreed, LostNeedFaults, CrawlSound
  <2> QED BY <2>2, <2>3, <2>4, <2>5 DEF OrphansNeedFaults
<1> QED BY <1>1, <1>2, <1>3, <1>4 DEF JobsAgree

\* A row that stays, and whose remote job and results stay, still agrees.
LEMMA RowAgreesStill ==
  ASSUME NEW j \in Jobs, JobAgrees(j), job'[j] = job[j],
         job[j].remote # NoRemote => remote'[job[j].remote] = remote[job[j].remote],
         StoredFor(j)' <=> StoredFor(j)
  PROVE  JobAgrees(j)'
BY DEF JobAgrees, State

\* Lost remote jobs become no more, or one more at the cost of a fault.
LEMMA LostStayFew ==
  ASSUME CrawlSound, CrawlAgreed, CrawlSound', Lost' \subseteq Lost, faults' \in {faults, faults + 1}
  PROVE  LostNeedFaults'
<1>1. IsFiniteSet(Lost) /\ Cardinality(Lost) \in Nat BY LostAreFinite
<1>2. Lost' \in SUBSET Lost OBVIOUS
<1>3. IsFiniteSet(Lost') /\ Cardinality(Lost') <= Cardinality(Lost) BY <1>1, <1>2, FS_Subset
<1>4. Cardinality(Lost') \in Nat BY <1>3, FS_CardinalityType
<1>5. faults \in Nat /\ Cardinality(Lost) <= faults
  BY BoundsAreSound DEF CrawlSound, CrawlAgreed, LostNeedFaults
<1> QED BY <1>1, <1>3, <1>4, <1>5 DEF LostNeedFaults

LEMMA OneMoreIsLost ==
  ASSUME CrawlSound, CrawlAgreed, CrawlSound', NEW r, Lost' \subseteq Lost \cup {r}, faults' = faults + 1
  PROVE  LostNeedFaults'
<1>1. IsFiniteSet(Lost) /\ Cardinality(Lost) \in Nat BY LostAreFinite
<1>2. /\ IsFiniteSet(Lost \cup {r}) 
      /\ Cardinality(Lost \cup {r}) = IF r \in Lost THEN Cardinality(Lost) ELSE Cardinality(Lost) + 1
  BY <1>1, FS_AddElement
<1>3. Lost' \in SUBSET (Lost \cup {r}) OBVIOUS
<1>4. IsFiniteSet(Lost') /\ Cardinality(Lost') <= Cardinality(Lost \cup {r}) BY <1>2, <1>3, FS_Subset
<1>5. Cardinality(Lost') \in Nat BY <1>4, FS_CardinalityType
<1>6. faults \in Nat /\ Cardinality(Lost) <= faults
  BY BoundsAreSound DEF CrawlSound, CrawlAgreed, LostNeedFaults
<1> QED BY <1>1, <1>2, <1>4, <1>5, <1>6 DEF LostNeedFaults

\* The rows keep their remote ids, and the remote jobs are still the same.
RemotesStay ==
  /\ Known' = Known /\ \A r \in Known : remote'[r].of = remote[r].of
  /\ Jobs \subseteq Jobs' /\ \A j \in Jobs : job'[j].remote = job[j].remote

LEMMA LostStay ==
  ASSUME CrawlSound, RemotesStay, NEW w \in Workers, OneWorker,
         Doing(w, "record") => Doing(w, "record")' /\ worker'[w].created = worker[w].created
  PROVE  Lost' \subseteq Lost
<1>1. ASSUME NEW r \in Known, Recording(r) PROVE Recording(r)'
  BY <1>1 DEF Recording, OneWorker, Doing
<1> QED BY <1>1 DEF Lost, RemotesStay, CrawlSound, RemotesSound

LEMMA OneIsLost ==
  ASSUME CrawlSound, RemotesStay, NEW w \in Workers, OneWorker
  PROVE  Lost' \subseteq Lost \cup {worker[w].created}
<1>1. ASSUME NEW r \in Known, Recording(r) PROVE r = worker[w].created
  BY <1>1 DEF Recording, OneWorker
<1> QED BY <1>1 DEF Lost, RemotesStay, CrawlSound, RemotesSound

\* The worker has done with its message, or goes on with it.
LEMMA IdleAgrees ==
  ASSUME CrawlSound, NEW w \in Workers, OneWorker, Drop(w)
  PROVE  WorkersAgree' /\ worker'[w] = NoWork
<1>1. worker'[w] = NoWork BY DEF Drop, CrawlSound, WorkersSound
<1>2. worker'[w].step = "idle" BY <1>1 DEF NoWork
<1>3. WorkerAgrees(w)' BY <1>2 DEF WorkerAgrees
<1> QED BY <1>1, <1>3 DEF OneWorker, WorkersAgree

LEMMA TurnedIs ==
  ASSUME CrawlSound, NEW w \in Workers, NEW step, Turn(w, step)
  PROVE  /\ worker'[w].step = step /\ worker'[w].job = Mine(w)
         /\ worker'[w].created = worker[w].created
BY DEF Turn, Mine, CrawlSound, WorkersSound, WorkerStates

LEMMA TurnedAgrees ==
  ASSUME CrawlSound, NEW w \in Workers, OneWorker, NEW step, Turn(w, step), step # "record",
         step = "post" => job'[Mine(w)].remote = NoRemote,
         step = "mark" => /\ job'[Mine(w)].state # "ingested" /\ ~job'[Mine(w)].acked
                          /\ remote'[job'[Mine(w)].remote].state # "removed",
         step \in {"delete", "ack"} => job'[Mine(w)].state \in Final
  PROVE  WorkersAgree'
<1>1. worker'[w].step = step /\ worker'[w].job = Mine(w) BY TurnedIs
<1>2. WorkerAgrees(w)'
  <2>1. step \in {"post", "record"} => job'[worker'[w].job].remote = NoRemote BY <1>1
  <2>2. step = "mark" => /\ job'[worker'[w].job].state # "ingested" /\ ~job'[worker'[w].job].acked
                         /\ remote'[job'[worker'[w].job].remote].state # "removed"
    BY <1>1
  <2>3. step \in {"delete", "ack"} => job'[worker'[w].job].state \in Final BY <1>1
  <2> QED BY <1>1, <2>1, <2>2, <2>3 DEF WorkerAgrees, Mine, State, Result
<1> QED BY <1>2 DEF OneWorker, WorkersAgree

\* A step of the worker that leaves rows, remote jobs and results.
LEMMA QuietAgrees ==
  ASSUME CrawlSound, CrawlAgreed, CrawlSound', job' = job, remote' = remote, article' = article
  PROVE  RowsAgree' /\ RemovedAreRecorded' /\ ArticlesAgree' /\ RemotesStay
<1>1. Jobs' = Jobs /\ Known' = Known BY DEF Jobs, Known
<1>2. RowsAgree'
  <2>1. ASSUME NEW j \in Jobs PROVE JobAgrees(j)'
    BY RowAgreesStill DEF CrawlAgreed, RowsAgree, StoredFor
  <2> QED BY <1>1, <2>1 DEF RowsAgree
<1>3. RemovedAreRecorded' BY <1>1 DEF CrawlAgreed, RemovedAreRecorded
<1>4. ArticlesAgree' BY DEF CrawlAgreed, ArticlesAgree
<1> QED BY <1>1, <1>2, <1>3, <1>4 DEF RemotesStay

\* A fault or a throw of the worker, wherever it stands.
LEMMA ThrownAgrees ==
  ASSUME CrawlSound, CrawlAgreed, CrawlSound', NEW w \in Workers, OneWorker, RemotesStay, Drop(w),
         \/ faults' = faults /\ ~Doing(w, "record")
         \/ faults' = faults + 1
  PROVE  WorkersAgree' /\ LostNeedFaults'
<1>1. WorkersAgree' BY IdleAgrees
<1>2. CASE ~Doing(w, "record") BY <1>2, LostStay, LostStayFew, <1>1
<1>3. CASE faults' = faults + 1 BY <1>1, <1>3, OneIsLost, OneMoreIsLost
<1> QED BY <1>2, <1>3

LEMMA ReturnDrops ==
  ASSUME NEW w \in Workers, Return(w)
  PROVE  Drop(w) /\ (faults' = faults \/ faults' = faults + 1)
BY DEF Return, Throw, Fault

(***************************************************************************)
(* CrawlJobs: the steps, with one worker.                                  *)
(***************************************************************************)
\* One row changes, and no remote id does.
LEMMA RowStepAgrees ==
  ASSUME CrawlSound, CrawlAgreed, NEW j \in Jobs, Jobs' = Jobs, remote' = remote, article' = article,
         \A k \in Jobs : k # j => job'[k] = job[k], job'[j].remote = job[j].remote, JobAgrees(j)'
  PROVE  RowsAgree' /\ RemovedAreRecorded' /\ ArticlesAgree' /\ RemotesStay
<1>1. Known' = Known BY DEF Known
<1>2. RowsAgree'
  <2>1. ASSUME NEW k \in Jobs, k # j PROVE JobAgrees(k)'
    BY <2>1, RowAgreesStill DEF CrawlAgreed, RowsAgree, StoredFor
  <2> QED BY <2>1 DEF RowsAgree
<1>3. RemovedAreRecorded' BY <1>1 DEF CrawlAgreed, RemovedAreRecorded, CrawlSound, RemotesSound
<1>4. ArticlesAgree' BY DEF CrawlAgreed, ArticlesAgree
<1> QED BY <1>1, <1>2, <1>3, <1>4 DEF RemotesStay

\* No worker moves.
LEMMA StillWorkersLoseNothing ==
  ASSUME CrawlSound, CrawlAgreed, CrawlSound', OneWorker, RemotesStay, worker' = worker, faults' = faults
  PROVE  LostNeedFaults'
<1>1. Lost' \subseteq Lost BY DEF Lost, Recording, Doing, RemotesStay, CrawlSound, RemotesSound
<1> QED BY <1>1, LostStayFew

\* The row is given up before its result was stored.
LEMMA GivenUpAgrees ==
  ASSUME CrawlSound, CrawlAgreed, NEW j \in Jobs, GiveUp(j), State(j) # "ingested",
         bound' = bound, remote' = remote, article' = article
  PROVE  /\ RowsAgree' /\ RemovedAreRecorded' /\ ArticlesAgree' /\ RemotesStay
         /\ job'[j] = [job[j] EXCEPT !.state = "failed", !.parent = "failed"]
         /\ \A k \in Jobs : k # j => job'[k] = job[k]
<1>1. CrawlGrows /\ Jobs' = Jobs /\ \A k \in Jobs : k # j => job'[k] = job[k] BY FailedRowIsSound
<1>2. job'[j] = [job[j] EXCEPT !.state = "failed", !.parent = "failed"]
  BY DEF GiveUp, CrawlSound, JobsSound, Jobs
<1>3. job[j] \in JobRows /\ JobAgrees(j) BY JobsAreNumbered DEF CrawlAgreed, RowsAgree
<1>4. /\ job'[j].state = "failed" /\ job'[j].parent = "failed" /\ job'[j].remote = job[j].remote
      /\ job'[j].acked = job[j].acked
  BY <1>2, <1>3 DEF JobRows
<1>5. StoredFor(j)' <=> StoredFor(j) BY DEF StoredFor
<1>6. JobAgrees(j)' BY <1>3, <1>4, <1>5 DEF JobAgrees, State, Final
<1> QED BY <1>1, <1>2, <1>4, <1>6, RowStepAgrees

LEMMA PollAgrees ==
  ASSUME CrawlSound, CrawlAgreed, CrawlSound', OneWorker, Poll
  PROVE  CrawlAgreed'
<1>0. PICK new : new = Len(job) + 1 OBVIOUS
<1>1. /\ job' = Append(job, NewJob)
      /\ remote' = remote /\ article' = article /\ worker' = worker /\ faults' = faults
  BY DEF Poll
<1>2. Len(job) \in Nat /\ Jobs = 1..Len(job) BY JobsAreNumbered
<1>3. NewJob \in JobRows BY BoundsAreSound DEF NewJob, JobRows, InFlight, CrawlSound
<1>4. /\ job' \in Seq(JobRows) /\ Len(job') = Len(job) + 1
      /\ \A j \in 1..Len(job) : job'[j] = job[j]
      /\ job'[new] = NewJob
  BY <1>0, <1>1, <1>3, AppendProperties DEF CrawlSound, JobsSound
<1>5. Jobs' = Jobs \cup {new} /\ new \notin Jobs BY <1>0, <1>2, <1>4, LenProperties DEF Jobs
<1>6. Known' = Known BY <1>1 DEF Known
<1>7. RemotesStay BY <1>1, <1>2, <1>4, <1>5, <1>6 DEF RemotesStay
<1>8. RowsAgree'
  <2>1. ASSUME NEW j \in Jobs PROVE JobAgrees(j)'
    BY <1>1, <1>2, <1>4, RowAgreesStill DEF CrawlAgreed, RowsAgree, StoredFor
  <2>2. JobAgrees(new)'
    <3>1. ~StoredFor(new)' BY <1>1, <1>5 DEF StoredFor, CrawlSound, ArticlesSound
    <3> QED BY <1>4, <3>1 DEF JobAgrees, State, NewJob, NoRemote
  <2> QED BY <1>5, <2>1, <2>2 DEF RowsAgree
<1>9. RemovedAreRecorded'
  BY <1>1, <1>2, <1>4, <1>6 DEF CrawlAgreed, RemovedAreRecorded, CrawlSound, RemotesSound
<1>10. ArticlesAgree' BY <1>1 DEF CrawlAgreed, ArticlesAgree
<1>11. WorkersAgree'
  <2>1. ASSUME NEW w \in Workers PROVE WorkerAgrees(w)'
    <3>1. CASE worker[w].step = "idle" BY <3>1, <1>1 DEF WorkerAgrees
    <3>2. CASE worker[w].step # "idle"
      <4>1. Mine(w) \in Jobs BY <3>2, WorkIsSound DEF Doing
      <4>2. job'[Mine(w)] = job[Mine(w)] BY <4>1, <1>2, <1>4
      <4> QED BY <1>1, <4>2 DEF CrawlAgreed, WorkersAgree, WorkerAgrees, Mine, State, Result
    <3> QED BY <3>1, <3>2
  <2> QED BY <2>1 DEF WorkersAgree
<1>12. LostNeedFaults' BY <1>1, <1>7, StillWorkersLoseNothing
<1> QED BY <1>8, <1>9, <1>10, <1>11, <1>12 DEF CrawlAgreed

LEMMA NotifyAgrees ==
  ASSUME NEW j \in JobIds, CrawlSound, CrawlAgreed, CrawlSound', OneWorker, Notify(j)
  PROVE  CrawlAgreed'
<1>1. /\ j \in Jobs /\ job[j].remote # NoRemote /\ State(j) \notin Final
      /\ job' = [job EXCEPT ![j].notified = TRUE, ![j].state = "notified"]
      /\ bound' = bound /\ remote' = remote /\ article' = article /\ worker' = worker
      /\ faults' = faults
  BY DEF Notify
<1>0. PICK row : row = [job[j] EXCEPT !.notified = TRUE, !.state = "notified"] OBVIOUS
<1>2. Changes(job[j], row) /\ RowSet(j, row) BY <1>0, <1>1 DEF Changes, RowSet
<1>3. Jobs' = Jobs /\ job'[j] = row /\ \A k \in Jobs : k # j => job'[k] = job[k]
  BY <1>1, <1>2, ChangeIsSound
<1>4. job[j] \in JobRows /\ JobAgrees(j) BY <1>1, JobsAreNumbered DEF CrawlAgreed, RowsAgree
<1>5. /\ job'[j].state = "notified" /\ job'[j].parent = job[j].parent
      /\ job'[j].remote = job[j].remote /\ job'[j].acked = job[j].acked
  BY <1>0, <1>3, <1>4 DEF JobRows
<1>6. StoredFor(j)' <=> StoredFor(j) BY <1>1 DEF StoredFor
<1>7. JobAgrees(j)' BY <1>1, <1>4, <1>5, <1>6 DEF JobAgrees, State, Final
<1>8. RowsAgree' /\ RemovedAreRecorded' /\ ArticlesAgree' /\ RemotesStay
  BY <1>1, <1>3, <1>5, <1>7, RowStepAgrees
<1>9. LostNeedFaults' BY <1>1, <1>8, StillWorkersLoseNothing
<1>10. ASSUME NEW w \in Workers PROVE WorkerAgrees(w)'
  <2>0. WorkerAgrees(w) BY DEF CrawlAgreed, WorkersAgree
  <2>1. CASE worker[w].step = "idle" BY <2>1, <1>1 DEF WorkerAgrees
  <2>2. CASE worker[w].step # "idle" /\ Mine(w) # j
    <3>1. Mine(w) \in Jobs BY <2>2, WorkIsSound DEF Doing
    <3>2. job'[Mine(w)] = job[Mine(w)] BY <3>1, <2>2, <1>3
    <3> QED BY <1>1, <2>0, <3>2 DEF WorkerAgrees, Mine, State, Result
  <2>3. CASE worker[w].step # "idle" /\ Mine(w) = j
    BY <1>1, <1>5, <2>0, <2>3 DEF WorkerAgrees, Mine, State, Result, Final
  <2> QED BY <2>1, <2>2, <2>3
<1> QED BY <1>8, <1>9, <1>10 DEF CrawlAgreed, WorkersAgree

LEMMA ReconcileAgrees ==
  ASSUME NEW j \in JobIds, CrawlSound, CrawlAgreed, CrawlSound', OneWorker, Reconcile(j)
  PROVE  CrawlAgreed'
<1>1. /\ j \in Jobs /\ bound' = bound /\ remote' = remote /\ article' = article /\ worker' = worker
      /\ faults' = faults
  BY DEF Reconcile, CrawlSound
<1>2. job[j] \in JobRows /\ JobAgrees(j) BY <1>1, JobsAreNumbered DEF CrawlAgreed, RowsAgree
<1>3. ASSUME RowsAgree', RemovedAreRecorded', ArticlesAgree', RemotesStay,
             \A k \in Jobs : k # j => job'[k] = job[k],
             job'[j].remote = job[j].remote, job'[j].acked = job[j].acked,
             State(j) = job'[j].state \/ (State(j) # "ingested" /\ job'[j].state = "failed")
      PROVE  CrawlAgreed'
  <2>1. LostNeedFaults' BY <1>1, <1>3, StillWorkersLoseNothing
  <2>2. ASSUME NEW w \in Workers PROVE WorkerAgrees(w)'
    <3>0. WorkerAgrees(w) BY DEF CrawlAgreed, WorkersAgree
    <3>1. CASE worker[w].step = "idle" BY <3>1, <1>1 DEF WorkerAgrees
    <3>2. CASE worker[w].step # "idle" /\ Mine(w) # j
      <4>1. Mine(w) \in Jobs BY <3>2, WorkIsSound DEF Doing
      <4>2. job'[Mine(w)] = job[Mine(w)] BY <4>1, <3>2, <1>3
      <4> QED BY <1>1, <3>0, <4>2 DEF WorkerAgrees, Mine, State, Result
    <3>3. CASE worker[w].step # "idle" /\ Mine(w) = j
      BY <1>1, <1>3, <3>0, <3>3 DEF WorkerAgrees, Mine, State, Result, Final
    <3> QED BY <3>1, <3>2, <3>3
  <2> QED BY <1>3, <2>1, <2>2 DEF CrawlAgreed, WorkersAgree
<1>4. CASE UNCHANGED <<job, queue>> BY <1>1, <1>3, <1>4, QuietAgrees DEF State
<1>5. CASE Exhausted(j) /\ GiveUp(j)
  <2>1. State(j) # "ingested" BY <1>5 DEF Exhausted, InFlight
  <2>2. /\ RowsAgree' /\ RemovedAreRecorded' /\ ArticlesAgree' /\ RemotesStay
        /\ job'[j] = [job[j] EXCEPT !.state = "failed", !.parent = "failed"]
        /\ \A k \in Jobs : k # j => job'[k] = job[k]
    BY <1>1, <1>5, <2>1, GivenUpAgrees
  <2>3. job'[j].remote = job[j].remote /\ job'[j].acked = job[j].acked /\ job'[j].state = "failed"
    BY <1>2, <2>2 DEF JobRows
  <2> QED BY <1>3, <2>1, <2>2, <2>3
<1>6. CASE job' = [job EXCEPT ![j].attempts = IF @ < bound.attempts THEN @ + 1 ELSE @]
  <2>0. PICK a : a = IF job[j].attempts < bound.attempts THEN job[j].attempts + 1
                                                         ELSE job[j].attempts OBVIOUS
  <2>1. bound.attempts \in Nat BY BoundsAreSound DEF CrawlSound
  <2>2. a \in 0..bound.attempts BY <2>0, <2>1, <1>2 DEF JobRows
  <2>3. PICK row : row = [job[j] EXCEPT !.attempts = a] OBVIOUS
  <2>4. Changes(job[j], row) BY <2>2, <2>3 DEF Changes
  <2>5. RowSet(j, row) BY <2>0, <2>3, <1>1, <1>6 DEF RowSet
  <2>6. Jobs' = Jobs /\ job'[j] = row /\ \A k \in Jobs : k # j => job'[k] = job[k]
    BY <1>1, <2>4, <2>5, ChangeIsSound
  <2>7. /\ job'[j].state = job[j].state /\ job'[j].parent = job[j].parent
        /\ job'[j].remote = job[j].remote /\ job'[j].acked = job[j].acked
    BY <1>2, <2>3, <2>6 DEF JobRows
  <2>8. StoredFor(j)' <=> StoredFor(j) BY <1>1 DEF StoredFor
  <2>9. JobAgrees(j)' BY <1>1, <1>2, <2>7, <2>8 DEF JobAgrees, State
  <2>10. RowsAgree' /\ RemovedAreRecorded' /\ ArticlesAgree' /\ RemotesStay
    BY <1>1, <2>6, <2>7, <2>9, RowStepAgrees
  <2> QED BY <1>3, <2>6, <2>7, <2>10 DEF State
<1> QED BY <1>4, <1>5, <1>6 DEF Reconcile

LEMMA RemoteEndsAgrees ==
  ASSUME NEW r \in RemoteIds, NEW outcome \in Outcomes,
         CrawlSound, CrawlAgreed, CrawlSound', OneWorker, RemoteEnds(r, outcome)
  PROVE  CrawlAgreed'
<1>1. /\ r \in Known /\ remote' = [remote EXCEPT ![r].state = outcome] /\ remote[r].state = "running"
      /\ bound' = bound /\ job' = job /\ article' = article /\ worker' = worker
      /\ faults' = faults
  BY DEF RemoteEnds
<1>0. PICK row : row = [remote[r] EXCEPT !.state = outcome] OBVIOUS
<1>2. row \in Remotes /\ row.of = remote[r].of /\ row.state # "removed"
  BY <1>0, <1>1, JobsAreNumbered DEF Remotes, Outcomes
<1>3. RemoteSet(r, row) BY <1>0, <1>1 DEF RemoteSet
<1>4. Known' = Known /\ remote'[r] = row /\ \A s \in Known : s # r => remote'[s] = remote[s]
  BY <1>1, <1>2, <1>3, RemoteSetIsSound
<1>5. \A s \in Known : /\ remote'[s].of = remote[s].of
                       /\ remote'[s].state = "removed" => remote[s].state = "removed"
  BY <1>2, <1>4
<1>6. Jobs' = Jobs BY <1>1 DEF Jobs
<1>7. RemotesStay BY <1>1, <1>4, <1>5, <1>6 DEF RemotesStay
<1>8. RowsAgree'
  <2>1. ASSUME NEW j \in Jobs PROVE JobAgrees(j)'
    <3>1. JobAgrees(j) /\ job[j].remote \in Known \cup {NoRemote}
      BY DEF CrawlAgreed, RowsAgree, CrawlSound, JobsSound
    <3>2. StoredFor(j)' <=> StoredFor(j) BY <1>1 DEF StoredFor
    <3> QED BY <1>1, <1>5, <3>1, <3>2 DEF JobAgrees, State
  <2> QED BY <1>6, <2>1 DEF RowsAgree
<1>9. RemovedAreRecorded' BY <1>1, <1>4, <1>5 DEF CrawlAgreed, RemovedAreRecorded
<1>10. ArticlesAgree' BY <1>1 DEF CrawlAgreed, ArticlesAgree
<1>11. LostNeedFaults' BY <1>1, <1>7, StillWorkersLoseNothing
<1>12. ASSUME NEW w \in Workers PROVE WorkerAgrees(w)'
  <2>0. WorkerAgrees(w) BY DEF CrawlAgreed, WorkersAgree
  <2>1. CASE worker[w].step \notin {"record", "mark"}
    BY <1>1, <2>0, <2>1 DEF WorkerAgrees, Mine, State
  <2>2. CASE worker[w].step = "record"
    <3>1. worker[w].created \in Known BY <2>2, WorkIsSound DEF Doing
    <3> QED BY <1>1, <1>5, <2>0, <2>2, <3>1 DEF WorkerAgrees, Mine
  <2>3. CASE worker[w].step = "mark"
    <3>1. job[Mine(w)].remote \in Known BY <2>3, WorkIsSound DEF Doing, IngestSteps
    <3> QED BY <1>1, <1>5, <2>0, <2>3, <3>1 DEF WorkerAgrees, Mine, State, Result
  <2> QED BY <2>1, <2>2, <2>3
<1> QED BY <1>8, <1>9, <1>10, <1>11, <1>12 DEF CrawlAgreed, WorkersAgree

LEMMA TakeAgrees ==
  ASSUME NEW w \in Workers, CrawlSound, CrawlAgreed, CrawlSound', OneWorker, Take(w)
  PROVE  CrawlAgreed'
<1>1. /\ bound' = bound /\ job' = job /\ remote' = remote /\ article' = article
      /\ faults' = faults /\ Doing(w, "idle")
  BY DEF Take
<1>2. RowsAgree' /\ RemovedAreRecorded' /\ ArticlesAgree' /\ RemotesStay BY <1>1, QuietAgrees
<1>3. worker'[w].step \in {"input", "read"} BY DEF Take, CrawlSound, WorkersSound, NoWork
<1>4. WorkerAgrees(w)' BY <1>3 DEF WorkerAgrees
<1>5. LostNeedFaults' BY <1>1, <1>2, LostStay, LostStayFew DEF Doing
<1> QED BY <1>2, <1>4, <1>5 DEF CrawlAgreed, WorkersAgree, OneWorker

LEMMA InputAgrees ==
  ASSUME NEW w \in Workers, CrawlSound, CrawlAgreed, CrawlSound', OneWorker, Input(w)
  PROVE  CrawlAgreed'
<1>1. /\ bound' = bound /\ job' = job /\ remote' = remote /\ article' = article
      /\ faults' = faults /\ ~Doing(w, "record")
  BY DEF Input, Doing
<1>2. RowsAgree' /\ RemovedAreRecorded' /\ ArticlesAgree' /\ RemotesStay BY <1>1, QuietAgrees
<1>3. CASE Dispatchable(Mine(w)) /\ Turn(w, "post")
  <2>1. WorkersAgree' BY <1>1, <1>3, TurnedAgrees DEF Dispatchable
  <2>2. LostNeedFaults' BY <1>1, <1>2, LostStay, LostStayFew
  <2> QED BY <1>2, <2>1, <2>2 DEF CrawlAgreed
<1>4. CASE Throw(w) BY <1>1, <1>2, <1>4, ThrownAgrees DEF Throw, CrawlAgreed
<1> QED BY <1>3, <1>4 DEF Input

\* A remote job is made for the row of a worker.
LEMMA CreatedAgrees ==
  ASSUME CrawlSound, CrawlAgreed, NEW w \in Workers, OneWorker, Doing(w, "post"), Len(remote) < MaxRemotes,
         Created(w), bound' = bound, job' = job, article' = article
  PROVE  RowsAgree' /\ RemovedAreRecorded' /\ ArticlesAgree'
         /\ Lost' \subseteq Lost \cup {r \in {Len(remote) + 1} : ~Recording(r)'}
<1>0. PICK new : new = Len(remote) + 1 OBVIOUS
<1>1. /\ new \in Known' \ Known /\ Known' = Known \cup {new} /\ CrawlGrows
      /\ remote'[new] = [state |-> "running", of |-> Mine(w)]
      /\ \A r \in Known : remote'[r] = remote[r]
  BY <1>0, CreatedIsSound DEF Doing
<1>2. Jobs' = Jobs BY DEF Jobs
<1>3. RowsAgree'
  <2>1. ASSUME NEW j \in Jobs PROVE JobAgrees(j)'
    BY <1>1, RowAgreesStill DEF CrawlAgreed, RowsAgree, StoredFor, CrawlSound, JobsSound
  <2> QED BY <1>2, <2>1 DEF RowsAgree
<1>4. RemovedAreRecorded' BY <1>1 DEF CrawlAgreed, RemovedAreRecorded
<1>5. ArticlesAgree' BY DEF CrawlAgreed, ArticlesAgree
<1>6. ASSUME NEW r \in Known PROVE ~Recording(r) BY DEF Recording, OneWorker, Doing
<1>7. ASSUME NEW r \in Lost' PROVE r \in Lost \/ (r = new /\ ~Recording(r)')
  <2>1. r \in Known' /\ job'[remote'[r].of].remote # r /\ ~Recording(r)' BY DEF Lost
  <2>2. CASE r = new BY <2>1, <2>2
  <2>3. CASE r \in Known BY <1>1, <1>6, <2>1, <2>3 DEF Lost
  <2> QED BY <1>1, <2>1, <2>2, <2>3
<1> QED BY <1>0, <1>3, <1>4, <1>5, <1>7

LEMMA PostAgrees ==
  ASSUME NEW w \in Workers, CrawlSound, CrawlAgreed, CrawlSound', OneWorker, Post(w)
  PROVE  CrawlAgreed'
<1>1. /\ bound' = bound /\ job' = job /\ article' = article /\ Doing(w, "post")
      /\ Len(remote) < MaxRemotes /\ ~Doing(w, "record") /\ ~Doing(w, "idle")
  BY DEF Post, Doing
<1>2. CASE /\ Created(w)
           /\ worker' = [worker EXCEPT ![w].step = "record", ![w].created = Len(remote) + 1]
           /\ UNCHANGED faults
  <2>0. PICK new : new = Len(remote) + 1 OBVIOUS
  <2>1. RowsAgree' /\ RemovedAreRecorded' /\ ArticlesAgree'
        /\ Lost' \subseteq Lost \cup {r \in {new} : ~Recording(r)'}
    BY <1>1, <1>2, <2>0, CreatedAgrees
  <2>2. worker'[w].step = "record" /\ worker'[w].created = new /\ worker'[w].job = Mine(w)
    BY <1>2, <2>0 DEF CrawlSound, WorkersSound, WorkerStates, Mine
  <2>3. Recording(new)' BY <2>2 DEF Recording, Doing
  <2>4. LostNeedFaults' BY <1>2, <2>1, <2>3, LostStayFew
  <2>5. remote'[new].of = Mine(w)
    <3>1. remote'[Len(remote) + 1] = [state |-> "running", of |-> Mine(w)]
      BY <1>1, <1>2, CreatedIsSound
    <3> QED BY <2>0, <3>1
  <2>6. job[Mine(w)].remote = NoRemote BY <1>1 DEF CrawlAgreed, WorkersAgree, WorkerAgrees, Doing
  <2>7. job'[worker'[w].job].remote = NoRemote BY <1>1, <2>2, <2>6
  <2>8. remote'[worker'[w].created].of = worker'[w].job BY <2>2, <2>5
  <2>9. WorkerAgrees(w)' BY <2>2, <2>7, <2>8 DEF WorkerAgrees, Mine
  <2> QED BY <2>1, <2>4, <2>9 DEF CrawlAgreed, WorkersAgree, OneWorker
<1>3. CASE Turn(w, "refuse") /\ UNCHANGED <<remote, faults>>
  <2>1. RowsAgree' /\ RemovedAreRecorded' /\ ArticlesAgree' /\ RemotesStay BY <1>1, <1>3, QuietAgrees
  <2>2. WorkersAgree' BY <1>3, TurnedAgrees
  <2>3. LostNeedFaults' BY <1>1, <1>3, <2>1, LostStay, LostStayFew
  <2> QED BY <2>1, <2>2, <2>3 DEF CrawlAgreed
<1>4. CASE Created(w) /\ Turn(w, "refuse") /\ Fault
  <2>0. PICK new : new = Len(remote) + 1 OBVIOUS
  <2>1. RowsAgree' /\ RemovedAreRecorded' /\ ArticlesAgree' /\ Lost' \subseteq Lost \cup {new}
    BY <1>1, <1>4, <2>0, CreatedAgrees
  <2>2. WorkersAgree' BY <1>4, TurnedAgrees
  <2>3. LostNeedFaults' BY <1>4, <2>1, OneMoreIsLost DEF Fault
  <2> QED BY <2>1, <2>2, <2>3 DEF CrawlAgreed
<1> QED BY <1>2, <1>3, <1>4 DEF Post

LEMMA RecordAgrees ==
  ASSUME NEW w \in Workers, CrawlSound, CrawlAgreed, CrawlSound', OneWorker, Record(w)
  PROVE  CrawlAgreed'
<1>1. /\ bound' = bound /\ remote' = remote /\ article' = article /\ Doing(w, "record") /\ ~Doing(w, "idle")
  BY DEF Record, Doing
<1>0. PICK j, r : j = Mine(w) /\ r = worker[w].created OBVIOUS
<1>2. j \in Jobs /\ r \in Known /\ r # NoRemote BY <1>0, <1>1, WorkIsSound
<1>3. job[j].remote = NoRemote /\ remote[r].of = j
  BY <1>0, <1>1 DEF CrawlAgreed, WorkersAgree, WorkerAgrees, Doing
<1>4. JobAgrees(j) /\ job[j] \in JobRows BY <1>2, JobsAreNumbered DEF CrawlAgreed, RowsAgree
<1>5. \A s \in Known : Recording(s) => s = r BY <1>0 DEF Recording, OneWorker
<1>6. Known' = Known BY <1>1 DEF Known
<1>7. ASSUME Recorded(w)
      PROVE  RowsAgree' /\ RemovedAreRecorded' /\ ArticlesAgree' /\ Lost' \subseteq Lost
  <2>1. /\ Jobs' = Jobs /\ job'[j] = [job[j] EXCEPT !.remote = r, !.state = "dispatched", !.parent = "fetching"]
        /\ \A k \in Jobs : k # j => job'[k] = job[k]
    BY <1>0, <1>1, <1>7, RecordedIsSound
  <2>2. /\ job'[j].remote = r /\ job'[j].state = "dispatched" /\ job'[j].parent = "fetching"
        /\ job'[j].acked = job[j].acked
    BY <1>4, <2>1 DEF JobRows
  <2>3. ~StoredFor(j) /\ ~job[j].acked BY <1>3, <1>4 DEF JobAgrees
  <2>4. remote[r].state # "removed" BY <1>2, <1>3 DEF CrawlAgreed, RemovedAreRecorded
  <2>5. ~StoredFor(j)' BY <1>1, <2>3 DEF StoredFor
  <2>6. JobAgrees(j)' BY <1>1, <1>2, <1>3, <2>2, <2>3, <2>4, <2>5 DEF JobAgrees, State, Final
  <2>7. ASSUME NEW k \in Jobs, k # j PROVE JobAgrees(k)'
    BY <1>1, <2>1, <2>7, RowAgreesStill DEF CrawlAgreed, RowsAgree, StoredFor
  <2>8. RowsAgree' BY <2>1, <2>6, <2>7 DEF RowsAgree
  <2>9. RemovedAreRecorded'
    <3> SUFFICES ASSUME NEW s \in Known, remote[s].state = "removed"
                 PROVE  job'[remote[s].of].remote = s
      BY <1>1, <1>6 DEF RemovedAreRecorded
    <3>1. job[remote[s].of].remote = s BY DEF CrawlAgreed, RemovedAreRecorded
    <3>2. s # NoRemote BY JobsAreNumbered DEF RemoteIds, NoRemote
    <3>3. remote[s].of # j BY <1>3, <3>1, <3>2
    <3>4. remote[s].of \in Jobs BY DEF CrawlSound, RemotesSound
    <3> QED BY <2>1, <3>1, <3>3, <3>4
  <2>10. ArticlesAgree' BY <1>1 DEF CrawlAgreed, ArticlesAgree
  <2>11. ASSUME NEW s \in Lost' PROVE s \in Lost
    <3>1. s \in Known /\ job'[remote[s].of].remote # s BY <1>1, <1>6 DEF Lost
    <3>2. s # NoRemote BY <3>1, JobsAreNumbered DEF RemoteIds, NoRemote
    <3>3. remote[s].of \in Jobs BY <3>1 DEF CrawlSound, RemotesSound
    <3>4. s # r BY <1>3, <2>2, <3>1
    <3>5. job[remote[s].of].remote # s BY <1>3, <2>1, <3>1, <3>2, <3>3
    <3> QED BY <1>5, <3>1, <3>4, <3>5 DEF Lost
  <2> QED BY <2>8, <2>9, <2>10, <2>11
<1>8. CASE Recorded(w) /\ Return(w)
  <2>1. Drop(w) /\ faults' \in {faults, faults + 1} BY <1>8, ReturnDrops
  <2>2. WorkersAgree' BY <2>1, IdleAgrees
  <2>3. LostNeedFaults' BY <1>7, <1>8, <2>1, LostStayFew
  <2> QED BY <1>7, <1>8, <2>2, <2>3 DEF CrawlAgreed
<1>9. CASE job[Mine(w)].remote # NoRemote BY <1>0, <1>3, <1>9
<1>10. CASE Fault /\ Recorded(w) /\ Turn(w, "refuse")
  <2>1. WorkersAgree' BY <1>10, TurnedAgrees
  <2>2. LostNeedFaults' BY <1>7, <1>10, LostStayFew DEF Fault
  <2> QED BY <1>7, <1>10, <2>1, <2>2 DEF CrawlAgreed
<1>11. CASE Fault /\ UNCHANGED job /\ Turn(w, "refuse")
  <2>1. RowsAgree' /\ RemovedAreRecorded' /\ ArticlesAgree' /\ RemotesStay BY <1>1, <1>11, QuietAgrees
  <2>2. WorkersAgree' BY <1>11, TurnedAgrees
  <2>3. LostNeedFaults' BY <1>11, <2>1, OneIsLost, OneMoreIsLost DEF Fault
  <2> QED BY <2>1, <2>2, <2>3 DEF CrawlAgreed
<1> QED BY <1>8, <1>9, <1>10, <1>11 DEF Record

LEMMA RefuseDispatchAgrees ==
  ASSUME NEW w \in Workers, CrawlSound, CrawlAgreed, CrawlSound', OneWorker, RefuseDispatch(w)
  PROVE  CrawlAgreed'
<1>1. /\ bound' = bound /\ remote' = remote /\ article' = article /\ ~Doing(w, "idle") /\ ~Doing(w, "record")
      /\ Drop(w)
      /\ (FailedDispatch(Mine(w)) /\ UNCHANGED faults) \/ (UNCHANGED job /\ Fault)
  BY DEF RefuseDispatch, Doing, Throw
<1>2. Mine(w) \in Jobs BY <1>1, WorkIsSound
<1>3. job' = job \/ (GiveUp(Mine(w)) /\ State(Mine(w)) # "ingested") BY <1>1 DEF FailedDispatch, GiveUp
<1>4. RowsAgree' /\ RemovedAreRecorded' /\ ArticlesAgree' /\ RemotesStay
  BY <1>1, <1>2, <1>3, GivenUpAgrees, QuietAgrees
<1>5. WorkersAgree' /\ LostNeedFaults' BY <1>1, <1>4, ThrownAgrees DEF Fault
<1> QED BY <1>4, <1>5 DEF CrawlAgreed

LEMMA ReadAgrees ==
  ASSUME NEW w \in Workers, CrawlSound, CrawlAgreed, CrawlSound', OneWorker, Read(w)
  PROVE  CrawlAgreed'
<1>1. /\ job' = job /\ remote' = remote /\ article' = article
      /\ faults' = faults /\ Doing(w, "read") /\ ~Doing(w, "record") /\ ~Doing(w, "idle")
  BY DEF Read, Doing
<1>0. PICK j : j = Mine(w) OBVIOUS
<1>2. RowsAgree' /\ RemovedAreRecorded' /\ ArticlesAgree' /\ RemotesStay BY <1>1, QuietAgrees
<1>3. LostNeedFaults' BY <1>1, <1>2, LostStay, LostStayFew
<1>4. j \in Jobs /\ job[j].remote \in Known BY <1>0, <1>1, WorkIsSound DEF Doing, IngestSteps
<1>5. JobAgrees(j) /\ job[j] \in JobRows /\ job[j].remote # NoRemote
  BY <1>4, JobsAreNumbered DEF CrawlAgreed, RowsAgree, RemoteIds, NoRemote
<1>6. CASE State(j) \in {"dispatched", "notified"}
  <2>1. Turn(w, "mark") BY <1>0, <1>6 DEF Read, Final
  <2>2. /\ job'[Mine(w)].state # "ingested" /\ ~job'[Mine(w)].acked
        /\ remote'[job'[Mine(w)].remote].state # "removed"
    BY <1>0, <1>1, <1>5, <1>6 DEF JobAgrees, State, Final
  <2>3. WorkersAgree' BY <2>1, <2>2, TurnedAgrees
  <2> QED BY <1>2, <1>3, <2>3 DEF CrawlAgreed
<1>7. CASE State(j) = "ingesting"
  <2>1. Turn(w, "get") BY <1>0, <1>7 DEF Read, Final
  <2>2. WorkersAgree' BY <2>1, TurnedAgrees
  <2> QED BY <1>2, <1>3, <2>2 DEF CrawlAgreed
<1>8. CASE State(j) \in Final
  <2>1. Turn(w, "delete") BY <1>0, <1>8 DEF Read, Final
  <2>2. job'[Mine(w)].state \in Final BY <1>0, <1>1, <1>8 DEF State
  <2>3. WorkersAgree' BY <2>1, <2>2, TurnedAgrees
  <2> QED BY <1>2, <1>3, <2>3 DEF CrawlAgreed
<1> QED BY <1>5, <1>6, <1>7, <1>8 DEF State, JobRows, InFlight

LEMMA MarkIngestingAgrees ==
  ASSUME NEW w \in Workers, CrawlSound, CrawlAgreed, CrawlSound', OneWorker, MarkIngesting(w)
  PROVE  CrawlAgreed'
<1>1. /\ bound' = bound /\ remote' = remote /\ article' = article /\ faults' = faults
      /\ Doing(w, "mark") /\ ~Doing(w, "record") /\ ~Doing(w, "idle")
      /\ job' = [job EXCEPT ![Mine(w)].state = "ingesting"] /\ Turn(w, "get")
  BY DEF MarkIngesting, Doing
<1>0. PICK j : j = Mine(w) OBVIOUS
<1>2. j \in Jobs /\ job[j].remote \in Known BY <1>0, <1>1, WorkIsSound DEF Doing, IngestSteps
<1>3. JobAgrees(j) /\ job[j] \in JobRows /\ job[j].remote # NoRemote
  BY <1>2, JobsAreNumbered DEF CrawlAgreed, RowsAgree, RemoteIds, NoRemote
<1>4. State(j) # "ingested" /\ ~job[j].acked /\ remote[job[j].remote].state # "removed"
  BY <1>0, <1>1 DEF CrawlAgreed, WorkersAgree, WorkerAgrees, Doing, Result
<1>5. /\ Jobs' = Jobs /\ job'[j] = [job[j] EXCEPT !.state = "ingesting"]
      /\ \A k \in Jobs : k # j => job'[k] = job[k]
  BY <1>0, <1>1, <1>2, MarkIsSound
<1>6. /\ job'[j].state = "ingesting" /\ job'[j].parent = job[j].parent
      /\ job'[j].remote = job[j].remote /\ job'[j].acked = job[j].acked
  BY <1>3, <1>5 DEF JobRows
<1>7. StoredFor(j)' <=> StoredFor(j) BY <1>1 DEF StoredFor
<1>8. JobAgrees(j)' BY <1>1, <1>3, <1>4, <1>6, <1>7 DEF JobAgrees, State
<1>9. RowsAgree' /\ RemovedAreRecorded' /\ ArticlesAgree' /\ RemotesStay
  BY <1>1, <1>2, <1>5, <1>6, <1>8, RowStepAgrees
<1>10. WorkersAgree' BY <1>1, TurnedAgrees
<1>11. LostNeedFaults' BY <1>1, <1>9, LostStay, LostStayFew
<1> QED BY <1>9, <1>10, <1>11 DEF CrawlAgreed

LEMMA GetResultAgrees ==
  ASSUME NEW w \in Workers, CrawlSound, CrawlAgreed, CrawlSound', OneWorker, GetResult(w)
  PROVE  CrawlAgreed'
<1>1. /\ job' = job /\ remote' = remote /\ article' = article
      /\ ~Doing(w, "record")
  BY DEF GetResult, Doing
<1>2. RowsAgree' /\ RemovedAreRecorded' /\ ArticlesAgree' /\ RemotesStay BY <1>1, QuietAgrees
<1>3. CASE Return(w)
  <2>1. Drop(w) /\ (faults' = faults \/ faults' = faults + 1) BY <1>3, ReturnDrops
  <2> QED BY <1>1, <1>2, <2>1, ThrownAgrees DEF CrawlAgreed
<1>4. CASE (Turn(w, "complete") \/ Turn(w, "fail")) /\ UNCHANGED faults
  <2>1. WorkersAgree' BY <1>4, TurnedAgrees
  <2>2. LostNeedFaults' BY <1>1, <1>2, <1>4, LostStay, LostStayFew
  <2> QED BY <1>2, <2>1, <2>2 DEF CrawlAgreed
<1>5. CASE Throw(w) /\ UNCHANGED faults
  BY <1>1, <1>2, <1>5, ThrownAgrees DEF CrawlAgreed, Throw
<1> QED BY <1>3, <1>4, <1>5 DEF GetResult

\* A result is stored for a job that has none.
LEMMA CompletedAgrees ==
  ASSUME CrawlSound, CrawlAgreed, NEW j \in Jobs, job[j].remote \in Known,
         bound' = bound, remote' = remote, State(j) # "failed", Completed(j)
  PROVE  RowsAgree' /\ RemovedAreRecorded' /\ ArticlesAgree' /\ RemotesStay /\ job'[j].state \in Final
<1>1. /\ Jobs' = Jobs /\ \A k \in Jobs : k # j => job'[k] = job[k]
      /\ ~ToStore(j) => job' = job /\ article' = article
      /\ ToStore(j) => /\ job'[j] = [job[j] EXCEPT !.state = "ingested", !.parent = "ready"]
                       /\ DOMAIN article' = DOMAIN article \cup {Len(article) + 1}
                       /\ Len(article) + 1 \notin DOMAIN article
                       /\ \A n \in DOMAIN article : article'[n] = article[n]
                       /\ article'[Len(article) + 1].of = j
                       /\ article'[Len(article) + 1].status = "ready" => Len(article) = 0
  BY CompletedIsSound
<1>2. Known' = Known BY DEF Known
<1>3. JobAgrees(j) /\ job[j] \in JobRows /\ job[j].remote # NoRemote
  BY JobsAreNumbered DEF CrawlAgreed, RowsAgree, RemoteIds, NoRemote
<1>4. CASE ~ToStore(j)
  <2>1. RowsAgree' /\ ArticlesAgree'
    BY <1>1, <1>4, RowAgreesStill DEF CrawlAgreed, RowsAgree, ArticlesAgree, StoredFor
  <2>2. RemovedAreRecorded' BY <1>1, <1>2, <1>4 DEF CrawlAgreed, RemovedAreRecorded
  <2>3. RemotesStay BY <1>1, <1>2, <1>4 DEF RemotesStay
  <2> QED BY <1>1, <1>4, <2>1, <2>2, <2>3 DEF ToStore, State
<1>5. CASE ToStore(j)
  <2>0. PICK new : new = Len(article) + 1 OBVIOUS
  <2>1. /\ job'[j] = [job[j] EXCEPT !.state = "ingested", !.parent = "ready"]
        /\ DOMAIN article' = DOMAIN article \cup {new} /\ new \notin DOMAIN article
        /\ \A n \in DOMAIN article : article'[n] = article[n]
        /\ article'[new].of = j
        /\ article'[new].status = "ready" => new = 1
    BY <1>1, <1>5, <2>0
  <2>2. /\ job'[j].state = "ingested" /\ job'[j].parent = "ready" /\ job'[j].remote = job[j].remote
        /\ job'[j].acked = job[j].acked
    BY <1>3, <2>1 DEF JobRows
  <2>3. ~StoredFor(j) BY <1>3, <1>5 DEF JobAgrees, ToStore, Final
  <2>4. StoredFor(j)' BY <2>1 DEF StoredFor
  <2>5. JobAgrees(j)' BY <1>3, <2>2, <2>4 DEF JobAgrees, State, Final
  <2>6. ASSUME NEW k \in Jobs, k # j PROVE JobAgrees(k)'
    <3>1. StoredFor(k)' <=> StoredFor(k) BY <2>1, <2>6 DEF StoredFor
    <3> QED BY <1>1, <2>6, <3>1, RowAgreesStill DEF CrawlAgreed, RowsAgree
  <2>7. RowsAgree' BY <1>1, <2>5, <2>6 DEF RowsAgree
  <2>8. RemovedAreRecorded'
    BY <1>1, <1>2, <2>2 DEF CrawlAgreed, RemovedAreRecorded, CrawlSound, RemotesSound
  <2>9. RemotesStay BY <1>1, <1>2, <2>2 DEF RemotesStay
  <2>10. ArticlesAgree'
    <3>1. ASSUME NEW m \in DOMAIN article', NEW n \in DOMAIN article', article'[m].of = article'[n].of
          PROVE  m = n
      <4>1. \A k \in DOMAIN article : article'[k].of # j BY <2>1, <2>3 DEF StoredFor
      <4>2. m = new <=> n = new BY <2>1, <3>1, <4>1
      <4>3. CASE m # new /\ n # new
        BY <2>1, <3>1, <4>3 DEF CrawlAgreed, ArticlesAgree
      <4> QED BY <4>2, <4>3
    <3>2. ASSUME NEW n \in DOMAIN article', article'[n].status = "ready" PROVE n = 1
      BY <2>1, <3>2 DEF CrawlAgreed, ArticlesAgree
    <3> QED BY <3>1, <3>2 DEF ArticlesAgree
  <2> QED BY <2>2, <2>7, <2>8, <2>9, <2>10 DEF Final
<1> QED BY <1>4, <1>5

LEMMA CompleteAgrees ==
  ASSUME NEW w \in Workers, CrawlSound, CrawlAgreed, CrawlSound', OneWorker, Complete(w)
  PROVE  CrawlAgreed'
<1>1. bound' = bound /\ remote' = remote /\ Doing(w, "complete") /\ ~Doing(w, "record") /\ ~Doing(w, "idle")
  BY DEF Complete, Doing
<1>2. Mine(w) \in Jobs /\ job[Mine(w)].remote \in Known BY <1>1, WorkIsSound DEF Doing, IngestSteps
<1>3. ASSUME State(Mine(w)) # "failed", Completed(Mine(w))
      PROVE  RowsAgree' /\ RemovedAreRecorded' /\ ArticlesAgree' /\ RemotesStay
             /\ job'[Mine(w)].state \in Final
  BY <1>1, <1>2, <1>3, CompletedAgrees
<1>4. CASE State(Mine(w)) # "failed" /\ Completed(Mine(w)) /\ Turn(w, "delete") /\ UNCHANGED <<queue, faults>>
  <2>1. WorkersAgree' BY <1>3, <1>4, TurnedAgrees
  <2>2. LostNeedFaults' BY <1>1, <1>3, <1>4, LostStay, LostStayFew
  <2> QED BY <1>3, <1>4, <2>1, <2>2 DEF CrawlAgreed
<1>5. CASE Throw(w) /\ UNCHANGED <<job, article, faults>>
  <2>1. RowsAgree' /\ RemovedAreRecorded' /\ ArticlesAgree' /\ RemotesStay BY <1>1, <1>5, QuietAgrees
  <2> QED BY <1>1, <1>5, <2>1, ThrownAgrees DEF CrawlAgreed, Throw
<1>6. CASE State(Mine(w)) # "failed" /\ Completed(Mine(w)) /\ Fault /\ Throw(w)
  <2>1. WorkersAgree' /\ LostNeedFaults' BY <1>1, <1>3, <1>6, ThrownAgrees DEF Throw, Fault
  <2> QED BY <1>3, <1>6, <2>1 DEF CrawlAgreed
<1> QED BY <1>4, <1>5, <1>6 DEF Complete

LEMMA FailAgrees ==
  ASSUME NEW w \in Workers, CrawlSound, CrawlAgreed, CrawlSound', OneWorker, Fail(w)
  PROVE  CrawlAgreed'
<1>1. /\ bound' = bound /\ remote' = remote /\ article' = article /\ Doing(w, "fail") /\ ~Doing(w, "record")
      /\ ~Doing(w, "idle") /\ FailedIngest(Mine(w))
  BY DEF Fail, Doing
<1>2. Mine(w) \in Jobs BY <1>1, WorkIsSound
<1>3. RowsAgree' /\ RemovedAreRecorded' /\ ArticlesAgree' /\ RemotesStay /\ job'[Mine(w)].state \in Final
  <2>1. CASE MayFail(Mine(w))
    <3>1. GiveUp(Mine(w)) /\ State(Mine(w)) # "ingested" BY <1>1, <2>1 DEF FailedIngest, GiveUp, MayFail
    <3>2. /\ RowsAgree' /\ RemovedAreRecorded' /\ ArticlesAgree' /\ RemotesStay
          /\ job'[Mine(w)] = [job[Mine(w)] EXCEPT !.state = "failed", !.parent = "failed"]
      BY <1>1, <1>2, <3>1, GivenUpAgrees
    <3>3. job[Mine(w)] \in JobRows BY <1>2, JobsAreNumbered
    <3>4. job'[Mine(w)].state = "failed" BY <3>2, <3>3 DEF JobRows
    <3> QED BY <3>2, <3>4 DEF Final
  <2>2. CASE ~MayFail(Mine(w))
    <3>1. job' = job BY <1>1, <2>2 DEF FailedIngest
    <3> QED BY <1>1, <2>2, <3>1, QuietAgrees DEF MayFail, State, Final
  <2> QED BY <2>1, <2>2
<1>4. CASE Turn(w, "delete") /\ UNCHANGED <<queue, faults>>
  <2>1. WorkersAgree' BY <1>3, <1>4, TurnedAgrees
  <2>2. LostNeedFaults' BY <1>1, <1>3, <1>4, LostStay, LostStayFew
  <2> QED BY <1>3, <2>1, <2>2 DEF CrawlAgreed
<1>5. CASE Fault /\ Throw(w)
  <2>1. WorkersAgree' /\ LostNeedFaults' BY <1>1, <1>3, <1>5, ThrownAgrees DEF Throw, Fault
  <2> QED BY <1>3, <2>1 DEF CrawlAgreed
<1> QED BY <1>4, <1>5 DEF Fail

\* The remote job of a row that has ended is removed.
LEMMA RemoveAgrees ==
  ASSUME CrawlSound, CrawlAgreed, NEW w \in Workers, Doing(w, "delete"), Remove(w),
         bound' = bound, job' = job, article' = article
  PROVE  /\ RowsAgree' /\ RemovedAreRecorded' /\ ArticlesAgree' /\ RemotesStay
         /\ job'[Mine(w)].state \in Final
<1>0. PICK j, r : j = Mine(w) /\ r = job[Mine(w)].remote OBVIOUS
<1>1. j \in Jobs /\ r \in Known /\ r = job[j].remote BY <1>0, WorkIsSound DEF Doing, IngestSteps
<1>2. /\ Known' = Known /\ remote'[r] = [remote[r] EXCEPT !.state = "removed"]
      /\ \A s \in Known : s # r => remote'[s] = remote[s]
  BY <1>0, RemoveIsSound
<1>3. remote[r] \in Remotes /\ r # NoRemote /\ JobAgrees(j)
  BY <1>1, JobsAreNumbered DEF RemoteIds, NoRemote, CrawlAgreed, RowsAgree
<1>4. remote'[r].of = remote[r].of /\ remote'[r].state = "removed" BY <1>2, <1>3 DEF Remotes
<1>5. remote[r].of = j BY <1>1, <1>3 DEF JobAgrees
<1>6. State(j) \in Final BY <1>0 DEF CrawlAgreed, WorkersAgree, WorkerAgrees, Doing
<1>7. Jobs' = Jobs BY DEF Jobs
<1>8. RowsAgree'
  <2>1. ASSUME NEW k \in Jobs PROVE JobAgrees(k)'
    <3>1. JobAgrees(k) /\ job[k].remote \in Known \cup {NoRemote}
      BY DEF CrawlAgreed, RowsAgree, CrawlSound, JobsSound
    <3>2. StoredFor(k)' <=> StoredFor(k) BY DEF StoredFor
    <3>3. CASE job[k].remote = r
      <4>1. k = j BY <1>3, <1>5, <3>1, <3>3 DEF JobAgrees
      <4> QED BY <1>1, <1>4, <1>5, <1>6, <3>1, <3>2, <3>3, <4>1 DEF JobAgrees, State
    <3>4. CASE job[k].remote # r BY <1>2, <3>1, <3>2, <3>4, RowAgreesStill
    <3> QED BY <3>3, <3>4
  <2> QED BY <1>7, <2>1 DEF RowsAgree
<1>9. RemovedAreRecorded'
  <2> SUFFICES ASSUME NEW s \in Known, remote'[s].state = "removed" PROVE job[remote'[s].of].remote = s
    BY <1>2 DEF RemovedAreRecorded
  <2>1. CASE s = r BY <2>1, <1>1, <1>4, <1>5
  <2>2. CASE s # r BY <2>2, <1>2 DEF CrawlAgreed, RemovedAreRecorded
  <2> QED BY <2>1, <2>2
<1>10. ArticlesAgree' BY DEF CrawlAgreed, ArticlesAgree
<1>11. RemotesStay BY <1>2, <1>4, <1>7 DEF RemotesStay
<1>12. job'[Mine(w)].state \in Final BY <1>0, <1>6 DEF State
<1> QED BY <1>8, <1>9, <1>10, <1>11, <1>12

LEMMA DeleteAgrees ==
  ASSUME NEW w \in Workers, CrawlSound, CrawlAgreed, CrawlSound', OneWorker, Delete(w)
  PROVE  CrawlAgreed'
<1>1. bound' = bound /\ job' = job /\ article' = article /\ Doing(w, "delete") /\ ~Doing(w, "record")
  BY DEF Delete, Doing
<1>2. CASE Return(w) /\ UNCHANGED remote
  <2>1. Drop(w) /\ (faults' = faults \/ faults' = faults + 1) BY <1>2, ReturnDrops
  <2>2. RowsAgree' /\ RemovedAreRecorded' /\ ArticlesAgree' /\ RemotesStay BY <1>1, <1>2, QuietAgrees
  <2> QED BY <1>1, <2>1, <2>2, ThrownAgrees DEF CrawlAgreed
<1>3. CASE Remove(w) /\ Turn(w, "ack") /\ UNCHANGED <<queue, faults>>
  <2>1. RowsAgree' /\ RemovedAreRecorded' /\ ArticlesAgree' /\ RemotesStay /\ job'[Mine(w)].state \in Final
    BY <1>1, <1>3, RemoveAgrees
  <2>2. WorkersAgree' BY <1>3, <2>1, TurnedAgrees
  <2>3. LostNeedFaults' BY <1>1, <1>3, <2>1, LostStay, LostStayFew
  <2> QED BY <2>1, <2>2, <2>3 DEF CrawlAgreed
<1>4. CASE Remove(w) /\ Fault /\ Throw(w)
  <2>1. RowsAgree' /\ RemovedAreRecorded' /\ ArticlesAgree' /\ RemotesStay BY <1>1, <1>4, RemoveAgrees
  <2> QED BY <1>1, <1>4, <2>1, ThrownAgrees DEF CrawlAgreed, Throw, Fault
<1> QED BY <1>2, <1>3, <1>4 DEF Delete

LEMMA AcknowledgeAgrees ==
  ASSUME NEW w \in Workers, CrawlSound, CrawlAgreed, CrawlSound', OneWorker, Acknowledge(w)
  PROVE  CrawlAgreed'
<1>1. /\ bound' = bound /\ remote' = remote /\ article' = article /\ Doing(w, "ack") /\ ~Doing(w, "record")
      /\ Return(w) /\ job' = [job EXCEPT ![Mine(w)].acked = TRUE]
  BY DEF Acknowledge, Doing
<1>0. PICK j : j = Mine(w) OBVIOUS
<1>2. j \in Jobs /\ job[j].remote \in Known BY <1>0, <1>1, WorkIsSound DEF Doing, IngestSteps
<1>3. JobAgrees(j) /\ job[j] \in JobRows /\ job[j].remote # NoRemote
  BY <1>2, JobsAreNumbered DEF CrawlAgreed, RowsAgree, RemoteIds, NoRemote
<1>4. State(j) \in Final BY <1>0, <1>1 DEF CrawlAgreed, WorkersAgree, WorkerAgrees, Doing
<1>5. /\ Jobs' = Jobs /\ job'[j] = [job[j] EXCEPT !.acked = TRUE]
      /\ \A k \in Jobs : k # j => job'[k] = job[k]
  BY <1>0, <1>1, <1>2, AcknowledgedIsSound
<1>6. /\ job'[j].state = job[j].state /\ job'[j].parent = job[j].parent
      /\ job'[j].remote = job[j].remote
  BY <1>3, <1>5 DEF JobRows
<1>7. StoredFor(j)' <=> StoredFor(j) BY <1>1 DEF StoredFor
<1>8. JobAgrees(j)' BY <1>1, <1>3, <1>4, <1>6, <1>7 DEF JobAgrees, State
<1>9. RowsAgree' /\ RemovedAreRecorded' /\ ArticlesAgree' /\ RemotesStay
  BY <1>1, <1>2, <1>5, <1>6, <1>8, RowStepAgrees
<1>10. Drop(w) /\ (faults' = faults \/ faults' = faults + 1) BY <1>1, ReturnDrops
<1> QED BY <1>1, <1>9, <1>10, ThrownAgrees DEF CrawlAgreed

LEMMA CrashAgrees ==
  ASSUME NEW w \in Workers, CrawlSound, CrawlAgreed, CrawlSound', OneWorker, Crash(w)
  PROVE  CrawlAgreed'
<1>1. job' = job /\ remote' = remote /\ article' = article /\ faults' = faults + 1 /\ Drop(w)
  BY DEF Crash, Fault, Throw
<1>2. RowsAgree' /\ RemovedAreRecorded' /\ ArticlesAgree' /\ RemotesStay BY <1>1, QuietAgrees
<1> QED BY <1>1, <1>2, ThrownAgrees DEF CrawlAgreed

LEMMA CrawlAgreedStays ==
  ASSUME OneWorker, CrawlSound, CrawlAgreed, CrawlSound', [CrawlNext]_crawlVars
  PROVE  CrawlAgreed'
<1>0. ASSUME RowsAgree', RemovedAreRecorded', ArticlesAgree', worker' = worker, job' = job,
             remote' = remote, faults' = faults
      PROVE  CrawlAgreed'
  <2>1. WorkersAgree' BY <1>0 DEF CrawlAgreed, WorkersAgree, WorkerAgrees, Mine, State, Result
  <2>2. RemotesStay BY <1>0 DEF RemotesStay, Known, Jobs
  <2>3. LostNeedFaults' BY <1>0, <2>2, StillWorkersLoseNothing
  <2> QED BY <1>0, <2>1, <2>3 DEF CrawlAgreed
<1>1. CASE UNCHANGED crawlVars BY <1>0, <1>1, QuietAgrees DEF crawlVars
<1>2. CASE Poll BY <1>2, PollAgrees
<1>3. CASE List BY <1>0, <1>3, QuietAgrees DEF List
<1>4. ASSUME NEW j \in JobIds, Notify(j) PROVE CrawlAgreed' BY <1>4, NotifyAgrees
<1>5. ASSUME NEW j \in JobIds, Reconcile(j) PROVE CrawlAgreed' BY <1>5, ReconcileAgrees
<1>6. ASSUME NEW r \in RemoteIds, NEW outcome \in bound.outcomes, RemoteEnds(r, outcome)
      PROVE  CrawlAgreed'
  BY <1>6, BoundsAreSound, RemoteEndsAgrees DEF CrawlSound
<1>7. ASSUME NEW w \in Workers, Take(w) PROVE CrawlAgreed' BY <1>7, TakeAgrees
<1>8. ASSUME NEW w \in Workers, Crash(w) PROVE CrawlAgreed' BY <1>8, CrashAgrees
<1>9. ASSUME NEW w \in Workers, WorkerStep(w) PROVE CrawlAgreed'
  <2>1. CASE Input(w) BY <2>1, InputAgrees
  <2>2. CASE Post(w) BY <2>2, PostAgrees
  <2>3. CASE Record(w) BY <2>3, RecordAgrees
  <2>4. CASE RefuseDispatch(w) BY <2>4, RefuseDispatchAgrees
  <2>5. CASE Read(w) BY <2>5, ReadAgrees
  <2>6. CASE MarkIngesting(w) BY <2>6, MarkIngestingAgrees
  <2>7. CASE GetResult(w) BY <2>7, GetResultAgrees
  <2>8. CASE Complete(w) BY <2>8, CompleteAgrees
  <2>9. CASE Fail(w) BY <2>9, FailAgrees
  <2>10. CASE Delete(w) BY <2>10, DeleteAgrees
  <2>11. CASE Acknowledge(w) BY <2>11, AcknowledgeAgrees
  <2> QED BY <1>9, <2>1, <2>2, <2>3, <2>4, <2>5, <2>6, <2>7, <2>8, <2>9, <2>10, <2>11 DEF WorkerStep
<1> QED BY <1>1, <1>2, <1>3, <1>4, <1>5, <1>6, <1>7, <1>8, <1>9 DEF CrawlNext

\* With one worker that takes crawl messages, however many jobs, lost calls, crashes and
\* redeliveries there are: a result is stored once and for its job, its parent item agrees
\* with it, a remote job is removed only when its row has ended, and one that no row knows
\* costs a fault.
THEOREM JobsAlwaysAgree == OneWorker => (CrawlSpec => []JobsAgree)
<1> SUFFICES ASSUME OneWorker PROVE CrawlSpec => []JobsAgree OBVIOUS
<1>1. CrawlInit => CrawlSound /\ CrawlAgreed BY CrawlStartsSound, CrawlStartsAgreed
<1>2. CrawlSound /\ CrawlAgreed /\ [CrawlNext]_crawlVars => CrawlSound' /\ CrawlAgreed'
  BY CrawlSoundStays, CrawlAgreedStays
<1>3. CrawlSpec => [](CrawlSound /\ CrawlAgreed) BY <1>1, <1>2, PTL DEF CrawlSpec
<1> QED BY <1>3, AgreedIsChecked, PTL
================================================================================
