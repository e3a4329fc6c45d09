----------------------------- MODULE RoutingProofs -----------------------------
(***************************************************************************)
(* Proofs about where the content of the sites is found: the names that    *)
(* lead to a site (RoutingSync, for any sites, names, calls, workers and   *)
(* numbers of attempts, deliveries and faults) and the paths that lead to  *)
(* a page of it (UrlRegistry, for any editions, paths, records and         *)
(* renaming transactions).  The two components share no state, and each    *)
(* part uses the definitions of its own one only.                          *)
(***************************************************************************)
EXTENDS RoutingSync, UrlRegistry, TLAPS, SequenceTheorems, FiniteSetTheorems,
        NaturalsInduction, WellFoundedInduction

(***************************************************************************)
(* RoutingSync: the inductive invariant.                                   *)
(***************************************************************************)
SiteRows == [active: BOOLEAN, name: Domains, released: BOOLEAN]
JobRows == [kind: JobKinds, site: Sites, name: Domains, state: JobStates, tries: 0..RetryLimit]
CallRows == [step: {"idle", "write", "commit"}, site: Sites,
             seen: BOOLEAN, to: BOOLEAN, sent: BOOLEAN, waited: BOOLEAN]
Duties == [step: Steps, job: Nat, attempt: 1..MaxAttempts, listing: Listings, fresh: BOOLEAN]

BoundsTyped ==
  /\ plot \in Plots
  /\ used \in [changes: 0..plot.changes, renames: 0..plot.renames, publishes: 0..plot.publishes,
               rollbacks: 0..plot.rollbacks, faults: 0..plot.faults]
\* A request that changes a status has queued a job when it commits, or found one waiting.
StoreTyped ==
  /\ site \in [Sites -> SiteRows]
  /\ live \in Listings /\ previous \in Listings /\ routes \in Listings
  /\ behind \subseteq Sites
  /\ call \in [Calls -> CallRows]
  /\ \A c \in Calls : call[c].step = "commit"
                        => call[c].sent \/ call[c].waited \/ call[c].seen = call[c].to

\* A worker has a job until it lets it go, one of the kind its steps are for; before it
\* replaces the manifest it has seen all sites of its list served.
Duty(w) ==
  /\ At(w, "idle") <=> worker[w].job = NoJob
  /\ worker[w].job # NoJob => /\ worker[w].job \in Rows /\ JobOf(w).state = "active"
                              /\ w \in plot.workers
  /\ worker[w].step \in {"publish", "register"} => JobOf(w).kind = "publish"
  /\ At(w, "rollback") => JobOf(w).kind = "rollback"
  /\ worker[w].step \in {"list", "check", "head", "swap"} => Reads(JobOf(w).kind)
  /\ worker[w].step \in {"head", "swap"} => Served(worker[w].listing)
Held ==
  /\ job \in Seq(JobRows)
  /\ worker \in [Workers -> Duties]
  /\ \A w \in Workers : Duty(w)
  /\ \A v, w \in Workers : worker[v].job = worker[w].job /\ worker[v].job # NoJob => v = w
  /\ \A i \in Rows : /\ job[i].state = "active" => \E w \in Workers : worker[w].job = i
                     /\ job[i].kind = "rollback" => job[i].name # NoName

\* Every job, and every open request, has used a part of the bounds.
Busy == {c \in Calls : ~NoCall(c)}
Room == Len(job) + Cardinality(Busy) <= used.changes + used.publishes + used.rollbacks

Sound == BoundsTyped /\ StoreTyped /\ Held

\* With one worker: a site that is not behind will be read, or its job gave up, or what the
\* worker has read, or has replaced the manifest with, is what the list says.
Carries(w) == worker[w].step \in {"check", "head", "swap"}
GaveUp == \E i \in Rows : job[i].state = "gave up"
Told(s) ==
  \/ s \in behind \/ Upcoming(job) \/ GaveUp
  \/ \E w \in Workers : Carries(w) /\ worker[w].listing[s] = Listing[s]
  \/ (\A w \in Workers : ~Carries(w)) /\ routes[s] = Listing[s]
AllTold == Cardinality(plot.workers) = 1 => \A s \in Sites : Told(s)

IInv == Sound /\ Room /\ AllTold

LEMMA FirstIsName == "first" \in Domains /\ NoName \in Domains /\ Unrouted \in Listings
  BY RoutingSyncAssumption DEF RoutingSyncAssumption, Domains, Listings, Unrouted

LEMMA NoWorkTyped ==
  /\ NoWork \in Duties /\ NoWork.step = "idle" /\ NoWork.job = NoJob
<1>1. 1 \in 1..MaxAttempts
  BY RoutingSyncAssumption DEF RoutingSyncAssumption
<1> QED BY <1>1, FirstIsName DEF NoWork, Duties, Steps, NoJob

LEMMA InitSound == Init => Sound
<1> SUFFICES ASSUME Init PROVE Sound
  OBVIOUS
<1>1. PICK released \in SUBSET Sites, lost \in SUBSET Sites :
       /\ site = [s \in Sites |-> [active |-> TRUE, name |-> "first", released |-> s \in released]]
       /\ live = [s \in Sites |-> IF s \in released \ lost THEN "first" ELSE NoName]
       /\ routes = [s \in Sites |-> IF s \in released THEN "first" ELSE NoName]
  BY DEF Init
<1>2. BoundsTyped
  <2>1. plot \in Plots /\ used = [changes |-> 0, renames |-> 0, publishes |-> 0, rollbacks |-> 0, faults |-> 0]
    BY DEF Init
  <2>2. /\ 0 \in 0..plot.changes /\ 0 \in 0..plot.renames /\ 0 \in 0..plot.publishes
        /\ 0 \in 0..plot.rollbacks /\ 0 \in 0..plot.faults
    BY <2>1, RoutingSyncAssumption DEF RoutingSyncAssumption
  <2> QED BY <2>1, <2>2 DEF BoundsTyped
<1>3. StoreTyped
  <2>1. site \in [Sites -> SiteRows] /\ live \in Listings /\ routes \in Listings
    BY <1>1, FirstIsName DEF SiteRows, Listings
  <2>2. (CHOOSE s \in Sites : TRUE) \in Sites
    BY RoutingSyncAssumption DEF RoutingSyncAssumption
  <2>3. call \in [Calls -> CallRows] /\ \A c \in Calls : call[c].step = "idle"
    BY <2>2 DEF Init, CallRows
  <2> QED BY <2>1, <2>3, FirstIsName DEF Init, StoreTyped
<1>4. Held
  <2>1. job = <<>> /\ worker = [w \in Workers |-> NoWork]
    BY DEF Init
  <2>2. job \in Seq(JobRows) /\ Rows = {}
    BY <2>1, EmptySeq DEF Rows
  <2>3. \A w \in Workers : worker[w].step = "idle" /\ worker[w].job = NoJob
    BY <2>1, NoWorkTyped
  <2> QED BY <2>1, <2>2, <2>3, NoWorkTyped DEF Held, Duty, At
<1> QED BY <1>2, <1>3, <1>4 DEF Sound

LEMMA InitRoom == Init => Room
<1> SUFFICES ASSUME Init PROVE Room
  OBVIOUS
<1>1. Busy = {} /\ Len(job) = 0
  BY EmptySeq DEF Init, Busy, NoCall
<1> QED BY <1>1, FS_EmptySet DEF Init, Room

LEMMA InitTold == Init => AllTold
<1> SUFFICES ASSUME Init, NEW s \in Sites PROVE Told(s)
  BY DEF AllTold
<1>1. routes[s] = Listing[s]
  <2>1. PICK released \in SUBSET Sites :
         /\ site = [q \in Sites |-> [active |-> TRUE, name |-> "first", released |-> q \in released]]
         /\ routes = [q \in Sites |-> IF q \in released THEN "first" ELSE NoName]
    BY DEF Init
  <2>2. site[s].active /\ site[s].name = "first" /\ (site[s].released <=> s \in released)
    BY <2>1
  <2> QED BY <2>1, <2>2 DEF Listing
<1>2. \A w \in Workers : ~Carries(w)
  BY NoWorkTyped DEF Init, Carries
<1> QED BY <1>1, <1>2 DEF Told

(***************************************************************************)
(* Bounds, rows and duties.                                                *)
(***************************************************************************)
LEMMA BoundsNat ==
  ASSUME BoundsTyped
  PROVE  /\ plot.changes \in Nat /\ plot.renames \in Nat /\ plot.publishes \in Nat
         /\ plot.rollbacks \in Nat /\ plot.faults \in Nat
         /\ used.changes \in 0..plot.changes /\ used.renames \in 0..plot.renames
         /\ used.publishes \in 0..plot.publishes /\ used.rollbacks \in 0..plot.rollbacks
         /\ used.faults \in 0..plot.faults
  BY RoutingSyncAssumption DEF RoutingSyncAssumption, BoundsTyped

Share == used.changes + used.publishes + used.rollbacks
LEMMA UseTyped ==
  ASSUME BoundsTyped, UNCHANGED plot,
         NEW k \in {"changes", "renames", "publishes", "rollbacks", "faults"}, Use(k)
  PROVE  /\ BoundsTyped' /\ Share \in Nat
         /\ Share' = IF k \in {"changes", "publishes", "rollbacks"} THEN Share + 1 ELSE Share
<1>1. used' = [used EXCEPT ![k] = used[k] + 1] /\ used[k] < plot[k]
  BY DEF Use
<1>2. used \in [changes: 0..plot.changes, renames: 0..plot.renames, publishes: 0..plot.publishes,
               rollbacks: 0..plot.rollbacks, faults: 0..plot.faults]
  BY DEF BoundsTyped
<1>3. CASE k = "changes"
  BY <1>1, <1>2, <1>3, BoundsNat DEF BoundsTyped, Share
<1>4. CASE k = "renames"
  BY <1>1, <1>2, <1>4, BoundsNat DEF BoundsTyped, Share
<1>5. CASE k = "publishes"
  BY <1>1, <1>2, <1>5, BoundsNat DEF BoundsTyped, Share
<1>6. CASE k = "rollbacks"
  BY <1>1, <1>2, <1>6, BoundsNat DEF BoundsTyped, Share
<1>7. CASE k = "faults"
  BY <1>1, <1>2, <1>7, BoundsNat DEF BoundsTyped, Share
<1> QED BY <1>3, <1>4, <1>5, <1>6, <1>7

LEMMA ListingTyped == StoreTyped => Listing \in Listings
  BY FirstIsName DEF StoreTyped, SiteRows, Listing, Listings

LEMMA RowsAre ==
  ASSUME Held
  PROVE  /\ Rows = 1..Len(job) /\ Len(job) \in Nat /\ NoJob \notin Rows
         /\ \A i \in Rows : i \in Nat /\ job[i] \in JobRows
<1>1. Rows = 1..Len(job) /\ Len(job) \in Nat
  BY LenProperties DEF Held, Rows
<1>2. \A i \in Rows : job[i] \in JobRows
  BY <1>1, ElementOfSeq DEF Held
<1> QED BY <1>1, <1>2 DEF NoJob

\* A worker goes on with its job, takes a job or lets it go, and the row says so.
Moves(w, i, e, t) ==
  /\ job' = [job EXCEPT ![i] = e]
  /\ e.kind = job[i].kind /\ (e.kind = "rollback" => e.name # NoName)
  /\ worker' \in [Workers -> Duties] /\ worker'[w] = t
  /\ \A v \in Workers : v # w => /\ worker'[v].job = worker[v].job
                                 /\ worker'[v].step = worker[v].step
                                 /\ worker'[v].listing = worker[v].listing
                                 /\ worker[v].job # i
  /\ worker[w].job \in {NoJob, i}
  /\ \/ t.job = NoJob /\ t.step = "idle" /\ e.state # "active"
     \/ /\ t.job = i /\ t.step # "idle" /\ e.state = "active" /\ w \in plot.workers
        /\ t.step \in {"publish", "register"} => e.kind = "publish"
        /\ t.step = "rollback" => e.kind = "rollback"
        /\ t.step \in {"list", "check", "head", "swap"} => Reads(e.kind)
        /\ t.step \in {"head", "swap"} => \A s \in Sites : t.listing[s] # NoName => live'[s] # NoName

\* No site loses the release that is served.
LiveStays == \A s \in Sites : live[s] # NoName => live'[s] # NoName

LEMMA MovesRows ==
  ASSUME Held, NEW w \in Workers, NEW i \in Rows, NEW e \in JobRows, NEW t \in Duties,
         Moves(w, i, e, t)
  PROVE  /\ job' \in Seq(JobRows) /\ Rows' = Rows /\ Len(job') = Len(job) /\ job'[i] = e
         /\ \A k \in Rows : k # i => job'[k] = job[k]
<1>1. i \in 1..Len(job) /\ job \in Seq(JobRows) /\ job' = [job EXCEPT ![i] = e]
  BY RowsAre DEF Moves, Held
<1>2. /\ job' \in Seq(JobRows) /\ Len(job') = Len(job)
      /\ \A j \in 1..Len(job) : job'[j] = IF j = i THEN e ELSE job[j]
  BY <1>1, ExceptSeq
<1>3. Rows' = Rows
  BY <1>1 DEF Rows
<1> QED BY <1>1, <1>2, <1>3, RowsAre

LEMMA MovesHeld ==
  ASSUME Held, NEW w \in Workers, NEW i \in Rows, NEW e \in JobRows, NEW t \in Duties,
         Moves(w, i, e, t), UNCHANGED plot, LiveStays
  PROVE  Held'
<1>r. /\ job' \in Seq(JobRows) /\ Rows' = Rows /\ job'[i] = e /\ i # NoJob
      /\ \A k \in Rows : k # i => job'[k] = job[k]
  BY MovesRows, RowsAre
<1>w. worker' \in [Workers -> Duties] /\ worker'[w] = t
  BY DEF Moves
<1>v. \A v \in Workers : v # w => /\ worker'[v].job = worker[v].job
                                  /\ worker'[v].step = worker[v].step
                                  /\ worker'[v].listing = worker[v].listing
                                  /\ worker[v].job # i
  BY DEF Moves
<1>1. ASSUME NEW v \in Workers, v # w PROVE Duty(v)'
  <2>1. /\ worker'[v].job = worker[v].job /\ worker'[v].step = worker[v].step
        /\ worker'[v].listing = worker[v].listing /\ worker[v].job # i /\ Duty(v)
    BY <1>v, <1>1 DEF Held
  <2>2. worker[v].job # NoJob => worker[v].job \in Rows /\ job'[worker[v].job] = job[worker[v].job]
    BY <1>r, <2>1 DEF Duty
  <2>3. worker[v].step # "idle" => worker[v].job # NoJob
    BY <2>1 DEF Duty, At
  <2>4. worker[v].step \in {"head", "swap"} => Served(worker[v].listing)'
    <3>1. worker[v].step \in {"head", "swap"}
            => \A s \in Sites : worker[v].listing[s] # NoName => live[s] # NoName
      BY <2>1 DEF Duty, Served, Listed
    <3> QED BY <2>1, <3>1 DEF LiveStays, Served, Listed
  <2> QED BY <1>r, <2>1, <2>2, <2>3, <2>4 DEF Duty, At, JobOf
<1>2. Duty(w)'
  <2>1. CASE t.job = NoJob /\ t.step = "idle"
    BY <1>w, <2>1 DEF Duty, At
  <2>2. CASE ~(t.job = NoJob /\ t.step = "idle")
    <3>1. /\ t.job = i /\ t.step # "idle" /\ e.state = "active" /\ w \in plot.workers
          /\ t.step \in {"publish", "register"} => e.kind = "publish"
          /\ t.step = "rollback" => e.kind = "rollback"
          /\ t.step \in {"list", "check", "head", "swap"} => Reads(e.kind)
          /\ t.step \in {"head", "swap"} => \A s \in Sites : t.listing[s] # NoName => live'[s] # NoName
      BY <2>2 DEF Moves
    <3>2. t.step \in {"head", "swap"} => Served(worker[w].listing)'
      BY <1>w, <3>1 DEF Served, Listed
    <3> QED BY <1>r, <1>w, <3>1, <3>2 DEF Duty, At, JobOf
  <2> QED BY <2>1, <2>2
<1>3. t.job \in {NoJob, i} /\ (t.job = i <=> e.state = "active")
  BY <1>r DEF Moves
<1>4. \A v, q \in Workers : worker'[v].job = worker'[q].job /\ worker'[v].job # NoJob => v = q
  BY <1>w, <1>v, <1>3 DEF Held
<1>5. ASSUME NEW k \in Rows
      PROVE  /\ job'[k].state = "active" => \E v \in Workers : worker'[v].job = k
             /\ job'[k].kind = "rollback" => job'[k].name # NoName
  <2>1. CASE k = i
    BY <1>r, <1>w, <1>3, <2>1 DEF Moves
  <2>2. CASE k # i
    <3>1. job[k].kind = "rollback" => job[k].name # NoName
      BY DEF Held
    <3>2. ASSUME job[k].state = "active" PROVE \E v \in Workers : worker'[v].job = k
      <4>1. PICK v \in Workers : worker[v].job = k
        BY <3>2 DEF Held
      <4>2. v # w
        BY <2>2, <4>1, RowsAre DEF Moves
      <4> QED BY <1>v, <4>1, <4>2
    <3> QED BY <1>r, <2>2, <3>1, <3>2
  <2> QED BY <2>1, <2>2
<1> QED BY <1>r, <1>w, <1>1, <1>2, <1>4, <1>5 DEF Held

\* A worker that has a job is the only one that has it.
LEMMA OwnJob ==
  ASSUME Held, NEW w \in Workers, ~At(w, "idle")
  PROVE  /\ worker[w].job \in Rows /\ JobOf(w) \in JobRows /\ JobOf(w).state = "active"
         /\ w \in plot.workers
         /\ worker \in [Workers -> Duties] /\ worker[w] \in Duties
         /\ JobOf(w).kind = "rollback" => JobOf(w).name # NoName
         /\ \A v \in Workers : v # w => worker[v].job # worker[w].job
  BY RowsAre DEF Held, Duty, JobOf

\* What Redeliver and Throws come to: the row waits, gave up, or the worker begins again.
LetsGo(w) == Throws(w) \/ FailsForGood(w) \/ (Redeliver(worker[w].job) /\ Rest(w))
LEMMA LetsGoIs ==
  ASSUME Held, NEW w \in Workers, ~At(w, "idle"), LetsGo(w)
  PROVE  \E e \in JobRows, t \in Duties :
           /\ Moves(w, worker[w].job, e, t)
           /\ \/ e.state \in {"retry", "gave up"}
              \/ t.step = FirstStep(e.kind)
<1> DEFINE i == worker[w].job
<1>1. /\ i \in Rows /\ job[i] \in JobRows /\ job[i].state = "active" /\ w \in plot.workers
      /\ worker \in [Workers -> Duties] /\ worker[w] \in Duties /\ i \in Nat /\ i # NoJob
      /\ job[i].kind = "rollback" => job[i].name # NoName
      /\ \A v \in Workers : v # w => worker[v].job # i
  BY OwnJob, RowsAre DEF JobOf
<1>2. ASSUME NEW e \in JobRows, job' = [job EXCEPT ![i] = e], e.kind = job[i].kind, e.name = job[i].name,
             e.state \in {"retry", "gave up"}, Rest(w)
      PROVE  \E f \in JobRows, t \in Duties :
               Moves(w, i, f, t) /\ (f.state \in {"retry", "gave up"} \/ t.step = FirstStep(f.kind))
  <2>1. Moves(w, i, e, NoWork)
    BY <1>1, <1>2, NoWorkTyped DEF Moves, Rest
  <2> QED BY <1>2, <2>1, NoWorkTyped
<1>3. CASE Redeliver(i) /\ Rest(w)
  <2> DEFINE e == [job[i] EXCEPT !.state = IF job[i].tries < RetryLimit THEN "retry" ELSE "gave up",
                                 !.tries = IF job[i].tries < RetryLimit THEN @ + 1 ELSE @]
  <2>1. job' = [job EXCEPT ![i] = e]
    BY <1>3 DEF Redeliver
  <2>2. e \in JobRows /\ e.kind = job[i].kind /\ e.name = job[i].name /\ e.state \in {"retry", "gave up"}
    <3> DEFINE state == IF job[i].tries < RetryLimit THEN "retry" ELSE "gave up"
               tries == IF job[i].tries < RetryLimit THEN job[i].tries + 1 ELSE job[i].tries
    <3>1. state \in {"retry", "gave up"} /\ state \in JobStates
      BY DEF JobStates
    <3>2. tries \in 0..RetryLimit
      BY <1>1, RoutingSyncAssumption DEF RoutingSyncAssumption, JobRows
    <3>3. e = [job[i] EXCEPT !.state = state, !.tries = tries]
      OBVIOUS
    <3> HIDE DEF state, tries
    <3> QED BY <1>1, <3>1, <3>2, <3>3 DEF JobRows
  <2> HIDE DEF e
  <2> QED BY <1>2, <1>3, <2>1, <2>2
<1>4. CASE SetJob(i, "gave up") /\ Rest(w)
  <2> DEFINE e == [job[i] EXCEPT !.state = "gave up"]
  <2>1. job' = [job EXCEPT ![i] = e]
    BY <1>4 DEF SetJob
  <2>2. e \in JobRows /\ e.kind = job[i].kind /\ e.name = job[i].name /\ e.state \in {"retry", "gave up"}
    BY <1>1 DEF JobRows, JobStates
  <2> HIDE DEF e
  <2> QED BY <1>2, <1>4, <2>1, <2>2
<1>5. CASE /\ worker' = [worker EXCEPT ![w] = [NoWork EXCEPT !.step = FirstStep(job[i].kind),
                                                         !.job = i, !.attempt = worker[w].attempt + 1]]
           /\ worker[w].attempt # MaxAttempts /\ job[i].kind # "sync"
           /\ UNCHANGED job
  <2> DEFINE t == [NoWork EXCEPT !.step = FirstStep(job[i].kind), !.job = i,
                                 !.attempt = worker[w].attempt + 1]
  <2>1. job[i].kind \in {"publish", "rollback"} /\ FirstStep(job[i].kind) = job[i].kind
    BY <1>1, <1>5 DEF JobRows, JobKinds, FirstStep
  <2>2. worker[w].attempt + 1 \in 1..MaxAttempts
    BY <1>1, <1>5, RoutingSyncAssumption DEF RoutingSyncAssumption, Duties
  <2>3. job[i].kind \in Steps
    BY <2>1 DEF Steps
  <2>4. t \in Duties /\ t.step = job[i].kind /\ t.job = i
    BY <1>1, <2>1, <2>2, <2>3, NoWorkTyped DEF Duties
  <2>5. worker' = [worker EXCEPT ![w] = t]
    BY <1>5
  <2> HIDE DEF t
  <2>6. job' = [job EXCEPT ![i] = job[i]]
    BY <1>1, <1>5 DEF Held
  <2>7. Moves(w, i, job[i], t)
    BY <1>1, <2>1, <2>4, <2>5, <2>6 DEF Moves
  <2> QED BY <1>1, <2>1, <2>4, <2>7
<1> QED BY <1>3, <1>4, <1>5 DEF LetsGo, Throws, FailsForGood

(***************************************************************************)
(* Requests: a job at the end of the queue, or none.                       *)
(***************************************************************************)
LEMMA Added ==
  ASSUME Held, NEW e \in JobRows, e.state = "created", e.kind = "rollback" => e.name # NoName,
         job' = Append(job, e), UNCHANGED <<plot, worker, live>>
  PROVE  /\ Held' /\ Len(job') = Len(job) + 1 /\ Rows \subseteq Rows' /\ Len(job') \in Rows'
         /\ job'[Len(job')] = e /\ \A k \in Rows : job'[k] = job[k]
<1>1. /\ job' \in Seq(JobRows) /\ Len(job') = Len(job) + 1
      /\ \A k \in 1..Len(job) : job'[k] = job[k]
      /\ job'[Len(job) + 1] = e
  BY AppendProperties DEF Held
<1>2. Rows = 1..Len(job) /\ Len(job) \in Nat
  BY RowsAre
<1>3. Rows' = 1..Len(job')
  BY <1>1, LenProperties DEF Rows
<1>4. Rows \subseteq Rows' /\ \A k \in Rows' : k \in Rows \/ k = Len(job) + 1
  BY <1>1, <1>2, <1>3
<1>5. \A w \in Workers : Duty(w)'
  <2> SUFFICES ASSUME NEW w \in Workers PROVE Duty(w)'
    OBVIOUS
  <2>1. Duty(w)
    BY DEF Held
  <2>2. worker[w].job # NoJob => worker[w].job \in Rows /\ job'[worker[w].job] = job[worker[w].job]
    BY <1>1, <1>2, <2>1 DEF Duty
  <2> QED BY <1>4, <2>1, <2>2 DEF Duty, At, JobOf, Served, Listed
<1>6. \A k \in Rows' : /\ job'[k].state = "active" => \E w \in Workers : worker'[w].job = k
                       /\ job'[k].kind = "rollback" => job'[k].name # NoName
  BY <1>1, <1>2, <1>4 DEF Held
<1>7. Held'
  BY <1>1, <1>5, <1>6 DEF Held
<1> QED BY <1>1, <1>2, <1>3, <1>4, <1>7

LEMMA HeldUnchanged ==
  ASSUME Held, UNCHANGED <<plot, worker, live, job>>
  PROVE  Held'
  BY DEF Held, Duty, Rows, At, JobOf, Served, Listed

LEMMA RememberTyped ==
  ASSUME StoreTyped, NEW s \in Sites, NEW jobs, NEW excused, Remember(s, jobs, excused)
  PROVE  behind' \subseteq Sites
  BY DEF StoreTyped, Remember

LEMMA NewJobTyped ==
  ASSUME NEW kind \in JobKinds, NEW s \in Sites, NEW name \in Domains
  PROVE  /\ NewJob(kind, s, name) \in JobRows /\ NewJob(kind, s, name).state = "created"
         /\ NewJob(kind, s, name).kind = kind /\ NewJob(kind, s, name).name = name
<1>1. 0 \in 0..RetryLimit /\ "created" \in JobStates
  BY RoutingSyncAssumption DEF RoutingSyncAssumption, JobStates
<1> QED BY <1>1 DEF NewJob, JobRows

LEMMA ConsoleSound ==
  ASSUME Sound,
         \/ \E c \in Calls : \/ \E s \in Sites, to \in BOOLEAN : OpenUpdate(c, s, to)
                             \/ Answer(c) \/ AbortSite(c)
         \/ \E s \in Sites : \/ \E name \in Domains : UpdateDomain(s, name)
                             \/ RequestPublish(s) \/ RequestRollback(s)
  PROVE  Sound'
<1>t. BoundsTyped /\ StoreTyped /\ Held
  BY DEF Sound
<1>1. ASSUME NEW c \in Calls, NEW s \in Sites, NEW to \in BOOLEAN, OpenUpdate(c, s, to)
      PROVE  Sound'
  <2>1. BoundsTyped'
    BY <1>t, <1>1, UseTyped DEF OpenUpdate
  <2>2. Held'
    BY <1>t, <1>1, HeldUnchanged DEF OpenUpdate, remote
  <2>3. site[s].active \in BOOLEAN
    BY <1>t DEF StoreTyped, SiteRows
  <2>4. [step |-> "write", site |-> s, seen |-> site[s].active, to |-> to, sent |-> FALSE, waited |-> FALSE]
          \in CallRows
    BY <2>3 DEF CallRows
  <2>5. StoreTyped'
    BY <1>t, <1>1, <2>4 DEF OpenUpdate, remote, StoreTyped
  <2> QED BY <2>1, <2>2, <2>5 DEF Sound
<1>2. ASSUME NEW c \in Calls, WriteSite(c) PROVE Sound'
  <2>1. BoundsTyped' /\ Held'
    BY <1>t, <1>2, HeldUnchanged DEF WriteSite, remote, BoundsTyped
  <2>2. call \in [Calls -> CallRows] /\ call[c] \in CallRows
    BY <1>t DEF StoreTyped
  <2> DEFINE changes == call[c].to # call[c].seen
             entry == [call[c] EXCEPT !.step = "commit", !.sent = changes /\ ~Merges,
                                    !.waited = changes /\ SyncWaits]
  <2>3. call' = [call EXCEPT ![c] = entry]
    BY <1>2, <2>2 DEF WriteSite
  <2>4. entry \in CallRows /\ entry.sent = (changes /\ ~Merges) /\ entry.waited = (changes /\ SyncWaits)
        /\ entry.seen = call[c].seen /\ entry.to = call[c].to
    BY <2>2 DEF CallRows, Merges, SyncWaits
  <2>5. entry.sent \/ entry.waited \/ entry.seen = entry.to
    BY <2>4 DEF Merges
  <2> HIDE DEF entry
  <2>6. /\ call' \in [Calls -> CallRows] /\ call'[c] = entry
        /\ \A d \in Calls : d # c => call'[d] = call[d]
    BY <2>2, <2>3, <2>4
  <2>7. \A d \in Calls : call'[d].step = "commit"
                            => call'[d].sent \/ call'[d].waited \/ call'[d].seen = call'[d].to
    BY <1>t, <2>5, <2>6 DEF StoreTyped
  <2>8. StoreTyped'
    BY <1>t, <1>2, <2>6, <2>7 DEF WriteSite, remote, StoreTyped
  <2> QED BY <2>1, <2>8 DEF Sound
<1>i. ASSUME NEW c \in Calls, Close(c)
      PROVE  /\ call' \in [Calls -> CallRows]
             /\ \A d \in Calls : call'[d].step = "commit"
                                   => call'[d].sent \/ call'[d].waited \/ call'[d].seen = call'[d].to
  <2>1. call \in [Calls -> CallRows] /\ call[c] \in CallRows
    BY <1>t DEF StoreTyped
  <2>2. Idle(c) \in CallRows /\ Idle(c).step = "idle"
    BY <2>1 DEF Idle, CallRows
  <2> QED BY <1>t, <1>i, <2>1, <2>2 DEF Close, StoreTyped
<1>3. ASSUME NEW c \in Calls, CommitSite(c) PROVE Sound'
  <2> DEFINE s == call[c].site
             jobs == IF call[c].sent THEN Append(job, NewJob("sync", s, NoName)) ELSE job
  <2>1. call[c] \in CallRows /\ s \in Sites /\ call[c].to \in BOOLEAN
    BY <1>t DEF StoreTyped, CallRows
  <2>2. BoundsTyped' /\ UNCHANGED <<plot, worker, live, previous, routes>> /\ Close(c)
    BY <1>t, <1>3 DEF CommitSite, remote, BoundsTyped
  <2>3. NewJob("sync", s, NoName) \in JobRows /\ NewJob("sync", s, NoName).state = "created"
        /\ NewJob("sync", s, NoName).kind = "sync"
    BY <2>1, FirstIsName, NewJobTyped DEF JobKinds
  <2>4. Held'
    <3>1. CASE call[c].sent
      BY <1>t, <1>3, <2>2, <2>3, <3>1, Added DEF CommitSite
    <3>2. CASE ~call[c].sent
      BY <1>t, <1>3, <2>2, <3>2, HeldUnchanged DEF CommitSite
    <3> QED BY <3>1, <3>2
  <2>5. site' \in [Sites -> SiteRows]
    BY <1>t, <1>3, <2>1 DEF CommitSite, StoreTyped, SiteRows
  <2>6. behind' \subseteq Sites
    BY <1>t, <1>3, <2>1, RememberTyped DEF CommitSite
  <2>7. StoreTyped'
    BY <1>t, <1>i, <2>2, <2>5, <2>6 DEF StoreTyped
  <2> QED BY <2>2, <2>4, <2>7 DEF Sound
<1>4. ASSUME NEW c \in Calls, AbortSite(c) PROVE Sound'
  <2>1. BoundsTyped'
    BY <1>t, <1>4, UseTyped DEF AbortSite
  <2>2. Held'
    BY <1>t, <1>4, HeldUnchanged DEF AbortSite, remote
  <2>3. StoreTyped'
    BY <1>t, <1>4, <1>i DEF AbortSite, remote, StoreTyped
  <2> QED BY <2>1, <2>2, <2>3 DEF Sound
<1>5. ASSUME NEW s \in Sites, NEW name \in Domains, UpdateDomain(s, name) PROVE Sound'
  <2>1. BoundsTyped'
    BY <1>t, <1>5, UseTyped DEF UpdateDomain
  <2>2. Held'
    BY <1>t, <1>5, HeldUnchanged DEF UpdateDomain, remote
  <2>3. site' \in [Sites -> SiteRows]
    BY <1>t, <1>5 DEF UpdateDomain, StoreTyped, SiteRows
  <2>4. behind' \subseteq Sites
    BY <1>t, <1>5, RememberTyped DEF UpdateDomain
  <2>5. StoreTyped'
    BY <1>t, <1>5, <2>3, <2>4 DEF UpdateDomain, remote, StoreTyped
  <2> QED BY <2>1, <2>2, <2>5 DEF Sound
<1>6. ASSUME NEW s \in Sites, RequestPublish(s) \/ RequestRollback(s) PROVE Sound'
  <2>1. BoundsTyped'
    BY <1>t, <1>6, UseTyped DEF RequestPublish, RequestRollback
  <2>2. previous[s] \in Domains /\ "publish" \in JobKinds /\ "rollback" \in JobKinds
    BY <1>t DEF StoreTyped, Listings, JobKinds
  <2>3. CASE RequestPublish(s)
    <3>1. /\ NewJob("publish", s, NoName) \in JobRows /\ NewJob("publish", s, NoName).state = "created"
          /\ NewJob("publish", s, NoName).kind = "publish"
      BY <2>2, FirstIsName, NewJobTyped
    <3>2. Held'
      BY <1>t, <2>3, <3>1, Added DEF RequestPublish, remote
    <3>3. StoreTyped'
      BY <1>t, <2>3 DEF RequestPublish, console, remote, StoreTyped
    <3> QED BY <2>1, <3>2, <3>3 DEF Sound
  <2>4. CASE RequestRollback(s)
    <3>1. /\ NewJob("rollback", s, previous[s]) \in JobRows
          /\ NewJob("rollback", s, previous[s]).state = "created"
          /\ NewJob("rollback", s, previous[s]).name = previous[s]
      BY <2>2, NewJobTyped
    <3>2. Held'
      BY <1>t, <2>4, <3>1, Added DEF RequestRollback, remote
    <3>3. StoreTyped'
      BY <1>t, <2>4 DEF RequestRollback, console, remote, StoreTyped
    <3> QED BY <2>1, <3>2, <3>3 DEF Sound
  <2> QED BY <1>6, <2>3, <2>4
<1> QED BY <1>1, <1>2, <1>3, <1>4, <1>5, <1>6 DEF Answer

(***************************************************************************)
(* The worker.                                                             *)
(***************************************************************************)
\* On to the next step of a job: the row is the same, or its name is set.
LEMMA GoesOn ==
  ASSUME Held, NEW w \in Workers, ~At(w, "idle"), NEW e \in JobRows, NEW t \in Duties,
         job' = [job EXCEPT ![worker[w].job] = e], e.kind = JobOf(w).kind, e.state = "active",
         e.kind = "rollback" => e.name # NoName,
         worker' = [worker EXCEPT ![w] = t], t.job = worker[w].job, t.step # "idle",
         t.step \in {"publish", "register"} => e.kind = "publish",
         t.step = "rollback" => e.kind = "rollback",
         t.step \in {"list", "check", "head", "swap"} => Reads(e.kind),
         t.step \in {"head", "swap"} => \A s \in Sites : t.listing[s] # NoName => live'[s] # NoName
  PROVE  Moves(w, worker[w].job, e, t)
  BY OwnJob DEF Moves, JobOf

LEMMA SameRow ==
  ASSUME Held, NEW w \in Workers, ~At(w, "idle"), UNCHANGED job
  PROVE  job' = [job EXCEPT ![worker[w].job] = JobOf(w)] /\ JobOf(w) \in JobRows
  BY OwnJob DEF Held, JobOf

\* The parts of the state that a step of a worker is allowed to change, by the step.
Moved(w) == \E i \in Rows, e \in JobRows, t \in Duties : Moves(w, i, e, t)
WriteTyped == BoundsTyped' /\ StoreTyped' /\ LiveStays /\ UNCHANGED plot

LEMMA SoundMoves ==
  ASSUME Sound, NEW w \in Workers, Moved(w), WriteTyped
  PROVE  Sound'
  BY MovesHeld DEF Sound, Moved, WriteTyped

LEMMA StoreUnchanged ==
  ASSUME Sound, UNCHANGED <<plot, console, remote, behind>>, BoundsTyped'
  PROVE  WriteTyped
  BY DEF Sound, WriteTyped, StoreTyped, LiveStays, console, remote

LEMMA TakeSound ==
  ASSUME Sound, NEW w \in Workers, NEW i \in Rows, Take(w, i)
  PROVE  /\ Sound'
         /\ \E e \in JobRows, t \in Duties : Moves(w, i, e, t) /\ t.step = FirstStep(e.kind)
<1>h. Held /\ BoundsTyped
  BY DEF Sound
<1> DEFINE e == [job[i] EXCEPT !.state = "active"]
           t == [NoWork EXCEPT !.step = FirstStep(job[i].kind), !.job = i]
<1>1. job[i] \in JobRows /\ i \in Nat /\ i # NoJob /\ "active" \in JobStates
  BY <1>h, RowsAre DEF JobStates
<1>2. e \in JobRows /\ e.kind = job[i].kind /\ e.name = job[i].name /\ e.state = "active"
  BY <1>1 DEF JobRows
<1>3. job[i].kind \in {"sync", "publish", "rollback"}
  BY <1>1 DEF JobRows, JobKinds
<1>4. FirstStep(job[i].kind) \in {"list", "publish", "rollback"} /\ FirstStep(job[i].kind) \in Steps
  BY <1>3 DEF FirstStep, Steps
<1>5. t \in Duties /\ t.job = i /\ t.step = FirstStep(job[i].kind)
  BY <1>1, <1>4, NoWorkTyped DEF Duties
<1>6. job' = [job EXCEPT ![i] = e] /\ worker' = [worker EXCEPT ![w] = t]
  BY DEF Take, SetJob
<1>7. job[i].state # "active" /\ \A v \in Workers : worker[v].job # i
  BY <1>h, <1>1 DEF Take, Held, Duty, JobOf
<1>8. worker[w].job = NoJob /\ w \in plot.workers /\ worker \in [Workers -> Duties]
      /\ (job[i].kind = "rollback" => job[i].name # NoName)
  BY <1>h DEF Take, Held, Duty
<1> HIDE DEF e, t
<1>9. t.step \in {"publish", "register"} => e.kind = "publish"
  BY <1>2, <1>3, <1>5 DEF FirstStep
<1>a. t.step = "rollback" => e.kind = "rollback"
  BY <1>2, <1>3, <1>5 DEF FirstStep
<1>b. /\ t.step \in {"list", "check", "head", "swap"} => Reads(e.kind)
      /\ t.step \notin {"head", "swap"} /\ t.step # "idle"
  BY <1>2, <1>3, <1>5 DEF FirstStep, Reads
<1>c. Moves(w, i, e, t)
  BY <1>2, <1>5, <1>6, <1>7, <1>8, <1>9, <1>a, <1>b DEF Moves
<1>d. WriteTyped
  BY <1>h, StoreUnchanged DEF Take, BoundsTyped
<1> QED BY <1>2, <1>5, <1>c, <1>d, SoundMoves DEF Moved

\* A worker that lets its job go writes nothing.
LEMMA LetsGoSound ==
  ASSUME Sound, NEW w \in Workers, ~At(w, "idle"), LetsGo(w),
         UNCHANGED <<plot, console, remote, behind>>, BoundsTyped'
  PROVE  Sound'
<1>1. Moved(w)
  <2>1. PICK e \in JobRows, t \in Duties : Moves(w, worker[w].job, e, t)
    BY LetsGoIs DEF Sound
  <2>2. worker[w].job \in Rows
    BY OwnJob DEF Sound
  <2> QED BY <2>1, <2>2 DEF Moved
<1> QED BY <1>1, StoreUnchanged, SoundMoves

LEMMA PublishSound ==
  ASSUME Sound, NEW w \in Workers, Publish(w)
  PROVE  Sound'
<1> DEFINE i == worker[w].job
           s == job[i].site
           name == site[s].name
<1>h. Held /\ BoundsTyped /\ StoreTyped /\ ~At(w, "idle")
  BY DEF Sound, Publish, At
<1>1. /\ i \in Rows /\ job[i] \in JobRows /\ job[i].state = "active" /\ job[i].kind = "publish"
      /\ s \in Sites /\ name \in Domains /\ worker \in [Workers -> Duties] /\ worker[w] \in Duties
  BY <1>h, OwnJob DEF JobOf, JobRows, StoreTyped, SiteRows, Held, Duty, Publish, At
<1>2. CASE Throws(w) /\ UNCHANGED <<live, previous>>
  <2>1. UNCHANGED <<plot, console, remote, behind>> /\ BoundsTyped'
    BY <1>h, <1>2 DEF Publish, remote, BoundsTyped
  <2> QED BY <1>h, <1>2, <2>1, LetsGoSound DEF LetsGo
<1>3. CASE /\ name # NoName
           /\ live' = [live EXCEPT ![s] = name]
           /\ previous' = IF job[i].name = NoName THEN [previous EXCEPT ![s] = live[s]] ELSE previous
           /\ job' = [job EXCEPT ![i].name = name]
           /\ GoTo(w, "register")
  <2> DEFINE e == [job[i] EXCEPT !.name = name]
             t == [worker[w] EXCEPT !.step = "register"]
  <2>1. e \in JobRows /\ e.kind = "publish" /\ e.state = "active"
    BY <1>1 DEF JobRows
  <2>2. "register" \in Steps
    BY DEF Steps
  <2>3. t \in Duties /\ t.job = i /\ t.step = "register"
    BY <1>1, <2>2 DEF Duties
  <2>4. job' = [job EXCEPT ![i] = e] /\ worker' = [worker EXCEPT ![w] = t]
    BY <1>3 DEF GoTo
  <2> HIDE DEF e, t
  <2>5. Moves(w, i, e, t)
    BY <1>h, <1>1, <2>1, <2>3, <2>4, GoesOn DEF JobOf
  <2>6. WriteTyped
    <3>1. live' \in Listings /\ LiveStays
      BY <1>h, <1>1, <1>3 DEF StoreTyped, Listings, LiveStays
    <3>2. previous' \in Listings
      BY <1>h, <1>1, <1>3 DEF StoreTyped, Listings
    <3> QED BY <1>h, <3>1, <3>2 DEF Publish, console, WriteTyped, StoreTyped, BoundsTyped
  <2> QED BY <1>1, <2>1, <2>3, <2>5, <2>6, SoundMoves DEF Moved
<1> QED BY <1>2, <1>3 DEF Publish

LEMMA RegisterSound ==
  ASSUME Sound, NEW w \in Workers, Register(w)
  PROVE  Sound'
<1> DEFINE s == JobOf(w).site
           t == [worker[w] EXCEPT !.step = "list"]
<1>h. Held /\ BoundsTyped /\ StoreTyped /\ ~At(w, "idle")
  BY DEF Sound, Register, At
<1>1. /\ worker[w].job \in Rows /\ JobOf(w) \in JobRows /\ JobOf(w).state = "active"
      /\ JobOf(w).kind = "publish" /\ s \in Sites /\ worker[w] \in Duties
  BY <1>h, OwnJob DEF JobRows, Held, Duty, Register, At
<1>2. "list" \in Steps /\ Reads(JobOf(w).kind)
  BY <1>1 DEF Steps, Reads
<1>3. t \in Duties /\ t.job = worker[w].job /\ t.step = "list"
  BY <1>1, <1>2 DEF Duties
<1>4. worker' = [worker EXCEPT ![w] = t] /\ job' = [job EXCEPT ![worker[w].job] = JobOf(w)]
  BY <1>h, SameRow DEF Register, GoTo
<1> HIDE DEF t
<1>5. Moves(w, worker[w].job, JobOf(w), t)
  BY <1>h, <1>1, <1>2, <1>3, <1>4, GoesOn
<1>6. WriteTyped
  <2>1. site' \in [Sites -> SiteRows]
    BY <1>h, <1>1 DEF Register, StoreTyped, SiteRows
  <2>2. behind' \subseteq Sites
    BY <1>h, <1>1, RememberTyped DEF Register
  <2> QED BY <1>h, <2>1, <2>2 DEF Register, remote, WriteTyped, StoreTyped, BoundsTyped, LiveStays
<1> QED BY <1>1, <1>3, <1>5, <1>6, SoundMoves DEF Moved

LEMMA RollbackSound ==
  ASSUME Sound, NEW w \in Workers, Rollback(w)
  PROVE  Sound'
<1> DEFINE s == JobOf(w).site
           t == [worker[w] EXCEPT !.step = "done"]
<1>h. Held /\ BoundsTyped /\ StoreTyped /\ ~At(w, "idle")
  BY DEF Sound, Rollback, At
<1>1. /\ worker[w].job \in Rows /\ JobOf(w) \in JobRows /\ JobOf(w).state = "active"
      /\ JobOf(w).name # NoName /\ JobOf(w).name \in Domains /\ s \in Sites /\ worker[w] \in Duties
      /\ (JobOf(w).kind = "rollback" => JobOf(w).name # NoName)
  BY <1>h, OwnJob DEF JobRows, Held, Duty, Rollback, At
<1>2. "done" \in Steps
  BY DEF Steps
<1>3. t \in Duties /\ t.job = worker[w].job /\ t.step = "done"
  BY <1>1, <1>2 DEF Duties
<1>4. worker' = [worker EXCEPT ![w] = t] /\ job' = [job EXCEPT ![worker[w].job] = JobOf(w)]
  BY <1>h, SameRow DEF Rollback, GoTo
<1> HIDE DEF t
<1>5. Moves(w, worker[w].job, JobOf(w), t)
  BY <1>h, <1>1, <1>3, <1>4, GoesOn
<1>6. WriteTyped
  <2>1. live' \in Listings /\ previous' \in Listings /\ LiveStays
    BY <1>h, <1>1, FirstIsName DEF Rollback, StoreTyped, Listings, LiveStays
  <2> QED BY <1>h, <2>1 DEF Rollback, console, WriteTyped, StoreTyped, BoundsTyped
<1> QED BY <1>1, <1>3, <1>5, <1>6, SoundMoves DEF Moved

\* A step that changes nothing but the worker, and goes on.
LEMMA StepSound ==
  ASSUME Sound, NEW w \in Workers, ~At(w, "idle"), NEW t \in Duties,
         worker' = [worker EXCEPT ![w] = t], t.job = worker[w].job, t.step # "idle",
         UNCHANGED <<plot, console, remote, job, behind, used>>,
         t.step \in {"check", "head", "swap"} => Reads(JobOf(w).kind),
         t.step \notin {"publish", "register", "rollback", "list"},
         t.step \in {"head", "swap"} => Served(t.listing)
  PROVE  Sound'
<1>h. Held /\ BoundsTyped
  BY DEF Sound
<1>1. /\ worker[w].job \in Rows /\ JobOf(w) \in JobRows /\ JobOf(w).state = "active"
      /\ (JobOf(w).kind = "rollback" => JobOf(w).name # NoName)
  BY <1>h, OwnJob
<1>2. job' = [job EXCEPT ![worker[w].job] = JobOf(w)]
  BY <1>h, SameRow
<1>3. t.step \in {"head", "swap"} => \A s \in Sites : t.listing[s] # NoName => live'[s] # NoName
  BY DEF Served, Listed, remote
<1>4. Moves(w, worker[w].job, JobOf(w), t)
  BY <1>h, <1>1, <1>2, <1>3, GoesOn
<1>5. WriteTyped
  BY <1>h, StoreUnchanged DEF BoundsTyped
<1> QED BY <1>1, <1>4, <1>5, SoundMoves DEF Moved

LEMMA StepsAre == {"check", "head", "swap", "done"} \subseteq Steps
  BY DEF Steps

LEMMA ReadListingSound ==
  ASSUME Sound, NEW w \in Workers, ReadListing(w)
  PROVE  Sound'
<1> DEFINE t == [worker[w] EXCEPT !.listing = Listing, !.step = "check"]
<1>1. /\ Held /\ StoreTyped /\ ~At(w, "idle") /\ worker[w] \in Duties /\ Reads(JobOf(w).kind)
  BY OwnJob DEF Sound, ReadListing, At, Held, Duty
<1>2. t \in Duties /\ t.job = worker[w].job /\ t.step = "check"
  BY <1>1, ListingTyped, StepsAre DEF Duties
<1>3. worker' = [worker EXCEPT ![w] = t]
  BY DEF ReadListing
<1> HIDE DEF t
<1> QED BY <1>1, <1>2, <1>3, StepSound DEF ReadListing

LEMMA CheckPointersSound ==
  ASSUME Sound, NEW w \in Workers, CheckPointers(w)
  PROVE  Sound'
<1> DEFINE t == [worker[w] EXCEPT !.step = "head"]
<1>1. Held /\ ~At(w, "idle") /\ worker[w] \in Duties /\ Reads(JobOf(w).kind)
  BY OwnJob DEF Sound, CheckPointers, At, Held, Duty
<1>2. t \in Duties /\ t.job = worker[w].job /\ t.step = "head" /\ t.listing = worker[w].listing
  BY <1>1, StepsAre DEF Duties
<1>3. CASE Served(worker[w].listing) /\ GoTo(w, "head") /\ UNCHANGED job
  <2>1. worker' = [worker EXCEPT ![w] = t]
    BY <1>3 DEF GoTo
  <2> HIDE DEF t
  <2> QED BY <1>1, <1>2, <1>3, <2>1, StepSound DEF CheckPointers
<1>4. CASE FailsForGood(w)
  BY <1>1, <1>4, LetsGoSound DEF CheckPointers, LetsGo, BoundsTyped, Sound
<1> QED BY <1>3, <1>4 DEF CheckPointers

LEMMA HeadPointerSound ==
  ASSUME Sound, NEW w \in Workers, HeadPointer(w)
  PROVE  Sound'
<1> DEFINE t == [worker[w] EXCEPT !.fresh = TRUE, !.step = "swap"]
<1>1. /\ Held /\ ~At(w, "idle") /\ worker[w] \in Duties /\ Reads(JobOf(w).kind)
      /\ Served(worker[w].listing)
  BY OwnJob DEF Sound, HeadPointer, At, Held, Duty
<1>2. t \in Duties /\ t.job = worker[w].job /\ t.step = "swap" /\ t.listing = worker[w].listing
  BY <1>1, StepsAre DEF Duties
<1>3. worker' = [worker EXCEPT ![w] = t]
  BY DEF HeadPointer
<1> HIDE DEF t
<1> QED BY <1>1, <1>2, <1>3, StepSound DEF HeadPointer

LEMMA SwapRoutingSound ==
  ASSUME Sound, NEW w \in Workers, SwapRouting(w)
  PROVE  Sound'
<1> DEFINE t == [worker[w] EXCEPT !.step = "done"]
<1>1. /\ Held /\ StoreTyped /\ BoundsTyped /\ ~At(w, "idle") /\ worker \in [Workers -> Duties]
      /\ worker[w] \in Duties /\ worker[w].job \in Rows /\ JobOf(w) \in JobRows
      /\ JobOf(w).state = "active" /\ Reads(JobOf(w).kind) /\ w \in plot.workers
      /\ \A v \in Workers : v # w => worker[v].job # worker[w].job
  BY OwnJob DEF Sound, SwapRouting, At, Held, Duty
<1>2. CASE Throws(w) /\ UNCHANGED <<routes, behind>>
  <2>1. UNCHANGED <<plot, console, remote, behind>> /\ BoundsTyped'
    BY <1>1, <1>2 DEF SwapRouting, remote, BoundsTyped
  <2> QED BY <1>1, <1>2, <2>1, LetsGoSound DEF LetsGo
<1>3. CASE /\ routes' = worker[w].listing
           /\ behind' = {s \in behind : worker[w].listing[s] # Listing[s]}
           /\ worker' = [v \in Workers |-> IF v = w THEN [worker[v] EXCEPT !.step = "done"]
                                           ELSE [worker[v] EXCEPT !.fresh = FALSE]]
           /\ UNCHANGED job
  <2>1. /\ t \in Duties /\ t.job = worker[w].job /\ t.step = "done"
    BY <1>1, StepsAre DEF Duties
  <2>2. job' = [job EXCEPT ![worker[w].job] = JobOf(w)]
    BY <1>1, <1>3, SameRow
  <2>3. \A v \in Workers : [worker[v] EXCEPT !.fresh = FALSE] \in Duties
    BY <1>1 DEF Duties
  <2>4. worker' \in [Workers -> Duties] /\ worker'[w] = t
    BY <1>3, <2>1, <2>3
  <2>5. ASSUME NEW v \in Workers, v # w
        PROVE  /\ worker'[v].job = worker[v].job /\ worker'[v].step = worker[v].step
               /\ worker'[v].listing = worker[v].listing
    <3>1. worker'[v] = [worker[v] EXCEPT !.fresh = FALSE] /\ worker[v] \in Duties
      BY <1>1, <1>3, <2>5
    <3> QED BY <3>1 DEF Duties
  <2> HIDE DEF t
  <2>6. JobOf(w).kind = "rollback" => JobOf(w).name # NoName
    BY <1>1 DEF Reads
  <2>7. JobOf(w).kind = job[worker[w].job].kind
    BY DEF JobOf
  <2>8. Moves(w, worker[w].job, JobOf(w), t)
    BY <1>1, <2>1, <2>2, <2>4, <2>5, <2>6, <2>7 DEF Moves
  <2>9. WriteTyped
    <3>1. routes' \in Listings /\ behind' \subseteq Sites
      BY <1>1, <1>3 DEF Duties, StoreTyped
    <3> QED BY <1>1, <3>1 DEF SwapRouting, console, WriteTyped, StoreTyped, BoundsTyped, LiveStays
  <2> QED BY <1>1, <2>1, <2>8, <2>9, SoundMoves DEF Moved
<1> QED BY <1>2, <1>3 DEF SwapRouting

LEMMA FinishSound ==
  ASSUME Sound, NEW w \in Workers, Finish(w)
  PROVE  Sound'
<1> DEFINE e == [JobOf(w) EXCEPT !.state = "completed"]
<1>1. /\ Held /\ BoundsTyped /\ ~At(w, "idle") /\ worker[w].job \in Rows /\ JobOf(w) \in JobRows
      /\ worker \in [Workers -> Duties] /\ (JobOf(w).kind = "rollback" => JobOf(w).name # NoName)
      /\ \A v \in Workers : v # w => worker[v].job # worker[w].job
  BY OwnJob DEF Sound, Finish, At
<1>2. e \in JobRows /\ e.state = "completed" /\ e.kind = JobOf(w).kind /\ e.name = JobOf(w).name
  BY <1>1 DEF JobRows, JobStates
<1>3. job' = [job EXCEPT ![worker[w].job] = e] /\ worker' = [worker EXCEPT ![w] = NoWork]
  BY DEF Finish, SetJob, Rest, JobOf
<1>4. JobOf(w).kind = job[worker[w].job].kind
  BY DEF JobOf
<1> HIDE DEF e
<1>5. Moves(w, worker[w].job, e, NoWork)
  BY <1>1, <1>2, <1>3, <1>4, NoWorkTyped DEF Moves
<1>6. WriteTyped
  BY <1>1, StoreUnchanged DEF Finish, BoundsTyped
<1> QED BY <1>1, <1>2, <1>5, <1>6, NoWorkTyped, SoundMoves DEF Moved

LEMMA FaultSound ==
  ASSUME Sound, NEW w \in Workers, Fault(w) \/ Crash(w)
  PROVE  Sound'
<1>1. BoundsTyped'
  BY UseTyped DEF Sound, Fault, Crash
<1> QED BY <1>1, LetsGoSound DEF Fault, Crash, LetsGo

LEMMA WorkSound ==
  ASSUME Sound, NEW w \in Workers, Work(w) \/ Fault(w) \/ Crash(w)
  PROVE  Sound'
  BY TakeSound, PublishSound, RegisterSound, RollbackSound, ReadListingSound, CheckPointersSound,
     HeadPointerSound, SwapRoutingSound, FinishSound, FaultSound DEF Work

LEMMA StepSoundAll == Sound /\ [Next]_vars => Sound'
<1>1. ASSUME Sound, UNCHANGED vars PROVE Sound'
  <2>1. UNCHANGED <<plot, worker, live, job, site, previous, routes, behind, call, used>>
    BY <1>1 DEF vars
  <2>2. Held' /\ BoundsTyped' /\ StoreTyped'
    BY <1>1, <2>1, HeldUnchanged DEF Sound, BoundsTyped, StoreTyped
  <2> QED BY <2>2 DEF Sound
<1> QED BY <1>1, WorkSound, ConsoleSound DEF Next

(***************************************************************************)
(* The length of the queue.                                                *)
(***************************************************************************)
LEMMA WorkRows ==
  ASSUME Sound, NEW w \in Workers, Work(w) \/ Fault(w) \/ Crash(w)
  PROVE  Len(job') = Len(job) /\ DOMAIN job' = DOMAIN job /\ UNCHANGED <<plot, call>>
<1>3. Throws(w) \/ FailsForGood(w) \/ Redeliver(worker[w].job) => DOMAIN job' = DOMAIN job
  BY DEF Throws, FailsForGood, SetJob, Redeliver
<1>4. (\E i \in Rows : Take(w, i))
        => DOMAIN job' = DOMAIN job
  BY DEF Take, SetJob
<1>5. (Publish(w) \/ Register(w) \/ Rollback(w))
        => DOMAIN job' = DOMAIN job
  BY <1>3 DEF Publish, Register, Rollback
<1>6. (ReadListing(w) \/ CheckPointers(w) \/ HeadPointer(w))
        => DOMAIN job' = DOMAIN job
  BY <1>3 DEF ReadListing, CheckPointers, HeadPointer
<1>7. (SwapRouting(w) \/ Finish(w))
        => DOMAIN job' = DOMAIN job
  BY <1>3 DEF SwapRouting, Finish, SetJob
<1>8. (Fault(w) \/ Crash(w))
        => DOMAIN job' = DOMAIN job
  BY <1>3 DEF Fault, Crash
<1>9. DOMAIN job' = DOMAIN job
  BY <1>4, <1>5, <1>6, <1>7, <1>8 DEF Work
<1>a. Held /\ Held'
  BY WorkSound DEF Sound
<1>b. 1..Len(job) = 1..Len(job') /\ Len(job) \in Nat /\ Len(job') \in Nat
  BY <1>9, <1>a, LenProperties DEF Held
<1>c. UNCHANGED <<plot, call>>
  BY DEF Work, Fault, Crash, Take, Publish, Register, Rollback, ReadListing, CheckPointers, HeadPointer,
         SwapRouting, Finish, console
<1> QED BY <1>9, <1>b, <1>c

LEMMA BusyFinite == IsFiniteSet(Busy) /\ Cardinality(Busy) \in Nat
<1>1. Busy \subseteq Calls /\ IsFiniteSet(Calls)
  BY RoutingSyncAssumption DEF RoutingSyncAssumption, Busy
<1> QED BY <1>1, FS_Subset, FS_CardinalityType

LEMMA Leaves ==
  ASSUME Sound, NEW c \in Calls, ~NoCall(c), Close(c)
  PROVE  Cardinality(Busy') = Cardinality(Busy) - 1 /\ Cardinality(Busy') \in Nat
<1>1. call' = [call EXCEPT ![c] = Idle(c)] /\ Idle(c).step = "idle" /\ call \in [Calls -> CallRows]
  BY DEF Close, Idle, Sound, StoreTyped, CallRows
<1>2. Busy' = Busy \ {c} /\ c \in Busy
  BY <1>1 DEF Busy, NoCall
<1> QED BY <1>2, BusyFinite, FS_RemoveElement, FS_CardinalityType

LEMMA RoomKept == Sound /\ Room /\ [Next]_vars => Room'
<1> SUFFICES ASSUME Sound, Room, [Next]_vars PROVE Room'
  OBVIOUS
<1>h. Held /\ StoreTyped /\ BoundsTyped
  BY DEF Sound
<1>n. Len(job) \in Nat /\ Cardinality(Busy) \in Nat /\ Share \in Nat
      /\ Len(job) + Cardinality(Busy) <= Share
  BY <1>h, RowsAre, BusyFinite, BoundsNat DEF Room, Share
<1>e. Share' = used'.changes + used'.publishes + used'.rollbacks
  BY DEF Share
<1>1. ASSUME NEW c \in Calls, NEW s \in Sites, NEW to \in BOOLEAN, OpenUpdate(c, s, to) PROVE Room'
  <2>1. Share' = Share + 1
    BY <1>h, <1>1, UseTyped DEF OpenUpdate
  <2>2. Busy' = Busy \cup {c} /\ c \notin Busy
    BY <1>h, <1>1 DEF OpenUpdate, Busy, NoCall, StoreTyped
  <2>3. Cardinality(Busy') = Cardinality(Busy) + 1
    BY <2>2, BusyFinite, FS_AddElement
  <2>4. Len(job') = Len(job)
    BY <1>1 DEF OpenUpdate
  <2> QED BY <1>n, <1>e, <2>1, <2>3, <2>4 DEF Room
<1>2. ASSUME NEW c \in Calls, WriteSite(c) PROVE Room'
  <2>1. \A d \in Calls : NoCall(d)' <=> NoCall(d)
    <3>1. call \in [Calls -> CallRows] /\ \A d \in Calls : d # c => call'[d] = call[d]
      BY <1>h, <1>2 DEF WriteSite, StoreTyped
    <3>2. call[c].step = "write" /\ call'[c].step = "commit"
      BY <1>2, <3>1 DEF WriteSite, CallRows
    <3> QED BY <3>1, <3>2 DEF NoCall
  <2>2. Busy' = Busy
    BY <2>1 DEF Busy
  <2> QED BY <1>2, <2>2 DEF WriteSite, Room
<1>3. ASSUME NEW c \in Calls, CommitSite(c) PROVE Room'
  <2> DEFINE e == NewJob("sync", call[c].site, NoName)
  <2>1. Cardinality(Busy') = Cardinality(Busy) - 1 /\ Cardinality(Busy') \in Nat /\ UNCHANGED used
    BY <1>3, Leaves DEF CommitSite, NoCall
  <2>2. call[c].site \in Sites
    BY <1>h DEF StoreTyped, CallRows
  <2>3. e \in JobRows
    BY <2>2, FirstIsName, NewJobTyped DEF JobKinds
  <2> HIDE DEF e
  <2>4. job' = job \/ job' = Append(job, e)
    BY <1>3 DEF CommitSite, e
  <2>5. Len(job') \in {Len(job), Len(job) + 1}
    BY <1>h, <2>3, <2>4, AppendProperties DEF Held
  <2> QED BY <1>n, <2>1, <2>5 DEF Room, Share
<1>4. ASSUME NEW c \in Calls, AbortSite(c) PROVE Room'
  <2>1. Cardinality(Busy') = Cardinality(Busy) - 1 /\ Cardinality(Busy') \in Nat
    BY <1>4, Leaves DEF AbortSite, NoCall
  <2>2. Share' = Share /\ Len(job') = Len(job)
    BY <1>h, <1>4, UseTyped DEF AbortSite
  <2> QED BY <1>n, <1>e, <2>1, <2>2 DEF Room
<1>5. ASSUME NEW s \in Sites, NEW name \in Domains, UpdateDomain(s, name) PROVE Room'
  <2>1. Share' = Share /\ UNCHANGED <<job, call>>
    BY <1>h, <1>5, UseTyped DEF UpdateDomain
  <2> QED BY <1>n, <1>e, <2>1 DEF Room, Busy, NoCall
<1>6. ASSUME NEW s \in Sites, RequestPublish(s) \/ RequestRollback(s) PROVE Room'
  <2>1. Share' = Share + 1 /\ UNCHANGED call
    BY <1>h, <1>6, UseTyped DEF RequestPublish, RequestRollback, console
  <2>2. PICK e \in JobRows : job' = Append(job, e)
    <3>1. previous[s] \in Domains /\ "publish" \in JobKinds /\ "rollback" \in JobKinds
      BY <1>h DEF StoreTyped, Listings, JobKinds
    <3>2. NewJob("publish", s, NoName) \in JobRows /\ NewJob("rollback", s, previous[s]) \in JobRows
      BY <3>1, FirstIsName, NewJobTyped
    <3> QED BY <1>6, <3>2 DEF RequestPublish, RequestRollback
  <2>3. Len(job') = Len(job) + 1
    BY <1>h, <2>2, AppendProperties DEF Held
  <2> QED BY <1>n, <1>e, <2>1, <2>3 DEF Room, Busy, NoCall
<1>7. ASSUME NEW w \in Workers, Work(w) \/ Fault(w) \/ Crash(w) PROVE Room'
  <2>1. Len(job') = Len(job) /\ UNCHANGED call
    BY <1>7, WorkRows
  <2>2. Share' = Share
    <3>1. CASE Fault(w) \/ Crash(w)
      <4>1. Use("faults") /\ UNCHANGED plot
        BY <3>1 DEF Fault, Crash
      <4> QED BY <1>h, <4>1, UseTyped
    <3>2. CASE Work(w)
      BY <3>2 DEF Work, Take, Publish, Register, Rollback, ReadListing, CheckPointers, HeadPointer,
                  SwapRouting, Finish, Share
    <3> QED BY <1>7, <3>1, <3>2
  <2> QED BY <1>n, <1>e, <2>1, <2>2 DEF Room, Busy, NoCall
<1>8. CASE UNCHANGED vars
  BY <1>8 DEF vars, Room, Busy, NoCall
<1> QED BY <1>1, <1>2, <1>3, <1>4, <1>5, <1>6, <1>7, <1>8 DEF Next, Answer

LEMMA Types == Sound /\ Room => TypeOK
<1> SUFFICES ASSUME Sound, Room PROVE TypeOK
  OBVIOUS
<1>h. Held /\ StoreTyped /\ BoundsTyped
  BY DEF Sound
<1>1. Len(job) <= MaxJobs
  <2>1. Len(job) \in Nat /\ Cardinality(Busy) \in Nat
    BY <1>h, RowsAre, BusyFinite
  <2>2. plot.changes + plot.publishes + plot.rollbacks <= MaxJobs /\ MaxJobs \in Nat
    BY <1>h, RoutingSyncAssumption DEF RoutingSyncAssumption, BoundsTyped
  <2>3. /\ used.changes \in Nat /\ used.publishes \in Nat /\ used.rollbacks \in Nat
        /\ used.changes <= plot.changes /\ used.publishes <= plot.publishes
        /\ used.rollbacks <= plot.rollbacks
        /\ plot.changes \in Nat /\ plot.publishes \in Nat /\ plot.rollbacks \in Nat
    BY <1>h, BoundsNat
  <2>4. Len(job) + Cardinality(Busy) <= used.changes + used.publishes + used.rollbacks
    BY DEF Room
  <2>5. used.changes + used.publishes + used.rollbacks <= MaxJobs
    <3>1. used.changes + used.publishes <= plot.changes + plot.publishes
      BY <2>3
    <3> QED BY <2>2, <2>3, <3>1
  <2>6. Len(job) <= used.changes + used.publishes + used.rollbacks
    BY <2>1, <2>3, <2>4
  <2> QED BY <2>1, <2>2, <2>3, <2>5, <2>6
<1>2. \A k \in DOMAIN used : used[k] \in 0..plot[k]
  <2>1. DOMAIN used = {"changes", "renames", "publishes", "rollbacks", "faults"}
    BY <1>h DEF BoundsTyped
  <2> QED BY <1>h, <2>1, BoundsNat
<1>3. worker \in [Workers -> [step: Steps, job: Rows \cup {NoJob}, attempt: 1..MaxAttempts,
                              listing: Listings, fresh: BOOLEAN]]
  <2>1. \A w \in Workers : worker[w].job \in Rows \cup {NoJob}
    BY <1>h DEF Held, Duty
  <2> QED BY <1>h, <2>1 DEF Held, Duties
<1>4. \A i \in Rows : (job[i].state = "active") <=> \E w \in Workers : worker[w].job = i
  BY <1>h, RowsAre DEF Held, Duty, JobOf
<1>5. \A i \in Rows : job[i] \in [kind: JobKinds, site: Sites, name: Domains,
                                 state: JobStates, tries: 0..RetryLimit]
  BY <1>h, RowsAre DEF JobRows
<1> QED BY <1>h, <1>1, <1>2, <1>3, <1>4, <1>5
        DEF TypeOK, StoreTyped, BoundsTyped, SiteRows, CallRows

\* Sites, jobs, requests and workers keep their types, and an active job has a worker.
THEOREM TypeCorrect == Spec => []TypeOK
  BY InitSound, InitRoom, StepSoundAll, RoomKept, Types, PTL DEF Spec

\* However operations, retries and crashes interleave, the routing pointer only moves to
\* a manifest all of whose sites have a release to serve.
THEOREM MovesToServed == Spec => RoutingMovesToServedSites
<1>1. ASSUME Sound, [Next]_vars, routes' # routes
      PROVE  \A s \in Sites : routes'[s] # NoName => live'[s] # NoName
  <2>1. PICK w \in Workers : SwapRouting(w)
    BY <1>1 DEF Next, vars, Answer, OpenUpdate, WriteSite, CommitSite, AbortSite, UpdateDomain,
                RequestPublish, RequestRollback, Work, Take, Publish, Register, Rollback, ReadListing,
                CheckPointers, HeadPointer, Finish, Fault, Crash, remote
  <2>2. routes' = worker[w].listing /\ live' = live /\ Served(worker[w].listing)
    BY <1>1, <2>1 DEF SwapRouting, Sound, Held, Duty, At
  <2> QED BY <2>2 DEF Served, Listed
<1>2. Sound /\ [Next]_vars
        => [routes' # routes => \A s \in Sites : routes'[s] # NoName => live'[s] # NoName]_vars
  BY <1>1
<1> QED BY InitSound, StepSoundAll, <1>2, PTL DEF Spec, RoutingMovesToServedSites

(***************************************************************************)
(* The list: with one worker, what it has read or is going to read.        *)
(***************************************************************************)
LEMMA OneWorker ==
  ASSUME Sound, Cardinality(plot.workers) = 1, NEW w \in plot.workers, NEW v \in Workers, v # w
  PROVE  At(v, "idle")
<1>1. IsFiniteSet(plot.workers)
  <2>1. plot.workers \subseteq Workers /\ IsFiniteSet(Workers)
    BY RoutingSyncAssumption DEF RoutingSyncAssumption, Sound, BoundsTyped
  <2> QED BY <2>1, FS_Subset
<1>2. PICK x : plot.workers = {x}
  BY <1>1, FS_Singleton
<1>3. v \notin plot.workers
  BY <1>2
<1> QED BY <1>3, OwnJob DEF Sound

LEMMA KeepsTold ==
  ASSUME NEW s \in Sites, Told(s), Listing'[s] = Listing[s], routes'[s] = routes[s],
         s \in behind => s \in behind', Upcoming(job) => Upcoming(job)', GaveUp => GaveUp',
         \A v \in Workers : /\ Carries(v)' <=> Carries(v)
                            /\ Carries(v) => worker'[v].listing = worker[v].listing
  PROVE  Told(s)'
  BY DEF Told

\* A change of the listing of s, remembered with the queue as it is then.
LEMMA Remembers ==
  ASSUME NEW s \in Sites, NEW jobs, NEW excused \in BOOLEAN, Remember(s, jobs, excused), job' = jobs,
         UNCHANGED <<worker, routes>>, \A q \in Sites : q # s => Listing'[q] = Listing[q],
         Upcoming(job) => Upcoming(job)', GaveUp => GaveUp', excused \/ Upcoming(job)',
         \A q \in Sites : Told(q)
  PROVE  \A q \in Sites : Told(q)'
<1> SUFFICES ASSUME NEW q \in Sites PROVE Told(q)'
  OBVIOUS
<1>1. Upcoming(job)' <=> Upcoming(jobs)
  BY DEF Upcoming
<1>2. \A v \in Workers : /\ Carries(v)' <=> Carries(v)
                         /\ Carries(v) => worker'[v].listing = worker[v].listing
  BY DEF Carries
<1>3. CASE Listing'[q] = Listing[q]
  <2>1. q \in behind => q \in behind'
    BY <1>3 DEF Remember
  <2> QED BY <1>2, <1>3, <2>1, KeepsTold
<1>4. CASE Listing'[q] # Listing[q]
  BY <1>1, <1>4 DEF Remember, Told
<1> QED BY <1>3, <1>4

LEMMA SiteListing ==
  ASSUME StoreTyped, NEW s \in Sites, NEW entry \in SiteRows, site' = [site EXCEPT ![s] = entry]
  PROVE  \A q \in Sites : q # s => Listing'[q] = Listing[q]
  BY DEF StoreTyped, Listing

LEMMA AddedTold ==
  ASSUME Held, Held', Rows \subseteq Rows', \A k \in Rows : job'[k] = job[k], UNCHANGED worker
  PROVE  (Upcoming(job) => Upcoming(job)') /\ (GaveUp => GaveUp')
  BY DEF Upcoming, GaveUp, Rows

LEMMA ConsoleTold ==
  ASSUME Sound, Sound', \A q \in Sites : Told(q),
         \/ \E c \in Calls : \/ \E s \in Sites, to \in BOOLEAN : OpenUpdate(c, s, to)
                             \/ Answer(c) \/ AbortSite(c)
         \/ \E s \in Sites : \/ \E name \in Domains : UpdateDomain(s, name)
                             \/ RequestPublish(s) \/ RequestRollback(s)
  PROVE  \A q \in Sites : Told(q)'
<1>h. Held /\ StoreTyped /\ Held'
  BY DEF Sound
<1>1. CASE UNCHANGED <<site, job, worker, routes, behind>>
  BY <1>1 DEF Told, Upcoming, GaveUp, Carries, Listing, Rows
<1>2. ASSUME NEW c \in Calls, CommitSite(c) PROVE \A q \in Sites : Told(q)'
  <2> DEFINE s == call[c].site
             jobs == IF call[c].sent THEN Append(job, NewJob("sync", s, NoName)) ELSE job
             excused == call[c].seen = call[c].to \/ call[c].waited
             entry == [site[s] EXCEPT !.active = call[c].to]
  <2>1. s \in Sites /\ call[c].to \in BOOLEAN /\ call[c].waited \in BOOLEAN
    BY <1>h DEF StoreTyped, CallRows
  <2>2. entry \in SiteRows
    BY <1>h, <2>1 DEF StoreTyped, SiteRows
  <2>3. site' = [site EXCEPT ![s] = entry] /\ job' = jobs /\ Remember(s, jobs, excused)
        /\ UNCHANGED <<worker, live, routes, plot>>
    BY <1>2 DEF CommitSite, remote
  <2>4. call[c].sent \/ excused
    BY <1>h, <1>2 DEF StoreTyped, CommitSite
  <2>5. /\ (Upcoming(job) => Upcoming(job)') /\ (GaveUp => GaveUp')
        /\ (call[c].sent => Upcoming(job)')
    <3>1. CASE call[c].sent
      <4>1. NewJob("sync", s, NoName) \in JobRows /\ NewJob("sync", s, NoName).state = "created"
            /\ NewJob("sync", s, NoName).kind = "sync"
        BY <2>1, FirstIsName, NewJobTyped DEF JobKinds
      <4>2. /\ Rows \subseteq Rows' /\ \A k \in Rows : job'[k] = job[k]
            /\ Len(job') \in Rows' /\ job'[Len(job')] = NewJob("sync", s, NoName)
        BY <1>h, <2>3, <3>1, <4>1, Added
      <4>3. Upcoming(job)'
        BY <4>1, <4>2 DEF Upcoming, Rows, Reads
      <4> QED BY <1>h, <2>3, <4>2, <4>3, AddedTold
    <3>2. CASE ~call[c].sent
      BY <2>3, <3>2 DEF Upcoming, GaveUp, Rows
    <3> QED BY <3>1, <3>2
  <2>6. \A q \in Sites : q # s => Listing'[q] = Listing[q]
    BY <1>h, <2>1, <2>2, <2>3, SiteListing
  <2>8. excused \/ Upcoming(job)'
    BY <2>4, <2>5
  <2>9. UNCHANGED <<worker, routes>>
    BY <2>3
  <2>a. PICK told \in BOOLEAN : Remember(s, jobs, told) /\ (told \/ Upcoming(job)')
    <3>1. CASE excused
      <4>1. Remember(s, jobs, TRUE)
        BY <2>3, <3>1 DEF Remember
      <4> QED BY <4>1
    <3>2. CASE ~excused
      <4>1. Remember(s, jobs, FALSE)
        BY <2>3, <3>2 DEF Remember
      <4> QED BY <2>8, <3>2, <4>1
    <3> QED BY <3>1, <3>2
  <2>b. /\ s \in Sites /\ Remember(s, jobs, told) /\ job' = jobs
        /\ \A q \in Sites : q # s => Listing'[q] = Listing[q]
        /\ (Upcoming(job) => Upcoming(job)') /\ (GaveUp => GaveUp') /\ (told \/ Upcoming(job)')
    BY <2>1, <2>3, <2>5, <2>6, <2>a
  <2> HIDE DEF s, jobs, excused, entry
  <2> QED BY <2>9, <2>b, Remembers
<1>3. ASSUME NEW s \in Sites, NEW name \in Domains, UpdateDomain(s, name)
      PROVE  \A q \in Sites : Told(q)'
  <2> DEFINE entry == [site[s] EXCEPT !.name = name]
  <2>1. entry \in SiteRows
    BY <1>h DEF StoreTyped, SiteRows
  <2>2. site' = [site EXCEPT ![s] = entry] /\ Remember(s, job, TRUE) /\ UNCHANGED <<job, worker, routes>>
    BY <1>3 DEF UpdateDomain, remote
  <2>3. \A q \in Sites : q # s => Listing'[q] = Listing[q]
    BY <1>h, <2>1, <2>2, SiteListing
  <2>4. (Upcoming(job) => Upcoming(job)') /\ (GaveUp => GaveUp')
    BY <2>2 DEF Upcoming, GaveUp, Rows
  <2> QED BY <2>2, <2>3, <2>4, Remembers
<1>4. ASSUME NEW s \in Sites, RequestPublish(s) \/ RequestRollback(s)
      PROVE  \A q \in Sites : Told(q)'
  <2>1. PICK e \in JobRows : /\ job' = Append(job, e) /\ e.state = "created"
                             /\ (e.kind = "rollback" => e.name # NoName)
    <3>1. previous[s] \in Domains /\ "publish" \in JobKinds /\ "rollback" \in JobKinds
      BY <1>h DEF StoreTyped, Listings, JobKinds
    <3>2. /\ NewJob("publish", s, NoName) \in JobRows /\ NewJob("publish", s, NoName).state = "created"
          /\ NewJob("publish", s, NoName).kind = "publish"
      BY <3>1, FirstIsName, NewJobTyped
    <3>3. /\ NewJob("rollback", s, previous[s]) \in JobRows
          /\ NewJob("rollback", s, previous[s]).state = "created"
          /\ NewJob("rollback", s, previous[s]).name = previous[s]
      BY <3>1, NewJobTyped
    <3> QED BY <1>4, <3>2, <3>3 DEF RequestPublish, RequestRollback
  <2>2. UNCHANGED <<plot, site, worker, live, routes, behind>>
    BY <1>4 DEF RequestPublish, RequestRollback, console, remote
  <2>3. Rows \subseteq Rows' /\ \A k \in Rows : job'[k] = job[k]
    BY <1>h, <2>1, <2>2, Added
  <2>4. (Upcoming(job) => Upcoming(job)') /\ (GaveUp => GaveUp')
    BY <1>h, <2>2, <2>3, AddedTold
  <2>5. Listing' = Listing
    BY <2>2 DEF Listing
  <2> QED BY <2>2, <2>4, <2>5, KeepsTold DEF Carries
<1> QED BY <1>1, <1>2, <1>3, <1>4 DEF Answer, OpenUpdate, WriteSite, AbortSite, remote

\* A step of the worker that neither reads the list nor replaces the manifest: no other
\* worker counts, and its job is not one that waits.
LEMMA StepTold ==
  ASSUME Sound, NEW w \in Workers, UNCHANGED <<site, routes, behind>>, Rows' = Rows,
         NEW i \in Rows, \A k \in Rows : k # i => job'[k] = job[k],
         ~(Reads(job[i].kind) /\ job[i].state \in {"created", "retry"}), job[i].state # "gave up",
         \A v \in Workers : v # w => worker'[v] = worker[v],
         worker[w].step \notin {"publish", "register", "list"},
         Carries(w)' <=> Carries(w), Carries(w) => worker'[w].listing = worker[w].listing,
         \A q \in Sites : Told(q)
  PROVE  \A q \in Sites : Told(q)'
<1>1. Upcoming(job) => Upcoming(job)'
  BY DEF Upcoming, Rows
<1>2. GaveUp => GaveUp'
  BY DEF GaveUp
<1>3. \A v \in Workers : /\ Carries(v)' <=> Carries(v)
                         /\ Carries(v) => worker'[v].listing = worker[v].listing
  BY DEF Carries
<1>4. Listing' = Listing
  BY DEF Listing
<1> QED BY <1>1, <1>2, <1>3, <1>4, KeepsTold

LEMMA SoonTold ==
  ASSUME NEW w \in Workers, worker'[w].step \in {"publish", "register", "list"}
  PROVE  \A q \in Sites : Told(q)'
  BY DEF Told, Upcoming

LEMMA LetsGoTold ==
  ASSUME Sound, NEW w \in Workers, ~At(w, "idle"), LetsGo(w), UNCHANGED <<site, routes, behind>>,
         \A q \in Sites : Told(q)
  PROVE  \A q \in Sites : Told(q)'
<1> DEFINE i == worker[w].job
<1>h. Held /\ i \in Rows /\ JobOf(w).state = "active" /\ JobOf(w) = job[i]
  BY OwnJob DEF Sound, JobOf
<1>1. PICK e \in JobRows, t \in Duties : Moves(w, i, e, t)
                                         /\ (e.state \in {"retry", "gave up"} \/ t.step = FirstStep(e.kind))
  BY <1>h, LetsGoIs
<1>2. /\ Rows' = Rows /\ job'[i] = e /\ e.kind = job[i].kind /\ worker'[w] = t
      /\ \A k \in Rows : k # i => job'[k] = job[k]
  <2>1. Rows' = Rows /\ job'[i] = e /\ \A k \in Rows : k # i => job'[k] = job[k]
    BY <1>h, <1>1, MovesRows
  <2>2. e.kind = job[i].kind /\ worker'[w] = t
    BY <1>1 DEF Moves
  <2> QED BY <2>1, <2>2
<1>3. CASE Reads(e.kind) /\ e.state \in {"retry", "gave up"}
  BY <1>h, <1>2, <1>3 DEF Told, Upcoming, GaveUp, Rows
<1>4. CASE Reads(e.kind) /\ t.step = FirstStep(e.kind)
  BY <1>2, <1>4, SoonTold DEF Reads, FirstStep
<1>5. CASE ~Reads(e.kind)
  <2>1. worker[w].step \notin {"publish", "register", "list", "check", "head", "swap"}
    BY <1>h, <1>2, <1>5 DEF Held, Duty, Reads
  <2>2. t.step \notin {"check", "head", "swap"}
    BY <1>1, <1>2, <1>5 DEF Moves
  <2>3. \A v \in Workers : v # w => /\ worker'[v].step = worker[v].step
                                    /\ worker'[v].listing = worker[v].listing
    BY <1>1 DEF Moves
  <2>4. \A v \in Workers : /\ Carries(v)' <=> Carries(v)
                           /\ Carries(v) => worker'[v].listing = worker[v].listing
    BY <1>2, <2>1, <2>2, <2>3 DEF Carries
  <2>5. Upcoming(job) => Upcoming(job)'
    BY <1>h, <1>2, <1>5, <2>1, <2>3 DEF Upcoming, Rows
  <2>6. GaveUp => GaveUp'
    BY <1>h, <1>2 DEF GaveUp
  <2>7. Listing' = Listing
    BY DEF Listing
  <2> QED BY <2>4, <2>5, <2>6, <2>7, KeepsTold
<1> QED BY <1>1, <1>3, <1>4, <1>5

LEMMA TakeTold ==
  ASSUME Sound, NEW w \in Workers, NEW i \in Rows, Take(w, i), \A q \in Sites : Told(q)
  PROVE  \A q \in Sites : Told(q)'
<1>1. PICK e \in JobRows, t \in Duties : Moves(w, i, e, t) /\ t.step = FirstStep(e.kind)
  BY TakeSound
<1>2. /\ Rows' = Rows /\ e.kind = job[i].kind /\ worker'[w] = t
      /\ \A k \in Rows : k # i => job'[k] = job[k]
  <2>1. Rows' = Rows /\ \A k \in Rows : k # i => job'[k] = job[k]
    BY <1>1, MovesRows DEF Sound
  <2>2. e.kind = job[i].kind /\ worker'[w] = t
    BY <1>1 DEF Moves
  <2> QED BY <2>1, <2>2
<1>3. e.kind \in {"sync", "publish", "rollback"}
  BY DEF JobRows, JobKinds
<1>4. CASE Reads(e.kind)
  BY <1>1, <1>2, <1>4, SoonTold DEF Reads, FirstStep
<1>5. CASE e.kind = "rollback"
  <2>1. t.step = "rollback" /\ worker[w].step = "idle"
    BY <1>1, <1>5 DEF FirstStep, Take, At
  <2>2. \A v \in Workers : v # w => worker'[v] = worker[v]
    BY DEF Take, Sound, Held
  <2>3. UNCHANGED <<site, routes, behind>>
    BY DEF Take, console, remote
  <2>4. ~Reads(job[i].kind) /\ job[i].state # "gave up"
    BY <1>2, <1>5 DEF Reads, Take
  <2> QED BY <1>2, <2>1, <2>2, <2>3, <2>4, StepTold DEF Carries
<1> QED BY <1>3, <1>4, <1>5 DEF Reads

LEMMA PublishTold ==
  ASSUME Sound, NEW w \in Workers, Publish(w) \/ Register(w), \A q \in Sites : Told(q)
  PROVE  \A q \in Sites : Told(q)'
<1>w. worker \in [Workers -> Duties]
  BY DEF Sound, Held
<1>1. CASE Publish(w) /\ GoTo(w, "register")
  BY <1>w, <1>1, SoonTold DEF GoTo, Duties
<1>2. CASE Publish(w) /\ Throws(w)
  BY <1>2, LetsGoTold DEF Publish, LetsGo, At, console
<1>3. CASE Register(w)
  BY <1>w, <1>3, SoonTold DEF Register, GoTo, Duties
<1> QED BY <1>1, <1>2, <1>3 DEF Publish

LEMMA ReadListingTold ==
  ASSUME Sound, NEW w \in Workers, ReadListing(w)
  PROVE  \A q \in Sites : Told(q)'
<1>1. worker'[w].listing = Listing /\ worker'[w].step = "check" /\ Listing' = Listing
  BY DEF Sound, Held, Duties, ReadListing, console, Listing
<1> QED BY <1>1 DEF Told, Carries

\* Steps whose job stays as it is, or is completed.
LEMMA OnTold ==
  ASSUME Sound, NEW w \in Workers, \A q \in Sites : Told(q),
         \/ Rollback(w) \/ HeadPointer(w) \/ Finish(w)
         \/ CheckPointers(w) /\ GoTo(w, "head") /\ UNCHANGED job
  PROVE  \A q \in Sites : Told(q)'
<1>1. /\ UNCHANGED <<site, routes, behind>> /\ ~At(w, "idle")
      /\ worker[w].step \in {"rollback", "check", "head", "done"}
  BY DEF Rollback, HeadPointer, Finish, CheckPointers, At, console, remote
<1>2. worker[w].job \in Rows /\ JobOf(w).state = "active" /\ worker \in [Workers -> Duties]
  BY <1>1, OwnJob DEF Sound
<1>3. Rows' = Rows /\ \A k \in Rows : k # worker[w].job => job'[k] = job[k]
  BY DEF Rollback, HeadPointer, Finish, CheckPointers, SetJob, Rows
<1>4. \A v \in Workers : v # w => worker'[v] = worker[v]
  BY <1>2 DEF Rollback, HeadPointer, Finish, CheckPointers, GoTo, Rest
<1>5. (Carries(w)' <=> Carries(w)) /\ (Carries(w) => worker'[w].listing = worker[w].listing)
  <2>1. CASE Rollback(w)
    BY <1>2, <2>1 DEF Rollback, GoTo, Carries, At, Duties
  <2>2. CASE HeadPointer(w)
    BY <1>2, <2>2 DEF HeadPointer, Carries, At, Duties
  <2>3. CASE Finish(w)
    BY <1>2, <2>3, NoWorkTyped DEF Finish, Rest, Carries, At, Duties
  <2>4. CASE CheckPointers(w) /\ GoTo(w, "head")
    BY <1>2, <2>4 DEF CheckPointers, GoTo, Carries, At, Duties
  <2> QED BY <2>1, <2>2, <2>3, <2>4
<1> QED BY <1>1, <1>2, <1>3, <1>4, <1>5, StepTold DEF JobOf

LEMMA SwapTold ==
  ASSUME Sound, Cardinality(plot.workers) = 1, NEW w \in Workers, SwapRouting(w),
         \A q \in Sites : Told(q)
  PROVE  \A q \in Sites : Told(q)'
<1>h. /\ worker \in [Workers -> Duties] /\ worker[w] \in Duties /\ ~At(w, "idle") /\ At(w, "swap")
      /\ w \in plot.workers
  BY OwnJob DEF Sound, SwapRouting, At
<1>1. CASE Throws(w) /\ UNCHANGED <<routes, behind>>
  BY <1>h, <1>1, LetsGoTold DEF SwapRouting, LetsGo, console
<1>2. CASE /\ routes' = worker[w].listing
           /\ behind' = {s \in behind : worker[w].listing[s] # Listing[s]}
           /\ worker' = [v \in Workers |-> IF v = w THEN [worker[v] EXCEPT !.step = "done"]
                                           ELSE [worker[v] EXCEPT !.fresh = FALSE]]
           /\ UNCHANGED job
  <2>1. \A v \in Workers : v # w => At(v, "idle")
    BY <1>h, OneWorker
  <2>2. \A v \in Workers : /\ worker'[v].step \in {"done", "idle"}
                           /\ v # w => worker'[v].step = worker[v].step
    BY <1>h, <1>2, <2>1 DEF At, Duties
  <2>3. Upcoming(job) => Upcoming(job)'
    BY <1>h, <1>2, <2>2 DEF Upcoming, At
  <2>4. GaveUp => GaveUp'
    BY <1>2 DEF GaveUp, Rows
  <2>5. Listing' = Listing
    BY DEF SwapRouting, console, Listing
  <2> SUFFICES ASSUME NEW s \in Sites PROVE Told(s)'
    OBVIOUS
  <2>6. CASE s \in behind
    BY <1>2, <2>2, <2>5, <2>6 DEF Told, Carries
  <2>7. CASE Upcoming(job) \/ GaveUp
    BY <2>3, <2>4, <2>7 DEF Told
  <2>8. CASE worker[w].listing[s] = Listing[s]
    BY <1>2, <2>2, <2>5, <2>8 DEF Told, Carries
  <2>9. Told(s)
    OBVIOUS
  <2>a. \A v \in Workers : Carries(v) => v = w
    BY <2>1 DEF Carries, At
  <2>b. Carries(w)
    BY <1>h DEF Carries, At
  <2> QED BY <2>6, <2>7, <2>8, <2>9, <2>a, <2>b DEF Told
<1> QED BY <1>1, <1>2 DEF SwapRouting

LEMMA WorkTold ==
  ASSUME Sound, Cardinality(plot.workers) = 1, NEW w \in Workers, Work(w) \/ Fault(w) \/ Crash(w),
         \A q \in Sites : Told(q)
  PROVE  \A q \in Sites : Told(q)'
<1>1. CASE CheckPointers(w)
  <2>1. CASE FailsForGood(w)
    BY <1>1, <2>1, LetsGoTold DEF CheckPointers, LetsGo, At, console, remote
  <2> QED BY <1>1, <2>1, OnTold DEF CheckPointers
<1>2. CASE Fault(w) \/ Crash(w)
  BY <1>2, LetsGoTold DEF Fault, Crash, LetsGo, console, remote
<1> QED BY <1>1, <1>2, TakeTold, PublishTold, ReadListingTold, OnTold, SwapTold DEF Work

LEMMA TellsAll == Sound /\ AllTold /\ [Next]_vars => AllTold'
<1> SUFFICES ASSUME Sound, AllTold, [Next]_vars, Cardinality(plot'.workers) = 1
             PROVE  \A q \in Sites : Told(q)'
  BY DEF AllTold
<1>1. plot' = plot
  BY DEF Next, vars, Answer, OpenUpdate, WriteSite, CommitSite, AbortSite, UpdateDomain,
         RequestPublish, RequestRollback, Work, Take, Publish, Register, Rollback, ReadListing,
         CheckPointers, HeadPointer, SwapRouting, Finish, Fault, Crash
<1>2. Cardinality(plot.workers) = 1 /\ \A q \in Sites : Told(q)
  BY <1>1 DEF AllTold
<1>3. Sound'
  BY StepSoundAll
<1>4. CASE UNCHANGED vars
  BY <1>2, <1>4 DEF vars, Told, Upcoming, GaveUp, Carries, Listing, Rows
<1> QED BY <1>2, <1>3, <1>4, ConsoleTold, WorkTold DEF Next

\* With one worker, however requests, operations, retries and crashes interleave: when every
\* job has completed, the manifest is the list, but for the sites that are known to be behind.
THEOREM ListKept == Spec => []RoutesAreTheList
<1>1. AllTold => RoutesAreTheList
  <2> SUFFICES ASSUME AllTold, Quiet, Cardinality(plot.workers) = 1, NEW s \in Sites
               PROVE  routes[s] # Listing[s] => s \in behind
    BY DEF RoutesAreTheList
  <2>1. Told(s)
    BY DEF AllTold
  <2>2. ~Upcoming(job) /\ ~GaveUp /\ \A w \in Workers : ~Carries(w)
    BY DEF Quiet, Upcoming, GaveUp, Carries, At, Rows
  <2> QED BY <2>1, <2>2 DEF Told
<1> QED BY InitSound, InitTold, StepSoundAll, TellsAll, <1>1, PTL DEF Spec

(***************************************************************************)
(* UrlRegistry: records.                                                   *)
(***************************************************************************)
RecordStates == {"reserved", "active", "gone", "redirected", "deleted"}
RealRecords == [state: RecordStates, edition: Editions, path: Paths, target: {None} \cup Ids]

LEMMA RecordsAre ==
  ASSUME UrlTypeOK, NEW i \in Ids
  PROVE  /\ record[i] \in Records
         /\ record[i].state # "none" => record[i] \in RealRecords
         /\ i \in Nat /\ i # None
<1>1. record[i] \in Records /\ Records = {NoRecord} \cup RealRecords
  BY DEF UrlTypeOK, Records, RealRecords, RecordStates
<1>2. NoRecord.state = "none"
  BY DEF NoRecord
<1>3. i \in Nat /\ i # None
  BY UrlRegistryAssumption DEF UrlRegistryAssumption, Ids, None
<1> QED BY <1>1, <1>2, <1>3

LEMMA RecordIs ==
  ASSUME NEW e \in Editions, NEW p \in Paths, NEW s \in RecordStates, NEW t \in {None} \cup Ids
  PROVE  /\ Record(e, p, s, t) \in RealRecords /\ Record(e, p, s, t) \in Records
         /\ Record(e, p, s, t).state = s /\ Record(e, p, s, t).edition = e
         /\ Record(e, p, s, t).target = t /\ Record(e, p, s, t).path = p
  BY DEF Record, RealRecords, Records, RecordStates

\* The ends of a set of ids.
LEMMA HasFirst ==
  ASSUME NEW S \in SUBSET Nat, S # {}
  PROVE  \E i \in S : \A j \in S : i <= j
<1> DEFINE R == OpToRel(<, Nat)
<1>1. PICK x \in S : \A y \in S : <<y, x>> \notin R
  <2>1. IsWellFoundedOn(R, Nat)
    BY NatLessThanWellFounded
  <2> HIDE DEF R
  <2> QED BY <2>1, WFMin
<1>2. ASSUME NEW y \in S PROVE x <= y
  <2>1. ~(y < x)
    BY <1>1 DEF OpToRel
  <2> HIDE DEF R
  <2> QED BY <2>1
<1> QED BY <1>2

LEMMA HasLast ==
  ASSUME NEW n \in Nat, NEW S \in SUBSET (1..n), S # {}
  PROVE  \E i \in S : \A j \in S : j <= i
<1> DEFINE T == {n - x : x \in S}
<1>1. T \in SUBSET Nat /\ T # {}
  <2>1. \A x \in S : n - x \in Nat
    OBVIOUS
  <2> QED BY <2>1
<1>2. PICK x \in T : \A y \in T : x <= y
  <2> HIDE DEF T
  <2> QED BY <1>1, HasFirst
<1>3. PICK i \in S : x = n - i
  BY <1>2
<1>4. ASSUME NEW j \in S PROVE j <= i
  <2>1. n - j \in T
    OBVIOUS
  <2>2. n - i <= n - j
    BY <1>2, <1>3, <2>1
  <2> QED BY <2>2
<1> QED BY <1>4

LEMMA NextIdIs ==
  ASSUME Unused # {}
  PROVE  NextId \in Ids /\ record[NextId].state = "none"
<1>1. Unused \in SUBSET Nat
  BY UrlRegistryAssumption DEF UrlRegistryAssumption, Unused, Ids
<1>2. \E i \in Unused : \A j \in Unused : i <= j
  BY <1>1, HasFirst
<1>3. NextId \in Unused
  BY <1>2 DEF NextId
<1> QED BY <1>3 DEF Unused

LEMMA LatestIs ==
  ASSUME NEW S \in SUBSET Ids, S # {}
  PROVE  Latest(S) \in S
<1>1. \E i \in S : \A j \in S : j <= i
  BY UrlRegistryAssumption, HasLast DEF UrlRegistryAssumption, Ids
<1> QED BY <1>1 DEF Latest

(***************************************************************************)
(* UrlRegistry: the inductive invariant.                                   *)
(***************************************************************************)
Known(i, e) == i \in Ids /\ record[i].state # "none" /\ record[i].edition = e
Revived(e) == <<e, "revived">> \in upset

\* What a transaction under the lock of e rests on.
LockSound(e) ==
  LET k == locked[e]
  IN k # Closed =>
       /\ k.id # None => Known(k.id, e)
       /\ k.kind \in {"approve", "add"} => /\ k.id = None => k.path \in Paths
                                           /\ ~Upset(e) => Live(e) = {}
       /\ k.kind = "approve" => /\ Member(e) \/ e \in Primary
                                /\ row[e] = "published" => Revived(e)
       /\ k.kind = "activate" => /\ Member(e)
                                 /\ k.id = None /\ ~Revived(e) => In({"active"}, e) # {}
       /\ k.kind = "takedown" => row[e] = "published" /\ k.id # None
       /\ k.kind = "drop" => /\ row[e] = "pending"
                             /\ k.id = None => In({"reserved"}, e) = {}

\* An open renaming is of a record no redirect leads to.
RenameSound(t) ==
  rename[t] # Closed =>
    /\ record[rename[t].id].state # "none"
    /\ \A r \in Ids : record[r].state = "redirected" => record[r].target # rename[t].id

\* A redirect leads to a record of its edition, an active one unless that was upset.
RedirectSound(r) ==
  record[r].state = "redirected" =>
    /\ Known(record[r].target, record[r].edition)
    /\ ~Upset(record[r].edition) => record[record[r].target].state = "active"

\* What is on the site has an address, an active one once it is published.
Addressed(e) ==
  ~Revived(e) =>
    /\ row[e] = "published" => In({"active"}, e) # {}
    /\ Member(e) /\ status[e] \in {"approved", "compiled", "published"} => Live(e) # {}

Single(e) ==
  ~Upset(e) =>
    /\ \A i, j \in Live(e) : i = j
    /\ row[e] \in {"absent", "unpublished"} => In({"active", "redirected"}, e) = {}

EditionSound(e) == LockSound(e) /\ Addressed(e) /\ Single(e)
UrlInv ==
  /\ UrlTypeOK
  /\ \A e \in Editions : EditionSound(e)
  /\ \A t \in Renames : RenameSound(t)
  /\ \A r \in Ids : RedirectSound(r)

LEMMA InIs ==
  ASSUME UrlTypeOK, NEW e, NEW states \in SUBSET (RecordStates \ {"deleted"})
  PROVE  In(states, e) = {i \in Ids : record[i].state \in states /\ record[i].edition = e}
  BY DEF In, Present, RecordStates

LEMMA UrlInitSound == UrlInit => UrlInv
<1> SUFFICES ASSUME UrlInit PROVE UrlInv
  OBVIOUS
<1>1. UrlTypeOK
  BY DEF UrlInit, UrlTypeOK, Records, Transactions, Renamings
<1>2. \A i \in Ids : record[i].state = "none"
  BY DEF UrlInit, NoRecord
<1>3. Present = {}
  BY <1>2 DEF Present
<1>4. \A e \in Editions : /\ locked[e] = Closed
                          /\ row[e] # "published"
                          /\ row[e] = "pending" => status[e] = "draft"
  BY DEF UrlInit
<1>5. ASSUME NEW e \in Editions PROVE EditionSound(e)
  BY <1>3, <1>4 DEF EditionSound, LockSound, Addressed, Single, Member, Live, In
<1>6. \A t \in Renames : RenameSound(t)
  BY DEF UrlInit, RenameSound
<1>7. \A r \in Ids : RedirectSound(r)
  BY <1>2 DEF RedirectSound
<1> QED BY <1>1, <1>5, <1>6, <1>7 DEF UrlInv

(***************************************************************************)
(* What a step leaves alone.                                               *)
(***************************************************************************)
OfEdition(i, f) == record[i].state # "none" /\ record[i].edition = f

\* The step does not touch f.
Aside(f) ==
  /\ status'[f] = status[f] /\ row'[f] = row[f] /\ locked'[f] = locked[f]
  /\ \A cause \in {"overtaken", "dropped", "revived"} : <<f, cause>> \in upset' <=> <<f, cause>> \in upset
  /\ \A i \in Ids : record'[i] = record[i] \/ (~OfEdition(i, f) /\ ~OfEdition(i, f)')

LEMMA AsideSound ==
  ASSUME UrlTypeOK, UrlTypeOK', NEW f \in Editions, Aside(f), EditionSound(f)
  PROVE  EditionSound(f)'
<1>1. \A i \in Ids : OfEdition(i, f) <=> OfEdition(i, f)'
  BY DEF Aside, OfEdition
<1>2. \A i \in Ids : OfEdition(i, f) => record'[i] = record[i]
  BY DEF Aside
<1>3. ASSUME NEW states \in {{"active"}, {"reserved"}, {"reserved", "active"}, {"active", "redirected"}}
      PROVE  In(states, f)' = In(states, f)
  <2>1. "none" \notin states /\ "deleted" \notin states
    OBVIOUS
  <2>2. \A i \in Ids : record[i].state \in states => record[i].state \notin {"none", "deleted"}
    BY <2>1
  <2>3. \A i \in Ids : record'[i].state \in states => record'[i].state \notin {"none", "deleted"}
    BY <2>1
  <2> QED BY <1>1, <1>2, <2>2, <2>3 DEF In, Present, OfEdition
<1>4. /\ In({"active"}, f)' = In({"active"}, f) /\ In({"reserved"}, f)' = In({"reserved"}, f)
      /\ In({"active", "redirected"}, f)' = In({"active", "redirected"}, f) /\ Live(f)' = Live(f)
  BY <1>3 DEF Live
<1>5. \A i : Known(i, f)' <=> Known(i, f)
  BY <1>1 DEF Known, OfEdition
<1>6. (Upset(f)' <=> Upset(f)) /\ (Revived(f)' <=> Revived(f)) /\ (Member(f)' <=> Member(f))
  BY DEF Aside, Upset, Revived, Member
<1>7. LockSound(f)'
  <2> SUFFICES ASSUME NEW k, k = locked[f], k = locked'[f] PROVE LockSound(f)'
    BY DEF Aside
  <2> QED BY <1>4, <1>5, <1>6 DEF EditionSound, LockSound, Aside
<1>8. Addressed(f)' /\ Single(f)'
  BY <1>4, <1>6 DEF EditionSound, Addressed, Single, Aside
<1> QED BY <1>7, <1>8 DEF EditionSound

\* Records keep their edition, and what was known of an edition stays so.
Keeps == \A i \in Ids : record[i].state # "none" =>
           record'[i].state # "none" /\ record'[i].edition = record[i].edition

LEMMA KnownStays ==
  ASSUME Keeps, NEW i, NEW e, Known(i, e)
  PROVE  Known(i, e)'
  BY DEF Keeps, Known

\* No redirect is made.
NoRedirects == \A i \in Ids : record'[i].state = "redirected" => record'[i] = record[i]

LEMMA RenamesStaySound ==
  ASSUME Keeps, NoRedirects, NEW t \in Renames, rename'[t] = rename[t], rename[t].id \in Ids,
         RenameSound(t)
  PROVE  RenameSound(t)'
  BY DEF Keeps, NoRedirects, RenameSound

LEMMA RedirectStaysSound ==
  ASSUME Keeps, upset \subseteq upset', NEW r \in Ids, RedirectSound(r),
         record'[r] = record[r], record[r].state = "redirected",
         Upset(record[r].edition)' \/ record'[record[r].target].state = "active"
  PROVE  RedirectSound(r)'
<1>1. Known(record[r].target, record[r].edition)'
  BY KnownStays DEF RedirectSound
<1> QED BY <1>1 DEF RedirectSound, Known

LEMMA UpsetStays == upset \subseteq upset' => \A e : (Upset(e) => Upset(e)') /\ (Revived(e) => Revived(e)')
  BY DEF Upset, Revived

\* A step that writes no record.
LEMMA SameRecords ==
  ASSUME UNCHANGED record
  PROVE  /\ Keeps /\ NoRedirects /\ Present' = Present
         /\ \A e : /\ Live(e)' = Live(e) /\ \A i : Known(i, e)' <=> Known(i, e)
                   /\ \A states : In(states, e)' = In(states, e)
<1>1. Present' = Present
  BY DEF Present
<1>2. \A e, states : In(states, e)' = In(states, e)
  BY <1>1 DEF In
<1> QED BY <1>1, <1>2 DEF Keeps, NoRedirects, Known, Live

LEMMA RenameIs ==
  ASSUME UrlTypeOK, NEW t \in Renames, rename[t] # Closed
  PROVE  rename[t].id \in Ids /\ rename[t].path \in Paths
  BY DEF UrlTypeOK, Renamings

LEMMA LockIs ==
  ASSUME UrlTypeOK, NEW e \in Editions, ~Unlocked(e)
  PROVE  /\ locked[e].kind \in {"approve", "add", "activate", "takedown", "drop"}
         /\ locked[e].id \in {None} \cup Ids /\ locked[e].path \in {None} \cup Paths
  BY DEF UrlTypeOK, Transactions, Unlocked

\* A step of e that writes no record and begins or ends no renaming.
LEMMA QuietSound ==
  ASSUME UrlInv, UrlTypeOK', NEW e \in Editions, UNCHANGED <<record, rename>>, upset \subseteq upset',
         \A f \in Editions \ {e} : Aside(f), EditionSound(e)'
  PROVE  UrlInv'
<1>1. \A f \in Editions : EditionSound(f)'
  BY AsideSound DEF UrlInv
<1>2. \A t \in Renames : RenameSound(t)'
  BY DEF UrlInv, RenameSound
<1>3. \A r \in Ids : RedirectSound(r)'
  BY SameRecords, UpsetStays DEF UrlInv, RedirectSound
<1> QED BY <1>1, <1>2, <1>3 DEF UrlInv

(***************************************************************************)
(* Steps that only read the records.                                       *)
(***************************************************************************)
LEMMA OutcomeIs ==
  ASSUME UrlTypeOK, NEW e \in Editions,
         NEW kind \in {"approve", "add", "activate", "takedown", "drop"}, Outcome(e, kind)
  PROVE  /\ status' \in [Editions -> {"draft", "approved", "compiled", "published", "archived"}]
         /\ row' \in [Editions -> {"absent", "pending", "published", "unpublished"}]
         /\ \A f \in Editions \ {e} : status'[f] = status[f] /\ row'[f] = row[f]
         /\ kind = "approve" => status'[e] = "approved" /\ row'[e] = row[e]
         /\ kind = "add" => status'[e] = status[e] /\ row'[e] = "pending"
         /\ kind = "activate" => status'[e] = "published" /\ row'[e] = "published"
         /\ kind = "takedown" => status'[e] = status[e] /\ row'[e] = "unpublished"
         /\ kind = "drop" => status'[e] = status[e] /\ row'[e] = "absent"
<1> DEFINE s == StatusAfter(e, kind)
           r == RowAfter(e, kind)
<1>1. /\ kind = "approve" => s = "approved" /\ r = row[e]
      /\ kind = "add" => s = status[e] /\ r = "pending"
      /\ kind = "activate" => s = "published" /\ r = "published"
      /\ kind = "takedown" => s = status[e] /\ r = "unpublished"
      /\ kind = "drop" => s = status[e] /\ r = "absent"
  BY DEF StatusAfter, RowAfter
<1>2. s \in {"draft", "approved", "compiled", "published", "archived"}
      /\ r \in {"absent", "pending", "published", "unpublished"}
  BY <1>1 DEF UrlTypeOK
<1>3. status' = [status EXCEPT ![e] = s] /\ row' = [row EXCEPT ![e] = r]
  BY DEF Outcome
<1> HIDE DEF s, r
<1> QED BY <1>1, <1>2, <1>3 DEF UrlTypeOK

LEMMA BeginIs ==
  ASSUME UrlTypeOK, NEW e \in Editions,
         NEW kind \in {"approve", "add", "activate", "takedown", "drop"},
         NEW i \in {None} \cup Ids, NEW p \in {None} \cup Paths, Begin(e, kind, i, p)
  PROVE  /\ UrlTypeOK' /\ UNCHANGED <<status, row, record, rename, upset>>
         /\ \A f \in Editions \ {e} : Aside(f)
         /\ locked'[e].kind = kind /\ locked'[e].id = i /\ locked'[e].path = p
<1> DEFINE k == [kind |-> kind, id |-> i, path |-> p]
<1>1. k \in Transactions /\ k.kind = kind /\ k.id = i /\ k.path = p
  BY DEF Transactions
<1>2. locked' = [locked EXCEPT ![e] = k] /\ UNCHANGED <<status, row, record, rename, upset>>
  BY DEF Begin
<1> HIDE DEF k
<1> QED BY <1>1, <1>2 DEF UrlTypeOK, Aside

LEMMA MoveSound ==
  ASSUME UrlInv, NEW e \in Editions, NEW lane \in {"draft", "archived"}, Move(e, lane)
  PROVE  UrlInv'
<1> USE DEF UrlInv
<1>1. UrlTypeOK' /\ status'[e] = lane /\ \A f \in Editions \ {e} : Aside(f)
  BY DEF Move, UrlTypeOK, Aside
<1>2. row' = row /\ UNCHANGED <<record, locked, rename, upset>> /\ locked[e] = Closed
  BY DEF Move, Unlocked
<1>3. EditionSound(e)'
  BY <1>1, <1>2, SameRecords
  DEF EditionSound, LockSound, Addressed, Single, Member, Upset, Revived
<1> QED BY <1>1, <1>2, <1>3, QuietSound

LEMMA CompileSound ==
  ASSUME UrlInv, NEW e \in Editions, Compile(e)
  PROVE  UrlInv'
<1> USE DEF UrlInv
<1>1. /\ UNCHANGED <<record, locked, rename>> /\ locked[e] = Closed
      /\ upset' = IF row[e] = "unpublished" THEN upset \cup {<<e, "revived">>} ELSE upset
      /\ row' = [row EXCEPT ![e] = "pending"]
      /\ \/ /\ status[e] = "approved" /\ row[e] # "absent"
            /\ status' = [status EXCEPT ![e] = "compiled"]
         \/ status[e] \in {"compiled", "published"} /\ row[e] = "published" /\ UNCHANGED status
  BY DEF Compile, Unlocked
<1>2. UrlTypeOK' /\ upset \subseteq upset'
  BY <1>1 DEF UrlTypeOK
<1>3. \A f \in Editions \ {e} : Aside(f)
  BY <1>1 DEF Aside, UrlTypeOK
<1>4. row'[e] = "pending" /\ locked'[e] = Closed
  BY <1>1 DEF UrlTypeOK
<1>5. ~Revived(e)' => ~Revived(e) /\ Member(e) /\ status[e] \in {"approved", "compiled", "published"}
  BY <1>1 DEF Revived, Member, UrlTypeOK
<1>6. (Upset(e) => Upset(e)') /\ (Revived(e) => Revived(e)')
  BY <1>2, UpsetStays
<1>7. EditionSound(e)'
  BY <1>1, <1>4, <1>5, <1>6, SameRecords DEF EditionSound, LockSound, Addressed, Single
<1> QED BY <1>1, <1>2, <1>3, <1>7, QuietSound

LEMMA ReserveLiveSound ==
  ASSUME UrlInv, NEW e \in Editions, NEW kind \in {"approve", "add"}, ReserveLive(e, kind)
  PROVE  UrlInv'
<1> USE DEF UrlInv
<1>1. /\ UNCHANGED <<record, locked, rename, upset>> /\ locked[e] = Closed
      /\ Outcome(e, kind) /\ Live(e) # {}
  BY DEF ReserveLive, Unlocked
<1>2. UrlTypeOK' /\ \A f \in Editions \ {e} : Aside(f)
  BY <1>1, OutcomeIs DEF Aside, UrlTypeOK
<1>3. row'[e] = row[e] \/ row'[e] = "pending"
  BY <1>1, OutcomeIs
<1>4. EditionSound(e)'
  BY <1>1, <1>3, SameRecords
  DEF EditionSound, LockSound, Addressed, Single, Member, Upset, Revived
<1> QED BY <1>1, <1>2, <1>4, QuietSound

LEMMA ApproveElsewhereSound ==
  ASSUME UrlInv, NEW e \in Editions, ApproveElsewhere(e)
  PROVE  UrlInv'
<1> USE DEF UrlInv
<1>1. /\ UNCHANGED <<record, locked, rename, upset>> /\ locked[e] = Closed
      /\ Outcome(e, "approve") /\ ~Member(e)
  BY DEF ApproveElsewhere, Unlocked
<1>2. UrlTypeOK' /\ \A f \in Editions \ {e} : Aside(f)
  BY <1>1, OutcomeIs DEF Aside, UrlTypeOK
<1>3. row'[e] = row[e]
  BY <1>1, OutcomeIs
<1>4. EditionSound(e)'
  BY <1>1, <1>3, SameRecords
  DEF EditionSound, LockSound, Addressed, Single, Member, Upset, Revived
<1> QED BY <1>1, <1>2, <1>4, QuietSound

\* A transaction begins on what it has read.
LEMMA BeginSound ==
  ASSUME UrlInv, NEW e \in Editions,
         NEW kind \in {"approve", "add", "activate", "takedown", "drop"},
         NEW i \in {None} \cup Ids, NEW p \in {None} \cup Paths, Begin(e, kind, i, p),
         i # None => Known(i, e),
         kind \in {"approve", "add"} => (i = None => p \in Paths) /\ Live(e) = {},
         kind = "approve" => Member(e) \/ e \in Primary,
         kind = "activate" =>
           Member(e) /\ (i = None => /\ In({"reserved"}, e) = {}
                                     /\ row[e] = "pending" => status[e] \in {"compiled", "published"}),
         kind = "takedown" => row[e] = "published" /\ i # None,
         kind = "drop" => row[e] = "pending" /\ (i = None => In({"reserved"}, e) = {})
  PROVE  UrlInv'
<1> USE DEF UrlInv
<1>1. /\ UrlTypeOK' /\ UNCHANGED <<status, row, record, rename, upset>>
      /\ \A f \in Editions \ {e} : Aside(f)
      /\ locked'[e].kind = kind /\ locked'[e].id = i /\ locked'[e].path = p
  BY BeginIs
<1>2. In({"active"}, e) \subseteq Live(e) /\ Live(e) \subseteq In({"active"}, e) \cup In({"reserved"}, e)
  BY DEF Live, In
<1>3. kind = "approve" /\ row[e] = "published" => Revived(e)
  BY <1>2 DEF EditionSound, Addressed
<1>4. kind = "activate" /\ i = None /\ ~Revived(e) => In({"active"}, e) # {}
  BY <1>2 DEF EditionSound, Addressed, Member
<1>5. LockSound(e)'
  <2> SUFFICES ASSUME NEW k, k = locked'[e] PROVE LockSound(e)'
    OBVIOUS
  <2> QED BY <1>1, <1>3, <1>4, SameRecords DEF LockSound, Member, Upset, Revived
<1>6. Addressed(e)' /\ Single(e)'
  BY <1>1, SameRecords DEF EditionSound, Addressed, Single, Member, Upset, Revived
<1> QED BY <1>1, <1>5, <1>6, QuietSound DEF EditionSound

LEMMA ReadsSound ==
  ASSUME UrlInv, NEW e \in Editions,
         \/ \E kind \in {"approve", "add"} : ReadReserve(e, kind)
         \/ ReadActivate(e) \/ ReadTakedown(e) \/ ReadDrop(e)
  PROVE  UrlInv'
<1>1. ASSUME NEW states, NEW i \in In(states, e) PROVE i \in Ids /\ Known(i, e)
  BY DEF In, Present, Known
<1>2. CASE \E kind \in {"approve", "add"} : ReadReserve(e, kind)
  <2>1. PICK kind \in {"approve", "add"} : ReadReserve(e, kind)
    BY <1>2
  <2> DEFINE gone == In({"gone"}, e)
  <2>2. Live(e) = {} /\ MayReserve(e, kind)
    BY <2>1 DEF ReadReserve
  <2>3. kind = "approve" => Member(e) \/ e \in Primary
    BY <2>2 DEF MayReserve
  <2>4. CASE gone # {} /\ Begin(e, kind, Latest(gone), None)
    <3>1. gone \in SUBSET Ids
      BY DEF In, Present
    <3>2. Latest(gone) \in gone
      BY <2>4, <3>1, LatestIs
    <3>3. Latest(gone) \in Ids /\ Known(Latest(gone), e)
      BY <1>1, <3>2
    <3>4. Latest(gone) # None
      BY <3>3, UrlRegistryAssumption DEF UrlRegistryAssumption, Ids, None
    <3> QED BY <2>2, <2>3, <2>4, <3>3, <3>4, BeginSound
  <2>5. CASE \E p \in Paths : Begin(e, kind, None, p)
    <3>1. PICK p \in Paths : Begin(e, kind, None, p)
      BY <2>5
    <3> QED BY <2>2, <2>3, <3>1, BeginSound
  <2> QED BY <2>1, <2>4, <2>5 DEF ReadReserve
<1>3. CASE ReadActivate(e)
  <2>1. Member(e) /\ (row[e] = "pending" => status[e] \in {"compiled", "published"})
    BY <1>3 DEF ReadActivate
  <2>2. CASE \E i \in In({"reserved"}, e) : Begin(e, "activate", i, None)
    <3>1. PICK i \in In({"reserved"}, e) : Begin(e, "activate", i, None)
      BY <2>2
    <3>2. i \in Ids /\ Known(i, e) /\ i # None
      BY <1>1, UrlRegistryAssumption DEF UrlRegistryAssumption, Ids, None
    <3> QED BY <2>1, <3>1, <3>2, BeginSound
  <2>3. CASE In({"reserved"}, e) = {} /\ Begin(e, "activate", None, None)
    BY <2>1, <2>3, BeginSound
  <2> QED BY <1>3, <2>2, <2>3 DEF ReadActivate
<1>4. CASE ReadTakedown(e)
  <2>1. PICK i \in In({"active"}, e) : Begin(e, "takedown", i, None)
    BY <1>4 DEF ReadTakedown
  <2>2. i \in Ids /\ Known(i, e) /\ i # None
    BY <1>1, UrlRegistryAssumption DEF UrlRegistryAssumption, Ids, None
  <2> QED BY <1>4, <2>1, <2>2, BeginSound DEF ReadTakedown
<1>5. CASE ReadDrop(e)
  <2>1. CASE \E i \in In({"reserved"}, e) : Begin(e, "drop", i, None)
    <3>1. PICK i \in In({"reserved"}, e) : Begin(e, "drop", i, None)
      BY <2>1
    <3>2. i \in Ids /\ Known(i, e) /\ i # None
      BY <1>1, UrlRegistryAssumption DEF UrlRegistryAssumption, Ids, None
    <3> QED BY <1>5, <3>1, <3>2, BeginSound DEF ReadDrop
  <2>2. CASE In({"reserved"}, e) = {} /\ Begin(e, "drop", None, None)
    BY <1>5, <2>2, BeginSound DEF ReadDrop
  <2> QED BY <1>5, <2>1, <2>2 DEF ReadDrop
<1> QED BY <1>2, <1>3, <1>4, <1>5

(***************************************************************************)
(* Commits of the transactions under a lock.                               *)
(***************************************************************************)
\* The records of T are rewritten or inserted, as records of e and none as a redirect.
Rewrites(e, T) ==
  /\ record' \in [Ids -> Records]
  /\ \A j \in Ids \ T : record'[j] = record[j]
  /\ \A j \in T \cap Ids : /\ record[j].state = "none" \/ record[j].edition = e
                           /\ record'[j].edition = e
                           /\ record'[j].state \notin {"none", "redirected"}

\* What e is left with, but for its records.
Closes(e) ==
  /\ locked' = [locked EXCEPT ![e] = Closed] /\ UNCHANGED rename
  /\ Outcome(e, locked[e].kind)
  /\ upset' \subseteq upset \cup {<<e, "overtaken">>, <<e, "dropped">>} /\ upset \subseteq upset'

LEMMA RewritesSound ==
  ASSUME UrlInv, NEW e \in Editions, ~Unlocked(e), Closes(e), NEW T, Rewrites(e, T),
         Addressed(e)', Single(e)',
         \A r \in Ids \ T : record[r].state = "redirected" /\ record[r].edition = e
           => Upset(e)' \/ record'[record[r].target].state = "active"
  PROVE  UrlInv'
<1> USE DEF UrlInv
<1>1. locked[e].kind \in {"approve", "add", "activate", "takedown", "drop"}
  BY LockIs
<1>2. UrlTypeOK' /\ locked'[e] = Closed
  BY <1>1, OutcomeIs DEF Closes, Rewrites, UrlTypeOK, Transactions
<1>3. \A f \in Editions \ {e} : Aside(f)
  <2>1. \A f \in Editions \ {e} : /\ status'[f] = status[f] /\ row'[f] = row[f]
                                  /\ locked'[f] = locked[f]
    BY <1>1, OutcomeIs DEF Closes, UrlTypeOK
  <2>2. \A f \in Editions \ {e} : \A cause : <<f, cause>> \in upset' <=> <<f, cause>> \in upset
    BY DEF Closes
  <2>3. \A f \in Editions \ {e}, i \in Ids :
          record'[i] = record[i] \/ (~OfEdition(i, f) /\ ~OfEdition(i, f)')
    BY DEF Rewrites, OfEdition
  <2> QED BY <2>1, <2>2, <2>3 DEF Aside
<1>4. \A f \in Editions : EditionSound(f)'
  BY <1>2, <1>3, AsideSound DEF EditionSound, LockSound
<1>5. Keeps /\ NoRedirects
  BY DEF Keeps, NoRedirects, Rewrites
<1>6. \A t \in Renames : RenameSound(t)'
  <2> SUFFICES ASSUME NEW t \in Renames PROVE RenameSound(t)'
    OBVIOUS
  <2>1. CASE rename[t] = Closed
    BY <2>1 DEF Closes, RenameSound
  <2>2. CASE rename[t] # Closed
    BY <1>5, <2>2, RenameIs, RenamesStaySound DEF Closes
  <2> QED BY <2>1, <2>2
<1>7. ASSUME NEW r \in Ids PROVE RedirectSound(r)'
  <2>1. CASE record'[r].state = "redirected"
    <3>1. record'[r] = record[r] /\ r \notin T
      BY <1>5, <2>1 DEF NoRedirects, Rewrites
    <3> DEFINE x == record[r].target
               f == record[r].edition
    <3>2. Known(x, f) /\ (~Upset(f) => record[x].state = "active")
      BY <2>1, <3>1 DEF RedirectSound
    <3>3. \A g : Upset(g) => Upset(g)'
      BY UpsetStays DEF Closes
    <3>4. CASE f = e
      BY <1>5, <2>1, <3>1, <3>4, RedirectStaysSound DEF Closes
    <3>5. CASE f # e
      <4>1. record'[x] = record[x]
        BY <3>2, <3>5 DEF Known, Rewrites
      <4> QED BY <1>5, <2>1, <3>1, <3>2, <3>3, <4>1, RedirectStaysSound DEF Closes
    <3> QED BY <3>4, <3>5
  <2>2. CASE record'[r].state # "redirected"
    BY <2>2 DEF RedirectSound
  <2> QED BY <2>1, <2>2
<1> QED BY <1>2, <1>4, <1>6, <1>7

\* The commit writes, or fails for want of the address.
LEMMA CommitIs ==
  ASSUME UrlInv, NEW e \in Editions, Commit(e)
  PROVE  LET kind == locked[e].kind
             i == locked[e].id
         IN /\ ~Unlocked(e)
            /\ \/ /\ Inserts(e) => Insertable(locked[e].path)
                  /\ record' = Written(e) /\ Closes(e)
                  /\ Revived(e)' <=> Revived(e)
                  /\ ~Upset(e)' => /\ ~Upset(e)
                                   /\ i \in Ids => record[i].state = ReadState(kind)
                                   /\ kind = "drop" => In({"active"}, e) = {}
               \/ /\ UNCHANGED <<status, row, record, upset, rename>>
                  /\ locked' = [locked EXCEPT ![e] = Closed]
<1> DEFINE kind == locked[e].kind
           i == locked[e].id
           over == Overtaken(i, ReadState(kind))
           drops == IF kind = "drop" THEN In({"active"}, e) ELSE {}
<1>1. CASE /\ Inserts(e) => Insertable(locked[e].path)
           /\ record' = Written(e)
           /\ Outcome(e, kind)
           /\ upset' = upset \cup {<<e, "overtaken">> : x \in over} \cup {<<e, "dropped">> : x \in drops}
  <2>1. Closes(e)
    BY <1>1 DEF Commit, Closes
  <2>2. Revived(e)' <=> Revived(e)
    BY <1>1 DEF Revived
  <2>3. over # {} => <<e, "overtaken">> \in upset'
    BY <1>1
  <2>4. drops # {} => <<e, "dropped">> \in upset'
    BY <1>1
  <2>5. ~Upset(e)' => ~Upset(e) /\ over = {} /\ drops = {}
    BY <2>1, <2>3, <2>4 DEF Upset, Closes
  <2>6. over = {} /\ i \in Ids => record[i].state = ReadState(kind)
    BY DEF Overtaken
  <2> QED BY <1>1, <2>1, <2>2, <2>5, <2>6 DEF Commit
<1>2. CASE UNCHANGED <<status, row, record, upset>>
  BY <1>2 DEF Commit
<1> QED BY <1>1, <1>2 DEF Commit

\* A reservation inserts a record, or resets the one that was gone.
LEMMA ReserveCommits ==
  ASSUME UrlInv, NEW e \in Editions, Commit(e), locked[e].kind \in {"approve", "add"},
         Closes(e), record' = Written(e), Inserts(e) => Insertable(locked[e].path),
         Revived(e)' <=> Revived(e), ~Upset(e)' => ~Upset(e)
  PROVE  UrlInv'
<1> USE DEF UrlInv
<1> DEFINE k == locked[e]
           x == IF k.id = None THEN NextId ELSE k.id
<1>1. ~Unlocked(e) /\ k # Closed
  BY DEF Commit, Unlocked
<1>2. /\ k.id # None => Known(k.id, e)
      /\ k.id = None => k.path \in Paths
      /\ ~Upset(e) => Live(e) = {}
      /\ k.kind = "approve" /\ row[e] = "published" => Revived(e)
  BY <1>1 DEF EditionSound, LockSound
<1>3. PICK n \in Ids, p \in Paths :
        /\ record' = [record EXCEPT ![n] = Record(e, p, "reserved", None)]
        /\ record[n].state = "none" \/ record[n].edition = e
  <2>1. CASE k.id = None
    <3>1. NextId \in Ids /\ record[NextId].state = "none"
      BY <2>1, NextIdIs DEF Inserts, Insertable
    <3>2. record' = [record EXCEPT ![NextId] = Record(e, k.path, "reserved", None)]
      BY <2>1 DEF Written, Insert
    <3> QED BY <1>2, <2>1, <3>1, <3>2
  <2>2. CASE k.id # None
    <3>1. k.id \in Ids /\ record[k.id] \in RealRecords /\ record[k.id].edition = e
      BY <1>2, <2>2, RecordsAre DEF Known
    <3>2. record' = Rewritten(k.id, "reserved")
      BY <2>2 DEF Written
    <3>3. record' = [record EXCEPT ![k.id] = Record(e, record[k.id].path, "reserved", None)]
      BY <3>1, <3>2 DEF Rewritten, UrlTypeOK
    <3> QED BY <3>1, <3>3 DEF RealRecords
  <2> QED BY <2>1, <2>2
<1> DEFINE new == Record(e, p, "reserved", None)
<1>4. new \in Records /\ new.state = "reserved" /\ new.edition = e
  BY RecordIs DEF RecordStates
<1> HIDE DEF new
<1>5. \A j \in Ids : record'[j] = IF j = n THEN new ELSE record[j]
  BY <1>3 DEF UrlTypeOK, new
<1>6. Rewrites(e, {n})
  BY <1>3, <1>4, <1>5 DEF Rewrites, UrlTypeOK, new
<1>7. /\ n \in Live(e)' /\ \A j \in Live(e)' : j = n \/ j \in Live(e)
      /\ In({"active", "redirected"}, e)' \subseteq In({"active", "redirected"}, e)
  BY <1>4, <1>5 DEF Live, In, Present
<1>8. /\ row'[e] = "pending" \/ (k.kind = "approve" /\ row'[e] = row[e])
  BY OutcomeIs DEF Closes
<1>9. Addressed(e)'
  BY <1>2, <1>7, <1>8 DEF Addressed
<1>10. Single(e)'
  BY <1>2, <1>7, <1>8 DEF Single, EditionSound
<1>11. ASSUME NEW r \in Ids \ {n}, record[r].state = "redirected", record[r].edition = e
       PROVE  Upset(e)' \/ record'[record[r].target].state = "active"
  <2>1. CASE ~Upset(e)
    <3>1. record[r].target \in Live(e)
      BY <1>11, <2>1 DEF RedirectSound, Known, Live, In, Present
    <3> QED BY <1>2, <2>1, <3>1
  <2>2. CASE Upset(e)
    BY <2>2, UpsetStays DEF Closes
  <2> QED BY <2>1, <2>2
<1> QED BY <1>1, <1>6, <1>9, <1>10, <1>11, RewritesSound

\* An activation: the reserved record becomes active, or an active one stands.
LEMMA ActivateCommits ==
  ASSUME UrlInv, NEW e \in Editions, Commit(e), locked[e].kind = "activate",
         Closes(e), record' = Written(e), Revived(e)' <=> Revived(e),
         ~Upset(e)' => ~Upset(e)
                       /\ (locked[e].id \in Ids => record[locked[e].id].state = "reserved")
  PROVE  UrlInv'
<1> USE DEF UrlInv
<1> DEFINE k == locked[e]
<1>1. ~Unlocked(e) /\ k # Closed
  BY DEF Commit, Unlocked
<1>2. /\ k.id # None => Known(k.id, e)
      /\ k.id = None /\ ~Revived(e) => In({"active"}, e) # {}
  BY <1>1 DEF EditionSound, LockSound
<1>3. row'[e] = "published"
  BY OutcomeIs DEF Closes
<1>4. Upset(e) => Upset(e)'
  BY UpsetStays DEF Closes
<1>5. \A r \in Ids : record[r].state = "redirected" /\ record[r].edition = e
        => Upset(e) \/ (record[r].target \in Ids /\ record[record[r].target].state = "active")
  BY DEF RedirectSound, Known
<1>6. In({"active"}, e) \subseteq Live(e)
  BY DEF Live, In
<1>7. CASE k.id = None
  <2>1. record' = record
    BY <1>7 DEF Written
  <2>2. Rewrites(e, {})
    BY <2>1 DEF Rewrites, UrlTypeOK
  <2>3. Addressed(e)' /\ Single(e)'
    BY <1>2, <1>3, <1>6, <1>7, <2>1, SameRecords DEF Addressed, Single, EditionSound
  <2> QED BY <1>1, <1>4, <1>5, <2>1, <2>2, <2>3, RewritesSound
<1>8. CASE k.id # None
  <2>1. PICK i \in Ids : i = k.id /\ record[i] \in RealRecords /\ record[i].edition = e
    BY <1>2, <1>8, RecordsAre DEF Known
  <2> DEFINE new == Record(e, record[i].path, "active", None)
  <2>2. new \in Records /\ new.state = "active" /\ new.edition = e
    BY <2>1, RecordIs DEF RecordStates, RealRecords
  <2>3. record' = [record EXCEPT ![i] = new]
    BY <1>8, <2>1 DEF Written, Activated, Rewritten, UrlTypeOK
  <2> HIDE DEF new
  <2>4. \A j \in Ids : record'[j] = IF j = i THEN new ELSE record[j]
    BY <2>3 DEF UrlTypeOK
  <2>5. Rewrites(e, {i})
    BY <2>1, <2>2, <2>3, <2>4 DEF Rewrites, UrlTypeOK
  <2>6. /\ i \in In({"active"}, e)' /\ i \in Live(e)'
        /\ \A j \in Live(e)' : j = i \/ j \in Live(e)
    BY <2>2, <2>4 DEF Live, In, Present
  <2>7. Addressed(e)'
    BY <2>6 DEF Addressed
  <2>8. Single(e)'
    <3>1. ~Upset(e)' => i \in Live(e)
      BY <2>1 DEF Live, In, Present
    <3> QED BY <1>3, <2>6, <3>1 DEF Single, EditionSound
  <2>9. ASSUME NEW r \in Ids \ {i}, record[r].state = "redirected", record[r].edition = e
        PROVE  Upset(e)' \/ record'[record[r].target].state = "active"
    BY <1>4, <1>5, <2>2, <2>4, <2>9
  <2> QED BY <1>1, <2>5, <2>7, <2>8, <2>9, RewritesSound
<1> QED BY <1>7, <1>8

\* The end of an assignment: its record goes, and its redirects with it.
LEMMA EndCommits ==
  ASSUME UrlInv, NEW e \in Editions, Commit(e), locked[e].kind \in {"takedown", "drop"},
         Closes(e), record' = Written(e),
         ~Upset(e)' =>
           /\ ~Upset(e)
           /\ locked[e].kind = "takedown" /\ locked[e].id \in Ids => record[locked[e].id].state = "active"
           /\ locked[e].kind = "drop" => In({"active"}, e) = {}
  PROVE  UrlInv'
<1> USE DEF UrlInv
<1> DEFINE k == locked[e]
           state == IF k.kind = "takedown" THEN "gone" ELSE "deleted"
<1>1. ~Unlocked(e) /\ k # Closed
  BY DEF Commit, Unlocked
<1>2. /\ k.id # None => Known(k.id, e)
      /\ k.kind = "takedown" => k.id # None
  BY <1>1 DEF EditionSound, LockSound
<1>3. row'[e] \in {"absent", "unpublished"}
  BY OutcomeIs DEF Closes
<1> DEFINE mid == IF k.id = None THEN record ELSE Rewritten(k.id, state)
<1>4. \A j \in Ids : record'[j] = IF mid[j].state = "redirected" /\ mid[j].edition = e
                                    THEN Record(e, mid[j].path, "gone", None) ELSE mid[j]
  <2>1. record' = GoneWithRedirects(mid, e)
    BY <1>2 DEF Written
  <2> HIDE DEF mid
  <2> QED BY <2>1 DEF GoneWithRedirects
<1>5. \A j \in Ids : /\ j # k.id => mid[j] = record[j]
                     /\ j = k.id => /\ mid[j] = Record(e, record[j].path, state, None)
                                    /\ record[j] \in RealRecords /\ record[j].edition = e
  <2>1. CASE k.id = None
    BY <2>1, RecordsAre
  <2>2. CASE k.id # None
    <3>1. k.id \in Ids /\ record[k.id] \in RealRecords /\ record[k.id].edition = e
      BY <1>2, <2>2, RecordsAre DEF Known
    <3> QED BY <2>2, <3>1 DEF Rewritten, UrlTypeOK
  <2> QED BY <2>1, <2>2
<1>6. ASSUME NEW j \in Ids
      PROVE  /\ j = k.id => /\ record'[j] \in Records /\ record'[j].state = state
                            /\ record'[j].edition = e /\ record[j].edition = e
             /\ j # k.id /\ record[j].state = "redirected" /\ record[j].edition = e
                  => /\ record'[j] \in Records /\ record'[j].state = "gone"
                     /\ record'[j].edition = e
             /\ j # k.id /\ ~(record[j].state = "redirected" /\ record[j].edition = e)
                  => record'[j] = record[j]
  <2>0. state \in {"gone", "deleted"}
    OBVIOUS
  <2> HIDE DEF mid, state
  <2>1. CASE j = k.id
    <3>1. record[j].path \in Paths
      BY <1>5, <2>1 DEF RealRecords
    <3>2. mid[j] \in Records /\ mid[j].state = state /\ mid[j].edition = e
      BY <1>5, <2>0, <2>1, <3>1, RecordIs DEF RecordStates
    <3> QED BY <1>4, <1>5, <2>0, <2>1, <3>2
  <2>2. CASE j # k.id /\ record[j].state = "redirected" /\ record[j].edition = e
    <3>1. record[j].path \in Paths
      BY <2>2, RecordsAre DEF RealRecords
    <3>2. record'[j] = Record(e, record[j].path, "gone", None)
      BY <1>4, <1>5, <2>2
    <3> QED BY <2>2, <3>1, <3>2, RecordIs DEF RecordStates
  <2>3. CASE j # k.id /\ ~(record[j].state = "redirected" /\ record[j].edition = e)
    BY <1>4, <1>5, <2>3
  <2> QED BY <2>1, <2>2, <2>3
<1> DEFINE T == {j \in Ids : j = k.id \/ (record[j].state = "redirected" /\ record[j].edition = e)}
<1>7. Rewrites(e, T)
  <2>1. DOMAIN record' = Ids /\ record' = [j \in Ids |-> record'[j]]
    <3>1. record' = GoneWithRedirects(mid, e)
      BY <1>2 DEF Written
    <3> HIDE DEF mid
    <3> QED BY <3>1 DEF GoneWithRedirects
  <2>2. \A j \in Ids : record'[j] \in Records
    <3>1. \A j \in Ids : record[j] \in Records
      BY RecordsAre
    <3> QED BY <1>6, <3>1
  <2>3. record' \in [Ids -> Records]
    BY <2>1, <2>2
  <2> QED BY <1>6, <2>3 DEF Rewrites
<1>8. \A j \in Live(e)' : j \in Live(e) /\ j # k.id
  BY <1>6 DEF Live, In, Present
<1>9. Addressed(e)'
  BY <1>3 DEF Addressed, Member
<1>10. Single(e)'
  <2> SUFFICES ASSUME ~Upset(e)' PROVE Single(e)'
    BY DEF Single
  <2>1. \A i, j \in Live(e) : i = j
    BY DEF EditionSound, Single
  <2>2. In({"active"}, e)' = {}
    <3> SUFFICES ASSUME NEW j \in In({"active"}, e)' PROVE FALSE
      OBVIOUS
    <3>1. j \in Ids /\ j # k.id /\ record[j].state = "active" /\ record[j].edition = e
      BY <1>6 DEF In, Present
    <3>2. j \in In({"active"}, e) /\ j \in Live(e)
      BY <3>1 DEF In, Present, Live
    <3>3. k.kind = "takedown"
      BY <3>2
    <3>4. k.id \in Live(e)
      BY <1>2, <3>3 DEF Known, Live, In, Present
    <3> QED BY <2>1, <3>1, <3>2, <3>4
  <2>3. In({"redirected"}, e)' = {}
    BY <1>6 DEF In, Present
  <2>4. In({"active", "redirected"}, e)' = In({"active"}, e)' \cup In({"redirected"}, e)'
    BY DEF In
  <2> QED BY <1>8, <2>1, <2>2, <2>3, <2>4 DEF Single
<1> QED BY <1>1, <1>7, <1>9, <1>10, RewritesSound

LEMMA CommitSound ==
  ASSUME UrlInv, NEW e \in Editions, Commit(e)
  PROVE  UrlInv'
<1> DEFINE kind == locked[e].kind
           i == locked[e].id
<1>1. kind \in {"approve", "add", "activate", "takedown", "drop"} /\ ~Unlocked(e)
  BY LockIs, CommitIs DEF UrlInv
<1>2. CASE /\ Inserts(e) => Insertable(locked[e].path)
           /\ record' = Written(e) /\ Closes(e)
           /\ Revived(e)' <=> Revived(e)
           /\ ~Upset(e)' => /\ ~Upset(e)
                            /\ i \in Ids => record[i].state = ReadState(kind)
                            /\ kind = "drop" => In({"active"}, e) = {}
  <2>1. kind = "activate" => ReadState(kind) = "reserved"
    BY DEF ReadState
  <2>2. kind = "takedown" => ReadState(kind) = "active"
    BY DEF ReadState
  <2>3. CASE kind \in {"approve", "add"}
    BY <1>2, <2>3, ReserveCommits
  <2>4. CASE kind = "activate"
    BY <1>2, <2>1, <2>4, ActivateCommits
  <2>5. CASE kind \in {"takedown", "drop"}
    BY <1>2, <2>2, <2>5, EndCommits
  <2> QED BY <1>1, <2>3, <2>4, <2>5
<1>3. CASE /\ UNCHANGED <<status, row, record, upset, rename>>
           /\ locked' = [locked EXCEPT ![e] = Closed]
  <2>1. UrlTypeOK' /\ locked'[e] = Closed /\ \A f \in Editions \ {e} : Aside(f)
    BY <1>3 DEF UrlInv, UrlTypeOK, Transactions, Aside
  <2>2. EditionSound(e)'
    BY <1>3, <2>1, SameRecords
    DEF UrlInv, EditionSound, LockSound, Addressed, Single, Member, Upset, Revived
  <2> QED BY <1>3, <2>1, <2>2, QuietSound
<1> QED BY <1>2, <1>3, CommitIs

(***************************************************************************)
(* Renaming.                                                               *)
(***************************************************************************)
LEMMA ReadRenameSound ==
  ASSUME UrlInv, NEW t \in Renames, NEW i \in Ids, NEW p \in Paths, ReadRename(t, i, p)
  PROVE  UrlInv'
<1> USE DEF UrlInv
<1> DEFINE open == [kind |-> "rename", id |-> i, path |-> p]
<1>1. open \in Renamings /\ open.id = i
  BY DEF Renamings
<1>2. /\ record[i].state = "active"
      /\ rename' = [rename EXCEPT ![t] = open]
      /\ UNCHANGED <<status, row, record, locked, upset>>
  BY DEF ReadRename
<1> HIDE DEF open
<1>3. UrlTypeOK' /\ rename'[t] = open /\ \A u \in Renames \ {t} : rename'[u] = rename[u]
  BY <1>1, <1>2 DEF UrlTypeOK
<1>4. \A f \in Editions : EditionSound(f)'
  <2>1. \A f \in Editions : Aside(f)
    BY <1>2 DEF Aside
  <2> QED BY <1>3, <2>1, AsideSound
<1>5. RenameSound(t)'
  <2>1. \A r \in Ids : record[r].state = "redirected" => record[r].target # i
    BY DEF ReadRename, GraphAllows, Present
  <2> QED BY <1>1, <1>2, <1>3, <2>1 DEF RenameSound
<1>6. \A u \in Renames : RenameSound(u)'
  BY <1>2, <1>3, <1>5 DEF RenameSound
<1>7. \A r \in Ids : RedirectSound(r)'
  BY <1>2, SameRecords DEF RedirectSound, Upset
<1> QED BY <1>3, <1>4, <1>6, <1>7

\* A renaming of record i of e that is written: n is the record inserted.
RenamedTo(t, i, n, e) ==
  /\ rename[t] # Closed /\ i = rename[t].id /\ e = record[i].edition
  /\ rename' = [rename EXCEPT ![t] = Closed]
  /\ UNCHANGED <<status, row, locked>>
  /\ n \in Ids /\ record[n].state = "none" /\ n # i
  /\ i \in Ids /\ record[i] \in RealRecords /\ e \in Editions
  /\ record' \in [Ids -> Records]
  /\ record'[n].state = "active" /\ record'[n].edition = e
  /\ \A j \in Ids \ {n, i} : record'[j] = record[j]
  /\ record[i].state = "deleted" => record'[i] = record[i]
  /\ record[i].state # "deleted" => /\ record'[i].state = "redirected"
                                    /\ record'[i].edition = e /\ record'[i].target = n
  /\ upset \subseteq upset' /\ upset' \subseteq Editions \X {"overtaken", "dropped", "revived"}
  /\ Revived(e)' <=> Revived(e)
  /\ \A f \in Editions \ {e} : \A cause : <<f, cause>> \in upset' <=> <<f, cause>> \in upset
  /\ ~Upset(e)' => ~Upset(e) /\ record[i].state = "active"

LEMMA CommitRenameIs ==
  ASSUME UrlInv, NEW t \in Renames, CommitRename(t)
  PROVE  \/ /\ UNCHANGED <<status, row, record, locked, upset>>
            /\ rename' = [rename EXCEPT ![t] = Closed]
         \/ \E i, n \in Ids, e \in Editions : RenamedTo(t, i, n, e)
<1> USE DEF UrlInv
<1>1. PICK i \in Ids, p \in Paths : rename[t] # Closed /\ i = rename[t].id /\ p = rename[t].path
  BY RenameIs DEF CommitRename
<1>2. record[i].state # "none"
  BY <1>1 DEF RenameSound
<1>3. PICK e \in Editions : /\ e = record[i].edition
                           /\ record[i] \in RealRecords /\ record[i].path \in Paths
  <2>1. record[i] \in RealRecords
    BY <1>1, <1>2, RecordsAre
  <2> QED BY <2>1 DEF RealRecords
<1> DEFINE over == Overtaken(i, "active")
<1>4. CASE UNCHANGED <<record, upset>>
  BY <1>1, <1>4 DEF CommitRename
<1>5. CASE Insertable(p) /\ record' = Renamed(i, p)
           /\ upset' = upset \cup {<<e, "overtaken">> : x \in over}
  <2>1. PICK n \in Ids : n = NextId /\ record[n].state = "none"
    BY <1>5, NextIdIs DEF Insertable
  <2> DEFINE new == Record(e, p, "active", None)
             old == Record(e, record[i].path, "redirected", n)
  <2>2. n # i
    BY <1>2, <2>1
  <2>3. new \in Records /\ new.state = "active" /\ new.edition = e
    BY <1>1, <1>3, RecordIs DEF RecordStates
  <2>4. old \in Records /\ old.state = "redirected" /\ old.edition = e /\ old.target = n
    BY <1>1, <1>3, <2>1, RecordIs DEF RecordStates
  <2>5. /\ record \in [Ids -> Records]
        /\ record[i].state = "deleted" => record' = [record EXCEPT ![n] = new]
        /\ record[i].state # "deleted" => record' = [[record EXCEPT ![n] = new] EXCEPT ![i] = old]
    <3>1. record \in [Ids -> Records]
      BY DEF UrlTypeOK
    <3>2. Insert(e, p, "active") = [record EXCEPT ![n] = new]
      BY <2>1 DEF Insert
    <3>3. [record EXCEPT ![n] = new][i] = record[i]
      BY <1>1, <2>2, <3>1
    <3> HIDE DEF new
    <3> QED BY <1>1, <1>3, <1>5, <2>1, <3>1, <3>2, <3>3 DEF Renamed
  <2> HIDE DEF new, old
  <2>6. record' \in [Ids -> Records]
    BY <1>1, <2>1, <2>3, <2>4, <2>5
  <2>7. /\ record'[n].state = "active" /\ record'[n].edition = e
        /\ \A j \in Ids \ {n, i} : record'[j] = record[j]
        /\ record[i].state = "deleted" => record'[i] = record[i]
        /\ record[i].state # "deleted" => record'[i] = old
    BY <1>1, <2>1, <2>2, <2>3, <2>5
  <2>8. /\ upset \subseteq upset' /\ upset' \subseteq Editions \X {"overtaken", "dropped", "revived"}
        /\ Revived(e)' <=> Revived(e)
        /\ \A f \in Editions \ {e} : \A cause : <<f, cause>> \in upset' <=> <<f, cause>> \in upset
    BY <1>3, <1>5 DEF UrlTypeOK, Revived
  <2>9. over # {} => <<e, "overtaken">> \in upset'
    BY <1>5
  <2>10. over = {} => record[i].state = "active"
    BY <1>1 DEF Overtaken
  <2>11. RenamedTo(t, i, n, e)
    BY <1>1, <1>3, <2>1, <2>2, <2>4, <2>6, <2>7, <2>8, <2>9, <2>10
    DEF RenamedTo, CommitRename, Upset, Revived
  <2> QED BY <2>11
<1> QED BY <1>1, <1>3, <1>4, <1>5 DEF CommitRename

LEMMA RenamedToSound ==
  ASSUME UrlInv, NEW t \in Renames, NEW i \in Ids, NEW n \in Ids, NEW e \in Editions,
         RenamedTo(t, i, n, e)
  PROVE  UrlInv'
<1> USE DEF UrlInv
<1>1. /\ record[n].state = "none" /\ n # i /\ record[i].state # "none" /\ record[i].edition = e
      /\ record'[n].state = "active" /\ record'[n].edition = e
      /\ \A j \in Ids \ {n, i} : record'[j] = record[j]
      /\ record'[i] = record[i] \/ (record'[i].state = "redirected" /\ record'[i].edition = e
                                    /\ record'[i].target = n)
      /\ record[i].state # "deleted" => record'[i].state = "redirected" /\ record'[i].target = n
      /\ ~Upset(e)' => ~Upset(e) /\ record[i].state = "active"
  BY DEF RenamedTo, RealRecords, RecordStates
<1>2. UrlTypeOK' /\ rename'[t] = Closed /\ \A u \in Renames \ {t} : rename'[u] = rename[u]
  BY DEF RenamedTo, UrlTypeOK, Renamings
<1>3. UNCHANGED <<status, row, locked>> /\ upset \subseteq upset'
  BY DEF RenamedTo
<1>4. Keeps
  BY <1>1 DEF Keeps
<1>5. ASSUME NEW f \in Editions \ {e} PROVE EditionSound(f)'
  <2>1. Aside(f)
    BY <1>1, <1>3 DEF Aside, RenamedTo, OfEdition
  <2> QED BY <1>2, <2>1, AsideSound
<1>6. /\ n \in In({"active"}, e)' /\ n \in Live(e)'
      /\ In({"reserved"}, e)' \subseteq In({"reserved"}, e)
      /\ \A j \in Live(e)' : j = n \/ j \in Live(e)
      /\ record[i].state # "deleted" => i \notin Live(e)'
      /\ record[i].state = "active" => i \in Live(e) /\ i \in In({"active", "redirected"}, e)
  BY <1>1 DEF Live, In, Present
<1>7. (Revived(e)' <=> Revived(e)) /\ (Member(e)' <=> Member(e))
  BY <1>3 DEF RenamedTo, Member
<1>8. LockSound(e)'
  <2> SUFFICES ASSUME NEW k, k = locked[e], k = locked'[e], k # Closed PROVE LockSound(e)'
    BY <1>3 DEF LockSound
  <2>1. LockSound(e)
    BY DEF EditionSound
  <2>2. k.id # None => Known(k.id, e)'
    BY <1>4, <2>1, KnownStays DEF LockSound
  <2>3. ~Upset(e)' => Live(e) # {} /\ ~Upset(e)
    BY <1>1, <1>6
  <2> QED BY <1>3, <1>6, <1>7, <2>1, <2>2, <2>3 DEF LockSound
<1>9. Addressed(e)'
  BY <1>6 DEF Addressed
<1>10. Single(e)'
  <2> SUFFICES ASSUME ~Upset(e)' PROVE Single(e)'
    BY DEF Single
  <2>1. ~Upset(e) /\ record[i].state = "active"
    BY <1>1
  <2>2. \A j \in Live(e)' : j = n
    BY <1>6, <2>1 DEF EditionSound, Single
  <2>3. row'[e] \notin {"absent", "unpublished"}
    BY <1>3, <1>6, <2>1 DEF EditionSound, Single
  <2> QED BY <2>2, <2>3 DEF Single
<1>11. EditionSound(e)'
  BY <1>8, <1>9, <1>10 DEF EditionSound
<1>12. ASSUME NEW u \in Renames PROVE RenameSound(u)'
  <2>1. CASE u = t
    BY <1>2, <2>1 DEF RenameSound
  <2>2. CASE u # t /\ rename[u] = Closed
    BY <1>2, <2>2 DEF RenameSound
  <2>3. CASE u # t /\ rename[u] # Closed
    <3> DEFINE x == rename[u].id
    <3>1. x \in Ids /\ record[x].state # "none"
          /\ \A r \in Ids : record[r].state = "redirected" => record[r].target # x
      BY <2>3, RenameIs DEF RenameSound
    <3>2. record'[x].state # "none" /\ x # n
      BY <1>1, <1>4, <3>1 DEF Keeps
    <3>3. ASSUME NEW r \in Ids, record'[r].state = "redirected" PROVE record'[r].target # x
      BY <1>1, <3>1, <3>2, <3>3
    <3> QED BY <1>2, <2>3, <3>2, <3>3 DEF RenameSound
  <2> QED BY <2>1, <2>2, <2>3
<1>13. ASSUME NEW r \in Ids PROVE RedirectSound(r)'
  <2>1. CASE record'[r] = record[r] /\ record[r].state = "redirected"
    <3> DEFINE x == record[r].target
    <3>1. /\ x \in Ids /\ record[x].state # "none"
          /\ ~Upset(record[r].edition) => record[x].state = "active"
      BY <2>1 DEF RedirectSound, Known
    <3>2. x # n /\ x # i
      <4>1. i = rename[t].id /\ rename[t] # Closed
        BY DEF RenamedTo
      <4> QED BY <1>1, <2>1, <3>1, <4>1 DEF RenameSound
    <3>3. record'[x] = record[x]
      BY <1>1, <3>1, <3>2
    <3> QED BY <1>3, <1>4, <2>1, <3>1, <3>3, UpsetStays, RedirectStaysSound
  <2>2. CASE r = i /\ record'[i].state = "redirected" /\ record'[i] # record[i]
    BY <1>1, <2>2 DEF RedirectSound, Known
  <2>3. CASE record'[r].state # "redirected"
    BY <2>3 DEF RedirectSound
  <2> QED BY <1>1, <2>1, <2>2, <2>3
<1> QED BY <1>2, <1>5, <1>11, <1>12, <1>13

LEMMA CommitRenameSound ==
  ASSUME UrlInv, NEW t \in Renames, CommitRename(t)
  PROVE  UrlInv'
<1>1. CASE UNCHANGED <<status, row, record, locked, upset>> /\ rename' = [rename EXCEPT ![t] = Closed]
  <2> USE DEF UrlInv
  <2>1. UrlTypeOK' /\ \A u \in Renames : rename'[u] = Closed \/ rename'[u] = rename[u]
    BY <1>1 DEF UrlTypeOK, Renamings
  <2>2. \A f \in Editions : EditionSound(f)'
    <3>1. \A f \in Editions : Aside(f)
      BY <1>1 DEF Aside
    <3> QED BY <2>1, <3>1, AsideSound
  <2>3. \A u \in Renames : RenameSound(u)'
    BY <1>1, <2>1 DEF RenameSound
  <2>4. \A r \in Ids : RedirectSound(r)'
    BY <1>1, SameRecords DEF RedirectSound, Upset
  <2> QED BY <2>1, <2>2, <2>3, <2>4
<1>2. CASE \E i, n \in Ids, e \in Editions : RenamedTo(t, i, n, e)
  BY <1>2, RenamedToSound
<1> QED BY <1>1, <1>2, CommitRenameIs

LEMMA UrlStutterSound == UrlInv /\ UNCHANGED urlVars => UrlInv'
<1> SUFFICES ASSUME UrlInv, UNCHANGED urlVars PROVE UrlInv'
  OBVIOUS
<1> USE DEF UrlInv, urlVars
<1>1. UrlTypeOK'
  BY DEF UrlTypeOK
<1>2. \A f \in Editions : EditionSound(f)'
  <2>1. \A f \in Editions : Aside(f)
    BY DEF Aside
  <2> QED BY <1>1, <2>1, AsideSound
<1>3. \A u \in Renames : RenameSound(u)'
  BY DEF RenameSound
<1>4. \A r \in Ids : RedirectSound(r)'
  BY SameRecords DEF RedirectSound, Upset
<1> QED BY <1>1, <1>2, <1>3, <1>4

LEMMA UrlStepSound == UrlInv /\ [UrlNext]_urlVars => UrlInv'
<1> SUFFICES ASSUME UrlInv, [UrlNext]_urlVars PROVE UrlInv'
  OBVIOUS
<1>1. ASSUME NEW e \in Editions, Move(e, "draft") \/ Move(e, "archived") PROVE UrlInv'
  BY <1>1, MoveSound
<1>2. ASSUME NEW e \in Editions, Compile(e) PROVE UrlInv'
  BY <1>2, CompileSound
<1>3. ASSUME NEW e \in Editions, ApproveElsewhere(e) PROVE UrlInv'
  BY <1>3, ApproveElsewhereSound
<1>4. ASSUME NEW e \in Editions, NEW kind \in {"approve", "add"}, ReserveLive(e, kind) PROVE UrlInv'
  BY <1>4, ReserveLiveSound
<1>5. ASSUME NEW e \in Editions, NEW kind \in {"approve", "add"}, ReadReserve(e, kind) PROVE UrlInv'
  BY <1>5, ReadsSound
<1>6. ASSUME NEW e \in Editions, ReadActivate(e) \/ ReadTakedown(e) \/ ReadDrop(e) PROVE UrlInv'
  BY <1>6, ReadsSound
<1>7. ASSUME NEW e \in Editions, Commit(e) PROVE UrlInv'
  BY <1>7, CommitSound
<1>8. ASSUME NEW t \in Renames, CommitRename(t) PROVE UrlInv'
  BY <1>8, CommitRenameSound
<1>9. ASSUME NEW t \in Renames, NEW i \in Ids, NEW p \in Paths, ReadRename(t, i, p) PROVE UrlInv'
  BY <1>9, ReadRenameSound
<1>10. CASE UNCHANGED urlVars
  BY <1>10, UrlStutterSound
<1> QED BY <1>1, <1>2, <1>3, <1>4, <1>5, <1>6, <1>7, <1>8, <1>9, <1>10 DEF UrlNext

LEMMA UrlInvariant == UrlSpec => []UrlInv
  BY UrlInitSound, UrlStepSound, PTL DEF UrlSpec

(***************************************************************************)
(* What the runs check.                                                    *)
(***************************************************************************)
LEMMA PublishedKept ==
  ASSUME UrlInv
  PROVE  PublishedKeepsAddress
  BY DEF UrlInv, EditionSound, Addressed, Revived, PublishedKeepsAddress

LEMMA OneAddress ==
  ASSUME UrlInv
  PROVE  OneAddressWhileAssigned
<1> SUFFICES ASSUME NEW e \in Editions, ~Upset(e) PROVE Cardinality(Live(e)) <= 1
  BY DEF UrlInv, EditionSound, Single, OneAddressWhileAssigned
<1>1. \A i, j \in Live(e) : i = j
  BY DEF UrlInv, EditionSound, Single
<1>2. CASE Live(e) = {}
  BY <1>2, FS_EmptySet
<1>3. CASE Live(e) # {}
  <2>1. PICK i : Live(e) = {i}
    BY <1>1, <1>3
  <2>2. Cardinality({i}) = 1
    BY FS_Singleton
  <2> QED BY <2>1, <2>2
<1> QED BY <1>2, <1>3

LEMMA RedirectsLead ==
  ASSUME UrlInv
  PROVE  RedirectsLeadToPages
<1> SUFFICES ASSUME NEW r \in Present, record[r].state = "redirected",
                    ~Upset(record[r].edition), ~Hidden(record[r].edition)
             PROVE  Leads(r)
  BY DEF RedirectsLeadToPages
<1> USE DEF UrlInv
<1>1. PICK e \in Editions : e = record[r].edition
  <2>1. r \in Ids /\ record[r] \in RealRecords
    BY RecordsAre DEF Present
  <2> QED BY <2>1 DEF RealRecords
<1>2. PICK x \in Ids : x = record[r].target /\ record[x].edition = e /\ record[x].state = "active"
  BY <1>1 DEF RedirectSound, Known, Present
<1>3. x \in In({"active"}, e) /\ x \in Live(e)
  BY <1>2 DEF Live, In, Present
<1>4. In({"active"}, e) = {x} /\ Live(e) = {x}
  <2>1. \A i \in Live(e) : i = x
    BY <1>1, <1>3 DEF EditionSound, Single
  <2>2. In({"active"}, e) \subseteq Live(e)
    BY DEF Live, In
  <2> QED BY <1>3, <2>1, <2>2
<1>5. Member(e)
  <2>1. r \in In({"active", "redirected"}, e)
    BY <1>1 DEF In
  <2>2. row[e] \notin {"absent", "unpublished"}
    BY <1>1, <2>1 DEF EditionSound, Single
  <2> QED BY <2>2 DEF UrlTypeOK, Member
<1>6. Shown(e)
  BY <1>1, <1>5 DEF Shown, Hidden, Member
<1>7. Pages(e) = {x}
  BY <1>4, <1>6 DEF Pages
<1> QED BY <1>2, <1>7 DEF Leads

\* Whatever editions, paths and renamings a site has: the statuses, assignments, records
\* and open transactions keep their types, and what happened to an edition is of the
\* three kinds the history tells apart.
THEOREM UrlTypesCorrect == UrlSpec => []UrlTypeOK
<1>1. UrlInv => UrlTypeOK
  BY DEF UrlInv
<1> QED BY <1>1, UrlInvariant, PTL

\* Assignments, addresses and redirects agree for any number of editions and of
\* renamings racing the transactions under the lock: what is published has an active
\* address, an edition no renaming overtook has one address while it is assigned and
\* none after, and every redirect leads to the page of its edition
\* (reserveEditionUrlWithinTx, activatePublishedEditionUrl, markUrlGone, renameUrl).
THEOREM AddressesAlwaysAgree == UrlSpec => []AddressesAgree
<1>1. UrlInv => AddressesAgree
  BY PublishedKept, OneAddress, RedirectsLead DEF AddressesAgree
<1> QED BY <1>1, UrlInvariant, PTL
===============================================================================
