------------------------------ MODULE RoutingSync ------------------------------
(***************************************************************************)
(* The global routing manifest: which host the serving plane answers for   *)
(* which site.  The control plane's list (active sites with a domain and a *)
(* release) is the source; a worker reads it, stores it as a manifest and  *)
(* moves the routing pointer.  It does so at the end of every publish      *)
(* operation and for a job of its own, which the console queues when the   *)
(* status of a site changes.                                               *)
(*                                                                         *)
(* Console requests are transactions: their job is there from the commit   *)
(* on, while what it may be merged with was read before.                   *)
(***************************************************************************)
EXTENDS Integers, Sequences, FiniteSets

CONSTANTS Sites, Calls, Workers,
          Names,        \* the domain names a site may have, one at a time; sites share none
          Plots,        \* bounds of a behaviour: records of workers, changes, renames,
                        \* publishes, rollbacks, faults
          MaxJobs,      \* bound on the jobs a plot allows
          MaxAttempts,  \* attempts of an operation in one delivery
          RetryLimit    \* deliveries of a job after its first

ASSUME RoutingSyncAssumption ==
  /\ MaxAttempts \in Nat \ {0} /\ {RetryLimit, MaxJobs} \subseteq Nat
  /\ IsFiniteSet(Calls) /\ IsFiniteSet(Workers) /\ Sites # {} /\ "first" \in Names
  /\ \A b \in Plots : /\ b.workers \subseteq Workers
                      /\ {b.changes, b.renames, b.publishes, b.rollbacks, b.faults} \subseteq Nat
                      /\ b.changes + b.publishes + b.rollbacks <= MaxJobs

NoName == "none"
NoJob == 0

VARIABLES plot,      \* the bounds of this behaviour
          site,      \* rows of sites, with their canonical domain and whether they have
                     \* a release on record
          live,      \* the domain the release was compiled for that the site's pointer names
          previous,  \* the same of the release before it
          routes,    \* the manifest the routing pointer names: a domain for each site
          job,       \* rows of the publish queue
          call,      \* updateSite transactions
          worker,
          behind,    \* sites whose listing changed while nothing was going to read the list,
                     \* for one of the reasons Remember is given (for the properties only)
          used       \* how much of the bounds was used

vars == <<plot, site, live, previous, routes, job, call, worker, behind, used>>
console == <<site, call>>
remote == <<live, previous, routes>>

Domains == Names \cup {NoName}
Listings == [Sites -> Domains]
Unrouted == [s \in Sites |-> NoName]

Rows == DOMAIN job
JobKinds == {"sync", "publish", "rollback"}
JobStates == {"created", "active", "retry", "completed", "gave up"}
\* name: the domain the release of the operation was compiled for.
NewJob(kind, s, name) == [kind |-> kind, site |-> s, name |-> name,
                          state |-> "created", tries |-> 0]
SetJob(i, state) == job' = [job EXCEPT ![i].state = state]

NoCall(c) == call[c].step = "idle"
Steps == {"idle", "publish", "register", "rollback", "list", "check", "head", "swap", "done"}
NoWork == [step |-> "idle", job |-> NoJob, attempt |-> 1, listing |-> Unrouted, fresh |-> FALSE]
At(w, step) == worker[w].step = step
GoTo(w, step) == worker' = [worker EXCEPT ![w].step = step]

TypeOK ==
  /\ plot \in Plots
  /\ site \in [Sites -> [active: BOOLEAN, name: Domains, released: BOOLEAN]]
  /\ live \in Listings /\ previous \in Listings /\ routes \in Listings
  /\ Len(job) <= MaxJobs
  /\ \A i \in Rows : job[i] \in [kind: JobKinds, site: Sites, name: Domains,
                                 state: JobStates, tries: 0..RetryLimit]
  /\ \A c \in Calls : call[c] \in [step: {"idle", "write", "commit"}, site: Sites,
                                   seen: BOOLEAN, to: BOOLEAN, sent: BOOLEAN, waited: BOOLEAN]
  /\ worker \in [Workers -> [step: Steps, job: Rows \cup {NoJob}, attempt: 1..MaxAttempts,
                             listing: Listings, fresh: BOOLEAN]]
  /\ behind \subseteq Sites
  /\ \A k \in DOMAIN used : used[k] \in 0..plot[k]
  /\ \A i \in Rows : (job[i].state = "active") <=> \E w \in Workers : worker[w].job = i

\* publishedSiteHostsOf.
Listing == [s \in Sites |-> IF site[s].active /\ site[s].released THEN site[s].name ELSE NoName]
Listed(listing) == {s \in Sites : listing[s] # NoName}

\* Sites are active, with the first name; some have been released and routed.  The
\* objects of a released site may be missing, as after the loss of its bucket.
Init ==
  /\ plot \in Plots
  /\ \E released \in SUBSET Sites, lost \in SUBSET Sites :
       /\ lost \subseteq released /\ Cardinality(lost) <= plot.faults
       /\ site = [s \in Sites |-> [active |-> TRUE, name |-> "first", released |-> s \in released]]
       /\ live = [s \in Sites |-> IF s \in released \ lost THEN "first" ELSE NoName]
       /\ routes = [s \in Sites |-> IF s \in released THEN "first" ELSE NoName]
  /\ previous = Unrouted
  /\ job = <<>>
  /\ call = [c \in Calls |-> [step |-> "idle", site |-> CHOOSE s \in Sites : TRUE,
                              seen |-> TRUE, to |-> TRUE, sent |-> FALSE, waited |-> FALSE]]
  /\ worker = [w \in Workers |-> NoWork]
  /\ behind = {}
  /\ used = [changes |-> 0, renames |-> 0, publishes |-> 0, rollbacks |-> 0, faults |-> 0]

Use(k) == used[k] < plot[k] /\ used' = [used EXCEPT ![k] = @ + 1]

(***************************************************************************)
(* What the properties remember.                                           *)
(***************************************************************************)
Reads(kind) == kind \in {"sync", "publish"}
\* A job waits that will read the list, or a worker has yet to read it.
Upcoming(jobs) ==
  \/ \E i \in DOMAIN jobs : Reads(jobs[i].kind) /\ jobs[i].state \in {"created", "retry"}
  \/ \E w \in Workers : worker[w].step \in {"publish", "register", "list"}

\* excused: a change of s may come after the last read of the list.
Remember(s, jobs, excused) ==
  behind' = IF Listing'[s] = Listing[s] THEN behind
            ELSE IF excused /\ ~Upcoming(jobs) THEN behind \cup {s} ELSE behind \ {s}

(***************************************************************************)
(* The console.                                                            *)
(***************************************************************************)
\* updateSite, its read of the row: not locked.
OpenUpdate(c, s, to) ==
  /\ NoCall(c) /\ Use("changes")
  /\ call' = [call EXCEPT ![c] = [step |-> "write", site |-> s, seen |-> site[s].active,
                                  to |-> to, sent |-> FALSE, waited |-> FALSE]]
  /\ UNCHANGED <<plot, site, remote, job, worker, behind>>

\* sendRoutingSyncJobWithin: the queue has room for one routing job that no worker has
\* taken, so that a second one is not added; one of another open transaction is awaited.
SyncWaits == \E i \in Rows : job[i].kind = "sync" /\ job[i].state = "created"
\* (Used by no action: MergesWithAny, as if a job that was taken could still be added to.)
MergesWithAny == \E i \in Rows : job[i].kind = "sync" /\ job[i].state # "completed"
Merges == SyncWaits

\* Its write, which locks the row, and the send.
WriteSite(c) ==
  LET s == call[c].site
      changes == call[c].to # call[c].seen
  IN /\ call[c].step = "write"
     /\ \A d \in Calls : call[d].step = "commit" => call[d].site # s /\ ~(changes /\ call[d].sent)
     /\ call' = [call EXCEPT ![c].step = "commit", ![c].sent = changes /\ ~Merges,
                              ![c].waited = changes /\ SyncWaits]
     /\ UNCHANGED <<plot, site, remote, job, worker, behind, used>>

Idle(c) == [call[c] EXCEPT !.step = "idle", !.seen = TRUE, !.to = TRUE, !.sent = FALSE, !.waited = FALSE]
Close(c) == call' = [call EXCEPT ![c] = Idle(c)]

\* It may have compared with a status of the past, or its change may have been added to
\* a job that a worker took in the meantime.
CommitSite(c) ==
  LET s == call[c].site
      jobs == IF call[c].sent THEN Append(job, NewJob("sync", s, NoName)) ELSE job
  IN /\ call[c].step = "commit"
     /\ site' = [site EXCEPT ![s].active = call[c].to]
     /\ job' = jobs
     /\ Remember(s, jobs, call[c].seen = call[c].to \/ call[c].waited)
     /\ Close(c)
     /\ UNCHANGED <<plot, remote, worker, used>>

\* The transaction is rolled back.
AbortSite(c) ==
  /\ call[c].step \in {"write", "commit"} /\ Use("faults")
  /\ Close(c)
  /\ UNCHANGED <<plot, site, remote, job, worker, behind>>

\* createDomain and updateDomain, of the canonical domain: they queue nothing.
UpdateDomain(s, name) ==
  /\ name # site[s].name /\ Use("renames")
  /\ site' = [site EXCEPT ![s].name = name]
  /\ Remember(s, job, TRUE)
  /\ UNCHANGED <<plot, call, remote, job, worker>>

\* Operations of the site that its editors submit.
RequestPublish(s) ==
  /\ Use("publishes")
  /\ job' = Append(job, NewJob("publish", s, NoName))
  /\ UNCHANGED <<plot, console, remote, worker, behind>>

RequestRollback(s) ==
  /\ previous[s] # NoName /\ Use("rollbacks")
  /\ job' = Append(job, NewJob("rollback", s, previous[s]))
  /\ UNCHANGED <<plot, console, remote, worker, behind>>

(***************************************************************************)
(* The worker: the queue gives it one job at a time.                       *)
(***************************************************************************)
FirstStep(kind) == IF kind = "sync" THEN "list" ELSE kind
JobOf(w) == job[worker[w].job]
Rest(w) == worker' = [worker EXCEPT ![w] = NoWork]

Take(w, i) ==
  /\ At(w, "idle") /\ w \in plot.workers
  /\ \/ job[i].state = "retry"
     \/ job[i].state = "created" /\ \A k \in Rows : job[k].state = "created" => i <= k
  /\ SetJob(i, "active")
  /\ worker' = [worker EXCEPT ![w] = [NoWork EXCEPT !.step = FirstStep(job[i].kind), !.job = i]]
  /\ UNCHANGED <<plot, console, remote, behind, used>>

\* What the queue does with a job whose handler threw or vanished.  (Used by no action:
\* RedeliversForEver, without a limit.)
RedeliversForEver(i) == job' = [job EXCEPT ![i].state = "retry", ![i].tries = @ + 1]
Redeliver(i) ==
  job' = [job EXCEPT ![i].state = IF job[i].tries < RetryLimit THEN "retry" ELSE "gave up",
                     ![i].tries = IF job[i].tries < RetryLimit THEN @ + 1 ELSE @]

\* operationProcessor tries an operation again at once, and its last failure ends the
\* operation and its job; a routing job leaves the retries to the queue.
Throws(w) ==
  LET i == worker[w].job
      last == worker[w].attempt = MaxAttempts
  IN IF job[i].kind = "sync" THEN Redeliver(i) /\ Rest(w)
     ELSE IF last THEN SetJob(i, "gave up") /\ Rest(w)
     ELSE /\ worker' = [worker EXCEPT ![w] = [NoWork EXCEPT !.step = FirstStep(job[i].kind),
                                                         !.job = i, !.attempt = worker[w].attempt + 1]]
          /\ UNCHANGED job

\* TerminalJobError: the end of an operation; the queue does not know it.
FailsForGood(w) ==
  LET i == worker[w].job
  IN /\ IF job[i].kind = "sync" THEN Redeliver(i) ELSE SetJob(i, "gave up")
     /\ Rest(w)

\* Compile and publish: the snapshot needs a domain, and the release of an operation
\* only ever has one content.
Publish(w) ==
  LET i == worker[w].job
      s == job[i].site
      name == site[s].name
  IN /\ At(w, "publish")
     /\ \/ /\ name # NoName /\ job[i].name \in {NoName, name}
           /\ live' = [live EXCEPT ![s] = name]
           /\ previous' = IF job[i].name = NoName THEN [previous EXCEPT ![s] = live[s]] ELSE previous
           /\ job' = [job EXCEPT ![i].name = name]
           /\ GoTo(w, "register")
        \/ /\ name = NoName \/ job[i].name \notin {NoName, name}
           /\ Throws(w) /\ UNCHANGED <<live, previous>>
     /\ UNCHANGED <<plot, console, routes, behind, used>>

\* recordPublishedRelease.
Register(w) ==
  LET s == JobOf(w).site
  IN /\ At(w, "register")
     /\ site' = [site EXCEPT ![s].released = TRUE]
     /\ Remember(s, job, FALSE)
     /\ GoTo(w, "list")
     /\ UNCHANGED <<plot, call, remote, job, used>>

\* rollbackRelease and its receipt; one earlier release of a site is kept here.
Rollback(w) ==
  LET s == JobOf(w).site
  IN /\ At(w, "rollback")
     /\ live' = [live EXCEPT ![s] = JobOf(w).name]
     /\ previous' = [previous EXCEPT ![s] = NoName]
     /\ GoTo(w, "done")
     /\ UNCHANGED <<plot, console, routes, job, behind, used>>

\* syncGlobalRoutingManifest: the list is read, ...
ReadListing(w) ==
  /\ At(w, "list")
  /\ worker' = [worker EXCEPT ![w].listing = Listing, ![w].step = "check"]
  /\ UNCHANGED <<plot, console, remote, job, behind, used>>

\* ... publishRoutingManifest stores it under the hash of its content, looks for the
\* pointers of its sites, ...
\* (Used by no action: ServedInPart, which is content with one of them.)
ServedInPart(listing) == \E s \in Listed(listing) : live[s] # NoName
Served(listing) == \A s \in Listed(listing) : live[s] # NoName

CheckPointers(w) ==
  /\ At(w, "check")
  /\ \/ /\ Served(worker[w].listing)
        /\ GoTo(w, "head") /\ UNCHANGED job
     \/ ~Served(worker[w].listing) /\ FailsForGood(w)
  /\ UNCHANGED <<plot, console, remote, behind, used>>

\* ... reads the routing pointer, ...
HeadPointer(w) ==
  /\ At(w, "head")
  /\ worker' = [worker EXCEPT ![w].fresh = TRUE, ![w].step = "swap"]
  /\ UNCHANGED <<plot, console, remote, job, behind, used>>

\* ... and replaces it, or creates it, if nobody has since.  The pointer carries the
\* time, so that what it names is written again even when it is the same.
SwapRouting(w) ==
  /\ At(w, "swap")
  /\ \/ /\ worker[w].fresh
        /\ routes' = worker[w].listing
        /\ behind' = {s \in behind : worker[w].listing[s] # Listing[s]}
        /\ worker' = [v \in Workers |-> IF v = w THEN [worker[v] EXCEPT !.step = "done"]
                                        ELSE [worker[v] EXCEPT !.fresh = FALSE]]
        /\ UNCHANGED job
     \/ ~worker[w].fresh /\ Throws(w) /\ UNCHANGED <<routes, behind>>
  /\ UNCHANGED <<plot, console, live, previous, used>>

\* completeOperationStage, and the job is completed.
Finish(w) ==
  /\ At(w, "done")
  /\ SetJob(worker[w].job, "completed") /\ Rest(w)
  /\ UNCHANGED <<plot, console, remote, behind, used>>

\* A call of the worker fails.
Fault(w) ==
  /\ ~At(w, "idle") /\ Use("faults")
  /\ Throws(w)
  /\ UNCHANGED <<plot, console, remote, behind>>

\* The worker dies; its job expires.
Crash(w) ==
  /\ ~At(w, "idle") /\ Use("faults")
  /\ Redeliver(worker[w].job) /\ Rest(w)
  /\ UNCHANGED <<plot, console, remote, behind>>

Work(w) ==
  \/ \E i \in Rows : Take(w, i)
  \/ Publish(w) \/ Register(w) \/ Rollback(w)
  \/ ReadListing(w) \/ CheckPointers(w) \/ HeadPointer(w) \/ SwapRouting(w) \/ Finish(w)

Answer(c) == WriteSite(c) \/ CommitSite(c)

Next ==
  \/ \E c \in Calls : \/ \E s \in Sites, to \in BOOLEAN : OpenUpdate(c, s, to)
                      \/ Answer(c) \/ AbortSite(c)
  \/ \E s \in Sites : \/ \E name \in Domains : UpdateDomain(s, name)
                      \/ RequestPublish(s) \/ RequestRollback(s)
  \/ \E w \in Workers : Work(w) \/ Fault(w) \/ Crash(w)

Spec == Init /\ [][Next]_vars

(***************************************************************************)
(* Properties.                                                             *)
(***************************************************************************)
Quiet == /\ \A c \in Calls : NoCall(c)
         /\ \A w \in Workers : At(w, "idle")
         /\ \A i \in Rows : job[i].state = "completed"

\* When every job of the queue has completed, the manifest is the list, but for sites
\* whose domain changed when no job was going to read it, or whose status did in a
\* request that saw no change or found a job waiting that was taken before it ended.
\* One job serves all the changes made before it reads, and neither a repeated attempt
\* nor a redelivery brings an older list back.  (With one worker; the older list of two
\* may win.)
RoutesAreTheList ==
  Quiet /\ Cardinality(plot.workers) = 1
    => \A s \in Sites : routes[s] # Listing[s] => s \in behind

\* The routing pointer only moves to a manifest all of whose sites have a release to
\* serve; with a reference missing, the previous manifest stays.
RoutingMovesToServedSites ==
  [][routes' # routes => \A s \in Sites : routes'[s] # NoName => live'[s] # NoName]_vars
================================================================================
