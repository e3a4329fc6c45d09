------------------------------- MODULE CrawlJobs -------------------------------
(***************************************************************************)
(* Collection by the crawl service, for one connector.  The poller makes a *)
(* job and its parent item and queues its dispatch; a worker creates a job *)
(* at the remote service and records its id.  The service calls back when  *)
(* it is done, which queues the ingestion: the worker reads the result,    *)
(* has it stored, removes the remote job and acknowledges.  What is lost   *)
(* on the way is made up for by a reconciliation that runs every minute.   *)
(*                                                                         *)
(* The remote service is outside the repository: it keeps a job until it   *)
(* is removed, and calls back any number of times, late or never.  Time is *)
(* not modelled: a row may count as stale at any point.                    *)
(***************************************************************************)
EXTENDS Integers, Sequences, FiniteSets, Bags

CONSTANTS Workers,     \* processes that take messages, one at a time each
          MaxJobs,     \* bound on the jobs of the connector
          MaxRemotes,  \* bound on the jobs at the remote service
          \* Bounds of a behaviour: on the jobs of the connector, on the reconciliations of
          \* a job before it is given up (10 in the code), on the redeliveries of a message
          \* (3 in the code), on lost calls and answers, crashes and needless redeliveries,
          \* and on the ways a remote job ends.
          Bounds

\* A remote job succeeds, maybe with a result that the worker's schema refuses, or fails.
Outcomes == {"succeeded", "malformed", "failed"}

ASSUME CrawlJobsAssumption ==
  /\ {MaxJobs, MaxRemotes} \subseteq Nat \ {0}
  /\ Bounds \subseteq [jobs: 1..MaxJobs, attempts: Nat \ {0}, redeliveries: Nat, faults: Nat,
                    outcomes: SUBSET Outcomes]

JobIds == 1..MaxJobs
NoJob == 0
RemoteIds == 1..MaxRemotes
NoRemote == 0

VARIABLES bound,    \* the member of Bounds that holds for the behaviour
          job,      \* the crawl_jobs table, each row with its parent item's status
          remote,   \* the jobs ever created at the remote service
          article,  \* the items stored from results; all results have the same article
          queue,    \* bag of the crawl messages that wait in content-intake
          worker,   \* where each worker stands
          listed,   \* the rows the running reconciliation has read and not handled
          faults

crawlVars == <<bound, job, remote, article, queue, worker, listed, faults>>

InFlight == {"dispatched", "notified", "ingesting"}
Final == {"ingested", "failed"}
JobRows == [state: InFlight \cup Final, remote: RemoteIds \cup {NoRemote},
            notified: BOOLEAN, acked: BOOLEAN, attempts: 0..bound.attempts,
            parent: {"fetching", "ready", "failed"}]
NewJob == [state |-> "dispatched", remote |-> NoRemote, notified |-> FALSE, acked |-> FALSE,
           attempts |-> 0, parent |-> "fetching"]
Jobs == DOMAIN job
State(j) == job[j].state

Remotes == [state: {"running", "removed"} \cup Outcomes, of: JobIds]
Known == DOMAIN remote

Messages == [kind: {"dispatch", "ingest"}, job: JobIds, tries: 0..bound.redeliveries]
Waiting == BagToSet(queue)

WorkerSteps == {"idle", "input", "post", "record", "refuse", "read", "mark", "get",
          "complete", "fail", "delete", "ack"}
WorkerStates == [step: WorkerSteps, kind: {"dispatch", "ingest"}, job: JobIds \cup {NoJob},
                 tries: 0..bound.redeliveries, created: RemoteIds \cup {NoRemote}]
NoWork == [step |-> "idle", kind |-> "dispatch", job |-> NoJob, tries |-> 0, created |-> NoRemote]

CrawlTypeOK ==
  /\ bound \in Bounds
  /\ Len(job) <= bound.jobs /\ \A j \in Jobs : job[j] \in JobRows
  /\ Len(remote) <= MaxRemotes /\ \A r \in Known : remote[r] \in Remotes
  /\ \A n \in DOMAIN article : article[n] \in [of: Jobs, status: {"ready", "duplicate"}]
  /\ IsABag(queue) /\ Waiting \subseteq Messages
  /\ worker \in [Workers -> WorkerStates]
  /\ listed \subseteq Jobs
  /\ faults \in 0..bound.faults

CrawlInit ==
  /\ bound \in Bounds
  /\ job = <<>> /\ remote = <<>> /\ article = <<>>
  /\ queue = EmptyBag
  /\ worker = [w \in Workers |-> NoWork]
  /\ listed = {}
  /\ faults = 0

Fault == faults < bound.faults /\ faults' = faults + 1

\* sendCrawlJobWithin: a message of the kind that waits for its first delivery is enough.
Send(kind, j) ==
  LET message == [kind |-> kind, job |-> j, tries |-> 0]
  IN queue' = IF BagIn(message, queue) THEN queue ELSE queue (+) SetToBag({message})

(***************************************************************************)
(* The server's own transactions.                                          *)
(***************************************************************************)
\* pollDueCrawlConnectors: when the interval has passed and no job is in flight.  The
\* claim of the connector makes calls that overlap one after the other.
Poll ==
  /\ Len(job) < bound.jobs
  /\ \A j \in Jobs : State(j) \notin InFlight
  /\ job' = Append(job, NewJob)
  /\ Send("dispatch", Len(job) + 1)
  /\ UNCHANGED <<bound, remote, article, worker, listed, faults>>

\* The remote service ends a job, and calls back about jobs that have ended.
RemoteEnds(r, outcome) ==
  /\ r \in Known /\ remote[r].state = "running"
  /\ remote' = [remote EXCEPT ![r].state = outcome]
  /\ UNCHANGED <<bound, job, article, queue, worker, listed, faults>>

\* handleCrawlCallback: deliveries of a job that is not known, was notified or has ended
\* change nothing.
Notify(j) ==
  /\ j \in Jobs /\ job[j].remote # NoRemote /\ remote[job[j].remote].state # "running"
  /\ ~job[j].notified /\ State(j) \notin Final
  /\ job' = [job EXCEPT ![j].notified = TRUE, ![j].state = "notified"]
  /\ Send("ingest", j)
  /\ UNCHANGED <<bound, remote, article, worker, listed, faults>>

\* reconcileCrawlJobs: the stale rows are read, and then handled one by one under their
\* locks, each as it is by then.
List ==
  /\ listed = {}
  /\ \E S \in SUBSET {j \in Jobs : State(j) \in InFlight \/ ~job[j].acked} :
       S # {} /\ listed' = S
  /\ UNCHANGED <<bound, job, remote, article, queue, worker, faults>>

Exhausted(j) == State(j) \in InFlight /\ job[j].attempts = bound.attempts

GiveUp(j) == job' = [job EXCEPT ![j].state = "failed", ![j].parent = "failed"]

Skipped(j) == job[j].acked \/ (State(j) \in Final /\ job[j].remote = NoRemote)

\* (Attempts at a job that has ended are counted without a limit in the code.)
Reconcile(j) ==
  /\ j \in listed
  /\ listed' = listed \ {j}
  /\ \/ Skipped(j) /\ UNCHANGED <<job, queue>>
     \/ /\ ~Skipped(j) /\ Exhausted(j)
        /\ GiveUp(j)
        /\ UNCHANGED queue
     \/ /\ ~Skipped(j) /\ ~Exhausted(j)
        /\ Send(IF job[j].remote = NoRemote THEN "dispatch" ELSE "ingest", j)
        /\ job' = [job EXCEPT ![j].attempts = IF @ < bound.attempts THEN @ + 1 ELSE @]
  /\ UNCHANGED <<bound, remote, article, worker, faults>>

(***************************************************************************)
(* A worker, and what the server does at its calls.                        *)
(***************************************************************************)
Doing(w, step) == worker[w].step = step
Turn(w, step) == worker' = [worker EXCEPT ![w].step = step]
Drop(w) == worker' = [worker EXCEPT ![w] = NoWork]
Mine(w) == worker[w].job

Take(w) ==
  /\ Doing(w, "idle")
  /\ \E message \in Waiting :
       /\ queue' = queue (-) SetToBag({message})
       /\ worker' = [worker EXCEPT ![w] = [NoWork EXCEPT !.kind = message.kind, !.job = message.job,
                       !.tries = message.tries,
                       !.step = IF message.kind = "dispatch" THEN "input" ELSE "read"]]
  /\ UNCHANGED <<bound, job, remote, article, listed, faults>>

\* The processor threw: its message is delivered again, up to the limit.
AlwaysAgain(w) == TRUE
DeliveredAgain(w) == worker[w].tries < bound.redeliveries

Throw(w) ==
  /\ Drop(w)
  /\ queue' = IF DeliveredAgain(w)
                THEN queue (+) SetToBag({[kind |-> worker[w].kind, job |-> Mine(w),
                                          tries |-> worker[w].tries + 1]})
                ELSE queue

\* It returned.  The message is delivered again all the same if the queue never learns
\* of it.
Return(w) ==
  \/ Drop(w) /\ UNCHANGED <<queue, faults>>
  \/ Fault /\ Throw(w)

\* Dispatch.  crawlDispatchInput answers for a job without remote id that is in flight,
\* or that failed before.
Dispatchable(j) == job[j].remote = NoRemote /\ State(j) \in {"dispatched", "failed"}

Input(w) ==
  /\ Doing(w, "input")
  /\ \/ Dispatchable(Mine(w)) /\ Turn(w, "post") /\ UNCHANGED queue
     \/ ~Dispatchable(Mine(w)) /\ Throw(w)
  /\ UNCHANGED <<bound, job, remote, article, listed, faults>>

Created(w) == remote' = Append(remote, [state |-> "running", of |-> Mine(w)])

\* POST /api/jobs: it may be refused, or its answer be lost.
Post(w) ==
  /\ Doing(w, "post") /\ Len(remote) < MaxRemotes
  /\ \/ /\ Created(w)
        /\ worker' = [worker EXCEPT ![w].step = "record", ![w].created = Len(remote) + 1]
        /\ UNCHANGED faults
     \/ Turn(w, "refuse") /\ UNCHANGED <<remote, faults>>
     \/ Created(w) /\ Turn(w, "refuse") /\ Fault
  /\ UNCHANGED <<bound, job, article, queue, listed>>

\* recordCrawlDispatch: another remote id than the one recorded is an error.
Recorded(w) ==
  /\ job[Mine(w)].remote = NoRemote
  /\ job' = [job EXCEPT ![Mine(w)].remote = worker[w].created, ![Mine(w)].state = "dispatched",
                        ![Mine(w)].parent = "fetching"]

Record(w) ==
  /\ Doing(w, "record")
  /\ \/ Recorded(w) /\ Return(w)
     \/ job[Mine(w)].remote # NoRemote /\ Turn(w, "refuse") /\ UNCHANGED <<job, queue, faults>>
     \/ Fault /\ (Recorded(w) \/ UNCHANGED job) /\ Turn(w, "refuse") /\ UNCHANGED queue
  /\ UNCHANGED <<bound, remote, article, listed>>

\* failCrawlDispatch, which only fails a job that was not dispatched; then the error is
\* thrown on.
FailedDispatch(j) ==
  job' = IF job[j].remote = NoRemote /\ State(j) = "dispatched"
           THEN [job EXCEPT ![j].state = "failed", ![j].parent = "failed"] ELSE job

RefuseDispatch(w) ==
  /\ Doing(w, "refuse")
  /\ \/ FailedDispatch(Mine(w)) /\ UNCHANGED faults
     \/ UNCHANGED job /\ Fault
  /\ Throw(w)
  /\ UNCHANGED <<bound, remote, article, listed>>

\* Ingestion.  crawlJobInput reads the row and then marks it without a lock.
Read(w) ==
  /\ Doing(w, "read")
  /\ Turn(w, CASE State(Mine(w)) \in {"dispatched", "notified"} -> "mark"
               [] State(Mine(w)) = "ingesting" -> "get"
               [] State(Mine(w)) \in Final -> "delete")
  /\ UNCHANGED <<bound, job, remote, article, queue, listed, faults>>

MarkIngesting(w) ==
  /\ Doing(w, "mark")
  /\ job' = [job EXCEPT ![Mine(w)].state = "ingesting"]
  /\ Turn(w, "get")
  /\ UNCHANGED <<bound, remote, article, queue, listed, faults>>

\* GET /api/jobs/:id, here of the remote job that is recorded for the row.
Result(w) == remote[job[Mine(w)].remote].state

GetResult(w) ==
  /\ Doing(w, "get")
  /\ \/ Result(w) = "running" /\ Return(w)
     \/ Result(w) = "succeeded" /\ Turn(w, "complete") /\ UNCHANGED <<queue, faults>>
     \/ Result(w) = "malformed" /\ Throw(w) /\ UNCHANGED faults
     \/ Result(w) \in {"failed", "removed"} /\ Turn(w, "fail") /\ UNCHANGED <<queue, faults>>
  /\ UNCHANGED <<bound, job, remote, article, listed>>

\* completeCrawlIngest, in one transaction under the row's lock.
ToStore(j) == State(j) \notin Final

Store(j) ==
  /\ article' = Append(article, [of |-> j, status |-> IF article = <<>> THEN "ready" ELSE "duplicate"])
  /\ job' = [job EXCEPT ![j].state = "ingested", ![j].parent = "ready"]

Completed(j) == IF ToStore(j) THEN Store(j) ELSE UNCHANGED <<job, article>>

Complete(w) ==
  /\ Doing(w, "complete")
  /\ \/ State(Mine(w)) # "failed" /\ Completed(Mine(w)) /\ Turn(w, "delete") /\ UNCHANGED <<queue, faults>>
     \/ State(Mine(w)) = "failed" /\ Throw(w) /\ UNCHANGED <<job, article, faults>>
     \/ State(Mine(w)) # "failed" /\ Completed(Mine(w)) /\ Fault /\ Throw(w)
  /\ UNCHANGED <<bound, remote, listed>>

\* failCrawlIngest
FailsStored(j) == State(j) = "ingested"
MayFail(j) == State(j) # "ingested"
FailedIngest(j) ==
  job' = IF MayFail(j) THEN [job EXCEPT ![j].state = "failed", ![j].parent = "failed"] ELSE job

Fail(w) ==
  /\ Doing(w, "fail")
  /\ FailedIngest(Mine(w))
  /\ \/ Turn(w, "delete") /\ UNCHANGED <<queue, faults>>
     \/ Fault /\ Throw(w)
  /\ UNCHANGED <<bound, remote, article, listed>>

\* DELETE /api/jobs/:id, refused while it runs.
Remove(w) == remote' = [remote EXCEPT ![job[Mine(w)].remote].state = "removed"]

Delete(w) ==
  /\ Doing(w, "delete")
  /\ \/ Result(w) = "running" /\ Return(w) /\ UNCHANGED remote
     \/ Result(w) # "running" /\ Remove(w) /\ Turn(w, "ack") /\ UNCHANGED <<queue, faults>>
     \/ Result(w) # "running" /\ Remove(w) /\ Fault /\ Throw(w)
  /\ UNCHANGED <<bound, job, article, listed>>

\* acknowledgeCrawlJob
Acknowledge(w) ==
  /\ Doing(w, "ack")
  /\ job' = [job EXCEPT ![Mine(w)].acked = TRUE]
  /\ Return(w)
  /\ UNCHANGED <<bound, remote, article, listed>>

\* The worker dies, or a call fails that it does not handle itself, without effect.
Crash(w) ==
  /\ ~Doing(w, "idle")
  /\ Fault
  /\ Throw(w)
  /\ UNCHANGED <<bound, job, remote, article, listed>>

WorkerStep(w) ==
  \/ Input(w) \/ Post(w) \/ Record(w) \/ RefuseDispatch(w)
  \/ Read(w) \/ MarkIngesting(w) \/ GetResult(w) \/ Complete(w) \/ Fail(w)
  \/ Delete(w) \/ Acknowledge(w)

CrawlNext ==
  \/ Poll \/ List
  \/ \E j \in JobIds : Notify(j) \/ Reconcile(j)
  \/ \E r \in RemoteIds : \E outcome \in bound.outcomes : RemoteEnds(r, outcome)
  \/ \E w \in Workers : Take(w) \/ WorkerStep(w) \/ Crash(w)

\* Messages are taken, a worker goes on with its own, reconciliation runs every minute and
\* lists each row that stays stale, and the remote service ends its jobs.  Nothing is
\* assumed of its callbacks.
Fairness ==
  /\ \A w \in Workers : WF_crawlVars(Take(w)) /\ WF_crawlVars(WorkerStep(w))
  /\ \A j \in JobIds : SF_crawlVars(List /\ j \in listed') /\ WF_crawlVars(Reconcile(j))
  /\ \A r \in RemoteIds :
       WF_crawlVars(\E outcome \in bound.outcomes : RemoteEnds(r, outcome))

CrawlSpec == CrawlInit /\ [][CrawlNext]_crawlVars
FairSpec == CrawlSpec /\ Fairness

(***************************************************************************)
(* Properties.                                                             *)
(***************************************************************************)
\* crawl-ingest.ts:69, a result is stored when its job is shown as ingested and never
\* again, whatever is delivered twice; and of what several jobs bring, one row is offered
\* to the editors.
StoredOnce ==
  /\ \A j \in Jobs :
       Cardinality({n \in DOMAIN article : article[n].of = j}) = (IF State(j) = "ingested" THEN 1 ELSE 0)
  /\ Cardinality({n \in DOMAIN article : article[n].status = "ready"}) <= 1

\* crawl-ingest.ts:159 and crawl-dispatch.ts:149, a result that was given up is not
\* shown as ready, nor a stored one as failed.
ParentAgrees ==
  \A j \in Jobs : /\ State(j) = "ingested" <=> job[j].parent = "ready"
                  /\ State(j) = "failed" => job[j].parent = "failed"

\* processors/crawl.ts:144, a remote job is removed, and that acknowledged, only after
\* its result was stored or the job given up.
RemovedOnlyEnded ==
  \A j \in Jobs : /\ job[j].remote # NoRemote /\ remote[job[j].remote].state = "removed" => State(j) \in Final
                  /\ job[j].acked => State(j) \in Final

\* crawl-dispatch.ts:215, a remote job that no row knows costs a fault: dispatching again,
\* by a redelivery or the reconciliation, makes none on its own.
Orphans == {r \in Known : /\ job[remote[r].of].remote # r
                          /\ \A w \in Workers : worker[w].created # r}
OrphansNeedFaults == Cardinality(Orphans) <= faults

\* Rows, results and the jobs of the remote service agree, whatever is repeated or lost.
JobsAgree == StoredOnce /\ ParentAgrees /\ RemovedOnlyEnded /\ OrphansNeedFaults

================================================================================
