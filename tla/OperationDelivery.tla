--------------------------- MODULE OperationDelivery ---------------------------
(***************************************************************************)
(* How a queued operation reaches a terminal state: the operations ledger  *)
(* of the CMS (start and complete stage), the operation processor of the   *)
(* worker, and the pg-boss queue between them.                             *)
(*                                                                         *)
(* A worker fetches a batch of jobs and runs them one after another.  For  *)
(* each it loops over get, start, work, complete; three of these are HTTP  *)
(* calls that may throw before or after they took effect.  An error that   *)
(* leaves the processor fails the whole batch, and pg-boss redelivers each *)
(* job of it until its retries are used up.  A job whose worker died, or   *)
(* takes longer than an hour, is redelivered the same way.                 *)
(***************************************************************************)
EXTENDS Integers, Sequences, FiniteSets

CONSTANTS Jobs,         \* jobs of one queue; a job stands for its operation
          Ledgered,     \* those sent in one transaction with an operation row
          Workers,      \* worker processes consuming the queue
          BatchSize,    \* jobs per fetch (QUEUE_CONCURRENCY)
          MaxAttempts,  \* in-process attempts per delivery
          RetryLimit,   \* redeliveries by the queue
          MaxFaults     \* bound on lost calls, crashes and overlong runs

ASSUME OperationDeliveryAssumption ==
  /\ Ledgered \subseteq Jobs
  /\ BatchSize \in Nat \ {0}
  /\ MaxAttempts \in Nat \ {0}
  /\ RetryLimit \in Nat
  /\ MaxFaults \in Nat

VARIABLES row,     \* the operation row's state, "missing" without one
          job,     \* the pg-boss job
          tries,   \* deliveries of the job begun so far
          worker,  \* what each worker is doing
          worked,  \* history: jobs whose work took effect at least once
          faults   \* faults so far

vars == <<row, job, tries, worker, worked, faults>>

Verdicts == {"succeeded", "failed"}
RowStates == {"missing", "queued", "running"} \cup Verdicts
JobStates == {"unsent", "waiting", "active", "done", "dead"}
Terminal == Verdicts

\* batch is what is left of the fetched batch, all the whole of it.
Tasks == [pc: {"idle", "get", "start", "work", "complete"},
          all: SUBSET Jobs, batch: Seq(Jobs),
          attempt: 1..MaxAttempts, verdict: Verdicts]

Idle == [pc |-> "idle", all |-> {}, batch |-> <<>>, attempt |-> 1, verdict |-> "failed"]

TypeOK ==
  /\ row \in [Jobs -> RowStates]
  /\ job \in [Jobs -> JobStates]
  /\ tries \in [Jobs -> 0..RetryLimit + 1]
  /\ worker \in [Workers -> Tasks]
  /\ worked \subseteq Jobs
  /\ faults \in 0..MaxFaults

Init ==
  /\ row = [j \in Jobs |-> "missing"]
  /\ job = [j \in Jobs |-> "unsent"]
  /\ tries = [j \in Jobs |-> 0]
  /\ worker = [w \in Workers |-> Idle]
  /\ worked = {}
  /\ faults = 0

\* submitWithinTx: the operation row and its job are committed together; the
\* embedding job of an edition is sent without a row of its own.
Submit(j) ==
  /\ job[j] = "unsent"
  /\ job' = [job EXCEPT ![j] = "waiting"]
  /\ row' = [row EXCEPT ![j] = IF j \in Ledgered THEN "queued" ELSE "missing"]
  /\ UNCHANGED <<tries, worker, worked, faults>>

(***************************************************************************)
(* pg-boss.                                                                *)
(***************************************************************************)
\* (Variants named after a mistake, like the next, are used by no action: they are
\* the mutations the properties are tested against.)
NoRetry(j) == FALSE
AlwaysRetry(j) == TRUE
Retryable(j) == tries[j] <= RetryLimit

AfterFailure(j) == IF Retryable(j) THEN "waiting" ELSE "dead"

Batches == {b \in UNION {[1..n -> Jobs] : n \in 1..BatchSize} :
              \A i, k \in DOMAIN b : i # k => b[i] # b[k]}

Fetch(w) ==
  /\ worker[w].pc = "idle"
  /\ \E b \in Batches :
       LET all == {b[i] : i \in DOMAIN b}
       IN /\ \A j \in all : job[j] = "waiting"
          /\ job' = [j \in Jobs |-> IF j \in all THEN "active" ELSE job[j]]
          /\ tries' = [j \in Jobs |-> IF j \in all THEN tries[j] + 1 ELSE tries[j]]
          /\ worker' = [worker EXCEPT ![w] =
                          [Idle EXCEPT !.pc = "get", !.all = all, !.batch = b]]
  /\ UNCHANGED <<row, worked, faults>>

\* The handler returned or threw: all jobs of the batch are completed or failed
\* together; jobs that expired meanwhile and are not active again are left alone.
ReturnBatch(w) ==
  /\ job' = [j \in Jobs |-> IF j \in worker[w].all /\ job[j] = "active" THEN "done" ELSE job[j]]
  /\ worker' = [worker EXCEPT ![w] = Idle]

ThrowBatch(w) ==
  /\ job' = [j \in Jobs |-> IF j \in worker[w].all /\ job[j] = "active"
                              THEN AfterFailure(j) ELSE job[j]]
  /\ worker' = [worker EXCEPT ![w] = Idle]

Held(j) == \E w \in Workers : j \in worker[w].all

\* expireInSeconds: a job active for an hour is failed, be its worker dead or slow.
Expire(j) ==
  /\ job[j] = "active"
  /\ job' = [job EXCEPT ![j] = AfterFailure(j)]
  /\ \/ ~Held(j) /\ UNCHANGED faults
     \/ Held(j) /\ faults < MaxFaults /\ faults' = faults + 1
  /\ UNCHANGED <<row, tries, worker, worked>>

(***************************************************************************)
(* operationProcessor, on the first job of the remaining batch.            *)
(***************************************************************************)
Current(w) == Head(worker[w].batch)
At(w, pc) == worker[w].pc = pc
GoTo(w, pc) == worker' = [worker EXCEPT ![w].pc = pc] /\ UNCHANGED job
ConcludeSucceeded(w, verdict) ==
  /\ worker' = [worker EXCEPT ![w].pc = "complete", ![w].verdict = "succeeded"]
  /\ UNCHANGED job
Conclude(w, verdict) ==
  /\ worker' = [worker EXCEPT ![w].pc = "complete", ![w].verdict = verdict]
  /\ UNCHANGED job

\* A call succeeds at no cost or is lost, before or after its effect, as a fault.
Answered == UNCHANGED faults
Lost == faults < MaxFaults /\ faults' = faults + 1

\* The job is finished: on to the next one of the batch.
NextJob(w) ==
  IF Len(worker[w].batch) = 1
    THEN ReturnBatch(w)
    ELSE /\ worker' = [worker EXCEPT ![w].pc = "get", ![w].attempt = 1,
                                     ![w].batch = Tail(worker[w].batch)]
         /\ UNCHANGED job

\* catch (error) of an ordinary error: another attempt, or give up as failed.
CatchError(w) ==
  IF worker[w].attempt < MaxAttempts
    THEN /\ worker' = [worker EXCEPT ![w].pc = "get", ![w].attempt = worker[w].attempt + 1]
         /\ UNCHANGED job
    ELSE Conclude(w, "failed")

\* getOperation, outside the try block: any error leaves the processor.
GetOperation(w) ==
  /\ At(w, "get")
  /\ \/ row[Current(w)] # "missing" /\ Answered /\ GoTo(w, "start")
     \/ row[Current(w)] = "missing" /\ Answered /\ ThrowBatch(w)
     \/ Lost /\ ThrowBatch(w)
  /\ UNCHANGED <<row, tries, worked>>

\* startOperationStage, outside the try block too.
Startable(s) == s \in {"queued", "running"}

StartStage(w) ==
  LET j == Current(w)
      started == row' = [row EXCEPT ![j] = "running"]
  IN /\ At(w, "start")
     /\ \/ Startable(row[j]) /\ started /\ Answered /\ GoTo(w, "work")
        \/ Startable(row[j]) /\ started /\ Lost /\ ThrowBatch(w)
        \/ ~Startable(row[j]) /\ Answered /\ ThrowBatch(w) /\ UNCHANGED row
        \/ Lost /\ ThrowBatch(w) /\ UNCHANGED row
     /\ UNCHANGED <<tries, worked>>

\* The stage's own work: done, failed for good (TerminalJobError), or failed by an
\* ordinary error; a failure may come after the effect.
Work(w) ==
  /\ At(w, "work")
  /\ \/ worked' = worked \cup {Current(w)} /\ Conclude(w, "succeeded")
     \/ worked' \in {worked, worked \cup {Current(w)}} /\ Conclude(w, "failed")
     \/ worked' \in {worked, worked \cup {Current(w)}} /\ CatchError(w)
  /\ UNCHANGED <<row, tries, faults>>

\* What a completion that threw leads to: inside the try block it is caught like an
\* ordinary error, in the catch block it leaves the processor.
CompletionThrew(w) == IF worker[w].verdict = "succeeded" THEN CatchError(w) ELSE ThrowBatch(w)

\* completeOperationStage: only a running operation may be completed.
AnyState(s) == s # "missing"
Completable(s) == s = "running"

CompleteStage(w) ==
  LET j == Current(w)
      completed == row' = [row EXCEPT ![j] = worker[w].verdict]
  IN /\ At(w, "complete")
     /\ \/ Completable(row[j]) /\ completed /\ Answered /\ NextJob(w)
        \/ Completable(row[j]) /\ completed /\ Lost /\ CompletionThrew(w)
        \/ ~Completable(row[j]) /\ Answered /\ CompletionThrew(w) /\ UNCHANGED row
        \/ Lost /\ CompletionThrew(w) /\ UNCHANGED row
     /\ UNCHANGED <<tries, worked>>

\* The worker process dies; its jobs stay active until they expire.
Crash(w) ==
  /\ ~At(w, "idle")
  /\ Lost
  /\ worker' = [worker EXCEPT ![w] = Idle]
  /\ UNCHANGED <<row, job, tries, worked>>

Step(w) == GetOperation(w) \/ StartStage(w) \/ Work(w) \/ CompleteStage(w)

Next ==
  \/ \E j \in Jobs : Submit(j) \/ Expire(j)
  \/ \E w \in Workers : Fetch(w) \/ Step(w) \/ Crash(w)

\* Workers poll and run, calls return, and pg-boss expires the jobs of dead workers.
Fairness ==
  /\ \A w \in Workers : WF_vars(Fetch(w)) /\ WF_vars(Step(w))
  /\ \A j \in Jobs : WF_vars(Expire(j) /\ ~Held(j))

Spec == Init /\ [][Next]_vars /\ Fairness

(***************************************************************************)
(* Properties.                                                             *)
(***************************************************************************)
\* A job that pg-boss counts as completed has an operation in a terminal state,
\* although a batch is completed as one and an expired job may be completed by the
\* worker that lost it.
CompletedJobIsTerminal == \A j \in Jobs : job[j] = "done" => row[j] \in Terminal

\* An operation only succeeds if its work took effect, whoever's delivery did it.
SucceededMeansWorked == \A j \in Jobs : row[j] = "succeeded" => j \in worked

OperationsAgree == CompletedJobIsTerminal /\ SucceededMeansWorked

\* A terminal state is final for every worker that still runs an old delivery.
TerminalIsFinal ==
  [][\A j \in Jobs : row[j] \in Terminal => row'[j] = row[j]]_vars

\* operation-processor.ts:28, "so the operation always reaches a terminal state": every
\* submitted operation ends.
EveryOperationEnds == \A j \in Ledgered : job[j] # "unsent" ~> row[j] \in Terminal
===============================================================================
