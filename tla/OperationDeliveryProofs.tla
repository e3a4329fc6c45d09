------------------------ MODULE OperationDeliveryProofs ------------------------
(***************************************************************************)
(* Proofs about OperationDelivery for every set of jobs and workers, every *)
(* batch size, and any number of attempts, redeliveries and faults.        *)
(***************************************************************************)
EXTENDS OperationDelivery, TLAPS, SequenceTheorems

(***************************************************************************)
(* Type correctness.                                                       *)
(***************************************************************************)
\* A worker that is not idle has a job at hand, and a job that may be fetched has a
\* delivery left.
Busy(t) == t.pc # "idle" => t.batch # <<>>
Deliverable == \A j \in Jobs : job[j] \in {"unsent", "waiting"} => tries[j] <= RetryLimit
Typed == TypeOK /\ Deliverable /\ \A w \in Workers : Busy(worker[w])

LEMMA IdleTyped == Idle \in Tasks /\ Busy(Idle)
  BY OperationDeliveryAssumption DEF OperationDeliveryAssumption, Idle, Tasks, Verdicts, Busy

LEMMA InitTyped == Init => Typed
  BY IdleTyped, OperationDeliveryAssumption
  DEF OperationDeliveryAssumption, Init, Typed, TypeOK, Deliverable, RowStates, JobStates

\* The worker that takes a step, the queue's jobs after it.
LEMMA WorkerTyped ==
  ASSUME Typed, NEW w \in Workers, NEW t \in Tasks, Busy(t), worker' = [worker EXCEPT ![w] = t]
  PROVE  worker' \in [Workers -> Tasks] /\ \A v \in Workers : Busy(worker'[v])
  BY DEF Typed, TypeOK

LEMMA ReturnTyped ==
  ASSUME Typed, NEW w \in Workers, ReturnBatch(w) \/ ThrowBatch(w), UNCHANGED tries
  PROVE  /\ job' \in [Jobs -> JobStates] /\ Deliverable'
         /\ worker' \in [Workers -> Tasks] /\ \A v \in Workers : Busy(worker'[v])
<1>1. worker' = [worker EXCEPT ![w] = Idle]
  BY DEF ReturnBatch, ThrowBatch
<1>2. \A j \in Jobs : AfterFailure(j) \in {"waiting", "dead"}
                      /\ (AfterFailure(j) = "waiting" => tries[j] <= RetryLimit)
  BY DEF AfterFailure, Retryable
<1>3. job' \in [Jobs -> JobStates]
  BY <1>2 DEF Typed, TypeOK, ReturnBatch, ThrowBatch, JobStates
<1>4. Deliverable'
  BY <1>2 DEF Typed, TypeOK, Deliverable, ReturnBatch, ThrowBatch
<1> QED BY <1>1, <1>3, <1>4, IdleTyped, WorkerTyped

\* What every call of the processor does to queue and worker.
Moves(w) ==
  \/ ReturnBatch(w) \/ ThrowBatch(w)
  \/ \E t \in Tasks : /\ t.pc # "idle" /\ t.batch # <<>> /\ t.all = worker[w].all
                      /\ worker' = [worker EXCEPT ![w] = t] /\ UNCHANGED job

LEMMA GoToMoves ==
  ASSUME Typed, NEW w \in Workers, NEW pc \in {"get", "start", "work", "complete"},
         GoTo(w, pc), ~At(w, "idle")
  PROVE  Moves(w)
<1> DEFINE t == [worker[w] EXCEPT !.pc = pc]
<1>1. worker[w] \in Tasks /\ worker[w].batch # <<>>
  BY DEF Typed, TypeOK, Busy, At
<1>2. t \in Tasks /\ t.pc # "idle" /\ t.batch # <<>> /\ t.all = worker[w].all
  BY <1>1 DEF Tasks
<1>3. worker' = [worker EXCEPT ![w] = t] /\ UNCHANGED job
  BY DEF GoTo
<1> QED BY <1>2, <1>3 DEF Moves

LEMMA ConcludeMoves ==
  ASSUME Typed, NEW w \in Workers, NEW verdict \in Verdicts, Conclude(w, verdict), ~At(w, "idle")
  PROVE  Moves(w)
<1> DEFINE t == [worker[w] EXCEPT !.pc = "complete", !.verdict = verdict]
<1>1. worker[w] \in Tasks /\ worker[w].batch # <<>>
  BY DEF Typed, TypeOK, Busy, At
<1>2. t \in Tasks /\ t.pc # "idle" /\ t.batch # <<>> /\ t.all = worker[w].all
  BY <1>1 DEF Tasks
<1>3. worker' = [worker EXCEPT ![w] = t] /\ UNCHANGED job
  BY DEF Conclude
<1> QED BY <1>2, <1>3 DEF Moves

LEMMA CatchMoves ==
  ASSUME Typed, NEW w \in Workers, CatchError(w), ~At(w, "idle")
  PROVE  Moves(w)
<1> DEFINE t == [worker[w] EXCEPT !.pc = "get", !.attempt = worker[w].attempt + 1]
<1>1. worker[w] \in Tasks /\ worker[w].batch # <<>>
  BY DEF Typed, TypeOK, Busy, At
<1>2. CASE worker[w].attempt < MaxAttempts
  <2>1. worker[w].attempt + 1 \in 1..MaxAttempts
    BY <1>1, <1>2, OperationDeliveryAssumption DEF OperationDeliveryAssumption, Tasks
  <2>2. t \in Tasks /\ t.pc # "idle" /\ t.batch # <<>> /\ t.all = worker[w].all
    BY <1>1, <2>1 DEF Tasks
  <2>3. worker' = [worker EXCEPT ![w] = t] /\ UNCHANGED job
    BY <1>2 DEF CatchError
  <2> QED BY <2>2, <2>3 DEF Moves
<1>3. CASE ~(worker[w].attempt < MaxAttempts)
  BY <1>3, ConcludeMoves DEF CatchError, Verdicts
<1> QED BY <1>2, <1>3

LEMMA NextJobMoves ==
  ASSUME Typed, NEW w \in Workers, NextJob(w), ~At(w, "idle")
  PROVE  Moves(w)
<1> DEFINE t == [worker[w] EXCEPT !.pc = "get", !.attempt = 1, !.batch = Tail(worker[w].batch)]
<1>1. worker[w] \in Tasks /\ worker[w].batch # <<>>
  BY DEF Typed, TypeOK, Busy, At
<1>2. CASE Len(worker[w].batch) # 1
  <2>1. worker[w].batch \in Seq(Jobs)
    BY <1>1 DEF Tasks
  <2>2. Tail(worker[w].batch) \in Seq(Jobs) /\ Tail(worker[w].batch) # <<>>
    <3>1. Len(worker[w].batch) \in Nat /\ Len(worker[w].batch) # 0
      BY <1>1, <2>1, EmptySeq
    <3>2. /\ Tail(worker[w].batch) \in Seq(Jobs)
          /\ Len(Tail(worker[w].batch)) = Len(worker[w].batch) - 1
      BY <1>1, <2>1, HeadTailProperties
    <3>3. Len(Tail(worker[w].batch)) # 0
      BY <1>2, <3>1, <3>2
    <3> QED BY <3>2, <3>3, EmptySeq
  <2>3. 1 \in 1..MaxAttempts
    BY OperationDeliveryAssumption DEF OperationDeliveryAssumption
  <2>4. t \in Tasks /\ t.pc # "idle" /\ t.batch # <<>> /\ t.all = worker[w].all
    BY <1>1, <2>2, <2>3 DEF Tasks
  <2>5. worker' = [worker EXCEPT ![w] = t] /\ UNCHANGED job
    BY <1>2 DEF NextJob
  <2> QED BY <2>4, <2>5 DEF Moves
<1>3. CASE Len(worker[w].batch) = 1
  BY <1>3 DEF NextJob, Moves
<1> QED BY <1>2, <1>3

LEMMA StepMoves ==
  ASSUME Typed, NEW w \in Workers, Step(w)
  PROVE  Moves(w) /\ UNCHANGED tries /\ (UNCHANGED faults \/ Lost)
<1> USE DEF Verdicts
<1>t. worker[w] \in Tasks
  BY DEF Typed, TypeOK
<1>m. ThrowBatch(w) => Moves(w)
  BY DEF Moves
<1>1. CASE GetOperation(w)
  BY <1>1, <1>m, GoToMoves DEF GetOperation, At, Answered
<1>2. CASE StartStage(w)
  BY <1>2, <1>m, GoToMoves DEF StartStage, At, Answered
<1>3. CASE Work(w)
  BY <1>3, ConcludeMoves, CatchMoves DEF Work, At
<1>4. CASE CompleteStage(w)
  <2>1. CompletionThrew(w) => Moves(w)
    BY <1>4, <1>m, CatchMoves DEF CompletionThrew, CompleteStage, At
  <2> QED BY <1>4, <2>1, NextJobMoves DEF CompleteStage, At, Answered
<1> QED BY <1>1, <1>2, <1>3, <1>4 DEF Step

\* The job at hand is one of the worker's batch.
LEMMA CurrentIsJob ==
  ASSUME Typed, NEW w \in Workers, ~At(w, "idle")
  PROVE  Current(w) \in Jobs
  BY HeadTailProperties DEF Typed, TypeOK, Tasks, Busy, At, Current

LEMMA StepTypes ==
  ASSUME Typed, NEW w \in Workers, Step(w)
  PROVE  Typed'
<1>1. Moves(w) /\ UNCHANGED tries /\ (UNCHANGED faults \/ Lost)
  BY StepMoves
<1>2. /\ job' \in [Jobs -> JobStates] /\ Deliverable'
      /\ worker' \in [Workers -> Tasks] /\ \A v \in Workers : Busy(worker'[v])
  <2>1. ASSUME NEW t \in Tasks, t.batch # <<>>, worker' = [worker EXCEPT ![w] = t], UNCHANGED job
        PROVE  /\ job' \in [Jobs -> JobStates] /\ Deliverable'
               /\ worker' \in [Workers -> Tasks] /\ \A v \in Workers : Busy(worker'[v])
    <3>1. Busy(t)
      BY <2>1 DEF Busy
    <3> QED BY <1>1, <2>1, <3>1, WorkerTyped DEF Typed, TypeOK, Deliverable
  <2> QED BY <1>1, <2>1, ReturnTyped DEF Moves
<1>3. faults' \in 0..MaxFaults
  BY <1>1, OperationDeliveryAssumption DEF OperationDeliveryAssumption, Typed, TypeOK, Lost
<1>4. row' \in [Jobs -> RowStates] /\ worked' \subseteq Jobs
  <2>1. Current(w) \in Jobs /\ worker[w] \in Tasks
    BY CurrentIsJob
    DEF Step, GetOperation, StartStage, Work, CompleteStage, At, Typed, TypeOK
  <2>2. CASE GetOperation(w) \/ StartStage(w)
    BY <2>1, <2>2 DEF GetOperation, StartStage, Typed, TypeOK, RowStates
  <2>3. CASE Work(w)
    BY <2>1, <2>3 DEF Work, Typed, TypeOK
  <2>4. CASE CompleteStage(w)
    BY <2>1, <2>4 DEF CompleteStage, Typed, TypeOK, RowStates, Tasks
  <2> QED BY <2>2, <2>3, <2>4 DEF Step
<1> QED BY <1>1, <1>2, <1>3, <1>4 DEF Typed, TypeOK

\* Fetching a batch.
LEMMA FetchTypes ==
  ASSUME Typed, NEW w \in Workers, Fetch(w)
  PROVE  Typed'
<1>1. PICK b \in Batches :
        LET all == {b[i] : i \in DOMAIN b}
        IN /\ \A j \in all : job[j] = "waiting"
           /\ job' = [j \in Jobs |-> IF j \in all THEN "active" ELSE job[j]]
           /\ tries' = [j \in Jobs |-> IF j \in all THEN tries[j] + 1 ELSE tries[j]]
           /\ worker' = [worker EXCEPT ![w] =
                           [Idle EXCEPT !.pc = "get", !.all = all, !.batch = b]]
  BY DEF Fetch
<1> DEFINE all == {b[i] : i \in DOMAIN b}
<1>2. b \in Seq(Jobs) /\ b # <<>> /\ all \subseteq Jobs
  <2>1. PICK n \in 1..BatchSize : b \in [1..n -> Jobs]
    BY DEF Batches
  <2>2. n \in Nat /\ n >= 1
    BY OperationDeliveryAssumption DEF OperationDeliveryAssumption
  <2> QED BY <2>1, <2>2
<1> DEFINE t == [Idle EXCEPT !.pc = "get", !.all = all, !.batch = b]
<1>3. t \in Tasks /\ Busy(t)
  BY <1>2, IdleTyped DEF Tasks, Busy
<1>4. worker' \in [Workers -> Tasks] /\ \A v \in Workers : Busy(worker'[v])
  BY <1>1, <1>3, WorkerTyped
<1>5. job' \in [Jobs -> JobStates]
  BY <1>1 DEF Typed, TypeOK, JobStates
<1>6. tries' \in [Jobs -> 0..RetryLimit + 1]
  <2>1. \A j \in all : tries[j] \in 0..RetryLimit
    <3>1. ASSUME NEW j \in all PROVE tries[j] \in 0..RetryLimit
      <4>1. tries[j] \in 0..RetryLimit + 1 /\ tries[j] <= RetryLimit
        BY <1>1, <1>2 DEF Typed, TypeOK, Deliverable
      <4> QED BY <4>1, OperationDeliveryAssumption DEF OperationDeliveryAssumption
    <3> QED BY <3>1
  <2>2. \A k \in 0..RetryLimit : k + 1 \in 0..RetryLimit + 1
    BY OperationDeliveryAssumption DEF OperationDeliveryAssumption
  <2>3. tries \in [Jobs -> 0..RetryLimit + 1]
    BY DEF Typed, TypeOK
  <2> HIDE DEF all
  <2> QED BY <1>1, <2>1, <2>2, <2>3 DEF all
<1>7. Deliverable'
  BY <1>1 DEF Typed, TypeOK, Deliverable
<1> QED BY <1>4, <1>5, <1>6, <1>7 DEF Fetch, Typed, TypeOK

LEMMA NextTyped ==
  ASSUME Typed, [Next]_vars
  PROVE  Typed'
<1>1. ASSUME NEW j \in Jobs, Submit(j) PROVE Typed'
  BY <1>1 DEF Submit, Typed, TypeOK, Deliverable, JobStates, RowStates
<1>2. ASSUME NEW j \in Jobs, Expire(j) PROVE Typed'
  <2>1. AfterFailure(j) \in JobStates /\ (AfterFailure(j) = "waiting" => tries[j] <= RetryLimit)
    BY DEF AfterFailure, Retryable, JobStates
  <2>2. AfterFailure(j) # "unsent"
    BY DEF AfterFailure
  <2>3. faults' \in 0..MaxFaults
    BY <1>2, OperationDeliveryAssumption DEF OperationDeliveryAssumption, Expire, Typed, TypeOK
  <2>4. job' \in [Jobs -> JobStates] /\ Deliverable'
    BY <1>2, <2>1, <2>2 DEF Expire, Typed, TypeOK, Deliverable
  <2> QED BY <1>2, <2>3, <2>4 DEF Expire, Typed, TypeOK
<1>3. ASSUME NEW w \in Workers, Fetch(w) \/ Step(w) PROVE Typed'
  BY <1>3, FetchTypes, StepTypes
<1>4. ASSUME NEW w \in Workers, Crash(w) PROVE Typed'
  <2>1. worker' \in [Workers -> Tasks] /\ \A v \in Workers : Busy(worker'[v])
    BY <1>4, IdleTyped, WorkerTyped DEF Crash
  <2>2. faults' \in 0..MaxFaults
    BY <1>4, OperationDeliveryAssumption
    DEF OperationDeliveryAssumption, Crash, Lost, Typed, TypeOK
  <2> QED BY <1>4, <2>1, <2>2 DEF Crash, Typed, TypeOK, Deliverable
<1>5. CASE UNCHANGED vars
  BY <1>5 DEF vars, Typed, TypeOK, Deliverable
<1> QED BY <1>1, <1>2, <1>3, <1>4, <1>5 DEF Next

\* Rows, jobs and workers keep their types, and no job is delivered more often than its
\* first time and its retries.
THEOREM TypeCorrect == Spec => []TypeOK
<1>1. Typed => TypeOK
  BY DEF Typed
<1> QED BY InitTyped, NextTyped, <1>1, PTL DEF Spec

(***************************************************************************)
(* Terminal states are final, and what has been completed is terminal.     *)
(***************************************************************************)
\* A job that was never submitted has no row.  A job of a worker's batch has ended or
\* is still ahead of the worker, and a worker about to report success has worked.
Unsent == \A j \in Jobs : job[j] = "unsent" => row[j] = "missing"
Ahead(j, b) == \E i \in 1..Len(b) : b[i] = j
Covered(t) == t.pc # "idle" => \A j \in t.all : row[j] \in Terminal \/ Ahead(j, t.batch)
Earned(t) == t.pc = "complete" /\ t.verdict = "succeeded" => Head(t.batch) \in worked
Honest(t) == Covered(t) /\ Earned(t)

Sound == Typed /\ Unsent /\ OperationsAgree /\ \A w \in Workers : Honest(worker[w])

LEMMA StepKind ==
  ASSUME NEW w \in Workers, Step(w)
  PROVE  ~At(w, "idle")
  BY DEF Step, GetOperation, StartStage, Work, CompleteStage, At

LEMMA InitSound == Init => Sound
  BY InitTyped
  DEF Init, Sound, Unsent, OperationsAgree, CompletedJobIsTerminal, SucceededMeansWorked,
      Honest, Covered, Earned, Idle

\* Rows change one at a time, and never from a terminal state.
LEMMA RowsOnward ==
  ASSUME Typed, Unsent, [Next]_vars
  PROVE  /\ \A j \in Jobs : row[j] \in Terminal => row'[j] = row[j]
         /\ worked \subseteq worked'
<1> USE DEF Terminal, Verdicts
<1>t. row \in [Jobs -> RowStates]
  BY DEF Typed, TypeOK
<1>1. ASSUME NEW j \in Jobs, Submit(j)
      PROVE  (\A k \in Jobs : row[k] \in Terminal => row'[k] = row[k]) /\ worked \subseteq worked'
  BY <1>t, <1>1 DEF Submit, Unsent
<1>2. ASSUME NEW j \in Jobs, Expire(j)
      PROVE  (\A k \in Jobs : row[k] \in Terminal => row'[k] = row[k]) /\ worked \subseteq worked'
  BY <1>2 DEF Expire
<1>3. ASSUME NEW w \in Workers, Fetch(w) \/ Crash(w)
      PROVE  (\A k \in Jobs : row[k] \in Terminal => row'[k] = row[k]) /\ worked \subseteq worked'
  BY <1>3 DEF Fetch, Crash
<1>4. ASSUME NEW w \in Workers, Step(w)
      PROVE  (\A k \in Jobs : row[k] \in Terminal => row'[k] = row[k]) /\ worked \subseteq worked'
  <2>1. CASE GetOperation(w)
    BY <2>1 DEF GetOperation
  <2>2. CASE StartStage(w)
    BY <1>t, <2>2 DEF StartStage, Startable
  <2>3. CASE Work(w)
    BY <2>3 DEF Work
  <2>4. CASE CompleteStage(w)
    BY <1>t, <2>4 DEF CompleteStage, Completable
  <2> QED BY <1>4, <2>1, <2>2, <2>3, <2>4 DEF Step
<1>5. CASE UNCHANGED vars
  BY <1>5 DEF vars
<1> QED BY <1>1, <1>2, <1>3, <1>4, <1>5 DEF Next

LEMMA UnsentKept ==
  ASSUME Typed, Unsent, [Next]_vars
  PROVE  Unsent'
<1>t. row \in [Jobs -> RowStates] /\ job \in [Jobs -> JobStates]
  BY DEF Typed, TypeOK
<1>a. \A j \in Jobs : AfterFailure(j) # "unsent"
  BY DEF AfterFailure
<1>1. ASSUME NEW j \in Jobs, Submit(j) \/ Expire(j) PROVE Unsent'
  BY <1>t, <1>a, <1>1 DEF Submit, Expire, Unsent
<1>2. ASSUME NEW w \in Workers, Fetch(w) \/ Crash(w) PROVE Unsent'
  BY <1>t, <1>2 DEF Fetch, Crash, Unsent
<1>3. ASSUME NEW w \in Workers, Step(w) PROVE Unsent'
  <2>1. \A j \in Jobs : job'[j] = "unsent" => job[j] = "unsent"
    <3>1. Moves(w)
      BY <1>3, StepMoves
    <3>2. ReturnBatch(w) \/ ThrowBatch(w) \/ UNCHANGED job
      BY <3>1 DEF Moves
    <3> QED BY <1>t, <1>a, <3>2 DEF ReturnBatch, ThrowBatch
  <2>2. \A j \in Jobs : row[j] = "missing" => row'[j] = "missing"
    BY <1>t, <1>3
    DEF Step, GetOperation, StartStage, Startable, Work, CompleteStage, Completable
  <2> QED BY <2>1, <2>2 DEF Unsent
<1>4. CASE UNCHANGED vars
  BY <1>4 DEF vars, Unsent
<1> QED BY <1>1, <1>2, <1>3, <1>4 DEF Next

\* An operation that ended never leaves its state, whichever workers still run an old
\* delivery of its job.
THEOREM Final == Spec => TerminalIsFinal
<1>1. Init => Typed /\ Unsent
  BY InitSound DEF Sound
<1>2. Typed /\ Unsent /\ [Next]_vars => (Typed /\ Unsent)'
  BY NextTyped, UnsentKept
<1>3. Typed /\ Unsent /\ [Next]_vars
        => [\A j \in Jobs : row[j] \in Terminal => row'[j] = row[j]]_vars
  BY RowsOnward
<1> QED BY <1>1, <1>2, <1>3, PTL DEF Spec, TerminalIsFinal

\* What a step of the processor does to its own worker: it gives the batch up, goes on
\* with the same batch, or ends the job at hand and goes on with the rest.
GivesUp(w) ==
  /\ worker' = [worker EXCEPT ![w] = Idle]
  /\ \A j \in Jobs : job'[j] = "done" => job[j] = "done"
Continues(w) ==
  /\ \E t \in Tasks : /\ t.all = worker[w].all /\ t.batch = worker[w].batch
                      /\ t.pc = "complete" /\ t.verdict = "succeeded" => Current(w) \in worked'
                      /\ worker' = [worker EXCEPT ![w] = t]
  /\ UNCHANGED job
Ends(w) ==
  /\ At(w, "complete") /\ row' = [row EXCEPT ![Current(w)] = worker[w].verdict]
  /\ NextJob(w) /\ UNCHANGED worked

LEMMA ThrowGivesUp ==
  ASSUME Typed, NEW w \in Workers, ThrowBatch(w)
  PROVE  GivesUp(w)
<1>1. \A j \in Jobs : AfterFailure(j) # "done"
  BY DEF AfterFailure
<1> QED BY <1>1 DEF ThrowBatch, GivesUp, Typed, TypeOK

LEMMA ConcludeContinues ==
  ASSUME Typed, NEW w \in Workers, NEW verdict \in Verdicts, Conclude(w, verdict),
         verdict = "succeeded" => Current(w) \in worked'
  PROVE  Continues(w)
<1> DEFINE t == [worker[w] EXCEPT !.pc = "complete", !.verdict = verdict]
<1>1. worker[w] \in Tasks
  BY DEF Typed, TypeOK
<1>2. t \in Tasks /\ t.all = worker[w].all /\ t.batch = worker[w].batch /\ t.verdict = verdict
  BY <1>1 DEF Tasks
<1>3. worker' = [worker EXCEPT ![w] = t] /\ UNCHANGED job
  BY DEF Conclude
<1> QED BY <1>2, <1>3 DEF Continues

LEMMA GoToContinues ==
  ASSUME Typed, NEW w \in Workers, NEW pc \in {"start", "work"}, GoTo(w, pc)
  PROVE  Continues(w)
<1> DEFINE t == [worker[w] EXCEPT !.pc = pc]
<1>1. worker[w] \in Tasks
  BY DEF Typed, TypeOK
<1>2. t \in Tasks /\ t.all = worker[w].all /\ t.batch = worker[w].batch /\ t.pc # "complete"
  BY <1>1 DEF Tasks
<1>3. worker' = [worker EXCEPT ![w] = t] /\ UNCHANGED job
  BY DEF GoTo
<1> QED BY <1>2, <1>3 DEF Continues

LEMMA CatchContinues ==
  ASSUME Typed, NEW w \in Workers, CatchError(w)
  PROVE  Continues(w)
<1> DEFINE t == [worker[w] EXCEPT !.pc = "get", !.attempt = worker[w].attempt + 1]
<1>1. worker[w] \in Tasks
  BY DEF Typed, TypeOK
<1>2. CASE worker[w].attempt < MaxAttempts
  <2>1. worker[w].attempt + 1 \in 1..MaxAttempts
    BY <1>1, <1>2, OperationDeliveryAssumption DEF OperationDeliveryAssumption, Tasks
  <2>2. t \in Tasks /\ t.all = worker[w].all /\ t.batch = worker[w].batch /\ t.pc # "complete"
    BY <1>1, <2>1 DEF Tasks
  <2>3. worker' = [worker EXCEPT ![w] = t] /\ UNCHANGED job
    BY <1>2 DEF CatchError
  <2> QED BY <2>2, <2>3 DEF Continues
<1>3. CASE ~(worker[w].attempt < MaxAttempts)
  BY <1>3, ConcludeContinues DEF CatchError, Verdicts
<1> QED BY <1>2, <1>3

LEMMA StepCases ==
  ASSUME Typed, NEW w \in Workers, Step(w)
  PROVE  GivesUp(w) \/ Continues(w) \/ Ends(w)
<1>1. CASE GetOperation(w)
  BY <1>1, ThrowGivesUp, GoToContinues DEF GetOperation
<1>2. CASE StartStage(w)
  BY <1>2, ThrowGivesUp, GoToContinues DEF StartStage
<1>3. CASE Work(w)
  BY <1>3, ConcludeContinues, CatchContinues DEF Work, Verdicts
<1>4. CASE CompleteStage(w)
  <2>1. CompletionThrew(w) => GivesUp(w) \/ Continues(w)
    BY ThrowGivesUp, CatchContinues DEF CompletionThrew
  <2> QED BY <1>4, <2>1 DEF CompleteStage, Ends
<1> QED BY <1>1, <1>2, <1>3, <1>4 DEF Step

\* The other workers' duties are kept whatever the step.
LEMMA OthersHonest ==
  ASSUME Sound, [Next]_vars, NEW w \in Workers, NEW t, worker' = [worker EXCEPT ![w] = t],
         Honest(t)'
  PROVE  \A v \in Workers : Honest(worker[v])'
<1>1. /\ \A j \in Jobs : row[j] \in Terminal => row'[j] = row[j]
      /\ worked \subseteq worked'
  BY RowsOnward DEF Sound
<1>2. \A v \in Workers : worker[v] \in Tasks /\ Honest(worker[v])
  BY DEF Sound, Typed, TypeOK
<1>3. ASSUME NEW v \in Workers, v # w PROVE Honest(worker[v])'
  <2>1. worker'[v] = worker[v] /\ worker[v].all \subseteq Jobs
    BY <1>2, <1>3 DEF Sound, Typed, TypeOK, Tasks
  <2> QED BY <1>1, <1>2, <2>1 DEF Honest, Covered, Earned
<1>4. worker'[w] = t
  BY DEF Sound, Typed, TypeOK
<1>5. Honest(worker[w])'
  BY <1>4 DEF Honest, Covered, Earned
<1> QED BY <1>3, <1>5

LEMMA IdleHonest == Honest(Idle)'
  BY DEF Honest, Covered, Earned, Idle

LEMMA StepSound ==
  ASSUME Sound, NEW w \in Workers, Step(w)
  PROVE  CompletedJobIsTerminal' /\ \A v \in Workers : Honest(worker[v])'
<1>n. [Next]_vars
  BY DEF Next
<1>r. /\ \A j \in Jobs : row[j] \in Terminal => row'[j] = row[j]
      /\ worked \subseteq worked'
  BY <1>n, RowsOnward DEF Sound
<1>t. /\ Typed /\ worker[w] \in Tasks /\ worker[w].pc # "idle" /\ worker[w].batch # <<>>
      /\ Honest(worker[w]) /\ CompletedJobIsTerminal
  BY StepKind DEF Sound, OperationsAgree, Typed, TypeOK, Busy, At
<1>d. ASSUME \A j \in Jobs : job'[j] = "done" => job[j] = "done" PROVE CompletedJobIsTerminal'
  BY <1>r, <1>t, <1>d DEF CompletedJobIsTerminal
<1>1. CASE GivesUp(w)
  BY <1>1, <1>n, <1>d, IdleHonest, OthersHonest DEF GivesUp
<1>2. CASE Continues(w)
  <2>1. PICK t \in Tasks : /\ t.all = worker[w].all /\ t.batch = worker[w].batch
                           /\ t.pc = "complete" /\ t.verdict = "succeeded" => Current(w) \in worked'
                           /\ worker' = [worker EXCEPT ![w] = t]
    BY <1>2 DEF Continues
  <2>2. Honest(t)'
    BY <1>r, <1>t, <2>1 DEF Honest, Covered, Earned, Ahead, Current, Tasks
  <2>3. UNCHANGED job
    BY <1>2 DEF Continues
  <2> QED BY <1>n, <1>d, <2>1, <2>2, <2>3, OthersHonest
<1>3. CASE Ends(w)
  <2> DEFINE b == worker[w].batch
  <2>1. b \in Seq(Jobs) /\ Current(w) \in Jobs /\ worker[w].all \subseteq Jobs
    BY <1>t, CurrentIsJob DEF Tasks, At
  <2>2. row'[Current(w)] \in Terminal
    BY <1>3, <1>t, <2>1 DEF Ends, Terminal, Typed, TypeOK, Tasks
  <2>3. Len(b) \in Nat /\ Len(b) >= 1 /\ Current(w) = b[1]
    BY <1>t, <2>1, EmptySeq, HeadTailProperties DEF Current
  <2>4. ASSUME NEW j \in worker[w].all
        PROVE  row'[j] \in Terminal \/ \E i \in 2..Len(b) : b[i] = j
    <3>1. CASE row[j] \in Terminal
      BY <1>r, <2>1, <3>1
    <3>2. CASE \E i \in 1..Len(b) : b[i] = j
      BY <2>2, <2>3, <3>2
    <3> QED BY <1>t, <3>1, <3>2 DEF Honest, Covered, Ahead
  <2>5. CASE Len(b) = 1
    <3>1. ReturnBatch(w)
      BY <1>3, <2>5 DEF Ends, NextJob
    <3>2. \A j \in worker[w].all : row'[j] \in Terminal
      BY <2>4, <2>5
    <3>3. CompletedJobIsTerminal'
      BY <1>r, <1>t, <3>1, <3>2 DEF CompletedJobIsTerminal, ReturnBatch, Typed, TypeOK
    <3> QED BY <1>n, <3>1, <3>3, IdleHonest, OthersHonest DEF ReturnBatch
  <2>6. CASE Len(b) # 1
    <3>1. UNCHANGED job
      BY <1>3, <2>6 DEF Ends, NextJob
    <3>2. PICK t : /\ t.pc = "get" /\ t.all = worker[w].all /\ t.batch = Tail(b)
                   /\ worker' = [worker EXCEPT ![w] = t]
      <4> DEFINE u == [worker[w] EXCEPT !.pc = "get", !.attempt = 1, !.batch = Tail(b)]
      <4>1. u.pc = "get" /\ u.all = worker[w].all /\ u.batch = Tail(b)
        BY <1>t DEF Tasks
      <4>2. worker' = [worker EXCEPT ![w] = u]
        BY <1>3, <2>6 DEF Ends, NextJob
      <4> HIDE DEF u
      <4> QED BY <4>1, <4>2
    <3>3. /\ Len(Tail(b)) = Len(b) - 1
          /\ \A i \in 1..Len(b) - 1 : Tail(b)[i] = b[i + 1]
      BY <1>t, <2>1, HeadTailProperties
    <3>4. ASSUME NEW j \in worker[w].all PROVE row'[j] \in Terminal \/ Ahead(j, Tail(b))
      <4>1. CASE \E i \in 2..Len(b) : b[i] = j
        <5>1. PICK i \in 2..Len(b) : b[i] = j
          BY <4>1
        <5>2. i - 1 \in 1..Len(Tail(b)) /\ Tail(b)[i - 1] = j
          BY <2>3, <3>3, <5>1
        <5> QED BY <5>2 DEF Ahead
      <4> QED BY <2>4, <4>1
    <3>5. Honest(t)'
      BY <3>2, <3>4 DEF Honest, Covered, Earned, Ahead
    <3> QED BY <1>n, <1>d, <3>1, <3>2, <3>5, OthersHonest
  <2> QED BY <2>5, <2>6
<1> QED BY <1>t, <1>1, <1>2, <1>3, StepCases

LEMMA FetchSound ==
  ASSUME Sound, NEW w \in Workers, Fetch(w)
  PROVE  CompletedJobIsTerminal' /\ \A v \in Workers : Honest(worker[v])'
<1>1. PICK b \in Batches :
        LET all == {b[i] : i \in DOMAIN b}
        IN /\ job' = [j \in Jobs |-> IF j \in all THEN "active" ELSE job[j]]
           /\ worker' = [worker EXCEPT ![w] =
                           [Idle EXCEPT !.pc = "get", !.all = all, !.batch = b]]
  BY DEF Fetch
<1> DEFINE t == [Idle EXCEPT !.pc = "get", !.all = {b[i] : i \in DOMAIN b}, !.batch = b]
<1>2. CompletedJobIsTerminal'
  BY <1>1 DEF Fetch, Sound, OperationsAgree, CompletedJobIsTerminal, Typed, TypeOK
<1>3. DOMAIN b = 1..Len(b)
  BY OperationDeliveryAssumption DEF OperationDeliveryAssumption, Batches
<1>4. Honest(t)'
  <2>1. t.pc = "get" /\ t.all = {b[i] : i \in 1..Len(b)} /\ t.batch = b
    BY <1>3 DEF Idle
  <2> HIDE DEF t
  <2> QED BY <2>1 DEF Honest, Covered, Earned, Ahead
<1>5. worker' = [worker EXCEPT ![w] = t]
  BY <1>1
<1>6. [Next]_vars
  BY DEF Next
<1> HIDE DEF t
<1> QED BY <1>2, <1>4, <1>5, <1>6, OthersHonest

\* An operation is recorded as succeeded only by a worker that has done its work.
LEMMA SuccessEarned ==
  ASSUME Sound, [Next]_vars
  PROVE  SucceededMeansWorked'
<1>r. worked \subseteq worked'
  BY RowsOnward DEF Sound
<1>s. \A j \in Jobs : row'[j] = "succeeded" => row[j] = "succeeded" \/ j \in worked
  <2>t. Typed /\ row \in [Jobs -> RowStates]
    BY DEF Sound, Typed, TypeOK
  <2>1. ASSUME NEW j \in Jobs, Submit(j) \/ Expire(j)
        PROVE  \A k \in Jobs : row'[k] = "succeeded" => row[k] = "succeeded"
    BY <2>t, <2>1 DEF Submit, Expire
  <2>2. ASSUME NEW w \in Workers, Fetch(w) \/ Crash(w) PROVE UNCHANGED row
    BY <2>2 DEF Fetch, Crash
  <2>3. ASSUME NEW w \in Workers, Step(w)
        PROVE  \A k \in Jobs : row'[k] = "succeeded" => row[k] = "succeeded" \/ k \in worked
    <3>1. CASE GetOperation(w) \/ StartStage(w) \/ Work(w)
      BY <2>t, <3>1 DEF GetOperation, StartStage, Work
    <3>2. CASE CompleteStage(w)
      <4>1. worker[w].verdict = "succeeded" => Current(w) \in worked
        BY <3>2 DEF Sound, Honest, Earned, CompleteStage, At, Current
      <4> QED BY <2>t, <3>2, <4>1 DEF CompleteStage
    <3> QED BY <2>3, <3>1, <3>2 DEF Step
  <2>4. CASE UNCHANGED vars
    BY <2>4 DEF vars
  <2> QED BY <2>1, <2>2, <2>3, <2>4 DEF Next
<1> QED BY <1>r, <1>s DEF Sound, OperationsAgree, SucceededMeansWorked

LEMMA NextSound ==
  ASSUME Sound, [Next]_vars
  PROVE  Sound'
<1> DEFINE Rest == CompletedJobIsTerminal' /\ \A v \in Workers : Honest(worker[v])'
<1>k. Typed' /\ Unsent' /\ SucceededMeansWorked'
  BY NextTyped, UnsentKept, SuccessEarned DEF Sound
<1>r. /\ \A j \in Jobs : row[j] \in Terminal => row'[j] = row[j]
      /\ worked \subseteq worked'
  BY RowsOnward DEF Sound
<1>d. ASSUME \A j \in Jobs : job'[j] = "done" => job[j] = "done" PROVE CompletedJobIsTerminal'
  BY <1>r, <1>d DEF Sound, OperationsAgree, CompletedJobIsTerminal
<1>w. ASSUME UNCHANGED worker PROVE \A v \in Workers : Honest(worker[v])'
  <2>1. \A v \in Workers : worker[v].all \subseteq Jobs /\ Honest(worker[v])
    BY DEF Sound, Typed, TypeOK, Tasks
  <2> QED BY <1>r, <1>w, <2>1 DEF Honest, Covered, Earned
<1>1. ASSUME NEW j \in Jobs, Submit(j) \/ Expire(j) PROVE Rest
  <2>1. AfterFailure(j) # "done"
    BY DEF AfterFailure
  <2>2. UNCHANGED worker /\ \A k \in Jobs : job'[k] = "done" => job[k] = "done"
    BY <1>1, <2>1 DEF Submit, Expire, Sound, Typed, TypeOK
  <2> QED BY <1>d, <1>w, <2>2
<1>2. ASSUME NEW w \in Workers, Fetch(w) \/ Step(w) PROVE Rest
  BY <1>2, FetchSound, StepSound
<1>3. ASSUME NEW w \in Workers, Crash(w) PROVE Rest
  BY <1>3, <1>d, IdleHonest, OthersHonest DEF Crash
<1>4. ASSUME UNCHANGED vars PROVE Rest
  <2>1. UNCHANGED <<job, worker>>
    BY <1>4 DEF vars
  <2> QED BY <1>d, <1>w, <2>1
<1>5. Rest
  <2> HIDE DEF Rest
  <2> QED BY <1>1, <1>2, <1>3, <1>4 DEF Next
<1> QED BY <1>k, <1>5 DEF Sound, OperationsAgree

\* A job that pg-boss counts as completed has ended, and an operation that succeeded has
\* done its work, for any batches, attempts, redeliveries and faults.
THEOREM Agree == Spec => []OperationsAgree
<1>1. Sound => OperationsAgree
  BY DEF Sound
<1> QED BY InitSound, NextSound, <1>1, PTL DEF Spec
================================================================================
