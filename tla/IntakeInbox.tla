------------------------------ MODULE IntakeInbox ------------------------------
(***************************************************************************)
(* The inbox of one tenant.  An item comes in by a call of the public      *)
(* route (a link, a feed or a text), or as an entry of the feed that the   *)
(* poller refreshes through a parent item.  Links and feeds are fetched by *)
(* a worker, which the caller sets to work in two writes that are not one  *)
(* transaction: a job in the content-intake queue, and the status fetching *)
(* in the item's row.  Editors decide on items at any time.                *)
(*                                                                         *)
(* None of the transactions locks the row: those that check the status     *)
(* before they write it are two steps here, and what commits in between    *)
(* is overwritten.                                                         *)
(***************************************************************************)
EXTENDS Integers, Sequences, FiniteSets, Bags, Functions

CONSTANTS Entries,      \* the links of the feed
          Texts,        \* texts that are submitted with their body
          Calls,        \* calls (submission, retry, poll) in progress at a time
          Fetchers,     \* processes that take jobs, one at a time each
          MaxItems,     \* bound on all rows: there is room for each entry once
          MaxAttempts,  \* attempts within one delivery of a job (3 in the code)
          RetryLimit,   \* redeliveries of a job (3 in the code)
          \* What may happen in a behaviour: the channels of the submissions, and bounds
          \* on the rows that are not made for an entry, on the editors' decisions and on
          \* errors, crashes and needless redeliveries.
          Plots

ASSUME IntakeInboxAssumption ==
  /\ {MaxItems, MaxAttempts} \subseteq Nat \ {0}
  /\ RetryLimit \in Nat
  /\ IsFiniteSet(Entries)
  /\ Entries \cap Texts = {}
  /\ \A p \in Plots : /\ p.channels \subseteq {"rss", "url", "webhook"}
                     /\ {p.rows, p.decisions, p.faults} \subseteq Nat
                     /\ p.rows + Cardinality(Entries) <= MaxItems

ItemIds == 1..MaxItems
NoItem == 0
Nothing == ""
Contents == Entries \cup Texts \cup {Nothing}

VARIABLES plot,       \* the member of Plots that bounds the behaviour
          item,       \* the rows of intake_items, in order of creation
          queue,      \* bag of the jobs that wait in content-intake
          call,       \* where each call stands
          worker,     \* where each worker stands
          decisions, faults,
          \* Items that were marked as fetching when their job had ended, or whose job
          \* the queue gave up while they were.  (For the properties only.)
          left

intakeVars == <<plot, item, queue, call, worker, decisions, faults, left>>

Statuses == {"new", "fetching", "ready", "failed", "duplicate", "ignored", "merged", "adopted"}
Decided == {"ignored", "merged", "adopted"}

\* entry: the row was made for an entry of the feed.
Items == [channel: {"rss", "url", "webhook"}, content: Contents, status: Statuses, entry: BOOLEAN]
Rows == DOMAIN item
Status(i) == item[i].status
SetStatus(i, status) == item' = [item EXCEPT ![i].status = status]

Jobs == [item: ItemIds, tries: 0..RetryLimit]
Waiting == BagToSet(queue)

CallStates == [step: {"idle", "insert", "adopt", "enqueue", "mark"},
               kind: {"submit", "retry", "poll"},
               channel: {"rss", "url", "webhook"}, content: Contents,
               duplicate: BOOLEAN, item: ItemIds \cup {NoItem}]
NoCall == [step |-> "idle", kind |-> "submit", channel |-> "url", content |-> Nothing,
           duplicate |-> FALSE, item |-> NoItem]

WorkerSteps == {"idle", "claim", "claiming", "fetch", "entries", "creating", "send",
                "complete", "completing", "fail", "failing"}
WorkerStates == [step: WorkerSteps, item: ItemIds \cup {NoItem}, tries: 0..RetryLimit,
                 attempt: 1..MaxAttempts,
                 fresh: SUBSET Entries, created: SUBSET ItemIds]
NoWork == [step |-> "idle", item |-> NoItem, tries |-> 0, attempt |-> 1,
           fresh |-> {}, created |-> {}]

IntakeTypeOK ==
  /\ plot \in Plots
  /\ Len(item) <= MaxItems /\ \A i \in Rows : item[i] \in Items
  /\ IsABag(queue) /\ Waiting \subseteq Jobs
  /\ call \in [Calls -> CallStates]
  /\ worker \in [Fetchers -> WorkerStates]
  /\ \A c \in Calls : call[c].item \in Rows \cup {NoItem}
  /\ \A w \in Fetchers : worker[w].created \cup {worker[w].item} \subseteq Rows \cup {NoItem}
  /\ decisions \in 0..plot.decisions /\ faults \in 0..plot.faults
  /\ left \subseteq Rows

IntakeInit ==
  /\ plot \in Plots
  /\ item = <<>>
  /\ queue = EmptyBag
  /\ call = [c \in Calls |-> NoCall]
  /\ worker = [w \in Fetchers |-> NoWork]
  /\ decisions = 0 /\ faults = 0
  /\ left = {}

\* A job of the item waits or is being worked on.
Attended(i) ==
  \/ \E j \in Waiting : j.item = i
  \/ \E w \in Fetchers : worker[w].step # "idle" /\ worker[w].item = i

\* send with a singleton key: a job of the item that waits for its first delivery is
\* enough.  The key does not see a job a worker has taken.
Send(S, jobs) == jobs (+) SetToBag({[item |-> i, tries |-> 0] : i \in S} \ BagToSet(jobs))

(***************************************************************************)
(* Calls: submission, retry, poll.                                         *)
(***************************************************************************)
CallAt(c, step) == call[c].step = step
CallGoes(c, step) == call' = [call EXCEPT ![c].step = step]
Return(c) == call' = [call EXCEPT ![c] = NoCall]
Start(c, kind, i) == call' = [call EXCEPT ![c] = [NoCall EXCEPT !.kind = kind, !.item = i,
                                                              !.step = "enqueue"]]

RoomForOwn ==
  Len(item) < MaxItems /\ Cardinality({i \in Rows : ~item[i].entry}) < plot.rows
NewRow(channel, content, status, entry) ==
  [channel |-> channel, content |-> content, status |-> status, entry |-> entry]
Known(content) == content # Nothing /\ \E i \in Rows : item[i].content = content

\* handleIntakeOpsAction, create: what its transaction reads.  A text that is there
\* already is a replay, answered with its row.
Submit(c, channel, content) ==
  /\ CallAt(c, "idle")
  /\ channel = "webhook" => content \in Texts /\ ~Known(content)
  /\ channel = "url" => content \in Entries
  /\ channel = "rss" => content = Nothing
  /\ call' = [call EXCEPT ![c] = [NoCall EXCEPT !.step = "insert", !.channel = channel,
                                    !.content = content, !.duplicate = Known(content)]]
  /\ UNCHANGED <<plot, item, queue, worker, decisions, faults, left>>

\* What it inserts, and how the call goes on with it.
Insert(c) ==
  LET status == IF call[c].duplicate THEN "duplicate"
                ELSE IF call[c].channel = "webhook" THEN "ready" ELSE "new"
  IN /\ CallAt(c, "insert") /\ RoomForOwn
     /\ item' = Append(item, NewRow(call[c].channel, call[c].content, status, FALSE))
     /\ \/ status = "new" /\ Start(c, "submit", Len(item) + 1)
        \/ status = "ready" /\ call' = [call EXCEPT ![c].step = "adopt", ![c].item = Len(item) + 1]
        \/ status # "new" /\ Return(c)
     /\ UNCHANGED <<plot, queue, worker, decisions, faults, left>>

\* Automatic adoption of a text whose key asks for it; where it fails the row stays.
AutoAdopt(c) ==
  /\ CallAt(c, "adopt")
  /\ SetStatus(call[c].item, "adopted") \/ UNCHANGED item
  /\ Return(c)
  /\ UNCHANGED <<plot, queue, worker, decisions, faults, left>>

\* The retry action: its transaction only reads.
Retry(c, i) ==
  /\ CallAt(c, "idle") /\ i \in Rows
  /\ item[i].channel \in {"url", "rss"} /\ Status(i) \in {"new", "failed"}
  /\ Start(c, "retry", i)
  /\ UNCHANGED <<plot, item, queue, worker, decisions, faults, left>>

\* pollDueRssConnectors, for one connector that is due: the newest parent item is used
\* again unless it is being fetched or an editor has decided on it.
Latest(i) == item[i].channel = "rss" /\ \A j \in Rows : item[j].channel = "rss" => j <= i

Poll(c) ==
  /\ CallAt(c, "idle")
  /\ \/ \E i \in Rows : /\ Latest(i) /\ Status(i) \notin Decided \cup {"fetching"}
                        /\ Start(c, "poll", i)
                        /\ UNCHANGED item
     \/ /\ \A i \in Rows : Latest(i) => Status(i) \in Decided
        /\ RoomForOwn
        /\ item' = Append(item, NewRow("rss", Nothing, "new", FALSE))
        /\ Start(c, "poll", Len(item) + 1)
  /\ UNCHANGED <<plot, queue, worker, decisions, faults, left>>

\* The job is sent first, and then the row is marked, whatever has become of it and of
\* the job.  Where either fails, before or after its effect, a submission is answered as
\* not queued, and its row is new whatever it was.
NotQueued(c) ==
  /\ faults < plot.faults /\ faults' = faults + 1
  /\ IF call[c].kind = "submit" THEN SetStatus(call[c].item, "new") ELSE UNCHANGED item
  /\ Return(c)

Enqueue(c) ==
  /\ CallAt(c, "enqueue")
  /\ \/ /\ queue' = Send({call[c].item}, queue)
        /\ CallGoes(c, "mark")
        /\ UNCHANGED <<item, faults>>
     \/ /\ NotQueued(c)
        /\ queue' = Send({call[c].item}, queue) \/ UNCHANGED queue
  /\ UNCHANGED <<plot, worker, decisions, left>>

Mark(c) ==
  /\ CallAt(c, "mark")
  /\ \/ /\ SetStatus(call[c].item, "fetching")
        /\ left' = IF Attended(call[c].item) THEN left ELSE left \cup {call[c].item}
        /\ Return(c)
        /\ UNCHANGED faults
     \/ NotQueued(c) /\ UNCHANGED left
  /\ UNCHANGED <<plot, queue, worker, decisions>>

\* The server dies under a call.
CallDies(c) ==
  /\ ~CallAt(c, "idle")
  /\ faults < plot.faults /\ faults' = faults + 1
  /\ Return(c)
  /\ UNCHANGED <<plot, item, queue, worker, decisions, left>>

\* The actions ignore, merge and adopt: none asks for the status of the item.
Decide(i, status) ==
  /\ i \in Rows /\ Status(i) # status
  /\ decisions < plot.decisions /\ decisions' = decisions + 1
  /\ status = "merged" => Len(item) > 1
  /\ SetStatus(i, status)
  /\ left' = left \ {i}
  /\ UNCHANGED <<plot, queue, call, worker, faults>>

(***************************************************************************)
(* A worker.                                                               *)
(***************************************************************************)
Doing(w, step) == worker[w].step = step
Turn(w, step) == worker' = [worker EXCEPT ![w].step = step]
Drop(w) == worker' = [worker EXCEPT ![w] = NoWork]
Mine(w) == worker[w].item

Take(w, i) ==
  /\ Doing(w, "idle")
  /\ \E job \in Waiting :
       /\ job.item = i
       /\ queue' = queue (-) SetToBag({job})
       /\ worker' = [worker EXCEPT ![w] = [NoWork EXCEPT !.step = "claim", !.item = job.item,
                                                         !.tries = job.tries]]
  /\ UNCHANGED <<plot, item, call, decisions, faults, left>>

\* (Variants named after a mistake, like the next two, are used by no action: they are
\* the mutations the properties are tested against.)
DeliversForEver(w) == queue' = queue (+) SetToBag({[item |-> Mine(w), tries |-> worker[w].tries + 1]})
DeliversOnce(w) == UNCHANGED queue
Redeliver(w) ==
  queue' = IF worker[w].tries < RetryLimit
             THEN queue (+) SetToBag({[item |-> Mine(w), tries |-> worker[w].tries + 1]})
             ELSE queue

\* The job is done.  It is delivered again all the same if the queue never learns of it.
Done(w) ==
  /\ Drop(w)
  /\ \/ UNCHANGED <<queue, faults>>
     \/ faults < plot.faults /\ faults' = faults + 1 /\ Redeliver(w)

\* The processor threw or the process died: the job is delivered again, or given up.
Throws(w) ==
  /\ Drop(w)
  /\ Redeliver(w)
  /\ \E i \in {Mine(w)} :
       left' = IF worker[w].tries < RetryLimit \/ Status(i)' # "fetching" \/ Attended(i)'
                 THEN left ELSE left \cup {i}

\* The catch block of an attempt: the next attempt, or the failure is recorded.
NextAttempt(w, permanent) ==
  worker' = [worker EXCEPT
    ![w].fresh = {}, ![w].created = {},
    ![w].step = IF permanent \/ worker[w].attempt = MaxAttempts THEN "fail" ELSE "claim",
    ![w].attempt = IF permanent \/ @ = MaxAttempts THEN @ ELSE @ + 1]

\* claimIntakeFetch: a row that is neither new nor fetching is skipped.
Claim(w) ==
  /\ Doing(w, "claim")
  /\ \/ /\ Status(Mine(w)) \in {"new", "fetching"}
        /\ Turn(w, IF Status(Mine(w)) = "new" THEN "claiming" ELSE "fetch")
        /\ UNCHANGED <<queue, faults>>
     \/ Status(Mine(w)) \notin {"new", "fetching"} /\ Done(w)
  /\ UNCHANGED <<plot, item, call, decisions, left>>

Claiming(w) ==
  /\ Doing(w, "claiming")
  /\ SetStatus(Mine(w), "fetching")
  /\ Turn(w, "fetch")
  /\ UNCHANGED <<plot, queue, call, decisions, faults, left>>

\* readIntakeFetchInput, the fetch and the raw snapshot.
Fetch(w) ==
  /\ Doing(w, "fetch")
  /\ \/ Status(Mine(w)) \notin {"new", "fetching"} /\ Done(w)
     \/ /\ Status(Mine(w)) \in {"new", "fetching"}
        /\ \/ Turn(w, IF item[Mine(w)].channel = "rss" THEN "entries" ELSE "complete")
           \/ \E permanent \in BOOLEAN : NextAttempt(w, permanent)
        /\ UNCHANGED <<queue, faults>>
  /\ UNCHANGED <<plot, item, call, decisions, left>>

\* createRssIntakeEntries: entries whose link the tenant has already are left out.
NewEntries == {e \in Entries : ~Known(e)}

ReadEntries(w) ==
  /\ Doing(w, "entries")
  /\ worker' = [worker EXCEPT ![w].step = "creating", ![w].fresh = NewEntries]
  /\ UNCHANGED <<plot, item, queue, call, decisions, faults, left>>

Insertions(fresh) ==
  LET order == CHOOSE f \in Bijection(1..Cardinality(fresh), fresh) : TRUE
  IN [n \in DOMAIN order |-> NewRow("url", order[n], "new", TRUE)]

\* The ids the call answers, for the worker to send.
Answer(rows) == {Len(item) + n : n \in DOMAIN rows}

CreateEntries(w) ==
  LET rows == Insertions(worker[w].fresh)
  IN /\ Doing(w, "creating")
     /\ Len(item) + Len(rows) <= MaxItems
     /\ item' = item \o rows
     /\ worker' = [worker EXCEPT ![w].step = "send", ![w].fresh = {},
                                 ![w].created = Answer(rows)]
     /\ UNCHANGED <<plot, queue, call, decisions, faults, left>>

\* A job for each of the rows, all of them sent at a time; then the extracted snapshot.
SendEntries(w) ==
  /\ Doing(w, "send")
  /\ \/ /\ queue' = Send(worker[w].created, queue)
        /\ worker' = [worker EXCEPT ![w].step = "complete", ![w].created = {}]
        /\ UNCHANGED faults
     \/ /\ faults < plot.faults /\ faults' = faults + 1
        /\ \E S \in SUBSET worker[w].created : queue' = Send(S, queue)
        /\ NextAttempt(w, FALSE)
  /\ UNCHANGED <<plot, item, call, decisions, left>>

\* completeIntakeFetch.
Complete(w) ==
  /\ Doing(w, "complete")
  /\ \/ Status(Mine(w)) \in {"fetching", "ready"} /\ Turn(w, "completing") /\ UNCHANGED <<queue, faults>>
     \/ Status(Mine(w)) \notin {"fetching", "ready"} /\ Done(w)
  /\ UNCHANGED <<plot, item, call, decisions, left>>

Completing(w) ==
  /\ Doing(w, "completing")
  /\ SetStatus(Mine(w), "ready")
  /\ left' = left \ {Mine(w)}
  /\ Done(w)
  /\ UNCHANGED <<plot, call, decisions>>

\* failIntakeFetch, called from the catch block: a refusal is thrown from there.
TellsNobody(w) == Done(w) /\ UNCHANGED <<item, left>>
RecordsFailure(w) == SetStatus(Mine(w), "failed") /\ left' = left \ {Mine(w)} /\ Done(w)

Fail(w) ==
  /\ Doing(w, "fail")
  /\ UNCHANGED item
  /\ \/ /\ Status(Mine(w)) \in {"new", "fetching", "failed"}
        /\ Turn(w, "failing")
        /\ UNCHANGED <<queue, left>>
     \/ /\ Status(Mine(w)) \notin {"new", "fetching", "failed"}
        /\ Throws(w)
  /\ UNCHANGED <<plot, call, decisions, faults>>

Failing(w) ==
  /\ Doing(w, "failing")
  /\ RecordsFailure(w)
  /\ UNCHANGED <<plot, call, decisions>>

\* The CMS does not answer, or its answer is lost after the write.
Unanswered(w) ==
  /\ worker[w].step \in {"claim", "claiming", "fetch", "entries", "creating",
                       "complete", "completing"}
  /\ faults < plot.faults /\ faults' = faults + 1
  /\ \/ UNCHANGED item
     \/ Doing(w, "claiming") /\ SetStatus(Mine(w), "fetching")
     \/ Doing(w, "completing") /\ SetStatus(Mine(w), "ready")
     \/ /\ Doing(w, "creating") /\ Len(item) + Cardinality(worker[w].fresh) <= MaxItems
        /\ item' = item \o Insertions(worker[w].fresh)
  /\ NextAttempt(w, FALSE)
  /\ UNCHANGED <<plot, queue, call, decisions, left>>

\* The same of the call that records the failure; or the process dies at any step.
Crash(w) ==
  /\ ~Doing(w, "idle")
  /\ faults < plot.faults /\ faults' = faults + 1
  /\ \/ UNCHANGED item
     \/ Doing(w, "failing") /\ SetStatus(Mine(w), "failed")
  /\ Throws(w)
  /\ UNCHANGED <<plot, call, decisions>>

WorkerStep(w) ==
  \/ Claim(w) \/ Claiming(w) \/ Fetch(w) \/ ReadEntries(w) \/ CreateEntries(w)
  \/ SendEntries(w) \/ Complete(w) \/ Completing(w) \/ Fail(w) \/ Failing(w)
CallStep(c) == Insert(c) \/ AutoAdopt(c) \/ Enqueue(c) \/ Mark(c)

IntakeNext ==
  \/ \E c \in Calls : \/ \E channel \in plot.channels, content \in Contents :
                           Submit(c, channel, content)
                      \/ \E i \in ItemIds : Retry(c, i)
                      \/ Poll(c) \/ CallStep(c) \/ CallDies(c)
  \/ \E i \in ItemIds, status \in Decided : Decide(i, status)
  \/ \E w \in Fetchers : \/ \E i \in ItemIds : Take(w, i)
                         \/ WorkerStep(w) \/ Unanswered(w) \/ Crash(w)

\* The queue is first in, first out, so that no job waits for ever while others are taken.
\* A worker goes on with its job and a call with its writes; nobody has to submit, retry
\* or decide anything.
Fairness ==
  /\ \A i \in ItemIds : SF_intakeVars(\E w \in Fetchers : Take(w, i))
  /\ \A w \in Fetchers : WF_intakeVars(WorkerStep(w))
  /\ \A c \in Calls : WF_intakeVars(CallStep(c))

IntakeSpec == IntakeInit /\ [][IntakeNext]_intakeVars
FairSpec == IntakeSpec /\ Fairness

(***************************************************************************)
(* Properties.                                                             *)
(***************************************************************************)
\* routes/intake-ops.ts:652 and connector-polling.ts:138, the two writes of a caller: an
\* item that is shown as being fetched has a job that will settle it.  What breaks this
\* is only the mark that comes after the job, and a job the queue gave up.
FetchingIsAttended ==
  \A i \in Rows : Status(i) = "fetching" => Attended(i) \/ i \in left

\* intake.ts:122, rows first and jobs after: an entry of the feed that nobody fetches is
\* due to a fault in between, and a fault leaves one feed's entries at most.  The next
\* poll does not make up for it, because the link is known by then.
Sending(i) == \E w \in Fetchers : i \in worker[w].created
Forgotten == {i \in Rows : item[i].entry /\ Status(i) = "new" /\ ~Attended(i) /\ ~Sending(i)}

EntriesAreSent == Cardinality(Forgotten) <= faults * Cardinality(Entries)

NothingIsForgotten == FetchingIsAttended /\ EntriesAreSent

\* Every fetch ends, with the same two exceptions.
EveryFetchEnds ==
  \A i \in ItemIds :
    (i \in Rows /\ Status(i) = "fetching")
      ~> (i \in Rows /\ (Status(i) # "fetching" \/ i \in left))
================================================================================
