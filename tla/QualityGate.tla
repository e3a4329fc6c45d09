------------------------------ MODULE QualityGate ------------------------------
(***************************************************************************)
(* The quality gate: evaluations of the texts of editions for each of      *)
(* their sites, and the releases they admit.                               *)
(*                                                                         *)
(* An evaluation is an operation of the ledger.  The worker reads the      *)
(* text, has it scored, and site by site stores its vectors, compares them *)
(* with the vectors of other editions and records an assessment.  Adding a *)
(* published edition to a further site queues an evaluation for that site  *)
(* alone.  The compiler refuses the release of a site unless every edition *)
(* it shows is admitted by an assessment.                                  *)
(*                                                                         *)
(* Submission, compilation and publication of a release are one action     *)
(* here; SiteReleases takes them apart, EditionVersions the other moves of *)
(* the workflow.                                                           *)
(***************************************************************************)
EXTENDS Integers, Sequences, FiniteSets

CONSTANTS Editions, Sites, Texts,
          BodyLikeness, TitleLikeness,   \* similarity of two texts, in percent
          Review, TitleBlock, OverallMin, \* the thresholds of each site
          Flawed,         \* texts the deterministic rules block
          PerEdition,     \* rows of assessments read per edition of a snapshot: 4
          FirstText,      \* the text each edition starts with
          MaxAttempts,    \* attempts at an evaluation: 3
          Plots           \* combinations of bounds: the editions in play, the sites each
                          \* is first assigned to, the scores the model may give, how
                          \* many evaluations run at once (one for each worker), and
                          \* how many evaluations, approvals and upsets (changes of
                          \* texts and failing calls) there are

Percent == 0..100

ASSUME LikenessAssumption ==
  /\ {BodyLikeness, TitleLikeness} \subseteq [Texts -> [Texts -> Percent]]
  /\ \A t, u \in Texts : /\ BodyLikeness[t][u] = BodyLikeness[u][t]
                         /\ TitleLikeness[t][u] = TitleLikeness[u][t]
  /\ {Review, TitleBlock, OverallMin} \subseteq [Sites -> Percent]

ASSUME QualityGateAssumption ==
  /\ Flawed \subseteq Texts /\ FirstText \in [Editions -> Texts]
  /\ PerEdition \in Nat /\ MaxAttempts \in Nat \ {0}
  /\ \A p \in Plots : /\ p.editions \subseteq Editions /\ p.sites \in [Editions -> SUBSET Sites]
                      /\ p.scores \subseteq Percent
                      /\ p.workers \in Nat \ {0}
                      /\ {p.operations, p.approvals, p.upsets} \subseteq Nat

VARIABLES plot,        \* the member of Plots that bounds the behaviour
          text,        \* the text of the latest version of each edition
          status,      \* its workflow status
          row,         \* the rows of edition_sites
          online,      \* the text each site's release shows
          kept,        \* the text of the newest version made under the release
                       \* that each row names
          compiledFor, \* the site of the release the latest version names
          assessments, \* rows of quality_assessments, in the order of insertion
          titles,      \* rows of embeddings: edition, site and text
          bodies,
          op,          \* the evaluations of the operations ledger
          warming,     \* editions with an embedding job
          publishing,  \* publish operations submitted: edition and site
          approvals, upsets

version == <<text, status, kept, compiledFor>>
vectors == <<titles, bodies>>
bounds == <<approvals, upsets>>
vars == <<plot, version, row, online, assessments, vectors, op, warming, publishing, bounds>>

None == "none"
NoScore == -1
OpIds == DOMAIN op
AssessmentIds == DOMAIN assessments
Verdicts == {"passed", "failed", "error"}
Rows == [state: {"absent", "pending", "published", "unpublished"},
         quality: {"pending"} \cup Verdicts]
Row(state, quality) == [state |-> state, quality |-> quality]

\* ruled is the text the deterministic rules were run on.
Assessments == [edition: Editions, site: Sites, text: Texts, ruled: Texts,
                state: Verdicts, op: 1..plot.operations]

\* document and input are the two reads of the text, score and embeds what the model
\* answered, site the site at hand, ids the assessments of the attempt.
Operations ==
  [edition: Editions, sites: SUBSET Sites, added: BOOLEAN,
   state: {"open", "succeeded", "failed"},
   pc: {"document", "input", "title", "body", "compare", "record", "finish", "done"},
   document: Texts \cup {None}, input: Texts \cup {None},
   score: Percent \cup {NoScore}, embeds: BOOLEAN,
   attempt: 1..MaxAttempts, todo: SUBSET Sites, site: Sites \cup {None}, likeness: {"pass", "held", "error", None},
   ids: SUBSET Nat]

TypeOK ==
  /\ plot \in Plots
  /\ text \in [Editions -> Texts]
  /\ status \in [Editions -> {"draft", "approved", "published"}]
  /\ row \in [Editions -> [Sites -> Rows]]
  /\ online \in [Sites -> [Editions -> Texts \cup {None}]]
  /\ kept \in [Editions -> [Sites -> Texts \cup {None}]]
  /\ compiledFor \in [Editions -> Sites \cup {None}]
  /\ \A k \in AssessmentIds : assessments[k] \in Assessments
  /\ {titles, bodies} \subseteq SUBSET (Editions \X Sites \X Texts)
  /\ Len(op) <= plot.operations
  /\ \A i \in OpIds : op[i] \in Operations /\ op[i].ids \subseteq AssessmentIds
  /\ warming \subseteq Editions /\ publishing \subseteq Editions \X Sites
  /\ approvals \in 0..plot.approvals /\ upsets \in 0..plot.upsets

Init ==
  /\ plot \in Plots
  /\ text = FirstText
  /\ status = [e \in Editions |-> "draft"]
  /\ row = [e \in Editions |-> [s \in Sites |->
              Row(IF s \in plot.sites[e] THEN "pending" ELSE "absent", "pending")]]
  /\ online = [s \in Sites |-> [e \in Editions |-> None]]
  /\ kept = [e \in Editions |-> [s \in Sites |-> None]]
  /\ compiledFor = [e \in Editions |-> None]
  /\ assessments = <<>>
  /\ titles = {} /\ bodies = {}
  /\ op = <<>>
  /\ warming = {} /\ publishing = {}
  /\ approvals = 0 /\ upsets = 0

Upset == upsets < plot.upsets /\ upsets' = upsets + 1

Member(e, s) == row[e][s].state \in {"pending", "published"}
SitesOf(e) == {s \in Sites : Member(e, s)}

(***************************************************************************)
(* The text and its workflow.                                              *)
(***************************************************************************)
\* A version saved while the edition is published belongs to the release it was last
\* compiled for.
Change(e, t) ==
  /\ t # text[e]
  /\ Upset
  /\ text' = [text EXCEPT ![e] = t]
  /\ kept' = IF status[e] = "published"
               THEN [kept EXCEPT ![e] = [s \in Sites |-> IF s = compiledFor[e] THEN t ELSE @[s]]]
               ELSE kept
  /\ UNCHANGED <<status, compiledFor, row, online, assessments, vectors, op, publishing, approvals>>

\* saveDraft.
Save(e, t) == Change(e, t) /\ UNCHANGED warming

\* writeGeneratedDraft also queues a job that is to store the vectors of the text.
WriteGenerated(e, t) ==
  /\ status[e] = "draft"
  /\ Change(e, t)
  /\ warming' = warming \cup {e}

\* The embedding job runs as an operation named after its edition.  The ledger has no
\* such operation, so that getOperation throws on every attempt and nothing is stored.
WarmUp(e) ==
  /\ e \in warming
  /\ warming' = warming \ {e}
  /\ UNCHANGED <<version, row, online, assessments, vectors, op, publishing, bounds>>

Approve(e) ==
  /\ status[e] = "draft" /\ approvals < plot.approvals
  /\ status' = [status EXCEPT ![e] = "approved"]
  /\ approvals' = approvals + 1
  /\ UNCHANGED <<text, kept, compiledFor, row, online, assessments, vectors, op, warming,
                 publishing, upsets>>

\* createDraftFromPublished.
Redraft(e) ==
  /\ status[e] = "published"
  /\ status' = [status EXCEPT ![e] = "draft"]
  /\ compiledFor' = [compiledFor EXCEPT ![e] = None]
  /\ UNCHANGED <<text, kept, row, online, assessments, vectors, op, warming, publishing, bounds>>

(***************************************************************************)
(* Submission of evaluations.                                              *)
(***************************************************************************)
Evaluation(e, sites, added) ==
  [edition |-> e, sites |-> sites, added |-> added, state |-> "open", pc |-> "document",
   document |-> None, input |-> None, score |-> NoScore, embeds |-> TRUE,
   attempt |-> 1, todo |-> {}, site |-> None, likeness |-> None, ids |-> {}]

Submit(e, sites, added) ==
  /\ Len(op) < plot.operations
  /\ op' = Append(op, Evaluation(e, sites, added))

\* handleEvaluationPost: of an edition in draft, for every site it is a member of; an
\* edition that is a member of none is evaluated for its primary site.
RequestEvaluation(e) ==
  /\ status[e] = "draft"
  /\ \E s \in Sites : Submit(e, IF SitesOf(e) = {} THEN {s} ELSE SitesOf(e), FALSE)
  /\ UNCHANGED <<version, row, online, assessments, vectors, warming, publishing, bounds>>

\* addSite: of a published edition.  An edition removed from the site may come back once
\* the site is released without it.
AddSite(e, s) ==
  /\ status[e] = "published"
  /\ \/ row[e][s].state = "absent"
     \/ row[e][s].state = "unpublished" /\ online[s][e] = None
  /\ row' = [row EXCEPT ![e][s] = Row("pending", "pending")]
  /\ Submit(e, {s}, TRUE)
  /\ UNCHANGED <<version, online, assessments, vectors, warming, publishing, bounds>>

\* removeSite: a published row is kept as unpublished, any other row is deleted.
RemoveSite(e, s) ==
  /\ status[e] = "published" /\ Member(e, s)
  /\ row' = [row EXCEPT ![e][s] =
               Row(IF @.state = "published" THEN "unpublished" ELSE "absent", "pending")]
  /\ UNCHANGED <<version, online, assessments, vectors, op, warming, publishing, bounds>>

(***************************************************************************)
(* The evaluation in the worker.                                           *)
(***************************************************************************)
\* The sites are taken in the order of the request.
NextSite(i) == IF op[i].todo = {} THEN {} ELSE {CHOOSE s \in op[i].todo : TRUE}

At(i, pc) == i \in OpIds /\ op[i].pc = pc

\* The order of the steps for a site.
ComparesFirst(pc) == CASE pc = "title" -> "compare" [] pc = "compare" -> "body"
                       [] pc = "body" -> "record"
After(pc) == CASE pc = "title" -> "body" [] pc = "body" -> "compare"
               [] pc = "compare" -> "record"

\* runEvaluationOperation reads the edition for the document of the deterministic rules
\* and of the score ...
ReadDocument(i) ==
  /\ At(i, "document")
  /\ Cardinality({j \in OpIds : op[j].pc \notin {"document", "done"}}) < plot.workers
  /\ op' = [op EXCEPT ![i].pc = "input", ![i].document = text[op[i].edition]]
  /\ UNCHANGED <<version, row, online, assessments, vectors, warming, publishing, bounds>>

Answered(i, score, embeds) ==
  op' = [op EXCEPT ![i].pc = IF embeds THEN "title" ELSE "record",
                   ![i].input = text[op[i].edition], ![i].todo = op[i].sites,
                   ![i].score = score, ![i].embeds = embeds]

\* ... and evaluateEdition reads it again, for the hash of the assessment and the
\* vectors.  Scoring and embedding may fail, which every assessment of the evaluation
\* shows; without vectors the sites are not compared.
ReadInput(i) ==
  /\ At(i, "input")
  /\ \/ (\E score \in plot.scores : Answered(i, score, TRUE)) /\ UNCHANGED upsets
     \/ /\ Upset
        /\ \E embeds \in BOOLEAN : Answered(i, NoScore, embeds)
  /\ UNCHANGED <<version, row, online, assessments, vectors, warming, publishing, approvals>>

Vector(i, s) == <<op[i].edition, s, op[i].input>>

\* runSemanticCheck, for the next site.
StoreTitle(i) ==
  /\ At(i, "title")
  /\ \E s \in NextSite(i) :
       /\ titles' = titles \cup {Vector(i, s)}
       /\ op' = [op EXCEPT ![i].pc = After("title"), ![i].site = s]
  /\ UNCHANGED <<version, row, online, assessments, bodies, warming, publishing, bounds>>

StoreBody(i) ==
  /\ At(i, "body")
  /\ bodies' = bodies \cup {Vector(i, op[i].site)}
  /\ op' = [op EXCEPT ![i].pc = After("body")]
  /\ UNCHANGED <<version, row, online, assessments, titles, warming, publishing, bounds>>

\* decideSemantic, on the vectors of other editions: bodies on other sites and titles on
\* this one.  Whether one is too near is taken as exact.  (The code looks at five that an
\* approximate index finds, filtered afterwards, and may miss the nearest.)  A body in the
\* review band ends, as one in the block band does, in a failed assessment.
Twin(t, s, u, r) == IF r = s THEN TitleLikeness[t][u] >= TitleBlock[s]
                             ELSE BodyLikeness[t][u] >= Review[s]
Held(e, s, t) ==
  \/ \E v \in bodies : v[1] # e /\ v[2] # s /\ Twin(t, s, v[3], v[2])
  \/ \E v \in titles : v[1] # e /\ v[2] = s /\ Twin(t, s, v[3], v[2])

Compare(i) ==
  /\ At(i, "compare")
  /\ op' = [op EXCEPT ![i].pc = After("compare"),
                      ![i].likeness =
                         IF Held(op[i].edition, op[i].site, op[i].input) THEN "held" ELSE "pass"]
  /\ UNCHANGED <<version, row, online, assessments, vectors, warming, publishing, bounds>>

\* A store or a query that fails makes the semantic layer an error.
SemanticError(i) ==
  /\ Upset
  /\ \/ /\ At(i, "title")
        /\ \E s \in NextSite(i) :
             op' = [op EXCEPT ![i].pc = "record", ![i].site = s, ![i].likeness = "error"]
     \/ /\ At(i, "body") \/ At(i, "compare")
        /\ op' = [op EXCEPT ![i].pc = "record", ![i].likeness = "error"]
  /\ UNCHANGED <<version, row, online, assessments, vectors, warming, publishing, approvals>>

(***************************************************************************)
(* Assessments.                                                            *)
(***************************************************************************)
\* The latest evaluation queued by adding edition e to site s, 0 if there is none.
LatestAdd(e, s) ==
  LET adds == {i \in OpIds : op[i].added /\ op[i].edition = e /\ op[i].sites = {s}}
  IN IF adds = {} THEN 0 ELSE CHOOSE i \in adds : \A j \in adds : j <= i

\* aggregateQualityGate.
ScorePasses(score, s) == score >= OverallMin[s]

VerdictOf(i, s) ==
  IF op[i].score = NoScore \/ ~op[i].embeds \/ op[i].likeness = "error" THEN "error"
  ELSE IF /\ op[i].document \notin Flawed
          /\ ScorePasses(op[i].score, s)
          /\ op[i].likeness = "pass" THEN "passed"
  ELSE "failed"

\* recordAssessment: the row of the site shows the verdict, unless the edition was added
\* to the site since and the verdict is of another evaluation than that of the addition.
AlwaysUpdatesRow(i, e, s) == TRUE
UpdatesRow(i, e, s) == LatestAdd(e, s) \in {0, i}

Record(i) ==
  /\ At(i, "record")
  /\ LET e == op[i].edition
     IN \E s \in IF op[i].embeds THEN {op[i].site} ELSE NextSite(i) :
          /\ assessments' = Append(assessments,
               [edition |-> e, site |-> s, text |-> op[i].input, ruled |-> op[i].document,
                state |-> VerdictOf(i, s), op |-> i])
          /\ op' = [op EXCEPT ![i].pc = IF op[i].todo = {s} THEN "finish"
                                        ELSE IF op[i].embeds THEN "title" ELSE "record",
                              ![i].todo = @ \ {s}, ![i].site = None, ![i].likeness = None,
                              ![i].ids = @ \cup {Len(assessments) + 1}]
          /\ row' = IF UpdatesRow(i, e, s) /\ row[e][s].state # "absent"
                      THEN [row EXCEPT ![e][s].quality = VerdictOf(i, s)] ELSE row
  /\ UNCHANGED <<version, online, vectors, warming, publishing, bounds>>

Closed(i, state) ==
  [op[i] EXCEPT !.state = state, !.pc = "done", !.document = None, !.input = None,
                !.score = NoScore, !.embeds = TRUE]

Finish(i) ==
  /\ At(i, "finish")
  /\ op' = [op EXCEPT ![i] = Closed(i, "succeeded")]
  /\ UNCHANGED <<version, row, online, assessments, vectors, warming, publishing, bounds>>

AlwaysRetry(i) == TRUE
Retryable(i) == op[i].attempt < MaxAttempts

\* A read, a record or the completion fails, or its answer is lost.  The next attempt
\* begins anew; the last one fails the operation.
Interrupt(i) ==
  /\ \E pc \in {"document", "input", "title", "record", "finish"} : At(i, pc)
  /\ Upset
  /\ op' = [op EXCEPT ![i] =
              IF Retryable(i)
                THEN [Evaluation(@.edition, @.sites, @.added) EXCEPT !.attempt = op[i].attempt + 1]
                ELSE [Closed(i, "failed") EXCEPT !.site = None, !.likeness = None, !.todo = {}]]
  /\ UNCHANGED <<version, row, online, assessments, vectors, warming, publishing, approvals>>

(***************************************************************************)
(* The gate.                                                               *)
(***************************************************************************)
\* selectSnapshotVersion: an edition in draft is shown as it was published.
Fallback(e, s) == status[e] = "draft" /\ row[e][s].state = "published" /\ kept[e][s] # None
Selected(e, s) == Member(e, s) /\ (status[e] # "draft" \/ Fallback(e, s))
TextFor(e, s) == IF status[e] = "draft" THEN kept[e][s] ELSE text[e]

Latest(ids) == CHOOSE k \in ids : \A l \in ids : l <= k
PassedLatest(ids) == ids # {} /\ assessments[Latest(ids)].state = "passed"
AssessmentsOf(e, s) ==
  {k \in AssessmentIds : assessments[k].edition = e /\ assessments[k].site = s}

\* The assessments of a site that its snapshot reads: a number of rows, the latest first.
Window(s) ==
  LET es == {e \in Editions : Selected(e, s) /\ ~Fallback(e, s)}
      ids == UNION {AssessmentsOf(e, s) : e \in es}
  IN {k \in ids : Cardinality({l \in ids : l > k}) < PerEdition * Cardinality(es)}

\* passedSiteAddAssessmentId.
AddPassed(e, s) ==
  LET i == LatestAdd(e, s)
  IN op[i].state = "succeeded"
     /\ \E k \in op[i].ids \cap AssessmentsOf(e, s) : assessments[k].state = "passed"

JudgedByLatest(e, s, ids) == PassedLatest(ids)
Judged(e, s, ids) == IF LatestAdd(e, s) # 0 THEN AddPassed(e, s) ELSE PassedLatest(ids)

Admitted(e, s) ==
  IF Fallback(e, s)
    THEN PassedLatest({k \in AssessmentsOf(e, s) : assessments[k].text = kept[e][s]})
    ELSE Judged(e, s, Window(s) \cap AssessmentsOf(e, s))

\* assertEditionCompilable, of every edition the release shows.
Compilable(s) == \A e \in Editions : Selected(e, s) => Admitted(e, s)
Show(s) ==
  online' = [online EXCEPT ![s] = [e \in Editions |-> IF Selected(e, s) THEN TextFor(e, s)
                                                      ELSE None]]

\* submitEditionPublishOperation: to every site or to one; an edition published already to
\* one site it is not yet published to.
SubmitPublish(e) ==
  /\ \/ /\ status[e] = "approved" /\ SitesOf(e) # {}
        /\ \E S \in {SitesOf(e)} \cup {{s} : s \in SitesOf(e)} :
             publishing' = publishing \cup ({e} \X S)
     \/ /\ status[e] = "published"
        /\ \E s \in SitesOf(e) :
             /\ row[e][s].state # "published"
             /\ LatestAdd(e, s) # 0 => AddPassed(e, s)
             /\ publishing' = publishing \cup {<<e, s>>}
  /\ UNCHANGED <<version, row, online, assessments, vectors, op, warming, bounds>>

\* Compilation, its receipt and the registration of the release, for the operation of an
\* edition.  The receipt takes an approved edition that was removed for one to be published.
Publication(e, s) ==
  /\ Show(s)
  /\ compiledFor' = [compiledFor EXCEPT ![e] = s]
  /\ IF Member(e, s) \/ status[e] = "approved"
       THEN /\ row' = [row EXCEPT ![e][s].state = "published"]
            /\ status' = [status EXCEPT ![e] = "published"]
            /\ kept' = [kept EXCEPT ![e][s] = text[e]]
       ELSE UNCHANGED <<row, status, kept>>
  /\ UNCHANGED <<text, assessments, vectors, op, warming, bounds>>

Publishable(e, s) == status[e] # "draft" /\ row[e][s].state # "absent" /\ Compilable(s)

Release(e, s) ==
  /\ <<e, s>> \in publishing /\ Publishable(e, s)
  /\ publishing' = publishing \ {<<e, s>>}
  /\ Publication(e, s)

Refuse(e, s) ==
  /\ <<e, s>> \in publishing /\ ~Publishable(e, s)
  /\ publishing' = publishing \ {<<e, s>>}
  /\ UNCHANGED <<version, row, online, assessments, vectors, op, warming, bounds>>

\* The release of a site without an edition that was removed from it.
ReleaseWithout(e, s) ==
  /\ row[e][s].state = "unpublished" /\ online[s][e] # None
  /\ Publishable(e, s) /\ Publication(e, s)
  /\ UNCHANGED publishing

EditionStep(e) ==
  \/ \E t \in Texts : Save(e, t) \/ WriteGenerated(e, t)
  \/ WarmUp(e) \/ Approve(e) \/ Redraft(e) \/ RequestEvaluation(e) \/ SubmitPublish(e)
  \/ \E s \in Sites : \/ AddSite(e, s) \/ RemoveSite(e, s)
                      \/ Release(e, s) \/ Refuse(e, s) \/ ReleaseWithout(e, s)
WorkerStep(i) ==
  \/ ReadDocument(i) \/ ReadInput(i) \/ StoreTitle(i)
  \/ StoreBody(i) \/ Compare(i) \/ SemanticError(i) \/ Record(i) \/ Finish(i) \/ Interrupt(i)

Next ==
  /\ \/ \E e \in plot.editions : EditionStep(e)
     \/ \E i \in OpIds : WorkerStep(i)
  /\ UNCHANGED plot

Spec == Init /\ [][Next]_vars

(***************************************************************************)
(* Properties.                                                             *)
(***************************************************************************)
PassedFor(k, e, s) ==
  assessments[k].edition = e /\ assessments[k].site = s /\ assessments[k].state = "passed"

\* However their evaluations interleave, two editions are not both passed with texts that
\* each finds too much like the other: every evaluation stores its vectors before it
\* looks for those of the others.
NoTwinsPassed ==
  \A k, l \in AssessmentIds :
    LET a == assessments[k]
        b == assessments[l]
    IN a.state = "passed" /\ b.state = "passed" /\ a.edition # b.edition
       => IF a.site = b.site THEN TitleLikeness[a.text][b.text] < TitleBlock[a.site]
          ELSE \/ BodyLikeness[a.text][b.text] < Review[a.site]
               \/ BodyLikeness[a.text][b.text] < Review[b.site]

\* The quality that the row of a site shows for an edition not yet published there is what
\* the gate will find: a late verdict of an evaluation from before the edition was added
\* anew does not show.
QualityRowIsGate ==
  \A e \in Editions, s \in Sites :
    row[e][s].state = "pending"
    /\ (LatestAdd(e, s) # 0 => op[LatestAdd(e, s)].state = "succeeded")
    => (row[e][s].quality = "passed" <=> Judged(e, s, AssessmentsOf(e, s)))

\* No release shows an edition on a site by a verdict from before the edition was last
\* added to that site: removal ends what its old assessments admit.
ReleasedOnOwnCycle ==
  [][\A s \in Sites : online'[s] # online[s] =>
       \A e \in Editions : online'[s][e] # None =>
         \E k \in AssessmentIds : PassedFor(k, e, s) /\ assessments[k].op >= LatestAdd(e, s)]_vars

\* "An edition edited after assessment can never be approved on stale evidence": what a
\* site shows is a text that was assessed for it and passed.
ShownTextPassed ==
  \A e \in Editions, s \in Sites :
    online[s][e] # None =>
      \E k \in AssessmentIds : PassedFor(k, e, s) /\ assessments[k].text = online[s][e]
=============================================================================
