--------------------------- MODULE QualityGateProofs ---------------------------
(***************************************************************************)
(* Proofs about QualityGate for all sets of editions, sites and texts, all *)
(* likenesses and thresholds, and all bounds.                              *)
(***************************************************************************)
EXTENDS QualityGate, TLAPS, SequenceTheorems, WellFoundedInduction

(***************************************************************************)
(* Type correctness.                                                       *)
(***************************************************************************)
\* What an evaluation holds at each step.
Shape(o) ==
  /\ o.pc \notin {"document", "done"} => o.document \in Texts
  /\ o.pc \notin {"document", "input", "done"} => o.input \in Texts
  /\ o.pc \in {"body", "compare"} \/ (o.pc = "record" /\ o.embeds) => o.site \in Sites

EvaluationsTyped ==
  /\ op \in Seq(Operations)
  /\ \A i \in OpIds : Shape(op[i]) /\ op[i].ids \subseteq AssessmentIds
RecordsTyped == plot \in Plots /\ assessments \in Seq(Assessments)

\* What remains of TypeOK.
RestTyped ==
  /\ text \in [Editions -> Texts]
  /\ status \in [Editions -> {"draft", "approved", "published"}]
  /\ row \in [Editions -> [Sites -> Rows]]
  /\ online \in [Sites -> [Editions -> Texts \cup {None}]]
  /\ kept \in [Editions -> [Sites -> Texts \cup {None}]]
  /\ compiledFor \in [Editions -> Sites \cup {None}]
  /\ {titles, bodies} \subseteq SUBSET (Editions \X Sites \X Texts)
  /\ Len(op) <= plot.operations
  /\ warming \subseteq Editions /\ publishing \subseteq Editions \X Sites
  /\ approvals \in 0..plot.approvals /\ upsets \in 0..plot.upsets

Typed == EvaluationsTyped /\ RecordsTyped /\ RestTyped

LEMMA TypedIsTypeOK == Typed => TypeOK
<1>1. ASSUME Typed PROVE TypeOK
  <2>1. \A k \in AssessmentIds : assessments[k] \in Assessments
    BY <1>1 DEF Typed, RecordsTyped, AssessmentIds
  <2>2. \A i \in OpIds : op[i] \in Operations /\ op[i].ids \subseteq AssessmentIds
    BY <1>1 DEF Typed, EvaluationsTyped, OpIds
  <2> QED BY <1>1, <2>1, <2>2 DEF TypeOK, Typed, RecordsTyped, RestTyped
<1> QED BY <1>1

\* An evaluation that becomes a well-typed one leaves all of them well typed.
LEMMA ReplacedTyped ==
  ASSUME EvaluationsTyped, NEW i \in OpIds, NEW o \in Operations, Shape(o),
         o.ids \subseteq AssessmentIds', AssessmentIds \subseteq AssessmentIds',
         op' = [op EXCEPT ![i] = o]
  PROVE  EvaluationsTyped' /\ Len(op') = Len(op)
<1>1. op' \in Seq(Operations) /\ Len(op') = Len(op)
  BY ExceptSeq DEF EvaluationsTyped, OpIds
<1>2. OpIds' = OpIds /\ \A j \in OpIds : op'[j] = IF j = i THEN o ELSE op[j]
  BY DEF EvaluationsTyped, OpIds
<1> QED BY <1>1, <1>2 DEF EvaluationsTyped

\* So does a new one.
LEMMA SubmittedTyped ==
  ASSUME Typed, NEW e \in Editions, NEW S \in SUBSET Sites, NEW added \in BOOLEAN,
         Submit(e, S, added), UNCHANGED <<plot, assessments>>
  PROVE  EvaluationsTyped' /\ Len(op') = Len(op) + 1 /\ Len(op') <= plot'.operations
<1> DEFINE o == Evaluation(e, S, added)
<1>1. o \in Operations /\ Shape(o) /\ o.ids = {}
  BY QualityGateAssumption DEF QualityGateAssumption, Evaluation, Operations, Shape, None, NoScore
<1>2. op' = Append(op, o) /\ op \in Seq(Operations)
  BY DEF Submit, Typed, EvaluationsTyped
<1> HIDE DEF o
<1>3. op' \in Seq(Operations) /\ Len(op') = Len(op) + 1
  BY <1>1, <1>2
<1>4. \A j \in OpIds' : op'[j] = o \/ (j \in OpIds /\ op'[j] = op[j])
  BY <1>1, <1>2 DEF OpIds
<1>5. Len(op') <= plot'.operations
  <2>1. plot.operations \in Nat /\ Len(op) \in Nat
    BY <1>2, QualityGateAssumption DEF QualityGateAssumption, Typed, RecordsTyped
  <2> QED BY <1>3, <2>1 DEF Submit
<1> QED BY <1>1, <1>3, <1>4, <1>5 DEF Typed, EvaluationsTyped, AssessmentIds

LEMMA InitTyped == Init => Typed
<1>1. ASSUME Init PROVE Typed
  <2>1. EvaluationsTyped /\ RecordsTyped
    BY <1>1, EmptySeq DEF Init, EvaluationsTyped, RecordsTyped, OpIds
  <2>2. /\ plot.sites \in [Editions -> SUBSET Sites]
        /\ {plot.operations, plot.approvals, plot.upsets} \subseteq Nat
    BY <1>1, QualityGateAssumption DEF Init, QualityGateAssumption
  <2>3. row \in [Editions -> [Sites -> Rows]]
    BY <1>1 DEF Init, Row, Rows, Verdicts
  <2>4. RestTyped
    BY <1>1, <2>2, <2>3, QualityGateAssumption DEF Init, RestTyped, QualityGateAssumption
  <2> QED BY <2>1, <2>4 DEF Typed
<1> QED BY <1>1

\* What the editors, the gate and the releases leave as it is.
LEMMA EditionTyped ==
  ASSUME Typed, NEW e \in Editions, EditionStep(e), UNCHANGED plot
  PROVE  Typed'
<1> USE DEF Typed
<1>b. {plot.operations, plot.approvals, plot.upsets} \subseteq Nat
  BY QualityGateAssumption DEF QualityGateAssumption, RecordsTyped
<1>e. UNCHANGED <<op, assessments>> => EvaluationsTyped' /\ RecordsTyped'
  BY DEF EvaluationsTyped, RecordsTyped, OpIds, AssessmentIds, Assessments
<1>r. UNCHANGED assessments => RecordsTyped'
  BY DEF RecordsTyped, Assessments
<1>1. ASSUME NEW t \in Texts, Save(e, t) \/ WriteGenerated(e, t) PROVE Typed'
  <2>c. Change(e, t) /\ warming' \subseteq Editions
    BY <1>1 DEF Save, WriteGenerated, RestTyped
  <2>1. kept' \in [Editions -> [Sites -> Texts \cup {None}]]
    <3> DEFINE k == [s \in Sites |-> IF s = compiledFor[e] THEN t ELSE kept[e][s]]
    <3>1. k \in [Sites -> Texts \cup {None}]
      BY DEF RestTyped
    <3>2. kept' = [kept EXCEPT ![e] = k] \/ kept' = kept
      BY <2>c DEF Change
    <3> HIDE DEF k
    <3> QED BY <3>1, <3>2 DEF RestTyped
  <2>2. text' \in [Editions -> Texts]
    BY <2>c DEF Change, RestTyped
  <2>3. upsets' \in 0..plot.upsets
    BY <2>c, <1>b DEF Change, Upset, RestTyped
  <2>4. UNCHANGED <<status, compiledFor, row, online, assessments, titles, bodies, op, publishing,
                    approvals>>
    BY <2>c DEF Change, vectors
  <2> QED BY <1>e, <2>c, <2>1, <2>2, <2>3, <2>4 DEF RestTyped
<1>2. CASE WarmUp(e) \/ Approve(e) \/ Redraft(e)
  <2>1. approvals' \in 0..plot.approvals
    BY <1>2, <1>b DEF WarmUp, Approve, Redraft, RestTyped, bounds
  <2>2. /\ status' \in [Editions -> {"draft", "approved", "published"}]
        /\ compiledFor' \in [Editions -> Sites \cup {None}]
    BY <1>2 DEF WarmUp, Approve, Redraft, RestTyped, version
  <2> QED BY <1>2, <1>e, <2>1, <2>2
          DEF WarmUp, Approve, Redraft, RestTyped, version, vectors, bounds
<1>3. CASE RequestEvaluation(e)
  <2>1. SitesOf(e) \in SUBSET Sites
    BY DEF SitesOf
  <2>2. EvaluationsTyped' /\ Len(op') <= plot'.operations
    BY <1>3, <2>1, SubmittedTyped DEF RequestEvaluation
  <2> QED BY <1>3, <1>r, <2>2 DEF RequestEvaluation, RestTyped, version, vectors, bounds
<1>4. ASSUME NEW s \in Sites, AddSite(e, s) PROVE Typed'
  <2>1. EvaluationsTyped' /\ Len(op') <= plot'.operations
    BY <1>4, SubmittedTyped DEF AddSite
  <2>2. row' \in [Editions -> [Sites -> Rows]]
    BY <1>4 DEF AddSite, RestTyped, Row, Rows
  <2> QED BY <1>4, <1>r, <2>1, <2>2 DEF AddSite, RestTyped, version, vectors, bounds
<1>5. ASSUME NEW s \in Sites, RemoveSite(e, s) PROVE Typed'
  <2>1. row' \in [Editions -> [Sites -> Rows]]
    BY <1>5 DEF RemoveSite, RestTyped, Row, Rows
  <2> QED BY <1>5, <1>e, <2>1 DEF RemoveSite, RestTyped, version, vectors, bounds
<1>6. CASE SubmitPublish(e)
  <2>1. publishing' \subseteq Editions \X Sites
    BY <1>6 DEF SubmitPublish, SitesOf, RestTyped
  <2> QED BY <1>6, <1>e, <2>1 DEF SubmitPublish, RestTyped, version, vectors, bounds
<1>7. ASSUME NEW s \in Sites, Refuse(e, s) PROVE Typed'
  BY <1>7, <1>e DEF Refuse, RestTyped, version, vectors, bounds
<1>8. ASSUME NEW s \in Sites, Release(e, s) \/ ReleaseWithout(e, s) PROVE Typed'
  <2>1. Publication(e, s) /\ publishing' \subseteq Editions \X Sites
    BY <1>8 DEF Release, ReleaseWithout, RestTyped
  <2>2. online' \in [Sites -> [Editions -> Texts \cup {None}]]
    <3>1. \A f \in Editions : Selected(f, s) => TextFor(f, s) \in Texts \cup {None}
      BY DEF TextFor, RestTyped
    <3> QED BY <2>1, <3>1 DEF Publication, Show, RestTyped
  <2>3. /\ compiledFor' \in [Editions -> Sites \cup {None}]
        /\ UNCHANGED <<text, assessments, titles, bodies, op, warming, approvals, upsets>>
    BY <2>1 DEF Publication, RestTyped, vectors, bounds
  <2>4. /\ row' \in [Editions -> [Sites -> Rows]]
        /\ status' \in [Editions -> {"draft", "approved", "published"}]
        /\ kept' \in [Editions -> [Sites -> Texts \cup {None}]]
    <3>1. CASE /\ row' = [row EXCEPT ![e][s].state = "published"]
               /\ status' = [status EXCEPT ![e] = "published"]
               /\ kept' = [kept EXCEPT ![e][s] = text[e]]
      <4>0. row[e][s] \in Rows
        BY DEF RestTyped
      <4>1. [row[e][s] EXCEPT !.state = "published"] \in Rows
        BY <4>0 DEF Rows
      <4>2. row' = [row EXCEPT ![e] =
                     [row[e] EXCEPT ![s] = [row[e][s] EXCEPT !.state = "published"]]]
        BY <3>1
      <4> QED BY <3>1, <4>1, <4>2 DEF RestTyped
    <3>2. CASE UNCHANGED <<row, status, kept>>
      BY <3>2 DEF RestTyped
    <3> QED BY <2>1, <3>1, <3>2 DEF Publication
  <2> QED BY <1>e, <2>1, <2>2, <2>3, <2>4 DEF RestTyped
<1> QED BY <1>1, <1>2, <1>3, <1>4, <1>5, <1>6, <1>7, <1>8 DEF EditionStep

\* A step of a worker turns its evaluation into a well-typed one, and Record adds a row.
LEMMA WorkerTypes ==
  ASSUME Typed, NEW i \in OpIds, WorkerStep(i), UNCHANGED plot
  PROVE  EvaluationsTyped' /\ Len(op') = Len(op) /\ RecordsTyped'
<1> DEFINE v == op[i]
<1>v. v \in Operations /\ Shape(v) /\ v.ids \subseteq AssessmentIds
  BY DEF Typed, EvaluationsTyped, OpIds
<1>e. v.edition \in Editions /\ text[v.edition] \in Texts /\ v.todo \subseteq Sites
  BY <1>v DEF Operations, Typed, RestTyped
<1>r. UNCHANGED assessments => RecordsTyped' /\ AssessmentIds' = AssessmentIds
  BY DEF Typed, RecordsTyped, AssessmentIds, Assessments
<1>n. ASSUME NEW s \in NextSite(i) PROVE s \in Sites /\ s \in v.todo
  BY <1>e, <1>n DEF NextSite
<1>s. ASSUME NEW o \in Operations, Shape(o), o.ids \subseteq AssessmentIds,
             UNCHANGED assessments, op' = [op EXCEPT ![i] = o]
      PROVE  EvaluationsTyped' /\ Len(op') = Len(op) /\ RecordsTyped'
  BY <1>s, <1>r, ReplacedTyped DEF Typed
<1>1. CASE ReadDocument(i)
  <2> DEFINE o == [v EXCEPT !.pc = "input", !.document = text[v.edition]]
  <2>1. o \in Operations /\ Shape(o) /\ o.ids = v.ids
    BY <1>v, <1>e DEF Operations, Shape
  <2>2. op' = [op EXCEPT ![i] = o] /\ UNCHANGED assessments
    BY <1>1 DEF ReadDocument
  <2> QED BY <1>s, <1>v, <2>1, <2>2
<1>2. CASE ReadInput(i)
  <2>1. PICK score \in Percent \cup {NoScore}, embeds \in BOOLEAN : Answered(i, score, embeds)
    BY <1>2, QualityGateAssumption DEF ReadInput, QualityGateAssumption, Typed, RecordsTyped
  <2> DEFINE o == [v EXCEPT !.pc = IF embeds THEN "title" ELSE "record",
                            !.input = text[v.edition], !.todo = v.sites,
                            !.score = score, !.embeds = embeds]
  <2>2. o \in Operations /\ Shape(o) /\ o.ids = v.ids
    BY <1>2, <1>v, <1>e, ZenonT(60) DEF ReadInput, At, Operations, Shape
  <2>3. op' = [op EXCEPT ![i] = o]
    BY <2>1 DEF Answered
  <2>4. UNCHANGED assessments
    BY <1>2 DEF ReadInput
  <2> QED BY <1>s, <1>v, <2>2, <2>3, <2>4
<1>3. CASE StoreTitle(i)
  <2>1. PICK s \in NextSite(i) : op' = [op EXCEPT ![i].pc = After("title"), ![i].site = s]
    BY <1>3 DEF StoreTitle
  <2> DEFINE o == [v EXCEPT !.pc = After("title"), !.site = s]
  <2>2. o \in Operations /\ Shape(o) /\ o.ids = v.ids
    BY <1>3, <1>v, <1>n, <2>1 DEF StoreTitle, At, After, Operations, Shape
  <2>3. op' = [op EXCEPT ![i] = o] /\ UNCHANGED assessments
    BY <1>3, <2>1 DEF StoreTitle
  <2> QED BY <1>s, <1>v, <2>2, <2>3
<1>4. CASE StoreBody(i) \/ Compare(i)
  <2>1. PICK pc \in {"compare", "record"}, likeness \in {v.likeness, "held", "pass"} :
          op' = [op EXCEPT ![i] = [v EXCEPT !.pc = pc, !.likeness = likeness]]
    <3>1. CASE StoreBody(i)
      <4>1. op' = [op EXCEPT ![i] = [v EXCEPT !.pc = "compare", !.likeness = v.likeness]]
        BY <1>v, <3>1 DEF StoreBody, After, Operations
      <4> QED BY <4>1
    <3>2. CASE Compare(i)
      BY <3>2 DEF Compare, After
    <3> QED BY <1>4, <3>1, <3>2
  <2> DEFINE o == [v EXCEPT !.pc = pc, !.likeness = likeness]
  <2>2. o \in Operations /\ Shape(o) /\ o.ids = v.ids
    BY <1>4, <1>v, <2>1 DEF StoreBody, Compare, At, Operations, Shape
  <2>3. UNCHANGED assessments
    BY <1>4 DEF StoreBody, Compare
  <2> QED BY <1>s, <1>v, <2>1, <2>2, <2>3
<1>5. CASE SemanticError(i)
  <2>1. PICK s \in Sites :
          op' = [op EXCEPT ![i] = [v EXCEPT !.pc = "record", !.site = s, !.likeness = "error"]]
    <3>1. CASE At(i, "title")
      BY <1>5, <1>n, <3>1 DEF SemanticError, At
    <3>2. CASE At(i, "body") \/ At(i, "compare")
      <4>1. v.site \in Sites
        BY <1>v, <3>2 DEF At, Shape
      <4>2. [v EXCEPT !.pc = "record", !.likeness = "error"]
              = [v EXCEPT !.pc = "record", !.site = v.site, !.likeness = "error"]
        BY <1>v DEF Operations
      <4>3. op' = [op EXCEPT ![i] = [v EXCEPT !.pc = "record", !.likeness = "error"]]
        BY <1>5, <3>2 DEF SemanticError, At
      <4> QED BY <4>1, <4>2, <4>3
    <3> QED BY <1>5, <3>1, <3>2 DEF SemanticError
  <2> DEFINE o == [v EXCEPT !.pc = "record", !.site = s, !.likeness = "error"]
  <2>2. o \in Operations /\ Shape(o) /\ o.ids = v.ids
    BY <1>5, <1>v, <2>1 DEF SemanticError, At, Operations, Shape
  <2>3. UNCHANGED assessments
    BY <1>5 DEF SemanticError
  <2> QED BY <1>s, <1>v, <2>1, <2>2, <2>3
<1>6. CASE Record(i)
  <2>1. PICK s \in Sites :
          /\ assessments' = Append(assessments,
               [edition |-> v.edition, site |-> s, text |-> v.input, ruled |-> v.document,
                state |-> VerdictOf(i, s), op |-> i])
          /\ op' = [op EXCEPT ![i].pc = IF v.todo = {s} THEN "finish"
                                        ELSE IF v.embeds THEN "title" ELSE "record",
                              ![i].todo = @ \ {s}, ![i].site = None, ![i].likeness = None,
                              ![i].ids = @ \cup {Len(assessments) + 1}]
    <3>1. v.embeds => v.site \in Sites
      BY <1>6, <1>v DEF Record, At, Shape
    <3> QED BY <1>6, <1>n, <3>1 DEF Record
  <2> DEFINE a == [edition |-> v.edition, site |-> s, text |-> v.input, ruled |-> v.document,
                   state |-> VerdictOf(i, s), op |-> i]
             o == [v EXCEPT !.pc = IF v.todo = {s} THEN "finish"
                                   ELSE IF v.embeds THEN "title" ELSE "record",
                            !.todo = v.todo \ {s}, !.site = None, !.likeness = None,
                            !.ids = v.ids \cup {Len(assessments) + 1}]
  <2>2. a \in Assessments
    <3>1. v.input \in Texts /\ v.document \in Texts
      BY <1>6, <1>v DEF Record, At, Shape
    <3>2. VerdictOf(i, s) \in Verdicts
      BY DEF VerdictOf, Verdicts
    <3>3. i \in 1..plot.operations
      BY QualityGateAssumption
      DEF QualityGateAssumption, Typed, EvaluationsTyped, RecordsTyped, RestTyped, OpIds
    <3> QED BY <1>e, <2>1, <3>1, <3>2, <3>3 DEF Assessments
  <2>3. /\ assessments' \in Seq(Assessments) /\ Len(assessments) \in Nat
        /\ AssessmentIds' = AssessmentIds \cup {Len(assessments) + 1}
    <3> HIDE DEF a
    <3>1. assessments \in Seq(Assessments) /\ assessments' = Append(assessments, a)
      BY <2>1 DEF Typed, RecordsTyped, a
    <3> QED BY <2>2, <3>1, AppendProperties DEF AssessmentIds
  <2>4. RecordsTyped'
    BY <2>3 DEF Typed, RecordsTyped, Assessments
  <2>5. o \in Operations
    <3>1. v.ids \cup {Len(assessments) + 1} \in SUBSET Nat
      BY <1>v, <2>3 DEF Operations
    <3>2. ASSUME NEW pc \in {"finish", "title", "record"}, NEW ids \in SUBSET Nat
          PROVE  [v EXCEPT !.pc = pc, !.todo = v.todo \ {s}, !.site = None, !.likeness = None,
                           !.ids = ids] \in Operations
      BY <1>v, <3>2 DEF Operations
    <3> QED BY <3>1, <3>2
  <2>6. Shape(o)
    BY <1>6, <1>v DEF Record, At, Shape, Operations
  <2>7. op' = [op EXCEPT ![i] = o]
    BY <2>1
  <2>8. o.ids \subseteq AssessmentIds'
    BY <1>v, <2>3 DEF Operations
  <2> HIDE DEF o
  <2> QED BY <2>3, <2>4, <2>5, <2>6, <2>7, <2>8, ReplacedTyped DEF Typed
<1>7. CASE Finish(i)
  <2>1. Closed(i, "succeeded") \in Operations /\ Shape(Closed(i, "succeeded"))
    BY <1>v DEF Closed, Operations, Shape
  <2>2. Closed(i, "succeeded").ids = v.ids
    BY <1>v DEF Closed, Operations
  <2>3. op' = [op EXCEPT ![i] = Closed(i, "succeeded")] /\ UNCHANGED assessments
    BY <1>7 DEF Finish
  <2> QED BY <1>s, <1>v, <2>1, <2>2, <2>3
<1>8. CASE Interrupt(i)
  <2>1. UNCHANGED assessments
    BY <1>8 DEF Interrupt
  <2>2. CASE Retryable(i)
    <3> DEFINE o == [Evaluation(v.edition, v.sites, v.added) EXCEPT !.attempt = v.attempt + 1]
    <3>1. op' = [op EXCEPT ![i] = o]
      BY <1>8, <2>2 DEF Interrupt
    <3>2. v.attempt + 1 \in 1..MaxAttempts
      BY <1>v, <2>2, QualityGateAssumption DEF Retryable, Operations, QualityGateAssumption
    <3>3. o \in Operations /\ Shape(o) /\ o.ids = {}
      BY <1>v, <3>2, ZenonT(60) DEF Evaluation, Operations, Shape
    <3> QED BY <1>s, <2>1, <3>1, <3>3
  <2>3. CASE ~Retryable(i)
    <3> DEFINE o == [Closed(i, "failed") EXCEPT !.site = None, !.likeness = None, !.todo = {}]
    <3>1. op' = [op EXCEPT ![i] = o]
      BY <1>8, <2>3 DEF Interrupt
    <3>2. o \in Operations /\ Shape(o) /\ o.ids = v.ids
      BY <1>v, ZenonT(60) DEF Closed, Operations, Shape
    <3> QED BY <1>s, <1>v, <2>1, <3>1, <3>2
  <2> QED BY <2>2, <2>3
<1> QED BY <1>1, <1>2, <1>3, <1>4, <1>5, <1>6, <1>7, <1>8 DEF WorkerStep

\* What the workers do to the rest.
LEMMA WorkerRest ==
  ASSUME Typed, NEW i \in OpIds, WorkerStep(i), UNCHANGED plot
  PROVE  RestTyped'
<1> DEFINE v == op[i]
<1>v. v \in Operations /\ Shape(v)
  BY DEF Typed, EvaluationsTyped, OpIds
<1>n. NextSite(i) \subseteq Sites
  BY <1>v DEF NextSite, Operations
<1>l. Len(op') <= plot'.operations
  BY WorkerTypes DEF Typed, RestTyped
<1>u. Upset => upsets' \in 0..plot.upsets
  BY QualityGateAssumption DEF QualityGateAssumption, Typed, RecordsTyped, RestTyped, Upset
<1>1. CASE \/ ReadDocument(i) \/ ReadInput(i) \/ Compare(i) \/ SemanticError(i)
           \/ Finish(i) \/ Interrupt(i)
  <2>1. UNCHANGED <<version, row, online, vectors, warming, publishing, approvals>>
    BY <1>1 DEF ReadDocument, ReadInput, Compare, SemanticError, Finish, Interrupt, bounds
  <2>2. upsets' = upsets \/ Upset
    BY <1>1 DEF ReadDocument, ReadInput, Compare, SemanticError, Finish, Interrupt, bounds
  <2> QED BY <1>l, <1>u, <2>1, <2>2 DEF Typed, RestTyped, version, vectors
<1>2. CASE StoreTitle(i) \/ StoreBody(i)
  <2>1. UNCHANGED <<version, row, online, warming, publishing, bounds>>
    BY <1>2 DEF StoreTitle, StoreBody
  <2>2. v.edition \in Editions /\ v.input \in Texts
    BY <1>2, <1>v DEF StoreTitle, StoreBody, At, Shape, Operations
  <2>3. titles' \subseteq Editions \X Sites \X Texts
    BY <1>2, <1>n, <2>2 DEF StoreTitle, StoreBody, Vector, Typed, RestTyped
  <2>4. bodies' \subseteq Editions \X Sites \X Texts
    <3>1. StoreBody(i) => v.site \in Sites
      BY <1>v DEF StoreBody, At, Shape
    <3> QED BY <1>2, <2>2, <3>1 DEF StoreTitle, StoreBody, Vector, Typed, RestTyped
  <2> QED BY <1>l, <2>1, <2>3, <2>4 DEF Typed, RestTyped, version, bounds
<1>3. CASE Record(i)
  <2>1. UNCHANGED <<version, online, vectors, warming, publishing, bounds>>
    BY <1>3 DEF Record
  <2>2. PICK s \in Sites : row' \in {row, [row EXCEPT ![v.edition][s].quality = VerdictOf(i, s)]}
    <3>1. v.embeds => v.site \in Sites
      BY <1>3, <1>v DEF Record, At, Shape
    <3> QED BY <1>3, <1>n, <3>1 DEF Record
  <2>3. row' \in [Editions -> [Sites -> Rows]]
    <3>1. row[v.edition][s] \in Rows
      BY <1>v DEF Typed, RestTyped, Operations
    <3>2. VerdictOf(i, s) \in Verdicts
      BY DEF VerdictOf, Verdicts
    <3>3. [row[v.edition][s] EXCEPT !.quality = VerdictOf(i, s)] \in Rows
      BY <3>1, <3>2 DEF Rows
    <3>4. row' \in {row, [row EXCEPT ![v.edition] = [row[v.edition] EXCEPT ![s] =
                            [row[v.edition][s] EXCEPT !.quality = VerdictOf(i, s)]]]}
      BY <2>2
    <3>5. ASSUME NEW r \in Rows PROVE [row EXCEPT ![v.edition] = [row[v.edition] EXCEPT ![s] = r]]
                                       \in [Editions -> [Sites -> Rows]]
      BY <3>5 DEF Typed, RestTyped
    <3> HIDE DEF v
    <3> QED BY <3>3, <3>4, <3>5 DEF Typed, RestTyped
  <2> QED BY <1>l, <2>1, <2>3 DEF Typed, RestTyped, version, vectors, bounds
<1> QED BY <1>1, <1>2, <1>3 DEF WorkerStep

LEMMA StepTyped ==
  ASSUME Typed, [Next]_vars
  PROVE  Typed'
<1>1. ASSUME NEW e \in plot.editions, EditionStep(e), UNCHANGED plot PROVE Typed'
  <2>1. e \in Editions
    BY <1>1, QualityGateAssumption DEF QualityGateAssumption, Typed, RecordsTyped
  <2> QED BY <1>1, <2>1, EditionTyped
<1>2. ASSUME NEW i \in OpIds, WorkerStep(i), UNCHANGED plot PROVE Typed'
  BY <1>2, WorkerTypes, WorkerRest DEF Typed
<1>3. CASE UNCHANGED vars
  BY <1>3 DEF vars, version, vectors, bounds, Typed, EvaluationsTyped, RecordsTyped, RestTyped,
              OpIds, AssessmentIds, Assessments
<1> QED BY <1>1, <1>2, <1>3 DEF Next

\* Whatever the bounds, texts, rows, vectors, evaluations and assessments keep their
\* types: an evaluation holds the text and the site that its step uses.
THEOREM TypeCorrect == Spec => []TypeOK
<1> QED BY InitTyped, StepTyped, TypedIsTypeOK, PTL DEF Spec

(***************************************************************************)
(* No twins.  A text is cleared once the comparison passed it, and its     *)
(* vectors are stored by then: of two texts, the one compared later finds  *)
(* those of the other.                                                     *)
(***************************************************************************)
Passing(o) == o.pc = "record" /\ o.embeds /\ o.likeness = "pass"
Cleared(e, s, t) ==
  \/ \E k \in AssessmentIds : PassedFor(k, e, s) /\ assessments[k].text = t
  \/ \E i \in OpIds : Passing(op[i]) /\ op[i].edition = e /\ op[i].site = s /\ op[i].input = t

VectorOf(o) == <<o.edition, o.site, o.input>>
StoredFor(o) == /\ o.pc \in {"body", "compare"} => VectorOf(o) \in titles
                /\ o.pc = "compare" => VectorOf(o) \in bodies

Apart(s, t, r, u) == IF s = r THEN TitleLikeness[t][u] < TitleBlock[s]
                     ELSE BodyLikeness[t][u] < Review[s] \/ BodyLikeness[t][u] < Review[r]

Stored == /\ \A i \in OpIds : StoredFor(op[i])
          /\ \A e \in Editions, s \in Sites, t \in Texts :
               Cleared(e, s, t) => <<e, s, t>> \in titles \cap bodies
ClearedApart ==
  \A e, f \in Editions, s, r \in Sites, t, u \in Texts :
    Cleared(e, s, t) /\ Cleared(f, r, u) /\ e # f => Apart(s, t, r, u)

\* A step that clears no text and takes no vector away.
LEMMA NothingCleared ==
  ASSUME Stored, ClearedApart, titles \subseteq titles', bodies \subseteq bodies',
         \A j \in OpIds' : \/ j \in OpIds /\ op'[j] = op[j]
                           \/ StoredFor(op[j])' /\ ~Passing(op'[j]),
         \A k \in AssessmentIds' :
           LET a == assessments'[k]
           IN a.state = "passed" => Cleared(a.edition, a.site, a.text)
  PROVE  Stored' /\ ClearedApart'
<1>1. \A e, s, t : Cleared(e, s, t)' => Cleared(e, s, t)
  <2>1. ASSUME NEW e, NEW s, NEW t, NEW k \in AssessmentIds', PassedFor(k, e, s)',
               assessments'[k].text = t
        PROVE  Cleared(e, s, t)
    BY <2>1 DEF PassedFor
  <2>2. ASSUME NEW e, NEW s, NEW t, NEW i \in OpIds', Passing(op'[i]), op'[i].edition = e,
               op'[i].site = s, op'[i].input = t
        PROVE  Cleared(e, s, t)
    BY <2>2 DEF Cleared
  <2> QED BY <2>1, <2>2 DEF Cleared, Passing
<1>2. \A j \in OpIds' : StoredFor(op[j])'
  BY DEF Stored, StoredFor, VectorOf
<1>3. ClearedApart'
  BY <1>1 DEF ClearedApart, Apart
<1> QED BY <1>1, <1>2, <1>3 DEF Stored

LEMMA Below == ASSUME NEW a \in Percent, NEW b \in Percent, ~(a >= b) PROVE a < b
  BY DEF Percent

\* The comparison clears a text that no vector of another edition is too much like.
LEMMA CompareClears ==
  ASSUME Typed, Stored, ClearedApart, NEW i \in OpIds, Compare(i)
  PROVE  Stored' /\ ClearedApart'
<1> DEFINE v == op[i]
<1>v. /\ v \in Operations /\ v.edition \in Editions /\ v.site \in Sites /\ v.input \in Texts
      /\ v.pc = "compare" /\ VectorOf(v) \in titles \cap bodies
  <2>1. v \in Operations /\ v.pc = "compare" /\ Shape(v) /\ StoredFor(v)
    BY DEF Typed, EvaluationsTyped, OpIds, Compare, At, Stored
  <2> HIDE DEF v
  <2> QED BY <2>1 DEF Operations, Shape, StoredFor
<1>o. /\ OpIds' = OpIds /\ \A j \in OpIds \ {i} : op'[j] = op[j]
      /\ op'[i].pc = "record" /\ op'[i].edition = v.edition /\ op'[i].site = v.site
      /\ op'[i].input = v.input
      /\ op'[i].likeness = "pass" => ~Held(v.edition, v.site, v.input)
      /\ UNCHANGED <<assessments, titles, bodies>>
  BY <1>v DEF Typed, EvaluationsTyped, OpIds, Operations, Compare, After, vectors
<1>1. ASSUME NEW e, NEW s, NEW t, Cleared(e, s, t)'
      PROVE  \/ Cleared(e, s, t)
             \/ e = v.edition /\ s = v.site /\ t = v.input /\ ~Held(e, s, t)
  <2>1. CASE \E k \in AssessmentIds' : PassedFor(k, e, s)' /\ assessments'[k].text = t
    BY <1>o, <2>1 DEF Cleared, PassedFor, AssessmentIds
  <2>2. ASSUME NEW j \in OpIds', Passing(op'[j]), op'[j].edition = e, op'[j].site = s,
               op'[j].input = t, j # i
        PROVE  Cleared(e, s, t)
    BY <1>o, <2>2 DEF Cleared
  <2>3. ASSUME Passing(op'[i]), op'[i].edition = e, op'[i].site = s, op'[i].input = t
        PROVE  e = v.edition /\ s = v.site /\ t = v.input /\ ~Held(e, s, t)
    BY <1>o, <2>3 DEF Passing
  <2> QED BY <1>1, <2>1, <2>2, <2>3 DEF Cleared, Passing
<1>2. ASSUME NEW f \in Editions, NEW r \in Sites, NEW u \in Texts, Cleared(f, r, u),
             f # v.edition, ~Held(v.edition, v.site, v.input)
      PROVE  Apart(v.site, v.input, r, u) /\ Apart(r, u, v.site, v.input)
  <2>1. <<f, r, u>> \in titles /\ <<f, r, u>> \in bodies
    BY <1>2 DEF Stored
  <2>2. ~Twin(v.input, v.site, u, r)
    BY <1>2, <2>1 DEF Held
  <2>3. /\ TitleLikeness[v.input][u] \in Percent /\ TitleBlock[v.site] \in Percent
        /\ BodyLikeness[v.input][u] \in Percent /\ Review[v.site] \in Percent
        /\ TitleLikeness[u][v.input] = TitleLikeness[v.input][u]
        /\ BodyLikeness[u][v.input] = BodyLikeness[v.input][u]
    BY <1>v, LikenessAssumption DEF LikenessAssumption
  <2> HIDE DEF v
  <2>4. CASE r = v.site
    <3>1. TitleLikeness[v.input][u] < TitleBlock[v.site]
      BY <2>2, <2>3, <2>4, Below DEF Twin
    <3> QED BY <2>3, <2>4, <3>1 DEF Apart
  <2>5. CASE r # v.site
    <3>1. BodyLikeness[v.input][u] < Review[v.site]
      BY <2>2, <2>3, <2>5, Below DEF Twin
    <3> QED BY <2>3, <2>5, <3>1 DEF Apart
  <2> QED BY <2>4, <2>5
<1>3. ClearedApart'
  <2>1. ASSUME NEW e \in Editions, NEW f \in Editions, NEW s \in Sites, NEW r \in Sites,
               NEW t \in Texts, NEW u \in Texts, Cleared(e, s, t)', Cleared(f, r, u)', e # f
        PROVE  Apart(s, t, r, u)
    <3> HIDE DEF v
    <3>1. CASE Cleared(e, s, t) /\ Cleared(f, r, u)
      BY <2>1, <3>1 DEF ClearedApart
    <3> QED BY <1>1, <1>2, <2>1, <3>1
  <2> QED BY <2>1 DEF ClearedApart, Apart
<1>4. \A e \in Editions, s \in Sites, t \in Texts :
        Cleared(e, s, t)' => <<e, s, t>> \in titles' \cap bodies'
  BY <1>v, <1>o, <1>1 DEF Stored, VectorOf
<1>5. \A j \in OpIds' : StoredFor(op[j])'
  BY <1>o DEF Stored, StoredFor, VectorOf
<1> QED BY <1>3, <1>4, <1>5 DEF Stored

\* Editors, the gate and the releases at most queue an evaluation.
LEMMA EditionQueues ==
  ASSUME NEW e \in Editions, EditionStep(e)
  PROVE  /\ UNCHANGED <<assessments, titles, bodies>>
         /\ \/ UNCHANGED op
            \/ \E S \in SUBSET Sites, added \in BOOLEAN : Submit(e, S, added)
<1>1. CASE RequestEvaluation(e)
  BY <1>1 DEF RequestEvaluation, SitesOf, vectors
<1>2. CASE \E s \in Sites : AddSite(e, s)
  BY <1>2 DEF AddSite, vectors
<1>3. CASE \E t \in Texts : Save(e, t) \/ WriteGenerated(e, t)
  BY <1>3 DEF Save, WriteGenerated, Change, vectors
<1>4. CASE WarmUp(e) \/ Approve(e) \/ Redraft(e) \/ SubmitPublish(e)
  BY <1>4 DEF WarmUp, Approve, Redraft, SubmitPublish, vectors
<1>5. CASE \E s \in Sites :
             RemoveSite(e, s) \/ Release(e, s) \/ Refuse(e, s) \/ ReleaseWithout(e, s)
  BY <1>5 DEF RemoveSite, Release, Refuse, ReleaseWithout, Publication, vectors
<1> QED BY <1>1, <1>2, <1>3, <1>4, <1>5 DEF EditionStep

\* A new evaluation stands behind the others.
LEMMA SubmittedLast ==
  ASSUME Typed, NEW e \in Editions, NEW S \in SUBSET Sites, NEW added \in BOOLEAN,
         Submit(e, S, added)
  PROVE  /\ OpIds' = OpIds \cup {Len(op) + 1} /\ Len(op) + 1 \notin OpIds
         /\ Len(op) \in Nat /\ OpIds = 1..Len(op)
         /\ op'[Len(op) + 1] = Evaluation(e, S, added)
         /\ \A j \in OpIds : op'[j] = op[j]
<1> DEFINE o == Evaluation(e, S, added)
<1>1. op' = Append(op, o) /\ op \in Seq(Operations)
  BY DEF Submit, Typed, EvaluationsTyped
<1>2. o \in Operations
  BY QualityGateAssumption DEF QualityGateAssumption, Evaluation, Operations, None, NoScore
<1> HIDE DEF o
<1>3. /\ Len(op') = Len(op) + 1 /\ op' \in Seq(Operations) /\ Len(op) \in Nat
      /\ \A j \in 1..Len(op) : op'[j] = op[j]
      /\ op'[Len(op) + 1] = o
  BY <1>1, <1>2, AppendProperties
<1> QED BY <1>1, <1>3 DEF OpIds, o

\* A step of a worker leaves the other evaluations as they are.
LEMMA WorkerFrame ==
  ASSUME Typed, NEW i \in OpIds, WorkerStep(i)
  PROVE  OpIds' = OpIds /\ \A j \in OpIds \ {i} : op'[j] = op[j]
<1> USE DEF Typed, EvaluationsTyped, OpIds
<1>1. CASE ReadDocument(i) \/ Finish(i) \/ Interrupt(i) \/ Compare(i) \/ StoreBody(i)
  BY <1>1 DEF ReadDocument, Finish, Interrupt, Compare, StoreBody
<1>2. CASE ReadInput(i) \/ StoreTitle(i)
  BY <1>2 DEF ReadInput, Answered, StoreTitle
<1>3. CASE SemanticError(i)
  BY <1>3 DEF SemanticError
<1>4. CASE Record(i)
  BY <1>4, ZenonT(60) DEF Record
<1> QED BY <1>1, <1>2, <1>3, <1>4 DEF WorkerStep

\* A passed verdict needs a passed comparison.
LEMMA PassedVerdict ==
  ASSUME NEW i \in OpIds, NEW s, VerdictOf(i, s) = "passed"
  PROVE  op[i].embeds /\ op[i].likeness = "pass"
  BY DEF VerdictOf

\* Where a worker's own step leaves its evaluation, unless it is the comparison.
LEMMA WorkerStores ==
  ASSUME Typed, Stored, NEW i \in OpIds, WorkerStep(i), ~Compare(i)
  PROVE  StoredFor(op[i])' /\ ~Passing(op'[i])
<1> USE DEF OpIds
<1>v. op[i] \in Operations /\ op \in Seq(Operations) /\ StoredFor(op[i])
  BY DEF Typed, EvaluationsTyped, Stored
<1>1. CASE ReadDocument(i)
  <2>1. op'[i].pc = "input"
    BY <1>1, <1>v DEF ReadDocument, Operations
  <2> QED BY <2>1 DEF StoredFor, Passing
<1>2. CASE ReadInput(i)
  <2>1. PICK score, embeds : Answered(i, score, embeds)
    BY <1>2 DEF ReadInput
  <2>2. op'[i].pc = (IF embeds THEN "title" ELSE "record") /\ op'[i].embeds = embeds
    BY <1>v, <2>1 DEF Answered, Operations
  <2> QED BY <2>2 DEF StoredFor, Passing
<1>3. CASE StoreTitle(i)
  <2>1. PICK s : titles' = titles \cup {Vector(i, s)}
                 /\ op' = [op EXCEPT ![i].pc = After("title"), ![i].site = s]
    BY <1>3 DEF StoreTitle
  <2>2. op'[i].pc = "body" /\ VectorOf(op'[i]) = Vector(i, s)
    BY <1>v, <2>1 DEF After, Operations, VectorOf, Vector
  <2> QED BY <2>1, <2>2 DEF StoredFor, Passing
<1>4. CASE StoreBody(i)
  <2>1. op'[i].pc = "compare" /\ VectorOf(op'[i]) = Vector(i, op[i].site)
    BY <1>v, <1>4 DEF StoreBody, After, Operations, VectorOf, Vector
  <2>2. VectorOf(op[i]) = Vector(i, op[i].site) /\ VectorOf(op[i]) \in titles
    BY <1>v, <1>4 DEF StoreBody, At, StoredFor, VectorOf, Vector
  <2> QED BY <1>4, <2>1, <2>2 DEF StoreBody, StoredFor, Passing
<1>5. CASE SemanticError(i)
  <2>1. op'[i].pc = "record" /\ op'[i].likeness = "error"
    <3>1. CASE At(i, "title")
      <4>1. PICK s : op' = [op EXCEPT ![i].pc = "record", ![i].site = s, ![i].likeness = "error"]
        BY <1>5, <3>1 DEF SemanticError, At
      <4> QED BY <1>v, <4>1 DEF Operations
    <3>2. CASE ~At(i, "title")
      <4>1. op' = [op EXCEPT ![i].pc = "record", ![i].likeness = "error"]
        BY <1>5, <3>2 DEF SemanticError
      <4> QED BY <1>v, <4>1 DEF Operations
    <3> QED BY <3>1, <3>2
  <2> QED BY <2>1 DEF StoredFor, Passing
<1>6. CASE Record(i)
  <2>1. op'[i].pc \in {"finish", "title", "record"} /\ op'[i].likeness = None
    <3>1. PICK s : op' = [op EXCEPT ![i].pc = IF op[i].todo = {s} THEN "finish"
                                              ELSE IF op[i].embeds THEN "title" ELSE "record",
                                    ![i].todo = @ \ {s}, ![i].site = None, ![i].likeness = None,
                                    ![i].ids = @ \cup {Len(assessments) + 1}]
      BY <1>6 DEF Record
    <3> QED BY <1>v, <3>1 DEF Operations
  <2> QED BY <2>1 DEF StoredFor, Passing, None
<1>7. CASE Finish(i) \/ Interrupt(i)
  <2>1. \A state \in {"succeeded", "failed"} : Closed(i, state).pc = "done"
    BY <1>v DEF Closed, Operations
  <2>2. op'[i].pc \in {"document", "done"}
    <3>1. CASE Finish(i)
      BY <1>v, <2>1, <3>1 DEF Finish
    <3>2. CASE Interrupt(i) /\ Retryable(i)
      <4>1. op' = [op EXCEPT ![i] = [Evaluation(op[i].edition, op[i].sites, op[i].added)
                                       EXCEPT !.attempt = op[i].attempt + 1]]
        BY <3>2 DEF Interrupt
      <4> QED BY <1>v, <4>1 DEF Evaluation
    <3>3. CASE Interrupt(i) /\ ~Retryable(i)
      <4>1. op' = [op EXCEPT ![i] = [Closed(i, "failed") EXCEPT !.site = None, !.likeness = None,
                                                                !.todo = {}]]
        BY <3>3 DEF Interrupt
      <4> QED BY <1>v, <4>1 DEF Closed, Operations
    <3> QED BY <1>7, <3>1, <3>2, <3>3
  <2> QED BY <2>2 DEF StoredFor, Passing
<1> QED BY <1>1, <1>2, <1>3, <1>4, <1>5, <1>6, <1>7 DEF WorkerStep

\* An assessment that passes is of a cleared text.
LEMMA PassedIsCleared ==
  ASSUME Typed, NEW i \in OpIds, WorkerStep(i),
         NEW k \in AssessmentIds', assessments'[k].state = "passed"
  PROVE  Cleared(assessments'[k].edition, assessments'[k].site, assessments'[k].text)
<1>1. CASE k \in AssessmentIds /\ assessments'[k] = assessments[k]
  BY <1>1 DEF Cleared, PassedFor
<1>2. CASE Record(i)
  <2>1. PICK s : /\ s \in IF op[i].embeds THEN {op[i].site} ELSE NextSite(i)
                 /\ assessments' = Append(assessments,
                      [edition |-> op[i].edition, site |-> s, text |-> op[i].input,
                       ruled |-> op[i].document, state |-> VerdictOf(i, s), op |-> i])
    BY <1>2 DEF Record
  <2> DEFINE a == [edition |-> op[i].edition, site |-> s, text |-> op[i].input,
                   ruled |-> op[i].document, state |-> VerdictOf(i, s), op |-> i]
  <2>2. assessments' = Append(assessments, a) /\ assessments \in Seq(Assessments)
    BY <2>1 DEF Typed, RecordsTyped
  <2>3. (k \in AssessmentIds /\ assessments'[k] = assessments[k]) \/ assessments'[k] = a
    <3> HIDE DEF a
    <3> QED BY <2>2 DEF AssessmentIds
  <2>4. CASE assessments'[k] = a
    <3>1. VerdictOf(i, s) = "passed"
      BY <2>4
    <3>2. op[i].embeds /\ op[i].likeness = "pass" /\ op[i].site = s
      BY <2>1, <3>1, PassedVerdict
    <3>3. Passing(op[i])
      BY <1>2, <3>2 DEF Record, At, Passing
    <3> QED BY <2>4, <3>2, <3>3 DEF Cleared
  <2> QED BY <1>1, <2>3, <2>4
<1>3. CASE ~Record(i)
  <2>1. UNCHANGED assessments
    BY <1>3 DEF WorkerStep, ReadDocument, ReadInput, StoreTitle, StoreBody, Compare, SemanticError,
                Finish, Interrupt
  <2> QED BY <1>1, <2>1 DEF AssessmentIds
<1> QED BY <1>2, <1>3

LEMMA VectorsStay ==
  ASSUME NEW i \in OpIds, WorkerStep(i)
  PROVE  titles \subseteq titles' /\ bodies \subseteq bodies'
  BY DEF WorkerStep, ReadDocument, ReadInput, StoreTitle, StoreBody, Compare, SemanticError,
         Record, Finish, Interrupt, vectors

LEMMA StepApart ==
  ASSUME Typed, Stored, ClearedApart, [Next]_vars
  PROVE  Stored' /\ ClearedApart'
<1>a. \A k \in AssessmentIds : LET a == assessments[k]
        IN a.state = "passed" => Cleared(a.edition, a.site, a.text)
  BY DEF Cleared, PassedFor
<1>1. ASSUME NEW e \in plot.editions, EditionStep(e) PROVE Stored' /\ ClearedApart'
  <2>1. e \in Editions
    BY <1>1, QualityGateAssumption DEF QualityGateAssumption, Typed, RecordsTyped
  <2>2. UNCHANGED <<assessments, titles, bodies>>
    BY <1>1, <2>1, EditionQueues
  <2>3. CASE UNCHANGED op
    BY <1>a, <2>2, <2>3, NothingCleared DEF OpIds, AssessmentIds
  <2>4. ASSUME NEW S \in SUBSET Sites, NEW added \in BOOLEAN, Submit(e, S, added)
        PROVE  Stored' /\ ClearedApart'
    <3>1. \A j \in OpIds' : \/ j \in OpIds /\ op'[j] = op[j]
                            \/ op'[j] = Evaluation(e, S, added)
      BY <2>1, <2>4, SubmittedLast
    <3>2. ASSUME NEW j \in OpIds', op'[j] = Evaluation(e, S, added)
          PROVE  StoredFor(op[j])' /\ ~Passing(op'[j])
      BY <3>2 DEF Evaluation, StoredFor, Passing
    <3> QED BY <1>a, <2>2, <3>1, <3>2, NothingCleared DEF AssessmentIds
  <2> QED BY <1>1, <2>1, <2>3, <2>4, EditionQueues
<1>2. ASSUME NEW i \in OpIds, WorkerStep(i) PROVE Stored' /\ ClearedApart'
  <2>1. CASE Compare(i)
    BY <2>1, CompareClears
  <2>2. CASE ~Compare(i)
    <3>1. \A j \in OpIds' : \/ j \in OpIds /\ op'[j] = op[j]
                            \/ StoredFor(op[j])' /\ ~Passing(op'[j])
      <4>1. OpIds' = OpIds /\ \A j \in OpIds \ {i} : op'[j] = op[j]
        BY <1>2, WorkerFrame
      <4>2. StoredFor(op[i])' /\ ~Passing(op'[i])
        BY <1>2, <2>2, WorkerStores
      <4>3. ASSUME NEW j \in OpIds', j = i PROVE StoredFor(op[j])' /\ ~Passing(op'[j])
        BY <4>2, <4>3 DEF StoredFor, VectorOf
      <4> QED BY <4>1, <4>3
    <3>2. titles \subseteq titles' /\ bodies \subseteq bodies'
      BY <1>2, VectorsStay
    <3>3. \A k \in AssessmentIds' : LET a == assessments'[k]
            IN a.state = "passed" => Cleared(a.edition, a.site, a.text)
      BY <1>2, PassedIsCleared
    <3> QED BY <3>1, <3>2, <3>3, NothingCleared
  <2> QED BY <2>1, <2>2
<1>3. CASE UNCHANGED vars
  <2>1. UNCHANGED <<assessments, titles, bodies, op>>
    BY <1>3 DEF vars, vectors
  <2> QED BY <1>a, <2>1, NothingCleared DEF OpIds, AssessmentIds
<1> QED BY <1>1, <1>2, <1>3 DEF Next

LEMMA InitApart == Init => Stored /\ ClearedApart
<1>1. ASSUME Init PROVE OpIds = {} /\ AssessmentIds = {}
  BY <1>1 DEF Init, OpIds, AssessmentIds
<1> QED BY <1>1 DEF Stored, ClearedApart, Cleared

LEMMA ApartIsNoTwins == Typed /\ ClearedApart => NoTwinsPassed
<1>1. ASSUME Typed, ClearedApart, NEW k \in AssessmentIds, NEW l \in AssessmentIds,
             assessments[k].state = "passed", assessments[l].state = "passed",
             assessments[k].edition # assessments[l].edition
      PROVE  Apart(assessments[k].site, assessments[k].text, assessments[l].site,
                   assessments[l].text)
  <2>1. assessments[k] \in Assessments /\ assessments[l] \in Assessments
    BY <1>1 DEF Typed, RecordsTyped, AssessmentIds
  <2>2. /\ Cleared(assessments[k].edition, assessments[k].site, assessments[k].text)
        /\ Cleared(assessments[l].edition, assessments[l].site, assessments[l].text)
    BY <1>1 DEF Cleared, PassedFor
  <2> QED BY <1>1, <2>1, <2>2 DEF ClearedApart, Assessments
<1> QED BY <1>1 DEF NoTwinsPassed, Apart

\* For any number of evaluations at once, in any order: two editions are not both passed
\* with texts that each finds too much like the other.
THEOREM NoTwins == Spec => []NoTwinsPassed
<1>1. Typed /\ Stored /\ ClearedApart /\ [Next]_vars => (Typed /\ Stored /\ ClearedApart)'
  BY StepTyped, StepApart
<1> QED BY InitTyped, InitApart, <1>1, ApartIsNoTwins, PTL DEF Spec

(***************************************************************************)
(* Cycles.  What a site shows was passed since the edition was last added. *)
(***************************************************************************)
\* A set of positions that is not empty has a last one.
LEMMA HasLast ==
  ASSUME NEW n \in Nat, NEW S \in SUBSET (1..n), S # {}
  PROVE  \E m \in S : \A j \in S : j <= m
<1> DEFINE T == {x \in Nat : n - x \in S}
           R == OpToRel(<, Nat)
<1>1. T \subseteq Nat /\ T # {}
  <2>1. PICK j \in S : TRUE
    OBVIOUS
  <2>2. n - j \in Nat /\ n - (n - j) = j
    OBVIOUS
  <2> QED BY <2>1, <2>2
<1>2. IsWellFoundedOn(R, Nat)
  BY NatLessThanWellFounded
<1>3. PICK x \in T : \A y \in T : <<y, x>> \notin R
  <2> HIDE DEF T, R
  <2> QED BY <1>1, <1>2, WFMin
<1>4. ASSUME NEW j \in S PROVE j <= n - x
  <2>1. n - j \in T
    OBVIOUS
  <2>2. ~(n - j < x)
    BY <1>3, <2>1 DEF OpToRel
  <2>3. x \in Nat /\ j \in Nat
    OBVIOUS
  <2> HIDE DEF T, R
  <2> QED BY <2>2, <2>3
<1> QED BY <1>3, <1>4

Adds(e, s) == {i \in OpIds : op[i].added /\ op[i].edition = e /\ op[i].sites = {s}}
LastOf(S) == IF S = {} THEN 0 ELSE CHOOSE i \in S : \A j \in S : j <= i

LEMMA LatestAddOf == \A e, s : LatestAdd(e, s) = LastOf(Adds(e, s))
  BY DEF LatestAdd, LastOf, Adds

LEMMA LastProperties ==
  ASSUME NEW n \in Nat, NEW S \in SUBSET (1..n)
  PROVE  /\ S = {} => LastOf(S) = 0
         /\ S # {} => LastOf(S) \in S /\ \A j \in S : j <= LastOf(S)
<1>1. CASE S = {}
  BY <1>1 DEF LastOf
<1>2. CASE S # {}
  <2>1. \E m \in S : \A j \in S : j <= m
    BY <1>2, HasLast
  <2> QED BY <1>2, <2>1 DEF LastOf
<1> QED BY <1>1, <1>2

LEMMA LatestAddIsOp ==
  ASSUME Typed, NEW e, NEW s
  PROVE  /\ LatestAdd(e, s) \in Nat
         /\ LatestAdd(e, s) # 0 => LatestAdd(e, s) \in OpIds /\ LatestAdd(e, s) \in Adds(e, s)
<1>1. OpIds = 1..Len(op) /\ Len(op) \in Nat /\ Adds(e, s) \in SUBSET (1..Len(op))
  BY DEF Typed, EvaluationsTyped, OpIds, Adds
<1>2. LatestAdd(e, s) = LastOf(Adds(e, s))
  BY LatestAddOf
<1>3. /\ Adds(e, s) = {} => LastOf(Adds(e, s)) = 0
      /\ Adds(e, s) # {} => LastOf(Adds(e, s)) \in Adds(e, s)
  BY <1>1, LastProperties
<1> QED BY <1>1, <1>2, <1>3

\* What a worker's step does to its evaluation and to the assessments.
LEMMA WorkerKeeps ==
  ASSUME Typed, NEW i \in OpIds, WorkerStep(i)
  PROVE  /\ op'[i].added = op[i].added /\ op'[i].edition = op[i].edition
         /\ op'[i].sites = op[i].sites
         /\ \/ op'[i].ids \subseteq op[i].ids
            \/ Record(i) /\ op'[i].ids = op[i].ids \cup {Len(assessments) + 1}
<1> USE DEF OpIds
<1>v. op[i] \in Operations /\ op \in Seq(Operations)
  BY DEF Typed, EvaluationsTyped
<1>1. CASE ReadDocument(i)
  BY <1>v, <1>1 DEF ReadDocument, Operations
<1>2. CASE ReadInput(i)
  <2>1. PICK score, embeds : Answered(i, score, embeds)
    BY <1>2 DEF ReadInput
  <2> QED BY <1>v, <2>1 DEF Answered, Operations
<1>3. CASE StoreTitle(i)
  <2>1. PICK s : op' = [op EXCEPT ![i].pc = After("title"), ![i].site = s]
    BY <1>3 DEF StoreTitle
  <2> QED BY <1>v, <2>1 DEF Operations
<1>4. CASE StoreBody(i) \/ Compare(i)
  BY <1>v, <1>4 DEF StoreBody, Compare, Operations
<1>5. CASE SemanticError(i)
  <2>1. CASE At(i, "title")
    <3>1. PICK s : op' = [op EXCEPT ![i].pc = "record", ![i].site = s, ![i].likeness = "error"]
      BY <1>5, <2>1 DEF SemanticError, At
    <3> QED BY <1>v, <3>1 DEF Operations
  <2>2. CASE ~At(i, "title")
    <3>1. op' = [op EXCEPT ![i].pc = "record", ![i].likeness = "error"]
      BY <1>5, <2>2 DEF SemanticError
    <3> QED BY <1>v, <3>1 DEF Operations
  <2> QED BY <2>1, <2>2
<1>6. CASE Record(i)
  <2>1. PICK s : op' = [op EXCEPT ![i].pc = IF op[i].todo = {s} THEN "finish"
                                            ELSE IF op[i].embeds THEN "title" ELSE "record",
                                  ![i].todo = @ \ {s}, ![i].site = None, ![i].likeness = None,
                                  ![i].ids = @ \cup {Len(assessments) + 1}]
    BY <1>6 DEF Record
  <2> QED BY <1>v, <1>6, <2>1 DEF Operations
<1>7. CASE Finish(i)
  <2>1. op'[i] = Closed(i, "succeeded")
    BY <1>v, <1>7 DEF Finish
  <2> QED BY <1>v, <2>1 DEF Closed, Operations
<1>8. CASE Interrupt(i) /\ Retryable(i)
  <2>1. op'[i] = [Evaluation(op[i].edition, op[i].sites, op[i].added)
                    EXCEPT !.attempt = op[i].attempt + 1]
    BY <1>v, <1>8 DEF Interrupt
  <2> QED BY <2>1 DEF Evaluation
<1>9. CASE Interrupt(i) /\ ~Retryable(i)
  <2>1. op'[i] = [Closed(i, "failed") EXCEPT !.site = None, !.likeness = None, !.todo = {}]
    BY <1>v, <1>9 DEF Interrupt
  <2> QED BY <1>v, <2>1 DEF Closed, Operations
<1> QED BY <1>1, <1>2, <1>3, <1>4, <1>5, <1>6, <1>7, <1>8, <1>9 DEF WorkerStep

\* A record adds one assessment of its evaluation, for a site.
LEMMA RecordAppends ==
  ASSUME Typed, NEW i \in OpIds, Record(i)
  PROVE  /\ AssessmentIds' = AssessmentIds \cup {Len(assessments) + 1}
         /\ AssessmentIds = 1..Len(assessments) /\ Len(assessments) \in Nat
         /\ \A k \in AssessmentIds : assessments'[k] = assessments[k]
         /\ \E s \in IF op[i].embeds THEN {op[i].site} ELSE NextSite(i) :
              /\ assessments'[Len(assessments) + 1] =
                   [edition |-> op[i].edition, site |-> s, text |-> op[i].input,
                    ruled |-> op[i].document, state |-> VerdictOf(i, s), op |-> i]
              /\ row' = IF UpdatesRow(i, op[i].edition, s) /\ row[op[i].edition][s].state # "absent"
                          THEN [row EXCEPT ![op[i].edition][s].quality = VerdictOf(i, s)] ELSE row
<1>1. PICK s \in IF op[i].embeds THEN {op[i].site} ELSE NextSite(i) :
        /\ assessments' = Append(assessments,
             [edition |-> op[i].edition, site |-> s, text |-> op[i].input,
              ruled |-> op[i].document, state |-> VerdictOf(i, s), op |-> i])
        /\ row' = IF UpdatesRow(i, op[i].edition, s) /\ row[op[i].edition][s].state # "absent"
                    THEN [row EXCEPT ![op[i].edition][s].quality = VerdictOf(i, s)] ELSE row
  BY DEF Record
<1> DEFINE a == [edition |-> op[i].edition, site |-> s, text |-> op[i].input,
                 ruled |-> op[i].document, state |-> VerdictOf(i, s), op |-> i]
<1>2. assessments' = Append(assessments, a) /\ assessments \in Seq(Assessments)
  BY <1>1 DEF Typed, RecordsTyped
<1>3. /\ AssessmentIds' = AssessmentIds \cup {Len(assessments) + 1}
      /\ AssessmentIds = 1..Len(assessments) /\ Len(assessments) \in Nat
      /\ \A k \in AssessmentIds : assessments'[k] = assessments[k]
      /\ assessments'[Len(assessments) + 1] = a
  <2> HIDE DEF a
  <2> QED BY <1>2 DEF AssessmentIds
<1> QED BY <1>1, <1>3

\* The evaluations that added an edition to a site, after a step of a worker ...
LEMMA WorkerAdds ==
  ASSUME Typed, NEW i \in OpIds, WorkerStep(i), NEW e, NEW s
  PROVE  LatestAdd(e, s)' = LatestAdd(e, s)
<1>1. OpIds' = OpIds /\ \A j \in OpIds \ {i} : op'[j] = op[j]
  BY WorkerFrame
<1>2. Adds(e, s)' = Adds(e, s)
  BY <1>1, WorkerKeeps DEF Adds
<1>3. LatestAdd(e, s)' = LastOf(Adds(e, s)')
  BY DEF LatestAdd, LastOf, Adds
<1> QED BY <1>2, <1>3, LatestAddOf

\* ... and once an evaluation is queued.
LEMMA SubmittedAdds ==
  ASSUME Typed, NEW f \in Editions, NEW S \in SUBSET Sites, NEW added \in BOOLEAN,
         Submit(f, S, added), NEW e, NEW s
  PROVE  LatestAdd(e, s)' = LatestAdd(e, s) \/ (added = TRUE /\ f = e /\ S = {s})
<1> SUFFICES ASSUME ~(added = TRUE /\ f = e /\ S = {s})
             PROVE  LatestAdd(e, s)' = LatestAdd(e, s)
  OBVIOUS
<1>1. Adds(e, s)' = Adds(e, s)
  <2>1. /\ OpIds' = OpIds \cup {Len(op) + 1} /\ \A j \in OpIds : op'[j] = op[j]
        /\ op'[Len(op) + 1] = Evaluation(f, S, added)
    BY SubmittedLast
  <2>2. ~(op'[Len(op) + 1].added /\ op'[Len(op) + 1].edition = e /\ op'[Len(op) + 1].sites = {s})
    BY <2>1 DEF Evaluation
  <2>3. Adds(e, s)' = {j \in OpIds' : op'[j].added /\ op'[j].edition = e /\ op'[j].sites = {s}}
    BY DEF Adds
  <2>4. \A j : j \in Adds(e, s)' <=> j \in Adds(e, s)
    BY <2>1, <2>2, <2>3, SubmittedLast DEF Adds
  <2> QED BY <2>4
<1>2. LatestAdd(e, s)' = LastOf(Adds(e, s)')
  BY DEF LatestAdd, LastOf, Adds
<1> QED BY <1>1, <1>2, LatestAddOf

LEMMA AssessmentsStay ==
  ASSUME Typed, [Next]_vars
  PROVE  /\ AssessmentIds \subseteq AssessmentIds'
         /\ \A k \in AssessmentIds : assessments'[k] = assessments[k]
<1>1. ASSUME NEW i \in OpIds, Record(i)
      PROVE  /\ AssessmentIds \subseteq AssessmentIds'
             /\ \A k \in AssessmentIds : assessments'[k] = assessments[k]
  BY <1>1, RecordAppends
<1>2. ASSUME NEW i \in OpIds, WorkerStep(i), ~Record(i) PROVE UNCHANGED assessments
  BY <1>2 DEF WorkerStep, ReadDocument, ReadInput, StoreTitle, StoreBody, Compare, SemanticError,
              Finish, Interrupt
<1>3. ASSUME NEW e \in plot.editions, EditionStep(e) PROVE UNCHANGED assessments
  <2>1. e \in Editions
    BY <1>3, QualityGateAssumption DEF QualityGateAssumption, Typed, RecordsTyped
  <2> QED BY <1>3, <2>1, EditionQueues
<1>4. UNCHANGED vars => UNCHANGED assessments
  BY DEF vars
<1> QED BY <1>1, <1>2, <1>3, <1>4 DEF Next, AssessmentIds

HasOwn(e, s) ==
  \E k \in AssessmentIds : PassedFor(k, e, s) /\ assessments[k].op >= LatestAdd(e, s)
OwnAssessments == \A i \in OpIds : \A k \in op[i].ids : assessments[k].op = i
ShownOwn == \A e \in Editions, s \in Sites :
  row[e][s].state \in {"published", "unpublished"} => HasOwn(e, s)

LEMMA OwnStays ==
  ASSUME Typed, [Next]_vars, NEW e, NEW s, LatestAdd(e, s)' = LatestAdd(e, s), HasOwn(e, s)
  PROVE  HasOwn(e, s)'
  BY AssessmentsStay DEF HasOwn, PassedFor

\* What a release may show was passed in its own cycle.
LEMMA CompilableIsOwn ==
  ASSUME Typed, OwnAssessments, ShownOwn, NEW e \in Editions, NEW s \in Sites,
         Compilable(s), Selected(e, s)
  PROVE  HasOwn(e, s)
<1>1. CASE Fallback(e, s)
  BY <1>1 DEF Fallback, ShownOwn
<1>2. CASE ~Fallback(e, s) /\ LatestAdd(e, s) # 0
  <2> DEFINE i == LatestAdd(e, s)
  <2>1. AddPassed(e, s)
    BY <1>2 DEF Compilable, Admitted, Judged
  <2>2. PICK k \in op[i].ids \cap AssessmentsOf(e, s) : assessments[k].state = "passed"
    BY <2>1 DEF AddPassed
  <2>3. i \in OpIds /\ i \in Nat
    BY <1>2, LatestAddIsOp
  <2>4. assessments[k].op = i
    BY <2>2, <2>3 DEF OwnAssessments
  <2>5. k \in AssessmentIds /\ PassedFor(k, e, s)
    BY <2>2 DEF AssessmentsOf, PassedFor
  <2> HIDE DEF i
  <2>6. i >= i
    BY <2>3
  <2> QED BY <2>4, <2>5, <2>6 DEF HasOwn, i
<1>3. CASE ~Fallback(e, s) /\ LatestAdd(e, s) = 0
  <2> DEFINE ids == Window(s) \cap AssessmentsOf(e, s)
  <2>1. PassedLatest(ids)
    BY <1>3 DEF Compilable, Admitted, Judged
  <2>2. /\ AssessmentsOf(e, s) \subseteq AssessmentIds
        /\ AssessmentIds = 1..Len(assessments) /\ Len(assessments) \in Nat
    BY DEF AssessmentsOf, Typed, RecordsTyped, AssessmentIds
  <2>3. ids # {} /\ ids \in SUBSET (1..Len(assessments))
    BY <2>1, <2>2 DEF PassedLatest
  <2>4. Latest(ids) \in ids
    <3> HIDE DEF ids
    <3>1. \E m \in ids : \A j \in ids : j <= m
      BY <2>2, <2>3, HasLast
    <3> QED BY <3>1 DEF Latest
  <2> DEFINE k == Latest(ids)
  <2>5. k \in AssessmentIds /\ PassedFor(k, e, s)
    BY <2>1, <2>2, <2>4 DEF AssessmentsOf, PassedFor, PassedLatest
  <2>6. assessments[k].op \in Nat
    <3>1. assessments[k] \in Assessments
      BY <2>5 DEF Typed, RecordsTyped, AssessmentIds
    <3>2. plot.operations \in Nat
      BY QualityGateAssumption DEF QualityGateAssumption, Typed, RecordsTyped
    <3> QED BY <3>1, <3>2 DEF Assessments
  <2> QED BY <1>3, <2>5, <2>6 DEF HasOwn
<1> QED BY <1>1, <1>2, <1>3 DEF Compilable, Admitted

\* Which rows a step may turn into published or unpublished ones.
LEMMA StepOwn ==
  ASSUME Typed, OwnAssessments, ShownOwn, [Next]_vars
  PROVE  OwnAssessments' /\ ShownOwn'
<1> USE DEF OpIds
<1>i. \A i \in OpIds : op[i].ids \subseteq AssessmentIds
  BY DEF Typed, EvaluationsTyped
<1>a. /\ AssessmentIds \subseteq AssessmentIds'
      /\ \A k \in AssessmentIds : assessments'[k] = assessments[k]
  BY AssessmentsStay
<1>r. row \in [Editions -> [Sites -> Rows]]
  BY DEF Typed, RestTyped
<1>k. ASSUME UNCHANGED op PROVE OwnAssessments' /\ \A e, s : LatestAdd(e, s)' = LatestAdd(e, s)
  BY <1>a, <1>i, <1>k DEF OwnAssessments, LatestAdd
<1>s. ASSUME \A e \in Editions, s \in Sites : LatestAdd(e, s)' = LatestAdd(e, s),
             \A e \in Editions, s \in Sites :
               row'[e][s].state \in {"published", "unpublished"} => HasOwn(e, s)
      PROVE  ShownOwn'
  BY <1>s, OwnStays DEF ShownOwn
<1>1. ASSUME NEW i \in OpIds, WorkerStep(i) PROVE OwnAssessments' /\ ShownOwn'
  <2>1. OpIds' = OpIds /\ \A j \in OpIds \ {i} : op'[j] = op[j]
    BY <1>1, WorkerFrame
  <2>2. ASSUME NEW k \in op'[i].ids PROVE assessments'[k].op = i
    <3>1. CASE op'[i].ids \subseteq op[i].ids
      BY <1>a, <1>i, <2>2, <3>1 DEF OwnAssessments
    <3>2. CASE Record(i) /\ op'[i].ids = op[i].ids \cup {Len(assessments) + 1}
      <4>1. assessments'[Len(assessments) + 1].op = i
        <5>1. PICK s : assessments'[Len(assessments) + 1] =
                         [edition |-> op[i].edition, site |-> s, text |-> op[i].input,
                          ruled |-> op[i].document, state |-> VerdictOf(i, s), op |-> i]
          BY <3>2, RecordAppends
        <5> QED BY <5>1
      <4> QED BY <1>a, <1>i, <2>2, <3>2, <4>1 DEF OwnAssessments
    <3> QED BY <1>1, <3>1, <3>2, WorkerKeeps
  <2>3. OwnAssessments'
    <3>1. ASSUME NEW j \in OpIds', NEW k \in op'[j].ids PROVE assessments'[k].op = j
      BY <1>a, <1>i, <2>1, <2>2, <3>1 DEF OwnAssessments
    <3> QED BY <3>1 DEF OwnAssessments
  <2>4. \A e \in Editions, s \in Sites : row'[e][s].state = row[e][s].state
    <3>1. CASE Record(i)
      <4>1. PICK s : row' \in {row, [row EXCEPT ![op[i].edition][s].quality = VerdictOf(i, s)]}
        BY <3>1, RecordAppends
      <4>2. CASE row' = [row EXCEPT ![op[i].edition][s].quality = VerdictOf(i, s)]
        BY <1>r, <4>2 DEF Rows
      <4> QED BY <4>1, <4>2
    <3>2. CASE ~Record(i)
      BY <1>1, <3>2 DEF WorkerStep, ReadDocument, ReadInput, StoreTitle, StoreBody, Compare,
                        SemanticError, Finish, Interrupt
    <3> QED BY <3>1, <3>2
  <2> QED BY <1>1, <1>s, <2>3, <2>4, WorkerAdds DEF ShownOwn
<1>2. ASSUME NEW e \in Editions, EditionStep(e) PROVE OwnAssessments' /\ ShownOwn'
  <2>0. ASSUME NEW S \in SUBSET Sites, NEW added \in BOOLEAN, Submit(e, S, added)
        PROVE  OwnAssessments'
    <3>0. /\ OpIds' = OpIds \cup {Len(op) + 1} /\ \A j \in OpIds : op'[j] = op[j]
          /\ op'[Len(op) + 1] = Evaluation(e, S, added)
      BY <2>0, SubmittedLast
    <3>1. op'[Len(op) + 1].ids = {}
      BY <3>0 DEF Evaluation
    <3>2. ASSUME NEW j \in OpIds', NEW k \in op'[j].ids PROVE assessments'[k].op = j
      BY <1>a, <1>i, <3>0, <3>1, <3>2 DEF OwnAssessments
    <3> QED BY <3>2 DEF OwnAssessments
  <2>1. CASE RequestEvaluation(e)
    <3>1. PICK S \in SUBSET Sites : Submit(e, S, FALSE) /\ UNCHANGED row
      BY <2>1 DEF RequestEvaluation, SitesOf
    <3>2. \A f \in Editions, s \in Sites : LatestAdd(f, s)' = LatestAdd(f, s)
      BY <3>1, SubmittedAdds
    <3> QED BY <1>s, <2>0, <3>1, <3>2 DEF ShownOwn
  <2>2. ASSUME NEW s \in Sites, AddSite(e, s) PROVE OwnAssessments' /\ ShownOwn'
    <3>1. Submit(e, {s}, TRUE) /\ row' = [row EXCEPT ![e][s] = Row("pending", "pending")]
      BY <2>2 DEF AddSite
    <3>0. \A f, r : LatestAdd(f, r)' = LatestAdd(f, r) \/ (e = f /\ {s} = {r})
      <4>1. ASSUME NEW S \in SUBSET Sites, Submit(e, S, TRUE)
            PROVE  \A f, r : LatestAdd(f, r)' = LatestAdd(f, r) \/ (e = f /\ S = {r})
        BY <4>1, SubmittedAdds
      <4>2. {s} \in SUBSET Sites
        OBVIOUS
      <4> QED BY <3>1, <4>1, <4>2
    <3>2. ASSUME NEW f \in Editions, NEW r \in Sites,
                 row'[f][r].state \in {"published", "unpublished"}
          PROVE  HasOwn(f, r)'
      <4>1. ~(f = e /\ r = s)
        BY <1>r, <3>1, <3>2 DEF Row
      <4>2. row'[f][r] = row[f][r]
        BY <1>r, <3>1, <4>1
      <4>3. LatestAdd(f, r)' = LatestAdd(f, r)
        BY <3>0, <4>1
      <4> QED BY <3>2, <4>2, <4>3, OwnStays DEF ShownOwn
    <3> QED BY <2>0, <3>1, <3>2 DEF ShownOwn
  <2>3. ASSUME NEW s \in Sites, RemoveSite(e, s) PROVE OwnAssessments' /\ ShownOwn'
    <3>1. /\ UNCHANGED op
          /\ row' = [row EXCEPT ![e][s] =
                       Row(IF @.state = "published" THEN "unpublished" ELSE "absent", "pending")]
      BY <2>3 DEF RemoveSite
    <3>2. \A f \in Editions, r \in Sites :
            row'[f][r].state \in {"published", "unpublished"}
              => row[f][r].state \in {"published", "unpublished"}
      BY <1>r, <3>1 DEF Row
    <3> QED BY <1>k, <1>s, <3>1, <3>2 DEF ShownOwn
  <2>4. ASSUME NEW s \in Sites, Release(e, s) \/ ReleaseWithout(e, s)
        PROVE  OwnAssessments' /\ ShownOwn'
    <3>1. Publication(e, s) /\ Publishable(e, s)
      BY <2>4 DEF Release, ReleaseWithout
    <3>2. HasOwn(e, s)
      <4>1. CASE Member(e, s)
        <5>1. Selected(e, s)
          BY <3>1, <4>1 DEF Publishable, Selected
        <5> QED BY <3>1, <5>1, CompilableIsOwn DEF Publishable
      <4>2. CASE ~Member(e, s)
        <5>1. row[e][s].state = "unpublished"
          BY <1>r, <3>1, <4>2 DEF Publishable, Member, Rows
        <5> QED BY <5>1 DEF ShownOwn
      <4> QED BY <4>1, <4>2
    <3>3. UNCHANGED op /\ row' \in {row, [row EXCEPT ![e][s].state = "published"]}
      BY <3>1 DEF Publication
    <3>4. \A f \in Editions, r \in Sites : (f = e /\ r = s) \/ row'[f][r] = row[f][r]
      BY <1>r, <3>3
    <3> QED BY <1>k, <1>s, <3>2, <3>3, <3>4 DEF ShownOwn
  <2>5. CASE \/ \E t \in Texts : Save(e, t) \/ WriteGenerated(e, t)
             \/ WarmUp(e) \/ Approve(e) \/ Redraft(e) \/ SubmitPublish(e)
             \/ \E s \in Sites : Refuse(e, s)
    <3>1. UNCHANGED <<op, row>>
      BY <2>5 DEF Save, WriteGenerated, Change, WarmUp, Approve, Redraft, SubmitPublish, Refuse
    <3> QED BY <1>k, <1>s, <3>1 DEF ShownOwn
  <2> QED BY <1>2, <2>1, <2>2, <2>3, <2>4, <2>5 DEF EditionStep
<1>3. CASE UNCHANGED vars
  <2>1. UNCHANGED <<op, row>>
    BY <1>3 DEF vars
  <2> QED BY <1>k, <1>s, <2>1 DEF ShownOwn
<1>4. plot.editions \subseteq Editions
  BY QualityGateAssumption DEF QualityGateAssumption, Typed, RecordsTyped
<1> QED BY <1>1, <1>2, <1>3, <1>4 DEF Next

LEMMA InitOwn == Init => OwnAssessments /\ ShownOwn
  BY DEF Init, OwnAssessments, ShownOwn, OpIds, Row

LEMMA ReleaseIsOwn ==
  ASSUME Typed, OwnAssessments, ShownOwn, [Next]_vars, NEW s \in Sites, online'[s] # online[s],
         NEW e \in Editions, online'[s][e] # None
  PROVE  HasOwn(e, s)
<1>1. ASSUME NEW f \in Editions, EditionStep(f) PROVE Compilable(s) /\ Show(s)
  <2>1. PICK r \in Sites : Release(f, r) \/ ReleaseWithout(f, r)
    BY <1>1 DEF EditionStep, Save, WriteGenerated, Change, WarmUp, Approve, Redraft, SubmitPublish,
                RequestEvaluation, AddSite, RemoveSite, Refuse
  <2>2. Publication(f, r) /\ Publishable(f, r)
    BY <2>1 DEF Release, ReleaseWithout
  <2>3. r = s
    BY <2>2 DEF Publication, Show, Typed, RestTyped
  <2> QED BY <2>2, <2>3 DEF Publication, Publishable
<1>2. ASSUME NEW i \in OpIds, WorkerStep(i) PROVE FALSE
  BY <1>2 DEF WorkerStep, ReadDocument, ReadInput, StoreTitle, StoreBody, Compare, SemanticError,
              Record, Finish, Interrupt
<1>3. ~UNCHANGED vars
  BY DEF vars
<1>4. plot.editions \subseteq Editions
  BY QualityGateAssumption DEF QualityGateAssumption, Typed, RecordsTyped
<1>5. Compilable(s) /\ Show(s)
  BY <1>1, <1>2, <1>3, <1>4 DEF Next
<1>6. Selected(e, s)
  BY <1>5 DEF Show, Typed, RestTyped
<1> QED BY <1>5, <1>6, CompilableIsOwn

\* Whatever the bounds, no release shows an edition by a verdict from before the edition
\* was last added to that site.
THEOREM OwnCycle == Spec => ReleasedOnOwnCycle
<1> DEFINE I == Typed /\ OwnAssessments /\ ShownOwn
           A == \A s \in Sites : online'[s] # online[s] =>
                  \A e \in Editions : online'[s][e] # None =>
                    \E k \in AssessmentIds :
                      PassedFor(k, e, s) /\ assessments[k].op >= LatestAdd(e, s)
<1>1. Init => I
  BY InitTyped, InitOwn
<1>2. I /\ [Next]_vars => I'
  BY StepTyped, StepOwn
<1>3. I /\ [Next]_vars => [A]_vars
  BY ReleaseIsOwn DEF HasOwn
<1> QED BY <1>1, <1>2, <1>3, PTL DEF Spec, ReleasedOnOwnCycle

(***************************************************************************)
(* The quality a row shows.                                                *)
(***************************************************************************)
\* An evaluation for one site records one assessment, and then it is finished.
OneSite(o, s) ==
  /\ o.pc \in {"document", "input", "title", "body", "compare", "record"} =>
       o.ids = {} /\ o.state = "open"
  /\ o.pc \in {"title", "body", "compare", "record"} => o.todo = {s}
  /\ o.pc \in {"body", "compare"} \/ (o.pc = "record" /\ o.embeds) => o.site = s
  /\ o.pc = "finish" => o.state = "open"
OneSites == \A i \in OpIds, s \in Sites : op[i].sites = {s} => OneSite(op[i], s)
Told(o) == o.pc = "finish" \/ o.state = "succeeded"

LEMMA OneSiteStep ==
  ASSUME Typed, OneSites, NEW i \in OpIds, WorkerStep(i), NEW s \in Sites, op[i].sites = {s}
  PROVE  OneSite(op'[i], s) /\ (Record(i) \/ Finish(i) \/ ~Told(op'[i]))
<1> USE DEF OpIds
<1>v. op[i] \in Operations /\ op \in Seq(Operations) /\ OneSite(op[i], s)
  BY DEF Typed, EvaluationsTyped, OneSites
<1>n. ASSUME NEW r \in NextSite(i), op[i].todo = {s} PROVE r = s
  BY <1>n DEF NextSite
<1>1. CASE ReadDocument(i)
  <2>1. /\ op'[i].pc = "input" /\ op'[i].ids = op[i].ids /\ op'[i].state = op[i].state
        /\ op[i].pc = "document"
    BY <1>v, <1>1 DEF ReadDocument, At, Operations
  <2> QED BY <1>v, <2>1 DEF OneSite, Told
<1>2. CASE ReadInput(i)
  <2>1. PICK score, embeds : Answered(i, score, embeds)
    BY <1>2 DEF ReadInput
  <2>2. /\ op'[i].pc = (IF embeds THEN "title" ELSE "record") /\ op'[i].ids = op[i].ids
        /\ op'[i].state = op[i].state /\ op'[i].todo = {s} /\ op'[i].embeds = embeds
        /\ op[i].pc = "input"
    BY <1>v, <1>2, <2>1, ZenonT(60) DEF ReadInput, At, Answered, Operations
  <2> QED BY <1>v, <2>2 DEF OneSite, Told
<1>3. CASE StoreTitle(i)
  <2>1. PICK r \in NextSite(i) : op' = [op EXCEPT ![i].pc = After("title"), ![i].site = r]
    BY <1>3 DEF StoreTitle
  <2>2. /\ op'[i].pc = "body" /\ op'[i].ids = op[i].ids /\ op'[i].state = op[i].state
        /\ op'[i].todo = op[i].todo /\ op'[i].site = r /\ op[i].pc = "title"
    BY <1>v, <1>3, <2>1 DEF StoreTitle, At, After, Operations
  <2> QED BY <1>v, <1>n, <2>2 DEF OneSite, Told
<1>4. CASE StoreBody(i) \/ Compare(i)
  <2>1. /\ op'[i].pc \in {"compare", "record"} /\ op'[i].ids = op[i].ids
        /\ op'[i].state = op[i].state /\ op'[i].todo = op[i].todo /\ op'[i].site = op[i].site
        /\ op[i].pc \in {"body", "compare"}
    BY <1>v, <1>4 DEF StoreBody, Compare, At, After, Operations
  <2> QED BY <1>v, <2>1 DEF OneSite, Told
<1>5. CASE SemanticError(i)
  <2>1. /\ op'[i].pc = "record" /\ op'[i].ids = op[i].ids
        /\ op'[i].state = op[i].state /\ op'[i].todo = op[i].todo /\ op'[i].site = s
        /\ op[i].pc \in {"title", "body", "compare"}
    <3>1. CASE At(i, "title")
      <4>1. PICK r \in NextSite(i) :
              op' = [op EXCEPT ![i].pc = "record", ![i].site = r, ![i].likeness = "error"]
        BY <1>5, <3>1 DEF SemanticError, At
      <4>2. op[i].pc = "title" /\ r = s
        BY <1>v, <1>n, <3>1 DEF At, OneSite
      <4> QED BY <1>v, <4>1, <4>2 DEF Operations
    <3>2. CASE ~At(i, "title")
      <4>1. op' = [op EXCEPT ![i].pc = "record", ![i].likeness = "error"]
        BY <1>5, <3>2 DEF SemanticError
      <4>2. op[i].pc \in {"body", "compare"} /\ op[i].site = s
        BY <1>v, <1>5, <3>2 DEF SemanticError, At, OneSite
      <4> QED BY <1>v, <4>1, <4>2 DEF Operations
    <3> QED BY <3>1, <3>2
  <2> QED BY <1>v, <2>1 DEF OneSite, Told
<1>6. CASE Record(i)
  <2>1. op[i].pc = "record" /\ op[i].state = "open" /\ op[i].todo = {s}
    BY <1>v, <1>6 DEF Record, At, OneSite
  <2>2. PICK r \in IF op[i].embeds THEN {op[i].site} ELSE NextSite(i) :
          op' = [op EXCEPT ![i].pc = IF op[i].todo = {r} THEN "finish"
                                     ELSE IF op[i].embeds THEN "title" ELSE "record",
                           ![i].todo = @ \ {r}, ![i].site = None, ![i].likeness = None,
                           ![i].ids = @ \cup {Len(assessments) + 1}]
    BY <1>6, ZenonT(60) DEF Record
  <2>3. r = s
    BY <1>v, <1>n, <2>1, <2>2 DEF OneSite
  <2>4. op'[i].pc = "finish" /\ op'[i].state = "open"
    BY <1>v, <2>1, <2>2, <2>3 DEF Operations
  <2> QED BY <1>6, <2>4 DEF OneSite
<1>7. CASE Finish(i)
  <2>1. op'[i].pc = "done"
    BY <1>v, <1>7 DEF Finish, Closed, Operations
  <2> QED BY <1>7, <2>1 DEF OneSite
<1>8. CASE Interrupt(i) /\ Retryable(i)
  <2>1. op'[i] = [Evaluation(op[i].edition, op[i].sites, op[i].added)
                    EXCEPT !.attempt = op[i].attempt + 1]
    BY <1>v, <1>8 DEF Interrupt
  <2> QED BY <2>1 DEF Evaluation, OneSite, Told
<1>9. CASE Interrupt(i) /\ ~Retryable(i)
  <2>1. op'[i] = [Closed(i, "failed") EXCEPT !.site = None, !.likeness = None, !.todo = {}]
    BY <1>v, <1>9 DEF Interrupt
  <2>2. op'[i].pc = "done" /\ op'[i].state = "failed"
    BY <1>v, <2>1 DEF Closed, Operations
  <2> QED BY <2>2 DEF OneSite, Told
<1> QED BY <1>1, <1>2, <1>3, <1>4, <1>5, <1>6, <1>7, <1>8, <1>9 DEF WorkerStep

LEMMA StepOneSites ==
  ASSUME Typed, OneSites, [Next]_vars
  PROVE  OneSites'
<1>1. ASSUME NEW i \in OpIds, WorkerStep(i) PROVE OneSites'
  <2>1. OpIds' = OpIds /\ \A j \in OpIds \ {i} : op'[j] = op[j]
    BY <1>1, WorkerFrame
  <2>2. ASSUME NEW j \in OpIds', NEW s \in Sites, op'[j].sites = {s} PROVE OneSite(op'[j], s)
    <3>1. CASE j = i
      BY <1>1, <2>2, <3>1, WorkerKeeps, OneSiteStep
    <3>2. CASE j # i
      BY <2>1, <2>2, <3>2 DEF OneSites
    <3> QED BY <3>1, <3>2
  <2> QED BY <2>2 DEF OneSites, OneSite
<1>2. ASSUME NEW e \in Editions, NEW S \in SUBSET Sites, NEW added \in BOOLEAN,
             Submit(e, S, added)
      PROVE  OneSites'
  <2>1. /\ OpIds' = OpIds \cup {Len(op) + 1} /\ \A j \in OpIds : op'[j] = op[j]
        /\ op'[Len(op) + 1] = Evaluation(e, S, added)
    BY <1>2, SubmittedLast
  <2>2. \A s : OneSite(op'[Len(op) + 1], s)
    BY <2>1 DEF Evaluation, OneSite
  <2>3. ASSUME NEW j \in OpIds', NEW s \in Sites, op'[j].sites = {s} PROVE OneSite(op'[j], s)
    <3>1. CASE j \in OpIds
      BY <2>1, <2>3, <3>1 DEF OneSites
    <3>2. CASE j = Len(op) + 1
      BY <2>2, <3>2
    <3> QED BY <2>1, <3>1, <3>2
  <2> QED BY <2>3 DEF OneSites, OneSite
<1>3. ASSUME UNCHANGED op PROVE OneSites'
  BY <1>3 DEF OneSites, OneSite, OpIds
<1>4. plot.editions \subseteq Editions
  BY QualityGateAssumption DEF QualityGateAssumption, Typed, RecordsTyped
<1>5. UNCHANGED vars => UNCHANGED op
  BY DEF vars
<1> QED BY <1>1, <1>2, <1>3, <1>4, <1>5, EditionQueues DEF Next

PassedIn(e, s, ids) == \E k \in ids \cap AssessmentsOf(e, s) : assessments[k].state = "passed"
RowTold(e, s) ==
  /\ LatestAdd(e, s) = 0 =>
       (row[e][s].quality = "passed" <=> PassedLatest(AssessmentsOf(e, s)))
  /\ LatestAdd(e, s) # 0 /\ Told(op[LatestAdd(e, s)]) =>
       (row[e][s].quality = "passed" <=> PassedIn(e, s, op[LatestAdd(e, s)].ids))
RowsTold == \A e \in Editions, s \in Sites : row[e][s].state = "pending" => RowTold(e, s)

\* An assessment of other editions or sites, or of an evaluation from before the
\* addition, tells nothing.
LEMMA ToldStays ==
  ASSUME Typed, [Next]_vars, NEW e \in Editions, NEW s \in Sites, RowTold(e, s),
         LatestAdd(e, s)' = LatestAdd(e, s), row'[e][s].quality = row[e][s].quality,
         LatestAdd(e, s) = 0 => AssessmentsOf(e, s)' = AssessmentsOf(e, s),
         LatestAdd(e, s) # 0 =>
           LET i == LatestAdd(e, s)
           IN \/ ~Told(op'[i])
              \/ op'[i].ids = op[i].ids /\ Told(op[i])
  PROVE  RowTold(e, s)'
<1> DEFINE i == LatestAdd(e, s)
<1>a. /\ AssessmentIds \subseteq AssessmentIds'
      /\ \A k \in AssessmentIds : assessments'[k] = assessments[k]
  BY AssessmentsStay
<1>1. CASE i = 0
  <2> DEFINE ids == AssessmentsOf(e, s)
  <2>1. ids' = ids /\ ids \subseteq AssessmentIds
    BY <1>1 DEF AssessmentsOf
  <2>2. ids # {} => Latest(ids) \in ids
    <3>1. AssessmentIds = 1..Len(assessments) /\ Len(assessments) \in Nat
      BY DEF Typed, RecordsTyped, AssessmentIds
    <3> HIDE DEF ids
    <3>2. ids # {} => \E m \in ids : \A j \in ids : j <= m
      BY <2>1, <3>1, HasLast
    <3> QED BY <3>2 DEF Latest
  <2>3. PassedLatest(ids)' <=> PassedLatest(ids)
    <3>1. PassedLatest(ids)' <=> ids # {} /\ assessments'[Latest(ids)].state = "passed"
      BY <2>1 DEF PassedLatest, Latest
    <3> QED BY <1>a, <2>1, <2>2, <3>1 DEF PassedLatest
  <2> QED BY <1>1, <2>3 DEF RowTold
<1>2. CASE i # 0 /\ Told(op[i]) /\ op'[i].ids = op[i].ids
  <2>1. op[i].ids \subseteq AssessmentIds
    BY <1>2, LatestAddIsOp DEF Typed, EvaluationsTyped
  <2>2. PassedIn(e, s, op[i].ids)' <=> PassedIn(e, s, op[i].ids)
    BY <1>2, <1>a, <2>1 DEF PassedIn, AssessmentsOf
  <2> QED BY <1>2, <2>2 DEF RowTold, Told, PassedIn
<1>3. CASE i # 0 /\ ~Told(op'[i])
  BY <1>3 DEF RowTold, Told
<1> QED BY <1>1, <1>2, <1>3

\* A step of the edition leaves what other rows tell.
LEMMA ToldElsewhere ==
  ASSUME Typed, [Next]_vars, NEW e \in Editions, NEW s \in Sites, RowTold(e, s),
         LatestAdd(e, s)' = LatestAdd(e, s), row'[e][s] = row[e][s],
         UNCHANGED assessments, \A j \in OpIds : op'[j] = op[j]
  PROVE  RowTold(e, s)'
<1>1. AssessmentsOf(e, s)' = AssessmentsOf(e, s)
  BY DEF AssessmentsOf, AssessmentIds
<1>2. LatestAdd(e, s) # 0 => op'[LatestAdd(e, s)] = op[LatestAdd(e, s)]
  BY LatestAddIsOp
<1> QED BY <1>1, <1>2, ToldStays

\* The evaluation that an addition queues is the latest.
LEMMA AddedIsLatest ==
  ASSUME Typed, NEW e \in Editions, NEW s \in Sites, Submit(e, {s}, TRUE)
  PROVE  /\ LatestAdd(e, s)' = Len(op) + 1 /\ Len(op) \in Nat
         /\ op'[Len(op) + 1] = Evaluation(e, {s}, TRUE)
<1> DEFINE n == Len(op) + 1
<1>1. ASSUME NEW S \in SUBSET Sites, Submit(e, S, TRUE)
      PROVE  /\ OpIds' = OpIds \cup {n} /\ Len(op) \in Nat /\ OpIds = 1..Len(op)
             /\ op'[n] = Evaluation(e, S, TRUE)
  BY <1>1, SubmittedLast
<1>2. /\ OpIds' = 1..n /\ n \in Nat /\ n \in OpIds' /\ Len(op) \in Nat
      /\ op'[n] = Evaluation(e, {s}, TRUE)
  <2>1. {s} \in SUBSET Sites
    OBVIOUS
  <2>2. /\ OpIds' = OpIds \cup {n} /\ Len(op) \in Nat /\ OpIds = 1..Len(op)
        /\ op'[n] = Evaluation(e, {s}, TRUE)
    BY <1>1, <2>1
  <2> QED BY <2>2
<1> DEFINE A == Adds(e, s)'
<1>3. n \in A /\ A \in SUBSET (1..n)
  <2>1. A = {j \in OpIds' : op'[j].added /\ op'[j].edition = e /\ op'[j].sites = {s}}
    BY DEF Adds
  <2>2. op'[n].added = TRUE /\ op'[n].edition = e /\ op'[n].sites = {s}
    BY <1>2 DEF Evaluation
  <2> HIDE DEF A, n
  <2> QED BY <1>2, <2>1, <2>2
<1>4. LatestAdd(e, s)' = LastOf(A)
  BY DEF LatestAdd, LastOf, Adds
<1>5. LastOf(A) = n
  <2> HIDE DEF A, n
  <2>1. A # {} /\ LastOf(A) \in A /\ n <= LastOf(A)
    BY <1>2, <1>3, LastProperties
  <2>2. LastOf(A) \in 1..n
    BY <1>3, <2>1
  <2> HIDE <1>3
  <2> QED BY <1>2, <2>1, <2>2
<1> QED BY <1>2, <1>4, <1>5

LEMMA EditionTold ==
  ASSUME Typed, RowsTold, [Next]_vars, NEW e \in Editions, EditionStep(e)
  PROVE  RowsTold'
<1>r. row \in [Editions -> [Sites -> Rows]]
  BY DEF Typed, RestTyped
<1>a. UNCHANGED assessments
  BY EditionQueues
<1>k. ASSUME \A f \in Editions, r \in Sites :
               row'[f][r].state = "pending" =>
                 row'[f][r] = row[f][r] /\ LatestAdd(f, r)' = LatestAdd(f, r),
             \A j \in OpIds : op'[j] = op[j]
      PROVE  RowsTold'
  BY <1>a, <1>k, ToldElsewhere DEF RowsTold
<1>l. UNCHANGED op => /\ \A f, r : LatestAdd(f, r)' = LatestAdd(f, r)
                      /\ \A j \in OpIds : op'[j] = op[j]
  BY DEF LatestAdd, OpIds
<1>1. CASE RequestEvaluation(e)
  <2>1. PICK S \in SUBSET Sites : Submit(e, S, FALSE) /\ UNCHANGED row
    BY <1>1 DEF RequestEvaluation, SitesOf
  <2>2. \A f, r : LatestAdd(f, r)' = LatestAdd(f, r)
    BY <2>1, SubmittedAdds
  <2>3. \A j \in OpIds : op'[j] = op[j]
    BY <2>1, SubmittedLast
  <2> QED BY <1>k, <2>1, <2>2, <2>3
<1>2. ASSUME NEW s \in Sites, AddSite(e, s) PROVE RowsTold'
  <2>1. Submit(e, {s}, TRUE) /\ row' = [row EXCEPT ![e][s] = Row("pending", "pending")]
    BY <1>2 DEF AddSite
  <2>2. ASSUME NEW S \in SUBSET Sites, Submit(e, S, TRUE)
        PROVE  /\ \A f, r : LatestAdd(f, r)' = LatestAdd(f, r) \/ (e = f /\ S = {r})
               /\ \A j \in OpIds : op'[j] = op[j]
    BY <2>2, SubmittedAdds, SubmittedLast
  <2>3. {s} \in SUBSET Sites
    OBVIOUS
  <2>4. ASSUME NEW f \in Editions, NEW r \in Sites, row'[f][r].state = "pending", f # e \/ r # s
        PROVE  RowTold(f, r)'
    <3>1. row'[f][r] = row[f][r]
      BY <1>r, <2>1, <2>4
    <3>2. LatestAdd(f, r)' = LatestAdd(f, r) /\ \A j \in OpIds : op'[j] = op[j]
      <4>1. {s} = {r} => s = r
        OBVIOUS
      <4>2. /\ LatestAdd(f, r)' = LatestAdd(f, r) \/ (e = f /\ {s} = {r})
            /\ \A j \in OpIds : op'[j] = op[j]
        BY <2>1, <2>2, <2>3
      <4> QED BY <2>4, <4>1, <4>2
    <3> QED BY <1>a, <2>4, <3>1, <3>2, ToldElsewhere DEF RowsTold
  <2>5. RowTold(e, s)'
    <3>1. LatestAdd(e, s)' = Len(op) + 1 /\ Len(op) \in Nat
          /\ op'[Len(op) + 1] = Evaluation(e, {s}, TRUE)
      BY <2>1, AddedIsLatest
    <3>2. LatestAdd(e, s)' # 0 /\ ~Told(op'[LatestAdd(e, s)'])
      BY <3>1 DEF Told, Evaluation
    <3> QED BY <3>2 DEF RowTold, Told
  <2> QED BY <2>4, <2>5 DEF RowsTold
<1>3. ASSUME NEW s \in Sites, RemoveSite(e, s) PROVE RowsTold'
  <2>1. /\ UNCHANGED op
        /\ row' = [row EXCEPT ![e][s] =
                     Row(IF @.state = "published" THEN "unpublished" ELSE "absent", "pending")]
    BY <1>3 DEF RemoveSite
  <2>2. \A f \in Editions, r \in Sites :
          row'[f][r].state = "pending" => row'[f][r] = row[f][r]
    BY <1>r, <2>1 DEF Row
  <2> QED BY <1>k, <1>l, <2>1, <2>2
<1>4. ASSUME NEW s \in Sites, Publication(e, s) PROVE RowsTold'
  <2>1. UNCHANGED op /\ row' \in {row, [row EXCEPT ![e][s].state = "published"]}
    BY <1>4 DEF Publication
  <2>2. \A f \in Editions, r \in Sites :
          row'[f][r].state = "pending" => row'[f][r] = row[f][r]
    <3>1. CASE row' = [row EXCEPT ![e][s].state = "published"]
      BY <1>r, <3>1 DEF Rows
    <3> QED BY <2>1, <3>1
  <2> QED BY <1>k, <1>l, <2>1, <2>2
<1>5. ASSUME UNCHANGED <<op, row>> PROVE RowsTold'
  BY <1>k, <1>l, <1>5
<1> QED BY <1>1, <1>2, <1>3, <1>4, <1>5 DEF EditionStep, Save, WriteGenerated, Change, WarmUp,
        Approve, Redraft, SubmitPublish, Refuse, Release, ReleaseWithout

\* The evaluation behind a row, after a step of a worker that is not its record.
LEMMA TellerStays ==
  ASSUME Typed, OneSites, NEW i \in OpIds, WorkerStep(i), NEW e \in Editions, NEW s \in Sites,
         LatestAdd(e, s) # 0, ~(Record(i) /\ LatestAdd(e, s) = i)
  PROVE  LET l == LatestAdd(e, s)
         IN ~Told(op'[l]) \/ (op'[l].ids = op[l].ids /\ Told(op[l]))
<1> DEFINE l == LatestAdd(e, s)
<1>0. l \in OpIds /\ op[l].sites = {s}
  BY LatestAddIsOp DEF Adds
<1>1. CASE l # i
  <2>1. op'[l] = op[l]
    BY <1>0, <1>1, WorkerFrame
  <2> QED BY <2>1
<1>2. CASE l = i /\ Finish(i)
  <2>1. op[i] \in Operations /\ op \in Seq(Operations)
    BY DEF Typed, EvaluationsTyped, OpIds
  <2>2. op[i].pc = "finish" /\ op'[i].ids = op[i].ids
    BY <1>2, <2>1 DEF Finish, At, Closed, Operations, OpIds
  <2> QED BY <1>2, <2>2 DEF Told
<1>3. CASE l = i /\ ~Finish(i)
  BY <1>0, <1>3, OneSiteStep
<1> QED BY <1>1, <1>2, <1>3

\* A record tells the row of its own edition and site, unless the row waits for another
\* evaluation.
LEMMA RecordTold ==
  ASSUME Typed, OneSites, RowsTold, [Next]_vars, NEW i \in OpIds, WorkerStep(i), Record(i)
  PROVE  RowsTold'
<1> DEFINE f == op[i].edition
<1>n. PICK n : n = Len(assessments) + 1
  OBVIOUS
<1>v. op[i] \in Operations
  BY DEF Typed, EvaluationsTyped, OpIds
<1>r. row \in [Editions -> [Sites -> Rows]] /\ f \in Editions
  BY <1>v DEF Typed, RestTyped, Operations
<1>a. /\ AssessmentIds' = AssessmentIds \cup {n} /\ AssessmentIds = 1..Len(assessments)
      /\ Len(assessments) \in Nat /\ n \notin AssessmentIds
      /\ \A k \in AssessmentIds : assessments'[k] = assessments[k]
  BY <1>n, RecordAppends
<1>m. n \in Nat
  BY <1>n, <1>a
<1>1. PICK r \in IF op[i].embeds THEN {op[i].site} ELSE NextSite(i) :
        /\ assessments'[n] = [edition |-> f, site |-> r, text |-> op[i].input,
                              ruled |-> op[i].document, state |-> VerdictOf(i, r), op |-> i]
        /\ row' = IF UpdatesRow(i, f, r) /\ row[f][r].state # "absent"
                    THEN [row EXCEPT ![f][r].quality = VerdictOf(i, r)] ELSE row
  BY <1>n, RecordAppends
<1>d. r \in Sites
  <2>1. op[i].pc = "record" /\ Shape(op[i])
    BY DEF Record, At, Typed, EvaluationsTyped
  <2>2. NextSite(i) \subseteq Sites
    BY <1>v DEF NextSite, Operations
  <2> QED BY <1>1, <2>1, <2>2 DEF Shape
<1>2. ASSUME NEW e \in Editions, NEW s \in Sites, row'[e][s].state = "pending"
      PROVE  RowTold(e, s)'
  <2> DEFINE l == LatestAdd(e, s)
  <2>s. row[e][s].state = "pending"
    <3>1. CASE row' = [row EXCEPT ![f][r].quality = VerdictOf(i, r)]
      BY <1>r, <1>2, <3>1 DEF Rows
    <3> QED BY <1>1, <1>2, <3>1
  <2>t. RowTold(e, s)
    BY <2>s DEF RowsTold
  <2>l. LatestAdd(e, s)' = l
    BY WorkerAdds
  <2>1. CASE l = i
    <3>1. r = s /\ e = f /\ op[i].ids = {}
      <4>1. op[i].sites = {s} /\ op[i].edition = e
        <5>1. i # 0
          BY DEF Typed, EvaluationsTyped, OpIds
        <5> QED BY <2>1, <5>1, LatestAddIsOp DEF Adds
      <4>2. OneSite(op[i], s) /\ op[i].pc = "record"
        BY <4>1 DEF OneSites, Record, At
      <4>3. op[i].ids = {} /\ op[i].todo = {s} /\ (op[i].embeds => op[i].site = s)
        BY <4>2 DEF OneSite
      <4> QED BY <1>1, <4>1, <4>3 DEF NextSite
    <3>2. row'[e][s].quality = VerdictOf(i, s)
      <4>1. UpdatesRow(i, e, s)
        BY <2>1 DEF UpdatesRow
      <4> QED BY <1>1, <1>r, <2>s, <3>1, <4>1 DEF Rows
    <3>3. op'[i].ids \in {{}, {n}}
      BY <1>n, <3>1, WorkerKeeps
    <3>4. op'[i].ids = {n}
      <4>1. op[i] \in Operations /\ op \in Seq(Operations)
        BY DEF Typed, EvaluationsTyped, OpIds
      <4>2. PICK q : op' = [op EXCEPT ![i].pc = IF op[i].todo = {q} THEN "finish"
                                                ELSE IF op[i].embeds THEN "title" ELSE "record",
                              ![i].todo = @ \ {q}, ![i].site = None, ![i].likeness = None,
                              ![i].ids = @ \cup {Len(assessments) + 1}]
        BY DEF Record
      <4> QED BY <1>n, <3>1, <4>1, <4>2 DEF Operations, OpIds
    <3>5. PassedIn(e, s, {n})' <=> VerdictOf(i, s) = "passed"
      <4>1. n \in AssessmentsOf(e, s)' /\ assessments'[n].state = VerdictOf(i, s)
        BY <1>1, <1>a, <3>1 DEF AssessmentsOf
      <4> QED BY <4>1 DEF PassedIn
    <3>6. i # 0
      BY DEF Typed, EvaluationsTyped, OpIds
    <3>7. PassedIn(e, s, {n})' <=> PassedIn(e, s, op[i].ids)'
      BY <3>4 DEF PassedIn
    <3> QED BY <2>1, <2>l, <3>2, <3>5, <3>6, <3>7 DEF RowTold, PassedIn
  <2>2. CASE l # i /\ l # 0
    <3>1. ~(e = f /\ s = r /\ UpdatesRow(i, f, r))
      BY <2>2 DEF UpdatesRow
    <3>2. row'[e][s].quality = row[e][s].quality
      <4>1. CASE UpdatesRow(i, f, r) /\ row' = [row EXCEPT ![f][r].quality = VerdictOf(i, r)]
        BY <1>r, <3>1, <4>1
      <4> QED BY <1>1, <4>1
    <3> QED BY <2>t, <2>l, <2>2, <3>2, TellerStays, ToldStays
  <2>3. CASE l = 0 /\ ~(e = f /\ s = r)
    <3>1. row'[e][s].quality = row[e][s].quality
      <4>1. CASE row' = [row EXCEPT ![f][r].quality = VerdictOf(i, r)]
        BY <1>r, <2>3, <4>1
      <4> QED BY <1>1, <4>1
    <3>2. AssessmentsOf(e, s)' = AssessmentsOf(e, s)
      BY <1>1, <1>a, <2>3 DEF AssessmentsOf
    <3> QED BY <2>t, <2>l, <2>3, <3>1, <3>2, ToldStays
  <2>4. CASE l = 0 /\ e = f /\ s = r
    <3>1. row'[e][s].quality = VerdictOf(i, s)
      <4>1. UpdatesRow(i, e, s)
        BY <2>4 DEF UpdatesRow
      <4> QED BY <1>1, <1>r, <2>s, <2>4, <4>1 DEF Rows
    <3>2. n \in AssessmentsOf(e, s)' /\ AssessmentsOf(e, s)' \subseteq 1..n
      <4>1. n \in AssessmentsOf(e, s)'
        BY <1>1, <1>a, <2>4 DEF AssessmentsOf
      <4>2. AssessmentsOf(e, s)' \subseteq AssessmentIds'
        BY DEF AssessmentsOf
      <4>3. AssessmentIds' \subseteq 1..n
        BY <1>a, <1>n
      <4> QED BY <4>1, <4>2, <4>3
    <3>3. \A S : n \in S /\ S \subseteq 1..n => Latest(S) = n
      <4>1. ASSUME NEW S, n \in S, S \subseteq 1..n PROVE Latest(S) = n
        <5>1. n \in S /\ \A j \in S : j <= n
          BY <1>m, <4>1
        <5>2. Latest(S) \in S /\ n <= Latest(S)
          BY <5>1 DEF Latest
        <5>3. Latest(S) \in 1..n
          BY <4>1, <5>2
        <5> QED BY <1>m, <5>2, <5>3
      <4> QED BY <4>1
    <3>4. PassedLatest(AssessmentsOf(e, s))' <=> VerdictOf(i, s) = "passed"
      <4>1. Latest(AssessmentsOf(e, s)') = n
        BY <3>2, <3>3
      <4>2. PassedLatest(AssessmentsOf(e, s))'
              <=> /\ AssessmentsOf(e, s)' # {}
                  /\ assessments'[Latest(AssessmentsOf(e, s)')].state = "passed"
        BY DEF PassedLatest, Latest
      <4> QED BY <1>1, <2>4, <3>2, <4>1, <4>2
    <3> QED BY <2>4, <2>l, <3>1, <3>4 DEF RowTold
  <2> QED BY <2>1, <2>2, <2>3, <2>4
<1> QED BY <1>2 DEF RowsTold

LEMMA StepTold ==
  ASSUME Typed, OneSites, RowsTold, [Next]_vars
  PROVE  RowsTold'
<1>1. ASSUME NEW e \in plot.editions, EditionStep(e) PROVE RowsTold'
  <2>1. e \in Editions
    BY <1>1, QualityGateAssumption DEF QualityGateAssumption, Typed, RecordsTyped
  <2> QED BY <1>1, <2>1, EditionTold
<1>2. ASSUME NEW i \in OpIds, WorkerStep(i), ~Record(i) PROVE RowsTold'
  <2>1. UNCHANGED <<assessments, row>>
    BY <1>2 DEF WorkerStep, ReadDocument, ReadInput, StoreTitle, StoreBody, Compare,
                SemanticError, Finish, Interrupt
  <2>2. ASSUME NEW e \in Editions, NEW s \in Sites, RowTold(e, s) PROVE RowTold(e, s)'
    <3>1. AssessmentsOf(e, s)' = AssessmentsOf(e, s)
      BY <2>1 DEF AssessmentsOf, AssessmentIds
    <3>2. LatestAdd(e, s)' = LatestAdd(e, s)
      BY <1>2, WorkerAdds
    <3> QED BY <1>2, <2>1, <2>2, <3>1, <3>2, TellerStays, ToldStays
  <2> QED BY <2>1, <2>2 DEF RowsTold
<1>3. ASSUME NEW i \in OpIds, WorkerStep(i), Record(i) PROVE RowsTold'
  BY <1>3, RecordTold
<1>4. CASE UNCHANGED vars
  <2>1. UNCHANGED <<assessments, row, op>>
    BY <1>4 DEF vars
  <2>2. ASSUME NEW e \in Editions, NEW s \in Sites PROVE LatestAdd(e, s)' = LatestAdd(e, s)
    BY <2>1 DEF LatestAdd, OpIds
  <2> QED BY <2>1, <2>2, ToldElsewhere DEF RowsTold
<1> QED BY <1>1, <1>2, <1>3, <1>4 DEF Next

LEMMA InitTold == Init => OneSites /\ RowsTold
<1>1. ASSUME Init PROVE OneSites /\ RowsTold
  <2>1. OpIds = {} /\ AssessmentIds = {}
    BY <1>1 DEF Init, OpIds, AssessmentIds
  <2>2. \A e, s : LatestAdd(e, s) = 0 /\ ~PassedLatest(AssessmentsOf(e, s))
    BY <2>1 DEF LatestAdd, PassedLatest, AssessmentsOf
  <2>3. \A e \in Editions, s \in Sites : row[e][s].quality = "pending"
    BY <1>1 DEF Init, Row
  <2> QED BY <2>1, <2>2, <2>3 DEF OneSites, RowsTold, RowTold
<1> QED BY <1>1

LEMMA ToldIsGate == Typed /\ OneSites /\ RowsTold => QualityRowIsGate
<1>1. ASSUME Typed, RowsTold, NEW e \in Editions, NEW s \in Sites, row[e][s].state = "pending",
             LatestAdd(e, s) # 0 => op[LatestAdd(e, s)].state = "succeeded"
      PROVE  row[e][s].quality = "passed" <=> Judged(e, s, AssessmentsOf(e, s))
  <2>1. RowTold(e, s)
    BY <1>1 DEF RowsTold
  <2> QED BY <1>1, <2>1 DEF RowTold, Told, Judged, AddPassed, PassedIn
<1> QED BY <1>1 DEF QualityRowIsGate

\* Whatever the bounds, the quality shown for an edition that waits to be published to a
\* site is what the gate will find.
THEOREM QualityShown == Spec => []QualityRowIsGate
<1>1. Typed /\ OneSites /\ RowsTold /\ [Next]_vars => (Typed /\ OneSites /\ RowsTold)'
  BY StepTyped, StepOneSites, StepTold
<1> QED BY InitTyped, InitTold, <1>1, ToldIsGate, PTL DEF Spec
================================================================================
