----------------------------- MODULE MCQualityGate -----------------------------
(* Small instances of QualityGate.  The bodies of the first two texts are alike, and so *)
(* are the titles of the last two.                                                      *)
EXTENDS QualityGate

BodiesAlike == [t \in Texts |-> [u \in Texts |->
  IF t = u THEN 100 ELSE IF {t, u} = {"t1", "t2"} THEN 88 ELSE 40]]
TitlesAlike == [t \in Texts |-> [u \in Texts |->
  IF t = u THEN 100 ELSE IF {t, u} = {"t2", "t3"} THEN 95 ELSE 40]]
ReviewAt == [s \in Sites |-> 85]
TitleBlockAt == [s \in Sites |-> 90]
OverallMinAt == [s \in Sites |-> 80]

BothTexts == [e \in Editions |-> IF e = "e1" THEN "t1" ELSE "t2"]

\* Two editions that are alike, evaluated under saves and failing calls; or one edition
\* that is published, removed and added again.
Twins == [editions |-> Editions, sites |-> [e \in Editions |-> IF e = "e1" THEN {"s1"} ELSE Sites],
          scores |-> {90}, workers |-> 2, operations |-> 2, approvals |-> 0, upsets |-> 2]
Cycles == [editions |-> {"e1"}, sites |-> [e \in Editions |-> Sites],
           scores |-> {70, 90}, workers |-> 1, operations |-> 3, approvals |-> 2, upsets |-> 0]
MCPlots == {Twins, Cycles}

\* One edition on one site, approved once, with one evaluation and one save.
Saved == [editions |-> {"e1"}, sites |-> [e \in Editions |-> {"s1"}],
          scores |-> {90}, workers |-> 1, operations |-> 1, approvals |-> 1, upsets |-> 1]
MCSaved == {Saved}
================================================================================
