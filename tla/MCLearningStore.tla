--------------------------- MODULE MCLearningStore ---------------------------
(***************************************************************************)
(* Two outcomes of one item, of the capsule and of a sitting say, so that  *)
(* they contend for the mastery row and for the spacing row both; two      *)
(* workers, so that both can be in flight, or two copies of one.           *)
(***************************************************************************)
EXTENDS LearningStore, TLC

CONSTANTS o1, o2, i1, c1, w1, w2

MCOutcome == {o1, o2}
MCItem == {i1}
MCCompetency == {c1}
MCItemOf == o1 :> i1 @@ o2 :> i1
MCCompetencyOf == i1 :> c1
MCWorker == {w1, w2}
=============================================================================
