-------------------------- MODULE MCCapsuleAnswers --------------------------
(***************************************************************************)
(* A capsule of two questions of a competency of which two answers were    *)
(* counted before and, the next day, one of one question of a competency   *)
(* that is new; two messages, so that one can be handled while the other   *)
(* is unfinished, on the same day or the next, and the second one can      *)
(* complete a capsule or find it complete.                                 *)
(***************************************************************************)
EXTENDS CapsuleAnswers

CONSTANTS a, b, algebra, geometry

MCMsg == {a, b}
MCCompetency == {algebra, geometry}
MCCompetencyOf == [q \in Question |-> IF q[1] = 1 THEN algebra ELSE geometry]
MCLength == <<2, 1>>
MCEarlier == [c \in MCCompetency |->
                  IF c = geometry THEN NoMastery
                  ELSE UpdateMastery(UpdateMastery(NoMastery, FALSE), TRUE)]
=============================================================================
