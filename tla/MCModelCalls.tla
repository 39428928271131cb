---------------------------- MODULE MCModelCalls ----------------------------
(***************************************************************************)
(* The first family has a page, whose handler keeps the answers it was     *)
(* given, and an answer: one dies or meets a failed send, and the close    *)
(* runs beside the queue.  With an answer of each of two families, two     *)
(* sessions and the close share the day's calls, and outages make their    *)
(* retries spend them.  The allowances are as small as lets each of them   *)
(* be the one that refuses: two calls a message, two a family and three a  *)
(* day.  A step of time is a day, or the two days of an allowance.         *)
(***************************************************************************)
EXTENDS ModelCalls, TLC

CONSTANTS page, answer, other, judge

MCEvent == {page, answer, other}
MCFamilyOf == [e \in MCEvent |-> IF e = other THEN 2 ELSE 1]
MCCalls == (page :> <<judge, judge>>) @@ (answer :> <<judge>>) @@ (other :> <<judge>>)
MCKeeps == {page}
MCRole == {judge}
MCLoads ==
    {[events |-> {page, answer}, faults |-> 1], [events |-> {answer, other}, faults |-> 0]}
=============================================================================
