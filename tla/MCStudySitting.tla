--------------------------- MODULE MCStudySitting ---------------------------
(***************************************************************************)
(* Two questions a sitting and two sittings a day, a capsule of one item,  *)
(* two wrong answers that end the day, and a bank of as many items as the  *)
(* day allows; two messages may wait, so that one can be handled between   *)
(* the two deliveries of another.                                          *)
(***************************************************************************)
EXTENDS StudySitting, TLC

CONSTANTS m1, m2

MCSlot == {m1, m2}

\* A slot is only a place to wait: no action tells two of them apart.
SlotsAlike == Permutations(MCSlot)

(***************************************************************************)
(* What the next steps and the properties can tell apart.  Of a sitting    *)
(* that is over, only how many questions it served, whether it ended the   *)
(* day and whether it counted too many wrong; of a message or a screen     *)
(* about a question that is no longer the current one, only that: the      *)
(* current question moves forward and never back.  The invariants that     *)
(* look at more of a sitting that is over are part of the view.            *)
(***************************************************************************)
IsCurrent(q) == q # NoQuestion /\ q = CurrentQuestion(OpenSitting)

SittingView(s) ==
    IF s.status \in OpenStatus THEN s ELSE <<Len(s.served), s.enough, s.wrong >= WrongStop>>

MessageView(m) ==
    IF m.kind \in {"text", "button"} /\ ~IsCurrent(m.about) THEN <<m.kind>> ELSE m

MCView ==
    <<[i \in DOMAIN sittings |-> SittingView(sittings[i])],
      Reviewed, {q \in outcomes : sittings[q[1]].status \in OpenStatus},
      capsule, [m \in Slot |-> MessageView(inbox[m])],
      IF screen = NoQuestion \/ IsCurrent(screen) THEN screen ELSE <<0, 1>>,
      handler, faults, TypeOK, AnsweredIsCounted>>
=============================================================================
