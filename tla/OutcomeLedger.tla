---------------------------- MODULE OutcomeLedger ----------------------------
(***************************************************************************)
(* What the learning store promises the orchestration: an outcome, the     *)
(* verdict on one question a child was asked, moves the mastery of its     *)
(* competency and the spacing of its item in one step, and once, however   *)
(* many times the message that carried the answer is delivered.            *)
(***************************************************************************)
EXTENDS Integers, FiniteSets

CONSTANTS NoRow,            \* what reading a row that was never written returns
          Outcome,          \* outcome ids: "answer:<session>:<index>", ...
          Item,
          Competency,
          ItemOf,           \* the item an outcome is about
          CompetencyOf      \* the competency an item practises

ASSUME LedgerAssumption ==
    /\ IsFiniteSet(Outcome)
    /\ Outcome # {}
    /\ ItemOf \in [Outcome -> Item]
    /\ CompetencyOf \in [Item -> Competency]

-----------------------------------------------------------------------------
(***************************************************************************)
(* The pure rules that turn one graded answer into the next learning state *)
(* of a child: the mastery cell of a competency and the spaced-repetition  *)
(* row of an item.                                                         *)
(*                                                                         *)
(* The moving average, the level derived from it, the ease factor and the  *)
(* dates are left out: nothing stated about the store tells two of their   *)
(* values apart.  What is kept is every counter, because a lost or doubled *)
(* update shows in a counter.                                              *)
(***************************************************************************)
Mastery == [attempts : Nat, correct : Nat, streak : Int]

SpacedRow == [repetitions : Nat, lapses : Nat]

ASSUME NoRowAssumption == NoRow \notin Mastery \cup SpacedRow

FirstMastery == [attempts |-> 0, correct |-> 0, streak |-> 0]

FirstSpaced == [repetitions |-> 0, lapses |-> 0]

\* The row an answer starts from when there is none yet.
OrFirst(row, first) == IF row = NoRow THEN first ELSE row

UpdateMastery(m, correct) ==
    [attempts |-> m.attempts + 1,
     correct  |-> m.correct + (IF correct THEN 1 ELSE 0),
     streak   |-> IF correct THEN m.streak + 1
                  ELSE IF m.streak < 0 THEN m.streak - 1 ELSE -1]

(***************************************************************************)
(* grade_to_quality gives a wrong answer 1 and a right one 3, 4 or 5 by its *)
(* latency, and review only asks which side of FAILURE_QUALITY_THRESHOLD   *)
(* the quality is on, so the verdict stands for the quality here.          *)
(***************************************************************************)
Review(s, correct) ==
    IF correct
    THEN [s EXCEPT !.repetitions = @ + 1]
    ELSE [repetitions |-> 0, lapses |-> s.lapses + 1]

-----------------------------------------------------------------------------
VARIABLES mastery,          \* mastery row of each competency, or NoRow
          spaced,           \* spacing row of each item, or NoRow
          markers           \* outcomes whose marker row exists

ledgerVars == <<mastery, spaced, markers>>

CellOf(o) == CompetencyOf[ItemOf[o]]

LedgerInit ==
    /\ mastery = [c \in Competency |-> NoRow]
    /\ spaced = [i \in Item |-> NoRow]
    /\ markers = {}

\* One answer is counted: both rows move together, from what they hold now.
Count(o, correct) ==
    LET c == CellOf(o)
        i == ItemOf[o]
    IN  /\ o \notin markers
        /\ markers' = markers \cup {o}
        /\ mastery' = [mastery EXCEPT ![c] =
                         UpdateMastery(OrFirst(@, FirstMastery), correct)]
        /\ spaced' = [spaced EXCEPT ![i] =
                         Review(OrFirst(@, FirstSpaced), correct)]

LedgerNext ==
    \E o \in Outcome, correct \in BOOLEAN : Count(o, correct)

LedgerSpec == LedgerInit /\ [][LedgerNext]_ledgerVars

-----------------------------------------------------------------------------
LedgerTypeOK ==
    /\ mastery \in [Competency -> Mastery \cup {NoRow}]
    /\ spaced \in [Item -> SpacedRow \cup {NoRow}]
    /\ markers \subseteq Outcome

Attempts(c) == OrFirst(mastery[c], FirstMastery).attempts

CountedFor(c) == {o \in markers : CellOf(o) = c}

(***************************************************************************)
(* apply_outcome: the attempts of a mastery cell are exactly the outcomes  *)
(* counted for its competency: none is counted twice and none is lost to   *)
(* a concurrent update of the same cell.                                   *)
(***************************************************************************)
AttemptsCountMarkers ==
    \A c \in Competency : Attempts(c) = Cardinality(CountedFor(c))
=============================================================================
