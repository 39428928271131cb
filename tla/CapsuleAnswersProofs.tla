------------------------ MODULE CapsuleAnswersProofs ------------------------
(***************************************************************************)
(* Why an answer to the daily capsule is settled once, whatever crashes    *)
(* come between its writes, and why a child who struggles is not passed    *)
(* over.                                                                   *)
(*                                                                         *)
(* Settling: one journal record is unfinished at a time, and a new one is  *)
(* opened only for the question behind those the session has left; so a    *)
(* question has one message, and the row, the count and the move of that   *)
(* message all repeat the grade its journal keeps.                         *)
(* Asking: a message is decided after it was counted, and between the      *)
(* decision and its completion nothing more of the competency is counted;  *)
(* so what was due at the decision is what is due at the completion.       *)
(***************************************************************************)
EXTENDS CapsuleAnswers, FiniteSetTheorems, TLAPS

-----------------------------------------------------------------------------
(***************************************************************************)
(* The types of what the proofs speak about.                               *)
(***************************************************************************)
\* A session that was not answered yet stands at its first question.
Early == {"none", "planned", "delivered"}

Places == {"idle", "screen", "route", "grade", "record", "count", "advance", "decide", "adapt",
           "compose", "escalate", "complete", "deliver", "prepare", "finish"}

Row == [question : Question, verdict : Verdict]

Escalation ==
    [id : Nat, of : Msg, kind : Escalating, day : Day, evidence : SUBSET Question,
     status : {"pending", "resolved"}]

SessionShape ==
    /\ session \in [Day -> [index : Nat, status : Early \cup {"in_progress", "completed"}]]
    /\ \A d \in Day : /\ session[d].index \in 1..Length[d]
                      /\ session[d].status \in Early => session[d].index = 1

JournalShape == journal \in [Msg -> Journal \cup {NoJournal}]

RecordShape ==
    /\ row \in [Msg -> Row \cup {NoRow}]
    /\ counted \in [Question -> Verdict \cup {"none"}]
    /\ mastery \in [Competency -> Mastery]
    /\ escalations \subseteq Escalation

PlaceShape ==
    /\ today \in Day
    /\ pc \in Places
    /\ pc # "idle" => at \in Msg

Shape == SessionShape /\ JournalShape /\ RecordShape /\ PlaceShape

-----------------------------------------------------------------------------
(***************************************************************************)
(* Settling.                                                               *)
(***************************************************************************)
\* The steps that come after each write of the response graph.
AfterGrade == {"record", "count", "advance", "decide", "adapt", "compose", "escalate",
               "complete"}
AfterRecord == AfterGrade \ {"record"}
AfterCount == AfterRecord \ {"count"}
AfterAdvance == AfterCount \ {"advance"}
AfterDecide == AfterAdvance \ {"decide"}

\* A message is graded and counted while its journal record is unfinished.
UnderWay ==
    /\ pc = "route" => ~Journaled(at)
    /\ pc = "screen" => Journaled(at)
    /\ pc \in AfterGrade \cup {"grade"} => Journaled(at) /\ ~journal[at].complete

\* No other message is unfinished meanwhile.
OneUnderWay == \A m, n \in Incomplete : m = n

\* A question has one message that answers it.
OneAnswer ==
    \A m, n \in Msg :
        Journaled(m) /\ Journaled(n) /\ journal[m].question = journal[n].question => m = n

\* The grade row repeats the journal, and a held grade is in the quarantine.
Recorded(m) ==
    /\ journal[m].grade # "none"
    /\ row[m] = [question |-> journal[m].question, verdict |-> journal[m].grade]
    /\ journal[m].grade = "held" => m \in quarantine

\* So does the learning state.
Settled(m) ==
    /\ Recorded(m)
    /\ counted[journal[m].question] =
         IF journal[m].grade = "held" THEN "none" ELSE journal[m].grade

\* There is no row of anything else, and nothing else was counted.
RowsAreJournaled == \A m \in Msg : row[m] # NoRow => Journaled(m) /\ Recorded(m)

CountedIsRecorded ==
    \A q \in Question : counted[q] # "none" =>
        \E m \in Msg : /\ Journaled(m) /\ journal[m].question = q
                       /\ Recorded(m)
                       /\ journal[m].grade = counted[q] /\ counted[q] # "held"

\* Done, of a session that is given.
DoneIn(s, d) == IF s[d].status = "completed" THEN Length[d] ELSE s[d].index - 1

\* The session has moved past the question.
Left(q) == q[2] <= DoneIn(session, q[1])

LeftIsSettled ==
    \A q \in Question : Left(q) =>
        \E m \in Msg : Journaled(m) /\ journal[m].question = q /\ Settled(m)

\* The session stands where the unfinished answer found it, or just behind.
Close ==
    \A m \in Msg : Journaled(m) =>
        LET q == journal[m].question
        IN  IF journal[m].complete THEN Left(q)
            ELSE q[2] \in {DoneIn(session, q[1]), DoneIn(session, q[1]) + 1}

\* What the steps of the message at work have done so far.
InPlace ==
    /\ pc \in AfterGrade => journal[at].grade # "none"
    /\ pc \in AfterRecord => Recorded(at)
    /\ pc \in AfterCount => Settled(at)
    /\ pc \in AfterAdvance => Left(journal[at].question)

SettleInv ==
    /\ Shape /\ UnderWay /\ OneUnderWay /\ OneAnswer /\ RowsAreJournaled
    /\ CountedIsRecorded /\ LeftIsSettled /\ Close /\ InPlace

-----------------------------------------------------------------------------
(***************************************************************************)
(* Asking an adult.                                                        *)
(***************************************************************************)
\* A decision comes after the count and the move of its answer.
Decisions ==
    \A m \in Msg : Journaled(m) /\ journal[m].decision # "none" =>
        /\ Left(journal[m].question)
        /\ mastery[CompetencyOf[journal[m].question]].attempts > 0

Due(c) == IsStruggling(mastery[c]) /\ mastery[c].attempts >= MinSamples

\* An answer was decided otherwise only because an adult had been asked before.
DueIsDecided ==
    \A m \in Incomplete :
        /\ journal[m].decision \notin {"none", "escalate_struggle"}
        /\ Due(CompetencyOf[journal[m].question])
        => Triages # {}

\* Messages whose journal record holds an escalation.
Escalated == {m \in Msg : Journaled(m) /\ journal[m].escalation # NoEscalation}

EscalatedIsDecided ==
    \A m \in Escalated :
        /\ journal[m].escalation.of = m
        /\ journal[m].escalation.kind = journal[m].decision
        /\ journal[m].decision \in Escalating

Ids == {journal[m].escalation.id : m \in Escalated}

\* The ids are given out one after the other, and each once.
OneId ==
    /\ \E n \in Nat : Ids = 1..n
    /\ \A m, n \in Escalated : journal[m].escalation.id = journal[n].escalation.id => m = n

\* Every row repeats the escalation of its message, and there is one of each.
EscalationsAreJournaled ==
    \A e \in escalations :
        /\ e.of \in Escalated
        /\ e.id = journal[e.of].escalation.id
        /\ e.kind = journal[e.of].escalation.kind

OneRow == \A e, f \in escalations : e.id = f.id => e = f

\* What the steps after the decision have done so far.
DecisionInPlace ==
    /\ pc \in AfterDecide /\ journal[at].decision = "none" =>
         pc = "complete" /\ mastery[Practised].attempts = 0
    /\ pc \in {"compose", "escalate"} => journal[at].decision \in Escalating
    /\ pc = "escalate" => journal[at].escalation # NoEscalation
    /\ pc = "complete" /\ journal[at].decision \in Escalating =>
         \E e \in escalations : e.of = at

\* A complete answer that was to ask an adult has asked.
CompleteIsTold ==
    \A m \in Msg : Journaled(m) /\ journal[m].complete /\ journal[m].decision \in Escalating =>
        \E e \in escalations : e.of = m

AskInv ==
    /\ Decisions /\ DueIsDecided /\ EscalatedIsDecided /\ OneId /\ EscalationsAreJournaled
    /\ OneRow /\ DecisionInPlace /\ CompleteIsTold

IInv == SettleInv /\ AskInv

-----------------------------------------------------------------------------
(***************************************************************************)
(* The questions of the capsules, and the records told from their absence. *)
(***************************************************************************)
LEMMA QuestionIs ==
    /\ \A q \in Question : /\ q[1] \in Day /\ q[2] \in 1..Length[q[1]]
                           /\ q = <<q[1], q[2]>>
    /\ \A d \in Day : \A i \in 1..Length[d] : <<d, i>> \in Question
    /\ NoQuestion \notin Question
<1>1. \A d \in Day : Length[d] \in Nat \ {0}
  BY AnswersAssumption
<1>2. \A q \in Question : \E d \in Day : \E i \in 1..Length[d] : q = <<d, i>>
  BY DEF Question
<1>3. \A d \in Day : \A i \in 1..Length[d] : <<d, i>> \in Question
  BY DEF Question
<1>4. 0 \notin Day
  BY DEF Day
<1> QED
  BY <1>1, <1>2, <1>3, <1>4 DEF NoQuestion

LEMMA JournaledIs ==
    ASSUME Shape
    PROVE  /\ \A m \in Msg : Journaled(m) <=> journal[m] \in Journal
           /\ \A m \in Msg : row[m] # NoRow <=> row[m] \in Row
  BY QuestionIs DEF Shape, JournalShape, RecordShape, Journaled, Journal, NoJournal, Row, NoRow

LEMMA AfterIs ==
    ASSUME NEW q \in Question
    PROVE  After(q) \in Question /\ After(q)[1] = q[1]
  BY QuestionIs, AnswersAssumption DEF After, Last

LEMMA UpdateMasteryIs ==
    ASSUME NEW m \in Mastery, NEW correct \in BOOLEAN
    PROVE  /\ UpdateMastery(m, correct) \in Mastery
           /\ UpdateMastery(m, correct).attempts = m.attempts + 1
<1> DEFINE outcome == IF correct THEN One ELSE 0
           prior == IF m.attempts = 0 THEN outcome ELSE m.ema
<1>1. One \in Nat
  BY SMT DEF One
<1>2. m.ema \in 0..One /\ m.attempts \in Nat /\ m.streak \in Int
  BY DEF Mastery
<1>3. outcome \in 0..One /\ prior \in 0..One
  BY <1>1, <1>2
<1>4. ASSUME NEW n \in Nat, NEW o \in 0..n, NEW p \in 0..n
      PROVE  (3 * o + 7 * p) \div 10 \in 0..n
  OBVIOUS
<1>5. (3 * outcome + 7 * prior) \div 10 \in 0..One
  <2> HIDE DEF outcome, prior
  <2> QED
    BY <1>1, <1>3, <1>4
<1>6. UpdateMastery(m, correct) =
        [ema |-> (3 * outcome + 7 * prior) \div 10, attempts |-> m.attempts + 1,
         streak |-> IF correct THEN m.streak + 1
                    ELSE IF m.streak < 0 THEN m.streak - 1 ELSE -1]
  BY DEF UpdateMastery
<1> HIDE DEF outcome, prior
<1> QED
  BY <1>2, <1>5, <1>6 DEF Mastery

-----------------------------------------------------------------------------
(***************************************************************************)
(* Which actions write what.                                               *)
(***************************************************************************)
LEMMA SessionWriters ==
    [Next]_vars => \/ UNCHANGED session
                   \/ PlanSession \/ MarkDelivered \/ Advance
  BY SMT DEF vars, channel, record, learning, Next, Work, PlanSession, SendSession, MarkDelivered,
         NextDay, ResolveEscalation, Send, Take, Pass, Blocked, NotAnAnswer, OpenJournal,
         RaiseAwaiting, Grade, Record, Count, Advance, Decide, NothingToDecide, Adapt, Compose,
         PutEscalation, Complete, Deliver, Prepare, Finish, Crash

LEMMA JournalWriters ==
    [Next]_vars => \/ UNCHANGED journal
                   \/ OpenJournal \/ Grade \/ Decide \/ Compose \/ Complete
  BY SMT DEF vars, channel, record, learning, Next, Work, PlanSession, SendSession, MarkDelivered,
         NextDay, ResolveEscalation, Send, Take, Pass, Blocked, NotAnAnswer, OpenJournal,
         RaiseAwaiting, Grade, Record, Count, Advance, Decide, NothingToDecide, Adapt, Compose,
         PutEscalation, Complete, Deliver, Prepare, Finish, Crash

LEMMA RecordWriters ==
    [Next]_vars => /\ UNCHANGED <<row, quarantine>> \/ Record
                   /\ UNCHANGED learning \/ Count
                   /\ UNCHANGED escalations \/ PutEscalation \/ ResolveEscalation
  BY SMT DEF vars, channel, record, learning, Next, Work, PlanSession, SendSession, MarkDelivered,
         NextDay, ResolveEscalation, Send, Take, Pass, Blocked, NotAnAnswer, OpenJournal,
         RaiseAwaiting, Grade, Record, Count, Advance, Decide, NothingToDecide, Adapt, Compose,
         PutEscalation, Complete, Deliver, Prepare, Finish, Crash

LEMMA UnderWayIs ==
    ASSUME Shape, UnderWay, pc \in AfterGrade \cup {"grade"}
    PROVE  /\ at \in Msg /\ journal[at] \in Journal /\ ~journal[at].complete
           /\ Answered \in Question /\ Practised \in Competency
  BY JournaledIs, AnswersAssumption DEF UnderWay, Shape, PlaceShape, AfterGrade, Journal,
     Answered, Practised

LEMMA SessionShapeStep == Shape /\ UnderWay /\ [Next]_vars => SessionShape'
<1> SUFFICES ASSUME Shape, UnderWay, [Next]_vars PROVE SessionShape'
  OBVIOUS
<1> USE DEF Shape, SessionShape, Early, At
<1>1. CASE UNCHANGED session
  BY <1>1
<1>2. CASE PlanSession
  BY <1>2 DEF PlanSession, PlaceShape
<1>3. CASE MarkDelivered
  BY <1>3 DEF MarkDelivered, PlaceShape
<1>4. CASE Advance
  <2>1. Answered \in Question
    BY <1>4, UnderWayIs DEF Advance, AfterGrade
  <2>2. /\ Answered[1] \in Day
        /\ After(Answered)[2] \in 1..Length[Answered[1]]
    BY <2>1, QuestionIs, AfterIs
  <2>3. Length[Answered[1]] \in Nat
    BY <2>2, AnswersAssumption
  <2> HIDE DEF Shape
  <2> QED
    BY <1>4, <2>2, <2>3 DEF Advance, Shape
<1> QED
  BY <1>1, <1>2, <1>3, <1>4, SessionWriters

(***************************************************************************)
(* What a journal record keeps and what is written of it, action by action.*)
(***************************************************************************)
Begun(q) ==
    [question |-> q, grade |-> "none", decision |-> "none", complete |-> FALSE,
     escalation |-> NoEscalation]

LEMMA OpenJournalDoes ==
    ASSUME Shape, OpenJournal
    PROVE  /\ at \in Msg /\ Incomplete = {}
           /\ Current(today) \in Question /\ Current(today)[1] = today
           /\ Current(today)[2] = session[today].index
           /\ session[today].status \in {"delivered", "in_progress"}
           /\ journal' = [journal EXCEPT ![at] = Begun(Current(today))]
           /\ Begun(Current(today)) \in Journal
<1>1. at \in Msg /\ today \in Day /\ session[today].index \in 1..Length[today]
  BY DEF OpenJournal, At, Shape, PlaceShape, SessionShape
<1>2. Current(today) \in Question
  BY <1>1, QuestionIs DEF Current
<1> QED
  BY <1>1, <1>2 DEF OpenJournal, Refused, Begun, Active, Current, Journal

LEMMA JournalChange ==
    ASSUME Shape, UnderWay, [Next]_vars, ~UNCHANGED journal, ~OpenJournal
    PROVE  /\ at \in Msg /\ journal[at] \in Journal /\ ~journal[at].complete
           /\ \/ /\ Grade
                 /\ \E v \in Verdict :
                      journal' = [journal EXCEPT ![at].grade = Kept(@, v)]
              \/ /\ Decide
                 /\ \E d \in Decision :
                      journal' = [journal EXCEPT ![at].decision = Kept(@, d)]
              \/ /\ Compose
                 /\ journal' = [journal EXCEPT ![at].escalation =
                                  IF @ = NoEscalation THEN Composed ELSE @]
              \/ /\ Complete
                 /\ journal' = [journal EXCEPT ![at].complete = TRUE]
<1>1. Grade \/ Decide \/ Compose \/ Complete
  BY JournalWriters
<1>2. at \in Msg /\ journal[at] \in Journal /\ ~journal[at].complete
  BY <1>1, UnderWayIs DEF Grade, Decide, Compose, Complete, At, AfterGrade
<1>3. ASSUME NEW a PROVE LeftBehind(a) \in Decision
  BY DEF LeftBehind, Decision
<1> QED
  BY <1>1, <1>2, <1>3 DEF Grade, Decide, Compose, Complete

\* A journal record that is there stays, and so does what was written in it.
LEMMA JournalIsKept ==
    ASSUME Shape, UnderWay, [Next]_vars, NEW m \in Msg, Journaled(m)
    PROVE  /\ Journaled(m)' /\ journal'[m].question = journal[m].question
           /\ journal[m].grade # "none" => journal'[m].grade = journal[m].grade
           /\ journal[m].decision # "none" => journal'[m].decision = journal[m].decision
           /\ journal[m].escalation # NoEscalation
                => journal'[m].escalation = journal[m].escalation
           /\ journal[m].complete => journal'[m].complete
<1>1. journal[m] \in Journal /\ journal[m].question # NoQuestion
  BY JournaledIs, QuestionIs DEF Journal
<1>2. CASE UNCHANGED journal
  BY <1>2 DEF Journaled
<1>3. CASE OpenJournal /\ ~UNCHANGED journal
  <2>1. m # at /\ journal' = [journal EXCEPT ![at] = Begun(Current(today))]
    BY <1>3, OpenJournalDoes DEF UnderWay, OpenJournal, At
  <2> QED
    BY <1>1, <2>1 DEF Journaled, Shape, JournalShape
<1>4. CASE ~OpenJournal /\ ~UNCHANGED journal
  BY <1>1, <1>4, JournalChange DEF Journaled, Shape, JournalShape, Kept,
     Journal, NoJournal
<1> QED
  BY <1>2, <1>3, <1>4

LEMMA NewIdIs ==
    ASSUME OneId, EscalationsAreJournaled
    PROVE  \E n \in Nat : Ids = 1..n /\ NewId = n + 1
<1>1. PICK n \in Nat : Ids = 1..n
  BY DEF OneId
<1>2. {e.id : e \in escalations} \subseteq Ids
  BY DEF EscalationsAreJournaled, Ids
<1>3. {journal[m].escalation.id :
         m \in {k \in Msg : Journaled(k) /\ journal[k].escalation # NoEscalation}} = Ids
  BY DEF Ids, Escalated
<1>4. {e.id : e \in escalations} \cup Ids = 1..n
  BY <1>1, <1>2
<1>5. Cardinality(1..n) = n
  BY FS_Interval
<1>6. NewId = 1 + n
  BY <1>3, <1>4, <1>5 DEF NewId
<1> QED
  BY <1>1, <1>6

LEMMA ComposedIs ==
    ASSUME IInv, Compose
    PROVE  /\ journal[at].decision \in Escalating /\ at \in Msg
           /\ Composed.of = at /\ Composed.kind = journal[at].decision
           /\ Composed.id = NewId /\ Composed # NoEscalation
           /\ Composed \in [id : Nat, of : Msg, kind : Escalating, day : Day,
                            evidence : SUBSET Question, status : {"pending"}]
<1>1. /\ at \in Msg /\ Answered \in Question
      /\ journal[at].decision \in Escalating
  BY UnderWayIs DEF IInv, SettleInv, AskInv, Compose, At, AfterGrade, DecisionInPlace
<1>2. NewId \in Nat
  BY NewIdIs DEF IInv, AskInv
<1>3. today \in Day
  BY DEF IInv, SettleInv, Shape, PlaceShape
<1>4. StruggleEvidence \in SUBSET Question
  <2>1. \A m \in Msg : row[m] # NoRow => row[m].question \in Question
    BY JournaledIs DEF IInv, SettleInv, Row
  <2> QED
    BY <1>1, <2>1 DEF StruggleEvidence
<1> DEFINE evidence == IF journal[at].decision = "escalate_struggle" THEN StruggleEvidence ELSE {}
<1>5. evidence \in SUBSET Question
  BY <1>4
<1>6. Composed = [id |-> NewId, of |-> at, kind |-> journal[at].decision, day |-> today,
                  status |-> "pending", evidence |-> evidence]
  BY DEF Composed
<1> HIDE DEF evidence
<1> QED
  BY <1>1, <1>2, <1>3, <1>5, <1>6 DEF NoEscalation

LEMMA JournalShapeStep == IInv /\ [Next]_vars => JournalShape'
<1> SUFFICES ASSUME IInv, [Next]_vars PROVE JournalShape'
  OBVIOUS
<1>1. Shape /\ UnderWay /\ JournalShape
  BY DEF IInv, SettleInv, Shape
<1>2. CASE UNCHANGED journal
  BY <1>1, <1>2 DEF JournalShape
<1>3. CASE OpenJournal
  BY <1>1, <1>3, OpenJournalDoes DEF JournalShape
<1>4. CASE ~UNCHANGED journal /\ ~OpenJournal
  <2>1. CASE Grade
    <3>1. PICK v \in Verdict : journal' = [journal EXCEPT ![at].grade = Kept(@, v)]
      BY <2>1 DEF Grade
    <3> QED
      BY <1>1, <1>4, <3>1, JournalChange DEF JournalShape, Journal, Kept
  <2>2. CASE Decide
    <3>1. PICK d \in Decision : journal' = [journal EXCEPT ![at].decision = Kept(@, d)]
      BY <2>2 DEF Decide, LeftBehind, Decision
    <3> QED
      BY <1>1, <1>4, <3>1, JournalChange DEF JournalShape, Journal, Kept
  <2>3. CASE Compose
    BY <1>1, <1>4, <2>3, JournalChange, ComposedIs DEF Compose, JournalShape, Journal
  <2>4. CASE Complete
    BY <1>1, <1>4, <2>4, JournalChange DEF Complete, JournalShape, Journal
  <2> QED
    BY <1>1, <1>4, <2>1, <2>2, <2>3, <2>4, JournalChange
<1> QED
  BY <1>2, <1>3, <1>4

LEMMA RecordShapeStep == IInv /\ [Next]_vars => RecordShape'
<1> SUFFICES ASSUME IInv, [Next]_vars PROVE RecordShape'
  OBVIOUS
<1>1. Shape /\ UnderWay /\ RecordShape /\ InPlace
  BY DEF IInv, SettleInv, Shape
<1>2. row' \in [Msg -> Row \cup {NoRow}]
  <2>1. CASE Record
    <3>1. at \in Msg /\ Answered \in Question /\ journal[at].grade \in Verdict
      BY <1>1, <2>1, UnderWayIs DEF Record, At, AfterGrade, InPlace, Journal
    <3> QED
      BY <1>1, <2>1, <3>1 DEF Record, RecordShape, Row
  <2> QED
    BY <1>1, <2>1, RecordWriters DEF RecordShape
<1>3. /\ counted' \in [Question -> Verdict \cup {"none"}]
      /\ mastery' \in [Competency -> Mastery]
  <2>1. CASE Count
    <3>1. /\ at \in Msg /\ Answered \in Question /\ journal[at].grade \in Verdict
          /\ CompetencyOf[Answered] \in Competency
      BY <1>1, <2>1, UnderWayIs DEF Count, At, AfterGrade, InPlace, Journal, Practised
    <3>2. UpdateMastery(mastery[CompetencyOf[Answered]], journal[at].grade = "right") \in Mastery
      BY <1>1, <3>1, UpdateMasteryIs DEF RecordShape
    <3> QED
      BY <1>1, <2>1, <3>1, <3>2 DEF Count, RecordShape, learning
  <2> QED
    BY <1>1, <2>1, RecordWriters DEF RecordShape, learning
<1>4. escalations' \subseteq Escalation
  <2>1. CASE PutEscalation
    <3>1. journal[at].escalation \in Escalation
      BY <2>1, UnderWayIs DEF IInv, SettleInv, AskInv, DecisionInPlace, PutEscalation, At,
         AfterGrade, Journal, Escalation
    <3> QED
      BY <1>1, <2>1, <3>1 DEF PutEscalation, RecordShape
  <2>2. CASE ResolveEscalation
    <3>1. PICK e \in escalations :
            escalations' = (escalations \ {e}) \cup {[e EXCEPT !.status = "resolved"]}
      BY <2>2 DEF ResolveEscalation, Triages
    <3> QED
      BY <1>1, <3>1 DEF RecordShape, Escalation
  <2> QED
    BY <1>1, <2>1, <2>2, RecordWriters DEF RecordShape
<1> QED
  BY <1>2, <1>3, <1>4 DEF RecordShape

LEMMA PlaceShapeStep == PlaceShape /\ [Next]_vars => PlaceShape'
<1> SUFFICES ASSUME PlaceShape, [Next]_vars PROVE PlaceShape'
  OBVIOUS
<1> USE AnswersAssumption
       DEF PlaceShape, Places, At, Day, channel, record, learning
<1>1. ASSUME PlanSession PROVE PlaceShape'
  BY <1>1 DEF PlanSession
<1>2. ASSUME SendSession PROVE PlaceShape'
  BY <1>2 DEF SendSession
<1>3. ASSUME MarkDelivered PROVE PlaceShape'
  BY <1>3 DEF MarkDelivered
<1>4. ASSUME NextDay PROVE PlaceShape'
  BY <1>4 DEF NextDay
<1>5. ASSUME ResolveEscalation PROVE PlaceShape'
  BY <1>5 DEF ResolveEscalation, Triages
<1>6. ASSUME NEW m \in Msg, Send(m) PROVE PlaceShape'
  BY <1>6 DEF Send
<1>7. ASSUME NEW m \in Msg, Take(m) PROVE PlaceShape'
  BY <1>7 DEF Take, Resume
<1>8. ASSUME Pass \/ Blocked \/ NotAnAnswer PROVE PlaceShape'
  BY <1>8 DEF Pass, Blocked, NotAnAnswer, Goto
<1>9. ASSUME OpenJournal PROVE PlaceShape'
  BY <1>9 DEF OpenJournal, Goto, Meets, Current, Active
<1>10. ASSUME RaiseAwaiting PROVE PlaceShape'
  BY <1>10 DEF RaiseAwaiting, Idle
<1>11. ASSUME Grade PROVE PlaceShape'
  BY <1>11 DEF Grade, Goto, Kept
<1>12. ASSUME Record PROVE PlaceShape'
  BY <1>12 DEF Record, Goto
<1>13. ASSUME Count PROVE PlaceShape'
  BY <1>13 DEF Count, Goto
<1>14. ASSUME Advance PROVE PlaceShape'
  BY <1>14 DEF Advance, Goto, After, Last
<1>15. ASSUME Decide PROVE PlaceShape'
  BY <1>15 DEF Decide, Goto, Kept, LeftBehind
<1>16. ASSUME NothingToDecide PROVE PlaceShape'
  BY <1>16 DEF NothingToDecide, Goto
<1>17. ASSUME Adapt PROVE PlaceShape'
  BY <1>17 DEF Adapt, Goto
<1>18. ASSUME Compose PROVE PlaceShape'
  BY <1>18 DEF Compose, Goto
<1>19. ASSUME PutEscalation PROVE PlaceShape'
  BY <1>19 DEF PutEscalation, Goto
<1>20. ASSUME Complete PROVE PlaceShape'
  BY <1>20 DEF Complete, Goto
<1>21. ASSUME Deliver PROVE PlaceShape'
  BY <1>21 DEF Deliver, Goto
<1>22. ASSUME Prepare PROVE PlaceShape'
  BY <1>22 DEF Prepare, Goto
<1>23. ASSUME Finish PROVE PlaceShape'
  BY <1>23 DEF Finish, Idle
<1>24. ASSUME Crash PROVE PlaceShape'
  BY <1>24 DEF Crash, Idle
<1>25. CASE UNCHANGED vars
  BY <1>25 DEF vars
<1> QED
  BY <1>1, <1>2, <1>3, <1>4, <1>5, <1>6, <1>7, <1>8, <1>9, <1>10, <1>11, <1>12,
     <1>13, <1>14, <1>15, <1>16, <1>17, <1>18, <1>19, <1>20, <1>21, <1>22, <1>23, <1>24,
     <1>25 DEF Next, Work

LEMMA UnderWayStep == Shape /\ UnderWay /\ [Next]_vars => UnderWay'
<1> SUFFICES ASSUME Shape /\ UnderWay, [Next]_vars PROVE UnderWay'
  OBVIOUS
<1> USE JournaledIs, OpenJournalDoes, JournalChange
       DEF UnderWay, At, AfterGrade, channel, record, learning
<1>1. ASSUME PlanSession PROVE UnderWay'
  BY <1>1 DEF PlanSession, Journaled
<1>2. ASSUME SendSession PROVE UnderWay'
  BY <1>2 DEF SendSession, Journaled
<1>3. ASSUME MarkDelivered PROVE UnderWay'
  BY <1>3 DEF MarkDelivered, Journaled
<1>4. ASSUME NextDay PROVE UnderWay'
  BY <1>4 DEF NextDay, Journaled
<1>5. ASSUME ResolveEscalation PROVE UnderWay'
  BY <1>5 DEF ResolveEscalation, Triages, Journaled
<1>6. ASSUME NEW m \in Msg, Send(m) PROVE UnderWay'
  BY <1>6 DEF Send, Journaled
<1>7. ASSUME NEW m \in Msg, Take(m) PROVE UnderWay'
  BY <1>7 DEF Take, Resume, Journaled
<1>8. ASSUME Pass \/ Blocked \/ NotAnAnswer PROVE UnderWay'
  BY <1>8 DEF Pass, Blocked, NotAnAnswer, Goto, Journaled
<1>9. ASSUME OpenJournal PROVE UnderWay'
  BY <1>9 DEF OpenJournal, Goto, Meets, Current, Active, Shape, JournalShape, Begun,
     Journaled, NoJournal
<1>10. ASSUME RaiseAwaiting PROVE UnderWay'
  BY <1>10 DEF RaiseAwaiting, Idle
<1>11. ASSUME Grade PROVE UnderWay'
  BY <1>11 DEF Grade, Goto, Kept, Shape, Journal, JournalShape, NoJournal, Journaled
<1>12. ASSUME Record PROVE UnderWay'
  BY <1>12 DEF Record, Goto, Journaled
<1>13. ASSUME Count PROVE UnderWay'
  BY <1>13 DEF Count, Goto, Journaled
<1>14. ASSUME Advance PROVE UnderWay'
  BY <1>14 DEF Advance, Goto, After, Last, Journaled
<1>15. ASSUME Decide PROVE UnderWay'
  BY <1>15 DEF Decide, Goto, Kept, LeftBehind, Shape, Journal, JournalShape, NoJournal,
     Journaled
<1>16. ASSUME NothingToDecide PROVE UnderWay'
  BY <1>16 DEF NothingToDecide, Goto, Journaled
<1>17. ASSUME Adapt PROVE UnderWay'
  BY <1>17 DEF Adapt, Goto, Journaled
<1>18. ASSUME Compose PROVE UnderWay'
  BY <1>18 DEF Compose, Goto, Shape, Journal, JournalShape, NoJournal, Journaled
<1>19. ASSUME PutEscalation PROVE UnderWay'
  BY <1>19 DEF PutEscalation, Goto, Journaled
<1>20. ASSUME Complete PROVE UnderWay'
  BY <1>20 DEF Complete, Goto
<1>21. ASSUME Deliver PROVE UnderWay'
  BY <1>21 DEF Deliver, Goto
<1>22. ASSUME Prepare PROVE UnderWay'
  BY <1>22 DEF Prepare, Goto
<1>23. ASSUME Finish PROVE UnderWay'
  BY <1>23 DEF Finish, Idle
<1>24. ASSUME Crash PROVE UnderWay'
  BY <1>24 DEF Crash, Idle
<1>25. CASE UNCHANGED vars
  BY <1>25 DEF vars, Journaled
<1> QED
  BY <1>1, <1>2, <1>3, <1>4, <1>5, <1>6, <1>7, <1>8, <1>9, <1>10, <1>11, <1>12,
     <1>13, <1>14, <1>15, <1>16, <1>17, <1>18, <1>19, <1>20, <1>21, <1>22, <1>23, <1>24,
     <1>25 DEF Next, Work

-----------------------------------------------------------------------------
(***************************************************************************)
(* One message is under way, and answers the question the session is at.   *)
(***************************************************************************)
LEMMA JournalGrows ==
    ASSUME Shape, UnderWay, [Next]_vars, NEW m \in Msg, ~Journaled(m), Journaled(m)'
    PROVE  /\ OpenJournal /\ m = at /\ Incomplete = {}
           /\ journal'[m] = Begun(Current(today))
<1>1. CASE OpenJournal
  BY <1>1, OpenJournalDoes DEF Journaled, Shape, JournalShape
<1>2. CASE ~OpenJournal
  BY <1>2, JournalChange, JournaledIs DEF Journaled, Shape, JournalShape, Kept, Journal
<1> QED
  BY <1>1, <1>2

LEMMA JournalMoves ==
    ASSUME Shape, UnderWay, [Next]_vars, NEW m \in Msg, Journaled(m)
    PROVE  /\ journal'[m].grade # journal[m].grade => Grade /\ m = at
           /\ journal'[m].decision # journal[m].decision => Decide /\ m = at
           /\ journal'[m].escalation # journal[m].escalation => Compose /\ m = at
           /\ journal'[m].complete # journal[m].complete => Complete /\ m = at
<1>1. journal[m] \in Journal
  BY JournaledIs
<1>2. CASE UNCHANGED journal
  BY <1>2
<1>3. CASE OpenJournal
  <2>1. m # at /\ journal' = [journal EXCEPT ![at] = Begun(Current(today))]
    BY <1>3, OpenJournalDoes DEF UnderWay, OpenJournal, At
  <2> QED
    BY <1>1, <2>1 DEF Shape, JournalShape
<1>4. CASE ~OpenJournal /\ ~UNCHANGED journal
  BY <1>1, <1>4, JournalChange DEF Shape, JournalShape, Kept, Journal
<1> QED
  BY <1>2, <1>3, <1>4

LEMMA OneUnderWayStep ==
    Shape /\ UnderWay /\ OneUnderWay /\ [Next]_vars => OneUnderWay'
<1> SUFFICES ASSUME Shape, UnderWay, OneUnderWay, [Next]_vars,
                    NEW m \in Msg, NEW n \in Msg,
                    Journaled(m)', ~journal'[m].complete, Journaled(n)', ~journal'[n].complete
             PROVE  m = n
  BY DEF OneUnderWay, Incomplete
<1>1. CASE Journaled(m) /\ Journaled(n)
  BY <1>1, JournalIsKept DEF OneUnderWay, Incomplete
<1>2. CASE ~Journaled(m)
  BY <1>2, JournalGrows, JournalIsKept DEF Incomplete
<1>3. CASE ~Journaled(n)
  BY <1>3, JournalGrows, JournalIsKept DEF Incomplete
<1> QED
  BY <1>1, <1>2, <1>3

LEMMA DoneIs ==
    ASSUME Shape, NEW d \in Day
    PROVE  /\ DoneIn(session, d) \in 0..Length[d] /\ Length[d] \in Nat
           /\ Active(d) => DoneIn(session, d) + 1 = session[d].index
  BY AnswersAssumption DEF DoneIn, Shape, SessionShape, Active

LEMMA OneAnswerStep ==
    Shape /\ UnderWay /\ Close /\ OneAnswer /\ [Next]_vars => OneAnswer'
<1> SUFFICES ASSUME Shape, UnderWay, Close, OneAnswer, [Next]_vars,
                    NEW m \in Msg, NEW n \in Msg, Journaled(m)', Journaled(n)',
                    journal'[m].question = journal'[n].question
             PROVE  m = n
  BY DEF OneAnswer
<1>1. ASSUME NEW x \in Msg, NEW y \in Msg, ~Journaled(x), Journaled(x)', Journaled(y)
      PROVE  journal'[x].question # journal'[y].question
  <2>1. /\ OpenJournal /\ journal[y].complete
        /\ journal'[x].question = Current(today)
    BY <1>1, JournalGrows DEF Begun, Incomplete
  <2>2. /\ today \in Day /\ Current(today)[1] = today
        /\ Current(today)[2] = DoneIn(session, today) + 1 /\ DoneIn(session, today) \in Nat
    BY <2>1, OpenJournalDoes, DoneIs DEF Shape, PlaceShape, Active
  <2>3. Left(journal[y].question) /\ journal'[y].question = journal[y].question
    BY <1>1, <2>1, JournalIsKept DEF Close
  <2> QED
    BY <2>1, <2>2, <2>3 DEF Left
<1>2. CASE Journaled(m) /\ Journaled(n)
  BY <1>2, JournalIsKept DEF OneAnswer
<1> QED
  BY <1>1, <1>2, JournalGrows

(***************************************************************************)
(* The session moves past the answered question, and never otherwise.      *)
(***************************************************************************)
LEMMA LeftStep ==
    ASSUME Shape, UnderWay, Close, [Next]_vars, NEW q \in Question
    PROVE  Left(q)' <=> Left(q) \/ (Advance /\ q = Answered)
<1>1. /\ q[1] \in Day /\ q[2] \in 1..Length[q[1]] /\ q = <<q[1], q[2]>>
      /\ DoneIn(session, q[1]) \in 0..Length[q[1]] /\ Length[q[1]] \in Nat
  BY QuestionIs, DoneIs
<1>2. CASE UNCHANGED session /\ ~Advance
  BY <1>2 DEF Left, DoneIn
<1>3. CASE PlanSession \/ MarkDelivered
  <2>1. today \in Day /\ session[today].index = 1
    BY <1>3 DEF PlanSession, MarkDelivered, Shape, SessionShape, PlaceShape, Early
  <2>2. DoneIn(session', q[1]) = DoneIn(session, q[1]) /\ ~Advance
    BY <1>1, <1>3, <2>1 DEF PlanSession, MarkDelivered, Shape, SessionShape, DoneIn, Advance, At
  <2> QED
    BY <2>2 DEF Left
<1>4. CASE Advance
  <2>1. /\ at \in Msg /\ Journaled(at) /\ ~journal[at].complete /\ Answered \in Question
    BY <1>4, UnderWayIs DEF Advance, At, AfterGrade, UnderWay
  <2>2. /\ Answered[1] \in Day /\ Answered[2] \in 1..Length[Answered[1]]
        /\ Answered = <<Answered[1], Answered[2]>>
        /\ Length[Answered[1]] \in Nat
    BY <2>1, QuestionIs, AnswersAssumption
  <2>3. Answered[2] \in {DoneIn(session, Answered[1]), DoneIn(session, Answered[1]) + 1}
    BY <2>1 DEF Close, Answered
  <2>4. DoneIn(session', Answered[1]) = Answered[2]
    <3>1. session'[Answered[1]] =
            [index |-> After(Answered)[2],
             status |-> IF Last(Answered) THEN "completed" ELSE "in_progress"]
      BY <1>4, <2>2 DEF Advance, Shape, SessionShape
    <3> QED
      BY <2>2, <3>1 DEF DoneIn, After, Last
  <2>5. q[1] # Answered[1] => DoneIn(session', q[1]) = DoneIn(session, q[1])
    BY <1>1, <1>4 DEF Advance, Shape, SessionShape, DoneIn
  <2> QED
    BY <1>1, <1>4, <2>2, <2>3, <2>4, <2>5 DEF Left
<1> QED
  BY <1>2, <1>3, <1>4, SessionWriters

LEMMA CloseStep ==
    Shape /\ UnderWay /\ OneUnderWay /\ InPlace /\ Close /\ [Next]_vars => Close'
<1> SUFFICES ASSUME Shape, UnderWay, OneUnderWay, InPlace, Close, [Next]_vars,
                    NEW m \in Msg, Journaled(m)'
             PROVE  LET q == journal'[m].question
                    IN  IF journal'[m].complete THEN q[2] <= DoneIn(session', q[1])
                        ELSE q[2] \in {DoneIn(session', q[1]), DoneIn(session', q[1]) + 1}
  BY DEF Close, Left
<1>1. CASE ~Journaled(m)
  <2>1. /\ OpenJournal /\ journal'[m] = Begun(Current(today))
    BY <1>1, JournalGrows
  <2>2. /\ today \in Day /\ Current(today) = <<today, DoneIn(session, today) + 1>>
    BY <2>1, OpenJournalDoes, DoneIs DEF Shape, PlaceShape, Active, Current
  <2>3. DoneIn(session', today) = DoneIn(session, today)
    BY <2>1 DEF OpenJournal, DoneIn
  <2> QED
    BY <2>1, <2>2, <2>3 DEF Begun
<1>2. CASE Journaled(m)
  <2> DEFINE q == journal[m].question
  <2>1. /\ q \in Question /\ journal'[m].question = q
        /\ q[1] \in Day /\ DoneIn(session, q[1]) \in Nat /\ q[2] \in Nat
    BY <1>2, JournaledIs, JournalIsKept, QuestionIs, DoneIs, AnswersAssumption DEF Journal
  <2>2. q[2] <= DoneIn(session', q[1]) <=> Left(q) \/ (Advance /\ q = Answered)
    <3>1. PICK p \in Question : p = q
      BY <2>1
    <3> QED
      BY <3>1, LeftStep DEF Left
  <2>3. CASE journal'[m].complete
    <3>1. journal[m].complete \/ (Complete /\ m = at)
      BY <1>2, <2>3, JournalMoves
    <3>2. Left(q)
      BY <1>2, <3>1 DEF Close, Complete, InPlace, At, AfterGrade, AfterRecord, AfterCount,
         AfterAdvance
    <3> QED
      BY <2>1, <2>2, <2>3, <3>2
  <2>4. CASE ~journal'[m].complete
    <3>1. ~journal[m].complete /\ q[2] \in {DoneIn(session, q[1]), DoneIn(session, q[1]) + 1}
      BY <1>2, <2>4, JournalIsKept DEF Close
    <3>2. CASE UNCHANGED session
      BY <2>1, <2>4, <3>1, <3>2 DEF DoneIn
    <3>3. CASE PlanSession \/ MarkDelivered
      <4>1. DoneIn(session', q[1]) = DoneIn(session, q[1])
        BY <2>1, <3>3 DEF PlanSession, MarkDelivered, Shape, SessionShape, PlaceShape,
           Early, DoneIn
      <4> QED
        BY <2>1, <2>4, <3>1, <4>1
    <3>4. CASE Advance
      <4>1. m = at
        BY <1>2, <3>1, <3>4, UnderWayIs DEF OneUnderWay, Incomplete, UnderWay, Advance,
           At, AfterGrade
      <4>2. DoneIn(session', q[1]) = q[2]
        <5>1. session'[q[1]] = [index |-> After(q)[2],
                                status |-> IF Last(q) THEN "completed" ELSE "in_progress"]
          BY <2>1, <3>4, <4>1 DEF Advance, Shape, SessionShape, Answered
        <5> QED
          BY <2>1, <5>1, AnswersAssumption DEF DoneIn, After, Last
      <4> QED
        BY <2>1, <2>4, <4>2
    <3> QED
      BY <3>2, <3>3, <3>4, SessionWriters
  <2> QED
    BY <2>3, <2>4
<1> QED
  BY <1>1, <1>2


-----------------------------------------------------------------------------
(***************************************************************************)
(* What was recorded and counted of a question stays as it is.             *)
(***************************************************************************)
LEMMA RecordedIsKept ==
    ASSUME Shape, UnderWay, [Next]_vars, NEW m \in Msg, Journaled(m), Recorded(m)
    PROVE  Recorded(m)'
<1>1. /\ journal'[m].question = journal[m].question
      /\ journal'[m].grade = journal[m].grade
  BY JournalIsKept DEF Recorded
<1>2. CASE UNCHANGED <<row, quarantine>>
  BY <1>1, <1>2 DEF Recorded
<1>3. CASE Record
  BY <1>1, <1>3 DEF Recorded, Record, Shape, RecordShape, Answered
<1> QED
  BY <1>2, <1>3, RecordWriters

LEMMA SettledIsKept ==
    ASSUME Shape, UnderWay, OneAnswer, [Next]_vars, NEW m \in Msg, Journaled(m), Settled(m)
    PROVE  Settled(m)'
<1>1. /\ Recorded(m)' /\ journal[m].question \in Question
      /\ journal'[m].question = journal[m].question
      /\ journal'[m].grade = journal[m].grade
  BY RecordedIsKept, JournalIsKept, JournaledIs DEF Settled, Recorded, Journal
<1>2. CASE UNCHANGED learning
  BY <1>1, <1>2 DEF Settled, learning
<1>3. CASE Count
  <2>1. Answered = journal[m].question => m = at
    BY <1>3, UnderWayIs DEF Count, At, AfterGrade, UnderWay, OneAnswer, Answered
  <2>2. counted'[journal[m].question] = counted[journal[m].question]
    BY <1>1, <1>3, <2>1 DEF Count, Settled, learning, Shape, RecordShape
  <2> QED
    BY <1>1, <2>2 DEF Settled
<1> QED
  BY <1>2, <1>3, RecordWriters

LEMMA RowsStep ==
    Shape /\ UnderWay /\ InPlace /\ RowsAreJournaled /\ [Next]_vars => RowsAreJournaled'
<1> SUFFICES ASSUME Shape, UnderWay, InPlace, RowsAreJournaled, [Next]_vars,
                    NEW m \in Msg, row'[m] # NoRow
             PROVE  Journaled(m)' /\ Recorded(m)'
  BY DEF RowsAreJournaled
<1>1. CASE row[m] # NoRow
  BY <1>1, RecordedIsKept, JournalIsKept DEF RowsAreJournaled
<1>2. CASE row[m] = NoRow
  <2>1. Record /\ m = at
    BY <1>2, RecordWriters DEF Record, Shape, RecordShape
  <2>2. Journaled(m) /\ journal[m].grade # "none"
    BY <2>1, UnderWayIs DEF Record, At, AfterGrade, UnderWay, InPlace
  <2> QED
    BY <2>1, <2>2 DEF Record, Recorded, Journaled, Shape, RecordShape, Answered
<1> QED
  BY <1>1, <1>2

LEMMA CountedStep ==
    Shape /\ UnderWay /\ InPlace /\ CountedIsRecorded /\ [Next]_vars => CountedIsRecorded'
<1> SUFFICES ASSUME Shape, UnderWay, InPlace, CountedIsRecorded, [Next]_vars,
                    NEW q \in Question, counted'[q] # "none"
             PROVE  \E m \in Msg : /\ Journaled(m)' /\ journal'[m].question = q
                                   /\ Recorded(m)'
                                   /\ journal'[m].grade = counted'[q] /\ counted'[q] # "held"
  BY DEF CountedIsRecorded
<1>1. CASE counted'[q] = counted[q]
  <2>1. PICK m \in Msg : /\ Journaled(m) /\ journal[m].question = q /\ Recorded(m)
                         /\ journal[m].grade = counted[q] /\ counted[q] # "held"
    BY <1>1 DEF CountedIsRecorded
  <2> QED
    BY <1>1, <2>1, RecordedIsKept, JournalIsKept
<1>2. CASE counted'[q] # counted[q]
  <2>1. Count
    BY <1>2, RecordWriters DEF learning
  <2>2. /\ at \in Msg /\ Journaled(at) /\ Recorded(at)
        /\ Answered \in Question
    BY <2>1, UnderWayIs DEF Count, At, AfterGrade, AfterRecord, UnderWay, InPlace
  <2>3. /\ q = Answered /\ counted'[q] = journal[at].grade /\ journal[at].grade # "held"
    BY <1>2, <2>1, <2>2 DEF Count, learning, Shape, RecordShape
  <2> QED
    BY <2>1, <2>2, <2>3, RecordedIsKept, JournalIsKept DEF Recorded, Answered
<1> QED
  BY <1>1, <1>2

LEMMA LeftIsSettledStep ==
    /\ Shape /\ UnderWay /\ Close /\ OneAnswer /\ InPlace /\ LeftIsSettled
    /\ [Next]_vars
    => LeftIsSettled'
<1> SUFFICES ASSUME Shape, UnderWay, Close, OneAnswer, InPlace, LeftIsSettled, [Next]_vars,
                    NEW q \in Question, Left(q)'
             PROVE  \E m \in Msg : /\ Journaled(m)' /\ journal'[m].question = q
                                   /\ Settled(m)'
  BY DEF LeftIsSettled
<1>1. \E m \in Msg : Journaled(m) /\ journal[m].question = q /\ Settled(m)
  <2>1. CASE Left(q)
    BY <2>1 DEF LeftIsSettled
  <2>2. CASE Advance /\ q = Answered
    BY <2>2, UnderWayIs DEF Advance, At, AfterGrade, AfterRecord, AfterCount, UnderWay, InPlace,
       Answered
  <2> QED
    BY <2>1, <2>2, LeftStep
<1> QED
  BY <1>1, SettledIsKept, JournalIsKept


\* What holds of the message at work is kept as long as it is.
LEMMA InPlaceIsKept ==
    ASSUME SettleInv, [Next]_vars, at' = at, pc \in AfterGrade
    PROVE  /\ journal'[at].grade # "none"
           /\ pc \in AfterRecord => Recorded(at)'
           /\ pc \in AfterCount => Settled(at)'
           /\ pc \in AfterAdvance =>
                journal'[at].question[2] <= DoneIn(session', journal'[at].question[1])
<1>1. PICK m \in Msg : m = at
  BY UnderWayIs DEF SettleInv
<1>2. /\ Journaled(m) /\ journal[m].question \in Question /\ journal[m].grade # "none"
      /\ journal'[m].question = journal[m].question /\ journal'[m].grade # "none"
  BY <1>1, UnderWayIs, JournalIsKept DEF SettleInv, UnderWay, InPlace, Journal, Answered
<1>3. /\ pc \in AfterRecord => Recorded(m)'
      /\ pc \in AfterCount => Settled(m)'
  BY <1>1, <1>2, RecordedIsKept, SettledIsKept DEF SettleInv, InPlace
<1>4. ASSUME pc \in AfterAdvance
      PROVE  journal[m].question[2] <= DoneIn(session', journal[m].question[1])
  <2>1. PICK q \in Question : q = journal[m].question
    BY <1>2
  <2> QED
    BY <1>1, <1>4, <2>1, LeftStep DEF SettleInv, InPlace, Left
<1> QED
  BY <1>1, <1>2, <1>3, <1>4 DEF Recorded, Settled

LEMMA CountSettles ==
    ASSUME SettleInv, Count
    PROVE  counted'[Answered] = IF journal[at].grade = "held" THEN "none" ELSE journal[at].grade
<1>1. /\ at \in Msg /\ Journaled(at) /\ Recorded(at) /\ Answered \in Question
  BY UnderWayIs DEF SettleInv, Count, At, AfterGrade, AfterRecord, UnderWay, InPlace
<1>2. CASE counted[Answered] = "none"
  BY <1>1, <1>2 DEF Count, learning, SettleInv, Shape, RecordShape
<1>3. CASE counted[Answered] # "none"
  <2>1. journal[at].grade = counted[Answered] /\ counted[Answered] # "held"
    BY <1>1, <1>3 DEF SettleInv, CountedIsRecorded, OneAnswer, Answered
  <2> QED
    BY <1>3, <2>1 DEF Count, learning
<1> QED
  BY <1>2, <1>3

LEMMA InPlaceStep == SettleInv /\ [Next]_vars => InPlace'
<1> SUFFICES ASSUME SettleInv, [Next]_vars PROVE InPlace'
  OBVIOUS
<1> USE DEF InPlace, AfterGrade, AfterRecord, AfterCount, AfterAdvance, At, channel, record
<1>1. Shape /\ UnderWay
  BY DEF SettleInv
<1>2. CASE pc' \notin AfterGrade
  BY <1>2
<1>3. CASE UNCHANGED <<pc, at>>
  BY <1>3, InPlaceIsKept DEF Settled, Left
<1>4. CASE Grade
  <2>1. journal'[at].grade # "none" /\ at' = at
    BY <1>1, <1>4, UnderWayIs DEF Grade, Goto, Kept, Verdict, Journal, Shape, JournalShape
  <2> QED
    BY <1>4, <2>1 DEF Grade, Goto
<1>5. CASE Record
  <2>1. Recorded(at)' /\ at' = at /\ journal'[at].grade # "none"
    BY <1>1, <1>5, UnderWayIs DEF Record, Goto, Recorded, Shape, RecordShape, Answered, SettleInv
  <2> QED
    BY <1>5, <2>1 DEF Record, Goto
<1>6. CASE Count
  <2>1. Recorded(at) /\ at' = at /\ UNCHANGED <<journal, row, quarantine>>
    BY <1>6 DEF Count, Goto, SettleInv
  <2> QED
    BY <1>6, <2>1, CountSettles DEF Count, Goto, Settled, Recorded, Answered
<1>7. CASE Advance
  <2>1. /\ Settled(at) /\ at' = at /\ Answered \in Question
        /\ UNCHANGED <<journal, row, quarantine, counted>>
    BY <1>1, <1>7, UnderWayIs DEF Advance, Goto, SettleInv, learning
  <2>2. Answered[2] <= DoneIn(session', Answered[1])
    <3>1. PICK q \in Question : q = Answered
      BY <2>1
    <3> QED
      BY <1>7, <3>1, LeftStep DEF SettleInv, Left
  <2> QED
    BY <1>7, <2>1, <2>2 DEF Advance, Goto, Settled, Recorded, Left, Answered
<1>8. CASE Decide \/ NothingToDecide \/ Adapt \/ Compose \/ PutEscalation
  <2>1. at' = at /\ pc \in AfterAdvance
    BY <1>8 DEF Decide, NothingToDecide, Adapt, Compose, PutEscalation, Goto
  <2> QED
    BY <2>1, InPlaceIsKept DEF Settled, Recorded, Left
<1>9. \/ pc' \notin AfterGrade \/ UNCHANGED <<pc, at>>
      \/ Grade \/ Record \/ Count \/ Advance
      \/ Decide \/ NothingToDecide \/ Adapt \/ Compose \/ PutEscalation
  <2> HIDE DEF InPlace, AfterRecord, AfterCount, AfterAdvance
  <2> QED
    BY SMT DEF Next, Work, vars, PlanSession, SendSession, MarkDelivered, NextDay,
       ResolveEscalation, Send, Take, Resume, Pass, Blocked, NotAnAnswer, OpenJournal, RaiseAwaiting,
       Complete, Deliver, Prepare, Finish, Crash, Goto, Idle
<1> QED
  BY <1>2, <1>3, <1>4, <1>5, <1>6, <1>7, <1>8, <1>9


LEMMA SettleStep == IInv /\ [Next]_vars => SettleInv'
<1> SUFFICES ASSUME IInv, [Next]_vars PROVE SettleInv'
  OBVIOUS
<1>1. SettleInv
  BY DEF IInv
<1>2. Shape'
  BY <1>1, SessionShapeStep, JournalShapeStep, RecordShapeStep, PlaceShapeStep
     DEF SettleInv, Shape
<1>3. UnderWay' /\ OneUnderWay' /\ OneAnswer' /\ Close'
  BY <1>1, UnderWayStep, OneUnderWayStep, OneAnswerStep, CloseStep DEF SettleInv
<1>4. RowsAreJournaled' /\ CountedIsRecorded' /\ LeftIsSettled' /\ InPlace'
  BY <1>1, RowsStep, CountedStep, LeftIsSettledStep, InPlaceStep DEF SettleInv
<1> QED
  BY <1>2, <1>3, <1>4 DEF SettleInv

-----------------------------------------------------------------------------
(***************************************************************************)
(* The decision of an answer is taken once it was counted, and after that  *)
(* nothing more of its competency is, until it is complete.                *)
(***************************************************************************)
LEMMA AttemptsGrow ==
    ASSUME SettleInv, [Next]_vars, NEW c \in Competency
    PROVE  /\ mastery[c].attempts \in Nat
           /\ mastery'[c].attempts \in Nat
           /\ mastery'[c].attempts >= mastery[c].attempts
<1>1. mastery[c] \in Mastery /\ mastery[c].attempts \in Nat
  BY DEF SettleInv, Shape, RecordShape, Mastery
<1>2. CASE UNCHANGED mastery
  BY <1>1, <1>2
<1>3. CASE Count /\ ~UNCHANGED mastery
  <2>1. Answered \in Question /\ CompetencyOf[Answered] \in Competency
    BY <1>3, UnderWayIs DEF SettleInv, Count, At, AfterGrade, Practised
  <2>2. mastery' = [mastery EXCEPT ![CompetencyOf[Answered]] =
                      UpdateMastery(@, journal[at].grade = "right")]
    BY <1>3 DEF Count, learning
  <2>3. mastery'[c] = mastery[c]
          \/ mastery'[c] = UpdateMastery(mastery[c], journal[at].grade = "right")
    BY <2>1, <2>2 DEF SettleInv, Shape, RecordShape
  <2>4. UpdateMastery(mastery[c], journal[at].grade = "right").attempts
          = mastery[c].attempts + 1
    <3> DEFINE correct == journal[at].grade = "right"
    <3>1. correct \in BOOLEAN
      OBVIOUS
    <3> HIDE DEF correct
    <3> QED
      BY <1>1, <3>1, UpdateMasteryIs
  <2> QED
    BY <1>1, <2>3, <2>4
<1> QED
  BY <1>2, <1>3, RecordWriters DEF learning

LEMMA DecisionsStep == SettleInv /\ Decisions /\ [Next]_vars => Decisions'
<1> SUFFICES ASSUME SettleInv, Decisions, [Next]_vars,
                    NEW m \in Msg, Journaled(m)', journal'[m].decision # "none"
             PROVE  /\ journal'[m].question[2] <= DoneIn(session', journal'[m].question[1])
                    /\ mastery'[CompetencyOf[journal'[m].question]].attempts > 0
  BY DEF Decisions, Left
<1>1. Journaled(m)
  BY JournalGrows DEF SettleInv, Begun
<1>2. PICK q \in Question : q = journal[m].question
  BY <1>1, JournaledIs DEF SettleInv, Journal
<1>3. Left(q) /\ mastery[CompetencyOf[q]].attempts > 0
  <2>1. CASE journal[m].decision # "none"
    BY <1>1, <1>2, <2>1 DEF Decisions
  <2>2. CASE journal[m].decision = "none"
    <3>1. Decide /\ m = at
      BY <1>1, <2>2, JournalMoves DEF SettleInv
    <3>2. Left(q)
      BY <1>2, <3>1 DEF SettleInv, InPlace, Decide, At, AfterGrade, AfterRecord, AfterCount,
         AfterAdvance
    <3>3. mastery[CompetencyOf[q]].attempts > 0
      BY <1>2, <3>1 DEF Decide, Practised, Answered
    <3> QED
      BY <3>2, <3>3
  <2> QED
    BY <2>1, <2>2
<1>4. journal'[m].question = q
  BY <1>1, <1>2, JournalIsKept DEF SettleInv
<1>5. q[2] <= DoneIn(session', q[1])
  BY <1>3, LeftStep DEF SettleInv, Left
<1>6. mastery'[CompetencyOf[q]].attempts > 0
  <2>1. CompetencyOf[q] \in Competency
    BY AnswersAssumption
  <2> QED
    BY <1>3, <2>1, AttemptsGrow
<1> QED
  BY <1>4, <1>5, <1>6

LEMMA DecidedIsCounted ==
    ASSUME SettleInv, Decisions, [Next]_vars,
           NEW m \in Incomplete, journal[m].decision # "none"
    PROVE  UNCHANGED mastery
<1>1. CASE Count
  <2>1. m = at /\ at \in Msg /\ Journaled(at) /\ Answered = journal[m].question
    BY <1>1, UnderWayIs DEF SettleInv, Count, At, AfterGrade, UnderWay, OneUnderWay, Incomplete,
       Answered
  <2>2. Left(Answered) /\ Answered \in Question
    BY <2>1, JournaledIs DEF Decisions, SettleInv, Journal
  <2>3. PICK n \in Msg : Journaled(n) /\ journal[n].question = Answered /\ Settled(n)
    BY <2>2 DEF SettleInv, LeftIsSettled
  <2>4. Settled(at)
    BY <2>1, <2>3 DEF SettleInv, OneAnswer, Answered
  <2> QED
    BY <1>1, <2>4 DEF Count, Settled, Recorded, Answered, learning
<1> QED
  BY <1>1, RecordWriters DEF learning

(***************************************************************************)
(* An escalation is composed once for a message, under an id of its own.   *)
(***************************************************************************)
LEMMA EscalatedMoves ==
    ASSUME IInv, [Next]_vars
    PROVE  \/ /\ Escalated' = Escalated
              /\ \A m \in Escalated : journal'[m].escalation = journal[m].escalation
           \/ /\ Compose /\ at \in Msg \ Escalated
              /\ Escalated' = Escalated \cup {at}
              /\ \A m \in Escalated : journal'[m].escalation = journal[m].escalation
              /\ journal'[at].escalation = Composed
<1>1. SettleInv /\ Shape /\ UnderWay
  BY DEF IInv, SettleInv
<1>2. \A m \in Escalated : m \in Escalated' /\ journal'[m].escalation = journal[m].escalation
  BY <1>1, JournalIsKept DEF Escalated
<1>3. \A m \in Escalated' : m \in Escalated \/ (Compose /\ m = at /\ m \notin Escalated)
  BY <1>1, JournalGrows, JournalMoves DEF Escalated, Begun
<1>4. ASSUME Compose, at \notin Escalated
      PROVE  /\ at \in Msg /\ at \in Escalated'
             /\ journal'[at].escalation = Composed
  <2>1. at \in Msg /\ Journaled(at) /\ journal[at] \in Journal
    BY <1>1, <1>4, UnderWayIs DEF Compose, At, AfterGrade, UnderWay
  <2>2. journal'[at].escalation = Composed /\ Composed # NoEscalation
    BY <1>1, <1>4, <2>1, ComposedIs DEF Compose, Escalated, Shape, JournalShape, Journal
  <2>3. Journaled(at)'
    <3>1. PICK m \in Msg : m = at
      BY <2>1
    <3> QED
      BY <1>1, <1>4, <2>1, <3>1, JournalIsKept DEF Journaled, Compose, Goto
  <2> QED
    BY <1>4, <2>1, <2>2, <2>3 DEF Escalated, Journaled, Compose, Goto
<1> QED
  BY <1>2, <1>3, <1>4


LEMMA EscalatedStep == IInv /\ [Next]_vars => EscalatedIsDecided'
<1> SUFFICES ASSUME IInv, [Next]_vars, NEW m \in Escalated'
             PROVE  /\ journal'[m].escalation.of = m
                    /\ journal'[m].escalation.kind = journal'[m].decision
                    /\ journal'[m].decision \in Escalating
  BY DEF EscalatedIsDecided
<1>1. SettleInv /\ Shape /\ UnderWay /\ m \in Msg
  BY DEF IInv, SettleInv, Escalated
<1>2. CASE m \in Escalated
  <2>1. journal'[m].escalation = journal[m].escalation
    BY <1>2, EscalatedMoves
  <2>2. Journaled(m) /\ journal[m].decision \in Escalating
    BY <1>2 DEF IInv, AskInv, EscalatedIsDecided, Escalated
  <2>3. journal'[m].decision = journal[m].decision
    BY <1>1, <2>2, JournalIsKept DEF Escalating
  <2> QED
    BY <1>2, <2>1, <2>2, <2>3 DEF IInv, AskInv, EscalatedIsDecided
<1>3. CASE m \notin Escalated
  <2>1. Compose /\ m = at /\ journal'[m].escalation = Composed
    BY <1>3, EscalatedMoves
  <2>2. journal'[m].decision = journal[m].decision
    BY <1>1, <2>1, UnderWayIs, JournalMoves DEF Compose, Decide, At, AfterGrade, UnderWay
  <2> QED
    BY <2>1, <2>2, ComposedIs
<1> QED
  BY <1>2, <1>3

LEMMA OneIdStep == IInv /\ [Next]_vars => OneId'
<1> SUFFICES ASSUME IInv, [Next]_vars PROVE OneId'
  OBVIOUS
<1>1. OneId /\ EscalationsAreJournaled
  BY DEF IInv, AskInv
<1>2. CASE /\ Escalated' = Escalated
           /\ \A m \in Escalated : journal'[m].escalation = journal[m].escalation
  <2>1. Ids' = Ids
    BY <1>2 DEF Ids
  <2> QED
    BY <1>1, <1>2, <2>1 DEF OneId
<1>3. CASE /\ Compose /\ at \in Msg \ Escalated
           /\ Escalated' = Escalated \cup {at}
           /\ \A m \in Escalated : journal'[m].escalation = journal[m].escalation
           /\ journal'[at].escalation = Composed
  <2>1. PICK n \in Nat : Ids = 1..n /\ NewId = n + 1
    BY <1>1, NewIdIs
  <2>2. journal'[at].escalation.id = n + 1
    BY <1>3, <2>1, ComposedIs
  <2>3. Ids' = Ids \cup {n + 1}
    BY <1>3, <2>2 DEF Ids
  <2>4. Ids' = 1..(n + 1)
    BY <2>1, <2>3
  <2>5. \A m \in Escalated : journal'[m].escalation.id \in 1..n
    BY <1>3, <2>1 DEF Ids
  <2>6. \A k, m \in Escalated' :
          journal'[k].escalation.id = journal'[m].escalation.id => k = m
    <3>1. n + 1 \notin 1..n
      OBVIOUS
    <3> QED
      BY <1>1, <1>3, <2>2, <2>5, <3>1 DEF OneId
  <2> QED
    BY <2>4, <2>6 DEF OneId
<1> QED
  BY <1>2, <1>3, EscalatedMoves

LEMMA PutIs ==
    ASSUME IInv, PutEscalation
    PROVE  /\ at \in Escalated
           /\ escalations' = {e \in escalations : e.of # at} \cup {journal[at].escalation}
           /\ journal[at].escalation.of = at
           /\ UNCHANGED journal
<1>1. at \in Msg /\ Journaled(at) /\ journal[at].escalation # NoEscalation
  BY UnderWayIs DEF IInv, SettleInv, AskInv, UnderWay, DecisionInPlace, PutEscalation, At,
     AfterGrade
<1>2. at \in Escalated /\ journal[at].escalation.of = at
  BY <1>1 DEF Escalated, IInv, AskInv, EscalatedIsDecided
<1>3. \A e \in escalations : e.id = journal[at].escalation.id <=> e.of = at
  BY <1>2 DEF IInv, AskInv, OneId, EscalationsAreJournaled
<1> QED
  BY <1>2, <1>3 DEF PutEscalation

LEMMA ResolveIs ==
    ASSUME ResolveEscalation
    PROVE  /\ UNCHANGED journal
           /\ \E e \in Triages :
                escalations' = (escalations \ {e}) \cup {[e EXCEPT !.status = "resolved"]}
  BY DEF ResolveEscalation

\* Every row is of the message and the kind that some row was of before, or
\* of the message whose escalation is put.
LEMMA EscalationsStep ==
    IInv /\ [Next]_vars => EscalationsAreJournaled' /\ OneRow'
<1> SUFFICES ASSUME IInv, [Next]_vars PROVE EscalationsAreJournaled' /\ OneRow'
  OBVIOUS
<1>1. /\ EscalationsAreJournaled /\ OneRow /\ OneId
      /\ escalations \subseteq Escalation
  BY DEF IInv, AskInv, SettleInv, Shape, RecordShape
<1>2. CASE UNCHANGED escalations
  <2>1. \A e \in escalations : /\ e.of \in Escalated'
                               /\ journal'[e.of].escalation = journal[e.of].escalation
    BY <1>1, EscalatedMoves DEF EscalationsAreJournaled
  <2> QED
    BY <1>1, <1>2, <2>1 DEF EscalationsAreJournaled, OneRow
<1>3. CASE PutEscalation
  <2>1. Escalated' = Escalated
    BY <1>3, PutIs DEF Escalated, Journaled
  <2>2. \A e \in escalations' : \/ e \in escalations /\ e.of # at
                                \/ e = journal[at].escalation
    BY <1>3, PutIs
  <2>3. EscalationsAreJournaled'
    BY <1>1, <1>3, <2>1, <2>2, PutIs DEF EscalationsAreJournaled
  <2>4. ASSUME NEW e \in escalations', NEW f \in escalations', e.id = f.id PROVE e = f
    <3>1. e.of \in Escalated /\ f.of \in Escalated /\ e.of = f.of
      BY <1>1, <1>3, <2>2, <2>4, PutIs DEF EscalationsAreJournaled, OneId
    <3> QED
      BY <1>1, <1>3, <2>2, <2>4, <3>1, PutIs DEF OneRow
  <2> QED
    BY <2>3, <2>4 DEF OneRow
<1>4. CASE ResolveEscalation
  <2>1. PICK e \in escalations :
          escalations' = (escalations \ {e}) \cup {[e EXCEPT !.status = "resolved"]}
    BY <1>4, ResolveIs DEF Triages
  <2> DEFINE r == [e EXCEPT !.status = "resolved"]
  <2>2. r.id = e.id /\ r.of = e.of /\ r.kind = e.kind
    BY <1>1 DEF Escalation
  <2>3. Escalated' = Escalated
    BY <1>4, ResolveIs DEF Escalated, Journaled
  <2> HIDE DEF r
  <2>4. escalations' = (escalations \ {e}) \cup {r}
    BY <2>1 DEF r
  <2>5. EscalationsAreJournaled'
    BY <1>1, <1>4, <2>2, <2>3, <2>4, ResolveIs DEF EscalationsAreJournaled
  <2>6. OneRow'
    BY <1>1, <2>2, <2>4 DEF OneRow
  <2> QED
    BY <2>5, <2>6
<1> QED
  BY <1>2, <1>3, <1>4, RecordWriters

LEMMA ToldIsKept ==
    ASSUME IInv, [Next]_vars, NEW e \in escalations
    PROVE  \E f \in escalations' : f.of = e.of /\ f.kind = e.kind
<1>1. e \in Escalation /\ e.of \in Escalated /\ e.kind = journal[e.of].escalation.kind
  BY DEF IInv, AskInv, SettleInv, Shape, RecordShape, EscalationsAreJournaled
<1>2. CASE UNCHANGED escalations
  BY <1>2
<1>3. CASE PutEscalation
  BY <1>1, <1>3, PutIs
<1>4. CASE ResolveEscalation
  <2>1. PICK r \in escalations :
          escalations' = (escalations \ {r}) \cup {[r EXCEPT !.status = "resolved"]}
    BY <1>4, ResolveIs DEF Triages
  <2> DEFINE new == [r EXCEPT !.status = "resolved"]
  <2>2. new.of = r.of /\ new.kind = r.kind
    BY DEF IInv, SettleInv, Shape, RecordShape, Escalation
  <2>3. escalations' = (escalations \ {r}) \cup {new}
    BY <2>1
  <2> HIDE DEF new
  <2> QED
    BY <2>2, <2>3
<1> QED
  BY <1>2, <1>3, <1>4, RecordWriters

LEMMA TriagesStay ==
    ASSUME IInv, [Next]_vars, Triages # {}
    PROVE  Triages' # {}
  BY ToldIsKept DEF Triages


LEMMA DecidedWhenDue ==
    ASSUME Due(Practised), Triages = {}, NEW guessing \in BOOLEAN, NEW reply
    PROVE  LeftBehind(Decided(SignalsNow(guessing), reply)) = "escalate_struggle"
<1> DEFINE s == SignalsNow(guessing)
<1>1. s.struggle = StruggleTrigger(mastery[Practised], DaysSinceStruggle)
  BY DEF SignalsNow, Signals
<1>2. DaysSinceStruggle = Never
  BY DEF DaysSinceStruggle
<1>3. StruggleTrigger(mastery[Practised], DaysSinceStruggle)
  BY <1>2 DEF StruggleTrigger, Due
<1>4. s.struggle
  BY <1>1, <1>3
<1> HIDE DEF s
<1>5. Decided(s, reply) = "escalate_struggle"
  BY SMT, <1>4 DEF Decided, Fallback
<1> QED
  BY <1>5 DEF s, LeftBehind, Decision, Escalating

LEMMA DueStep == IInv /\ [Next]_vars => DueIsDecided'
<1> SUFFICES ASSUME IInv, [Next]_vars, NEW m \in Incomplete',
                    journal'[m].decision \notin {"none", "escalate_struggle"},
                    IsStruggling(mastery'[CompetencyOf[journal'[m].question]]),
                    mastery'[CompetencyOf[journal'[m].question]].attempts >= MinSamples,
                    Triages = {}
             PROVE  FALSE
  BY TriagesStay DEF DueIsDecided, Due
<1>1. SettleInv /\ Shape /\ UnderWay /\ Decisions /\ DueIsDecided /\ m \in Msg
  BY DEF IInv, AskInv, SettleInv, Incomplete
<1>2. Journaled(m) /\ ~journal[m].complete /\ journal'[m].question = journal[m].question
  <2>1. Journaled(m)
    BY <1>1, JournalGrows DEF Begun, Incomplete
  <2> QED
    BY <1>1, <2>1, JournalIsKept DEF Incomplete
<1>3. CASE journal[m].decision # "none"
  BY <1>1, <1>2, <1>3, DecidedIsCounted, JournalIsKept DEF DueIsDecided, Due, Incomplete
<1>4. CASE journal[m].decision = "none"
  <2>1. Decide /\ m = at /\ UNCHANGED mastery
    BY <1>1, <1>2, <1>4, JournalMoves DEF Decide, record, learning
  <2>2. Due(Practised)
    BY <1>2, <2>1 DEF Due, Practised, Answered
  <2>3. journal[at] \in Journal
    BY <1>1, <2>1, UnderWayIs DEF Decide, At, AfterGrade
  <2>4. PICK reply \in Proposed, guessing \in BOOLEAN :
          journal' = [journal EXCEPT ![at].decision =
                        Kept(@, LeftBehind(Decided(SignalsNow(guessing), reply)))]
    BY <2>1 DEF Decide
  <2>5. journal' = [journal EXCEPT ![at].decision = Kept(@, "escalate_struggle")]
    BY <2>2, <2>4, DecidedWhenDue
  <2> QED
    BY <1>1, <1>4, <2>1, <2>3, <2>5 DEF Kept, Shape, JournalShape, Journal
<1> QED
  BY <1>3, <1>4

LEMMA CompleteStep == IInv /\ [Next]_vars => CompleteIsTold'
<1> SUFFICES ASSUME IInv, [Next]_vars, NEW m \in Msg,
                    Journaled(m)', journal'[m].complete, journal'[m].decision \in Escalating
             PROVE  \E f \in escalations' : f.of = m
  BY DEF CompleteIsTold
<1>1. Shape /\ UnderWay /\ Journaled(m)
  BY JournalGrows DEF IInv, SettleInv, Begun
<1>2. \E e \in escalations : e.of = m
  <2>1. CASE journal[m].complete
    <3>1. journal'[m].decision = journal[m].decision
      BY <1>1, <2>1, JournalMoves, UnderWayIs DEF Decide, At, AfterGrade
    <3> QED
      BY <1>1, <2>1, <3>1 DEF IInv, AskInv, CompleteIsTold
  <2>2. CASE ~journal[m].complete
    <3>1. Complete /\ m = at
      BY <1>1, <2>2, JournalMoves
    <3>2. journal'[m].decision = journal[m].decision
      BY <1>1, <3>1, JournalMoves DEF Complete, Decide, At
    <3> QED
      BY <3>1, <3>2 DEF IInv, AskInv, DecisionInPlace, Complete, At
  <2> QED
    BY <2>1, <2>2
<1> QED
  BY <1>2, ToldIsKept

LEMMA DecisionInPlaceStep == IInv /\ [Next]_vars => DecisionInPlace'
<1> SUFFICES ASSUME IInv, [Next]_vars PROVE DecisionInPlace'
  OBVIOUS
<1> USE DEF DecisionInPlace, AfterGrade, AfterRecord, AfterCount, AfterAdvance, AfterDecide, At
<1>1. Shape /\ UnderWay /\ JournalShape /\ DecisionInPlace
  BY DEF IInv, AskInv, SettleInv, Shape
<1>2. CASE pc' \notin AfterDecide
  BY <1>2
<1>3. CASE UNCHANGED <<pc, at>>
  <2>1. CASE pc \in AfterDecide
    <3>1. PICK m \in Msg : m = at /\ Journaled(m) /\ journal[m] \in Journal
      BY <1>1, <2>1, UnderWayIs DEF UnderWay
    <3> HIDE DEF DecisionInPlace
    <3>2. journal'[m] = journal[m] /\ UNCHANGED mastery
      BY <1>1, <1>3, <2>1, <3>1
         DEF Next, Work, vars, PlanSession, SendSession, MarkDelivered, NextDay,
         ResolveEscalation, Send, Take, Pass, Blocked, NotAnAnswer, OpenJournal, RaiseAwaiting,
         Grade, Record, Count, Advance, Decide, NothingToDecide, Adapt, Compose, PutEscalation, Complete,
         Deliver, Prepare, Finish, Crash, Goto, Idle, channel, record, learning
    <3>3. \A e \in escalations : \E f \in escalations' : f.of = e.of
      BY ToldIsKept
    <3> QED
      BY <1>1, <1>3, <3>1, <3>2, <3>3 DEF DecisionInPlace, Practised, Answered
  <2> QED
    BY <1>2, <1>3, <2>1
<1>4. CASE Decide
  <2>1. /\ at' = at /\ pc' = "adapt"
        /\ journal'[at].decision # "none"
    <3>1. PICK d \in Decision : journal' = [journal EXCEPT ![at].decision = Kept(@, d)]
      BY <1>4 DEF Decide, LeftBehind, Decision
    <3>2. d # "none"
      BY AnswersAssumption DEF Decision, Escalating, Adaptations
    <3> QED
      BY <1>1, <1>4, <3>1, <3>2, UnderWayIs DEF Decide, Goto, Kept, JournalShape, Journal
  <2> QED
    BY <2>1
<1>5. CASE NothingToDecide
  <2>1. journal[at].decision = "none"
    <3>1. at \in Msg /\ Journaled(at) /\ Answered \in Question /\ Practised \in Competency
      BY <1>1, <1>5, UnderWayIs DEF NothingToDecide, UnderWay
    <3> QED
      BY <1>5, <3>1 DEF NothingToDecide, IInv, AskInv, Decisions, Practised, Answered
  <2> QED
    BY <1>5, <2>1 DEF NothingToDecide, Goto, record, learning, Escalating, Practised, Answered
<1>6. CASE Adapt
  BY <1>1, <1>6, AnswersAssumption DEF Adapt, Goto, Escalating, Adaptations
<1>7. CASE Compose
  <2>1. at \in Msg /\ Journaled(at) /\ journal[at] \in Journal
    BY <1>1, <1>7, UnderWayIs DEF Compose, UnderWay
  <2>2. Composed # NoEscalation
    BY <1>7, ComposedIs
  <2> QED
    BY <1>1, <1>7, <2>1, <2>2 DEF Compose, Goto, JournalShape, Journal, Escalating
<1>8. CASE PutEscalation
  BY <1>1, <1>8, PutIs DEF PutEscalation, Goto, Escalating
<1>9. \/ pc' \notin AfterDecide \/ UNCHANGED <<pc, at>>
      \/ Decide \/ NothingToDecide \/ Adapt \/ Compose \/ PutEscalation
  <2> HIDE DEF DecisionInPlace
  <2> QED
    BY SMT DEF Next, Work, vars, PlanSession, SendSession, MarkDelivered, NextDay,
       ResolveEscalation, Send, Take, Resume, Pass, Blocked, NotAnAnswer, OpenJournal, RaiseAwaiting,
       Grade, Record, Count, Advance, Complete, Deliver, Prepare, Finish, Crash, Goto, Idle
<1> QED
  BY <1>2, <1>3, <1>4, <1>5, <1>6, <1>7, <1>8, <1>9


LEMMA IInvStep == IInv /\ [Next]_vars => IInv'
<1> SUFFICES ASSUME IInv, [Next]_vars PROVE IInv'
  OBVIOUS
<1>1. SettleInv' /\ Decisions'
  BY SettleStep, DecisionsStep DEF IInv, AskInv
<1>2. DueIsDecided' /\ EscalatedIsDecided' /\ OneId' /\ EscalationsAreJournaled' /\ OneRow'
  BY DueStep, EscalatedStep, OneIdStep, EscalationsStep
<1>3. DecisionInPlace' /\ CompleteIsTold'
  BY DecisionInPlaceStep, CompleteStep
<1> QED
  BY <1>1, <1>2, <1>3 DEF IInv, AskInv

LEMMA InitInv == Init => IInv
<1> SUFFICES ASSUME Init PROVE IInv
  OBVIOUS
<1> USE DEF Init
<1>1. \A d \in Day : Length[d] \in Nat \ {0}
  BY AnswersAssumption
<1>2. \A m \in Msg : ~Journaled(m)
  BY DEF Journaled
<1>3. Shape
  <2>1. SessionShape
    BY <1>1 DEF SessionShape, Early
  <2>2. JournalShape /\ PlaceShape
    BY AnswersAssumption DEF JournalShape, PlaceShape, Day, Places
  <2>3. RecordShape
    BY AnswersAssumption DEF RecordShape
  <2> QED
    BY <2>1, <2>2, <2>3 DEF Shape
<1>4. UnderWay /\ OneUnderWay /\ OneAnswer /\ Close /\ InPlace
  BY <1>2 DEF UnderWay, OneUnderWay, Incomplete, OneAnswer, Close, InPlace, AfterGrade,
     AfterRecord, AfterCount, AfterAdvance
<1>5. RowsAreJournaled /\ CountedIsRecorded
  BY DEF RowsAreJournaled, CountedIsRecorded
<1>6. LeftIsSettled
  <2>1. \A q \in Question : q[1] \in Day /\ q[2] \in 1..Length[q[1]] /\ DoneIn(session, q[1]) = 0
    BY QuestionIs DEF DoneIn
  <2> QED
    BY <1>1, <2>1 DEF LeftIsSettled, Left
<1>7. Escalated = {} /\ Incomplete = {}
  BY <1>2 DEF Escalated, Incomplete
<1>8. Decisions /\ DueIsDecided /\ EscalatedIsDecided /\ CompleteIsTold
  BY <1>2, <1>7 DEF Decisions, DueIsDecided, EscalatedIsDecided, CompleteIsTold
<1>9. OneId /\ EscalationsAreJournaled /\ OneRow /\ DecisionInPlace
  <2>1. Ids = {} /\ 1..0 = {}
    BY <1>7 DEF Ids
  <2> QED
    BY <1>7, <2>1 DEF OneId, EscalationsAreJournaled, OneRow, DecisionInPlace, AfterGrade,
       AfterRecord, AfterCount, AfterAdvance, AfterDecide
<1> QED
  BY <1>3, <1>4, <1>5, <1>6, <1>8, <1>9 DEF IInv, SettleInv, AskInv

LEMMA IInvHolds == Safety => []IInv
  BY InitInv, IInvStep, PTL DEF Safety

-----------------------------------------------------------------------------
LEMMA DoneIsDoneIn == \A d \in Day : Done(d) = DoneIn(session, d)
  BY DEF Done, DoneIn

LEMMA SettledIsRecorded == IInv => LeftMeansRecorded
<1> SUFFICES ASSUME IInv, NEW d \in Day, NEW i \in 1..Done(d)
             PROVE  \E m \in Msg :
                      /\ row[m].question = <<d, i>>
                      /\ IF row[m].verdict = "held"
                         THEN m \in quarantine /\ counted[<<d, i>>] = "none"
                         ELSE counted[<<d, i>>] = row[m].verdict
  BY DEF LeftMeansRecorded
<1>1. i <= DoneIn(session, d) /\ <<d, i>> \in Question
  BY DoneIsDoneIn, DoneIs, QuestionIs DEF IInv, SettleInv
<1>2. PICK m \in Msg : Journaled(m) /\ journal[m].question = <<d, i>> /\ Settled(m)
  BY <1>1 DEF IInv, SettleInv, LeftIsSettled, Left
<1> QED
  BY <1>2 DEF Settled, Recorded

LEMMA DueIsTold == IInv => StrugglingIsTold
<1> SUFFICES ASSUME IInv PROVE StrugglingIsTold
  OBVIOUS
<1>1. ASSUME At("complete"), IsStruggling(mastery[Practised]),
             mastery[Practised].attempts >= MinSamples
      PROVE  Triages # {}
  <2>1. at \in Incomplete
    BY <1>1, UnderWayIs DEF IInv, SettleInv, UnderWay, At, AfterGrade, Incomplete
  <2>2. journal[at].decision # "none"
    BY <1>1 DEF IInv, AskInv, DecisionInPlace, At, AfterGrade, AfterRecord, AfterCount,
       AfterAdvance, AfterDecide, IsStruggling
  <2>3. CASE journal[at].decision = "escalate_struggle"
    <3>1. PICK e \in escalations : e.of = at
      BY <1>1, <2>3 DEF IInv, AskInv, DecisionInPlace, At, Escalating
    <3> QED
      BY <2>3, <3>1 DEF IInv, AskInv, EscalationsAreJournaled, EscalatedIsDecided, Triages
  <2> QED
    BY <1>1, <2>1, <2>2, <2>3 DEF IInv, AskInv, DueIsDecided, Due, Practised, Answered
<1>2. \A e, f \in escalations : e.of = f.of => e = f
  BY DEF IInv, AskInv, EscalationsAreJournaled, OneRow
<1>3. \A e \in escalations : journal[e.of].decision = e.kind
  BY DEF IInv, AskInv, EscalationsAreJournaled, EscalatedIsDecided
<1> QED
  BY <1>1, <1>2, <1>3 DEF IInv, AskInv, CompleteIsTold, StrugglingIsTold

(***************************************************************************)
(* response graph: whatever crashes and however often an answer is handled *)
(* again, a question the session left has its grade recorded, and what was *)
(* counted of it is that grade.                                            *)
(***************************************************************************)
THEOREM EveryAnswerIsRecorded == Safety => []LeftMeansRecorded
  BY SettledIsRecorded, IInvHolds, PTL

(***************************************************************************)
(* adaptation_policy.decide, escalate: an answer of a child who struggles  *)
(* is not completed before an adult was asked, and an answer asks once.    *)
(***************************************************************************)
THEOREM TheStrugglingAreTold == Safety => []StrugglingIsTold
  BY DueIsTold, IInvHolds, PTL

-----------------------------------------------------------------------------
(***************************************************************************)
(* The refinement of CapsuleLog: the verdict on a question that was left   *)
(* is the one of the single row that names it.                             *)
(***************************************************************************)
\* VerdictOn, of grade rows that are given.
VerdictIn(r, q) ==
    IF \E m \in Msg : r[m].question = q
    THEN r[CHOOSE m \in Msg : r[m].question = q].verdict
    ELSE "none"

LogIn(s, r) == [d \in Day |-> [i \in 1..DoneIn(s, d) |-> VerdictIn(r, <<d, i>>)]]

LEMMA SettledLogIs ==
    /\ SettledLog = LogIn(session, row)
    /\ SettledLog' = LogIn(session', row')
  BY DEF SettledLog, LogIn, Done, DoneIn, VerdictOn, VerdictIn

LEMMA RowIsJournaled ==
    ASSUME RowsAreJournaled, NEW n \in Msg, row[n].question \in Question
    PROVE  Journaled(n) /\ journal[n].question = row[n].question
<1>1. row[n] # NoRow
  <2>1. NoRow.question = NoQuestion
    BY DEF NoRow
  <2> QED
    BY <2>1, QuestionIs
<1>2. row[n] = [question |-> journal[n].question, verdict |-> journal[n].grade]
  BY <1>1 DEF RowsAreJournaled, Recorded
<1> QED
  BY <1>1, <1>2 DEF RowsAreJournaled

LEMMA RowIsVerdict ==
    ASSUME SettleInv, NEW m \in Msg, row[m].question \in Question
    PROVE  VerdictIn(row, row[m].question) = row[m].verdict
<1>1. \A n \in Msg : row[n].question \in Question =>
                       Journaled(n) /\ journal[n].question = row[n].question
  BY RowIsJournaled DEF SettleInv
<1>2. \A n \in Msg : row[n].question = row[m].question => n = m
  BY <1>1 DEF SettleInv, OneAnswer
<1> QED
  BY <1>2 DEF VerdictIn

LEMMA VerdictIsKept ==
    ASSUME IInv, [Next]_vars, NEW q \in Question, Left(q)
    PROVE  /\ VerdictIn(row', q) = VerdictIn(row, q)
           /\ VerdictIn(row, q) \in Verdict
<1>1. SettleInv /\ SettleInv'
  BY SettleStep DEF IInv
<1>2. PICK m \in Msg : Journaled(m) /\ journal[m].question = q /\ Settled(m)
  BY <1>1 DEF SettleInv, LeftIsSettled
<1>3. row[m].question = q /\ row[m].verdict = journal[m].grade
  BY <1>2 DEF Settled, Recorded
<1>4. row'[m].question = q /\ row'[m].verdict = row[m].verdict
  BY <1>1, <1>2, <1>3, RecordedIsKept, JournalIsKept DEF SettleInv, Settled, Recorded
<1>5. VerdictIn(row, q) = row[m].verdict
  BY <1>1, <1>3, RowIsVerdict
<1>6. VerdictIn(row', q) = row'[m].verdict
  <2>1. ASSUME NEW n \in Msg, row'[n].question = q
        PROVE  Journaled(n)' /\ journal'[n].question = q
    <3>1. NoRow.question = NoQuestion
      BY DEF NoRow
    <3>2. row'[n] # NoRow
      BY <2>1, <3>1, QuestionIs
    <3>3. row'[n] = [question |-> journal'[n].question, verdict |-> journal'[n].grade]
      BY <1>1, <3>2 DEF SettleInv, RowsAreJournaled, Recorded
    <3> QED
      BY <1>1, <2>1, <3>2, <3>3 DEF SettleInv, RowsAreJournaled
  <2>2. \A n \in Msg : row'[n].question = q => n = m
    BY <1>1, <1>2, <1>4, <2>1, JournalIsKept DEF SettleInv, OneAnswer
  <2> QED
    BY <1>4, <2>2 DEF VerdictIn
<1>7. row[m].verdict \in Verdict
  BY <1>1, <1>2, <1>3, JournaledIs DEF SettleInv, Journal, Settled, Recorded
<1> QED
  BY <1>4, <1>5, <1>6, <1>7


LEMMA LogStep == IInv /\ [Next]_vars => [Log!LogNext]_SettledLog
<1> SUFFICES ASSUME IInv, [Next]_vars PROVE [Log!LogNext]_SettledLog
  OBVIOUS
<1>1. SettleInv /\ Shape /\ UnderWay /\ Close /\ SettleInv'
  BY SettleStep DEF IInv, SettleInv
<1>2. \A d \in Day : /\ DoneIn(session, d) \in 0..Length[d] /\ Length[d] \in Nat
                     /\ \A i \in 1..DoneIn(session, d) :
                          <<d, i>> \in Question /\ Left(<<d, i>>)
  BY <1>1, DoneIs, QuestionIs DEF Left
<1>3. \A d \in Day : \A i \in 1..DoneIn(session, d) :
        /\ VerdictIn(row', <<d, i>>) = VerdictIn(row, <<d, i>>)
        /\ VerdictIn(row, <<d, i>>) \in Verdict
  BY <1>2, VerdictIsKept
<1>4. CASE \A d \in Day : DoneIn(session', d) = DoneIn(session, d)
  <2>1. LogIn(session', row') = LogIn(session, row)
    BY <1>3, <1>4 DEF LogIn
  <2> QED
    BY <2>1, SettledLogIs
<1>5. ASSUME NEW d \in Day, DoneIn(session', d) # DoneIn(session, d)
      PROVE  Log!LogNext
  <2>1. PICK q \in Question : /\ Advance /\ q = Answered /\ q[1] = d
                              /\ DoneIn(session', d) = q[2]
                              /\ q[2] = DoneIn(session, d) + 1
                              /\ \A c \in Day \ {d} : DoneIn(session', c) = DoneIn(session, c)
    <3>1. Advance
      <4>1. ~UNCHANGED session
        BY <1>5
      <4>2. ~PlanSession /\ ~MarkDelivered
        BY <1>1, <1>5 DEF PlanSession, MarkDelivered, Shape, SessionShape, PlaceShape, Early,
           DoneIn
      <4> QED
        BY <4>1, <4>2, SessionWriters
    <3>2. /\ at \in Msg /\ Journaled(at) /\ ~journal[at].complete /\ Answered \in Question
      BY <1>1, <3>1, UnderWayIs DEF Advance, At, AfterGrade, UnderWay
    <3>3. /\ Answered[1] \in Day /\ Answered[2] \in 1..Length[Answered[1]]
          /\ Length[Answered[1]] \in Nat
      BY <3>2, QuestionIs, AnswersAssumption
    <3>4. session' = [session EXCEPT ![Answered[1]] =
                       [index |-> After(Answered)[2],
                        status |-> IF Last(Answered) THEN "completed" ELSE "in_progress"]]
      BY <3>1 DEF Advance
    <3>5. DoneIn(session', Answered[1]) = Answered[2]
      BY <1>1, <3>3, <3>4 DEF Shape, SessionShape, DoneIn, After, Last
    <3>6. \A c \in Day \ {Answered[1]} : DoneIn(session', c) = DoneIn(session, c)
      BY <1>1, <3>4 DEF Shape, SessionShape, DoneIn
    <3>7. Answered[1] = d
      BY <1>5, <3>6
    <3>8. Answered[2] = DoneIn(session, d) + 1
      BY <1>1, <1>2, <1>5, <3>2, <3>5, <3>7 DEF Close, Answered
    <3> QED
      BY <3>1, <3>2, <3>5, <3>6, <3>7, <3>8
  <2> DEFINE n == DoneIn(session, d)
             verdict == VerdictIn(row', q)
             old == LogIn(session, row)
             new == LogIn(session', row')
  <2>2. q = <<d, n + 1>> /\ n \in Nat /\ n + 1 <= Length[d]
    BY <1>2, <2>1, QuestionIs
  <2>3. verdict \in Verdict
    <3>1. PICK m \in Msg : Journaled(m) /\ journal[m].question = q /\ Settled(m)
      BY <1>1, <2>1, UnderWayIs DEF SettleInv, InPlace, Advance, At, AfterGrade, AfterRecord,
         AfterCount, UnderWay, Answered
    <3>2. row' = row
      BY <2>1 DEF Advance, record
    <3>3. row[m].question = q /\ row[m].verdict = journal[m].grade /\ journal[m].grade \in Verdict
      BY <1>1, <3>1, JournaledIs DEF Settled, Recorded, Journal
    <3> QED
      BY <1>1, <3>2, <3>3, RowIsVerdict
  <2>4. old[d] = [i \in 1..n |-> VerdictIn(row, <<d, i>>)]
    BY DEF LogIn
  <2>5. old[d] \in Seq(Verdict) /\ Len(old[d]) = n
    <3>1. \A i \in 1..n : VerdictIn(row, <<d, i>>) \in Verdict
      BY <1>3
    <3>2. old[d] \in [1..n -> Verdict]
      BY <2>4, <3>1
    <3> HIDE DEF old, n
    <3> QED
      BY <2>2, <3>2
  <2>6. new[d] = [i \in 1..(n + 1) |-> VerdictIn(row', <<d, i>>)]
    BY <2>1 DEF LogIn
  <2>7. Append(old[d], verdict) = [i \in 1..(n + 1) |-> IF i = n + 1 THEN verdict ELSE old[d][i]]
    <3> HIDE DEF old, verdict, n
    <3> QED
      BY <2>5
  <2>8. new[d] = Append(old[d], verdict)
    <3>1. \A i \in 1..(n + 1) :
            VerdictIn(row', <<d, i>>) = IF i = n + 1 THEN verdict ELSE old[d][i]
      BY <1>3, <2>2, <2>4
    <3> HIDE DEF old, new, verdict, n
    <3> QED
      BY <2>6, <2>7, <3>1
  <2>9. \A c \in Day \ {d} : new[c] = old[c]
    BY <1>3, <2>1 DEF LogIn
  <2>10. new = [old EXCEPT ![d] = Append(@, verdict)]
    <3>1. new = [c \in Day |-> new[c]] /\ old = [c \in Day |-> old[c]]
      BY DEF LogIn
    <3> HIDE DEF old, new, verdict
    <3> QED
      BY <2>8, <2>9, <3>1
  <2>11. SettledLog = old /\ SettledLog' = new
    BY SettledLogIs
  <2> HIDE DEF old, new, verdict, n
  <2>12. Len(SettledLog[d]) < Length[d]
    BY <1>2, <2>2, <2>5, <2>11
  <2>13. SettledLog' = [SettledLog EXCEPT ![d] = Append(@, verdict)]
    BY <2>10, <2>11
  <2>14. Log!Settle(d, verdict)
    BY <2>12, <2>13 DEF Log!Settle
  <2> QED
    BY <2>3, <2>14 DEF Log!LogNext, Log!Verdict, Verdict
<1> QED
  BY <1>4, <1>5

(***************************************************************************)
(* Every answer settles one question, the next one of its capsule, and     *)
(* nothing that was settled is settled again: the handlers, their crashes  *)
(* and retries implement the log that is only appended to.                 *)
(***************************************************************************)
THEOREM AnswersImplementLog == Safety => ImplementsLog
<1>1. Init => Log!LogInit
  <2> SUFFICES ASSUME Init PROVE SettledLog = [d \in Day |-> <<>>]
    BY DEF Log!LogInit
  <2>1. \A d \in Day : Done(d) = 0
    BY DEF Init, Done
  <2> QED
    BY <2>1 DEF SettledLog
<1> QED
  BY <1>1, LogStep, IInvHolds, PTL DEF Safety, ImplementsLog, Log!LogSpec

=============================================================================
