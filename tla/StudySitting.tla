---------------------------- MODULE StudySitting ----------------------------
(***************************************************************************)
(* The sittings a family opens on its own in one day: the state machine of *)
(* a sitting, its budget, the questions it serves, how an answer is graded *)
(* and counted, and how the day's bounds hold over sittings and capsule.   *)
(*                                                                         *)
(* A turn runs under the family's lease, so one is handled at a time, but  *)
(* it is several writes: the grade row, the outcome, the sitting, the      *)
(* prepared reply.  A worker may die between two of them, after which the  *)
(* message is handled again from the start, perhaps after a later one.     *)
(* Time shows only as "late" (over its minutes) and "stale" (idle too      *)
(* long); a text remembers which question was the last one served when it  *)
(* was received, and a button the one it hangs from.                       *)
(***************************************************************************)
EXTENDS Integers, Sequences, FiniteSets, SequencesExt, FiniteSetsExt

CONSTANTS Bank,             \* items 1..Bank, in the order query_bank serves
          ItemLimit,        \* DAILY_ITEM_LIMIT: 3
          SittingsPerDay,   \* SITTINGS_PER_DAY: 2
          WrongStop,        \* CONSECUTIVE_WRONG_STOP: 3
          CapsuleItems,     \* items the daily session would plan
          Slot,             \* messages that may wait at a time
          MaxFaults         \* bound on crashes

ASSUME SittingAssumption ==
    /\ Bank \in Nat
    /\ ItemLimit \in Nat \ {0}
    /\ SittingsPerDay \in Nat \ {0}
    /\ WrongStop \in Nat \ {0}
    /\ CapsuleItems \subseteq 1..Bank
    /\ MaxFaults \in Nat

VARIABLES sittings,         \* today's sittings, in the order they opened
          capsule,          \* today's capsule: its items and its progress
          outcomes,         \* questions whose outcome the learning state counted
          inbox,            \* the message waiting in each slot
          screen,           \* the last question the child was sent
          pc, slot, turn,   \* where the handler is, and its locals
          faults

store == <<sittings, capsule, outcomes>>
handler == <<pc, slot, turn>>
vars == <<store, inbox, screen, handler, faults>>

Allowance == ItemLimit * SittingsPerDay

Item == 1..Bank
OpenStatus == {"active"}

\* A question: a position of a sitting.  <<0, 0>> stands for none yet.
Question == (0..Allowance) \X (0..ItemLimit)
NoQuestion == <<0, 0>>

Command == {"session", "topic", "done"}

\* A text is about the last question served before it was received, which
\* the child may not have been sent yet; a button, about the one it hangs from.
Message ==
    [kind : Command]
      \cup [kind : {"text", "button"}, correct : BOOLEAN, about : Question]

NoMessage == [kind |-> "none"]

-----------------------------------------------------------------------------
\* The harness: pure functions of one sitting.

NewSitting(questions) ==
    [status |-> "active", enough |-> FALSE, served |-> <<>>, answered |-> {},
     wrong |-> 0, questions |-> questions, late |-> FALSE, stale |-> FALSE]

\* A sitting that is over: of its reason, only "enough for today" is ever
\* asked about again, and its clock no more.
Over(s, status, reason) ==
    [s EXCEPT !.status = status, !.enough = (reason = "enough_for_today"),
              !.late = FALSE, !.stale = FALSE]

CloseWith(s, reason) == Over(s, "closed", reason)

Abandon(s) == Over(s, "abandoned", "expired")

QuestionsLeft(s) == s.questions - Len(s.served)

\* Mutant of StopReason: the budget is asked about before the wrong answers.
StopReasonBudgetFirst(s, servedToday) ==
    IF QuestionsLeft(s) < 1 THEN "questions_spent"
    ELSE IF s.wrong >= WrongStop THEN "enough_for_today"
    ELSE IF s.late THEN "minutes_spent"
    ELSE IF servedToday >= Allowance THEN "day_spent"
    ELSE "none"

\* The first bound of a sitting that is reached, in the order they are asked.
StopReason(s, servedToday) ==
    IF s.wrong >= WrongStop THEN "enough_for_today"
    ELSE IF QuestionsLeft(s) < 1 THEN "questions_spent"
    ELSE IF s.late THEN "minutes_spent"
    ELSE IF servedToday >= Allowance THEN "day_spent"
    ELSE "none"

RecordServed(s, item) ==
    [s EXCEPT !.served = Append(@, item), !.stale = FALSE]

RecordAnswer(s, correct) ==
    [s EXCEPT !.answered = @ \cup {Len(s.served)},
              !.wrong = IF correct THEN 0 ELSE @ + 1,
              !.stale = FALSE]

-----------------------------------------------------------------------------
\* Reads of the store.

CapsuleServed == Min({capsule.index, Cardinality(capsule.items)})

\* The questions that the day's sittings have served.
QuestionsServed == UNION {{i} \X DOMAIN sittings[i].served : i \in DOMAIN sittings}

ServedToday == CapsuleServed + Cardinality(QuestionsServed)

StoppedForToday == \E i \in DOMAIN sittings : sittings[i].enough

\* The open sitting's index, or 0.  One that idled too long is passed over.
OpenSitting ==
    LET open == {i \in DOMAIN sittings :
                   sittings[i].status \in OpenStatus /\ ~sittings[i].stale}
    IN  IF open = {} THEN 0 ELSE Max(open)

\* open_sitting abandons, on its way, every sitting that idled too long.
Swept ==
    [i \in DOMAIN sittings |->
        IF sittings[i].status \in OpenStatus /\ sittings[i].stale
        THEN Abandon(sittings[i]) ELSE sittings[i]]

\* Items with a spacing row: reviewed today, so reviewed recently.
Reviewed == {sittings[q[1]].served[q[2]] : q \in outcomes}

\* Mutant of Available: only what this sitting served is left out.
AvailableAgain(s) == Item \ (capsule.items \cup ToSet(s.served))

Available(s) == Item \ (Reviewed \cup capsule.items \cup ToSet(s.served))

\* The question a sitting last served.
CurrentQuestion(i) == IF i = 0 THEN NoQuestion ELSE <<i, Len(sittings[i].served)>>

LastQuestion == CurrentQuestion(Len(sittings))

\* serve_next: close the sitting if a bound is reached or nothing is left,
\* else serve the first item available.
ServeNext(s) ==
    LET why == StopReason(s, ServedToday)
    IN  IF why # "none" THEN CloseWith(s, why)
        ELSE IF Available(s) = {} THEN CloseWith(s, "bank_empty")
        ELSE RecordServed(s, Min(Available(s)))

-----------------------------------------------------------------------------
Init ==
    /\ sittings = <<>>
    /\ capsule = [items |-> {}, index |-> 0, status |-> "none"]
    /\ outcomes = {}
    /\ inbox = [m \in Slot |-> NoMessage]
    /\ screen = NoQuestion
    /\ pc = "idle"
    /\ slot = "none"
    /\ turn = NoQuestion
    /\ faults = 0

Goto(where, question) ==
    /\ pc' = where
    /\ turn' = question
    /\ UNCHANGED slot

\* The turn is over, and its locals with it.
Idle ==
    /\ pc' = "idle"
    /\ turn' = NoQuestion
    /\ slot' = "none"

\* What a reply asks once the sittings have been put: the question of the
\* i-th one, if it is still open.
AskedBy(i) ==
    IF i \in DOMAIN sittings' /\ sittings'[i].status \in OpenStatus
    THEN <<i, Len(sittings'[i].served)>> ELSE NoQuestion

Send(m, message) ==
    /\ inbox[m] = NoMessage
    /\ inbox' = [inbox EXCEPT ![m] = message]
    /\ UNCHANGED <<store, screen, handler, faults>>

SendCommand(m, kind) == Send(m, [kind |-> kind])

\* A text that names an option, right or wrong, of the question it meets.
SendText(m, correct) ==
    /\ LastQuestion # NoQuestion
    /\ Send(m, [kind |-> "text", correct |-> correct, about |-> LastQuestion])

SendButton(m, correct) ==
    /\ screen # NoQuestion
    /\ Send(m, [kind |-> "button", correct |-> correct, about |-> screen])

\* The handler takes a waiting message, in whatever order they are delivered.
Take(m) ==
    /\ pc = "idle"
    /\ inbox[m] # NoMessage
    /\ pc' = "turn"
    /\ slot' = m
    /\ sittings' = Swept
    /\ UNCHANGED <<capsule, outcomes, inbox, screen, turn, faults>>

Saying(kind) == pc = "turn" /\ inbox[slot].kind = kind

\* A turn that writes no sitting: the family is paused, the topic unknown,
\* the text not read as an answer, the button stale, nothing open...  It may
\* repeat the question.
ReplyOnly ==
    /\ pc = "turn"
    /\ \E question \in {NoQuestion, CurrentQuestion(OpenSitting)} :
         Goto("reply", question)
    /\ UNCHANGED <<store, inbox, screen, faults>>

\* start_sitting: nothing is opened once the day is over or the bank spent.
StartSitting ==
    LET questions == Min({ItemLimit, Allowance - ServedToday,
                          Cardinality(Available(NewSitting(0)))})
    IN  IF StoppedForToday \/ questions < 1
        THEN sittings
        ELSE Append(sittings, ServeNext(NewSitting(questions)))

\* /sesion: open a sitting, or go on with the open one: the next question.
Session ==
    /\ Saying("session")
    /\ IF OpenSitting = 0
       THEN /\ sittings' = StartSitting
            /\ Goto("reply", AskedBy(Len(sittings')))
       ELSE /\ sittings' = [sittings EXCEPT ![OpenSitting] = ServeNext(@)]
            /\ Goto("reply", AskedBy(OpenSitting))
    /\ UNCHANGED <<capsule, outcomes, inbox, screen, faults>>

\* /tema: the open sitting is closed in one write, another opened in a second.
Topic ==
    /\ Saying("topic")
    /\ IF OpenSitting = 0
       THEN UNCHANGED sittings
       ELSE sittings' = [sittings EXCEPT ![OpenSitting] = CloseWith(@, "family_closed")]
    /\ Goto("start", NoQuestion)
    /\ UNCHANGED <<capsule, outcomes, inbox, screen, faults>>

StartTopic ==
    /\ pc = "start"
    /\ sittings' = StartSitting
    /\ Goto("reply", AskedBy(Len(sittings')))
    /\ UNCHANGED <<capsule, outcomes, inbox, screen, faults>>

CloseSitting(reason) ==
    /\ OpenSitting # 0
    /\ sittings' = [sittings EXCEPT ![OpenSitting] = CloseWith(@, reason)]
    /\ Goto("reply", NoQuestion)
    /\ UNCHANGED <<capsule, outcomes, inbox, screen, faults>>

\* /listo, or a text read as a wish to stop, or as distress.
Done ==
    /\ Saying("done")
    /\ \E reason \in {"family_closed", "stopped_for_care"} : CloseSitting(reason)

\* A text is graded unless it was received before the question was served;
\* a button, only if it is the current question's.
InStep(m) == m.about = CurrentQuestion(OpenSitting)

\* Mutant of Grade: the sitting is put before the outcome is counted.
GradeAndPut ==
    /\ Saying("text") \/ Saying("button")
    /\ OpenSitting # 0
    /\ Len(sittings[OpenSitting].served) \notin sittings[OpenSitting].answered
    /\ InStep(inbox[slot])
    /\ Goto("answered", CurrentQuestion(OpenSitting))
    /\ UNCHANGED <<store, inbox, screen, faults>>

\* The answer names an option of the current question, not yet answered.
\* The grade row and the episode are written here.
Grade ==
    /\ Saying("text") \/ Saying("button")
    /\ OpenSitting # 0
    /\ Len(sittings[OpenSitting].served) \notin sittings[OpenSitting].answered
    /\ InStep(inbox[slot])
    /\ Goto("outcome", CurrentQuestion(OpenSitting))
    /\ UNCHANGED <<store, inbox, screen, faults>>

\* record_answer_outcome: once per <<sitting, position>>.
CountOutcome ==
    /\ pc = "outcome"
    /\ outcomes' = outcomes \cup {turn}
    /\ Goto("answered", turn)
    /\ UNCHANGED <<sittings, capsule, inbox, screen, faults>>

\* record_answer and serve_next: the sitting is put once for both.
PutAnswered ==
    /\ pc = "answered"
    /\ sittings' = [sittings EXCEPT ![turn[1]] =
                      ServeNext(RecordAnswer(@, inbox[slot].correct))]
    /\ Goto("reply", AskedBy(turn[1]))
    /\ UNCHANGED <<capsule, outcomes, inbox, screen, faults>>

\* The reply is prepared and delivered, and the message acknowledged.
Reply ==
    /\ pc = "reply"
    /\ inbox' = [inbox EXCEPT ![slot] = NoMessage]
    /\ screen' = IF turn = NoQuestion THEN screen ELSE turn
    /\ Idle
    /\ UNCHANGED <<store, faults>>

\* The worker dies: its message is delivered again.
Crash ==
    /\ pc # "idle"
    /\ faults < MaxFaults
    /\ faults' = faults + 1
    /\ Idle
    /\ UNCHANGED <<store, inbox, screen>>

-----------------------------------------------------------------------------
\* Time passes: over the minutes of a sitting, then over the idle limit.
MinutesPass(i) ==
    /\ sittings[i].status \in OpenStatus
    /\ ~sittings[i].late
    /\ sittings' = [sittings EXCEPT ![i].late = TRUE]
    /\ UNCHANGED <<capsule, outcomes, inbox, screen, handler, faults>>

IdlePasses(i) ==
    /\ pc = "idle"
    /\ sittings[i].status \in OpenStatus
    /\ sittings[i].late /\ ~sittings[i].stale
    /\ sittings' = [sittings EXCEPT ![i].stale = TRUE]
    /\ UNCHANGED <<capsule, outcomes, inbox, screen, handler, faults>>

\* The daily session is composed, of items not reviewed today, and delivered.
ComposeCapsule ==
    /\ pc = "idle"
    /\ capsule.status = "none"
    /\ CapsuleItems \ Reviewed # {}
    /\ capsule' = [items |-> CapsuleItems \ Reviewed, index |-> 0, status |-> "in_progress"]
    /\ UNCHANGED <<sittings, outcomes, inbox, screen, handler, faults>>

\* An answer moves the capsule on, and the last one completes it: the index
\* then stays where it is.
CapsuleAnswer ==
    /\ pc = "idle"
    /\ capsule.status = "in_progress"
    /\ capsule' = IF capsule.index + 1 < Cardinality(capsule.items)
                  THEN [capsule EXCEPT !.index = @ + 1]
                  ELSE [capsule EXCEPT !.status = "completed"]
    /\ UNCHANGED <<sittings, outcomes, inbox, screen, handler, faults>>

Next ==
    \/ \E m \in Slot :
         \/ Take(m)
         \/ \E kind \in Command : SendCommand(m, kind)
         \/ \E correct \in BOOLEAN : SendText(m, correct) \/ SendButton(m, correct)
    \/ ReplyOnly \/ Session \/ Topic \/ StartTopic \/ Done
    \/ Grade \/ CountOutcome \/ PutAnswered \/ Reply \/ Crash
    \/ \E i \in DOMAIN sittings : MinutesPass(i) \/ IdlePasses(i)
    \/ ComposeCapsule \/ CapsuleAnswer

Spec == Init /\ [][Next]_vars

-----------------------------------------------------------------------------
SittingOK(s) ==
    /\ s.status \in {"active", "closed", "abandoned"}
    /\ s.enough \in BOOLEAN
    /\ s.enough => s.status = "closed"
    /\ s.questions \in 1..ItemLimit
    /\ s.served \in Seq(Item) /\ Len(s.served) <= s.questions
    /\ s.answered \subseteq DOMAIN s.served
    /\ s.wrong \in 0..WrongStop
    /\ s.late \in BOOLEAN /\ s.stale \in BOOLEAN

TypeOK ==
    /\ \A i \in DOMAIN sittings : SittingOK(sittings[i])
    /\ Len(sittings) <= Allowance
    /\ capsule.items \subseteq Item
    /\ capsule.index \in 0..Cardinality(capsule.items)
    /\ capsule.status \in {"none", "in_progress", "completed"}
    /\ outcomes \subseteq Question
    /\ inbox \in [Slot -> Message \cup {NoMessage}]
    /\ screen \in Question
    /\ pc \in {"idle", "turn", "start", "outcome", "answered", "reply"}
    /\ slot \in Slot \cup {"none"}
    /\ turn \in Question
    /\ faults \in 0..MaxFaults

(***************************************************************************)
(* "three wrong in a row, which ends the day": no sitting of the day puts  *)
(* another question before a child who got as many wrong in a row, neither *)
(* that one nor one opened afterwards, by command or by topic.             *)
(***************************************************************************)
WrongAnswersEndTheDay ==
    [][(\E i \in DOMAIN sittings : sittings[i].wrong >= WrongStop)
         => QuestionsServed' = QuestionsServed]_vars

(***************************************************************************)
(* answer_sitting: the sitting shows an answer only once the learning      *)
(* state has it, so a turn cut short is never an answer that was dropped.  *)
(***************************************************************************)
AnsweredIsCounted ==
    \A i \in DOMAIN sittings : {i} \X sittings[i].answered \subseteq outcomes

(***************************************************************************)
(* already_practised: an item whose answer was counted in a sitting is not *)
(* served again in a later one, even when the turn that counted it died    *)
(* before the sitting was put.                                             *)
(***************************************************************************)
CountedItemNotServedAgain ==
    [][\A i \in DOMAIN sittings' :
         LET before == IF i \in DOMAIN sittings THEN Len(sittings[i].served) ELSE 0
         IN  \A n \in before + 1 .. Len(sittings'[i].served) :
               sittings'[i].served[n] \notin Reviewed]_vars
=============================================================================
