--------------------------- MODULE CapsuleAnswers ---------------------------
(***************************************************************************)
(* The answers of a child to the daily capsule: the daily session that is  *)
(* planned and delivered, the route of a message to the question it is     *)
(* graded against, the journal that makes the handling of an answer        *)
(* repeatable, and the writes of the response graph in their order.        *)
(*                                                                         *)
(* A family's messages are handled one at a time, under its lease, but a   *)
(* worker may die between any two writes.  Its message is then handled     *)
(* again, perhaps after another one, perhaps on another day.  Grading and  *)
(* deciding ask a model, so asking again may answer differently: the       *)
(* journal of the message keeps the first answer of each.                  *)
(*                                                                         *)
(* A decision is journaled by what it leaves behind: an adaptation of a    *)
(* kind in Adaptive, an escalation, or nothing, which is called continue.  *)
(***************************************************************************)
EXTENDS ResponsePolicy, Sequences, FiniteSets

CONSTANTS Msg,              \* messages of the family
          LastDay,          \* bound on the clock; below ANSWER_RETENTION_DAYS,
                            \* so that no journal expires
          Length,           \* how many questions each day's capsule has
          Competency,
          CompetencyOf,     \* the competency a question practises
          Adaptive,         \* ADAPTIVE_ACTIONS, or some of them
          Proposed,         \* what the model of the policy may reply
          Earlier,          \* the mastery row of each competency before the first day
          MaxFaults         \* bound on crashes

Day == 1..LastDay
Question == UNION {{d} \X (1..Length[d]) : d \in Day}

ASSUME AnswersAssumption ==
    /\ LastDay \in Nat \ {0}
    /\ Length \in [Day -> Nat \ {0}]
    /\ CompetencyOf \in [Question -> Competency]
    /\ Adaptive \subseteq Adaptations
    /\ Proposed \subseteq Replies
    /\ Earlier \in [Competency -> Mastery]
    /\ MaxFaults \in Nat

VARIABLES today,
          session,          \* each day's session: where it is and its status
          shown,            \* questions sent to the child
          message,          \* what each message says, once it was sent
          acked,            \* messages acknowledged to the queue
          journal,          \* answer#<message> records
          prepared,         \* channel#<message> records
          delivered,        \* answers whose feedback, and escalation, went out
          row,              \* grade row of each answer
          quarantine,       \* answers whose held grade waits for an adult
          counted,          \* the verdict the learning state counted
          mastery,          \* the mastery row of each competency
          adaptation,       \* the adaptation of each competency
          escalations,      \* escalation rows
          pc, at,           \* where the handler is, and in which message
          faults

learning == <<counted, mastery>>
record == <<row, quarantine, learning, adaptation, escalations>>
channel == <<shown, message, acked, prepared, delivered>>
vars == <<today, session, channel, journal, record, pc, at, faults>>

Verdict == {"right", "wrong", "held"}

\* What a decision leaves behind, if anything.
Decision == Adaptive \cup Escalating \cup {"continue"}

NoQuestion == <<0, 0>>
NoMessage == [kind |-> "none"]
NoJournal == [question |-> NoQuestion]
NoRow == [question |-> NoQuestion]
NoEscalation == [kind |-> "none"]

Message ==
    [kind : {"text"}] \cup [kind : {"button"}, about : Question]

Journal ==
    [question : Question, grade : Verdict \cup {"none"},
     decision : Decision \cup {"none"}, complete : BOOLEAN,
     escalation : [id : Nat, of : Msg, kind : Escalating, day : Day,
                   evidence : SUBSET Question, status : {"pending"}] \cup {NoEscalation}]

Init ==
    /\ today = 1
    /\ session = [d \in Day |-> [index |-> 1, status |-> "none"]]
    /\ shown = {}
    /\ message = [m \in Msg |-> NoMessage]
    /\ acked = {}
    /\ journal = [m \in Msg |-> NoJournal]
    /\ prepared = {}
    /\ delivered = {}
    /\ row = [m \in Msg |-> NoRow]
    /\ quarantine = {}
    /\ counted = [q \in Question |-> "none"]
    /\ mastery = Earlier
    /\ escalations = {}
    /\ adaptation = [c \in Competency |-> [source |-> NoQuestion, action |-> "none"]]
    /\ pc = "idle"
    /\ at = "none"
    /\ faults = 0

-----------------------------------------------------------------------------
Active(d) == session[d].status \in {"delivered", "in_progress"}

Current(d) == <<d, session[d].index>>

Last(q) == q[2] = Length[q[1]]

\* The question a session stands at once q was answered: the last stays.
After(q) == IF Last(q) THEN q ELSE <<q[1], q[2] + 1>>

Journaled(m) == journal[m] # NoJournal

\* Answers journaled and not finished: they have to be before another is.
Incomplete == {m \in Msg : Journaled(m) /\ ~journal[m].complete}

\* A text is about whatever is current, a button only about its own question.
Meets(m) ==
    message[m].kind = "button" => message[m].about = Current(today)

Goto(where) == pc' = where /\ UNCHANGED at

Idle == pc' = "idle" /\ at' = "none"

At(where) == pc = where

Answered == journal[at].question

-----------------------------------------------------------------------------
\* The daily session: planned and composed, sent, and marked delivered.  Run
\* again, it goes on from what is stored, but only on its own day.
PlanSession ==
    /\ At("idle")
    /\ session[today].status = "none"
    /\ session' = [session EXCEPT ![today].status = "planned"]
    /\ UNCHANGED <<today, channel, journal, record, pc, at, faults>>

SendSession ==
    /\ At("idle")
    /\ session[today].status = "planned"
    /\ Current(today) \notin shown
    /\ shown' = shown \cup {Current(today)}
    /\ UNCHANGED <<today, session, message, acked, prepared, delivered, journal, record, pc, at,
                   faults>>

MarkDelivered ==
    /\ At("idle")
    /\ session[today].status = "planned"
    /\ Current(today) \in shown
    /\ session' = [session EXCEPT ![today].status = "delivered"]
    /\ UNCHANGED <<today, channel, journal, record, pc, at, faults>>

NextDay ==
    /\ today < LastDay
    /\ today' = today + 1
    /\ UNCHANGED <<session, channel, journal, record, pc, at, faults>>

\* The child writes, or presses a button under any question received.
Send(m) ==
    /\ message[m] = NoMessage
    /\ shown # {}
    /\ \E said \in [kind : {"text"}] \cup [kind : {"button"}, about : shown] :
         message' = [message EXCEPT ![m] = said]
    /\ UNCHANGED <<today, session, shown, acked, prepared, delivered, journal, record, pc, at,
                   faults>>

\* Mutant of Resume: the journal is not looked for.
ResumeNowhere(m) == IF m \in prepared THEN "finish" ELSE "route"

\* Where the handling of a message goes on from what was written of it: a
\* journaled answer is screened again before its journal is looked for.
Resume(m) ==
    IF m \in prepared THEN "finish"
    ELSE IF Journaled(m) THEN "screen" ELSE "route"

Take(m) ==
    /\ At("idle")
    /\ message[m] # NoMessage
    /\ m \notin acked
    /\ at' = m
    /\ pc' = Resume(m)
    /\ UNCHANGED <<today, session, channel, journal, record, faults>>

Pass ==
    /\ At("screen")
    /\ Goto(IF journal[at].complete THEN "deliver" ELSE "grade")
    /\ UNCHANGED <<today, session, channel, journal, record, faults>>

\* The screener is out of reach, or thinks otherwise than it did: nothing is
\* said, and the message is done with whatever its journal still lacks.
Blocked ==
    /\ At("screen")
    /\ Goto("prepare")
    /\ UNCHANGED <<today, session, channel, journal, record, faults>>

\* Not an answer: nothing to answer, a button of another question, a text that
\* was read as something else, or a text or button that the screen blocked.
NotAnAnswer ==
    /\ At("route")
    /\ Goto("prepare")
    /\ UNCHANGED <<today, session, channel, journal, record, faults>>

\* "previous answer is awaiting recovery"
Refused == Incomplete # {}

OpenJournal ==
    /\ At("route")
    /\ Active(today) /\ Meets(at)
    /\ ~Refused
    /\ journal' = [journal EXCEPT ![at] =
                     [question |-> Current(today), grade |-> "none",
                      decision |-> "none", complete |-> FALSE,
                      escalation |-> NoEscalation]]
    /\ Goto("grade")
    /\ UNCHANGED <<today, session, channel, record, faults>>

RaiseAwaiting ==
    /\ At("route")
    /\ Active(today) /\ Meets(at)
    /\ Refused
    /\ Idle
    /\ UNCHANGED <<today, session, channel, journal, record, faults>>

\* Mutant of Kept: the model is asked again, and its new answer kept.
KeptAnew(cached, fresh) == fresh

\* What the journal holds of a model's answer, given a fresh one.
Kept(cached, fresh) == IF cached = "none" THEN fresh ELSE cached

Grade ==
    /\ At("grade")
    /\ \E verdict \in Verdict :
         journal' = [journal EXCEPT ![at].grade = Kept(@, verdict)]
    /\ Goto("record")
    /\ UNCHANGED <<today, session, channel, record, faults>>

\* The grade row, the episode, and the quarantine of a held grade.
Record ==
    /\ At("record")
    /\ row' = [row EXCEPT ![at] = [question |-> Answered, verdict |-> journal[at].grade]]
    /\ quarantine' = IF journal[at].grade = "held" THEN quarantine \cup {at} ELSE quarantine
    /\ Goto("count")
    /\ UNCHANGED <<today, session, channel, journal, learning, adaptation, escalations, faults>>

\* record_answer_outcome, which counts a question once.
Count ==
    /\ At("count")
    /\ LET verdict == journal[at].grade
       IN  IF verdict = "held" \/ counted[Answered] # "none"
           THEN UNCHANGED learning
           ELSE /\ counted' = [counted EXCEPT ![Answered] = verdict]
                /\ mastery' = [mastery EXCEPT ![CompetencyOf[Answered]] =
                                  UpdateMastery(@, verdict = "right")]
    /\ Goto("advance")
    /\ UNCHANGED <<today, session, channel, journal, row, quarantine, adaptation,
                   escalations, faults>>

\* Mutant of Advance: the session that is stored is moved on.
AdvanceStored ==
    /\ At("advance")
    /\ LET q == Current(Answered[1])
       IN  session' = [session EXCEPT ![q[1]] =
                         [index |-> After(q)[2],
                          status |-> IF Last(q) THEN "completed" ELSE "in_progress"]]
    /\ Goto("decide")
    /\ UNCHANGED <<today, channel, journal, record, faults>>

\* The session of the journal, not the one stored, is moved on and put.
Advance ==
    /\ At("advance")
    /\ session' = [session EXCEPT ![Answered[1]] =
                     [index |-> After(Answered)[2],
                      status |-> IF Last(Answered) THEN "completed" ELSE "in_progress"]]
    /\ Goto("decide")
    /\ UNCHANGED <<today, channel, journal, record, faults>>

Practised == CompetencyOf[Answered]

Triages == {e \in escalations : e.kind = "escalate_struggle"}

\* days_since_struggle
DaysSinceStruggle ==
    IF Triages = {} THEN Never
    ELSE IF \E e \in Triages : e.status = "pending" THEN 0
    ELSE today - CHOOSE d \in {e.day : e \in Triages} : \A e \in Triages : e.day <= d

\* The engagement trigger takes three silent days, and the day of the answer
\* is none: below LastDay it cannot fire.
SignalsNow(guessing) ==
    Signals(mastery[Practised], DaysSinceStruggle, FALSE, guessing)

LeftBehind(action) == IF action \in Decision THEN action ELSE "continue"

Decide ==
    /\ At("decide")
    /\ mastery[Practised].attempts > 0
    /\ \E reply \in Proposed, guessing \in BOOLEAN :
         journal' = [journal EXCEPT ![at].decision =
                       Kept(@, LeftBehind(Decided(SignalsNow(guessing), reply)))]
    /\ Goto("adapt")
    /\ UNCHANGED <<today, session, channel, record, faults>>

\* Nothing of the competency was counted yet: there is nothing to decide on.
NothingToDecide ==
    /\ At("decide")
    /\ mastery[Practised].attempts = 0
    /\ Goto("complete")
    /\ UNCHANGED <<today, session, channel, journal, record, faults>>

\* apply_adaptation: its source is where the session stands by now, and one
\* that is saved already is not saved again.
Adapt ==
    /\ At("adapt")
    /\ adaptation' =
         IF journal[at].decision \in Adaptive
         THEN [adaptation EXCEPT ![CompetencyOf[Answered]] =
                 IF @.source = After(Answered) THEN @
                 ELSE [source |-> After(Answered), action |-> journal[at].decision]]
         ELSE adaptation
    /\ Goto(IF journal[at].decision \in Escalating THEN "compose" ELSE "complete")
    /\ UNCHANGED <<today, session, channel, journal, row, quarantine, learning,
                   escalations, faults>>

\* A new id is one that nobody has.
NewId ==
    1 + Cardinality({e.id : e \in escalations}
                      \cup {journal[m].escalation.id :
                               m \in {n \in Msg : /\ Journaled(n)
                                               /\ journal[n].escalation # NoEscalation}})

\* struggle_evidence: the wrong answers of the competency, or this one.
StruggleEvidence ==
    LET wrong == {row[m].question : m \in {n \in Msg : /\ row[n] # NoRow
                                                    /\ row[n].verdict = "wrong"}}
        ofIt == {q \in wrong : CompetencyOf[q] = Practised}
    IN  IF ofIt = {} THEN {Answered} ELSE ofIt

Composed ==
    LET kind == journal[at].decision
    IN  [id |-> NewId, of |-> at, kind |-> kind, day |-> today, status |-> "pending",
         evidence |-> IF kind = "escalate_struggle" THEN StruggleEvidence ELSE {}]

\* Mutant of Compose: an escalation is composed whenever the step runs.
ComposeAnew ==
    /\ At("compose")
    /\ journal' = [journal EXCEPT ![at].escalation = Composed]
    /\ Goto("escalate")
    /\ UNCHANGED <<today, session, channel, record, faults>>

Compose ==
    /\ At("compose")
    /\ journal' = [journal EXCEPT ![at].escalation =
                      IF @ = NoEscalation THEN Composed ELSE @]
    /\ Goto("escalate")
    /\ UNCHANGED <<today, session, channel, record, faults>>

\* put_escalation replaces the row of that id.
PutEscalation ==
    /\ At("escalate")
    /\ escalations' = {e \in escalations : e.id # journal[at].escalation.id}
                         \cup {journal[at].escalation}
    /\ Goto("complete")
    /\ UNCHANGED <<today, session, channel, journal, row, quarantine, learning,
                   adaptation, faults>>

\* The adult chooses an option under an escalation that was sent.  Only a
\* triage has options.
ResolveEscalation ==
    /\ At("idle")
    /\ \E e \in Triages :
         /\ e.of \in delivered
         /\ e.status = "pending"
         /\ escalations' = (escalations \ {e}) \cup {[e EXCEPT !.status = "resolved"]}
    /\ UNCHANGED <<today, session, channel, journal, row, quarantine, learning,
                   adaptation, pc, at, faults>>

Complete ==
    /\ At("complete")
    /\ journal' = [journal EXCEPT ![at].complete = TRUE]
    /\ Goto("deliver")
    /\ UNCHANGED <<today, session, channel, record, faults>>

\* The feedback is sent, and the next question with it.
Deliver ==
    /\ At("deliver")
    /\ shown' = shown \cup {After(Answered)}
    /\ delivered' = delivered \cup {at}
    /\ Goto("prepare")
    /\ UNCHANGED <<today, session, message, acked, prepared, journal, record, faults>>

Prepare ==
    /\ At("prepare")
    /\ prepared' = prepared \cup {at}
    /\ Goto("finish")
    /\ UNCHANGED <<today, session, shown, message, acked, delivered, journal, record, faults>>

Finish ==
    /\ At("finish")
    /\ acked' = acked \cup {at}
    /\ Idle
    /\ UNCHANGED <<today, session, shown, message, prepared, delivered, journal, record, faults>>

Crash ==
    /\ pc # "idle"
    /\ faults < MaxFaults
    /\ faults' = faults + 1
    /\ Idle
    /\ UNCHANGED <<today, session, channel, journal, record>>

Work ==
    \/ Pass \/ Blocked \/ NotAnAnswer \/ OpenJournal \/ RaiseAwaiting
    \/ Grade \/ Record \/ Count \/ Advance \/ Decide \/ NothingToDecide \/ Adapt
    \/ Compose \/ PutEscalation
    \/ Complete \/ Deliver \/ Prepare \/ Finish

Next ==
    \/ PlanSession \/ SendSession \/ MarkDelivered \/ NextDay \/ ResolveEscalation
    \/ \E m \in Msg : Send(m) \/ Take(m)
    \/ Work
    \/ Crash

\* A worker that took a message goes on, and one not acknowledged is taken
\* again: by the queue, or by the recovery of the daily close.
Fairness ==
    /\ WF_vars(Work)
    /\ \A m \in Msg : SF_vars(Take(m))

Safety == Init /\ [][Next]_vars
Spec == Safety /\ Fairness

-----------------------------------------------------------------------------
\* Questions of a day's capsule the session has moved past.
Done(d) ==
    IF session[d].status = "completed" THEN Length[d] ELSE session[d].index - 1

(***************************************************************************)
(* response graph: the session leaves a question only after its grade was  *)
(* recorded, and what the learning state counted is that grade, whatever   *)
(* another grading would have said after a crash; a held one counts        *)
(* nothing and waits in the quarantine.                                    *)
(***************************************************************************)
LeftMeansRecorded ==
    \A d \in Day : \A i \in 1..Done(d) :
        \E m \in Msg :
            /\ row[m].question = <<d, i>>
            /\ IF row[m].verdict = "held"
               THEN m \in quarantine /\ counted[<<d, i>>] = "none"
               ELSE counted[<<d, i>>] = row[m].verdict

\* The log of verdicts the grade rows of the questions left amount to.
VerdictOn(q) ==
    IF \E m \in Msg : row[m].question = q
    THEN row[CHOOSE m \in Msg : row[m].question = q].verdict
    ELSE "none"

SettledLog == [d \in Day |-> [i \in 1..Done(d) |-> VerdictOn(<<d, i>>)]]

Log == INSTANCE CapsuleLog WITH log <- SettledLog

\* Every answer settles one question, in order, for good (see CapsuleLog).
ImplementsLog == Log!LogSpec

\* An answer that was begun, and acknowledged when the screen blocked its replay.
Abandoned(m) == m \in acked /\ m \in Incomplete

(***************************************************************************)
(* Whatever crashes come in the way, a message that keeps being offered is *)
(* finished in the end: an unfinished answer holds the others up, but is   *)
(* never held up by them or by itself.  Only an answer that was abandoned  *)
(* may hold the others up for ever.                                        *)
(***************************************************************************)
EveryMessageFinishes ==
    \A m \in Msg : message[m] # NoMessage ~> (m \in acked \/ \E n \in Msg : Abandoned(n))

(***************************************************************************)
(* adaptation_policy.decide, escalate: when an answer of a child who is     *)
(* struggling is completed, an adult has been asked about that child,      *)
(* whatever the model proposed; an answer asks an adult once, however      *)
(* often its handling died, and only for a decision to ask.                *)
(***************************************************************************)
StrugglingIsTold ==
    /\ At("complete") /\ IsStruggling(mastery[Practised])
         /\ mastery[Practised].attempts >= MinSamples
       => Triages # {}
    /\ \A e, f \in escalations : e.of = f.of => e = f
    /\ \A e \in escalations : journal[e.of].decision = e.kind
    /\ \A m \in Msg : Journaled(m) /\ journal[m].complete
                        /\ journal[m].decision \in Escalating
                      => \E e \in escalations : e.of = m

(***************************************************************************)
(* The response graph is to "persist adaptations": when an answer whose    *)
(* decision is adaptive is completed, the adaptation of its competency     *)
(* says so.                                                                *)
(***************************************************************************)
DecisionIsSaved ==
    (At("complete") /\ journal[at].decision \in Adaptive)
        => adaptation[CompetencyOf[Answered]].action = journal[at].decision
=============================================================================
