-------------------------------- MODULE Turns --------------------------------
(***************************************************************************)
(* The texts of a family, from the queue to the reply and to what the      *)
(* tutor remembers of them: the turns of the day's capsule (route_turn)    *)
(* and those of a study sitting (answer_or_help), write by write.          *)
(*                                                                         *)
(* A family's messages are handled one at a time, under its lease, in any  *)
(* order; the handler may die between two writes, and the message is then  *)
(* handled again from what was written.  What a text means is read by a    *)
(* model each time it is handled, and nothing keeps what it read: only an  *)
(* answer to the capsule and a prepared reply are found again.             *)
(*                                                                         *)
(* The answers of a capsule are in detail in CapsuleAnswers, the sittings  *)
(* in StudySitting; here are the writes that the memory is made of.        *)
(***************************************************************************)
EXTENDS FamilyMemory, Outbox

CONSTANTS Text,             \* messages of the family
          Capsule, Sitting, \* the questions of the day's capsule and of a sitting
          Open,             \* the questions that a model grades
          Approach,         \* how something may be explained
          Retention,        \* how long notes and sittings are kept
          IdleTime,         \* how long a sitting may be left alone
          FirstTime, LastTime,  \* bounds: when a behaviour begins and ends
          Agendas,          \* bound: what happens in one behaviour
          MaxFaults         \* bound on crashes

\* No message is 0, a capsule asks nothing twice (plan_items), and a behaviour begins before its
\* first answer: the grades of before have ids of other sessions.
ASSUME TurnsAssumption ==
    /\ Retention \in Nat \ {0} /\ IdleTime \in Nat \ {0}
    /\ FirstTime \in Nat /\ LastTime \in Nat /\ MaxFaults \in Nat
    /\ Len(Capsule) > 0 /\ Len(Sitting) > 0
    /\ NoApproach \notin Approach /\ 0 \notin Text
    /\ Capsule \in Seq(Own) /\ \A i, j \in DOMAIN Capsule : Capsule[i] = Capsule[j] => i = j
    /\ \A a \in Agendas :
         /\ a.capsule \in {None, "planned", "delivered"} /\ a.sitting \in {None, "active"}
         /\ IsFiniteSet(a.history)
         /\ \A g \in a.history :
              /\ g.at \in Nat
              /\ g.id[1] \notin {"answer", "human"}
              /\ g.supersedes # <<>> => g.supersedes[1] \notin {"answer", "human"}

VARIABLES now,
          agenda,           \* the messages of this behaviour and what they may mean
          begun, done,      \* messages with a pending record; with a result
          prepared,         \* channel# records: what a message is replied
          capsule,          \* the day's session as put
          journal,          \* answer# records
          episodes,         \* episode# records
          held,             \* held answers that wait for an adult
          blocked,          \* quarantine rows of texts the screen stopped
          alarms,           \* distress# records
          boxes,            \* outbox# records
          trace,            \* the events logged, in their order
          unlogged,         \* messages whose handler died between their note
                            \* and its event (history)
          faults

inbox == <<agenda, begun, done>>
sessions == <<capsule, sitting, journal>>
record == <<grades, episodes, held>>
safety == <<blocked, alarms>>
memory == <<notes, trace, unlogged>>
reply == <<prepared, boxes>>
turnVars == <<now, inbox, sessions, record, safety, memory, reply, work, faults>>

-----------------------------------------------------------------------------
NoGrade == <<>>
NoNote == Note(None, 0, 0, None, None, FALSE, None, NoApproach, 0)
NoContext == [item |-> None, key |-> FALSE, correct |-> None, tried |-> {}]

Idle == [pc |-> "idle", of |-> 0, then |-> None, closing |-> None, again |-> FALSE,
         sitting |-> [status |-> None], note |-> NoNote, context |-> NoContext, say |-> <<>>]

Grade(id, item, correct, supersedes, at) ==
    [id |-> id, item |-> item, correct |-> correct, supersedes |-> supersedes, at |-> at]

Put(rows, key, row) == [k \in DOMAIN rows \cup {key} |-> IF k = key THEN row ELSE rows[k]]

TurnsInit ==
    /\ now = FirstTime /\ agenda \in Agendas
    /\ begun = {} /\ done = {} /\ prepared = <<>>
    /\ capsule = [index |-> 1, status |-> agenda.capsule]
    /\ sitting = [status |-> agenda.sitting, index |-> 1, last |-> FirstTime,
                  expires |-> FirstTime + Retention]
    /\ journal = <<>>
    /\ grades = agenda.history /\ episodes = {} /\ held = {}
    /\ blocked = 0 /\ alarms = {}
    /\ notes = {} /\ boxes = <<>> /\ trace = <<>> /\ unlogged = {}
    /\ work = Idle /\ faults = 0

-----------------------------------------------------------------------------
At(where) == work.pc = where

M == work.of

Says == agenda.texts[M]

Goto(where) == work' = [work EXCEPT !.pc = where]

PrepareToSay(said) == work' = [work EXCEPT !.pc = "prepare", !.say = said]

Today(session) == IF Day(now) = Day(FirstTime) THEN session ELSE [session EXCEPT !.status = None]

CapsuleToday == Today(capsule)

\* Sittings are looked for among today's.
SittingIsOpen == Today(sitting).status = "active"

IsExpired == SittingIsOpen /\ now - sitting.last >= IdleTime

State == PracticeState(CapsuleToday)

InFocus == Capsule[FocusIndex(capsule, Len(Capsule))]

CapsuleWindow == Window(notes, "capsule")

SittingWindow == Window(notes, "sitting")

\* Notes are written at different times.
Stamp == 1 + Max({0} \cup {n.at : n \in notes})

Traced(event) == trace' = Append(trace, event)

Saved(note, of) == [kind |-> "saved", session |-> note.session, note |-> note.of, of |-> of]

Loaded(context) ==
    [kind |-> "loaded", of |-> M, notes |-> Len(SittingWindow), tried |-> context.tried]

-----------------------------------------------------------------------------
Tick ==
    /\ now < agenda.until /\ now < LastTime /\ now' = now + 1
    /\ UNCHANGED <<inbox, sessions, record, safety, memory, reply, work, faults>>

\* Where the handling of a message goes on from what was written of it: a
\* journaled answer is screened again before its journal is looked for.
Resume(m) ==
    CASE m \in DOMAIN prepared -> "finish"
      [] m \notin DOMAIN prepared /\ m \in DOMAIN journal -> "screen"
      [] OTHER -> "route"

Take(m) ==
    /\ At("idle") /\ m \in DOMAIN agenda.texts /\ m \notin done
    /\ agenda.texts[m].at <= now
    /\ begun' = begun \cup {m}
    /\ work' = [Idle EXCEPT !.pc = Resume(m), !.of = m, !.again = m \in DOMAIN journal]
    /\ UNCHANGED <<now, agenda, done, sessions, record, safety, memory, reply, faults>>

\* Mutant of CloseThen: the sitting is put and its window left as it is.
CloseUncleared(status, said, then) ==
    work' = [work EXCEPT !.pc = "put", !.closing = "sitting", !.then = then, !.say = said,
                         !.sitting = [sitting EXCEPT !.status = status, !.last = now]]

\* Close the sitting with a status, its window first; then go on.
CloseThen(status, said, then) ==
    work' = [work EXCEPT !.pc = "clear", !.closing = "sitting", !.then = then, !.say = said,
                         !.sitting = [sitting EXCEPT !.status = status, !.last = now]]

\* A sitting found idle for too long is abandoned before anything else.
Sweep ==
    /\ At("route") /\ IsExpired /\ Says.kind # "button"
    /\ CloseThen("abandoned", <<>>, "route")
    /\ UNCHANGED <<now, inbox, sessions, record, safety, memory, reply, faults>>

\* Words of the session's notes that close_window still has to take out.
WordsOf(session) == {n \in notes : n.session = session /\ n.words}

\* close_window puts the notes again one by one.
ClearOne ==
    /\ At("clear")
    /\ \E n \in WordsOf(work.closing) :
         LET note == [n EXCEPT !.words = FALSE, !.expires = now + Retention]
         IN  /\ notes' = (notes \ {n}) \cup {note}
             /\ work' = [work EXCEPT !.pc = "cleared", !.note = note]
    /\ UNCHANGED <<now, inbox, sessions, record, safety, trace, unlogged, reply, faults>>

\* Each note that was put is then logged as saved.
LogSave ==
    /\ At("cleared") \/ At("remembered")
    /\ Traced(Saved(work.note, M))
    /\ Goto(IF At("cleared") THEN "clear" ELSE work.then)
    /\ UNCHANGED <<now, inbox, sessions, record, safety, notes, unlogged, reply, faults>>

Cleared ==
    /\ At("clear") /\ WordsOf(work.closing) = {}
    /\ Goto(IF work.closing = "sitting" THEN "put" ELSE "prepare")
    /\ UNCHANGED <<now, inbox, sessions, record, safety, memory, reply, faults>>

\* put_study_session.
PutSitting ==
    /\ At("put")
    /\ sitting' = [work.sitting EXCEPT !.expires = now + Retention]
    /\ Goto(work.then)
    /\ UNCHANGED <<now, inbox, capsule, journal, record, safety, memory, reply, faults>>

-----------------------------------------------------------------------------
\* The screener is remote and stops what it cannot be asked about: it may stop
\* in one handling what it lets pass in another.
MayBeStopped == "stopped" \in Says.reads

\* What the screen stops is put in quarantine and read by nobody else.
HoldUnsafe ==
    /\ At("route") /\ ~IsExpired
    /\ Says.kind = "unsafe" \/ (Says.kind \in {"words", "option"} /\ MayBeStopped)
    /\ blocked' = blocked + 1
    /\ PrepareToSay(<<"turn_blocked">>)
    /\ UNCHANGED <<now, inbox, sessions, record, alarms, memory, reply, faults>>

\* The model reads the text, now as this and then as that.
ReadAs(intent) == Says.kind \in {"words", "option"} /\ intent \in Says.reads

InSitting == At("route") /\ SittingIsOpen /\ ~IsExpired

InCapsule == At("route") /\ ~SittingIsOpen

\* A text read as distress is recorded and answered; a sitting stops for it.
RaiseAlarm ==
    /\ \/ InCapsule /\ ReadAs("distress")
       \/ InSitting /\ Says.kind = "words" /\ ReadAs("distress")
    /\ alarms' = alarms \cup {M}
    /\ IF SittingIsOpen THEN CloseThen("closed", <<"distress_child", "distress_parent">>, "prepare")
       ELSE PrepareToSay(<<"distress_child", "distress_parent">>)
    /\ UNCHANGED <<now, inbox, sessions, record, blocked, memory, reply, faults>>

-----------------------------------------------------------------------------
(* Turns of a sitting. *)

Question == Sitting[sitting.index]

\* A text that names an option is graded without asking a model, and so is
\* one that it reads as an answer; but not one written before the question.
AnswerSitting ==
    /\ InSitting
    /\ Says.kind = "option" \/ ReadAs("answer")
    /\ IF Says.at < sitting.last THEN PrepareToSay(<<"study_out_of_step", "question">>)
       ELSE Goto("studygrade")
    /\ UNCHANGED <<now, inbox, sessions, record, safety, memory, reply, faults>>

\* Rows of the log by their id: one written again replaces the one before.
Logged(rows, grade) == {g \in rows : g.id # grade.id} \cup {grade}

Correct == IF Says.right THEN "yes" ELSE "no"

GradeInSitting ==
    /\ At("studygrade")
    /\ grades' = Logged(grades, Grade(<<"study", sitting.index>>, Question, Correct, NoGrade, now))
    /\ Goto("studyepisode")
    /\ UNCHANGED <<now, inbox, sessions, episodes, held, safety, memory, reply, faults>>

\* Its key has the time of this handling, so each handling leaves its own.
EpisodeInSitting ==
    /\ At("studyepisode")
    /\ episodes' = episodes \cup
         {[session |-> "sitting", item |-> Question, stamp |-> <<M, faults>>, correct |-> Correct]}
    /\ Goto("serve")
    /\ UNCHANGED <<now, inbox, sessions, grades, held, safety, memory, reply, faults>>

\* serve_next: the next question, or the end of the sitting.
Serve ==
    /\ At("serve")
    /\ IF sitting.index = Len(Sitting)
       THEN CloseThen("closed", <<"study_closed">>, "prepare")
       ELSE work' = [work EXCEPT !.pc = "put", !.then = "prepare", !.say = <<"question">>,
                       !.sitting = [sitting EXCEPT !.index = @ + 1, !.last = now]]
    /\ UNCHANGED <<now, inbox, sessions, record, safety, memory, reply, faults>>

CloseSitting ==
    /\ InSitting
    /\ Says.kind = "done" \/ (Says.kind = "words" /\ ReadAs("stop"))
    /\ CloseThen("closed", <<"study_closed">>, "prepare")
    /\ UNCHANGED <<now, inbox, sessions, record, safety, memory, reply, faults>>

\* Nobody could read it, or the answer it was read as is no option.
UnreadInSitting ==
    /\ InSitting /\ Says.kind = "words" /\ (ReadAs(None) \/ ReadAs("answer"))
    /\ PrepareToSay(<<"study_not_an_answer", "question">>)
    /\ UNCHANGED <<now, inbox, sessions, record, safety, memory, reply, faults>>

NoteOf(session, intent, item, explained) ==
    Note(session, M, 0, intent, item, TRUE, None, explained, 0)

ExplainInSitting ==
    /\ InSitting /\ Says.kind = "words" /\ ReadAs("explanation")
    /\ LET context == StudyContext(Question, SittingWindow)
       IN  \E approach \in Approach \cup {NoApproach} :
             /\ work' = [work EXCEPT !.pc = "remember", !.context = context, !.then = "prepare",
                           !.note = NoteOf("sitting", "explanation", Question, approach),
                           !.say = <<ExplanationSaid(approach, FALSE), "question">>]
             /\ Traced(Loaded(context))
    /\ UNCHANGED <<now, inbox, sessions, record, safety, notes, unlogged, reply, faults>>

TalkInSitting ==
    /\ InSitting /\ Says.kind = "words"
    /\ \E intent \in {"another_question", "about_the_practice", "something_else"} :
         /\ ReadAs(intent)
         /\ work' = [work EXCEPT !.pc = "remember", !.then = "prepare", !.say = <<"question">>,
                       !.note = NoteOf("sitting", intent, Question, NoApproach)]
    /\ UNCHANGED <<now, inbox, sessions, record, safety, memory, reply, faults>>

-----------------------------------------------------------------------------
(* Turns of the capsule, or of no practice at all. *)

\* A session of the day is there to remember things in.
HasSession == CapsuleToday.status # None

NotUnderstood ==
    /\ InCapsule /\ ReadAs(None)
    /\ PrepareToSay(<<"turn_not_understood">>)
    /\ UNCHANGED <<now, inbox, sessions, record, safety, memory, reply, faults>>

\* The question is in focus from when it was composed.
HasFocus == State # "not_sent" \/ CapsuleToday.status = "planned"

\* What is said to the family is remembered, if there is a session for it.
SayAndRemember(note, context, said) ==
    work' = [work EXCEPT !.pc = IF HasSession THEN "remember" ELSE "prepare", !.then = "prepare",
                         !.note = note, !.context = context, !.say = said]

Explain ==
    /\ InCapsule /\ HasFocus /\ ReadAs("explanation")
    /\ LET context == ExplainContext(capsule, FocusIndex(capsule, Len(Capsule)), InFocus,
                                     notes, CapsuleWindow)
       IN  \E approach \in Approach \cup {NoApproach} :
             SayAndRemember(NoteOf("capsule", "explanation", InFocus, approach), context,
                            <<ExplanationSaid(approach, context.key)>>)
    /\ UNCHANGED <<now, inbox, sessions, record, safety, memory, reply, faults>>

Talk ==
    /\ InCapsule
    /\ \E intent \in Intent \ {"distress"} :
         /\ ReadAs(intent)
         /\ intent = "answer" => State # "open"
         /\ intent = "explanation" => ~HasFocus
         /\ SayAndRemember(
              NoteOf("capsule", intent, IF HasFocus THEN InFocus ELSE None, NoApproach), NoContext,
              IF intent = "another_question" /\ State = "open" THEN <<"question">>
              ELSE <<ReplyKey(intent, State)>>)
    /\ UNCHANGED <<now, inbox, sessions, record, safety, memory, reply, faults>>

\* /done without a sitting, and buttons of questions that are not current.
Nothing ==
    /\ \/ InCapsule /\ Says.kind = "done"
       \/ At("route") /\ Says.kind = "button" /\ ~(State = "open" /\ Says.about = InFocus)
    /\ PrepareToSay(IF Says.kind = "done" THEN <<"study_none_open">> ELSE <<>>)
    /\ UNCHANGED <<now, inbox, sessions, record, safety, memory, reply, faults>>

-----------------------------------------------------------------------------
(* An answer to the capsule. *)

IsAnswer ==
    \/ InCapsule /\ ReadAs("answer")
    \/ At("route") /\ Says.kind = "button" /\ Says.about = InFocus

\* Another answer that is not finished has to be first: this one raises.
Awaiting == \E m \in DOMAIN journal : ~journal[m].complete

OpenJournal ==
    /\ IsAnswer /\ State = "open" /\ ~Awaiting
    /\ journal' = Put(journal, M, [index |-> capsule.index, at |-> now, grade |-> None,
                                   complete |-> FALSE])
    /\ Goto("grade")
    /\ UNCHANGED <<now, inbox, capsule, sitting, record, safety, memory, reply, faults>>

Raise ==
    /\ IsAnswer /\ State = "open" /\ Awaiting
    /\ work' = Idle
    /\ UNCHANGED <<now, inbox, sessions, record, safety, memory, reply, faults>>

Pass ==
    /\ At("screen")
    /\ Goto(IF journal[M].complete THEN "feedback" ELSE "grade")
    /\ UNCHANGED <<now, inbox, sessions, record, safety, memory, reply, faults>>

\* handle_answer screens the answer, also one that it has begun: one that is
\* stopped is put in quarantine, and nothing is said.
BlockAnswer ==
    /\ At("screen") \/ (IsAnswer /\ State = "open")
    /\ MayBeStopped
    /\ blocked' = blocked + 1
    /\ PrepareToSay(<<>>)
    /\ UNCHANGED <<now, inbox, sessions, record, alarms, memory, reply, faults>>

J == journal[M]

Answered == Capsule[J.index]

GradeAnswer ==
    /\ At("grade")
    /\ \E grade \in IF Answered \in Open THEN {"yes", "no", "held"} ELSE {Correct} :
         journal' = [journal EXCEPT ![M].grade = IF @ = None THEN grade ELSE @]
    /\ Goto("log")
    /\ UNCHANGED <<now, inbox, capsule, sitting, record, safety, memory, reply, faults>>

LogGrade ==
    /\ At("log")
    /\ grades' = Logged(grades, Grade(<<"answer", J.index>>, Answered, J.grade, NoGrade, J.at))
    /\ Goto("episode")
    /\ UNCHANGED <<now, inbox, sessions, episodes, held, safety, memory, reply, faults>>

\* The episode has the time of the journal, so it is put in its place again.
LogEpisode ==
    /\ At("episode")
    /\ episodes' = episodes \cup
         {[session |-> "capsule", item |-> Answered, stamp |-> <<M, 0>>, correct |-> J.grade]}
    /\ Goto(IF J.grade = "held" THEN "hold" ELSE "advance")
    /\ UNCHANGED <<now, inbox, sessions, grades, held, safety, memory, reply, faults>>

HoldGrade ==
    /\ At("hold")
    /\ held' = held \cup {[of |-> M, index |-> J.index, at |-> J.at]}
    /\ Goto("advance")
    /\ UNCHANGED <<now, inbox, sessions, grades, episodes, safety, memory, reply, faults>>

\* The session of the journal is moved on and put.
Advance ==
    /\ At("advance")
    /\ capsule' = IF J.index < Len(Capsule)
                  THEN [index |-> J.index + 1, status |-> "in_progress"]
                  ELSE [index |-> J.index, status |-> "completed"]
    /\ Goto("complete")
    /\ UNCHANGED <<now, inbox, sitting, journal, record, safety, memory, reply, faults>>

Complete ==
    /\ At("complete")
    /\ journal' = [journal EXCEPT ![M].complete = TRUE]
    /\ Goto("feedback")
    /\ UNCHANGED <<now, inbox, capsule, sitting, record, safety, memory, reply, faults>>

\* An adult decides on a held answer whose prompt was sent: a row of its own
\* replaces the one that was held.
Release ==
    /\ At("idle")
    /\ \E h \in held : \E correct \in {"yes", "no"} :
         /\ <<"answer", h.of>> \in DOMAIN boxes /\ boxes[<<"answer", h.of>>].receipts > 0
         /\ grades' = Logged(grades, Grade(<<"human", h.index>>, Capsule[h.index], correct,
                                           <<"answer", h.index>>, h.at))
         /\ held' = held \ {h}
    /\ UNCHANGED <<now, inbox, sessions, episodes, safety, memory, reply, work, faults>>

-----------------------------------------------------------------------------
\* The note of a turn, at the time it is written: written again, it moves.
Remember ==
    /\ At("remember")
    /\ LET note == [work.note EXCEPT !.at = Stamp, !.expires = now + Retention]
       IN  /\ notes' = {n \in notes : n.session # note.session \/ n.of # M} \cup {note}
           /\ work' = [work EXCEPT !.pc = "remembered", !.note = note]
    /\ UNCHANGED <<now, inbox, sessions, record, safety, trace, unlogged, reply, faults>>

\* Mutant of Verdict: an answer that nobody graded was wrong.
VerdictGuessed(grade) == IF grade = "held" THEN "no" ELSE grade

\* What a note says of an answer: nothing while it is held.
Verdict(grade) == IF grade = "held" THEN None ELSE grade

\* remember_answer, after an answer that was graded in this handling; the
\* last answer of the capsule then closes its window.
AnswerIsRemembered ==
    /\ At("told")
    /\ work' = IF work.again THEN [work EXCEPT !.pc = "prepare"]
               ELSE [work EXCEPT !.pc = "remember", !.closing = "capsule",
                       !.then = IF capsule.status = "completed" THEN "clear" ELSE "prepare",
                       !.note = [NoteOf("capsule", "answer", Answered, NoApproach)
                                   EXCEPT !.correct = Verdict(J.grade)]]
    /\ UNCHANGED <<now, inbox, sessions, record, safety, memory, reply, faults>>

Prepare ==
    /\ At("prepare")
    /\ prepared' = Put(prepared, M, work.say)
    /\ Goto("finish")
    /\ UNCHANGED <<now, inbox, sessions, record, safety, memory, boxes, faults>>

BoxKey == IF At("feedback") THEN <<"answer", M>> ELSE <<"channel", M>>

Messages == IF At("feedback") THEN <<"feedback">> ELSE prepared[M]

Box == IF BoxKey \in DOMAIN boxes THEN boxes[BoxKey] ELSE NoBox

OpenBox ==
    /\ At("feedback") \/ At("finish")
    /\ ~IsOpen(Box) /\ Messages # <<>>
    /\ boxes' = Put(boxes, BoxKey, Opened(Box, Messages))
    /\ UNCHANGED <<now, inbox, sessions, record, safety, memory, prepared, work, faults>>

\* One message sent and receipted, with the events that log it.
SendOne ==
    /\ At("feedback") \/ At("finish")
    /\ IsOpen(Box) /\ ~NothingLeft(Box)
    /\ boxes' = [boxes EXCEPT ![BoxKey] = Receipted(@)]
    /\ Traced([kind |-> "delivery", box |-> BoxKey, of |-> M])
    /\ UNCHANGED <<now, inbox, sessions, record, safety, notes, unlogged, prepared, work, faults>>

Delivered == Messages = <<>> \/ (IsOpen(Box) /\ NothingLeft(Box))

Told ==
    /\ At("feedback") /\ Delivered
    /\ Goto("told")
    /\ UNCHANGED <<now, inbox, sessions, record, safety, memory, reply, faults>>

Finish ==
    /\ At("finish") /\ Delivered
    /\ done' = done \cup {M}
    /\ work' = Idle
    /\ UNCHANGED <<now, agenda, begun, sessions, record, safety, memory, reply, faults>>

Crash ==
    /\ ~At("idle") /\ faults < agenda.faults /\ faults < MaxFaults
    /\ faults' = faults + 1
    /\ unlogged' = IF At("remembered") THEN unlogged \cup {M} ELSE unlogged
    /\ work' = Idle
    /\ UNCHANGED <<now, inbox, sessions, record, safety, notes, trace, reply>>

TurnsNext ==
    \/ Tick \/ (\E m \in Text : Take(m))
    \/ Sweep \/ ClearOne \/ LogSave \/ Cleared \/ PutSitting
    \/ HoldUnsafe \/ RaiseAlarm
    \/ AnswerSitting \/ GradeInSitting \/ EpisodeInSitting \/ Serve
    \/ CloseSitting \/ UnreadInSitting \/ ExplainInSitting \/ TalkInSitting
    \/ NotUnderstood \/ Explain \/ Talk \/ Nothing
    \/ OpenJournal \/ Pass \/ BlockAnswer \/ Raise \/ GradeAnswer \/ LogGrade \/ LogEpisode
    \/ HoldGrade \/ Advance \/ Complete \/ Release
    \/ Remember \/ AnswerIsRemembered \/ Prepare \/ OpenBox \/ SendOne \/ Told \/ Finish
    \/ Crash
=============================================================================
