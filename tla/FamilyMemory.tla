----------------------------- MODULE FamilyMemory -----------------------------
(***************************************************************************)
(* What is remembered of a family's turns, and what is made of it: what a  *)
(* text is about and what an explanation is given to work with, and what   *)
(* the page of the family's memory shows.  Turns writes the rows and       *)
(* TurnMemory reads the page.                                              *)
(*                                                                         *)
(* A note is what one message left in the memory of a session: when, what  *)
(* the message meant, the question, its words, the verdict if it was an    *)
(* answer, the approach if it was explained something.  Words are those of *)
(* a message, so they are there or not; a verdict is "none" when no grade  *)
(* was given.                                                              *)
(*                                                                         *)
(* The page has the grades that count (effective_grades), the totals by    *)
(* topic (learning_topics) and by day (learning_evolution), and the        *)
(* episodes, in which each note is shown with the question, the verdict,   *)
(* what the family was told and what had been tried before                 *)
(* (learning_episodes).  The totals are computed apart, from the same      *)
(* grades; what a note is linked to is found in the events, which are      *)
(* logged beside the rows and of which only the last are read.             *)
(***************************************************************************)
EXTENDS Naturals, Sequences, FiniteSets, SequencesExt, Functions

CONSTANTS MaxNotes,         \* how many notes of a session are remembered
          DayLength,        \* how many moments of the model a day has
          TopicOf,          \* the competency of a question
          Own,              \* the questions of the family; others are of no page
          Content,          \* what a question asks: that of its copies as well
          WindowDays,       \* how many days the page has one by one
          FeedLength        \* how many events are read

ASSUME MemoryAssumption ==
    /\ MaxNotes \in Nat \ {0} /\ DayLength \in Nat \ {0}
    /\ WindowDays \in Nat \ {0} /\ FeedLength \in Nat
    /\ IsFiniteSet(Own)

VARIABLES sitting,          \* the study sitting as put
          grades,           \* the grade log
          notes,            \* turn# records
          work,             \* the handler: where it is and what it holds
          page              \* the records that the page has read

None == "none"

Day(t) == t \div DayLength

Intent == {"answer", "explanation", "another_question", "stop",
           "about_the_practice", "something_else", "distress"}

NoApproach == None

Note(session, of, at, intent, item, words, correct, explained, expires) ==
    [session |-> session, of |-> of, at |-> at, intent |-> intent, item |-> item,
     words |-> words, correct |-> correct, explained |-> explained, expires |-> expires]

-----------------------------------------------------------------------------
\* A session is where it stands in its questions and its status.
PracticeState(session) ==
    CASE session.status \in {None, "planned"} -> "not_sent"
      [] session.status \in {"delivered", "in_progress"} -> "open"
      [] OTHER -> "finished"

\* The question in focus: the one it stands at, or the last of all.
FocusIndex(session, length) == IF session.index < length THEN session.index ELSE length

\* Mutant of WasAnswered: the question that waits for its answer counts too.
WasAnsweredEarly(session, index) ==
    index <= session.index \/ session.status = "completed"

WasAnswered(session, index) ==
    index < session.index \/ session.status = "completed"

-----------------------------------------------------------------------------
InOrder(remembered) == SetToSortSeq(remembered, LAMBDA a, b : a.at < b.at)

LastOf(s, n) == IF Len(s) <= n THEN s ELSE SubSeq(s, Len(s) - n + 1, Len(s))

\* What is remembered of a session: its last notes.
Window(remembered, session) == LastOf(InOrder({n \in remembered : n.session = session}), MaxNotes)

\* The approaches that notes say were tried.
Approaches(remembered) == {n.explained : n \in {o \in remembered : o.explained # NoApproach}}

TriedApproaches(window) == Approaches(ToSet(window))

LastAnswer(window, item) ==
    LET answers == SelectSeq(window, LAMBDA n : n.intent = "answer" /\ n.item = item)
    IN  IF answers = <<>> THEN None ELSE Last(answers).correct

\* What the model that explains is given: of the question, of what was said
\* about it, and whether the answer goes with it.
ExplainContext(session, index, item, remembered, window) ==
    [item |-> item, key |-> WasAnswered(session, index),
     correct |-> LastAnswer(window, item), tried |-> TriedApproaches(window)]

\* In a sitting every question is open until it is answered.
StudyContext(item, window) ==
    [item |-> item, key |-> FALSE, correct |-> None, tried |-> TriedApproaches(window)]

\* The fixed reply to an intent, in a state of the practice.
ReplyKey(intent, state) ==
    CASE intent = "stop" -> "turn_stop"
      [] intent = "about_the_practice" -> "turn_about_practice"
      [] intent = "something_else" -> "turn_off_task"
      [] intent = "another_question" /\ state = "finished" -> "turn_more_tomorrow"
      [] OTHER -> IF state = "finished" THEN "turn_practice_done" ELSE "turn_practice_not_sent"

\* What the family reads of an explanation: the model's, or failing that the
\* rationale, or that there is none.
ExplanationSaid(approach, key) ==
    CASE approach # NoApproach -> "explanation"
      [] key -> "rationale"
      [] OTHER -> "turn_explain_unavailable"

-----------------------------------------------------------------------------
(* Grades. *)

Effective(log) ==
    {g \in log : g.id \notin {h.supersedes : h \in log}}

IsHeld(g) == g.correct = "held"

\* The sum of what the keys of a function have.
AddedUp(f) == FoldFunction(+, 0, f)

Totals(observed) ==
    [assessed |-> Cardinality({o \in observed : ~IsHeld(o)}),
     correct |-> Cardinality({o \in observed : o.correct = "yes"}),
     held |-> Cardinality({o \in observed : IsHeld(o)}),
     contents |-> Cardinality({Content[o.item] : o \in {p \in observed : ~IsHeld(p)}})]

\* counts: every grade that counts, whatever it is about.
Counts(log) == LET effective == Effective(log)
                  IN  [assessed |-> Cardinality(effective),
                       correct |-> Cardinality({g \in effective : g.correct = "yes"}),
                       held |-> Cardinality({g \in effective : IsHeld(g)})]

\* The grades of the family's own questions, and those of a topic.
OfFamily(log) == {g \in Effective(log) : g.item \in Own}

Topics == {TopicOf[i] : i \in Own}

OfTopic(log, c) == {g \in OfFamily(log) : TopicOf[g.item] = c}

Topic(log, remembered, c) ==
    LET totals == Totals(OfTopic(log, c))
    IN  [assessed |-> totals.assessed, correct |-> totals.correct, held |-> totals.held,
         contents |-> totals.contents,
         explanations |->
           Cardinality({n \in remembered : n.explained # NoApproach /\ n.item \in Own
                                       /\ TopicOf[n.item] = c})]

-----------------------------------------------------------------------------
(* Days. *)

\* What is observed until the last day of the page.
Observations(log, end) == {g \in OfFamily(log) : Day(g.at) <= end}

First(end) == IF end < WindowDays THEN 0 ELSE end + 1 - WindowDays

\* Mutant of Baseline: the first day of the window is in it too.
BaselineInclusive(observed, end) == {o \in observed : Day(o.at) <= First(end)}

\* What was observed before the days that are shown.
Baseline(observed, end) == {o \in observed : Day(o.at) < First(end)}

OnDay(observed, day) == {o \in observed : Day(o.at) = day}

\* The totals of the baseline and of the days up to one, added up day by day.
Cumulative(observed, end, day) ==
    LET days == First(end)..day
        Sum(field) == Totals(Baseline(observed, end))[field]
                        + AddedUp([d \in days |-> Totals(OnDay(observed, d))[field]])
    IN  [assessed |-> Sum("assessed"), correct |-> Sum("correct"),
         contents |-> Cardinality({Content[o.item] :
           o \in {p \in observed : ~IsHeld(p) /\
                    (p \in Baseline(observed, end) \/ Day(p.at) \in days)}})]

Evolution(log, end) ==
    LET observed == Observations(log, end)
    IN  [summary |-> Totals(observed),
         baseline |-> Totals(Baseline(observed, end)),
         cumulative |-> [d \in First(end)..end |-> Cumulative(observed, end, d)]]

\* The last day of the page: that of when it was asked for.
End == Day(page.at)

-----------------------------------------------------------------------------
(* Episodes. *)

\* Rows that are not expired, of those that expire.
Unexpired(rows, now) == {r \in rows : r.expires > now}

\* Events are known by their places in the log.  Those that belong to messages
\* and deliveries that are known, and the last of them, which are read.
Owned(log, messages, boxes) ==
    {k \in DOMAIN log : \/ log[k].of \in messages
                        \/ log[k].kind = "delivery" /\ log[k].box \in DOMAIN boxes}

OwnedEvents(log, messages, boxes) ==
    LET owned == Owned(log, messages, boxes)
    IN  {k \in owned : Cardinality({j \in owned : j >= k}) <= FeedLength}

SavesOf(log, events, n) ==
    {k \in events : log[k].kind = "saved" /\ log[k].session = n.session /\ log[k].note = n.of}

\* Mutant of Correlation: the last event that saved the note is taken.
CorrelationLast(log, events, n) ==
    LET saves == SavesOf(log, events, n) IN IF saves = {} THEN 0 ELSE log[Max(saves)].of

\* The message in whose handling the note was saved, if an event tells.
Correlation(log, events, n) ==
    LET saves == SavesOf(log, events, n) IN IF saves = {} THEN 0 ELSE log[Min(saves)].of

\* The deliveries that the events tie to the handling that saved the note:
\* what was sent in them is shown as what was said to it.
ShownBoxes(log, events, boxes, n) ==
    {b \in DOMAIN boxes : \E k \in events :
       /\ log[k].kind = "delivery" /\ log[k].box = b
       /\ log[k].of = Correlation(log, events, n)}

\* The notes before this one in its session, the last that would be loaded.
Previous(remembered, n) ==
    LastOf(InOrder({o \in remembered : o.session = n.session /\ o.at < n.at}), MaxNotes)

LoadsOf(log, events, of) == {k \in events : log[k].kind = "loaded" /\ log[k].of = of}

\* What had been tried before, shown only if as many notes and approaches were
\* loaded as there seem to have been.
PreviousApproaches(remembered, log, events, n) ==
    LET loads == LoadsOf(log, events, Correlation(log, events, n))
        previous == Previous(remembered, n)
    IN  IF /\ loads # {}
           /\ log[Min(loads)].notes = Len(previous)
           /\ Cardinality(log[Min(loads)].tried) = Cardinality(TriedApproaches(previous))
        THEN TriedApproaches(previous) ELSE {}

\* Questions whose answer is shown by a note.
AnsweredIn(remembered) ==
    {<<n.session, n.item>> :
       n \in {o \in remembered : o.intent = "answer" /\ o.correct # None}}

\* Answers that no note shows, shown from their episode.
ShownEpisodes(episodes, remembered) ==
    {e \in episodes : e.item \in Own /\ <<e.session, e.item>> \notin AnsweredIn(remembered)}

-----------------------------------------------------------------------------
(***************************************************************************)
(* put_study_session: a sitting that is over keeps none of the child's     *)
(* words, wherever the handler that closed it died.                        *)
(***************************************************************************)
ClosedSittingKeepsNoWords ==
    sitting.status \in {"closed", "abandoned"} =>
        \A n \in notes : n.session = "sitting" => ~n.words

(***************************************************************************)
(* explain_context: the answer of a question goes to the model that        *)
(* explains it only after an answer of the child to it was graded.         *)
(***************************************************************************)
KeyAfterAnswer ==
    work.context.key => \E g \in grades : g.id[1] = "answer" /\ g.item = work.context.item

(***************************************************************************)
(* learning_episodes: an answer to the capsule that left an episode is     *)
(* shown once, by its note or by its episode and never by both; and the    *)
(* verdict of a note is the one that the totals of the same page count,    *)
(* although the grades are read later than the notes, and an adult may     *)
(* have decided on a held answer in between.                               *)
(***************************************************************************)
AnswersAreShownAsCounted ==
    page.open =>
        /\ \A e \in page.episodes : e.session = "capsule" /\ e.item \in Own =>
             Cardinality({n \in page.notes : n.intent = "answer" /\ n.item = e.item
                                             /\ n.correct # None})
               + Cardinality({f \in ShownEpisodes(page.episodes, page.notes) :
                                f.session = e.session /\ f.item = e.item}) = 1
        /\ \A n \in page.notes : n.correct # None =>
             {g.correct : g \in {h \in Effective(grades) :
                                   h.id[1] \in {"answer", "human"} /\ h.item = n.item}}
               = {n.correct}

(***************************************************************************)
(* project_memory: the totals of the family, of its topics and of its days *)
(* are of the same answers, each counted once.  Two kinds of answer make   *)
(* the family's total larger: those to questions that are not its own, and *)
(* those of a day that began after the page was asked for.                 *)
(***************************************************************************)
TotalsAgree ==
    page.open =>
        LET counts == Counts(grades)
            evolution == Evolution(grades, End)
            other == {g \in Effective(grades) : g.item \notin Own}
            later == {g \in OfFamily(grades) : Day(g.at) > End}
            Sum(field) == AddedUp([c \in Topics |-> Topic(grades, page.notes, c)[field]])
        IN  /\ counts.assessed = Sum("assessed") + Sum("held") + Cardinality(other)
            /\ Sum("assessed") + Sum("held") =
                 evolution.summary.assessed + evolution.summary.held + Cardinality(later)
            /\ \A field \in {"assessed", "correct", "contents"} :
                 evolution.cumulative[End][field] = evolution.summary[field]
=============================================================================
