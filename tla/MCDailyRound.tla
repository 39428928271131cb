---------------------------- MODULE MCDailyRound ----------------------------
(***************************************************************************)
(* Two families of one section.  The days modelled are the last of a week  *)
(* and the first of the next; the days before them are in the grade log.   *)
(***************************************************************************)
EXTENDS DailyRound

Question(c, kind, difficulty, family, variant) ==
    [competency |-> c, kind |-> kind, difficulty |-> difficulty, family |-> family,
     variant |-> variant, stem |-> 1]

\* Competencies 1 and 2 are of the child's grade, 3 is not.
MCItemOf ==
    <<Question(1, "mcq", 2, 0, FALSE), Question(1, "open", 2, 0, FALSE),
      Question(2, "mcq", 1, 0, FALSE), Question(2, "open", 3, 0, FALSE),
      Question(2, "mcq", 3, 2, FALSE), Question(3, "mcq", 1, 0, FALSE),
      Question(1, "open", 1, 1, TRUE)>>

Answer(n, f, d, i, verdict) ==
    [id |-> <<"past", n, 0>>, student |-> f, day |-> d, item |-> i, verdict |-> verdict,
     supersedes |-> <<>>]

\* The first family practised and then stopped; nobody answered on day 24.  The
\* answers to question 3 were right but for one that is held.
MCHistory ==
    {Answer(1, 1, 21, 3, "right"), Answer(2, 1, 22, 3, "right"), Answer(3, 2, 21, 3, "right"),
     Answer(4, 2, 22, 3, "right"), Answer(5, 2, 23, 3, "right"), Answer(6, 2, 25, 4, "wrong"),
     Answer(7, 2, 26, 3, "held")}

MCHeldOf ==
    <<[what |-> "quarantine", family |-> 2, day |-> 26, item |-> 3, releasable |-> TRUE,
       grade |-> <<"past", 7, 0>>],
      [what |-> "escalation", family |-> 1, day |-> 26, item |-> 1, releasable |-> FALSE,
       grade |-> <<>>],
      [what |-> "quarantine", family |-> 1, day |-> 26, item |-> 1, releasable |-> FALSE,
       grade |-> <<>>]>>

Seen(i, due, lapses) == [item |-> i, due |-> due, lapses |-> lapses]

Agenda == [alarms |-> {}, held |-> {}, closing |-> FALSE, exams |-> {}, pauses |-> 0]

MCAgendas ==
    {[Agenda EXCEPT !.alarms = {<<1, 27>>, <<1, 28>>}],
     [Agenda EXCEPT !.alarms = {<<1, 28>>}, !.exams = {<<1, 30>>}, !.pauses = 1],
     [Agenda EXCEPT !.alarms = {<<1, 28>>}, !.closing = TRUE],
     [Agenda EXCEPT !.alarms = {<<1, 28>>}, !.held = {2}],
     [Agenda EXCEPT !.held = {1}, !.closing = TRUE],
     [Agenda EXCEPT !.held = {1, 2}], [Agenda EXCEPT !.held = {3}],
     [Agenda EXCEPT !.closing = TRUE, !.pauses = 1]}

MCRestDays == <<{}, {6}>>
MCSpaced == <<{Seen(1, 26, 0), Seen(2, 26, 1), Seen(4, 30, 0)}, {Seen(3, 20, 0)}>>
MCKnown == <<(1 :> 40) @@ (2 :> 80), (1 :> 60)>>
MCTunings == <<{}, {[competency |-> 2, difficulty |-> 3]}>>
MCForced == <<{2}, {}>>
MCSectionOf == <<1, 1>>
MCStruggling == <<{1}, {1}>>
=============================================================================
