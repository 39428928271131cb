--------------------------- MODULE AdultDecisions ---------------------------
(***************************************************************************)
(* What an adult decides by pressing a button: whether a held answer is    *)
(* right, and what to do about an alert.  The choice is journaled before   *)
(* any of its effects, and it is the journal that they follow.             *)
(***************************************************************************)
EXTENDS DailyState

CONSTANT LightDays          \* 7 in the code

Approve == 1
Reject == 2
TeacherNote == 1
ReduceLoad == 2

\* What a drafted note says, as against an option.
Note == 3

\* Each button has a key of its own, so both may be published.
Press(e, option) ==
    /\ e \in agenda.held /\ <<e, option>> \notin pressed
    /\ pressed' = pressed \cup {<<e, option>>}
    /\ queue' = queue \cup {Event("decide", e, option)}
    /\ UNCHANGED <<world, tick, results, practice, choice, decided, counted, close, delivery, work,
                   faults>>

E == W.event.f

What(e) == HeldOf[e].what

\* Mutant of Chosen: the button that was pressed is followed.
ChosenByButton(e, option) == option

\* The journaled choice, or else the button that was pressed.
Chosen(e, option) == IF choice[e] = Undecided THEN option ELSE choice[e]

\* What the box of the decision says: of an answer, what the record holds.
Ack(e) == <<What(e), HeldOf[e].family, e, 0>>

Decide ==
    /\ At("handler", "decide")
    /\ \/ /\ decided[E] = Undecided
          /\ choice' = [choice EXCEPT ![E] = Chosen(E, W.event.arg)]
          /\ work' = [work EXCEPT !["handler"].pc = What(E),
                                  !["handler"].on = Chosen(E, W.event.arg)]
       \/ /\ decided[E] # Undecided
          /\ IF What(E) = "quarantine"
             THEN DeliverThen("handler", Ack(E), <<decided[E]>>, "complete")
             ELSE Goto("handler", "complete")
          /\ UNCHANGED choice
    /\ UNCHANGED <<world, tick, events, practice, decided, counted, pressed, close, delivery, faults>>

-----------------------------------------------------------------------------
(***************************************************************************)
(* A held answer.  Only a grade that was not sure enough can be released;  *)
(* what was held as unsafe has nothing to release.                         *)
(***************************************************************************)
HumanGrade(e, verdict) ==
    [id |-> <<"human", e, 0>>, student |-> HeldOf[e].family, day |-> HeldOf[e].day,
     item |-> HeldOf[e].item, verdict |-> IF verdict = Approve THEN "right" ELSE "wrong",
     supersedes |-> HeldOf[e].grade]

Release ==
    /\ At("handler", "quarantine")
    /\ IF HeldOf[E].releasable
       THEN /\ log' = {g \in log : g.id # <<"human", E, 0>>} \cup {HumanGrade(E, W.on)}
            /\ Goto("handler", "count")
       ELSE Goto("handler", "resolve") /\ UNCHANGED log
    /\ UNCHANGED <<world, tick, events, sessions, exams, light, decisions, close, delivery, faults>>

\* record_answer_outcome counts under the id of the human grade, once.
CountOutcome ==
    /\ At("handler", "count")
    /\ counted' = IF \E c \in counted : c[1] = E THEN counted ELSE counted \cup {<<E, W.on>>}
    /\ Goto("handler", "resolve")
    /\ UNCHANGED <<world, tick, events, practice, choice, decided, pressed, close, delivery, faults>>

Resolve ==
    /\ At("handler", "resolve")
    /\ decided' = [decided EXCEPT ![E] = W.on]
    /\ IF What(E) = "quarantine"
       THEN DeliverThen("handler", Ack(E), <<W.on>>, "complete")
       ELSE Goto("handler", "complete")
    /\ UNCHANGED <<world, tick, events, practice, choice, counted, pressed, close, delivery, faults>>

-----------------------------------------------------------------------------
(***************************************************************************)
(* An alert.  A reduced load is saved once for the alert, and expires.     *)
(***************************************************************************)
Carry ==
    /\ At("handler", "escalation")
    /\ light' = IF W.on = ReduceLoad /\ light[HeldOf[E].family].source # E
                THEN [light EXCEPT ![HeldOf[E].family] = [until |-> day + LightDays, source |-> E]]
                ELSE light
    /\ DeliverThen("handler", Ack(E),
                   IF W.on = TeacherNote THEN <<Note, W.on>> ELSE <<W.on>>, "resolve")
    /\ UNCHANGED <<world, tick, events, sessions, log, exams, decisions, close, delivery, faults>>
=============================================================================
