---------------------------- MODULE MCTurnMemory ----------------------------
(***************************************************************************)
(* TurnMemory over a capsule of two questions, the second graded by a      *)
(* model, and a sitting of two.  A question of the sitting is a copy of    *)
(* one of the capsule, and the log has an old answer to a question that is *)
(* not the family's.  Each agenda is one behaviour's messages: what they   *)
(* are, when they were received and what the model may read in them.       *)
(***************************************************************************)
EXTENDS TurnMemory

MCCapsule == <<"c1", "c2">>
MCSitting == <<"s1", "s2">>
MCOpen == {"c2"}
MCOwn == {"c1", "c2", "s1", "s2"}
MCTopicOf == [i \in MCOwn |-> IF i \in {"c1", "s1"} THEN "fractions" ELSE "angles"]
MCContent == [i \in MCOwn |-> IF i = "s1" THEN "c1" ELSE i]

M_(kind, reads, at) == [kind |-> kind, right |-> TRUE, reads |-> reads, at |-> at, about |-> None]
Words(reads) == M_("words", reads, FirstTime)
Picks(reads) == M_("option", reads, FirstTime)
Stopped(m) == [m EXCEPT !.reads = @ \cup {"stopped"}]
Button(item) == [M_("button", {}, FirstTime) EXCEPT !.about = item, !.right = FALSE]

\* Answers of the day before: one that an adult replaced, one to a question
\* of somebody else.
Past == {Grade(<<"old", 1>>, "c1", "held", NoGrade, 0),
         Grade(<<"old", 2>>, "c1", "yes", <<"old", 1>>, 0),
         Grade(<<"old", 3>>, "x1", "no", NoGrade, 1)}

Agenda(capsule_, sitting_, texts, history, faults_, until, looks) ==
    [capsule |-> capsule_, sitting |-> sitting_, texts |-> texts, history |-> history,
     faults |-> faults_, until |-> until, looks |-> looks]

Next_(n) == FirstTime + n

MCAgendas ==
    {\* the capsule answered to its end, with an explanation between; held answers
     Agenda("delivered", None,
            <<Button("c1"), Words({"explanation"}), Words({"answer"})>>, {}, 0, Next_(0), TRUE),
     Agenda("delivered", None,
            <<Stopped(Button("c1")), Words({"explanation"}), Words({"answer"})>>, {}, 1, Next_(0),
            FALSE),
     Agenda("delivered", None, <<Button("c1"), Words({"explanation"})>>, {}, 1, Next_(0), TRUE),
     Agenda("delivered", None, <<Stopped(Button("c1")), Words({"answer"})>>, {}, 1, Next_(0), TRUE),
     Agenda("delivered", None, <<Words({"answer", "stopped"}), Picks({"answer", None})>>, Past, 0,
            Next_(2), TRUE),
     \* what else may be said of it
     Agenda("planned", None, <<Words({"explanation", "answer"}), Button("c1"),
                               Words({"about_the_practice", "distress"})>>, {}, 0, Next_(2), FALSE),
     Agenda(None, None, <<Words({"explanation", "stop"}), Words({"another_question"}),
                          M_("done", {}, FirstTime)>>, {}, 0, Next_(2), FALSE),
     Agenda("delivered", None, <<Words({"another_question", "something_else"}),
                                 M_("unsafe", {}, FirstTime), Button("c1")>>, {}, 0, Next_(2), FALSE),
     \* a sitting, beside a capsule that is delivered
     Agenda("delivered", "active",
            <<Words({"explanation"}), Words({"explanation", "stop"}), Picks({})>>, {}, 0,
            Next_(0), TRUE),
     Agenda("delivered", "active",
            <<Words({"explanation"}), Words({"explanation"})>>, {}, 1, Next_(0), TRUE),
     Agenda("delivered", "active",
            <<Words({"something_else"}), Words({"answer", None, "distress"})>>, Past, 1,
            Next_(1), TRUE),
     Agenda(None, "active", <<Words({"explanation"}), Words({"another_question"})>>, {}, 1,
            Next_(2), TRUE),
     Agenda(None, "active",
            <<Picks({"answer"}), M_("option", {}, FirstTime + 1), M_("done", {}, FirstTime)>>,
            {}, 1, Next_(2), FALSE)}
=============================================================================
