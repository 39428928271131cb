------------------------- MODULE MCFamilyLifecycle -------------------------
(***************************************************************************)
(* One text serves every question of an enrollment; beside it, the         *)
(* buttons and commands that change what is stored.                        *)
(***************************************************************************)
EXTENDS FamilyLifecycle

NoClock == [hour |-> 24, minute |-> 0, suffix |-> None]

Word ==
    [callback |-> None, command |-> None, code |-> FALSE, length |-> 2, words |-> 1,
     capitals |-> FALSE, grade |-> 4, clock |-> [hour |-> 4, minute |-> 0, suffix |-> "pm"],
     exam |-> FALSE]
Press(button) ==
    [Word EXCEPT !.callback = button, !.length = 0, !.grade = 0, !.clock = NoClock]

Say(command) == [Word EXCEPT !.command = command, !.clock = NoClock]

Changes ==
    {Word, [Word EXCEPT !.code = TRUE, !.grade = 0, !.clock = NoClock],
     Press("consent:yes"), Press("forget:yes"), Say("/pause")}

\* What leaves a family as it was, or changes it where it shows once.
Others ==
    {[Word EXCEPT !.command = "/schedule"], [Say("/exam") EXCEPT !.exam = TRUE], Say("/schedule"),
     Say("/resume"), Say("/forget"), Say("/help"), Say("/exam"), Say("/status"),
     [Word EXCEPT !.words = 2, !.capitals = TRUE, !.clock = NoClock],
     Press("consent:no"), Press("forget:no"), Press("decide"), Press("done")}

\* A family that is completed, told anything at all, and forgotten.
MCContent == <<{Word}, Changes \cup Others, {Press("forget:yes")}>>
=============================================================================
