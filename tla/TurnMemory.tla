----------------------------- MODULE TurnMemory -----------------------------
(***************************************************************************)
(* The turns of a family and somebody who looks at its memory meanwhile.   *)
(*                                                                         *)
(* The page takes no lease.  It reads the records of the family and of its *)
(* chat first (project_memory), and the grades, the sessions and the       *)
(* events after that, while the handler goes on writing.                   *)
(***************************************************************************)
EXTENDS Turns

vars == <<turnVars, page>>

NoPage == [open |-> FALSE]

Init == TurnsInit /\ page = NoPage

\* The records that are not expired, and whose events may be shown.
ReadRecords ==
    /\ ~page.open /\ agenda.looks
    /\ page' = [open |-> TRUE, at |-> now, notes |-> Unexpired(notes, now),
                episodes |-> episodes, boxes |-> boxes, messages |-> begun]
    /\ UNCHANGED turnVars

Turn == TurnsNext /\ UNCHANGED page

Next == Turn \/ ReadRecords

Spec == Init /\ [][Next]_vars

-----------------------------------------------------------------------------
\* What the page reads of the events, if it goes on now.
Events == OwnedEvents(trace, page.messages, page.boxes)

\* What is shown as said to a note was sent for its message.
TextOf(n) == \A b \in ShownBoxes(trace, Events, page.boxes, n) : b[2] = n.of

\* None of the saves of a note is too long ago to be read.
Uncut(n) == SavesOf(trace, Owned(trace, page.messages, page.boxes), n) \subseteq Events

\* The first save of a note was logged when it was written.
WasLogged(n) == n.of \notin unlogged

(***************************************************************************)
(* learning_episodes: "Outgoing text requires a verified turn-to-delivery  *)
(* chain": what is shown as said to a note was sent for its message, while *)
(* the events that are read go back to the note's first save, and that one *)
(* was logged.  A closing turn saves the notes of its session again, and   *)
(* what it said is shown as said to each note whose first save is cut off, *)
(* or was never logged because the handler died after it put the note.     *)
(***************************************************************************)
TextIsLinked ==
    page.open => \A n \in page.notes : Uncut(n) /\ WasLogged(n) => TextOf(n)

(***************************************************************************)
(* learning_episodes: what is shown as said to a note is of its message;   *)
(* and approaches that are shown as tried before a turn are those that     *)
(* were loaded when it was explained, as long as the window has room for   *)
(* every note of the session and one handling was cut short at most: two   *)
(* turns that are both handled again may trade places.                     *)
(***************************************************************************)
LinksAreTrue ==
    /\ TextIsLinked
    /\ page.open /\ faults <= 1 =>
         \A n \in page.notes :
            LET session == {o \in notes : o.session = n.session}
                shown == PreviousApproaches(page.notes, trace, Events, n)
            IN  Uncut(n) /\ Cardinality(session) <= MaxNotes /\ shown # {} =>
                  \E k \in DOMAIN trace :
                     trace[k].kind = "loaded" /\ trace[k].of = n.of /\ trace[k].tried = shown
=============================================================================
