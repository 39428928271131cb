------------------------------- MODULE Outbox -------------------------------
(***************************************************************************)
(* The record of a delivery (deliver): the messages as they were when the  *)
(* delivery was first tried, and how many of them the channel receipted.   *)
(* A handler that runs again with the same key finds the record and sends  *)
(* what is left of the recorded messages, whatever it would say now.       *)
(***************************************************************************)
EXTENDS Naturals, Sequences

NoBox == [messages |-> <<>>, receipts |-> 0]

IsOpen(box) == box # NoBox

\* Mutant of Opened: the record is written again with what is said now.
OpenedAnew(box, messages) == [messages |-> messages, receipts |-> box.receipts]

\* The record is written by the first delivery that has something to say.
Opened(box, messages) ==
    IF IsOpen(box) THEN box ELSE [messages |-> messages, receipts |-> 0]

NothingLeft(box) == box.receipts = Len(box.messages)

NextMessage(box) == box.messages[box.receipts + 1]

Receipted(box) == [box EXCEPT !.receipts = @ + 1]
=============================================================================
