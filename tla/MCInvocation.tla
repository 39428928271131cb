---------------------------- MODULE MCInvocation ----------------------------
(***************************************************************************)
(* One family, enrolled from the start or by its message: a channel        *)
(* message and a scheduled session, so that the chat's lease and the       *)
(* family's are contended; two workers besides the daily close, so that an *)
(* event can be worked on from the queue and from its pending record at a  *)
(* time; two receives.  Before it in the close's order, a family with one  *)
(* event that the queue gave up and the handler refuses: an attempt for it *)
(* at each close, and as many for the events after it as there are.        *)
(***************************************************************************)
EXTENDS Invocation

CONSTANTS text, session, orphan, w1, w2

MCEvent == {text, session, orphan}
MCChannel == {text}
MCInvalid == {orphan}
MCFamilyOf == [e \in Event |-> IF e = orphan THEN 1 ELSE 2]
MCWorker == {w1, w2}
=============================================================================
