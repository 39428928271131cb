----------------------------- MODULE FamilyRows -----------------------------
(***************************************************************************)
(* What is stored of the families that a chat enrolled, and what is        *)
(* promised of it once no message of the chat is left to handle.           *)
(* FamilyLifecycle has the handlers.                                       *)
(***************************************************************************)
EXTENDS Integers

VARIABLES waiting,          \* messages not yet acknowledged to the queue
          profile,          \* the PROFILE row of each family
          lookup,           \* the row that leads from the chat to its family
          student,          \* the rows of each family's student: in the
                            \* family's index, and the profile
          private,          \* where other private data of each family is
          saved, alarm,     \* its schedule, as recorded and as it rings
          rewritten,        \* history: families whose enrollment, replayed, put
                            \* back a profile that had been changed meanwhile
          erasing, erased,  \* history: families whose erasure began, and ended
          displaced,        \* history: families whose erasure went on with
                            \* another that the chat led to by then
          strayed           \* history: families an event wrote about meanwhile

None == "none"
NoFamily == -1
NoTime == <<>>

NoProfile == [status |-> None, at |-> NoTime]

NoAlarm == [enabled |-> FALSE, at |-> NoTime]

\* The schedule a family ought to have.
AlarmSpec(family) == [enabled |-> family.status # "paused", at |-> family.at]

\* The family the chat leads to; a lookup of a profile that is gone finds none.
Found == IF lookup # NoFamily /\ profile[lookup] # NoProfile THEN lookup ELSE NoFamily

AtRest == waiting = {}

-----------------------------------------------------------------------------
(***************************************************************************)
(* apply_step: the family that the chat leads to has its student in both   *)
(* places, wherever the completion of its enrollment was interrupted and   *)
(* whatever was said before it was taken up again.                         *)
(***************************************************************************)
EnrolledIsWhole ==
    AtRest /\ Found # NoFamily => student[Found] = {"index", "student"}

(***************************************************************************)
(* sync_schedule: the alarm of the family rings when the family asked for  *)
(* it, and not at all while it is paused, after interrupted commands and   *)
(* erasures.  Except where a replayed enrollment has put the profile back: *)
(* the record may then be the one of before, and the alarm of after.       *)
(***************************************************************************)
AlarmFollowsFamily ==
    AtRest /\ Found \notin {NoFamily} \cup rewritten => alarm[Found] = AlarmSpec(profile[Found])

(***************************************************************************)
(* forget_family: what was forgotten is gone from every store, but for     *)
(* what the family's other events wrote meanwhile; and no erasure that     *)
(* began is left half way, unless the chat led to another family by then.  *)
(***************************************************************************)
ErasedMeansGone ==
    /\ \A f \in erased :
         /\ profile[f] = NoProfile /\ student[f] = {} /\ lookup # f
         /\ saved[f] = NoAlarm /\ alarm[f] = NoAlarm
         /\ private[f] \subseteq IF f \in strayed THEN {"records"} ELSE {}
    /\ AtRest => erasing \subseteq erased \cup displaced
=============================================================================
