-------------------------- MODULE FamilyLifecycle --------------------------
(***************************************************************************)
(* What a chat does to the family behind it: it enrolls step by step, sets *)
(* and pauses its practice, and has itself forgotten.                      *)
(*                                                                         *)
(* Handlers of one chat are serial, but each is many writes, may die       *)
(* between any two, and comes back later: perhaps after messages that were *)
(* sent since.  An enrollment step writes what it is going to do before it *)
(* does it; an erasure keeps the profile, which leads to everything else,  *)
(* until the last.                                                         *)
(***************************************************************************)
EXTENDS FamilyRows, Integers, FiniteSets, Sequences

CONSTANTS MaxMessages,      \* messages of the chat that are modelled
          Content,          \* what each message may hold
          MaxFamilies,      \* bound on enrollments that are completed
          MaxFaults,        \* bound on crashes and failed calls
          MaxStrays         \* bound on writes of the family's other events

ASSUME LifecycleAssumption ==
    /\ MaxMessages \in Nat /\ DOMAIN Content = 1..MaxMessages
    /\ MaxFamilies \in Nat /\ MaxFaults \in Nat /\ MaxStrays \in Nat

Message == 1..MaxMessages

\* The random identity of a family is made when its enrollment is journaled: it
\* is its number here.  0 is one that enrolled before.
FamilyId == 0..MaxFamilies

VARIABLES sent,             \* what each message holds
          progress,         \* the enrollment of the chat: the step it is at
          families,         \* how many families were given an identity
          journal,          \* enrollment#<message>
          prepared,         \* channel#<message>
          published,        \* messages whose event was published
          told,             \* what the chat was told, and by which message
          receipt,          \* erasure-receipts
          pc, run,          \* where the handler is, and what it holds in memory
          faults

rows == <<profile, lookup, student, private>>
schedule == <<saved, alarm>>
steps == <<progress, journal, families, rewritten>>
replies == <<prepared, published, told>>
erasure == <<receipt, erasing, erased, displaced>>
vars == <<sent, waiting, rows, schedule, steps, replies, erasure, strayed, pc, run, faults>>

-----------------------------------------------------------------------------
(***************************************************************************)
(* What a message holds.                                                   *)
(***************************************************************************)
\* An hour, a minute and a suffix are read as a time of the day, or as none.
PracticeTime(clock) ==
    LET hour == CASE clock.suffix = "pm" /\ clock.hour < 12 -> clock.hour + 12
                  [] clock.suffix = "am" /\ clock.hour = 12 -> 0
                  [] OTHER -> clock.hour
    IN  IF hour \in 0..23 /\ clock.minute \in 0..59 THEN <<hour, clock.minute>> ELSE NoTime

TimeIn(text) == PracticeTime(text.clock)

\* Codes come from a secret that is cached for five minutes and may be out of
\* reach; what is read is every code or none.
InviteCodes == BOOLEAN

ValidInvite(text, codes) == codes /\ text.code

LooksLikeRealName(text) == text.length > 20 \/ (text.words >= 2 /\ text.capitals)

-----------------------------------------------------------------------------
(***************************************************************************)
(* The steps of an enrollment: what a message makes of the step the chat   *)
(* is at, as the writes to apply and the reply.                            *)
(***************************************************************************)
Step == {"consent", "alias", "grade", "section", "schedule"}

PutEnrollment(step) == <<[row |-> "enrollment", step |-> step]>>

DeleteEnrollment == <<[row |-> "enrollment", step |-> None]>>

\* put_family and put_student write two rows each.
Complete(at) ==
    <<[row |-> "profile", at |-> at], [row |-> "lookup"], [row |-> "index"],
      [row |-> "student"], [row |-> "enrollment", step |-> None]>>

Outcome(actions, reply) ==
    [actions |-> actions, reply |-> reply, done |-> reply = "enrollment_done", applied |-> FALSE,
     family |-> NoFamily]

ConsentStep(text) ==
    CASE text.callback = "consent:no" -> Outcome(DeleteEnrollment, "consent_declined")
      [] text.callback = "consent:yes" -> Outcome(PutEnrollment("alias"), "ask_alias")
      [] OTHER -> Outcome(PutEnrollment("consent"), "consent")

AliasStep(text) ==
    CASE text.length = 0 -> Outcome(PutEnrollment("alias"), "ask_alias")
      [] text.length > 0 /\ LooksLikeRealName(text) ->
             Outcome(PutEnrollment("alias"), "alias_warning")
      [] OTHER -> Outcome(PutEnrollment("grade"), "ask_grade")

GradeStep(text) ==
    IF text.grade = 4 THEN Outcome(PutEnrollment("section"), "ask_section")
    ELSE Outcome(PutEnrollment("grade"), "ask_grade")

SectionStep(text) ==
    IF text.length = 0 THEN Outcome(PutEnrollment("section"), "ask_section")
    ELSE Outcome(PutEnrollment("schedule"), "ask_schedule")

ScheduleStep(text) ==
    IF TimeIn(text) = NoTime THEN Outcome(PutEnrollment("schedule"), "ask_schedule")
    ELSE Outcome(Complete(TimeIn(text)), "enrollment_done")

Advance(step, text) ==
    CASE step = "consent" -> ConsentStep(text)
      [] step = "alias" -> AliasStep(text)
      [] step = "grade" -> GradeStep(text)
      [] step = "section" -> SectionStep(text)
      [] step = "schedule" -> ScheduleStep(text)

-----------------------------------------------------------------------------
NoJournal == [actions |-> <<>>, reply |-> None, done |-> FALSE, applied |-> FALSE,
              family |-> NoFamily]
NoReceipt == [family |-> NoFamily, erased |-> FALSE, ack |-> FALSE]
Unprepared == [reply |-> None, family |-> NoFamily, event |-> FALSE, published |-> FALSE]
NoRun == [m |-> 0, family |-> NoFamily, reply |-> None, event |-> FALSE, next |-> 1,
          then |-> None, deleting |-> {}]

Enrolled == [status |-> "active", at |-> <<19, 0>>]

PrivateStore == {"grades", "media", "rows", "exams", "records"}

For(f, value, otherwise) == [g \in FamilyId |-> IF g = f THEN value ELSE otherwise]

\* A chat is new, part of the way through an enrollment, or a family that has
\* practised for some time.
Init ==
    /\ sent = <<>>
    /\ waiting = {}
    /\ \E family \in {0, NoFamily} :
         /\ progress \in IF family = 0 THEN {None} ELSE Step \cup {None}
         /\ lookup = family
         /\ profile = For(family, Enrolled, NoProfile)
         /\ student = For(family, {"index", "student"}, {})
         /\ private = For(family, PrivateStore, {})
         /\ saved = For(family, AlarmSpec(Enrolled), NoAlarm)
         /\ alarm = saved
    /\ journal = [m \in Message |-> NoJournal]
    /\ prepared = [m \in Message |-> Unprepared]
    /\ published = {}
    /\ told = {}
    /\ receipt = [m \in Message |-> NoReceipt]
    /\ families = 0 /\ rewritten = {}
    /\ erasing = {} /\ erased = {} /\ displaced = {} /\ strayed = {}
    /\ pc = "idle" /\ run = NoRun
    /\ faults = 0

At(where) == pc = where

Goto(where) == pc' = where /\ UNCHANGED run

Text == sent[run.m]

\* What the handler goes on to say, and about which family.
Reply(reply, family, event) ==
    /\ pc' = "prepare"
    /\ run' = [run EXCEPT !.reply = reply, !.family = family, !.event = event]

ReplyWith(reply) == Reply(reply, run.family, FALSE)

-----------------------------------------------------------------------------
(***************************************************************************)
(* The chat and the queue.                                                 *)
(***************************************************************************)
\* No handler looks at what is sent meanwhile: sending between them is as good
\* as sending at any moment.
Send ==
    /\ At("idle") /\ Len(sent) < MaxMessages
    /\ \E content \in Content[Len(sent) + 1] : sent' = Append(sent, content)
    /\ waiting' = waiting \cup {Len(sent) + 1}
    /\ UNCHANGED <<rows, schedule, steps, replies, erasure, strayed, pc, run, faults>>

\* Mutant of Enrolling: whoever has a family has enrolled.
EnrollingOnce(m) == Found = NoFamily

Enrolling(m) == Found = NoFamily \/ journal[m] # NoJournal

Handle(m) ==
    /\ At("idle") /\ m \in waiting
    /\ run' = [NoRun EXCEPT !.m = m, !.family = Found, !.then = "route"]
    /\ pc' = CASE sent[m].callback = "forget:yes" -> "erase"
               [] sent[m].callback # "forget:yes" /\ prepared[m] # Unprepared -> "finish"
               [] OTHER -> IF Enrolling(m) THEN "enroll" ELSE "sync"
    /\ UNCHANGED <<sent, waiting, rows, schedule, steps, replies, erasure, strayed, faults>>

-----------------------------------------------------------------------------
(***************************************************************************)
(* Enrollment.                                                             *)
(***************************************************************************)
\* A completed enrollment has the identity of its family.
JournalStep(outcome) ==
    IF outcome.done
    THEN /\ families < MaxFamilies /\ families' = families + 1
         /\ journal' = [journal EXCEPT ![run.m] = [outcome EXCEPT !.family = families']]
    ELSE journal' = [journal EXCEPT ![run.m] = outcome] /\ UNCHANGED families

\* The first code starts an enrollment; whatever comes of the message is put
\* in its journal before any of it is done.
Enroll ==
    /\ At("enroll") /\ journal[run.m] = NoJournal
    /\ \E codes \in InviteCodes :
         CASE progress = None /\ ~codes ->
                  Reply("enrollment_closed", NoFamily, FALSE) /\ UNCHANGED <<journal, families>>
           [] progress = None /\ codes /\ ~ValidInvite(Text, codes) ->
                  Reply("unknown_chat", NoFamily, FALSE) /\ UNCHANGED <<journal, families>>
           [] OTHER ->
                  /\ JournalStep(Advance(IF progress = None THEN "consent" ELSE progress, Text))
                  /\ Goto("enroll")
    /\ UNCHANGED <<sent, waiting, rows, schedule, progress, rewritten, replies, erasure, strayed,
                   faults>>

Journal == journal[run.m]

ApplyStep ==
    /\ At("enroll") /\ ~Journal.applied /\ run.next <= Len(Journal.actions)
    /\ LET action == Journal.actions[run.next]
           at(row) == action.row = row
           f == Journal.family
           new == [status |-> "active", at |-> action.at]
       IN  /\ progress' = IF at("enrollment") THEN action.step ELSE progress
           /\ profile' = IF at("profile") THEN [profile EXCEPT ![f] = new] ELSE profile
           /\ lookup' = IF at("lookup") THEN f ELSE lookup
           /\ student' = IF at("index") \/ at("student")
                         THEN [student EXCEPT ![f] = @ \cup {action.row}] ELSE student
           /\ rewritten' = IF at("profile") /\ profile[f] \notin {NoProfile, new}
                           THEN rewritten \cup {f} ELSE rewritten
    /\ run' = [run EXCEPT !.next = @ + 1]
    /\ UNCHANGED <<sent, waiting, private, schedule, journal, families, replies, erasure, strayed,
                   pc, faults>>

\* The step has been done, now or before.
StepApplied ==
    /\ At("enroll") /\ Journal # NoJournal
    /\ Journal.applied \/ run.next > Len(Journal.actions)
    /\ journal' = [journal EXCEPT ![run.m].applied = TRUE]
    /\ Reply(Journal.reply, Found, FALSE)
    /\ UNCHANGED <<sent, waiting, rows, schedule, progress, families, rewritten, replies, erasure,
                   strayed, faults>>

-----------------------------------------------------------------------------
(***************************************************************************)
(* The alarm of a family follows its profile, before a message is routed   *)
(* and again before it is answered.                                        *)
(***************************************************************************)
\* The schedule of the family as it is now.
Wanted == AlarmSpec(profile[run.family])

\* Mutant of SyncSchedule: the record is saved and the alarm set afterwards.
SyncRecordFirst ==
    /\ At("sync")
    /\ IF saved[run.family] = Wanted
       THEN pc' = run.then /\ UNCHANGED saved
       ELSE pc' = "save" /\ saved' = [saved EXCEPT ![run.family] = Wanted]
    /\ UNCHANGED <<sent, waiting, rows, alarm, steps, replies, erasure, strayed, run, faults>>

SyncSchedule ==
    /\ At("sync")
    /\ IF saved[run.family] = Wanted
       THEN pc' = run.then /\ UNCHANGED alarm
       ELSE pc' = "save" /\ alarm' = [alarm EXCEPT ![run.family] = Wanted]
    /\ UNCHANGED <<sent, waiting, rows, saved, steps, replies, erasure, strayed, run, faults>>

SaveSchedule ==
    /\ At("save")
    /\ saved' = [saved EXCEPT ![run.family] = Wanted]
    /\ pc' = run.then
    /\ UNCHANGED <<sent, waiting, rows, alarm, steps, replies, erasure, strayed, run, faults>>

-----------------------------------------------------------------------------
(***************************************************************************)
(* What a family says: commands, buttons, and everything that practises.   *)
(***************************************************************************)
PutFamily(family) == profile' = [profile EXCEPT ![run.family] = family]

Family == profile[run.family]

Untouched == UNCHANGED <<profile, private>>

SetStatus(status, reply) ==
    /\ PutFamily([Family EXCEPT !.status = status]) /\ UNCHANGED private
    /\ ReplyWith(reply)

SetSchedule ==
    \/ /\ TimeIn(Text) # NoTime
       /\ PutFamily([Family EXCEPT !.at = TimeIn(Text)]) /\ UNCHANGED private
       /\ ReplyWith("resumed")
    \/ /\ TimeIn(Text) = NoTime
       /\ Untouched /\ ReplyWith("ask_schedule")

\* An exam is kept for every student that the index of the family lists.
SetExam ==
    \/ /\ Text.exam
       /\ private' = IF "index" \in student[run.family]
                     THEN [private EXCEPT ![run.family] = @ \cup {"exams"}] ELSE private
       /\ UNCHANGED profile
       /\ Reply("exam_ack", run.family, TRUE)
    \/ /\ ~Text.exam
       /\ Untouched /\ ReplyWith("exam_ask_date")

ForgetPrompt == Untouched /\ ReplyWith("forget_confirm")

Status == Untouched /\ ReplyWith("status_line")

\* The language of a family, which /language changes, is left out.
Command ==
    LET says(command) == Text.command = command IN
    \/ says("/pause") /\ SetStatus("paused", "paused")
    \/ says("/resume") /\ SetStatus("active", "resumed")
    \/ says("/schedule") /\ SetSchedule
    \/ says("/exam") /\ SetExam
    \/ says("/forget") /\ ForgetPrompt
    \/ says("/status") /\ Status
    \/ Text.command \in {"/help", "/language", "unknown"} /\ Untouched /\ ReplyWith("help")

\* Buttons of an alert or a review become events; the rest is practice, that
\* leaves data of the child in one store or another.
Callback ==
    \/ /\ Text.callback = "forget:no"
       /\ UNCHANGED private /\ ReplyWith("forget_keep")
    \/ /\ Text.callback = "decide"
       /\ UNCHANGED private /\ Reply(None, run.family, TRUE)
    \/ /\ Text.callback \notin {None, "forget:no", "decide"}
       /\ UNCHANGED private /\ Reply(None, run.family, FALSE)

Practise ==
    /\ Text.callback = None /\ Text.command = None
    /\ \E store \in PrivateStore :
         private' = [private EXCEPT ![run.family] = @ \cup {store}]
    /\ ReplyWith("practice")

RouteFamily ==
    /\ At("route")
    /\ \/ Command
       \/ (Callback \/ Practise) /\ UNCHANGED profile
    /\ UNCHANGED <<sent, waiting, lookup, student, schedule, steps, replies, erasure, strayed,
                   faults>>

-----------------------------------------------------------------------------
(***************************************************************************)
(* The reply.  How it is delivered is in Outbox; here it is one step.      *)
(***************************************************************************)
Prepare ==
    /\ At("prepare")
    /\ prepared' = [prepared EXCEPT ![run.m] =
                      [reply |-> run.reply, family |-> run.family, event |-> run.event,
                       published |-> FALSE]]
    /\ Goto("finish")
    /\ UNCHANGED <<sent, waiting, rows, schedule, steps, published, told, erasure, strayed, faults>>

Finish ==
    /\ At("finish")
    /\ LET family == prepared[run.m].family
           here == family # NoFamily /\ profile[family] # NoProfile
       IN  /\ run' = [run EXCEPT !.family = IF here THEN family ELSE NoFamily, !.then = "deliver"]
           /\ pc' = IF here THEN "sync" ELSE "deliver"
    /\ UNCHANGED <<sent, waiting, rows, schedule, steps, replies, erasure, strayed, faults>>

Deliver ==
    /\ At("deliver")
    /\ told' = told \cup {<<run.m, prepared[run.m].reply>>}
    /\ Goto("publish")
    /\ UNCHANGED <<sent, waiting, rows, schedule, steps, prepared, published, erasure, strayed,
                   faults>>

Owed == prepared[run.m].event /\ ~prepared[run.m].published

Publish ==
    /\ At("publish") /\ Owed
    /\ IF run.m \in published
       THEN prepared' = [prepared EXCEPT ![run.m].published = TRUE] /\ UNCHANGED published
       ELSE published' = published \cup {run.m} /\ UNCHANGED prepared
    /\ UNCHANGED <<sent, waiting, rows, schedule, steps, told, erasure, strayed, pc, run, faults>>

Acknowledge ==
    /\ pc' = "idle" /\ run' = NoRun
    /\ waiting' = waiting \ {run.m}

Done ==
    /\ At("publish") /\ ~Owed
    /\ Acknowledge
    /\ UNCHANGED <<sent, rows, schedule, steps, replies, erasure, strayed, faults>>

-----------------------------------------------------------------------------
(***************************************************************************)
(* Erasure.                                                                *)
(***************************************************************************)
Erasing == receipt[run.m].family

\* The receipt, outside the scopes that are erased, says whose erasure this is
\* and how far it came; without one and without a family there is nothing to do.
EraseBegins ==
    /\ At("erase")
    /\ CASE receipt[run.m] = NoReceipt /\ Found = NoFamily ->
                Acknowledge /\ UNCHANGED <<receipt, erasing>>
         [] receipt[run.m] = NoReceipt /\ Found # NoFamily ->
                /\ receipt' = [receipt EXCEPT ![run.m].family = Found]
                /\ erasing' = erasing \cup {Found}
                /\ Goto("pause") /\ UNCHANGED waiting
         [] OTHER ->
                /\ Goto(CASE receipt[run.m].erased -> "acknowledge"
                          [] /\ ~receipt[run.m].erased
                             /\ Found # NoFamily \/ profile[Erasing] # NoProfile -> "pause"
                          [] OTHER -> "scan")
                /\ UNCHANGED <<receipt, erasing, waiting>>
    /\ UNCHANGED <<sent, rows, schedule, steps, replies, erased, displaced, strayed, faults>>

\* The family that is erased: of the chat, or else of the receipt.
Leaving == IF Found # NoFamily THEN Found ELSE Erasing

\* The family is paused, which puts its lookup back too.
EraseProfile ==
    /\ At("pause")
    /\ profile' = [profile EXCEPT ![Leaving].status = "paused"]
    /\ lookup' = Leaving
    /\ Goto("alarm")
    /\ UNCHANGED <<sent, waiting, student, private, schedule, steps, replies, erasure, strayed,
                   faults>>

RemoveAlarm ==
    /\ At("alarm")
    /\ alarm' = [alarm EXCEPT ![Leaving] = NoAlarm]
    /\ Goto("grades")
    /\ UNCHANGED <<sent, waiting, rows, saved, steps, replies, erasure, strayed, faults>>

\* The grade log is emptied student by student, as the index lists them.
ForgetStudents ==
    /\ At("grades")
    /\ private' = IF "index" \in student[Leaving]
                  THEN [private EXCEPT ![Leaving] = @ \ {"grades"}] ELSE private
    /\ Goto("media")
    /\ UNCHANGED <<sent, waiting, profile, lookup, student, schedule, steps, replies, erasure,
                   strayed, faults>>

DeleteMedia ==
    /\ At("media")
    /\ private' = [private EXCEPT ![Leaving] = @ \ {"media"}]
    /\ Goto("chat")
    /\ UNCHANGED <<sent, waiting, profile, lookup, student, schedule, steps, replies, erasure,
                   strayed, faults>>

\* delete_records of the chat: the journals and the replies of its messages.
NoChatRecords ==
    /\ journal' = [m \in Message |-> NoJournal]
    /\ prepared' = [m \in Message |-> Unprepared]

DeleteChatRecords ==
    /\ At("chat")
    /\ NoChatRecords
    /\ Goto("scan")
    /\ UNCHANGED <<sent, waiting, rows, schedule, progress, families, rewritten, published, told,
                   erasure, strayed, faults>>

\* The rows a scan of the table finds to be the family's: what hangs from it or
\* from its student, its records, and the chat's own rows if it has a profile.
\* The pages of its material are not in the table.
Owned(f) ==
    (private[f] \ {"media"})
    \cup (IF saved[f] # NoAlarm THEN {"saved"} ELSE {})
    \cup (IF profile[f] # NoProfile
          THEN {"profile"} \cup {r \in {"lookup"} : lookup = f}
               \cup {r \in {"enrollment"} : progress # None}
          ELSE {})
    \cup student[f]

Scan ==
    /\ At("scan")
    /\ run' = [run EXCEPT !.deleting = Owned(Leaving), !.family = Leaving]
    /\ pc' = "delete"
    /\ UNCHANGED <<sent, waiting, rows, schedule, steps, replies, erasure, strayed, faults>>

\* Mutant of DeletionRank: the rows are deleted as the scan lists them.
InAnyOrder(row) == 0

\* The roots the rest is found from are deleted after it.
DeletionRank(row) ==
    CASE row = "profile" -> 3 [] row = "index" -> 2 [] row = "student" -> 1 [] OTHER -> 0

DeleteRow ==
    /\ At("delete")
    /\ \E row \in run.deleting :
         /\ \A other \in run.deleting : DeletionRank(row) <= DeletionRank(other)
         /\ run' = [run EXCEPT !.deleting = @ \ {row}]
         /\ LET f == run.family IN
            /\ profile' = IF row = "profile" THEN [profile EXCEPT ![f] = NoProfile] ELSE profile
            /\ lookup' = IF row = "lookup" THEN NoFamily ELSE lookup
            /\ student' = [student EXCEPT ![f] = @ \ {row}]
            /\ private' = [private EXCEPT ![f] = @ \ {row}]
            /\ saved' = IF row = "saved" THEN [saved EXCEPT ![f] = NoAlarm] ELSE saved
            /\ progress' = IF row = "enrollment" THEN None ELSE progress
    /\ UNCHANGED <<sent, waiting, alarm, journal, families, rewritten, replies, erasure, strayed,
                   pc, faults>>

\* The chat's records go once more, when the erasure was resumed without a profile.
Erased ==
    /\ At("delete") /\ run.deleting = {}
    /\ receipt' = [receipt EXCEPT ![run.m].erased = TRUE, ![run.m].family = NoFamily]
    /\ erased' = erased \cup {run.family}
    /\ displaced' = displaced \cup ({Erasing} \ {run.family})
    /\ NoChatRecords
    /\ Goto("acknowledge")
    /\ UNCHANGED <<sent, waiting, rows, schedule, progress, families, rewritten, published, told,
                   erasing, strayed, faults>>

\* The answer is sent without a record of it, and may be sent again.
AcknowledgeErasure ==
    /\ At("acknowledge")
    /\ IF ~receipt[run.m].ack /\ <<run.m, "forget_done">> \notin told
       THEN told' = told \cup {<<run.m, "forget_done">>} /\ UNCHANGED <<receipt, waiting, pc, run>>
       ELSE receipt' = [receipt EXCEPT ![run.m].ack = TRUE] /\ Acknowledge /\ UNCHANGED told
    /\ UNCHANGED <<sent, rows, schedule, steps, prepared, published, erasing, erased, displaced,
                   strayed, faults>>

-----------------------------------------------------------------------------
\* The daily close, or an event of the family whose lease the handler does not
\* hold, leaves a record in the scope of the family.
Stray(f) ==
    /\ Cardinality(strayed) < MaxStrays
    /\ profile[f] # NoProfile \/ f \in erasing
    /\ private' = [private EXCEPT ![f] = @ \cup {"records"}]
    /\ strayed' = strayed \cup {f}
    /\ UNCHANGED <<sent, waiting, profile, lookup, student, schedule, steps, replies, erasure, pc,
                   run, faults>>

\* The handler dies, or one of its calls fails: the message comes back later.
Crash ==
    /\ ~At("idle") /\ faults < MaxFaults
    /\ faults' = faults + 1
    /\ pc' = "idle" /\ run' = NoRun
    /\ UNCHANGED <<sent, waiting, rows, schedule, steps, replies, erasure, strayed>>

Handler ==
    \/ Enroll \/ ApplyStep \/ StepApplied \/ SyncSchedule \/ SaveSchedule \/ RouteFamily
    \/ Prepare \/ Finish \/ Deliver \/ Publish \/ Done
    \/ EraseBegins \/ EraseProfile \/ RemoveAlarm \/ ForgetStudents \/ DeleteMedia
    \/ DeleteChatRecords \/ Scan \/ DeleteRow \/ Erased \/ AcknowledgeErasure

Next ==
    \/ Send
    \/ \E m \in Message : Handle(m)
    \/ Handler
    \/ \E f \in FamilyId : Stray(f)
    \/ Crash

Spec == Init /\ [][Next]_vars

-----------------------------------------------------------------------------
TypeOK ==
    /\ Len(sent) <= MaxMessages /\ waiting \subseteq Message
    /\ progress \in Step \cup {None}
    /\ lookup \in FamilyId \cup {NoFamily}
    /\ \A f \in FamilyId :
         /\ profile[f].status \in {None, "active", "paused"}
         /\ profile[f].at \in {NoTime} \cup ((0..23) \X (0..59))
         /\ student[f] \subseteq {"index", "student"}
         /\ private[f] \subseteq PrivateStore
    /\ \A m \in Message : Len(journal[m].actions) <= 5
    /\ run.m \in Message \cup {0}
    /\ families \in 0..MaxFamilies /\ faults \in 0..MaxFaults
=============================================================================
