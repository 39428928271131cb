----------------------------- MODULE DailyClose -----------------------------
(***************************************************************************)
(* The close of the day: notices to families that went silent, the note    *)
(* about a section in which several children struggle, and the questions   *)
(* that are retired.  A notice is composed once for its week: the record   *)
(* that keeps it is written before the alert is put and the family told.   *)
(***************************************************************************)
EXTENDS DailyState

CONSTANTS SectionOf,        \* the class of each student
          Struggling,       \* competencies each student struggles with, established
          CohortMinFamilies, MinActiveDays, SilentDays,
          SignalWindow,     \* days looked back on, 14 in the code
          MinAttempts       \* answers a question is judged by, 8 in the code

C == work["close"]

DeliversOn(f, today) == ~Paused(f) /\ IsScheduled(f, today)

\* The close of a day may run on a later one, when it failed before.
CloseBegins(d) ==
    /\ agenda.closing /\ At("close", "idle") /\ d <= day /\ Event("close", 0, d) \notin results
    /\ work' = [work EXCEPT !["close"] =
                  [Idle EXCEPT !.pc = "engagement", !.event = Event("close", 0, d), !.on = day,
                               !.todo = {f \in Family : DeliversOn(f, day)}]]
    /\ UNCHANGED <<world, tick, events, practice, decisions, close, delivery, faults>>

-----------------------------------------------------------------------------
(***************************************************************************)
(* Who has gone silent.  Days off, and days on which hardly anybody        *)
(* answered, do not count.                                                 *)
(***************************************************************************)
WindowDays(today) == [n \in 1..SignalWindow |-> today - SignalWindow + n]

OpenDays(f, today) == SelectSeq(WindowDays(today), LAMBDA d : IsScheduled(f, d))

CohortTotals(today) ==
    [d \in ToSet(WindowDays(today)) |-> DailyCount(EffectiveGrades(log), d)]

CountedDays(f, today) ==
    LET closed == OutageDays(CohortTotals(today), OpenDays(f, today))
    IN  SelectSeq(OpenDays(f, today), LAMBDA d : d \notin closed)

DailyCounts(f, today) ==
    LET days == CountedDays(f, today)
        own == EffectiveGrades({g \in log : g.student = f})
    IN  [n \in DOMAIN days |-> DailyCount(own, days[n])]

Silent(f, today) == EngagementTrigger(DailyCounts(f, today), MinActiveDays, SilentDays)

EngagementKey(f, today) == <<"engagement", f, 0, Week(today)>>

-----------------------------------------------------------------------------
(***************************************************************************)
(* Sections in which children of several families struggle with the same.  *)
(* One family is told, the first of those it would deliver to.             *)
(***************************************************************************)
Failing(c, section, today) ==
    {f \in Family : DeliversOn(f, today) /\ SectionOf[f] = section /\ c \in Struggling[f]}

Recipient(section, today) ==
    Min({f \in Family : DeliversOn(f, today) /\ SectionOf[f] = section})

CohortKeys(today) ==
    LET several(sc) == Count(Failing(sc[2], sc[1], today)) >= CohortMinFamilies
    IN  {<<"cohort", Recipient(sc[1], today), sc[2], Week(today)>> :
            sc \in {sc \in {SectionOf[f] : f \in Family} \X Curriculum : several(sc)}}

-----------------------------------------------------------------------------
(***************************************************************************)
(* A notice.                                                               *)
(***************************************************************************)
\* Every composition has an id of its own: between two of one key the day has
\* changed or something has failed.
FreshAlert == day * (MaxFaults + 1) + faults

\* Mutant of Alert: a notice that was not delivered is composed again.
AlertComposed(key) == FreshAlert

\* The alert that the record of the notice keeps, or a new one.
Alert(key) ==
    IF key \in DOMAIN notices THEN notices[key].alert ELSE FreshAlert

DeliveredAlready(key) == Row(notices, key, NoNotice).delivered

Compose(key, rest) ==
    work' = [work EXCEPT !["close"].pc = "record", !["close"].key = key,
                         !["close"].alert = Alert(key), !["close"].todo = rest]

Skip(rest) == work' = [work EXCEPT !["close"].todo = rest]

\* Families one after the other.
Engagement ==
    /\ At("close", "engagement") /\ C.todo # {}
    /\ LET f == Min(C.todo)
           key == EngagementKey(f, C.on)
           rest == C.todo \ {f}
       IN  IF Silent(f, C.on) /\ ~DeliveredAlready(key) THEN Compose(key, rest) ELSE Skip(rest)
    /\ UNCHANGED <<world, tick, events, practice, decisions, close, delivery, faults>>

EngagementDone ==
    /\ At("close", "engagement") /\ C.todo = {}
    /\ work' = [work EXCEPT !["close"].pc = "cohort", !["close"].todo = CohortKeys(C.on)]
    /\ UNCHANGED <<world, tick, events, practice, decisions, close, delivery, faults>>

Cohort ==
    /\ At("close", "cohort")
    /\ \E key \in C.todo :
         IF DeliveredAlready(key) THEN Skip(C.todo \ {key}) ELSE Compose(key, C.todo \ {key})
    /\ UNCHANGED <<world, tick, events, practice, decisions, close, delivery, faults>>

PutNotice ==
    /\ At("close", "record")
    /\ notices' = IF C.key \in DOMAIN notices THEN notices
                  ELSE PutRow(notices, C.key, [alert |-> C.alert, delivered |-> FALSE])
    /\ Goto("close", "alert")
    /\ UNCHANGED <<world, tick, events, practice, decisions, alerts, retired, delivery, faults>>

PutAlert ==
    /\ At("close", "alert")
    /\ alerts' = alerts \cup {<<C.key, C.alert>>}
    /\ DeliverThen("close", C.key, <<C.alert>>, "flag")
    /\ UNCHANGED <<world, tick, events, practice, decisions, notices, retired, delivery, faults>>

\* The record says it was delivered, and the close goes on where it was.
FlagDelivered ==
    /\ At("close", "flag")
    /\ notices' = PutRow(notices, C.key, [alert |-> C.alert, delivered |-> TRUE])
    /\ Goto("close", C.key[1])
    /\ UNCHANGED <<world, tick, events, practice, decisions, alerts, retired, delivery, faults>>

-----------------------------------------------------------------------------
(***************************************************************************)
(* Questions.                                                              *)
(***************************************************************************)
CohortDone ==
    /\ At("close", "cohort") /\ C.todo = {}
    /\ LET grades == FinalGrades(log)
           answered == {g.item : g \in EffectiveGrades(log)} \cap Item
       IN  work' = [work EXCEPT !["close"].pc = "optimize",
                                !["close"].todo = RetirementCandidates(answered, retired, grades, MinAttempts)]
    /\ UNCHANGED <<world, tick, events, practice, decisions, close, delivery, faults>>

Retire ==
    /\ At("close", "optimize")
    /\ \E i \in C.todo : retired' = retired \cup {i} /\ Skip(C.todo \ {i})
    /\ UNCHANGED <<world, tick, events, practice, decisions, notices, alerts, delivery, faults>>

CloseCompletes ==
    /\ At("close", "optimize") /\ C.todo = {}
    /\ results' = results \cup {C.event}
    /\ work' = [work EXCEPT !["close"] = Idle]
    /\ UNCHANGED <<world, tick, queue, practice, decisions, close, delivery, faults>>
=============================================================================
