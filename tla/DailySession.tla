---------------------------- MODULE DailySession ----------------------------
(***************************************************************************)
(* The session of a day: the tick that fires its event, the plan, the      *)
(* capsule and its delivery.                                               *)
(***************************************************************************)
EXTENDS DailyState

CONSTANTS Spaced,           \* what each student has seen: item, due day, lapses
          Known,            \* accuracy by competency of each student, in percent
          Tunings,          \* difficulties adapted for each student
          Forced,           \* competencies each student must explain in
          DailyItemLimit, ExamItemCap, ExamHorizon

\* A child has seen a question or not, and the numbers are whole.
ASSUME PlanAssumption ==
    /\ Item \subseteq Nat \ {0} /\ IsFiniteSet(Item)
    /\ \A i \in Item : ItemOf[i].difficulty \in Int /\ ItemOf[i].stem \in Int
    /\ \A f \in Family :
         /\ IsFiniteSet(Spaced[f])
         /\ \A s \in Spaced[f] : s.due \in Int /\ s.lapses \in Int
         /\ \A r, s \in Spaced[f] : r.item = s.item => r = s
         /\ \A c \in DOMAIN Known[f] : Known[f][c] \in Int
    /\ DailyItemLimit \in Nat \ {0} /\ ExamItemCap \in Nat /\ DailyItemLimit <= ExamItemCap

AdaptiveLimit == 4

\* What a capsule says, as against the options and alerts of other messages.
Capsule == 0

-----------------------------------------------------------------------------
(***************************************************************************)
(* The tick.  The alarm of a family rings, perhaps twice; the record of    *)
(* the day is looked for before the event is published, and written after. *)
(***************************************************************************)
TickLooks(t, f) ==
    /\ <<f, day>> \in agenda.alarms /\ ticks[t] = NoTick
    /\ \A u \in 1..(t - 1) : ticks[u] # NoTick
    /\ ~Paused(f) /\ IsScheduled(f, day) /\ <<f, day>> \notin fired
    /\ ticks' = [ticks EXCEPT ![t] = [f |-> f, day |-> day, at |-> "publish"]]
    /\ UNCHANGED <<world, fired, events, practice, decisions, close, delivery, work, faults>>

TickPublishes(t) ==
    /\ ticks[t].at = "publish"
    /\ queue' = queue \cup {Event("session", ticks[t].f, ticks[t].day)}
    /\ ticks' = [ticks EXCEPT ![t].at = "record"]
    /\ UNCHANGED <<world, fired, results, practice, decisions, close, delivery, work, faults>>

TickRecords(t) ==
    /\ ticks[t].at = "record"
    /\ fired' = fired \cup {<<ticks[t].f, ticks[t].day>>}
    /\ ticks' = [ticks EXCEPT ![t] = NoTick]
    /\ UNCHANGED <<world, events, practice, decisions, close, delivery, work, faults>>

\* The scheduler tries a tick that failed again.
TickDies(t) ==
    /\ ticks[t] # NoTick /\ faults < MaxFaults
    /\ ticks' = [ticks EXCEPT ![t] = NoTick] /\ faults' = faults + 1
    /\ UNCHANGED <<world, fired, events, practice, decisions, close, delivery, work>>

-----------------------------------------------------------------------------
AnnounceExam(f, date) ==
    /\ <<f, date>> \in agenda.exams \ exams
    /\ Event("exam", f, date) \notin queue
    /\ queue' = queue \cup {Event("exam", f, date)}
    /\ UNCHANGED <<world, tick, results, practice, decisions, close, delivery, work, faults>>

RecordExam ==
    /\ At("handler", "exam")
    /\ exams' = exams \cup {<<W.event.f, W.event.arg>>}
    /\ Goto("handler", "complete")
    /\ UNCHANGED <<world, tick, events, sessions, log, light, decisions, close, delivery, faults>>

ExamIsNear(f, today) == \E date \in today..(today + ExamHorizon) : <<f, date>> \in exams

-----------------------------------------------------------------------------
(***************************************************************************)
(* The plan.                                                               *)
(***************************************************************************)
Limit(f, today) ==
    LET usual == IF ExamIsNear(f, today)
                 THEN Smaller(DailyItemLimit + 1, ExamItemCap) ELSE DailyItemLimit
    IN  Smaller(usual, IF light[f].until > today THEN 1 ELSE AdaptiveLimit)

Available(f) == SelectAdapted(BankItems(f, retired), Tunings[f])

Planned(f, today) ==
    LET spaced == {s \in Spaced[f] : s.item \in Available(f)}
        items == PlanItems(spaced, Known[f], Available(f), today, Limit(f, today))
        order == IF ExamIsNear(f, today) THEN WeakestFirst(ToSet(items), Known[f]) ELSE items
    IN  OpenVariants(order, Forced[f])

NewSession(f, today) ==
    [id |-> sessions[f][today].id + 1, items |-> Planned(f, today), status |-> "planned",
     composed |-> FALSE]

PutSession(f, d, session) == sessions' = [sessions EXCEPT ![f][d] = session]

\* Mutant of Existing: a session that was not delivered is planned again.
ExistingDelivered(f, d) ==
    IF sessions[f][d].status = "planned" THEN NoSession ELSE sessions[f][d]

\* What get_session_by_date finds.
Existing(f, d) == sessions[f][d]

\* A session that was planned or composed before is taken up where it was left.
Plan ==
    /\ At("handler", "session")
    /\ LET f == W.event.f
           found == Existing(f, W.on)
           fresh == NewSession(f, W.on)
       IN  \/ /\ Paused(f) \/ found.status \in {"delivered", "completed"}
              /\ Goto("handler", "complete") /\ UNCHANGED sessions
           \/ /\ ~Paused(f) /\ found.status = "planned"
              /\ Goto("handler", IF found.composed THEN "capsule" ELSE "compose")
              /\ UNCHANGED sessions
           \/ /\ ~Paused(f) /\ found = NoSession /\ fresh.items = <<>>
              /\ Goto("handler", "complete") /\ UNCHANGED sessions
           \/ /\ ~Paused(f) /\ found = NoSession /\ fresh.items # <<>>
              /\ PutSession(f, W.on, fresh)
              /\ Goto("handler", "compose")
    /\ UNCHANGED <<world, tick, events, log, exams, light, decisions, close, delivery, faults>>

Session == sessions[W.event.f][W.on]

ComposeCapsule ==
    /\ At("handler", "compose")
    /\ PutSession(W.event.f, W.on, [Session EXCEPT !.composed = TRUE])
    /\ Goto("handler", "capsule")
    /\ UNCHANGED <<world, tick, events, log, exams, light, decisions, close, delivery, faults>>

SessionKey(f, d, id) == <<"session", f, d, id>>

DeliverCapsule ==
    /\ At("handler", "capsule")
    /\ DeliverThen("handler", SessionKey(W.event.f, W.on, Session.id), <<Capsule>>, "delivered")
    /\ UNCHANGED <<world, tick, events, practice, decisions, close, delivery, faults>>

MarkDelivered ==
    /\ At("handler", "delivered")
    /\ PutSession(W.event.f, W.on, [Session EXCEPT !.status = "delivered"])
    /\ Goto("handler", "complete")
    /\ UNCHANGED <<world, tick, events, log, exams, light, decisions, close, delivery, faults>>

\* The child answers its capsule; the writes of an answer are in CapsuleAnswers.
Practise(f) ==
    /\ sessions[f][day].status = "delivered" /\ W.event.f # f
    /\ \E verdict \in {"right", "wrong"} :
         log' = log \cup {[id |-> <<"answer", f, day>>, student |-> f, day |-> day,
                           item |-> Head(sessions[f][day].items), verdict |-> verdict,
                           supersedes |-> <<>>]}
    /\ PutSession(f, day, [sessions[f][day] EXCEPT !.status = "completed"])
    /\ UNCHANGED <<world, tick, events, exams, light, decisions, close, delivery, work, faults>>
=============================================================================
