----------------------------- MODULE DailyState -----------------------------
(***************************************************************************)
(* The state that the parts of a day share, and what they all do with it.  *)
(*                                                                         *)
(* Two processes write: the handler of the families' events, which handles *)
(* them one at a time (Invocation shows it for one family), and the daily  *)
(* close, which holds no lease of a family.  Each may die between any two  *)
(* of its writes, and its event is handled again from the start until it   *)
(* has a result.                                                           *)
(***************************************************************************)
EXTENDS DailyRules, Outbox

CONSTANTS Family,           \* families, numbered; each has one student
          FirstDay, LastDay,\* the days that are modelled
          RestDays,         \* the weekdays each family rests on
          Holidays,
          History,          \* the grade log at first
          Held, HeldOf,     \* answers and alerts an adult is to decide on: what
                            \* each is, whose, and of a held answer its grade
          Agendas,          \* bound: what happens in one behaviour: the alarms that
                            \* ring, what is decided on, whether days are closed,
                            \* exams that are announced, and how many pauses
          MaxFaults         \* bound on crashes and failed calls

ASSUME DaysAssumption ==
    /\ Family \subseteq Nat \ {0} /\ IsFiniteSet(Family)
    /\ FirstDay \in Nat \ {0} /\ LastDay \in Nat /\ FirstDay <= LastDay
    /\ MaxFaults \in Nat

\* What is held waits for its first decision.
ASSUME HeldAssumption ==
    /\ Held \subseteq Nat \ {0}
    /\ \A e \in Held : /\ HeldOf[e].what \in {"quarantine", "escalation"}
                       /\ \A g \in History : g.id # <<"human", e, 0>>

Day == FirstDay..LastDay

Process == {"handler", "close"}

VARIABLES day, agenda,
          status, pauses,   \* of each family; how often one changed
          ticks, fired,     \* ticks under way; job# records
          queue, results,   \* events to handle; events that have a result
          sessions,         \* the session of each student on each day
          log,              \* the grade log
          retired,          \* questions that are no longer asked
          exams,            \* exam dates of the students
          light,            \* the load reduction of each student: until when, why
          choice,           \* decisions as journaled
          decided,          \* decisions as put in what was decided on
          counted,          \* verdicts of an adult that were counted as outcomes
          pressed,          \* history: the buttons pressed
          notices, alerts,  \* notice# records; alerts as put
          boxes, told,      \* deliveries; what the chats got
          work,             \* where each process is and what it holds
          faults

world == <<day, agenda, status, pauses>>
tick == <<ticks, fired>>
events == <<queue, results>>
practice == <<sessions, log, exams, light>>
decisions == <<choice, decided, counted, pressed>>
close == <<notices, alerts, retired>>
delivery == <<boxes, told>>
vars == <<world, tick, events, practice, decisions, close, delivery, work, faults>>

-----------------------------------------------------------------------------
None == "none"
NoTick == [f |-> 0, day |-> 0, at |-> None]
NoSession == [id |-> 0, items |-> <<>>, status |-> None, composed |-> FALSE]
NoNotice == [alert |-> 0, delivered |-> FALSE]
NoReduction == [until |-> 0, source |-> 0]
NoKey == <<None, 0, 0, 0>>
Undecided == 0

Event(kind, f, arg) == [kind |-> kind, f |-> f, arg |-> arg]

NoEvent == Event(None, 0, 0)

Idle == [pc |-> "idle", event |-> NoEvent, on |-> 0, key |-> NoKey, messages |-> <<>>,
         next |-> None, todo |-> {}, alert |-> 0]

Init ==
    /\ day = FirstDay /\ agenda \in Agendas
    /\ status = [f \in Family |-> "active"] /\ pauses = 0
    /\ ticks = [t \in 1..2 |-> NoTick] /\ fired = {}
    /\ queue = {} /\ results = {}
    /\ sessions = [f \in Family |-> [d \in Day |-> NoSession]]
    /\ log = History
    /\ retired = {}
    /\ exams = {} /\ light = [f \in Family |-> NoReduction]
    /\ choice = [e \in Held |-> Undecided] /\ decided = [e \in Held |-> Undecided]
    /\ counted = {} /\ pressed = {}
    /\ notices = <<>> /\ alerts = {}
    /\ boxes = <<>> /\ told = {}
    /\ work = [p \in Process |-> Idle]
    /\ faults = 0

-----------------------------------------------------------------------------
DaysInWeek == 7

Week(d) == d \div DaysInWeek

IsScheduled(f, d) == d % DaysInWeek \notin RestDays[f] /\ d \notin Holidays

Paused(f) == status[f] = "paused"

\* Rows by key: one that may be missing, and one put.
Row(rows, key, none) == IF key \in DOMAIN rows THEN rows[key] ELSE none

PutRow(rows, key, row) == [k \in DOMAIN rows \cup {key} |-> IF k = key THEN row ELSE rows[k]]

-----------------------------------------------------------------------------
NextDay ==
    /\ day < LastDay /\ day' = day + 1
    /\ UNCHANGED <<agenda, status, pauses, tick, events, practice, decisions, close, delivery, work, faults>>

PauseOrResume(f) ==
    /\ pauses < agenda.pauses /\ pauses' = pauses + 1
    /\ status' = [status EXCEPT ![f] = IF Paused(f) THEN "active" ELSE "paused"]
    /\ UNCHANGED <<day, agenda, tick, events, practice, decisions, close, delivery, work, faults>>

-----------------------------------------------------------------------------
At(p, where) == work[p].pc = where

Goto(p, where) == work' = [work EXCEPT ![p].pc = where]

W == work["handler"]

\* The handler takes up an event; one that has a result is only acknowledged.
Handle(e) ==
    /\ At("handler", "idle") /\ e \in queue
    /\ IF e \in results
       THEN queue' = queue \ {e} /\ UNCHANGED work
       ELSE /\ work' = [work EXCEPT !["handler"] =
                          [Idle EXCEPT !.pc = e.kind, !.event = e, !.on = day]]
            /\ UNCHANGED queue
    /\ UNCHANGED <<world, tick, results, practice, decisions, close, delivery, faults>>

Complete ==
    /\ At("handler", "complete")
    /\ results' = results \cup {W.event} /\ queue' = queue \ {W.event}
    /\ work' = [work EXCEPT !["handler"] = Idle]
    /\ UNCHANGED <<world, tick, practice, decisions, close, delivery, faults>>

\* Deliver messages under a key, then go on.
DeliverThen(p, key, messages, next) ==
    work' = [work EXCEPT ![p].pc = "deliver", ![p].key = key, ![p].messages = messages,
                         ![p].next = next]

OpenBox(p) ==
    /\ At(p, "deliver")
    /\ boxes' = PutRow(boxes, work[p].key, Opened(Row(boxes, work[p].key, NoBox), work[p].messages))
    /\ Goto(p, "send")
    /\ UNCHANGED <<world, tick, events, practice, decisions, close, told, faults>>

Send(p) ==
    LET key == work[p].key IN
    /\ At(p, "send")
    /\ IF NothingLeft(boxes[key])
       THEN Goto(p, work[p].next) /\ UNCHANGED told
       ELSE Goto(p, "receipt") /\ told' = told \cup {[key |-> key, text |-> NextMessage(boxes[key])]}
    /\ UNCHANGED <<world, tick, events, practice, decisions, close, boxes, faults>>

Receipt(p) ==
    /\ At(p, "receipt")
    /\ boxes' = PutRow(boxes, work[p].key, Receipted(boxes[work[p].key]))
    /\ Goto(p, "send")
    /\ UNCHANGED <<world, tick, events, practice, decisions, close, told, faults>>

Deliver(p) == OpenBox(p) \/ Send(p) \/ Receipt(p)

\* A process dies or one of its calls fails; what it was sending may have arrived.
Crash(p) ==
    /\ ~At(p, "idle") /\ faults < MaxFaults
    /\ work' = [work EXCEPT ![p] = Idle]
    /\ faults' = faults + 1
    /\ UNCHANGED <<world, tick, events, practice, decisions, close, delivery>>
=============================================================================
