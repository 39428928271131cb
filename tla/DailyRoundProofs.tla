-------------------------- MODULE DailyRoundProofs --------------------------
(***************************************************************************)
(* Why a child gets one capsule a day, the first decision of an adult is   *)
(* the one that stands, and a family has one alert of a kind in a week.    *)
(*                                                                         *)
(* Each is decided by a record that is written before anything follows it: *)
(* the session of the day, the journal of the decision, the record of the  *)
(* notice.  Wherever a process is, what it holds is what the record says,  *)
(* and whatever it dies at, the deliveries keep what they began to say.    *)
(* That a capsule is sound comes from the rules that plan it.              *)
(***************************************************************************)
EXTENDS DailyRound, FiniteSetTheorems, SequenceTheorems, TLAPS

-----------------------------------------------------------------------------
Field == {"pc", "event", "on", "key", "messages", "next", "todo", "alert"}

Worker(w) == DOMAIN w = Field /\ w = [x \in Field |-> w[x]]

Workers == work = [p \in Process |-> work[p]] /\ \A p \in Process : Worker(work[p])

Delivering(p) == work[p].pc \in {"deliver", "send", "receipt"}

\* Where a process is, or where it goes on once its delivery is done.
Where(p) == IF Delivering(p) THEN work[p].next ELSE work[p].pc

NoticeKind == {"engagement", "cohort"}

HandlerKind == {"session", "quarantine", "escalation"}

\* What may be said under a key.
Says(k, t) ==
    /\ k[1] = "session" => t = Capsule /\ k = SessionKey(k[2], k[3], 1)
    /\ k[1] \in NoticeKind => <<k, t>> \in alerts
    /\ \A e \in Held : k = Ack(e) => choice[e] # Undecided /\ t \in {choice[e], Note}

-----------------------------------------------------------------------------
\* What a box holds, and what was told, may be said.
BoxesSay ==
    \A k \in DOMAIN boxes :
        /\ boxes[k] \in [messages : Seq(Nat), receipts : Nat]
        /\ boxes[k].receipts <= Len(boxes[k].messages)
        /\ \A n \in 1..Len(boxes[k].messages) : Says(k, boxes[k].messages[n])

ToldSay == \A m \in told : m = [key |-> m.key, text |-> m.text] /\ Says(m.key, m.text)

\* A process delivers what may be said, into boxes that only it delivers from.
DeliversAs(p) ==
    /\ At(p, "deliver") => /\ work[p].messages \in Seq(Nat)
                           /\ \A n \in 1..Len(work[p].messages) :
                                Says(work[p].key, work[p].messages[n])
    /\ work[p].pc \in {"send", "receipt"} => work[p].key \in DOMAIN boxes
    /\ At(p, "receipt") =>
           boxes[work[p].key].receipts < Len(boxes[work[p].key].messages)
    /\ Delivering(p) => work[p].key[1] \in IF p = "close" THEN NoticeKind ELSE HandlerKind

DeliveryInv == BoxesSay /\ ToldSay /\ \A p \in Process : DeliversAs(p)

-----------------------------------------------------------------------------
\* The session of a day, once there is one, is the first and only.
OneSession ==
    /\ sessions = [f \in Family |-> [d \in Day |-> sessions[f][d]]]
    /\ \A f \in Family, d \in Day :
         /\ {"id", "items"} \subseteq DOMAIN sessions[f][d]
         /\ sessions[f][d] = NoSession \/ sessions[f][d].id = 1

Events ==
    /\ \A e \in queue :
         \/ e.kind = "session" /\ e.f \in Family
         \/ e.kind = "exam"
         \/ e.kind = "decide" /\ e.f \in Held /\ e.arg \in 1..2
    /\ ticks \in [1..2 -> [f : Nat, day : Nat, at : {None, "publish", "record"}]]
    /\ \A t \in 1..2 : ticks[t].at # None => ticks[t].f \in Family

\* The handler holds the family and the day it plans, the decision it follows.
HandlerKnows ==
    LET w == work["handler"]
        where == Where("handler")
    IN  /\ where \in {"idle", "session", "compose", "capsule", "delivered", "complete", "exam",
                      "decide", "quarantine", "escalation", "count", "resolve"}
        /\ where \in {"session", "compose", "capsule", "delivered"} =>
               w.event.f \in Family /\ w.on \in Day
        /\ where \in {"compose", "capsule", "delivered"} => sessions[w.event.f][w.on].id = 1
        /\ where \in {"decide", "quarantine", "escalation", "count", "resolve"} => w.event.f \in Held
        /\ where = "decide" => w.event.arg \in 1..2
        /\ where \in {"quarantine", "escalation", "count", "resolve"} =>
               w.on # Undecided /\ w.on = choice[w.event.f]

\* Whatever follows a decision follows the journal.
Decisions ==
    /\ choice \in [Held -> 0..2] /\ decided \in [Held -> 0..2]
    /\ \A e \in Held : decided[e] \in {Undecided, choice[e]}

Effects ==
    \A e \in Held :
        /\ \A c \in counted : c[1] = e => choice[e] # Undecided /\ c[2] = choice[e]
        /\ \A g \in log : g.id = <<"human", e, 0>> =>
             choice[e] # Undecided /\ g = HumanGrade(e, choice[e])

Loads ==
    /\ light = [f \in Family |-> light[f]]
    /\ \A f \in Family, e \in Held : light[f].source = e => choice[e] = ReduceLoad

HandlerInv == OneSession /\ Events /\ HandlerKnows /\ Decisions /\ Effects /\ Loads

-----------------------------------------------------------------------------
\* An alert is the one that the record of its notice keeps.
AlertsKept ==
    /\ \A k \in DOMAIN notices : notices[k].alert \in Nat
    /\ \A a \in alerts : a = <<a[1], a[2]>> /\ a[1] \in DOMAIN notices
                         /\ a[2] = notices[a[1]].alert

\* The close holds the alert of the record, as soon as there is one.
CloseKnows ==
    LET c == work["close"]
        where == Where("close")
    IN  /\ where \in {"idle", "engagement", "cohort", "record", "alert", "flag", "optimize"}
        /\ where \in {"record", "alert", "flag"} =>
             /\ c.key[1] \in NoticeKind /\ c.alert \in Nat
             /\ c.key \in DOMAIN notices => c.alert = notices[c.key].alert
        /\ where \in {"alert", "flag"} => c.key \in DOMAIN notices
        /\ where = "cohort" \/ (where \in {"record", "alert", "flag"} /\ c.key[1] = "cohort") =>
             \A k \in c.todo : k[1] = "cohort"

Clock == day \in Day /\ faults \in Nat

CloseInv == AlertsKept /\ CloseKnows /\ Clock

IInv == Workers /\ DeliveryInv /\ HandlerInv /\ CloseInv

-----------------------------------------------------------------------------
(***************************************************************************)
(* What a step does to the process that takes it, and not to the other.    *)
(***************************************************************************)
\* Nothing of a process is another but its place.
SameHands(p) ==
    /\ work'[p].event = work[p].event /\ work'[p].on = work[p].on
    /\ work'[p].key = work[p].key /\ work'[p].alert = work[p].alert
    /\ work'[p].todo = work[p].todo

Only(p) == Workers' /\ \A q \in Process \ {p} : work'[q] = work[q]

LEMMA SetIs ==
    ASSUME Workers, NEW p \in Process, NEW v, Worker(v), work' = [work EXCEPT ![p] = v]
    PROVE  Only(p) /\ work'[p] = v
<1>1. work'[p] = v /\ \A q \in Process \ {p} : work'[q] = work[q]
  BY DEF Workers
<1>2. work' = [q \in Process |-> work'[q]]
  BY DEF Workers
<1>3. \A q \in Process : Worker(work'[q])
  BY <1>1 DEF Workers
<1> QED
  BY <1>1, <1>2, <1>3 DEF Only, Workers, Worker

LEMMA GotoIs ==
    ASSUME Workers, NEW p \in Process, NEW where, Goto(p, where)
    PROVE  /\ Only(p) /\ SameHands(p) /\ work'[p].pc = where
           /\ work'[p].messages = work[p].messages /\ work'[p].next = work[p].next
<1> DEFINE w == work[p]
           v == [w EXCEPT !.pc = where]
<1>1. Worker(v) /\ v.pc = where /\ \A x \in Field \ {"pc"} : v[x] = w[x]
  BY DEF Workers, Worker, Field
<1>2. work' = [work EXCEPT ![p] = v]
  BY DEF Goto, Workers
<1> HIDE DEF v
<1>3. Only(p) /\ work'[p] = v
  BY <1>1, <1>2, SetIs
<1> QED
  BY <1>1, <1>3 DEF SameHands, Field

LEMMA DeliverThenIs ==
    ASSUME Workers, NEW p \in Process, NEW key, NEW messages, NEW next,
           DeliverThen(p, key, messages, next)
    PROVE  /\ Only(p) /\ work'[p].pc = "deliver" /\ work'[p].key = key
           /\ work'[p].messages = messages /\ work'[p].next = next
           /\ \A x \in {"event", "on", "todo", "alert"} : work'[p][x] = work[p][x]
<1> DEFINE w == work[p]
           v == [w EXCEPT !.pc = "deliver", !.key = key, !.messages = messages, !.next = next]
<1>1. /\ Worker(v) /\ v.pc = "deliver" /\ v.key = key /\ v.messages = messages /\ v.next = next
      /\ \A x \in {"event", "on", "todo", "alert"} : v[x] = w[x]
  BY DEF Workers, Worker, Field
<1>2. work' = [work EXCEPT ![p] = v]
  BY DEF DeliverThen, Workers
<1> HIDE DEF v
<1>3. Only(p) /\ work'[p] = v
  BY <1>1, <1>2, SetIs
<1> QED
  BY <1>1, <1>3

LEMMA ComposeIs ==
    ASSUME Workers, NEW key, NEW rest, Compose(key, rest)
    PROVE  /\ Only("close") /\ work'["close"].pc = "record" /\ work'["close"].key = key
           /\ work'["close"].alert = Alert(key) /\ work'["close"].todo = rest
<1> DEFINE alert == Alert(key)
           v == [C EXCEPT !.pc = "record", !.key = key, !.alert = alert, !.todo = rest]
<1>1. work' = [work EXCEPT !["close"] = v]
  BY DEF Compose, Workers, C, Process
<1> HIDE DEF alert
<1>2. /\ Worker(v) /\ v.pc = "record" /\ v.key = key /\ v.alert = alert /\ v.todo = rest
      /\ "close" \in Process
  BY DEF Workers, Worker, C, Process, Field
<1> HIDE DEF v
<1>3. Only("close") /\ work'["close"] = v
  BY <1>1, <1>2, SetIs
<1> QED
  BY <1>2, <1>3 DEF alert

\* The close goes on with what is left to do, here or elsewhere.
LEMMA CloseMoves ==
    ASSUME Workers, NEW rest, NEW where,
           work' = [work EXCEPT !["close"].pc = where, !["close"].todo = rest]
    PROVE  Only("close") /\ work'["close"].pc = where /\ work'["close"].todo = rest
<1> DEFINE v == [C EXCEPT !.pc = where, !.todo = rest]
<1>1. work' = [work EXCEPT !["close"] = v]
  BY DEF Workers, C, Process
<1>2. Worker(v) /\ v.pc = where /\ v.todo = rest /\ "close" \in Process
  BY DEF Workers, Worker, C, Process, Field
<1> HIDE DEF v
<1>3. Only("close") /\ work'["close"] = v
  BY <1>1, <1>2, SetIs
<1> QED
  BY <1>2, <1>3

LEMMA SkipIs ==
    ASSUME Workers, NEW rest, Skip(rest)
    PROVE  /\ Only("close") /\ work'["close"].todo = rest
           /\ \A x \in Field \ {"todo"} : work'["close"][x] = work["close"][x]
<1> DEFINE v == [C EXCEPT !.todo = rest]
<1>1. /\ Worker(v) /\ v.todo = rest /\ "close" \in Process
      /\ \A x \in Field \ {"todo"} : v[x] = C[x]
  BY DEF Workers, Worker, C, Process, Field
<1>2. work' = [work EXCEPT !["close"] = v]
  BY DEF Skip, Workers, C, Process
<1> HIDE DEF v
<1>3. Only("close") /\ work'["close"] = v
  BY <1>1, <1>2, SetIs
<1> QED
  BY <1>1, <1>3 DEF C

LEMMA IdleIsWorker == Worker(Idle) /\ Idle.pc = "idle"
  BY DEF Idle, Worker, Field

\* A process that ends its work, dies or begins anew, holds nothing else.
LEMMA IdleIs ==
    ASSUME Workers, NEW p \in Process, work' = [work EXCEPT ![p] = Idle]
    PROVE  Only(p) /\ work'[p].pc = "idle"
  BY IdleIsWorker, SetIs

LEMMA DecidingIs ==
    ASSUME Workers, NEW where, NEW option,
           work' = [work EXCEPT !["handler"].pc = where, !["handler"].on = option]
    PROVE  /\ Only("handler") /\ work'["handler"].pc = where /\ work'["handler"].on = option
           /\ work'["handler"].event = W.event
<1> DEFINE v == [W EXCEPT !.pc = where, !.on = option]
<1>1. work' = [work EXCEPT !["handler"] = v]
  BY DEF Workers, W, Process
<1>2. /\ Worker(v) /\ v.pc = where /\ v.on = option /\ v.event = W.event
      /\ "handler" \in Process
  BY DEF Workers, Worker, W, Process, Field
<1> HIDE DEF v
<1>3. Only("handler") /\ work'["handler"] = v
  BY <1>1, <1>2, SetIs
<1> QED
  BY <1>2, <1>3

\* The handler takes up an event that has no result.
LEMMA TakingUpIs ==
    ASSUME Workers, NEW e,
           work' = [work EXCEPT !["handler"] = [Idle EXCEPT !.pc = e.kind, !.event = e, !.on = day]]
    PROVE  /\ Only("handler") /\ work'["handler"].pc = e.kind
           /\ work'["handler"].event = e /\ work'["handler"].on = day
<1> DEFINE v == [Idle EXCEPT !.pc = e.kind, !.event = e, !.on = day]
<1>1. Worker(v) /\ v.pc = e.kind /\ v.event = e /\ v.on = day /\ "handler" \in Process
  BY IdleIsWorker DEF Worker, Process, Field
<1> HIDE DEF v
<1>2. Only("handler") /\ work'["handler"] = v
  BY <1>1, SetIs DEF v
<1> QED
  BY <1>1, <1>2

LEMMA BeginningIs ==
    ASSUME Workers, NEW d, CloseBegins(d)
    PROVE  Only("close") /\ work'["close"].pc = "engagement"
<1> DEFINE event == Event("close", 0, d)
           todo == {f \in Family : DeliversOn(f, day)}
           v == [Idle EXCEPT !.pc = "engagement", !.event = event, !.on = day, !.todo = todo]
<1>1. work' = [work EXCEPT !["close"] = v]
  BY DEF CloseBegins
<1> HIDE DEF event, todo
<1>2. Worker(v) /\ v.pc = "engagement" /\ "close" \in Process
  BY IdleIsWorker DEF Worker, Process, Field
<1> HIDE DEF v
<1>3. Only("close") /\ work'["close"] = v
  BY <1>1, <1>2, SetIs
<1> QED
  BY <1>2, <1>3

-----------------------------------------------------------------------------
(***************************************************************************)
(* Who writes what.                                                        *)
(***************************************************************************)
HandlerStep == Handler \/ \E e \in queue : Handle(e)

CloseStep == Closing \/ \E d \in Day : CloseBegins(d)

DeliveryStep == \E p \in Process : Deliver(p)

CrashStep == \E p \in Process : Crash(p)

\* What goes on outside the two processes.
WorldStep ==
    \/ NextDay
    \/ \E t \in 1..2 : Tick(t)
    \/ \E f \in Family : PauseOrResume(f) \/ Practise(f)
    \/ \E exam \in agenda.exams : AnnounceExam(exam[1], exam[2])
    \/ \E e \in Held, option \in 1..2 : Press(e, option)

LEMMA Steps ==
    ASSUME Next
    PROVE  WorldStep \/ HandlerStep \/ CloseStep \/ DeliveryStep \/ CrashStep
  BY DEF Next, WorldStep, HandlerStep, CloseStep, DeliveryStep, CrashStep

LEMMA WorldKeeps ==
    ASSUME WorldStep
    PROVE  UNCHANGED <<work, light, choice, decided, counted, notices, alerts, boxes, told>>
  BY DEF WorldStep, NextDay, Tick, TickLooks, TickPublishes, TickRecords, TickDies, PauseOrResume,
         Practise, AnnounceExam, Press, practice, decisions, close, delivery

LEMMA HandlerKeeps ==
    ASSUME HandlerStep
    PROVE  UNCHANGED <<day, ticks, notices, alerts, boxes, told, faults>> /\ queue' \subseteq queue
  BY DEF HandlerStep, Handler, Handle, Plan, ComposeCapsule, DeliverCapsule, MarkDelivered,
         RecordExam, Decide, Release, CountOutcome, Resolve, Carry, Complete, world, tick, events,
         close, delivery

LEMMA CloseKeeps ==
    ASSUME CloseStep
    PROVE  UNCHANGED <<day, ticks, queue, sessions, log, light, choice, decided, counted, boxes,
                       told, faults>>
  BY DEF CloseStep, Closing, CloseBegins, Engagement, EngagementDone, Cohort, PutNotice, PutAlert,
         FlagDelivered, CohortDone, Retire, CloseCompletes, world, tick, events, practice,
         decisions, delivery

LEMMA DeliveryKeeps ==
    ASSUME DeliveryStep
    PROVE  UNCHANGED <<day, ticks, queue, sessions, log, light, choice, decided, counted, notices,
                       alerts, faults>>
  BY DEF DeliveryStep, Deliver, OpenBox, Send, Receipt, world, tick, events, practice, decisions,
         close

LEMMA CrashKeeps ==
    ASSUME CrashStep
    PROVE  UNCHANGED <<day, ticks, queue, sessions, log, light, choice, decided, counted, notices,
                       alerts, boxes, told>>
  BY DEF CrashStep, Crash, world, tick, events, practice, decisions, close, delivery

-----------------------------------------------------------------------------
(***************************************************************************)
(* Deliveries.                                                             *)
(***************************************************************************)
\* An alert put stays put, and a decision once made.
Grows ==
    /\ alerts \subseteq alerts'
    /\ \A e \in Held : choice[e] # Undecided => choice'[e] = choice[e]

LEMMA SaysKept ==
    ASSUME Grows, NEW k, NEW t, Says(k, t)
    PROVE  Says(k, t)'
  BY DEF Grows, Says

LEMMA DeliveriesKept ==
    ASSUME DeliveryInv, Grows, UNCHANGED <<boxes, told>>,
           \A p \in Process : work'[p] = work[p] \/ DeliversAs(p)'
    PROVE  DeliveryInv'
<1>1. BoxesSay'
  BY SaysKept DEF DeliveryInv, BoxesSay
<1>2. ToldSay'
  BY SaysKept DEF DeliveryInv, ToldSay
<1>3. ASSUME NEW p \in Process, work'[p] = work[p] PROVE DeliversAs(p)'
  <2>1. DeliversAs(p)
    BY DEF DeliveryInv
  <2> QED
    BY <1>3, <2>1, SaysKept DEF DeliversAs, At, Delivering
<1> QED
  BY <1>1, <1>2, <1>3 DEF DeliveryInv

LEMMA NotDelivering ==
    ASSUME NEW p, ~Delivering(p)'
    PROVE  DeliversAs(p)'
  BY DEF DeliversAs, Delivering, At

\* The two processes deliver into different boxes.
LEMMA BoxesApart ==
    ASSUME DeliveryInv, NEW p \in Process, NEW q \in Process \ {p}, Delivering(p), Delivering(q)
    PROVE  work[p].key # work[q].key
<1>1. /\ work[p].key[1] \in IF p = "close" THEN NoticeKind ELSE HandlerKind
      /\ work[q].key[1] \in IF q = "close" THEN NoticeKind ELSE HandlerKind
  BY DEF DeliveryInv, DeliversAs
<1>2. (p = "close" /\ q = "handler") \/ (p = "handler" /\ q = "close")
  BY DEF Process
<1> QED
  BY <1>1, <1>2 DEF NoticeKind, HandlerKind

\* The other process delivers on while a box is put.
LEMMA OthersDeliver ==
    ASSUME DeliveryInv, Grows, NEW p \in Process, NEW q \in Process \ {p}, Delivering(p),
           work'[q] = work[q], NEW row, boxes' = PutRow(boxes, work[p].key, row)
    PROVE  DeliversAs(q)'
<1>1. DeliversAs(q)
  BY DEF DeliveryInv
<1>2. DOMAIN boxes \subseteq DOMAIN boxes'
  BY DEF PutRow
<1>3. CASE Delivering(q)
  <2>1. work[q].key # work[p].key
    BY <1>3, BoxesApart
  <2>2. work[q].key \in DOMAIN boxes => boxes'[work[q].key] = boxes[work[q].key]
    BY <2>1 DEF PutRow
  <2> QED
    BY <1>1, <1>2, <2>2, SaysKept DEF DeliversAs, At, Delivering
<1>4. CASE ~Delivering(q)
  BY <1>4, NotDelivering DEF Delivering
<1> QED
  BY <1>3, <1>4

LEMMA BoxPut ==
    ASSUME DeliveryInv, Grows, NEW key, NEW row, boxes' = PutRow(boxes, key, row),
           row \in [messages : Seq(Nat), receipts : Nat], row.receipts <= Len(row.messages),
           \A n \in 1..Len(row.messages) : Says(key, row.messages[n])
    PROVE  BoxesSay'
<1> SUFFICES ASSUME NEW k \in DOMAIN boxes'
             PROVE  (/\ boxes[k] \in [messages : Seq(Nat), receipts : Nat]
                     /\ boxes[k].receipts <= Len(boxes[k].messages)
                     /\ \A n \in 1..Len(boxes[k].messages) : Says(k, boxes[k].messages[n]))'
  BY DEF BoxesSay
<1>1. CASE k = key
  <2>1. boxes'[k] = row
    BY <1>1 DEF PutRow
  <2> QED
    BY <1>1, <2>1, SaysKept
<1>2. CASE k # key
  <2>1. k \in DOMAIN boxes /\ boxes'[k] = boxes[k]
    BY <1>2 DEF PutRow
  <2> QED
    BY <2>1, SaysKept DEF DeliveryInv, BoxesSay
<1> QED
  BY <1>1, <1>2

LEMMA OpenBoxKeeps ==
    ASSUME Workers, DeliveryInv, NEW p \in Process, OpenBox(p)
    PROVE  DeliveryInv' /\ Only(p) /\ SameHands(p) /\ work'[p].next = work[p].next
           /\ Delivering(p) /\ Delivering(p)'
<1> DEFINE key == work[p].key
           messages == work[p].messages
           old == Row(boxes, key, NoBox)
           row == Opened(old, messages)
<1>0. /\ At(p, "deliver") /\ boxes' = PutRow(boxes, key, row) /\ Goto(p, "send")
      /\ UNCHANGED told /\ Grows
  BY DEF OpenBox, Grows, decisions, close
<1>1. /\ Only(p) /\ SameHands(p) /\ work'[p].pc = "send" /\ work'[p].next = work[p].next
  BY <1>0, GotoIs
<1>2. Delivering(p) /\ Delivering(p)' /\ DeliversAs(p)
  BY <1>0, <1>1 DEF Delivering, At, DeliveryInv
<1>3. /\ row \in [messages : Seq(Nat), receipts : Nat] /\ row.receipts <= Len(row.messages)
      /\ \A n \in 1..Len(row.messages) : Says(key, row.messages[n])
  <2>1. messages \in Seq(Nat) /\ \A n \in 1..Len(messages) : Says(key, messages[n])
    BY <1>0, <1>2 DEF DeliversAs
  <2>2. CASE IsOpen(old)
    <3>1. key \in DOMAIN boxes /\ row = boxes[key]
      BY <2>2 DEF Opened, Row, IsOpen
    <3> QED
      BY <3>1 DEF DeliveryInv, BoxesSay
  <2>3. CASE ~IsOpen(old)
    <3>1. row = [messages |-> messages, receipts |-> 0]
      BY <2>3 DEF Opened
    <3> QED
      BY <2>1, <3>1
  <2> QED
    BY <2>2, <2>3
<1> HIDE DEF row
<1>4. BoxesSay'
  BY <1>0, <1>3, BoxPut
<1>5. ToldSay'
  BY <1>0, SaysKept DEF DeliveryInv, ToldSay
<1>6. DeliversAs(p)'
  <2>1. work'[p].key \in DOMAIN boxes' /\ work'[p].key[1] = key[1]
    BY <1>0, <1>1 DEF SameHands, PutRow
  <2> QED
    BY <1>1, <1>2, <2>1 DEF DeliversAs, At
<1>7. ASSUME NEW q \in Process \ {p} PROVE DeliversAs(q)'
  <2>1. work'[q] = work[q]
    BY <1>1 DEF Only
  <2> QED
    BY <1>0, <1>2, <2>1, OthersDeliver
<1> QED
  BY <1>1, <1>2, <1>4, <1>5, <1>6, <1>7 DEF DeliveryInv

LEMMA SendKeeps ==
    ASSUME Workers, DeliveryInv, NEW p \in Process, Send(p),
           work[p].next \notin {"deliver", "send", "receipt"}
    PROVE  /\ DeliveryInv' /\ Only(p) /\ SameHands(p) /\ work'[p].next = work[p].next
           /\ Delivering(p) /\ (Delivering(p)' \/ work'[p].pc = work[p].next)
<1> DEFINE key == work[p].key
           box == boxes[key]
<1>0. At(p, "send") /\ UNCHANGED boxes /\ Grows
  BY DEF Send, Grows, decisions, close
<1>1. Delivering(p) /\ DeliversAs(p)
  BY <1>0 DEF Delivering, At, DeliveryInv
<1>2. key \in DOMAIN boxes
  BY <1>0, <1>1 DEF DeliversAs, At
<1>3. CASE NothingLeft(box)
  <2>1. Goto(p, work[p].next) /\ UNCHANGED told
    BY <1>3 DEF Send
  <2>2. /\ Only(p) /\ SameHands(p) /\ work'[p].pc = work[p].next
        /\ work'[p].next = work[p].next
    BY <2>1, GotoIs
  <2>3. DeliversAs(p)'
    BY <2>2, NotDelivering DEF Delivering
  <2>4. DeliveryInv'
    BY <1>0, <2>1, <2>2, <2>3, DeliveriesKept DEF Only
  <2> QED
    BY <1>1, <2>2, <2>4
<1>4. CASE ~NothingLeft(box)
  <2> DEFINE m == [key |-> key, text |-> NextMessage(box)]
  <2>1. Goto(p, "receipt") /\ told' = told \cup {m}
    BY <1>4 DEF Send
  <2>2. /\ Only(p) /\ SameHands(p) /\ work'[p].pc = "receipt" /\ work'[p].next = work[p].next
    BY <2>1, GotoIs
  <2>3. /\ box \in [messages : Seq(Nat), receipts : Nat] /\ box.receipts <= Len(box.messages)
        /\ \A n \in 1..Len(box.messages) : Says(key, box.messages[n])
    BY <1>2 DEF DeliveryInv, BoxesSay
  <2>4. box.receipts < Len(box.messages) /\ box.receipts + 1 \in 1..Len(box.messages)
    BY <1>4, <2>3 DEF NothingLeft
  <2>5. m = [key |-> m.key, text |-> m.text] /\ Says(m.key, m.text)
    BY <2>3, <2>4 DEF NextMessage
  <2> HIDE DEF m
  <2>6. ToldSay'
    BY <1>0, <2>1, <2>5, SaysKept DEF DeliveryInv, ToldSay
  <2>7. BoxesSay'
    BY <1>0, SaysKept DEF DeliveryInv, BoxesSay
  <2>8. DeliversAs(p)'
    BY <1>0, <1>1, <1>2, <2>2, <2>4 DEF DeliversAs, At, SameHands, Delivering
  <2>9. ASSUME NEW q \in Process \ {p} PROVE DeliversAs(q)'
    <3>1. DeliversAs(q) /\ work'[q] = work[q]
      BY <2>2 DEF DeliveryInv, Only
    <3> QED
      BY <1>0, <3>1, SaysKept DEF DeliversAs, At, Delivering
  <2> QED
    BY <1>1, <2>2, <2>6, <2>7, <2>8, <2>9 DEF DeliveryInv, Delivering
<1> QED
  BY <1>3, <1>4

LEMMA ReceiptKeeps ==
    ASSUME Workers, DeliveryInv, NEW p \in Process, Receipt(p)
    PROVE  DeliveryInv' /\ Only(p) /\ SameHands(p) /\ work'[p].next = work[p].next
           /\ Delivering(p) /\ Delivering(p)'
<1> DEFINE key == work[p].key
           box == boxes[key]
           row == Receipted(box)
<1>0. /\ At(p, "receipt") /\ boxes' = PutRow(boxes, key, row) /\ Goto(p, "send")
      /\ UNCHANGED told /\ Grows
  BY DEF Receipt, Grows, decisions, close
<1>1. /\ Only(p) /\ SameHands(p) /\ work'[p].pc = "send" /\ work'[p].next = work[p].next
  BY <1>0, GotoIs
<1>2. Delivering(p) /\ Delivering(p)' /\ DeliversAs(p)
  BY <1>0, <1>1 DEF Delivering, At, DeliveryInv
<1>3. /\ row \in [messages : Seq(Nat), receipts : Nat] /\ row.receipts <= Len(row.messages)
      /\ \A n \in 1..Len(row.messages) : Says(key, row.messages[n])
  <2>1. key \in DOMAIN boxes /\ box.receipts < Len(box.messages)
    BY <1>0, <1>2 DEF DeliversAs, At
  <2>2. /\ box \in [messages : Seq(Nat), receipts : Nat]
        /\ \A n \in 1..Len(box.messages) : Says(key, box.messages[n])
    BY <2>1 DEF DeliveryInv, BoxesSay
  <2>3. box.receipts + 1 \in Nat /\ box.receipts + 1 <= Len(box.messages)
    BY <2>1, <2>2
  <2>4. /\ row \in [messages : Seq(Nat), receipts : Nat] /\ row.messages = box.messages
        /\ row.receipts = box.receipts + 1
    BY <2>2, <2>3 DEF Receipted
  <2> HIDE DEF row, box
  <2> QED
    BY <2>2, <2>3, <2>4
<1> HIDE DEF row
<1>4. BoxesSay'
  BY <1>0, <1>3, BoxPut
<1>5. ToldSay'
  BY <1>0, SaysKept DEF DeliveryInv, ToldSay
<1>6. DeliversAs(p)'
  <2>1. work'[p].key \in DOMAIN boxes' /\ work'[p].key[1] = key[1]
    BY <1>0, <1>1 DEF SameHands, PutRow
  <2> QED
    BY <1>1, <1>2, <2>1 DEF DeliversAs, At
<1>7. ASSUME NEW q \in Process \ {p} PROVE DeliversAs(q)'
  <2>1. work'[q] = work[q]
    BY <1>1 DEF Only
  <2> QED
    BY <1>0, <1>2, <2>1, OthersDeliver
<1> QED
  BY <1>1, <1>2, <1>4, <1>5, <1>6, <1>7 DEF DeliveryInv

-----------------------------------------------------------------------------
(***************************************************************************)
(* The handler.                                                            *)
(***************************************************************************)
SessionsStay ==
    \A f \in Family, d \in Day : sessions[f][d].id = 1 => sessions'[f][d].id = 1

\* A handler that stays where it is, or delivers, knows what it knew.
LEMMA HandlerKept ==
    ASSUME HandlerKnows, Grows, SessionsStay,
           work'["handler"] = work["handler"]
             \/ (SameHands("handler") /\ Where("handler")' = Where("handler"))
    PROVE  HandlerKnows'
<1>1. /\ Where("handler")' = Where("handler") /\ work'["handler"].event = work["handler"].event
      /\ work'["handler"].on = work["handler"].on
  BY DEF Where, Delivering, SameHands
<1> DEFINE f == work["handler"].event.f
           d == work["handler"].on
           where == Where("handler")
<1>2. /\ where \in {"idle", "session", "compose", "capsule", "delivered", "complete", "exam",
                    "decide", "quarantine", "escalation", "count", "resolve"}
      /\ where \in {"session", "compose", "capsule", "delivered"} => f \in Family /\ d \in Day
      /\ where \in {"compose", "capsule", "delivered"} => sessions[f][d].id = 1
      /\ where \in {"decide", "quarantine", "escalation", "count", "resolve"} => f \in Held
      /\ where = "decide" => work["handler"].event.arg \in 1..2
      /\ where \in {"quarantine", "escalation", "count", "resolve"} =>
           d # Undecided /\ d = choice[f]
  BY DEF HandlerKnows
<1>3. where \in {"compose", "capsule", "delivered"} => sessions'[f][d].id = 1
  BY <1>2 DEF SessionsStay
<1>4. where \in {"quarantine", "escalation", "count", "resolve"} => d = choice'[f]
  BY <1>2 DEF Grows
<1> HIDE DEF f, d, where
<1> QED
  BY <1>1, <1>2, <1>3, <1>4 DEF HandlerKnows, f, d, where

\* A handler that has nothing more to do, or only to say.
LEMMA HandlerFree ==
    ASSUME Where("handler")' \in {"idle", "complete", "exam"}
    PROVE  HandlerKnows'
  BY DEF HandlerKnows

\* A delivery begins with what may be said.
LEMMA Begins ==
    ASSUME Grows, NEW p \in Process, NEW key, NEW messages \in Seq(Nat),
           \A n \in 1..Len(messages) : Says(key, messages[n]),
           key[1] \in IF p = "close" THEN NoticeKind ELSE HandlerKind,
           work'[p].pc = "deliver", work'[p].key = key, work'[p].messages = messages
    PROVE  DeliversAs(p)'
<1>1. \A n \in 1..Len(messages) : Says(key, messages[n])'
  BY SaysKept
<1> QED
  BY <1>1 DEF DeliversAs, At, Delivering

LEMMA AckSays ==
    ASSUME NEW e \in Held, choice[e] # Undecided, NEW t \in {choice[e], Note}
    PROVE  Says(Ack(e), t) /\ Ack(e)[1] \in HandlerKind
<1>1. Ack(e)[1] \in {"quarantine", "escalation"}
  BY HeldAssumption DEF Ack, What
<1>2. \A h \in Held : Ack(e) = Ack(h) => h = e
  BY DEF Ack
<1> QED
  BY <1>1, <1>2 DEF Says, NoticeKind, HandlerKind

LEMMA PutSessionIs ==
    ASSUME OneSession, NEW f \in Family, NEW d \in Day, NEW s, {"id", "items"} \subseteq DOMAIN s, s.id = 1,
           PutSession(f, d, s)
    PROVE  OneSession' /\ SessionsStay /\ sessions'[f][d] = s
<1>1. sessions' = [sessions EXCEPT ![f] = [sessions[f] EXCEPT ![d] = s]]
  BY DEF PutSession, OneSession
<1>2. /\ sessions'[f][d] = s
      /\ \A g \in Family, c \in Day : sessions'[g][c] = s \/ sessions'[g][c] = sessions[g][c]
  BY <1>1 DEF OneSession
<1>3. sessions' = [g \in Family |-> [c \in Day |-> sessions'[g][c]]]
  BY <1>1 DEF OneSession
<1>4. SessionsStay
  BY <1>2 DEF SessionsStay
<1>5. \A g \in Family, c \in Day :
        {"id", "items"} \subseteq DOMAIN sessions'[g][c] /\ (sessions'[g][c] = NoSession \/ sessions'[g][c].id = 1)
  BY <1>2 DEF OneSession
<1> QED
  BY <1>2, <1>3, <1>4, <1>5 DEF OneSession

\* What a step of the handler leaves true.
HandlerGoesOn ==
    /\ Only("handler") \/ UNCHANGED work
    /\ DeliversAs("handler")' /\ HandlerKnows' /\ Grows
    /\ OneSession' /\ Decisions' /\ Effects' /\ Loads'

\* Steps of the handler that decide nothing.
LEMMA DecisionsStay ==
    ASSUME HandlerInv, UNCHANGED <<choice, decided, counted, light, log>>
    PROVE  Decisions' /\ Effects' /\ Loads'
  BY DEF HandlerInv, Decisions, Effects, Loads

LEMMA NothingDecided ==
    ASSUME HandlerInv, UNCHANGED <<decisions, alerts, light, log>>
    PROVE  Decisions' /\ Effects' /\ Loads' /\ Grows
  BY DecisionsStay DEF decisions, Grows

LEMMA HandleGoesOn ==
    ASSUME Workers, DeliveryInv, HandlerInv, Clock, NEW e \in queue, Handle(e)
    PROVE  HandlerGoesOn
<1>1. Decisions' /\ Effects' /\ Loads' /\ Grows /\ OneSession' /\ SessionsStay
  <2>1. UNCHANGED <<decisions, alerts, light, log, sessions>>
    BY DEF Handle, practice, close
  <2> QED
    BY <2>1, NothingDecided DEF HandlerInv, OneSession, SessionsStay
<1>2. CASE e \in results
  <2>1. UNCHANGED work
    BY <1>2 DEF Handle
  <2>2. HandlerKnows'
    BY <1>1, <2>1, HandlerKept DEF HandlerInv
  <2>3. DeliversAs("handler")'
    BY <2>1, NotDelivering DEF Handle, Delivering, At
  <2> QED
    BY <1>1, <2>1, <2>2, <2>3 DEF HandlerGoesOn
<1>3. CASE e \notin results
  <2>1. /\ Only("handler") /\ work'["handler"].pc = e.kind
        /\ work'["handler"].event = e /\ work'["handler"].on = day
    BY <1>3, TakingUpIs DEF Handle
  <2>2. \/ e.kind = "session" /\ e.f \in Family
        \/ e.kind = "exam"
        \/ e.kind = "decide" /\ e.f \in Held /\ e.arg \in 1..2
    BY DEF HandlerInv, Events
  <2>3. ~Delivering("handler")' /\ Where("handler")' = e.kind
    BY <2>1, <2>2 DEF Delivering, Where
  <2>4. HandlerKnows'
    BY <2>1, <2>2, <2>3 DEF HandlerKnows, Clock
  <2> QED
    BY <1>1, <2>1, <2>3, <2>4, NotDelivering DEF HandlerGoesOn
<1> QED
  BY <1>2, <1>3

\* The handler goes somewhere else, and delivers nothing.
LEMMA HandlerGoes ==
    ASSUME Workers, NEW where, Goto("handler", where), where \notin {"deliver", "send", "receipt"}
    PROVE  /\ Only("handler") /\ SameHands("handler") /\ DeliversAs("handler")'
           /\ Where("handler")' = where
<1>1. Only("handler") /\ SameHands("handler") /\ work'["handler"].pc = where
  BY GotoIs DEF Process
<1> QED
  BY <1>1, NotDelivering DEF Delivering, Where

LEMMA AtIs ==
    ASSUME NEW p, NEW where, At(p, where), where \notin {"deliver", "send", "receipt"}
    PROVE  Where(p) = where /\ ~Delivering(p)
  BY DEF At, Where, Delivering

\* Steps that plan and compose, or record an exam.
LEMMA PlanGoesOn ==
    ASSUME Workers, DeliveryInv, HandlerInv, Plan
    PROVE  HandlerGoesOn
<1>1. Decisions' /\ Effects' /\ Loads' /\ Grows
  <2>1. UNCHANGED <<decisions, alerts, light, log>>
    BY DEF Plan, close
  <2> QED
    BY <2>1, NothingDecided
<1> DEFINE f == W.event.f
           d == W.on
           found == Existing(f, d)
           fresh == NewSession(f, d)
<1>2. f \in Family /\ d \in Day
  <2>1. Where("handler") = "session"
    BY AtIs DEF Plan
  <2> QED
    BY <2>1 DEF HandlerInv, HandlerKnows, W
<1>3. {"id", "items"} \subseteq DOMAIN found /\ (found = NoSession \/ found.id = 1) /\ found = sessions[f][d]
  BY <1>2 DEF HandlerInv, OneSession, Existing
<1>4. CASE Goto("handler", "complete") /\ UNCHANGED sessions
  <2>1. /\ Only("handler") /\ DeliversAs("handler")' /\ Where("handler")' = "complete"
    BY <1>4, HandlerGoes
  <2> QED
    BY <1>1, <1>4, <2>1, HandlerFree DEF HandlerGoesOn, HandlerInv, OneSession
<1>5. CASE found.status = "planned" /\ UNCHANGED sessions
           /\ Goto("handler", IF found.composed THEN "capsule" ELSE "compose")
  <2> DEFINE where == IF found.composed THEN "capsule" ELSE "compose"
  <2>1. where \in {"capsule", "compose"}
    OBVIOUS
  <2>2. Goto("handler", where)
    BY <1>5
  <2> HIDE DEF where
  <2>3. /\ Only("handler") /\ SameHands("handler") /\ DeliversAs("handler")'
        /\ Where("handler")' = where
    BY <2>1, <2>2, HandlerGoes
  <2>4. sessions[f][d].id = 1
    BY <1>3, <1>5 DEF NoSession, None
  <2>5. HandlerKnows'
    BY <1>2, <1>5, <2>1, <2>3, <2>4 DEF HandlerKnows, SameHands, W
  <2> QED
    BY <1>1, <1>5, <2>3, <2>5 DEF HandlerGoesOn, HandlerInv, OneSession
<1>6. CASE found = NoSession /\ PutSession(f, d, fresh) /\ Goto("handler", "compose")
  <2>1. {"id", "items"} \subseteq DOMAIN fresh /\ fresh.id = 1
    BY <1>3, <1>6 DEF NewSession, NoSession
  <2> HIDE DEF fresh
  <2>2. OneSession' /\ sessions'[f][d].id = 1
    BY <1>2, <1>6, <2>1, PutSessionIs DEF HandlerInv
  <2>3. /\ Only("handler") /\ SameHands("handler") /\ DeliversAs("handler")'
        /\ Where("handler")' = "compose"
    BY <1>6, HandlerGoes
  <2>4. HandlerKnows'
    BY <1>2, <2>2, <2>3 DEF HandlerKnows, SameHands, W
  <2> QED
    BY <1>1, <2>2, <2>3, <2>4 DEF HandlerGoesOn
<1> QED
  BY <1>4, <1>5, <1>6 DEF Plan

LEMMA ComposeGoesOn ==
    ASSUME Workers, DeliveryInv, HandlerInv, ComposeCapsule \/ MarkDelivered
    PROVE  HandlerGoesOn
<1>1. Decisions' /\ Effects' /\ Loads' /\ Grows
  <2>1. UNCHANGED <<decisions, alerts, light, log>>
    BY DEF ComposeCapsule, MarkDelivered, close
  <2> QED
    BY <2>1, NothingDecided
<1> DEFINE f == W.event.f
           d == W.on
<1>2. f \in Family /\ d \in Day /\ sessions[f][d].id = 1
  <2>1. Where("handler") \in {"compose", "delivered"}
    BY AtIs DEF ComposeCapsule, MarkDelivered
  <2> QED
    BY <2>1 DEF HandlerInv, HandlerKnows, W
<1>3. {"id", "items"} \subseteq DOMAIN sessions[f][d]
  BY <1>2 DEF HandlerInv, OneSession
<1>4. ASSUME ComposeCapsule PROVE HandlerGoesOn
  <2> DEFINE s == [sessions[f][d] EXCEPT !.composed = TRUE]
  <2>1. {"id", "items"} \subseteq DOMAIN s /\ s.id = 1
    BY <1>2, <1>3
  <2>2. PutSession(f, d, s) /\ Goto("handler", "capsule")
    BY <1>4 DEF ComposeCapsule, Session
  <2> HIDE DEF s
  <2>3. OneSession' /\ sessions'[f][d].id = 1
    BY <1>2, <2>1, <2>2, PutSessionIs DEF HandlerInv
  <2>4. /\ Only("handler") /\ SameHands("handler") /\ DeliversAs("handler")'
        /\ Where("handler")' = "capsule"
    BY <2>2, HandlerGoes
  <2>5. HandlerKnows'
    BY <1>2, <2>3, <2>4 DEF HandlerKnows, SameHands, W
  <2> QED
    BY <1>1, <2>3, <2>4, <2>5 DEF HandlerGoesOn
<1>5. ASSUME MarkDelivered PROVE HandlerGoesOn
  <2> DEFINE s == [sessions[f][d] EXCEPT !.status = "delivered"]
  <2>1. {"id", "items"} \subseteq DOMAIN s /\ s.id = 1
    BY <1>2, <1>3
  <2>2. PutSession(f, d, s) /\ Goto("handler", "complete")
    BY <1>5 DEF MarkDelivered, Session
  <2> HIDE DEF s
  <2>3. OneSession'
    BY <1>2, <2>1, <2>2, PutSessionIs DEF HandlerInv
  <2>4. Only("handler") /\ DeliversAs("handler")' /\ Where("handler")' = "complete"
    BY <2>2, HandlerGoes
  <2> QED
    BY <1>1, <2>3, <2>4, HandlerFree DEF HandlerGoesOn
<1> QED
  BY <1>4, <1>5

LEMMA CapsuleGoesOn ==
    ASSUME Workers, DeliveryInv, HandlerInv, DeliverCapsule
    PROVE  HandlerGoesOn
<1>1. Decisions' /\ Effects' /\ Loads' /\ Grows /\ OneSession' /\ UNCHANGED sessions
  <2>1. UNCHANGED <<decisions, alerts, light, log, sessions>>
    BY DEF DeliverCapsule, practice, close
  <2> QED
    BY <2>1, NothingDecided DEF HandlerInv, OneSession
<1> DEFINE f == W.event.f
           d == W.on
           key == SessionKey(f, d, Session.id)
<1>2. f \in Family /\ d \in Day /\ sessions[f][d].id = 1
  <2>1. Where("handler") = "capsule"
    BY AtIs DEF DeliverCapsule
  <2> QED
    BY <2>1 DEF HandlerInv, HandlerKnows, W
<1>3. DeliverThen("handler", key, <<Capsule>>, "delivered")
  BY DEF DeliverCapsule
<1>4. key = SessionKey(key[2], key[3], 1) /\ key[1] = "session"
  BY <1>2 DEF Session, SessionKey
<1>5. Says(key, Capsule) /\ key[1] \in HandlerKind
  BY <1>4, HeldAssumption DEF Says, NoticeKind, HandlerKind, Ack, What
<1> HIDE DEF key
<1>6. /\ Only("handler") /\ work'["handler"].pc = "deliver" /\ work'["handler"].key = key
      /\ work'["handler"].messages = <<Capsule>> /\ work'["handler"].next = "delivered"
      /\ work'["handler"].event = W.event /\ work'["handler"].on = W.on
  BY <1>3, DeliverThenIs DEF Process, W
<1>7. DeliversAs("handler")'
  <2> DEFINE messages == <<Capsule>>
  <2>1. messages \in Seq(Nat) /\ \A n \in 1..Len(messages) : Says(key, messages[n])
    BY <1>5 DEF Capsule
  <2> HIDE DEF messages
  <2> QED
    BY <1>1, <1>5, <1>6, <2>1, Begins DEF Process, messages
<1>8. HandlerKnows'
  BY <1>1, <1>2, <1>6 DEF HandlerKnows, Where, Delivering
<1> QED
  BY <1>1, <1>6, <1>7, <1>8 DEF HandlerGoesOn

LEMMA EndingGoesOn ==
    ASSUME Workers, DeliveryInv, HandlerInv, RecordExam \/ Complete
    PROVE  HandlerGoesOn
<1>1. Decisions' /\ Effects' /\ Loads' /\ Grows /\ OneSession'
  <2>1. UNCHANGED <<decisions, alerts, light, log, sessions>>
    BY DEF RecordExam, Complete, practice, close
  <2> QED
    BY <2>1, NothingDecided DEF HandlerInv, OneSession
<1>2. ASSUME RecordExam PROVE HandlerGoesOn
  <2>1. Goto("handler", "complete")
    BY <1>2 DEF RecordExam
  <2>2. Only("handler") /\ DeliversAs("handler")' /\ Where("handler")' = "complete"
    BY <2>1, HandlerGoes
  <2> QED
    BY <1>1, <2>2, HandlerFree DEF HandlerGoesOn
<1>3. ASSUME Complete PROVE HandlerGoesOn
  <2>1. Only("handler") /\ work'["handler"].pc = "idle"
    BY <1>3, IdleIs DEF Complete, Process
  <2>2. ~Delivering("handler")' /\ Where("handler")' = "idle"
    BY <2>1 DEF Delivering, Where
  <2> QED
    BY <1>1, <2>1, <2>2, HandlerFree, NotDelivering DEF HandlerGoesOn
<1> QED
  BY <1>2, <1>3

-----------------------------------------------------------------------------
\* The handler of a decision, and the choice it follows.
LEMMA Following ==
    ASSUME HandlerInv, Where("handler") \in {"quarantine", "escalation", "count", "resolve"}
    PROVE  E \in Held /\ choice[E] # Undecided /\ W.on = choice[E] /\ choice[E] \in Nat
<1>1. E \in Held /\ W.on # Undecided /\ W.on = choice[E]
  BY DEF HandlerInv, HandlerKnows, W, E
<1> QED
  BY <1>1 DEF HandlerInv, Decisions

\* The decision is acknowledged, and the handler goes on with the same event.
LEMMA AcknowledgingGoesOn ==
    ASSUME Workers, HandlerInv, Grows, E \in Held, choice[E] # Undecided,
           NEW messages \in Seq(Nat),
           \A n \in 1..Len(messages) : messages[n] \in {choice[E], Note},
           NEW next, next \notin {"deliver", "send", "receipt"},
           DeliverThen("handler", Ack(E), messages, next)
    PROVE  /\ Only("handler") /\ DeliversAs("handler")' /\ Where("handler")' = next
           /\ work'["handler"].event = W.event /\ work'["handler"].on = W.on
<1>1. PICK e \in Held : e = E
  OBVIOUS
<1> DEFINE key == Ack(e)
<1>2. key[1] \in HandlerKind /\ \A n \in 1..Len(messages) : Says(key, messages[n])
  BY <1>1, AckSays
<1>3. DeliverThen("handler", key, messages, next)
  BY <1>1
<1> HIDE DEF key
<1>4. /\ Only("handler") /\ work'["handler"].pc = "deliver" /\ work'["handler"].key = key
      /\ work'["handler"].messages = messages /\ work'["handler"].next = next
      /\ work'["handler"].event = W.event /\ work'["handler"].on = W.on
  BY <1>3, DeliverThenIs DEF Process, W
<1>5. DeliversAs("handler")'
  BY <1>2, <1>4, Begins DEF Process
<1> QED
  BY <1>4, <1>5 DEF Where, Delivering

LEMMA DecideGoesOn ==
    ASSUME Workers, DeliveryInv, HandlerInv, Decide
    PROVE  HandlerGoesOn
<1>1. /\ UNCHANGED <<sessions, log, light, decided, counted, alerts>> /\ OneSession'
  BY DEF Decide, practice, close, HandlerInv, OneSession
<1>2. E \in Held /\ W.event.arg \in 1..2
  <2>1. Where("handler") = "decide"
    BY AtIs DEF Decide
  <2> QED
    BY <2>1 DEF HandlerInv, HandlerKnows, W, E
<1>3. /\ choice \in [Held -> 0..2] /\ decided \in [Held -> 0..2]
      /\ \A e \in Held : decided[e] \in {Undecided, choice[e]}
  BY DEF HandlerInv, Decisions
<1>4. CASE decided[E] = Undecided /\ choice' = [choice EXCEPT ![E] = Chosen(E, W.event.arg)]
           /\ work' = [work EXCEPT !["handler"].pc = What(E),
                                   !["handler"].on = Chosen(E, W.event.arg)]
  <2> DEFINE option == Chosen(E, W.event.arg)
  <2>1. option \in 1..2 /\ (choice[E] # Undecided => option = choice[E])
    BY <1>2, <1>3 DEF Chosen, Undecided
  <2>2. choice' = [choice EXCEPT ![E] = option]
    BY <1>4
  <2>3. What(E) \in {"quarantine", "escalation"}
    BY <1>2, HeldAssumption DEF What
  <2>4. /\ Only("handler") /\ work'["handler"].pc = What(E) /\ work'["handler"].on = option
        /\ work'["handler"].event = W.event
    BY <1>4, DecidingIs
  <2> HIDE DEF option
  <2>5. /\ Grows /\ choice' \in [Held -> 0..2] /\ choice'[E] = option /\ option # Undecided
        /\ \A e \in Held : e # E => choice'[e] = choice[e]
    BY <1>1, <1>2, <1>3, <2>1, <2>2 DEF Grows, Undecided
  <2>6. Decisions'
    BY <1>1, <1>3, <1>4, <2>5 DEF Decisions
  <2>7. Effects' /\ Loads'
    BY <1>1, <2>5 DEF HandlerInv, Effects, Loads, Grows, ReduceLoad, Undecided
  <2>8. ~Delivering("handler")' /\ Where("handler")' = What(E)
    BY <2>3, <2>4 DEF Delivering, Where
  <2>9. HandlerKnows'
    BY <1>2, <2>3, <2>4, <2>5, <2>8 DEF HandlerKnows, E, W
  <2> QED
    BY <1>1, <2>4, <2>5, <2>6, <2>7, <2>8, <2>9, NotDelivering DEF HandlerGoesOn
<1>5. CASE decided[E] # Undecided /\ UNCHANGED choice
           /\ IF What(E) = "quarantine"
              THEN DeliverThen("handler", Ack(E), <<decided[E]>>, "complete")
              ELSE Goto("handler", "complete")
  <2>1. Decisions' /\ Effects' /\ Loads' /\ Grows
    <3>1. UNCHANGED <<decisions, alerts, light, log>>
      BY <1>5 DEF Decide, decisions, close, practice
    <3> QED
      BY <3>1, NothingDecided
  <2>2. decided[E] = choice[E] /\ choice[E] # Undecided /\ decided[E] \in Nat
    BY <1>2, <1>3, <1>5
  <2>3. Only("handler") /\ DeliversAs("handler")' /\ Where("handler")' = "complete"
    <3>1. CASE What(E) = "quarantine"
      <4> DEFINE messages == <<decided[E]>>
      <4>1. /\ messages \in Seq(Nat)
            /\ \A n \in 1..Len(messages) : messages[n] \in {choice[E], Note}
        BY <2>2
      <4>2. DeliverThen("handler", Ack(E), messages, "complete")
        BY <1>5, <3>1
      <4> HIDE DEF messages
      <4> QED
        BY <1>2, <2>1, <2>2, <4>1, <4>2, AcknowledgingGoesOn
    <3>2. CASE What(E) # "quarantine"
      BY <1>5, <3>2, HandlerGoes
    <3> QED
      BY <3>1, <3>2
  <2> QED
    BY <1>1, <2>1, <2>3, HandlerFree DEF HandlerGoesOn
<1> QED
  BY <1>4, <1>5 DEF Decide

\* Of a decision, the handler goes to another step of it.
LEMMA StillFollowing ==
    ASSUME HandlerInv, Grows, Where("handler") \in {"quarantine", "escalation", "count", "resolve"},
           work'["handler"].event = W.event, work'["handler"].on = W.on,
           Where("handler")' \in {"count", "resolve"}
    PROVE  HandlerKnows'
<1>1. E \in Held /\ choice[E] # Undecided /\ W.on = choice[E]
  BY Following
<1>2. choice'[E] = choice[E]
  BY <1>1 DEF Grows
<1> QED
  BY <1>1, <1>2 DEF HandlerKnows, E

LEMMA ReleaseGoesOn ==
    ASSUME Workers, DeliveryInv, HandlerInv, Release
    PROVE  HandlerGoesOn
<1>1. /\ UNCHANGED <<sessions, light, choice, decided, counted, alerts>> /\ OneSession' /\ Grows
      /\ Decisions' /\ Loads'
  BY DEF Release, decisions, close, HandlerInv, OneSession, Grows, Decisions, Loads
<1>2. Where("handler") = "quarantine"
  BY AtIs DEF Release
<1>3. E \in Held /\ choice[E] # Undecided /\ W.on = choice[E]
  BY <1>2, Following
<1>4. ASSUME NEW where \in {"count", "resolve"}, Goto("handler", where)
      PROVE  Only("handler") /\ DeliversAs("handler")' /\ HandlerKnows'
  <2>1. /\ Only("handler") /\ SameHands("handler") /\ DeliversAs("handler")'
        /\ Where("handler")' = where
    BY <1>4, HandlerGoes
  <2> QED
    BY <1>1, <1>2, <2>1, StillFollowing DEF SameHands, W
<1>5. CASE UNCHANGED log /\ Goto("handler", "resolve")
  <2>1. Effects'
    BY <1>1, <1>5 DEF HandlerInv, Effects
  <2> QED
    BY <1>1, <1>4, <1>5, <2>1 DEF HandlerGoesOn
<1>6. CASE log' = {g \in log : g.id # <<"human", E, 0>>} \cup {HumanGrade(E, W.on)}
           /\ Goto("handler", "count")
  <2>1. HumanGrade(E, W.on).id = <<"human", E, 0>>
    BY DEF HumanGrade
  <2>2. ASSUME NEW e \in Held, NEW g \in log', g.id = <<"human", e, 0>>
        PROVE  choice[e] # Undecided /\ g = HumanGrade(e, choice[e])
    <3>1. CASE g \in log
      BY <2>2, <3>1 DEF HandlerInv, Effects
    <3>2. CASE g = HumanGrade(E, W.on)
      <4>1. e = E
        BY <2>1, <2>2, <3>2
      <4> QED
        BY <1>3, <3>2, <4>1
    <3> QED
      BY <1>6, <3>1, <3>2
  <2>3. Effects'
    BY <1>1, <2>2 DEF HandlerInv, Effects
  <2> QED
    BY <1>1, <1>4, <1>6, <2>3 DEF HandlerGoesOn
<1> QED
  BY <1>5, <1>6 DEF Release

LEMMA CountGoesOn ==
    ASSUME Workers, DeliveryInv, HandlerInv, CountOutcome
    PROVE  HandlerGoesOn
<1>1. /\ UNCHANGED <<sessions, light, choice, decided, log, alerts>> /\ OneSession' /\ Grows
      /\ Decisions' /\ Loads'
  BY DEF CountOutcome, practice, close, HandlerInv, OneSession, Grows, Decisions, Loads
<1>2. Where("handler") = "count"
  BY AtIs DEF CountOutcome
<1>3. E \in Held /\ choice[E] # Undecided /\ W.on = choice[E]
  BY <1>2, Following
<1>4. /\ Only("handler") /\ SameHands("handler") /\ DeliversAs("handler")'
      /\ Where("handler")' = "resolve"
  BY HandlerGoes DEF CountOutcome
<1>5. HandlerKnows'
  BY <1>1, <1>2, <1>4, StillFollowing DEF SameHands, W
<1>6. counted' \subseteq counted \cup {<<E, W.on>>}
  BY DEF CountOutcome
<1>7. Effects'
  BY <1>1, <1>3, <1>6 DEF HandlerInv, Effects
<1> QED
  BY <1>1, <1>4, <1>5, <1>7 DEF HandlerGoesOn

LEMMA ResolveGoesOn ==
    ASSUME Workers, DeliveryInv, HandlerInv, Resolve
    PROVE  HandlerGoesOn
<1>1. /\ UNCHANGED <<sessions, light, choice, counted, log, alerts>> /\ OneSession' /\ Grows
      /\ Effects' /\ Loads'
  BY DEF Resolve, practice, close, HandlerInv, OneSession, Grows, Effects, Loads
<1>2. Where("handler") = "resolve"
  BY AtIs DEF Resolve
<1>3. E \in Held /\ choice[E] # Undecided /\ W.on = choice[E] /\ choice[E] \in Nat
  BY <1>2, Following
<1>4. Decisions'
  <2>1. decided' = [decided EXCEPT ![E] = choice[E]]
    BY <1>3 DEF Resolve
  <2> QED
    BY <1>1, <1>3, <2>1 DEF HandlerInv, Decisions
<1>5. Only("handler") /\ DeliversAs("handler")' /\ Where("handler")' = "complete"
  <2>1. CASE What(E) = "quarantine"
    <3> DEFINE messages == <<W.on>>
    <3>1. /\ messages \in Seq(Nat)
          /\ \A n \in 1..Len(messages) : messages[n] \in {choice[E], Note}
      BY <1>3
    <3>2. DeliverThen("handler", Ack(E), messages, "complete")
      BY <2>1 DEF Resolve
    <3> HIDE DEF messages
    <3> QED
      BY <1>1, <1>3, <3>1, <3>2, AcknowledgingGoesOn
  <2>2. CASE What(E) # "quarantine"
    BY <2>2, HandlerGoes DEF Resolve
  <2> QED
    BY <2>1, <2>2
<1> QED
  BY <1>1, <1>4, <1>5, HandlerFree DEF HandlerGoesOn

LEMMA CarryGoesOn ==
    ASSUME Workers, DeliveryInv, HandlerInv, Carry
    PROVE  HandlerGoesOn
<1>1. /\ UNCHANGED <<sessions, choice, decided, counted, log, alerts>> /\ OneSession' /\ Grows
      /\ Decisions' /\ Effects'
  BY DEF Carry, decisions, close, HandlerInv, OneSession, Grows, Decisions, Effects
<1>2. Where("handler") = "escalation"
  BY AtIs DEF Carry
<1>3. E \in Held /\ choice[E] # Undecided /\ W.on = choice[E] /\ choice[E] \in Nat
  BY <1>2, Following
<1>4. Loads'
  <2>1. light = [f \in Family |-> light[f]]
    BY DEF HandlerInv, Loads
  <2>2. CASE UNCHANGED light
    BY <1>1, <2>2 DEF HandlerInv, Loads
  <2>3. CASE /\ W.on = ReduceLoad
             /\ light' = [light EXCEPT ![HeldOf[E].family] = [until |-> day + LightDays, source |-> E]]
    <3> DEFINE r == [until |-> day + LightDays, source |-> E]
    <3>1. r.source = E
      OBVIOUS
    <3>2. light' = [light EXCEPT ![HeldOf[E].family] = r]
      BY <2>3
    <3> HIDE DEF r
    <3>3. light' = [f \in Family |-> light'[f]]
      BY <2>1, <3>2
    <3>4. \A f \in Family : light'[f] = r \/ light'[f] = light[f]
      BY <2>1, <3>2
    <3> QED
      BY <1>1, <1>3, <2>3, <3>1, <3>3, <3>4 DEF HandlerInv, Loads
  <2> QED
    BY <2>2, <2>3 DEF Carry
<1>5. /\ Only("handler") /\ DeliversAs("handler")' /\ Where("handler")' = "resolve"
      /\ work'["handler"].event = W.event /\ work'["handler"].on = W.on
  <2> DEFINE messages == IF W.on = TeacherNote THEN <<Note, W.on>> ELSE <<W.on>>
  <2>1. /\ messages \in Seq(Nat)
        /\ \A n \in 1..Len(messages) : messages[n] \in {choice[E], Note}
    BY <1>3 DEF Note
  <2>2. DeliverThen("handler", Ack(E), messages, "resolve")
    BY DEF Carry
  <2> HIDE DEF messages
  <2> QED
    BY <1>1, <1>3, <2>1, <2>2, AcknowledgingGoesOn
<1>6. HandlerKnows'
  BY <1>1, <1>2, <1>5, StillFollowing
<1> QED
  BY <1>1, <1>4, <1>5, <1>6 DEF HandlerGoesOn

LEMMA HandlerStepGoesOn ==
    ASSUME Workers, DeliveryInv, HandlerInv, Clock, HandlerStep
    PROVE  HandlerGoesOn
  BY HandleGoesOn, PlanGoesOn, ComposeGoesOn, CapsuleGoesOn, EndingGoesOn, DecideGoesOn,
     ReleaseGoesOn, CountGoesOn, ResolveGoesOn, CarryGoesOn DEF HandlerStep, Handler

-----------------------------------------------------------------------------
(***************************************************************************)
(* The close of the day.                                                   *)
(***************************************************************************)
LEMMA CloseKept ==
    ASSUME CloseKnows, UNCHANGED notices,
           work'["close"] = work["close"]
             \/ (SameHands("close") /\ Where("close")' = Where("close"))
    PROVE  CloseKnows'
<1>1. /\ Where("close")' = Where("close") /\ work'["close"].key = work["close"].key
      /\ work'["close"].alert = work["close"].alert /\ work'["close"].todo = work["close"].todo
  BY DEF Where, Delivering, SameHands
<1> QED
  BY <1>1 DEF CloseKnows

LEMMA CloseFree ==
    ASSUME Where("close")' \in {"idle", "engagement", "optimize"}
    PROVE  CloseKnows'
  BY DEF CloseKnows

\* What a step of the close leaves true.
CloseGoesOn ==
    /\ Only("close") \/ UNCHANGED work
    /\ DeliversAs("close")' /\ CloseKnows' /\ AlertsKept' /\ Grows

LEMMA NothingPut ==
    ASSUME CloseInv, UNCHANGED <<decisions, notices, alerts>>
    PROVE  AlertsKept' /\ Grows
  BY DEF CloseInv, AlertsKept, decisions, Grows

LEMMA FreshIsNumber ==
    ASSUME Clock PROVE FreshAlert \in Nat
<1>1. \A a, b, c \in Nat : a * (b + 1) + c \in Nat
  OBVIOUS
<1>2. day \in Nat /\ MaxFaults \in Nat /\ faults \in Nat
  BY DaysAssumption DEF Clock, Day
<1> QED
  BY <1>1, <1>2 DEF FreshAlert

LEMMA NoticeIsComposed ==
    ASSUME Workers, CloseInv, UNCHANGED <<decisions, notices, alerts>>, NEW key, NEW rest,
           key[1] \in NoticeKind, key[1] = "cohort" => \A k \in rest : k[1] = "cohort",
           Compose(key, rest)
    PROVE  CloseGoesOn
<1>1. /\ Only("close") /\ work'["close"].pc = "record" /\ work'["close"].key = key
      /\ work'["close"].alert = Alert(key) /\ work'["close"].todo = rest
  BY ComposeIs
<1>2. /\ Alert(key) \in Nat
      /\ key \in DOMAIN notices => Alert(key) = notices[key].alert
  BY FreshIsNumber DEF Alert, CloseInv, AlertsKept
<1>3. ~Delivering("close")' /\ Where("close")' = "record"
  BY <1>1 DEF Delivering, Where
<1>4. CloseKnows'
  BY <1>1, <1>2, <1>3 DEF CloseKnows
<1> QED
  BY <1>1, <1>3, <1>4, NothingPut, NotDelivering DEF CloseGoesOn

LEMMA NoticeIsSkipped ==
    ASSUME Workers, CloseInv, UNCHANGED <<decisions, notices, alerts>>, NEW rest,
           At("close", "engagement") \/ At("close", "cohort") \/ At("close", "optimize"),
           At("close", "cohort") => rest \subseteq C.todo, Skip(rest)
    PROVE  CloseGoesOn
<1>1. /\ Only("close") /\ work'["close"].todo = rest /\ work'["close"].pc = work["close"].pc
  BY SkipIs DEF Field
<1>2. ~Delivering("close")' /\ Where("close")' = work["close"].pc
  BY <1>1 DEF Delivering, Where, At
<1>3. At("close", "cohort") => \A k \in C.todo : k[1] = "cohort"
  BY AtIs DEF CloseInv, CloseKnows, C
<1>4. CloseKnows'
  BY <1>1, <1>2, <1>3 DEF CloseKnows, At
<1> QED
  BY <1>1, <1>2, <1>4, NothingPut, NotDelivering DEF CloseGoesOn

LEMMA NoticesGoOn ==
    ASSUME Workers, CloseInv, Engagement \/ EngagementDone \/ Cohort \/ CohortDone
    PROVE  CloseGoesOn
<1>1. UNCHANGED <<decisions, notices, alerts>>
  BY DEF Engagement, EngagementDone, Cohort, CohortDone, close
<1>2. ASSUME Engagement PROVE CloseGoesOn
  <2> DEFINE f == Min(C.todo)
             key == EngagementKey(f, C.on)
             rest == C.todo \ {f}
  <2>1. At("close", "engagement") /\ (Compose(key, rest) \/ Skip(rest))
    BY <1>2 DEF Engagement
  <2>2. key[1] = "engagement"
    BY DEF EngagementKey
  <2> HIDE DEF key, rest
  <2> QED
    BY <1>1, <2>1, <2>2, NoticeIsComposed, NoticeIsSkipped DEF NoticeKind, At
<1>3. ASSUME EngagementDone PROVE CloseGoesOn
  <2> DEFINE todo == CohortKeys(C.on)
  <2>1. \A k \in todo : k[1] = "cohort"
    BY DEF CohortKeys
  <2>2. work' = [work EXCEPT !["close"].pc = "cohort", !["close"].todo = todo]
    BY <1>3 DEF EngagementDone
  <2> HIDE DEF todo
  <2>3. Only("close") /\ work'["close"].pc = "cohort" /\ work'["close"].todo = todo
    BY <2>2, CloseMoves
  <2>4. ~Delivering("close")' /\ Where("close")' = "cohort"
    BY <2>3 DEF Delivering, Where
  <2>5. CloseKnows'
    BY <2>1, <2>3, <2>4 DEF CloseKnows
  <2> QED
    BY <1>1, <2>3, <2>4, <2>5, NothingPut, NotDelivering DEF CloseGoesOn
<1>4. ASSUME Cohort PROVE CloseGoesOn
  <2>1. PICK key \in C.todo : Skip(C.todo \ {key}) \/ Compose(key, C.todo \ {key})
    BY <1>4 DEF Cohort
  <2>2. At("close", "cohort")
    BY <1>4 DEF Cohort
  <2>3. \A k \in C.todo : k[1] = "cohort"
    BY <2>2, AtIs DEF CloseInv, CloseKnows, C
  <2> DEFINE rest == C.todo \ {key}
  <2>4. rest \subseteq C.todo /\ key[1] = "cohort" /\ \A k \in rest : k[1] = "cohort"
    BY <2>3
  <2>5. Skip(rest) \/ Compose(key, rest)
    BY <2>1
  <2> HIDE DEF rest
  <2> QED
    BY <1>1, <2>2, <2>4, <2>5, NoticeIsComposed, NoticeIsSkipped DEF NoticeKind
<1>5. ASSUME CohortDone PROVE CloseGoesOn
  <2> DEFINE todo == RetirementCandidates({g.item : g \in EffectiveGrades(log)} \cap Item, retired,
                                          FinalGrades(log), MinAttempts)
  <2>1. work' = [work EXCEPT !["close"].pc = "optimize", !["close"].todo = todo]
    BY <1>5 DEF CohortDone
  <2> HIDE DEF todo
  <2>2. Only("close") /\ work'["close"].pc = "optimize"
    BY <2>1, CloseMoves
  <2>3. ~Delivering("close")' /\ Where("close")' = "optimize"
    BY <2>2 DEF Delivering, Where
  <2> QED
    BY <1>1, <2>2, <2>3, CloseFree, NothingPut, NotDelivering DEF CloseGoesOn
<1> QED
  BY <1>2, <1>3, <1>4, <1>5

LEMMA RetiringGoesOn ==
    ASSUME Workers, CloseInv,
           Retire \/ CloseCompletes \/ \E d \in Day : CloseBegins(d)
    PROVE  CloseGoesOn
<1>1. UNCHANGED <<decisions, notices, alerts>>
  BY DEF Retire, CloseCompletes, CloseBegins, close
<1>2. ASSUME Retire PROVE CloseGoesOn
  <2>1. PICK i \in C.todo : Skip(C.todo \ {i})
    BY <1>2 DEF Retire
  <2> QED
    BY <1>1, <1>2, <2>1, NoticeIsSkipped DEF Retire, At
<1>3. ASSUME CloseCompletes PROVE CloseGoesOn
  <2>1. Only("close") /\ work'["close"].pc = "idle"
    BY <1>3, IdleIs DEF CloseCompletes, Process
  <2>2. ~Delivering("close")' /\ Where("close")' = "idle"
    BY <2>1 DEF Delivering, Where
  <2> QED
    BY <1>1, <2>1, <2>2, CloseFree, NothingPut, NotDelivering DEF CloseGoesOn
<1>4. ASSUME NEW d \in Day, CloseBegins(d) PROVE CloseGoesOn
  <2>1. Only("close") /\ work'["close"].pc = "engagement"
    BY <1>4, BeginningIs
  <2>2. ~Delivering("close")' /\ Where("close")' = "engagement"
    BY <2>1 DEF Delivering, Where
  <2> QED
    BY <1>1, <2>1, <2>2, CloseFree, NothingPut, NotDelivering DEF CloseGoesOn
<1> QED
  BY <1>2, <1>3, <1>4

\* The close holds a notice: its key, and the alert the record keeps or will.
LEMMA HoldsNotice ==
    ASSUME CloseInv, Where("close") \in {"record", "alert", "flag"}
    PROVE  /\ C.key[1] \in NoticeKind /\ C.alert \in Nat
           /\ C.key \in DOMAIN notices => C.alert = notices[C.key].alert
           /\ Where("close") # "record" => C.key \in DOMAIN notices
           /\ C.key[1] = "cohort" => \A k \in C.todo : k[1] = "cohort"
  BY DEF CloseInv, CloseKnows, C

LEMMA PutNoticeGoesOn ==
    ASSUME Workers, CloseInv, PutNotice
    PROVE  CloseGoesOn
<1>1. Where("close") = "record" /\ UNCHANGED <<alerts, decisions>> /\ Goto("close", "alert")
  BY AtIs DEF PutNotice
<1>2. /\ C.key[1] \in NoticeKind /\ C.alert \in Nat
      /\ C.key \in DOMAIN notices => C.alert = notices[C.key].alert
      /\ C.key[1] = "cohort" => \A k \in C.todo : k[1] = "cohort"
  BY <1>1, HoldsNotice
<1>3. /\ Only("close") /\ SameHands("close") /\ work'["close"].pc = "alert"
  BY <1>1, GotoIs DEF Process
<1>4. ~Delivering("close")' /\ Where("close")' = "alert"
  BY <1>3 DEF Delivering, Where
<1>5. /\ DOMAIN notices' = DOMAIN notices \cup {C.key} /\ notices'[C.key].alert = C.alert
      /\ \A k \in DOMAIN notices : notices'[k].alert = notices[k].alert
  <2>1. CASE C.key \in DOMAIN notices
    BY <1>2, <2>1 DEF PutNotice
  <2>2. CASE C.key \notin DOMAIN notices
    <3> DEFINE row == [alert |-> C.alert, delivered |-> FALSE]
    <3>1. notices' = PutRow(notices, C.key, row) /\ row.alert = C.alert
      BY <2>2 DEF PutNotice
    <3> HIDE DEF row
    <3> QED
      BY <2>2, <3>1 DEF PutRow
  <2> QED
    BY <2>1, <2>2
<1>6. AlertsKept'
  BY <1>1, <1>2, <1>5 DEF CloseInv, AlertsKept
<1>7. CloseKnows'
  BY <1>2, <1>3, <1>4, <1>5 DEF CloseKnows, SameHands, C
<1>8. Grows
  BY <1>1 DEF Grows, decisions
<1> QED
  BY <1>3, <1>4, <1>6, <1>7, <1>8, NotDelivering DEF CloseGoesOn

LEMMA PutAlertGoesOn ==
    ASSUME Workers, CloseInv, PutAlert
    PROVE  CloseGoesOn
<1>1. /\ Where("close") = "alert" /\ UNCHANGED <<notices, decisions>>
      /\ alerts' = alerts \cup {<<C.key, C.alert>>}
      /\ DeliverThen("close", C.key, <<C.alert>>, "flag")
  BY AtIs DEF PutAlert
<1>2. /\ C.key[1] \in NoticeKind /\ C.alert \in Nat
      /\ C.key \in DOMAIN notices /\ C.alert = notices[C.key].alert
      /\ C.key[1] = "cohort" => \A k \in C.todo : k[1] = "cohort"
  BY <1>1, HoldsNotice
<1>3. /\ Only("close") /\ work'["close"].pc = "deliver" /\ work'["close"].key = C.key
      /\ work'["close"].messages = <<C.alert>> /\ work'["close"].next = "flag"
      /\ work'["close"].todo = C.todo /\ work'["close"].alert = C.alert
  BY <1>1, DeliverThenIs DEF Process, C
<1>4. Where("close")' = "flag"
  BY <1>3 DEF Where, Delivering
<1>5. Grows /\ AlertsKept'
  BY <1>1, <1>2 DEF Grows, decisions, CloseInv, AlertsKept
<1>6. CloseKnows'
  BY <1>1, <1>2, <1>3, <1>4 DEF CloseKnows
<1>7. DeliversAs("close")'
  <2>1. (work["close"].key[1] \in NoticeKind)' /\ (work["close"].messages \in Seq(Nat))'
    BY <1>2, <1>3
  <2>2. ASSUME NEW n \in 1..Len(work'["close"].messages)
        PROVE  Says(work["close"].key, work["close"].messages[n])'
    <3>1. work'["close"].messages[n] = C.alert
      BY <1>3
    <3>2. <<C.key, C.alert>> \in alerts'
      BY <1>1
    <3>3. C.key[1] # "session" /\ \A e \in Held : C.key # Ack(e)
      BY <1>2, HeldAssumption DEF NoticeKind, Ack, What
    <3> QED
      BY <1>3, <3>1, <3>2, <3>3 DEF Says
  <2> QED
    BY <1>3, <2>1, <2>2 DEF DeliversAs, At, Delivering
<1> QED
  BY <1>3, <1>5, <1>6, <1>7 DEF CloseGoesOn

LEMMA FlagGoesOn ==
    ASSUME Workers, CloseInv, FlagDelivered
    PROVE  CloseGoesOn
<1> DEFINE row == [alert |-> C.alert, delivered |-> TRUE]
<1>1. /\ Where("close") = "flag" /\ UNCHANGED <<alerts, decisions>>
      /\ notices' = PutRow(notices, C.key, row) /\ Goto("close", C.key[1])
  BY AtIs DEF FlagDelivered
<1>2. /\ C.key[1] \in NoticeKind /\ C.alert \in Nat
      /\ C.key \in DOMAIN notices /\ C.alert = notices[C.key].alert
      /\ C.key[1] = "cohort" => \A k \in C.todo : k[1] = "cohort"
  BY <1>1, HoldsNotice
<1>3. /\ Only("close") /\ SameHands("close") /\ work'["close"].pc = C.key[1]
  BY <1>1, GotoIs DEF Process
<1>4. ~Delivering("close")' /\ Where("close")' = C.key[1]
  BY <1>2, <1>3 DEF Delivering, Where, NoticeKind
<1>5. row.alert = C.alert
  OBVIOUS
<1> HIDE DEF row
<1>6. /\ DOMAIN notices' = DOMAIN notices
      /\ \A k \in DOMAIN notices : notices'[k].alert = notices[k].alert
  BY <1>1, <1>2, <1>5 DEF PutRow
<1>7. AlertsKept' /\ Grows
  BY <1>1, <1>6 DEF CloseInv, AlertsKept, Grows, decisions
<1>8. CloseKnows'
  BY <1>2, <1>3, <1>4 DEF CloseKnows, NoticeKind, SameHands, C
<1> QED
  BY <1>3, <1>4, <1>7, <1>8, NotDelivering DEF CloseGoesOn

LEMMA CloseStepGoesOn ==
    ASSUME Workers, CloseInv, CloseStep
    PROVE  CloseGoesOn
  BY NoticesGoOn, RetiringGoesOn, PutNoticeGoesOn, PutAlertGoesOn, FlagGoesOn
     DEF CloseStep, Closing

-----------------------------------------------------------------------------
(***************************************************************************)
(* Every step keeps the invariant.                                         *)
(***************************************************************************)
LEMMA TwoProcesses == Process = {"handler", "close"} /\ "handler" \in Process /\ "close" \in Process
  BY DEF Process

LEMMA HandlerStepKeeps ==
    ASSUME IInv, HandlerStep
    PROVE  IInv'
<1>1. HandlerGoesOn
  BY HandlerStepGoesOn DEF IInv, CloseInv
<1>2. UNCHANGED <<day, ticks, notices, alerts, boxes, told, faults>> /\ queue' \subseteq queue
  BY HandlerKeeps
<1>3. Workers' /\ work'["close"] = work["close"]
  BY <1>1, TwoProcesses DEF HandlerGoesOn, Only, IInv, Workers
<1>4. DeliveryInv'
  BY <1>1, <1>2, <1>3, DeliveriesKept, TwoProcesses DEF HandlerGoesOn, IInv
<1>5. Events'
  BY <1>2 DEF IInv, HandlerInv, Events
<1>6. CloseKnows'
  BY <1>2, <1>3, CloseKept DEF IInv, CloseInv
<1>7. AlertsKept' /\ Clock'
  BY <1>2 DEF IInv, CloseInv, AlertsKept, Clock
<1> QED
  BY <1>1, <1>3, <1>4, <1>5, <1>6, <1>7 DEF IInv, HandlerInv, CloseInv, HandlerGoesOn

LEMMA CloseStepKeeps ==
    ASSUME IInv, CloseStep
    PROVE  IInv'
<1>1. CloseGoesOn
  BY CloseStepGoesOn DEF IInv
<1>2. UNCHANGED <<day, ticks, queue, sessions, log, light, choice, decided, counted, boxes, told,
                  faults>>
  BY CloseKeeps
<1>3. Workers' /\ work'["handler"] = work["handler"]
  BY <1>1, TwoProcesses DEF CloseGoesOn, Only, IInv, Workers
<1>4. DeliveryInv'
  BY <1>1, <1>2, <1>3, DeliveriesKept, TwoProcesses DEF CloseGoesOn, IInv
<1>5. OneSession' /\ Events' /\ Decisions' /\ Effects' /\ Loads' /\ SessionsStay
  BY <1>2 DEF IInv, HandlerInv, OneSession, Events, Decisions, Effects, Loads, SessionsStay
<1>6. HandlerKnows'
  BY <1>1, <1>3, <1>5, HandlerKept DEF IInv, HandlerInv, CloseGoesOn
<1>7. Clock'
  BY <1>2 DEF IInv, CloseInv, Clock
<1> QED
  BY <1>1, <1>3, <1>4, <1>5, <1>6, <1>7 DEF IInv, HandlerInv, CloseInv, CloseGoesOn

\* What is done for a process leaves what the processes know.
LEMMA ProcessesKnow ==
    ASSUME HandlerKnows, CloseKnows, Grows, SessionsStay, UNCHANGED notices,
           \A p \in Process :
              work'[p] = work[p] \/ (SameHands(p) /\ Where(p)' = Where(p))
    PROVE  HandlerKnows' /\ CloseKnows'
  BY TwoProcesses, HandlerKept, CloseKept

LEMMA DeliveryStepKeeps ==
    ASSUME IInv, DeliveryStep
    PROVE  IInv'
<1>1. PICK p \in Process : Deliver(p)
  BY DEF DeliveryStep
<1>2. UNCHANGED <<day, ticks, queue, sessions, log, light, choice, decided, counted, notices,
                  alerts, faults>>
  BY DeliveryKeeps
<1>3. Delivering(p) => work[p].next \notin {"deliver", "send", "receipt"}
  <2>1. CASE p = "handler"
    BY <2>1 DEF IInv, HandlerInv, HandlerKnows, Where
  <2>2. CASE p = "close"
    BY <2>2 DEF IInv, CloseInv, CloseKnows, Where
  <2> QED
    BY <2>1, <2>2, TwoProcesses
<1>4. /\ DeliveryInv' /\ Only(p) /\ SameHands(p) /\ work'[p].next = work[p].next
      /\ Delivering(p) /\ (Delivering(p)' \/ work'[p].pc = work[p].next)
  <2>1. CASE OpenBox(p)
    BY <2>1, OpenBoxKeeps DEF IInv
  <2>2. CASE Send(p)
    <3>1. Delivering(p)
      BY <2>2 DEF Send, Delivering, At
    <3> QED
      BY <1>3, <2>2, <3>1, SendKeeps DEF IInv
  <2>3. CASE Receipt(p)
    BY <2>3, ReceiptKeeps DEF IInv
  <2> QED
    BY <1>1, <2>1, <2>2, <2>3 DEF Deliver
<1>5. Where(p)' = Where(p)
  BY <1>3, <1>4 DEF Where, Delivering
<1>6. OneSession' /\ Events' /\ Decisions' /\ Effects' /\ Loads' /\ SessionsStay /\ Grows
  BY <1>2 DEF IInv, HandlerInv, OneSession, Events, Decisions, Effects, Loads, SessionsStay, Grows
<1>7. AlertsKept' /\ Clock'
  BY <1>2 DEF IInv, CloseInv, AlertsKept, Clock
<1>8. \A q \in Process : work'[q] = work[q] \/ (SameHands(q) /\ Where(q)' = Where(q))
  BY <1>4, <1>5 DEF Only
<1>9. HandlerKnows' /\ CloseKnows'
  BY <1>2, <1>6, <1>8, ProcessesKnow DEF IInv, HandlerInv, CloseInv
<1> QED
  BY <1>4, <1>6, <1>7, <1>9 DEF IInv, HandlerInv, CloseInv, Only

LEMMA CrashStepKeeps ==
    ASSUME IInv, CrashStep
    PROVE  IInv'
<1>1. PICK p \in Process : Crash(p)
  BY DEF CrashStep
<1>2. UNCHANGED <<day, ticks, queue, sessions, log, light, choice, decided, counted, notices,
                  alerts, boxes, told>> /\ faults' = faults + 1
  BY <1>1, CrashKeeps DEF Crash
<1>3. Only(p) /\ work'[p].pc = "idle"
  BY <1>1, IdleIs DEF Crash, IInv
<1>4. ~Delivering(p)' /\ Where(p)' = "idle"
  BY <1>3 DEF Where, Delivering
<1>5. OneSession' /\ Events' /\ Decisions' /\ Effects' /\ Loads' /\ SessionsStay /\ Grows
  BY <1>2 DEF IInv, HandlerInv, OneSession, Events, Decisions, Effects, Loads, SessionsStay, Grows
<1>6. AlertsKept' /\ Clock'
  BY <1>2 DEF IInv, CloseInv, AlertsKept, Clock
<1>7. DeliveryInv'
  BY <1>2, <1>3, <1>4, <1>5, DeliveriesKept, NotDelivering DEF IInv, Only
<1>8. HandlerKnows'
  BY <1>3, <1>4, <1>5, HandlerKept, HandlerFree, TwoProcesses DEF Only, IInv, HandlerInv
<1>9. CloseKnows'
  BY <1>2, <1>3, <1>4, CloseKept, CloseFree, TwoProcesses DEF Only, IInv, CloseInv
<1> QED
  BY <1>3, <1>5, <1>6, <1>7, <1>8, <1>9 DEF IInv, HandlerInv, CloseInv, Only

-----------------------------------------------------------------------------
(***************************************************************************)
(* What goes on outside.                                                   *)
(***************************************************************************)
\* What the world may change of what the processes rely on.
WorldGoesOn ==
    OneSession' /\ SessionsStay /\ Events' /\ Effects' /\ Clock'

LEMMA TicksGoOn ==
    ASSUME Events, Clock, NEW t \in 1..2, Tick(t)
    PROVE  Events'
<1>1. CASE \E f \in Family : TickLooks(t, f)
  <2>1. PICK f \in Family : TickLooks(t, f)
    BY <1>1
  <2> DEFINE new == [f |-> f, day |-> day, at |-> "publish"]
  <2>2. ticks' = [ticks EXCEPT ![t] = new] /\ queue' = queue
    BY <2>1 DEF TickLooks, events
  <2>3. new \in [f : Nat, day : Nat, at : {None, "publish", "record"}] /\ new.f \in Family
    BY DaysAssumption DEF Clock, Day
  <2> HIDE DEF new
  <2> QED
    BY <2>2, <2>3 DEF Events
<1>2. CASE TickPublishes(t)
  <2> DEFINE e == Event("session", ticks[t].f, ticks[t].day)
  <2>1. queue' = queue \cup {e} /\ ticks' = [ticks EXCEPT ![t].at = "record"]
        /\ ticks[t].at # None
    BY <1>2 DEF TickPublishes, None
  <2>2. e.kind = "session" /\ e.f \in Family
    BY <2>1 DEF Event, Events
  <2> HIDE DEF e
  <2>3. \A x \in queue' :
          \/ x.kind = "session" /\ x.f \in Family
          \/ x.kind = "exam"
          \/ x.kind = "decide" /\ x.f \in Held /\ x.arg \in 1..2
    BY <2>1, <2>2 DEF Events
  <2>4. /\ ticks' \in [1..2 -> [f : Nat, day : Nat, at : {None, "publish", "record"}]]
        /\ \A u \in 1..2 : ticks'[u].at # None => ticks'[u].f \in Family
    BY <2>1 DEF Events
  <2> QED
    BY <2>3, <2>4 DEF Events
<1>3. CASE TickRecords(t) \/ TickDies(t)
  <2>1. ticks' = [ticks EXCEPT ![t] = NoTick] /\ queue' = queue
    BY <1>3 DEF TickRecords, TickDies, events
  <2>2. NoTick \in [f : Nat, day : Nat, at : {None, "publish", "record"}] /\ NoTick.at = None
    BY DEF NoTick
  <2> QED
    BY <2>1, <2>2 DEF Events
<1> QED
  BY <1>1, <1>2, <1>3 DEF Tick

LEMMA AsksGoOn ==
    ASSUME Events, NEW e, queue' = queue \cup {e}, UNCHANGED ticks,
           \/ e.kind = "exam"
           \/ e.kind = "decide" /\ e.f \in Held /\ e.arg \in 1..2
    PROVE  Events'
  BY DEF Events

LEMMA PractiseGoesOn ==
    ASSUME OneSession, Effects, Clock, NEW f \in Family, Practise(f)
    PROVE  OneSession' /\ SessionsStay /\ Effects'
<1> DEFINE old == sessions[f][day]
           new == [old EXCEPT !.status = "completed"]
<1>1. /\ old.status = "delivered" /\ PutSession(f, day, new)
      /\ \E verdict \in {"right", "wrong"} :
           log' = log \cup {[id |-> <<"answer", f, day>>, student |-> f, day |-> day,
                             item |-> Head(old.items), verdict |-> verdict,
                             supersedes |-> <<>>]}
      /\ UNCHANGED <<choice, counted>>
  BY DEF Practise, decisions
<1>2. day \in Day /\ old # NoSession
  BY <1>1 DEF Clock, NoSession, None
<1>3. {"id", "items"} \subseteq DOMAIN new /\ new.id = 1
  BY <1>2 DEF OneSession
<1>4. OneSession' /\ SessionsStay
  <2> HIDE DEF new
  <2> QED
    BY <1>1, <1>2, <1>3, PutSessionIs
<1>5. PICK g : log' = log \cup {g} /\ \A e \in Held : g.id # <<"human", e, 0>>
  <2>1. PICK verdict \in {"right", "wrong"} :
          log' = log \cup {[id |-> <<"answer", f, day>>, student |-> f, day |-> day,
                            item |-> Head(old.items), verdict |-> verdict,
                            supersedes |-> <<>>]}
    BY <1>1
  <2> DEFINE g == [id |-> <<"answer", f, day>>, student |-> f, day |-> day,
                   item |-> Head(old.items), verdict |-> verdict, supersedes |-> <<>>]
  <2>2. g.id = <<"answer", f, day>>
    OBVIOUS
  <2>3. \A e \in Held : g.id # <<"human", e, 0>>
    BY <2>2
  <2> HIDE DEF g
  <2>4. log' = log \cup {g}
    BY <2>1 DEF g
  <2> QED
    BY <2>3, <2>4
<1>6. Effects'
  BY <1>1, <1>5 DEF Effects, HumanGrade
<1> QED
  BY <1>4, <1>6

LEMMA WorldStepGoesOn ==
    ASSUME HandlerInv, CloseInv, WorldStep
    PROVE  WorldGoesOn
<1>0. OneSession /\ Events /\ Effects /\ Clock
  BY DEF HandlerInv, CloseInv
<1>1. UNCHANGED sessions => OneSession' /\ SessionsStay
  BY <1>0 DEF OneSession, SessionsStay
<1>2. UNCHANGED <<choice, counted, log>> => Effects'
  BY <1>0 DEF Effects
<1>3. UNCHANGED <<ticks, queue>> => Events'
  BY <1>0 DEF Events
<1>4. UNCHANGED <<day, faults>> => Clock'
  BY <1>0 DEF Clock
<1>5. CASE NextDay
  <2>1. /\ day < LastDay /\ day' = day + 1
        /\ UNCHANGED <<ticks, queue, sessions, log, choice, counted, faults>>
    BY <1>5 DEF NextDay, tick, events, practice, decisions
  <2>2. Clock'
    BY <1>0, <2>1, DaysAssumption DEF Clock, Day
  <2> QED
    BY <1>1, <1>2, <1>3, <2>1, <2>2 DEF WorldGoesOn
<1>6. ASSUME NEW t \in 1..2, Tick(t) PROVE WorldGoesOn
  <2>1. UNCHANGED <<day, sessions, log, choice, counted>>
    BY <1>6 DEF Tick, TickLooks, TickPublishes, TickRecords, TickDies, world, practice, decisions
  <2>2. faults' \in {faults, faults + 1}
    BY <1>6 DEF Tick, TickLooks, TickPublishes, TickRecords, TickDies
  <2>3. Clock'
    BY <1>0, <2>1, <2>2 DEF Clock
  <2>4. Events'
    BY <1>0, <1>6, TicksGoOn
  <2> QED
    BY <1>1, <1>2, <2>1, <2>3, <2>4 DEF WorldGoesOn
<1>7. ASSUME NEW f \in Family, PauseOrResume(f) PROVE WorldGoesOn
  <2>1. UNCHANGED <<day, ticks, queue, sessions, log, choice, counted, faults>>
    BY <1>7 DEF PauseOrResume, tick, events, practice, decisions
  <2> QED
    BY <1>1, <1>2, <1>3, <1>4, <2>1 DEF WorldGoesOn
<1>8. ASSUME NEW f \in Family, Practise(f) PROVE WorldGoesOn
  <2>1. UNCHANGED <<day, ticks, queue, faults>>
    BY <1>8 DEF Practise, world, tick, events
  <2> QED
    BY <1>0, <1>3, <1>4, <1>8, <2>1, PractiseGoesOn DEF WorldGoesOn
<1>9. ASSUME NEW exam \in agenda.exams, AnnounceExam(exam[1], exam[2]) PROVE WorldGoesOn
  <2> DEFINE e == Event("exam", exam[1], exam[2])
  <2>1. /\ UNCHANGED <<day, ticks, sessions, log, choice, counted, faults>>
        /\ queue' = queue \cup {e} /\ e.kind = "exam"
    BY <1>9 DEF AnnounceExam, world, tick, practice, decisions, Event
  <2> HIDE DEF e
  <2> QED
    BY <1>0, <1>1, <1>2, <1>4, <2>1, AsksGoOn DEF WorldGoesOn
<1>10. ASSUME NEW h \in Held, NEW option \in 1..2, Press(h, option) PROVE WorldGoesOn
  <2> DEFINE e == Event("decide", h, option)
  <2>1. /\ UNCHANGED <<day, ticks, sessions, log, choice, counted, faults>>
        /\ queue' = queue \cup {e} /\ e.kind = "decide" /\ e.f \in Held /\ e.arg \in 1..2
    BY <1>10 DEF Press, world, tick, practice, Event
  <2> HIDE DEF e
  <2> QED
    BY <1>0, <1>1, <1>2, <1>4, <2>1, AsksGoOn DEF WorldGoesOn
<1> QED
  BY <1>5, <1>6, <1>7, <1>8, <1>9, <1>10 DEF WorldStep

LEMMA WorldStepKeeps ==
    ASSUME IInv, WorldStep
    PROVE  IInv'
<1>1. WorldGoesOn
  BY WorldStepGoesOn DEF IInv
<1>2. UNCHANGED <<work, light, choice, decided, counted, notices, alerts, boxes, told>>
  BY WorldKeeps
<1>3. Grows /\ Decisions' /\ Loads' /\ AlertsKept' /\ Workers'
  BY <1>2 DEF Grows, IInv, HandlerInv, CloseInv, Decisions, Loads, AlertsKept, Workers
<1>4. DeliveryInv'
  BY <1>2, <1>3, DeliveriesKept DEF IInv
<1>5. HandlerKnows' /\ CloseKnows'
  BY <1>1, <1>2, <1>3, ProcessesKnow DEF IInv, HandlerInv, CloseInv, WorldGoesOn
<1> QED
  BY <1>1, <1>3, <1>4, <1>5 DEF IInv, HandlerInv, CloseInv, WorldGoesOn

-----------------------------------------------------------------------------
LEMMA NothingKeeps ==
    ASSUME IInv, UNCHANGED vars
    PROVE  IInv'
<1>1. UNCHANGED <<day, ticks, queue, sessions, log, light, choice, decided, counted, notices,
                  alerts, boxes, told, work, faults>>
  BY DEF vars, world, tick, events, practice, decisions, close, delivery
<1>2. /\ Grows /\ SessionsStay /\ OneSession' /\ Events' /\ Decisions' /\ Effects' /\ Loads'
      /\ AlertsKept' /\ Clock' /\ Workers'
  BY <1>1 DEF Grows, SessionsStay, IInv, HandlerInv, CloseInv, OneSession, Events, Decisions,
              Effects, Loads, AlertsKept, Clock, Workers
<1>3. DeliveryInv'
  BY <1>1, <1>2, DeliveriesKept DEF IInv
<1>4. HandlerKnows' /\ CloseKnows'
  BY <1>1, <1>2, ProcessesKnow DEF IInv, HandlerInv, CloseInv
<1> QED
  BY <1>2, <1>3, <1>4 DEF IInv, HandlerInv, CloseInv

LEMMA Initially ==
    ASSUME Init PROVE IInv
<1>1. /\ \A p \in Process : work[p] = Idle
      /\ work = [p \in Process |-> work[p]]
  BY DEF Init
<1>2. \A p \in Process : work[p].pc = "idle" /\ Worker(work[p])
  BY <1>1, IdleIsWorker
<1>3. \A p \in Process : ~Delivering(p) /\ Where(p) = "idle"
  BY <1>2 DEF Delivering, Where
<1>4. Workers
  BY <1>1, <1>2 DEF Workers
<1>5. DeliveryInv
  <2>1. \A p \in Process : DeliversAs(p)
    BY <1>3 DEF DeliversAs, Delivering, At
  <2>2. DOMAIN boxes = {} /\ told = {}
    BY DEF Init
  <2> QED
    BY <2>1, <2>2 DEF DeliveryInv, BoxesSay, ToldSay
<1>6. OneSession
  BY DEF Init, OneSession, NoSession
<1>7. Events
  <2>1. NoTick \in [f : Nat, day : Nat, at : {None, "publish", "record"}] /\ NoTick.at = None
    BY DEF NoTick
  <2> QED
    BY <2>1 DEF Init, Events
<1>8. HandlerKnows /\ CloseKnows
  BY <1>3, TwoProcesses DEF HandlerKnows, CloseKnows
<1>9. Decisions
  BY DEF Init, Decisions, Undecided
<1>10. Effects
  BY HeldAssumption DEF Init, Effects
<1>11. Loads
  BY HeldAssumption DEF Init, Loads, NoReduction
<1>12. AlertsKept
  BY DEF Init, AlertsKept
<1>13. Clock
  BY DaysAssumption DEF Init, Clock, Day
<1> QED
  BY <1>4, <1>5, <1>6, <1>7, <1>8, <1>9, <1>10, <1>11, <1>12, <1>13
     DEF IInv, HandlerInv, CloseInv

LEMMA InvIsInductive ==
    ASSUME IInv, [Next]_vars
    PROVE  IInv'
  BY Steps, WorldStepKeeps, HandlerStepKeeps, CloseStepKeeps, DeliveryStepKeeps, CrashStepKeeps,
     NothingKeeps

LEMMA InvHolds == Spec => []IInv
  BY Initially, InvIsInductive, PTL DEF Spec

-----------------------------------------------------------------------------
(***************************************************************************)
(* Lists.                                                                  *)
(***************************************************************************)
\* R puts the members of S in a row.
StrictOrder(S, R) ==
    /\ \A x, y \in S : x # y => <<x, y>> \in R \/ <<y, x>> \in R
    /\ \A x \in S : <<x, x>> \notin R
    /\ \A x, y, z \in S : <<x, y>> \in R /\ <<y, z>> \in R => <<x, z>> \in R

\* Members of S, none of them twice.
Picks(s, S) == s \in Seq(S) /\ \A m, n \in 1..Len(s) : s[m] = s[n] => m = n

\* A set in a row: each of its members is at one place.
LEMMA ListedIs ==
    ASSUME NEW S, IsFiniteSet(S), NEW R, StrictOrder(S, R)
    PROVE  /\ Picks(Listed(S, R), S) /\ Len(Listed(S, R)) = Cardinality(S)
           /\ \A x \in S : \E n \in 1..Cardinality(S) : Listed(S, R)[n] = x
<1> DEFINE k == Cardinality(S)
           rank == [x \in S |-> Cardinality(Earlier(S, R, x)) + 1]
<1>1. k \in Nat
  BY FS_CardinalityType
<1>2. ASSUME NEW x \in S PROVE IsFiniteSet(Earlier(S, R, x)) /\ rank[x] \in 1..k
  <2>1. IsFiniteSet(S \ {x}) /\ Cardinality(S \ {x}) = k - 1
    BY FS_RemoveElement
  <2>2. Earlier(S, R, x) \in SUBSET (S \ {x})
    BY DEF Earlier, StrictOrder
  <2>3. /\ IsFiniteSet(Earlier(S, R, x))
        /\ Cardinality(Earlier(S, R, x)) <= k - 1
    BY <2>1, <2>2, FS_Subset
  <2>4. Cardinality(Earlier(S, R, x)) \in Nat
    BY <2>3, FS_CardinalityType
  <2> QED
    BY <1>1, <2>3, <2>4
<1>3. ASSUME NEW x \in S, NEW y \in S, <<x, y>> \in R PROVE rank[x] # rank[y]
  <2>1. Earlier(S, R, x) \in SUBSET Earlier(S, R, y)
    BY <1>3 DEF Earlier, StrictOrder
  <2>2. x \in Earlier(S, R, y) /\ x \notin Earlier(S, R, x)
    BY <1>3 DEF Earlier, StrictOrder
  <2>3. Cardinality(Earlier(S, R, x)) # Cardinality(Earlier(S, R, y))
    BY <1>2, <2>1, <2>2, FS_Subset
  <2>4. Cardinality(Earlier(S, R, x)) \in Nat /\ Cardinality(Earlier(S, R, y)) \in Nat
    BY <1>2, FS_CardinalityType
  <2> QED
    BY <2>3, <2>4
<1>4. \A x, y \in S : rank[x] = rank[y] => x = y
  BY <1>3 DEF StrictOrder
<1>5. rank \in [S -> 1..k]
  BY <1>2
<1> HIDE DEF rank
<1>6. rank \in Injection(S, 1..k)
  BY <1>4, <1>5 DEF Injection, IsInjective
<1>7. IsFiniteSet(1..k) /\ Cardinality(1..k) = k
  BY <1>1, FS_Interval
<1>8. rank \in Surjection(S, 1..k)
  BY <1>6, <1>7, FS_Injection
<1> DEFINE at(n) == CHOOSE x \in S : Cardinality(Earlier(S, R, x)) = n - 1
<1>9. ASSUME NEW n \in 1..k PROVE at(n) \in S /\ rank[at(n)] = n
  <2>1. PICK x \in S : rank[x] = n
    BY <1>8 DEF Surjection
  <2>2. Cardinality(Earlier(S, R, x)) = n - 1
    <3>1. Cardinality(Earlier(S, R, x)) \in Nat
      BY <1>2, FS_CardinalityType
    <3> QED
      BY <1>1, <2>1, <3>1 DEF rank
  <2>3. at(n) \in S /\ Cardinality(Earlier(S, R, at(n))) = n - 1
    BY <2>2
  <2> HIDE DEF at
  <2> QED
    BY <1>1, <2>3 DEF rank
<1> DEFINE s == Listed(S, R)
<1>10. s = [n \in 1..k |-> at(n)]
  BY DEF Listed
<1> HIDE DEF at, s
<1>11. s \in [1..k -> S] /\ \A n \in 1..k : rank[s[n]] = n
  BY <1>9, <1>10
<1>12. s \in Seq(S) /\ Len(s) = k
  BY <1>1, <1>11
<1>13. ASSUME NEW x \in S PROVE \E n \in 1..k : s[n] = x
  <2>1. rank[x] \in 1..k /\ rank[s[rank[x]]] = rank[x] /\ s[rank[x]] \in S
    BY <1>5, <1>11
  <2> QED
    BY <1>4, <2>1
<1> QED
  BY <1>11, <1>12, <1>13 DEF Picks, s

\* Numbers that are compared one after the other: two of them, or three.
LEMMA BeforeTwo ==
    ASSUME NEW a \in Int, NEW b \in Int, NEW c \in Int, NEW d \in Int
    PROVE  Before(<<a, b>>, <<c, d>>) <=> a < c \/ (a = c /\ b < d)
<1> DEFINE x == <<a, b>>
           y == <<c, d>>
<1>1. DOMAIN x = {1, 2} /\ x[1] = a /\ x[2] = b /\ y[1] = c /\ y[2] = d
  OBVIOUS
<1>2. 1..(1 - 1) = {} /\ 1..(2 - 1) = {1}
  OBVIOUS
<1> HIDE DEF x, y
<1>3. Before(x, y) <=> x[1] < y[1] \/ (x[2] < y[2] /\ x[1] = y[1])
  BY <1>1, <1>2 DEF Before
<1> QED
  BY <1>1, <1>3 DEF x, y

LEMMA BeforeThree ==
    ASSUME NEW a \in Int, NEW b \in Int, NEW c \in Int,
           NEW d \in Int, NEW e \in Int, NEW f \in Int
    PROVE  Before(<<a, b, c>>, <<d, e, f>>)
             <=> a < d \/ (a = d /\ b < e) \/ (a = d /\ b = e /\ c < f)
<1> DEFINE x == <<a, b, c>>
           y == <<d, e, f>>
<1>1. /\ DOMAIN x = {1, 2, 3} /\ x[1] = a /\ x[2] = b /\ x[3] = c
      /\ y[1] = d /\ y[2] = e /\ y[3] = f
  OBVIOUS
<1>2. 1..(1 - 1) = {} /\ 1..(2 - 1) = {1} /\ 1..(3 - 1) = {1, 2}
  OBVIOUS
<1> HIDE DEF x, y
<1>3. Before(x, y) <=> \/ x[1] < y[1]
                       \/ x[2] < y[2] /\ x[1] = y[1]
                       \/ x[3] < y[3] /\ x[1] = y[1] /\ x[2] = y[2]
  BY <1>1, <1>2 DEF Before
<1> QED
  BY <1>1, <1>3 DEF x, y

\* Keys of whole numbers that tell the members of a set apart put it in order.
LEMMA InOrderIs ==
    ASSUME NEW S, IsFiniteSet(S), NEW keyOf,
           \/ \A x \in S : keyOf[x] \in Int \X Int
           \/ \A x \in S : keyOf[x] \in Int \X Int \X Int,
           \A x, y \in S : keyOf[x] = keyOf[y] => x = y
    PROVE  /\ Picks(InOrder(S, keyOf), S) /\ Len(InOrder(S, keyOf)) = Cardinality(S)
           /\ \A x \in S : \E n \in 1..Cardinality(S) : InOrder(S, keyOf)[n] = x
<1> DEFINE R == {p \in S \X S : Before(keyOf[p[1]], keyOf[p[2]])}
<1>1. \A x, y \in S : <<x, y>> \in R <=> Before(keyOf[x], keyOf[y])
  OBVIOUS
<1> HIDE DEF R
<1>2. StrictOrder(S, R)
  <2>1. CASE \A x \in S : keyOf[x] \in Int \X Int
    <3> DEFINE a(x) == keyOf[x][1]
               b(x) == keyOf[x][2]
    <3>1. \A x \in S : a(x) \in Int /\ b(x) \in Int /\ keyOf[x] = <<a(x), b(x)>>
      BY <2>1
    <3> HIDE DEF a, b
    <3>2. ASSUME NEW x \in S, NEW y \in S
          PROVE  <<x, y>> \in R <=> a(x) < a(y) \/ (a(x) = a(y) /\ b(x) < b(y))
      <4>1. /\ a(x) \in Int /\ b(x) \in Int /\ a(y) \in Int /\ b(y) \in Int
            /\ keyOf[x] = <<a(x), b(x)>> /\ keyOf[y] = <<a(y), b(y)>>
        BY <3>1
      <4>2. Before(<<a(x), b(x)>>, <<a(y), b(y)>>) <=> a(x) < a(y) \/ (a(x) = a(y) /\ b(x) < b(y))
        BY <4>1, BeforeTwo
      <4> QED
        BY <1>1, <4>1, <4>2
    <3>3. \A x, y \in S : a(x) = a(y) /\ b(x) = b(y) => x = y
      BY <3>1
    <3> QED
      BY <3>1, <3>2, <3>3 DEF StrictOrder
  <2>2. CASE \A x \in S : keyOf[x] \in Int \X Int \X Int
    <3> DEFINE a(x) == keyOf[x][1]
               b(x) == keyOf[x][2]
               c(x) == keyOf[x][3]
    <3>1. \A x \in S : /\ a(x) \in Int /\ b(x) \in Int /\ c(x) \in Int
                       /\ keyOf[x] = <<a(x), b(x), c(x)>>
      BY <2>2
    <3> HIDE DEF a, b, c
    <3>2. ASSUME NEW x \in S, NEW y \in S
          PROVE  <<x, y>> \in R <=>
                   \/ a(x) < a(y)
                   \/ a(x) = a(y) /\ b(x) < b(y)
                   \/ a(x) = a(y) /\ b(x) = b(y) /\ c(x) < c(y)
      <4>1. /\ a(x) \in Int /\ b(x) \in Int /\ c(x) \in Int
            /\ a(y) \in Int /\ b(y) \in Int /\ c(y) \in Int
            /\ keyOf[x] = <<a(x), b(x), c(x)>> /\ keyOf[y] = <<a(y), b(y), c(y)>>
        BY <3>1
      <4>2. Before(<<a(x), b(x), c(x)>>, <<a(y), b(y), c(y)>>) <=>
              \/ a(x) < a(y)
              \/ a(x) = a(y) /\ b(x) < b(y)
              \/ a(x) = a(y) /\ b(x) = b(y) /\ c(x) < c(y)
        BY <4>1, BeforeThree
      <4> QED
        BY <1>1, <4>1, <4>2
    <3>3. \A x, y \in S : a(x) = a(y) /\ b(x) = b(y) /\ c(x) = c(y) => x = y
      BY <3>1
    <3> QED
      BY <3>1, <3>2, <3>3 DEF StrictOrder
  <2> QED
    BY <2>1, <2>2
<1>3. InOrder(S, keyOf) = Listed(S, R)
  BY DEF InOrder, R
<1> QED
  BY <1>2, <1>3, ListedIs

\* The first of a list.
LEMMA TakenIs ==
    ASSUME NEW S, NEW s, Picks(s, S), NEW n \in Nat
    PROVE  /\ Picks(Taken(s, n), S)
           /\ Len(Taken(s, n)) = IF n < Len(s) THEN n ELSE Len(s)
           /\ \A m \in 1..Len(Taken(s, n)) : Taken(s, n)[m] = s[m]
<1> DEFINE k == Smaller(n, Len(s))
           t == SubSeq(s, 1, k)
<1>1. Len(s) \in Nat /\ k \in 0..Len(s) /\ k = IF n < Len(s) THEN n ELSE Len(s)
  BY DEF Smaller, Picks
<1> HIDE DEF k
<1>2. \A i \in 1..k : s[i] \in S
  BY <1>1 DEF Picks
<1>3. t \in Seq(S) /\ Len(t) = k /\ \A m \in 1..k : t[m] = s[m]
  BY <1>1, <1>2, SubSeqProperties
<1>4. Taken(s, n) = t
  BY DEF Taken, k
<1> HIDE DEF t
<1> QED
  BY <1>1, <1>3, <1>4 DEF Picks

LEMMA PicksMore ==
    ASSUME NEW S, NEW T, S \subseteq T, NEW s, Picks(s, S)
    PROVE  Picks(s, T)
  BY SeqMonotonic DEF Picks

\* One list after another, that has nothing of it.
LEMMA JoinedIs ==
    ASSUME NEW S, NEW s, NEW t, NEW u, u = s \o t, Picks(s, S), Picks(t, S),
           \A m \in 1..Len(s), n \in 1..Len(t) : s[m] # t[n]
    PROVE  /\ Picks(u, S) /\ Len(u) = Len(s) + Len(t)
           /\ \A m \in 1..Len(s) : u[m] = s[m]
           /\ \A n \in 1..Len(t) : u[Len(s) + n] = t[n]
<1>1. /\ s \in Seq(S) /\ t \in Seq(S)
      /\ \A m, n \in 1..Len(s) : s[m] = s[n] => m = n
      /\ \A m, n \in 1..Len(t) : t[m] = t[n] => m = n
  BY DEF Picks
<1>2. /\ u \in Seq(S) /\ Len(u) = Len(s) + Len(t)
      /\ \A i \in 1..(Len(s) + Len(t)) : u[i] = IF i <= Len(s) THEN s[i] ELSE t[i - Len(s)]
  BY <1>1, ConcatProperties
<1>3. Len(s) \in Nat /\ Len(t) \in Nat
  BY <1>1
<1>4. ASSUME NEW m \in 1..Len(s) PROVE u[m] = s[m] /\ m \in 1..Len(u)
  BY <1>2, <1>3
<1>5. ASSUME NEW n \in 1..Len(t) PROVE u[Len(s) + n] = t[n]
  <2>1. /\ Len(s) + n \in 1..(Len(s) + Len(t)) /\ ~(Len(s) + n <= Len(s))
        /\ (Len(s) + n) - Len(s) = n
    BY <1>3
  <2> QED
    BY <1>2, <2>1
<1>6. ASSUME NEW m \in 1..Len(u), NEW n \in 1..Len(u), u[m] = u[n] PROVE m = n
  <2>1. \A i \in 1..Len(u) :
          \/ i \in 1..Len(s) /\ u[i] = s[i]
          \/ i - Len(s) \in 1..Len(t) /\ u[i] = t[i - Len(s)]
    BY <1>2, <1>3
  <2>2. CASE m \in 1..Len(s) /\ u[m] = s[m] /\ n \in 1..Len(s) /\ u[n] = s[n]
    BY <1>1, <1>6, <2>2
  <2>3. CASE /\ m - Len(s) \in 1..Len(t) /\ u[m] = t[m - Len(s)]
             /\ n - Len(s) \in 1..Len(t) /\ u[n] = t[n - Len(s)]
    <3>1. m - Len(s) = n - Len(s)
      BY <1>1, <1>6, <2>3
    <3> QED
      BY <1>2, <1>3, <3>1
  <2> QED
    BY <1>6, <2>1, <2>2, <2>3
<1> QED
  BY <1>2, <1>4, <1>5, <1>6 DEF Picks

LEMMA ToSetIs ==
    ASSUME NEW S, NEW s, Picks(s, S)
    PROVE  ToSet(s) = {s[n] : n \in 1..Len(s)} /\ ToSet(s) \subseteq S
  BY DEF Picks, ToSet

-----------------------------------------------------------------------------
(***************************************************************************)
(* The plan.                                                               *)
(***************************************************************************)
\* Accuracies by competency are numbers.
Accuracies(known) == \A c \in DOMAIN known : known[c] \in Int

LEMMA ItemsAre ==
    ASSUME NEW items, items \subseteq Item
    PROVE  IsFiniteSet(items) /\ \A i \in items : i \in Nat \ {0}
  BY PlanAssumption, FS_Subset

LEMMA WeakestFirstIs ==
    ASSUME NEW items, items \subseteq Item, NEW known, Accuracies(known)
    PROVE  /\ Picks(WeakestFirst(items, known), items)
           /\ Len(WeakestFirst(items, known)) = Cardinality(items)
           /\ ToSet(WeakestFirst(items, known)) = items
<1> DEFINE keyOf == [i \in items |-> <<Accuracy(known, Competency(i)), i>>]
           s == InOrder(items, keyOf)
<1>1. IsFiniteSet(items) /\ \A i \in items : i \in Int
  BY ItemsAre
<1>2. \A c : Accuracy(known, c) \in Int
  BY DEF Accuracies, Accuracy, UnknownAccuracy
<1>3. \A i \in items : keyOf[i] \in Int \X Int
  BY <1>1, <1>2
<1>4. \A i, j \in items : keyOf[i] = keyOf[j] => i = j
  OBVIOUS
<1>5. WeakestFirst(items, known) = s
  BY DEF WeakestFirst
<1> HIDE DEF keyOf
<1>6. /\ Picks(s, items) /\ Len(s) = Cardinality(items)
      /\ \A i \in items : \E n \in 1..Cardinality(items) : s[n] = i
  BY <1>1, <1>3, <1>4, InOrderIs
<1> HIDE DEF s
<1>7. ToSet(s) = items
  BY <1>6, ToSetIs
<1> QED
  BY <1>5, <1>6, <1>7

LEMMA EasiestIs ==
    ASSUME NEW items, items \subseteq Item, NEW c, NEW kind
    PROVE  Picks(Easiest(items, c, kind), {i \in items : ItemOf[i].kind = kind})
<1> DEFINE pool == {i \in items : Competency(i) = c /\ ItemOf[i].kind = kind}
           keyOf == [i \in pool |-> <<ItemOf[i].difficulty, ItemOf[i].stem, i>>]
           s == InOrder(pool, keyOf)
<1>1. IsFiniteSet(pool) /\ \A i \in pool : i \in Item /\ i \in Int
  BY ItemsAre
<1>2. \A i \in pool : keyOf[i] \in Int \X Int \X Int
  BY <1>1, PlanAssumption
<1>3. \A i, j \in pool : keyOf[i] = keyOf[j] => i = j
  OBVIOUS
<1>4. Easiest(items, c, kind) = s
  BY DEF Easiest
<1>5. pool \subseteq {i \in items : ItemOf[i].kind = kind}
  OBVIOUS
<1> HIDE DEF keyOf, pool
<1>6. Picks(s, pool)
  BY <1>1, <1>2, <1>3, InOrderIs
<1> QED
  BY <1>4, <1>5, <1>6, SeqMonotonic DEF Picks

\* What a student has seen: a row of each question.
Rows(spaced) ==
    /\ IsFiniteSet(spaced)
    /\ \A s \in spaced : s.due \in Int /\ s.lapses \in Int /\ s.item \in Item
    /\ \A r, s \in spaced : r.item = s.item => r = s

LEMMA DueItemsIs ==
    ASSUME NEW spaced, Rows(spaced), NEW today, NEW limit \in Nat
    PROVE  /\ Picks(DueItems(spaced, today, limit), {s.item : s \in spaced})
           /\ Len(DueItems(spaced, today, limit)) <= limit
<1> DEFINE due == {s \in spaced : s.due <= today}
           keyOf == [s \in due |-> <<s.due, -s.lapses, s.item>>]
           order == InOrder(due, keyOf)
           items == [n \in DOMAIN order |-> order[n].item]
           seen == {s.item : s \in spaced}
<1>1. IsFiniteSet(due) /\ \A s \in due : s \in spaced
  BY FS_Subset DEF Rows
<1>2. \A s \in due : s.due \in Int /\ -s.lapses \in Int /\ s.item \in Int
  <2>1. \A s \in due : s.due \in Int /\ s.lapses \in Int /\ s.item \in Item
    BY <1>1 DEF Rows
  <2>2. \A i \in Item : i \in Int
    BY ItemsAre
  <2> HIDE DEF due
  <2> QED
    BY <2>1, <2>2
<1>3. \A s \in due : keyOf[s] \in Int \X Int \X Int
  BY <1>2
<1>4. \A r, s \in due : keyOf[r] = keyOf[s] => r = s
  BY <1>1 DEF Rows
<1>5. DueItems(spaced, today, limit) = Taken(items, limit)
  BY DEF DueItems
<1> HIDE DEF keyOf, due
<1>6. Picks(order, due)
  BY <1>1, <1>3, <1>4, InOrderIs
<1> HIDE DEF order
<1>7. Picks(items, seen)
  <2>1. DOMAIN order = 1..Len(order) /\ Len(order) \in Nat /\ \A n \in 1..Len(order) : order[n] \in due
    BY <1>6 DEF Picks
  <2>2. items \in [1..Len(order) -> seen]
    BY <1>1, <2>1
  <2>3. items \in Seq(seen) /\ Len(items) = Len(order)
    BY <2>1, <2>2
  <2>4. ASSUME NEW m \in 1..Len(order), NEW n \in 1..Len(order), items[m] = items[n] PROVE m = n
    <3>1. order[m] \in spaced /\ order[n] \in spaced /\ order[m].item = order[n].item
      BY <1>1, <2>1, <2>4
    <3>2. order[m] = order[n]
      BY <3>1 DEF Rows
    <3> QED
      BY <1>6, <3>2 DEF Picks
  <2> QED
    BY <2>3, <2>4 DEF Picks
<1> HIDE DEF items, seen
<1>8. Picks(Taken(items, limit), seen) /\ Len(Taken(items, limit)) <= limit
  <2>1. Len(items) \in Nat
    BY <1>7 DEF Picks
  <2> QED
    BY <1>7, <2>1, TakenIs
<1> QED
  BY <1>5, <1>8 DEF seen

LEMMA MixedIs ==
    ASSUME NEW unseen, unseen \subseteq Item, unseen # {}, NEW known, Accuracies(known),
           NEW limit \in Nat \ {0}
    PROVE  Picks(Mixed(unseen, known, limit), unseen) /\ Len(Mixed(unseen, known, limit)) >= 1
<1> DEFINE weakest == Competency(WeakestFirst(unseen, known)[1])
           choosing == Easiest(unseen, weakest, "mcq")
           explaining == Easiest(unseen, weakest, "open")
           one == Taken(choosing, 1)
           more == Taken(explaining, limit - 1)
           mixed == one \o more
           rest == unseen \ ToSet(mixed)
<1>1. CASE choosing = <<>> \/ explaining = <<>>
  <2>1. Mixed(unseen, known, limit) = WeakestFirst(unseen, known)
    BY <1>1 DEF Mixed
  <2>2. Cardinality(unseen) \in Nat /\ Cardinality(unseen) # 0
    BY ItemsAre, FS_CardinalityType, FS_EmptySet
  <2> QED
    BY <2>1, <2>2, WeakestFirstIs
<1>2. CASE ~(choosing = <<>> \/ explaining = <<>>)
  <2> DEFINE ofKind(k) == {i \in unseen : ItemOf[i].kind = k}
  <2>1. Mixed(unseen, known, limit) = mixed \o WeakestFirst(rest, known)
    BY <1>2 DEF Mixed
  <2>2. Picks(choosing, ofKind("mcq")) /\ Picks(explaining, ofKind("open"))
    BY EasiestIs
  <2>3. choosing # <<>>
    BY <1>2
  <2> HIDE DEF choosing, explaining
  <2>4. Len(choosing) >= 1
    BY <2>2, <2>3, EmptySeq DEF Picks
  <2>5. Picks(one, ofKind("mcq")) /\ Len(one) >= 1
    BY <2>2, <2>4, TakenIs DEF Picks
  <2>6. Picks(more, ofKind("open"))
    BY <2>2, TakenIs
  <2> HIDE DEF one, more
  <2>7. \A m \in 1..Len(one), n \in 1..Len(more) : one[m] # more[n]
    <3>1. \A m \in 1..Len(one) : ItemOf[one[m]].kind = "mcq"
      BY <2>5 DEF Picks
    <3>2. \A n \in 1..Len(more) : ItemOf[more[n]].kind = "open"
      BY <2>6 DEF Picks
    <3> QED
      BY <3>1, <3>2
  <2>8. Picks(one, unseen) /\ Picks(more, unseen)
    BY <2>5, <2>6, PicksMore
  <2>9. mixed = one \o more
    OBVIOUS
  <2> HIDE DEF ofKind, mixed
  <2>10. Picks(mixed, unseen)
    BY <2>7, <2>8, <2>9, JoinedIs
  <2>11. Len(mixed) = Len(one) + Len(more)
    BY <2>7, <2>8, <2>9, JoinedIs
  <2> DEFINE left == WeakestFirst(rest, known)
             all == mixed \o left
  <2>12. Picks(left, rest) /\ Picks(left, unseen)
    BY WeakestFirstIs, PicksMore
  <2> HIDE DEF left
  <2>13. \A m \in 1..Len(mixed), n \in 1..Len(left) : mixed[m] # left[n]
    <3>1. \A n \in 1..Len(left) : left[n] \notin ToSet(mixed)
      BY <2>12 DEF Picks
    <3>2. \A m \in 1..Len(mixed) : mixed[m] \in ToSet(mixed)
      BY <2>10, ToSetIs
    <3> QED
      BY <3>1, <3>2
  <2>14. all = mixed \o left
    OBVIOUS
  <2> HIDE DEF all
  <2>15. Picks(all, unseen)
    BY <2>10, <2>12, <2>13, <2>14, JoinedIs
  <2>16. Len(all) = Len(mixed) + Len(left)
    BY <2>10, <2>12, <2>13, <2>14, JoinedIs
  <2>17. Len(one) \in Nat /\ Len(more) \in Nat /\ Len(left) \in Nat
    BY <2>8, <2>12 DEF Picks
  <2>18. Len(all) >= 1
    BY <2>5, <2>11, <2>16, <2>17
  <2> QED
    BY <2>1, <2>15, <2>18 DEF left, all
<1> QED
  BY <1>1, <1>2

LEMMA WeakestUnseenIs ==
    ASSUME NEW spaced, NEW known, Accuracies(known), NEW active, active \subseteq Item,
           NEW limit \in Nat \ {0}
    PROVE  LET items == WeakestUnseen(spaced, known, active, limit)
               unseen == Unseen(spaced, active)
           IN  Picks(items, unseen) /\ Len(items) <= limit /\ (unseen # {} => Len(items) >= 1)
<1> DEFINE unseen == Unseen(spaced, active)
           all == IF limit >= 3 /\ unseen # {}
                  THEN Mixed(unseen, known, limit) ELSE WeakestFirst(unseen, known)
<1>1. unseen \subseteq Item
  BY DEF Unseen
<1> HIDE DEF unseen
<1>2. Picks(all, unseen) /\ (unseen # {} => Len(all) >= 1)
  <2>1. CASE limit >= 3 /\ unseen # {}
    BY <1>1, <2>1, MixedIs
  <2>2. CASE ~(limit >= 3 /\ unseen # {})
    <3>1. Picks(WeakestFirst(unseen, known), unseen)
          /\ Len(WeakestFirst(unseen, known)) = Cardinality(unseen)
      BY <1>1, WeakestFirstIs
    <3>2. unseen # {} => Cardinality(unseen) \in Nat /\ Cardinality(unseen) # 0
      BY <1>1, ItemsAre, FS_CardinalityType, FS_EmptySet
    <3> QED
      BY <2>2, <3>1, <3>2
  <2> QED
    BY <2>1, <2>2
<1>3. WeakestUnseen(spaced, known, active, limit) = Taken(all, limit)
  BY DEF WeakestUnseen, unseen
<1> HIDE DEF all
<1>4. Len(all) \in Nat
  BY <1>2 DEF Picks
<1>5. Picks(Taken(all, limit), unseen)
      /\ Len(Taken(all, limit)) = IF limit < Len(all) THEN limit ELSE Len(all)
  BY <1>2, TakenIs
<1> QED
  BY <1>2, <1>3, <1>4, <1>5 DEF unseen

\* A plan repeats nothing, keeps within its limit and leaves room for the new.
LEMMA PlanItemsIs ==
    ASSUME NEW spaced, Rows(spaced), NEW known, Accuracies(known),
           NEW active, active \subseteq Item, \A s \in spaced : s.item \in active,
           NEW today, NEW limit \in Nat \ {0}
    PROVE  LET items == PlanItems(spaced, known, active, today, limit)
               unseen == Unseen(spaced, active)
           IN  /\ Picks(items, active) /\ Len(items) <= limit
               /\ Len(items) >= 2 /\ unseen # {} => \E n \in 1..Len(items) : items[n] \in unseen
<1> DEFINE unseen == Unseen(spaced, active)
           new == WeakestUnseen(spaced, known, active, limit)
           dueLimit == IF new = <<>> THEN limit ELSE Larger(1, limit - NewItemReserve)
           planned == DueItems(spaced, today, dueLimit)
           added == Taken(new, limit - Len(planned))
           items == planned \o added
           seen == {s.item : s \in spaced}
<1>1. Picks(new, unseen) /\ Len(new) <= limit /\ (unseen # {} => Len(new) >= 1)
  BY WeakestUnseenIs
<1>2. PlanItems(spaced, known, active, today, limit) = items
  BY DEF PlanItems
<1> HIDE DEF new
<1>3. Len(new) \in Nat /\ (unseen # {} => new # <<>>)
  BY <1>1, EmptySeq DEF Picks
<1>4. /\ dueLimit \in 1..limit /\ dueLimit \in Nat
      /\ unseen # {} /\ limit >= 2 => dueLimit = limit - 1
  BY <1>3 DEF Larger, NewItemReserve
<1> HIDE DEF dueLimit
<1>5. Picks(planned, seen) /\ Len(planned) <= dueLimit
  BY <1>4, DueItemsIs
<1> HIDE DEF planned
<1>6. Len(planned) \in Nat /\ limit - Len(planned) \in Nat
  BY <1>4, <1>5 DEF Picks
<1>7. /\ Picks(added, unseen)
      /\ Len(added) = IF limit - Len(planned) < Len(new) THEN limit - Len(planned) ELSE Len(new)
  BY <1>1, <1>6, TakenIs
<1> HIDE DEF added
<1>8. \A m \in 1..Len(planned), n \in 1..Len(added) : planned[m] # added[n]
  <2>1. \A m \in 1..Len(planned) : planned[m] \in seen
    BY <1>5 DEF Picks
  <2>2. \A n \in 1..Len(added) : added[n] \notin seen
    BY <1>7 DEF Picks, Unseen
  <2> QED
    BY <2>1, <2>2
<1>9. seen \subseteq active /\ unseen \subseteq active /\ items = planned \o added
  BY DEF Unseen
<1> HIDE DEF items, seen, unseen
<1>10. Picks(planned, active) /\ Picks(added, active)
  BY <1>5, <1>7, <1>9, PicksMore
<1>11. Picks(items, active)
  BY <1>8, <1>9, <1>10, JoinedIs
<1>12. /\ Len(items) = Len(planned) + Len(added)
       /\ \A n \in 1..Len(added) : items[Len(planned) + n] = added[n]
  BY <1>8, <1>9, <1>10, JoinedIs
<1>13. Len(added) \in Nat /\ Len(items) <= limit
  BY <1>3, <1>6, <1>7, <1>12 DEF Picks
<1>14. ASSUME Len(items) >= 2, unseen # {} PROVE \E n \in 1..Len(items) : items[n] \in unseen
  <2>1. limit >= 2 /\ Len(planned) <= limit - 1
    BY <1>4, <1>5, <1>6, <1>13, <1>14
  <2>2. Len(added) >= 1
    BY <1>1, <1>6, <1>7, <1>14, <2>1
  <2>3. items[Len(planned) + 1] = added[1] /\ Len(planned) + 1 \in 1..Len(items)
    BY <1>6, <1>12, <1>13, <2>2
  <2>4. added[1] \in unseen
    BY <1>7, <1>13, <2>2 DEF Picks
  <2> QED
    BY <2>3, <2>4
<1> QED
  BY <1>2, <1>11, <1>13, <1>14 DEF unseen

LEMMA LimitIs ==
    ASSUME NEW f, NEW today
    PROVE  Limit(f, today) \in Nat \ {0} /\ Limit(f, today) <= ExamItemCap
<1> DEFINE usual == IF ExamIsNear(f, today)
                    THEN Smaller(DailyItemLimit + 1, ExamItemCap) ELSE DailyItemLimit
           adaptive == IF light[f].until > today THEN 1 ELSE AdaptiveLimit
<1>1. usual \in Nat \ {0} /\ usual <= ExamItemCap
  BY PlanAssumption DEF Smaller
<1>2. adaptive \in Nat \ {0}
  BY DEF AdaptiveLimit
<1>3. Limit(f, today) = Smaller(usual, adaptive)
  BY DEF Limit
<1> HIDE DEF usual, adaptive
<1> QED
  BY <1>1, <1>2, <1>3, PlanAssumption DEF Smaller

\* A question is asked as it is or as a variant of its own.
LEMMA OpenVariantsAre ==
    ASSUME NEW S, S \subseteq Nat \ {0}, NEW items, Picks(items, S), NEW forced
    PROVE  LET asked == OpenVariants(items, forced)
           IN  /\ Len(asked) = Len(items) /\ IsInjective(asked)
               /\ ToSet(asked) \subseteq UNION {AskedOf(i) : i \in S}
               /\ \A n \in 1..Len(items) : ToSet(asked) \cap AskedOf(items[n]) # {}
<1> DEFINE asked == OpenVariants(items, forced)
<1>1. Len(items) \in Nat /\ DOMAIN items = 1..Len(items)
      /\ \A n \in 1..Len(items) : items[n] \in S /\ items[n] \in Nat \ {0}
  <2>1. items \in Seq(S)
    BY DEF Picks
  <2>2. Len(items) \in Nat /\ DOMAIN items = 1..Len(items)
    BY <2>1, LenProperties
  <2>3. \A n \in 1..Len(items) : items[n] \in S
    BY <2>1, ElementOfSeq
  <2> QED
    BY <2>2, <2>3
<1>2. /\ DOMAIN asked = 1..Len(items)
      /\ \A n \in 1..Len(items) : asked[n] = items[n] \/ asked[n] = -items[n]
      /\ asked = [n \in 1..Len(items) |-> asked[n]]
  BY <1>1 DEF OpenVariants, Variant
<1> HIDE DEF asked
<1>3. Len(asked) = Len(items)
  BY <1>1, <1>2
<1>4. IsInjective(asked)
  <2> SUFFICES ASSUME NEW m \in 1..Len(items), NEW n \in 1..Len(items), asked[m] = asked[n]
               PROVE  m = n
    BY <1>2 DEF IsInjective
  <2>1. items[m] = items[n]
    BY <1>1, <1>2
  <2> QED
    BY <2>1 DEF Picks
<1>5. ToSet(asked) = {asked[n] : n \in 1..Len(items)}
  BY <1>2 DEF ToSet
<1>6. \A n \in 1..Len(items) : asked[n] \in AskedOf(items[n])
  BY <1>2 DEF AskedOf, Variant
<1>7. ToSet(asked) \subseteq UNION {AskedOf(i) : i \in S}
  BY <1>1, <1>5, <1>6
<1>8. \A n \in 1..Len(items) : ToSet(asked) \cap AskedOf(items[n]) # {}
  BY <1>5, <1>6
<1> QED
  BY <1>3, <1>4, <1>7, <1>8 DEF asked

LEMMA PlannedIsSound ==
    ASSUME NEW f \in Family, NEW today
    PROVE  SoundCapsule(f, Planned(f, today))
<1> DEFINE active == Available(f)
           spaced == {s \in Spaced[f] : s.item \in active}
           unseen == Unseen(spaced, active)
           limit == Limit(f, today)
           items == PlanItems(spaced, Known[f], active, today, limit)
           order == IF ExamIsNear(f, today) THEN WeakestFirst(ToSet(items), Known[f]) ELSE items
           asked == OpenVariants(order, Forced[f])
<1>1. active \subseteq Item
  BY DEF Available, SelectAdapted, BankItems
<1>2. /\ Accuracies(Known[f]) /\ IsFiniteSet(Spaced[f])
      /\ \A s \in Spaced[f] : s.due \in Int /\ s.lapses \in Int
      /\ \A r, s \in Spaced[f] : r.item = s.item => r = s
  BY PlanAssumption DEF Accuracies
<1>3. limit \in Nat \ {0} /\ limit <= ExamItemCap
  BY LimitIs
<1>4. Planned(f, today) = asked
  BY DEF Planned
<1>5. unseen = Unseen(Spaced[f], active)
  BY DEF Unseen
<1> HIDE DEF active, limit
<1>6. Rows(spaced) /\ \A s \in spaced : s.item \in active
  <2>1. spaced \in SUBSET Spaced[f]
    OBVIOUS
  <2>2. IsFiniteSet(spaced)
    BY <1>2, <2>1, FS_Subset
  <2> QED
    BY <1>1, <1>2, <2>2 DEF Rows
<1> HIDE DEF spaced
<1>7. /\ Picks(items, active) /\ Len(items) <= limit
      /\ Len(items) >= 2 /\ unseen # {} => \E n \in 1..Len(items) : items[n] \in unseen
  BY <1>1, <1>2, <1>3, <1>6, PlanItemsIs
<1> HIDE DEF items, unseen
<1>8. /\ Picks(order, active) /\ Len(order) \in Nat /\ Len(order) <= Len(items)
      /\ \A n \in 1..Len(items) : \E m \in 1..Len(order) : order[m] = items[n]
  <2>1. Len(items) \in Nat
    BY <1>7 DEF Picks
  <2>2. CASE ~ExamIsNear(f, today)
    BY <1>7, <2>1, <2>2
  <2>3. CASE ExamIsNear(f, today)
    <3> DEFINE S == ToSet(items)
    <3>1. S = {items[n] : n \in 1..Len(items)} /\ S \subseteq active
      BY <1>7, ToSetIs
    <3>2. items \in Surjection(1..Len(items), S)
      BY <1>7, <3>1 DEF Picks, Surjection
    <3>3. IsFiniteSet(1..Len(items)) /\ Cardinality(1..Len(items)) = Len(items)
      BY <2>1, FS_Interval
    <3> HIDE DEF S
    <3>4. IsFiniteSet(S) /\ Cardinality(S) <= Len(items)
      BY <3>2, <3>3, FS_Surjection
    <3>5. Cardinality(S) \in Nat
      BY <3>4, FS_CardinalityType
    <3>6. order = WeakestFirst(S, Known[f])
      BY <2>3 DEF S
    <3> HIDE DEF order
    <3>7. Picks(order, S) /\ Len(order) = Cardinality(S) /\ ToSet(order) = S
      BY <1>1, <1>2, <3>1, <3>6, WeakestFirstIs
    <3>8. ToSet(order) = {order[n] : n \in 1..Len(order)}
      BY <3>7, ToSetIs
    <3>9. Picks(order, active)
      BY <3>1, <3>7, PicksMore
    <3>10. \A n \in 1..Len(items) : items[n] \in ToSet(order)
      BY <3>1, <3>7
    <3> QED
      BY <3>4, <3>5, <3>7, <3>8, <3>9, <3>10
  <2> QED
    BY <2>2, <2>3
<1> HIDE DEF order
<1>9. active \subseteq Nat \ {0}
  BY <1>1, PlanAssumption
<1>10. /\ Len(asked) = Len(order) /\ IsInjective(asked)
       /\ ToSet(asked) \subseteq UNION {AskedOf(i) : i \in active}
       /\ \A n \in 1..Len(order) : ToSet(asked) \cap AskedOf(order[n]) # {}
  BY <1>8, <1>9, OpenVariantsAre
<1> HIDE DEF asked
<1>11. Len(asked) <= ExamItemCap
  <2>1. Len(items) \in Nat
    BY <1>7 DEF Picks
  <2> QED
    BY <1>3, <1>7, <1>8, <1>10, <2>1, PlanAssumption
<1>12. ASSUME Len(asked) >= 2, unseen # {}
       PROVE  \E i \in unseen : ToSet(asked) \cap AskedOf(i) # {}
  <2>1. Len(items) >= 2
    <3>1. Len(items) \in Nat
      BY <1>7 DEF Picks
    <3> QED
      BY <1>8, <1>10, <1>12, <3>1
  <2>2. PICK n \in 1..Len(items) : items[n] \in unseen
    BY <1>7, <1>12, <2>1
  <2>3. PICK m \in 1..Len(order) : order[m] = items[n]
    BY <1>8
  <2> QED
    BY <1>10, <2>2, <2>3
<1>13. SoundCapsule(f, asked)
  BY <1>5, <1>10, <1>11, <1>12 DEF SoundCapsule, active
<1> QED
  BY <1>4, <1>13

\* Who writes a session.
LEMMA SessionSteps ==
    ASSUME Next
    PROVE  \/ UNCHANGED sessions
           \/ Plan \/ ComposeCapsule \/ MarkDelivered \/ \E f \in Family : Practise(f)
<1>1. CASE WorldStep
  BY <1>1 DEF WorldStep, NextDay, Tick, TickLooks, TickPublishes, TickRecords, TickDies,
              PauseOrResume, AnnounceExam, Press, practice
<1>2. CASE HandlerStep
  BY <1>2 DEF HandlerStep, Handler, Handle, DeliverCapsule, RecordExam, Decide, Release,
              CountOutcome, Resolve, Carry, Complete, practice
<1> QED
  BY <1>1, <1>2, Steps, CloseKeeps, DeliveryKeeps, CrashKeeps

\* What is put in the place of a session changes that one only.
LEMMA PutChanges ==
    ASSUME OneSession, NEW f \in Family, NEW d \in Day, NEW s, PutSession(f, d, s),
           NEW g \in Family, NEW c \in Day, sessions'[g][c].items # sessions[g][c].items
    PROVE  g = f /\ c = d /\ sessions'[g][c] = s
<1>1. sessions' = [sessions EXCEPT ![f] = [sessions[f] EXCEPT ![d] = s]]
  BY DEF PutSession, OneSession
<1> QED
  BY <1>1 DEF OneSession

LEMMA PlannedOnce ==
    ASSUME IInv, Next, NEW f \in Family, NEW d \in Day,
           sessions'[f][d].items # sessions[f][d].items
    PROVE  sessions[f][d] = NoSession /\ SoundCapsule(f, sessions'[f][d].items)
<1>1. OneSession /\ HandlerKnows /\ Clock
  BY DEF IInv, HandlerInv, CloseInv
<1> DEFINE g == W.event.f
           c == W.on
<1>2. CASE Plan
  <2>1. g \in Family /\ c \in Day
    BY <1>1, <1>2, AtIs DEF Plan, HandlerKnows, W
  <2> DEFINE fresh == NewSession(g, c)
  <2>2. Existing(g, c) = NoSession /\ PutSession(g, c, fresh)
    BY <1>2 DEF Plan
  <2>3. fresh.items = Planned(g, c)
    BY DEF NewSession
  <2> HIDE DEF fresh
  <2>4. f = g /\ d = c /\ sessions'[f][d] = fresh
    BY <1>1, <2>1, <2>2, PutChanges
  <2>5. SoundCapsule(g, Planned(g, c))
    BY <2>1, PlannedIsSound
  <2> QED
    BY <2>2, <2>3, <2>4, <2>5 DEF Existing
<1>3. CASE ComposeCapsule
  <2>1. g \in Family /\ c \in Day /\ Session = sessions[g][c]
    BY <1>1, <1>3, AtIs DEF ComposeCapsule, HandlerKnows, W, Session
  <2> DEFINE s == [sessions[g][c] EXCEPT !.composed = TRUE]
  <2>2. PutSession(g, c, s)
    BY <1>3, <2>1 DEF ComposeCapsule
  <2>3. s.items = sessions[g][c].items
    BY <1>1, <2>1 DEF OneSession
  <2> HIDE DEF s
  <2> QED
    BY <1>1, <2>1, <2>2, <2>3, PutChanges
<1>4. CASE MarkDelivered
  <2>1. g \in Family /\ c \in Day /\ Session = sessions[g][c]
    BY <1>1, <1>4, AtIs DEF MarkDelivered, HandlerKnows, W, Session
  <2> DEFINE s == [sessions[g][c] EXCEPT !.status = "delivered"]
  <2>2. PutSession(g, c, s)
    BY <1>4, <2>1 DEF MarkDelivered
  <2>3. s.items = sessions[g][c].items
    BY <1>1, <2>1 DEF OneSession
  <2> HIDE DEF s
  <2> QED
    BY <1>1, <2>1, <2>2, <2>3, PutChanges
<1>5. CASE \E e \in Family : Practise(e)
  <2>1. PICK e \in Family : Practise(e)
    BY <1>5
  <2> DEFINE s == [sessions[e][day] EXCEPT !.status = "completed"]
  <2>2. PutSession(e, day, s) /\ day \in Day
    BY <1>1, <2>1 DEF Practise, Clock
  <2>3. s.items = sessions[e][day].items
    BY <1>1, <2>2 DEF OneSession
  <2> HIDE DEF s
  <2> QED
    BY <1>1, <2>2, <2>3, PutChanges
<1> QED
  BY <1>2, <1>3, <1>4, <1>5, SessionSteps

-----------------------------------------------------------------------------
\* However often the alarm of a family rings and a delivery is cut short, a
\* child gets the capsule of one session a day: the session is looked for by
\* its date before one is planned, and the box is opened under its identity.
THEOREM OneCapsule == Spec => []OneCapsuleADay
<1>1. IInv => OneCapsuleADay
  <2> SUFFICES ASSUME IInv, NEW m \in told, NEW n \in told, m.key[1] = "session",
                      n.key[1] = "session", m.key[2] = n.key[2], m.key[3] = n.key[3]
               PROVE  m = n
    BY DEF OneCapsuleADay
  <2>1. /\ m = [key |-> m.key, text |-> m.text] /\ Says(m.key, m.text)
        /\ n = [key |-> n.key, text |-> n.text] /\ Says(n.key, n.text)
    BY DEF IInv, DeliveryInv, ToldSay
  <2>2. /\ m.text = Capsule /\ m.key = SessionKey(m.key[2], m.key[3], 1)
        /\ n.text = Capsule /\ n.key = SessionKey(n.key[2], n.key[3], 1)
    BY <2>1 DEF Says
  <2> QED
    BY <2>1, <2>2
<1> QED
  BY <1>1, InvHolds, PTL

\* Whatever adults press, in which order, and wherever the handling dies: the
\* choice that was journaled first is the one that is recorded, graded, counted,
\* acted upon and told of, because every effect is taken from the journal.
THEOREM FirstDecision == Spec => []FirstDecisionStands
<1>1. IInv => FirstDecisionStands
  <2> SUFFICES ASSUME IInv, NEW e \in Held
               PROVE  /\ decided[e] \in {Undecided, choice[e]}
                      /\ Told(e) \subseteq {choice[e]}
                      /\ \A c \in counted : c[1] = e => c[2] = choice[e]
                      /\ \A g \in log : g.id = <<"human", e, 0>> => g = HumanGrade(e, choice[e])
                      /\ \A f \in Family : light[f].source = e => choice[e] = ReduceLoad
    BY DEF FirstDecisionStands
  <2>1. ASSUME NEW t \in Told(e) PROVE t = choice[e]
    <3>1. PICK m \in told : m.key = Ack(e) /\ m.text = t /\ t # Note
      BY DEF Told
    <3>2. Says(Ack(e), t)
      BY <3>1 DEF IInv, DeliveryInv, ToldSay
    <3> QED
      BY <3>1, <3>2 DEF Says
  <2>2. decided[e] \in {Undecided, choice[e]}
    BY DEF IInv, HandlerInv, Decisions
  <2>3. /\ \A c \in counted : c[1] = e => c[2] = choice[e]
        /\ \A g \in log : g.id = <<"human", e, 0>> => g = HumanGrade(e, choice[e])
    BY DEF IInv, HandlerInv, Effects
  <2>4. \A f \in Family : light[f].source = e => choice[e] = ReduceLoad
    BY DEF IInv, HandlerInv, Loads
  <2> QED
    BY <2>1, <2>2, <2>3, <2>4
<1> QED
  BY <1>1, InvHolds, PTL

\* A family has one alert of a kind in a week, and is told of that one and of no
\* other, although the close may die between any two of its writes and compose
\* the notice again on another day: the record of the notice is put first, and
\* every later composition takes its alert from the record.
THEOREM OneNotice == Spec => []OneNoticeAWeek
<1>1. IInv => OneNoticeAWeek
  <2> SUFFICES ASSUME IInv PROVE OneNoticeAWeek
    OBVIOUS
  <2>1. \A a, b \in alerts : a[1] = b[1] => a = b
    BY DEF IInv, CloseInv, AlertsKept
  <2>2. ASSUME NEW m \in told, m.key[1] \in {"engagement", "cohort"}
        PROVE  <<m.key, m.text>> \in alerts
    BY <2>2 DEF IInv, DeliveryInv, ToldSay, Says, NoticeKind
  <2> QED
    BY <2>1, <2>2 DEF OneNoticeAWeek
<1> QED
  BY <1>1, InvHolds, PTL

\* Whatever is retired, announced or decided while a capsule is planned, and
\* wherever its planning died before: a capsule is planned on a day that has
\* none, repeats nothing, keeps its limit, asks of the bank only, and shows the
\* child something new whenever there is something and room for two.
THEOREM SoundCapsules == Spec => CapsuleIsSound
<1>1. IInv /\ [Next]_vars =>
        [\A f \in Family, d \in Day :
            sessions'[f][d].items # sessions[f][d].items =>
                sessions[f][d] = NoSession /\ SoundCapsule(f, sessions'[f][d].items)]_vars
  BY PlannedOnce
<1> QED
  BY <1>1, InvHolds, PTL DEF Spec, CapsuleIsSound
=============================================================================
