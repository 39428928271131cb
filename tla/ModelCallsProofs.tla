-------------------------- MODULE ModelCallsProofs --------------------------
(***************************************************************************)
(* Why the ceilings bound what is really spent, a family is told once, a   *)
(* provider that is away is left alone, and the daily close keeps the      *)
(* order of a family's work.                                               *)
(*                                                                         *)
(* A family is worked for by one process at a time, so an event has one    *)
(* reservation between its allowance and the day's at most, and each       *)
(* allowance that was forgotten had lasted its time.  For the same reason  *)
(* nobody but the close finishes the event it works for; an event that the *)
(* queue adds meanwhile is younger than all of its list.                   *)
(***************************************************************************)
EXTENDS ModelCalls, WellFoundedInduction, TLAPS

-----------------------------------------------------------------------------
(***************************************************************************)
(* The types of what the proofs speak about.                               *)
(***************************************************************************)
Places == {"idle", "check", "reserve", "call", "announce", "save"}

Work ==
    [event : Event, at : Places \ {"idle"}, step : Nat, reason : Reason \cup {"none"},
     time : Nat]

TimeShape == now \in 0..LastTime /\ faults \in Nat

MoneyShape ==
    /\ used \in [Days -> [Family \cup {Everyone} -> Nat]]
    /\ quota \in [Event -> [used : Nat, expires : Nat]]
    /\ askedFor \in [Event -> Nat]

HealthShape ==
    /\ breaker \in [Process -> [Role -> [state : {"closed", "open", "half_open"},
                                         failures : 0..Threshold, opened : Nat]]]
    /\ streak \in [Process -> [Role -> [failures : 0..Threshold, last : Nat]]]

\* A call that is to come is one of those the handler makes.
WorkShape ==
    /\ work \in [Process -> Work \cup {Idle}]
    /\ \A p \in Process :
         work[p].at \in {"check", "reserve", "call"} =>
             work[p].step \in 1..Len(Calls[work[p].event])
    /\ \A p \in Process : At(p, "announce") => work[p].reason \in Reason

NoticeShape ==
    notice \in [Family \X Reason \X Days -> [state : {"none", "receipted", "unsent"}, told : Nat]]

RecordShape ==
    /\ pending \subseteq Event
    /\ created \in [at : [Event -> Nat], latest : Nat]
    /\ done \subseteq Event
    /\ kept \in [Event -> Nat]
    /\ close \in [family : Family \cup {0}, list : SUBSET Event, attempted : Nat,
                  on : BOOLEAN, day : Int]
    /\ close.on => close.family \in Family

Shape ==
    TimeShape /\ MoneyShape /\ HealthShape /\ WorkShape /\ NoticeShape /\ RecordShape

-----------------------------------------------------------------------------
(***************************************************************************)
(* Who works for a family, and who pays.                                   *)
(***************************************************************************)
\* A family is worked for by its own session or by the close, and not by both.
OneAtAFamily ==
    /\ \A p \in Family : ~At(p, "idle") => FamilyAt(p) = p
    /\ \A p, q \in Process :
         ~At(p, "idle") /\ ~At(q, "idle") /\ FamilyAt(p) = FamilyAt(q) => p = q

\* The calls made are the calls reserved, of which the ceilings stop the next.
DayIsBounded ==
    /\ asked = used
    /\ \A d \in Days :
         /\ used[d][Everyone] <= GlobalLimit
         /\ \A f \in Family : used[d][f] <= FamilyLimit

\* A call of the message's allowance was reserved, and not yet one of the day's.
Reserving(e) == \E p \in Process : At(p, "reserve") /\ work[p].event = e

\* The calls of an event fill the allowances that were forgotten, each of which
\* took its time, and the one that is still remembered.
AllowanceAt(e, k) ==
    /\ askedFor[e] + (IF Reserving(e) THEN 1 ELSE 0) <= MessageLimit * k + quota[e].used
    /\ quota[e].used <= MessageLimit
    /\ IF quota[e] = NoQuota THEN k * QuotaTTL <= now
       ELSE /\ (k + 1) * QuotaTTL <= quota[e].expires
            /\ quota[e].expires <= now + QuotaTTL

AllowanceIsBounded == \A e \in Event : \E k \in Nat : AllowanceAt(e, k)

\* What was said is known to have been said, but for a fault.
Told ==
    \A k \in DOMAIN notice :
        notice[k].told <= IF Delivered(notice[k]) THEN 1 + faults ELSE faults

\* A breaker that is closed counts the failures in a row, one that is open knows
\* the last of them, and one is half open when that was long ago.
BreakersKnow ==
    \A p \in Process, r \in Role :
        LET b == breaker[p][r]
            s == streak[p][r]
        IN  /\ b.state = "closed" => b.failures = s.failures /\ b.failures < Threshold
            /\ b.state = "open" => b.opened = s.last
            /\ b.state = "half_open" => now >= s.last + Recovery

Admitted ==
    \A p \in Process :
        work[p].at \in {"reserve", "call"} => breaker[p][RoleAt(p)].state # "open"

SpendInv ==
    /\ Shape /\ OneAtAFamily /\ DayIsBounded /\ AllowanceIsBounded /\ Told
    /\ BreakersKnow /\ Admitted

-----------------------------------------------------------------------------
(***************************************************************************)
(* The order of the recovery.                                              *)
(***************************************************************************)
\* Pending records are created one after the other.
CreatedInOrder ==
    /\ \A e \in Event : created.at[e] <= created.latest
    /\ \A e, x \in pending : created.at[e] = created.at[x] => e = x

\* The list is of one family, and nothing older of it is pending beside it.
ListIsOldest ==
    /\ \A e \in close.list : FamilyOf[e] = close.family /\ e \in pending \cup done
    /\ \A x \in PendingOf(close.family), e \in close.list :
         created.at[x] < created.at[e] => x \in close.list

\* The close works for the first of its list, which nobody else can finish.
CloserIsFirst ==
    ~At(Closer, "idle") =>
        LET e == work[Closer].event
        IN  /\ close.on
            /\ e \in close.list /\ e \in pending
            /\ \A x \in close.list : created.at[e] <= created.at[x]

OrderInv == CreatedInOrder /\ ListIsOldest /\ CloserIsFirst

IInv == SpendInv /\ OrderInv

-----------------------------------------------------------------------------
(***************************************************************************)
(* Numbers.                                                                *)
(***************************************************************************)
LEMMA MinIs ==
    ASSUME NEW a \in Int, NEW b \in Int
    PROVE  Min({a, b}) = IF a <= b THEN a ELSE b
  BY DEF Min

LEMMA Least ==
    ASSUME NEW S, S \subseteq Nat, S # {}
    PROVE  \E n \in S : \A m \in S : n <= m
<1> DEFINE R == OpToRel(<, Nat)
<1>1. \A m, n \in Nat : <<m, n>> \in R <=> m < n
  BY DEF OpToRel
<1>2. IsWellFoundedOn(R, Nat)
  BY NatLessThanWellFounded
<1> HIDE DEF R
<1>3. PICK n \in S : \A m \in S : ~ (<<m, n>> \in R)
  BY <1>2, WFMin
<1>4. ASSUME NEW m \in S PROVE n <= m
  <2>1. m \in Nat /\ n \in Nat
    OBVIOUS
  <2>2. ~ (m < n)
    BY <1>1, <1>3, <2>1, Zenon
  <2> QED
    BY <2>1, <2>2
<1> QED
  BY <1>4

LEMMA DayIs == ASSUME now \in 0..LastTime PROVE Day(now) \in Days
<1>1. \A t \in Nat, n \in Nat, m \in Nat \ {0} : t <= n => t \div m \in 0..(n \div m)
  OBVIOUS
<1> QED
  BY <1>1, CallsAssumption DEF Day, Days

LEMMA OldestIs ==
    ASSUME RecordShape, NEW list \in SUBSET Event, list # {}
    PROVE  /\ Oldest(list) \in list
           /\ \A x \in list : created.at[Oldest(list)] <= created.at[x]
<1> DEFINE times == {created.at[e] : e \in list}
<1>1. times \subseteq Nat /\ times # {}
  BY DEF RecordShape
<1>2. PICK t \in times : \A s \in times : t <= s
  BY <1>1, Least
<1>3. \E e \in list : \A x \in list : created.at[e] <= created.at[x]
  BY <1>2
<1> QED
  BY <1>3 DEF Oldest

-----------------------------------------------------------------------------
(***************************************************************************)
(* What the actions do to the work of a process.                           *)
(***************************************************************************)
LEMMA IdleIs == /\ Idle.at = "idle"
                /\ \A p \in Process : At(p, "idle") /\ WorkShape => work[p] = Idle
                /\ \A p \in Process : ~At(p, "idle") /\ WorkShape => work[p] \in Work
<1>1. Idle.at = "idle"
  BY DEF Idle
<1>2. \A w \in Work : w.at # "idle"
  BY DEF Work, Places
<1> QED
  BY <1>1, <1>2 DEF At, WorkShape

LEMMA BeginIs ==
    ASSUME RecordShape, NEW e \in Event
    PROVE  /\ Begin(e) \in Work /\ Begin(e).event = e
           /\ Begin(e).at \in {"check", "save"}
           /\ Begin(e).at = "check" => Begin(e).step \in 1..Len(Calls[e])
<1>1. kept[e] \in Nat /\ Len(Calls[e]) \in Nat
  BY CallsAssumption DEF RecordShape
<1> DEFINE first == IF e \in Keeps THEN kept[e] + 1 ELSE 1
<1>2. first \in Nat \ {0}
  BY <1>1
<1>3. Begin(e) = [event |-> e, at |-> IF first > Len(Calls[e]) THEN "save" ELSE "check",
                  step |-> first, reason |-> "none", time |-> 0]
  BY DEF Begin
<1> HIDE DEF first
<1> QED
  BY <1>1, <1>2, <1>3 DEF Work, Places

LEMMA FamilyIs ==
    ASSUME WorkShape, NEW p \in Process, ~At(p, "idle")
    PROVE  /\ work[p].event \in Event /\ FamilyAt(p) \in Family
           /\ FamilyAt(p) # Everyone
  BY IdleIs, CallsAssumption DEF Work, FamilyAt, Family, Everyone

\* The steps of a process that has work.
Working(p) ==
    \/ Check(p) \/ Reserve(p) \/ Conflict(p)
    \/ Answer(p) \/ AnswerBadly(p) \/ Unavailable(p)

Ending(p) == Announce(p) \/ AnnounceFails(p) \/ Save(p) \/ Crash(p)

\* A process goes on with its event, is done with it, or takes another one.
LEMMA WorkMoves ==
    ASSUME Shape, [Next]_vars
    PROVE  \/ UNCHANGED work
           \/ \E p \in Process :
                /\ Working(p) /\ ~At(p, "idle")
                /\ \E w \in Work : /\ work' = [work EXCEPT ![p] = w]
                                   /\ w.event = work[p].event
           \/ \E p \in Process :
                /\ Ending(p) /\ ~At(p, "idle")
                /\ work' = [work EXCEPT ![p] = Idle]
           \/ \E e \in Event :
                /\ ~Busy(FamilyOf[e])
                /\ \/ /\ Receive(e) /\ e \notin done
                      /\ work' = [work EXCEPT ![FamilyOf[e]] = Begin(e)]
                   \/ /\ Attempt /\ e = Oldest(close.list) /\ e \notin done
                      /\ close.list # {} /\ At(Closer, "idle")
                      /\ work' = [work EXCEPT ![Closer] = Begin(e)]
<1> USE DEF Shape
<1>1. ASSUME NEW e \in Event, Receive(e), ~UNCHANGED work
      PROVE  /\ ~Busy(FamilyOf[e]) /\ e \notin done
             /\ work' = [work EXCEPT ![FamilyOf[e]] = Begin(e)]
  BY <1>1 DEF Receive
<1>2. ASSUME NEW e \in Event, Expire(e) PROVE UNCHANGED work
  BY <1>2 DEF Expire
<1>3. ASSUME StartClose \/ NextFamily \/ Tick PROVE UNCHANGED work
  BY <1>3 DEF StartClose, NextFamily, Tick
<1>4. ASSUME Attempt, ~UNCHANGED work
      PROVE  \E e \in Event :
               /\ ~Busy(FamilyOf[e]) /\ e = Oldest(close.list) /\ e \notin done
               /\ close.list # {} /\ At(Closer, "idle")
               /\ work' = [work EXCEPT ![Closer] = Begin(e)]
  <2>1. close.list \subseteq Event /\ close.list # {}
    BY <1>4 DEF Attempt, RecordShape
  <2>2. Oldest(close.list) \in Event
    BY <2>1, OldestIs
  <2> QED
    BY <1>4, <2>2 DEF Attempt
<1>5. ASSUME NEW p \in Process, Working(p)
      PROVE  /\ ~At(p, "idle")
             /\ \E w \in Work : work' = [work EXCEPT ![p] = w] /\ w.event = work[p].event
  <2>1. ~At(p, "idle") /\ work[p] \in Work
    BY <1>5, IdleIs DEF Working, Check, Reserve, Conflict, Answer, AnswerBadly, Unavailable, At
  <2>2. now \in Nat /\ work[p].step + 1 \in Nat
    BY <2>1, CallsAssumption DEF Work, TimeShape
  <2> DEFINE refused(why) == [work[p] EXCEPT !.at = "announce", !.reason = why, !.time = now]
             moved(where) == [work[p] EXCEPT !.at = where]
             next(where) == [work[p] EXCEPT !.step = @ + 1, !.at = where]
  <2>3. ASSUME NEW why \in Reason
        PROVE  refused(why) \in Work /\ refused(why).event = work[p].event
    BY <2>1, <2>2 DEF Work, Places
  <2>4. ASSUME NEW where \in {"check", "reserve", "call", "save"}
        PROVE  /\ moved(where) \in Work /\ moved(where).event = work[p].event
               /\ next(where) \in Work /\ next(where).event = work[p].event
    BY <2>1, <2>2 DEF Work, Places
  <2>5. \/ \E why \in Reason : Refuse(p, why)
        \/ \E where \in {"reserve", "call"} : Goto(p, where)
        \/ Proceed(p)
    BY <1>5 DEF Working, Check, Reserve, Conflict, Answer, AnswerBadly, Unavailable, Reason
  <2>6. ASSUME NEW why \in Reason, Refuse(p, why)
        PROVE  work' = [work EXCEPT ![p] = refused(why)]
    BY <2>1, <2>6 DEF Refuse, WorkShape
  <2>7. ASSUME NEW where \in {"reserve", "call"}, Goto(p, where)
        PROVE  work' = [work EXCEPT ![p] = moved(where)]
    BY <2>1, <2>7 DEF Goto, WorkShape
  <2>8. ASSUME Proceed(p)
        PROVE  \E where \in {"check", "save"} : work' = [work EXCEPT ![p] = next(where)]
    BY <2>1, <2>8 DEF Proceed, WorkShape
  <2> HIDE DEF refused, moved, next
  <2> QED
    BY <2>1, <2>3, <2>4, <2>5, <2>6, <2>7, <2>8
<1>6. ASSUME NEW p \in Process, Ending(p)
      PROVE  ~At(p, "idle") /\ work' = [work EXCEPT ![p] = Idle]
  BY <1>6 DEF Ending, Announce, AnnounceFails, Save, Crash, Conclude, At
<1>7. CASE UNCHANGED vars
  BY <1>7 DEF vars
<1> QED
  BY <1>1, <1>2, <1>3, <1>4, <1>5, <1>6, <1>7 DEF Next, Step, Recover, Working, Ending

-----------------------------------------------------------------------------
(***************************************************************************)
(* Which actions write what.                                               *)
(***************************************************************************)
LEMMA Writers ==
    ASSUME [Next]_vars
    PROVE  /\ UNCHANGED now \/ Tick
           /\ UNCHANGED faults \/ \E p \in Process : AnnounceFails(p) \/ Crash(p)
           /\ \/ UNCHANGED <<used, asked, askedFor>>
              \/ \E p \in Process : Reserve(p)
           /\ \/ UNCHANGED quota
              \/ \E p \in Process : Check(p)
              \/ \E e \in Event : Expire(e)
           /\ \/ UNCHANGED <<breaker, streak>>
              \/ \E p \in Process : \/ Check(p) /\ UNCHANGED streak
                                    \/ Answer(p) \/ AnswerBadly(p) \/ Unavailable(p)
                                    \/ Crash(p)
           /\ \/ UNCHANGED notice
              \/ \E p \in Process : Announce(p) \/ AnnounceFails(p)
           /\ \/ UNCHANGED <<pending, created, done>>
              \/ \E e \in Event : Receive(e) /\ UNCHANGED <<done, close>>
              \/ Attempt /\ UNCHANGED <<created, done>>
              \/ \E p \in Process : Save(p) /\ UNCHANGED created
           /\ UNCHANGED kept \/ \E p \in Process : Answer(p)
           /\ \/ UNCHANGED close
              \/ StartClose \/ NextFamily \/ Attempt
              \/ \E p \in Process : Ending(p)
<1> USE DEF money, health, records
<1>1. ASSUME NEW e \in Event, Receive(e)
      PROVE  UNCHANGED <<now, provider, money, health, done, kept, notice, close, faults>>
  BY <1>1 DEF Receive
<1>2. ASSUME NEW e \in Event, Expire(e)
      PROVE  UNCHANGED <<now, used, asked, askedFor, health, work, records, notice, close, faults>>
  BY <1>2 DEF Expire
<1>3. ASSUME NEW p \in Process, Check(p)
      PROVE  UNCHANGED <<now, used, asked, askedFor, streak, records, notice, close, faults>>
  BY <1>3 DEF Check
<1>4. ASSUME NEW p \in Process, Reserve(p)
      PROVE  UNCHANGED <<now, quota, health, records, notice, close, faults>>
  BY <1>4 DEF Reserve
<1>5. ASSUME NEW p \in Process, Conflict(p)
      PROVE  UNCHANGED <<now, money, health, records, notice, close, faults>>
  BY <1>5 DEF Conflict
<1>6. ASSUME NEW p \in Process, Answer(p)
      PROVE  UNCHANGED <<now, money, pending, created, done, notice, close, faults>>
  BY <1>6 DEF Answer
<1>7. ASSUME NEW p \in Process, AnswerBadly(p)
      PROVE  UNCHANGED <<now, money, records, notice, close, faults>>
  BY <1>7 DEF AnswerBadly
<1>8. ASSUME NEW p \in Process, Unavailable(p)
      PROVE  UNCHANGED <<now, money, records, notice, close, faults>>
  BY <1>8 DEF Unavailable
<1>9. ASSUME NEW p \in Process, Announce(p)
      PROVE  UNCHANGED <<now, money, health, records, faults>>
  BY <1>9 DEF Announce
<1>10. ASSUME NEW p \in Process, AnnounceFails(p)
      PROVE  UNCHANGED <<now, money, health, records>>
  BY <1>10 DEF AnnounceFails
<1>11. ASSUME NEW p \in Process, Save(p)
      PROVE  UNCHANGED <<now, money, health, created, kept, notice, faults>>
  BY <1>11 DEF Save
<1>12. ASSUME NEW p \in Process, Crash(p)
      PROVE  UNCHANGED <<now, money, records, notice>>
  BY <1>12 DEF Crash
<1>13. ASSUME StartClose
      PROVE  UNCHANGED <<now, money, health, work, records, notice, faults>>
  BY <1>13 DEF StartClose
<1>14. ASSUME NextFamily
      PROVE  UNCHANGED <<now, money, health, work, records, notice, faults>>
  BY <1>14 DEF NextFamily
<1>15. ASSUME Attempt
      PROVE  UNCHANGED <<now, money, health, created, done, kept, notice, faults>>
  BY <1>15 DEF Attempt
<1>16. ASSUME Tick
      PROVE  UNCHANGED <<money, health, work, records, notice, close, faults>>
  BY <1>16 DEF Tick
<1>17. ASSUME UNCHANGED vars
      PROVE  UNCHANGED <<now, money, health, work, records, notice, close, faults>>
  BY <1>17 DEF vars
<1> QED
  BY <1>1, <1>2, <1>3, <1>4, <1>5, <1>6, <1>7, <1>8, <1>9,
     <1>10, <1>11, <1>12, <1>13, <1>14, <1>15, <1>16, <1>17
     DEF Next, Step, Recover, Ending

-----------------------------------------------------------------------------
(***************************************************************************)
(* The types are kept.                                                     *)
(***************************************************************************)
LEMMA TimeShapeStep == Shape /\ [Next]_vars => TimeShape'
<1> SUFFICES ASSUME Shape, [Next]_vars PROVE TimeShape'
  OBVIOUS
<1>1. now' \in 0..LastTime
  BY Writers, CallsAssumption DEF Shape, TimeShape, Tick
<1>2. ASSUME NEW p \in Process, AnnounceFails(p) \/ Crash(p) PROVE faults' = faults + 1
  <2>1. Fault
    BY <1>2 DEF AnnounceFails, Crash
  <2> QED
    BY <2>1 DEF Fault
<1>3. faults' \in Nat
  BY <1>2, Writers DEF Shape, TimeShape
<1> QED
  BY <1>1, <1>3 DEF TimeShape

LEMMA HealthWriters ==
    ASSUME [Next]_vars
    PROVE  \/ UNCHANGED <<breaker, streak>>
           \/ \E p \in Process : Check(p) /\ UNCHANGED streak
           \/ \E p \in Process, success \in BOOLEAN : At(p, "call") /\ After(p, success)
           \/ \E p \in Process : Crash(p)
<1>1. ASSUME NEW p \in Process, Answer(p) \/ AnswerBadly(p) \/ Unavailable(p)
      PROVE  At(p, "call") /\ \E success \in BOOLEAN : After(p, success)
  BY <1>1 DEF Answer, AnswerBadly, Unavailable
<1> QED
  BY <1>1, Writers

LEMMA ReserveIs ==
    ASSUME Shape, NEW p \in Process, Reserve(p)
    PROVE  /\ ~At(p, "idle") /\ FamilyAt(p) \in Family /\ FamilyAt(p) # Everyone
           /\ work[p].event \in Event /\ Day(now) \in Days /\ Everyone \notin Family
  BY FamilyIs, DayIs DEF Shape, TimeShape, Reserve, At, Family, Everyone

LEMMA MoneyShapeStep == Shape /\ [Next]_vars => MoneyShape'
<1> SUFFICES ASSUME Shape, [Next]_vars PROVE MoneyShape'
  OBVIOUS
<1> USE DEF Shape, MoneyShape
<1>1. used' \in [Days -> [Family \cup {Everyone} -> Nat]] /\ askedFor' \in [Event -> Nat]
  <2>1. ASSUME NEW p \in Process, Reserve(p), ~UNCHANGED <<used, asked, askedFor>>
        PROVE  /\ used' = CountUp(used, FamilyAt(p))
               /\ askedFor' = [askedFor EXCEPT ![work[p].event] = @ + 1]
    BY <2>1 DEF Reserve
  <2>2. ASSUME NEW p \in Process, Reserve(p), ~UNCHANGED <<used, asked, askedFor>>
        PROVE  /\ used' \in [Days -> [Family \cup {Everyone} -> Nat]]
               /\ askedFor' \in [Event -> Nat]
    <3>1. PICK f \in Family : f = FamilyAt(p)
      BY <2>2, ReserveIs
    <3>2. Day(now) \in Days /\ Everyone \notin Family /\ f # Everyone
      BY <2>2, <3>1, ReserveIs
    <3>3. PICK d \in Days : d = Day(now)
      BY <3>2
    <3>4. used' = [used EXCEPT ![d][f] = @ + 1, ![d][Everyone] = @ + 1]
      BY <2>1, <2>2, <3>1, <3>3 DEF CountUp
    <3>5. used' \in [Days -> [Family \cup {Everyone} -> Nat]]
      BY <3>2, <3>4
    <3>6. askedFor' \in [Event -> Nat]
      BY <2>1, <2>2, ReserveIs
    <3> QED
      BY <3>5, <3>6
  <2> QED
    BY <2>2, Writers
<1>2. quota' \in [Event -> [used : Nat, expires : Nat]]
  <2>1. now \in Nat /\ now + QuotaTTL \in Nat
    BY CallsAssumption DEF TimeShape
  <2>2. ASSUME NEW p \in Process, Check(p)
        PROVE  quota' \in [Event -> [used : Nat, expires : Nat]]
    <3>1. work[p].event \in Event
      BY <2>2, FamilyIs DEF Check, At
    <3>2. Drawn(quota[work[p].event]) \in [used : Nat, expires : Nat]
      BY <2>1, <3>1 DEF Drawn
    <3> QED
      BY <2>2, <3>1, <3>2 DEF Check
  <2>3. ASSUME NEW e \in Event, Expire(e)
        PROVE  quota' \in [Event -> [used : Nat, expires : Nat]]
    BY <2>3 DEF Expire, NoQuota
  <2> QED
    BY <2>2, <2>3, Writers
<1> QED
  BY <1>1, <1>2

Breaker == [state : {"closed", "open", "half_open"}, failures : 0..Threshold, opened : Nat]
Streak == [failures : 0..Threshold, last : Nat]

LEMMA BreakerIs ==
    ASSUME TimeShape, NEW b \in Breaker
    PROVE  /\ Allowed(b) \in Breaker /\ Failed(b) \in Breaker
           /\ Succeeded(b) \in Breaker /\ Healthy \in Breaker
<1>1. now \in Nat /\ Threshold \in Nat \ {0}
  BY CallsAssumption DEF TimeShape
<1>2. /\ b.failures + 1 \in Nat
      /\ Min({b.failures + 1, Threshold}) = IF b.failures + 1 <= Threshold THEN b.failures + 1
                                            ELSE Threshold
  BY <1>1, MinIs DEF Breaker
<1>3. Min({b.failures + 1, Threshold}) \in 0..Threshold
  BY <1>1, <1>2
<1> QED
  BY <1>1, <1>3 DEF Breaker, Allowed, Failed, Succeeded, Healthy

LEMMA RoleIs ==
    ASSUME WorkShape, NEW p \in Process, work[p].at \in {"check", "reserve", "call"}
    PROVE  RoleAt(p) \in Role
  BY IdleIs, CallsAssumption DEF WorkShape, RoleAt, At, Work

LEMMA HealthShapeStep == Shape /\ [Next]_vars => HealthShape'
<1> SUFFICES ASSUME Shape, [Next]_vars PROVE HealthShape'
  OBVIOUS
<1>1. /\ breaker \in [Process -> [Role -> Breaker]]
      /\ streak \in [Process -> [Role -> Streak]]
      /\ WorkShape /\ TimeShape
  BY DEF Shape, HealthShape, Breaker, Streak
<1>2. now \in Nat /\ Threshold \in Nat \ {0}
  BY CallsAssumption DEF Shape, TimeShape
<1>3. Healthy \in Breaker /\ NoStreak \in Streak
  BY <1>2 DEF Breaker, Streak, Healthy, NoStreak
<1>4. /\ breaker' \in [Process -> [Role -> Breaker]]
      /\ streak' \in [Process -> [Role -> Streak]]
  <2>1. ASSUME NEW p \in Process, Check(p), UNCHANGED streak
        PROVE  /\ breaker' \in [Process -> [Role -> Breaker]]
               /\ streak' \in [Process -> [Role -> Streak]]
    <3>1. RoleAt(p) \in Role
      BY <1>1, <2>1, RoleIs DEF Check, At
    <3>2. Allowed(breaker[p][RoleAt(p)]) \in Breaker
      BY <1>1, <3>1, BreakerIs
    <3> QED
      BY <1>1, <2>1, <3>1, <3>2 DEF Check
  <2>2. ASSUME NEW p \in Process, At(p, "call"), NEW success \in BOOLEAN, After(p, success)
        PROVE  /\ breaker' \in [Process -> [Role -> Breaker]]
               /\ streak' \in [Process -> [Role -> Streak]]
    <3>1. PICK r \in Role : r = RoleAt(p)
      BY <1>1, <2>2, RoleIs DEF At
    <3>2. /\ Succeeded(breaker[p][r]) \in Breaker /\ Failed(breaker[p][r]) \in Breaker
      BY <1>1, BreakerIs
    <3>3. [failures |-> Min({streak[p][r].failures + 1, Threshold}), last |-> now] \in Streak
      <4>1. streak[p][r].failures + 1 \in Nat
        BY <1>1 DEF Streak
      <4>2. Min({streak[p][r].failures + 1, Threshold}) \in 0..Threshold
        BY <1>2, <4>1, MinIs
      <4> QED
        BY <1>2, <4>2 DEF Streak
    <3> QED
      BY <1>1, <1>3, <2>2, <3>1, <3>2, <3>3 DEF After
  <2>3. ASSUME NEW p \in Process, Crash(p)
        PROVE  /\ breaker' \in [Process -> [Role -> Breaker]]
               /\ streak' \in [Process -> [Role -> Streak]]
    BY <1>1, <1>3, <2>3 DEF Crash
  <2> QED
    BY <1>1, <2>1, <2>2, <2>3, HealthWriters
<1> QED
  BY <1>4 DEF HealthShape, Breaker, Streak


\* Where a step of a process leaves it.
LEMMA WorkingIs ==
    ASSUME Shape, NEW p \in Process, Working(p)
    PROVE  /\ ~At(p, "idle")
           /\ \/ \E why \in Reason : Refuse(p, why)
              \/ Check(p) /\ Goto(p, "reserve")
              \/ Reserve(p) /\ Goto(p, "call")
              \/ At(p, "call") /\ Proceed(p)
  BY DEF Working, Check, Reserve, Conflict, Answer, AnswerBadly, Unavailable, Reason, At

LEMMA WorkShapeStep == Shape /\ [Next]_vars => WorkShape'
<1> SUFFICES ASSUME Shape, [Next]_vars PROVE WorkShape'
  OBVIOUS
<1>0. WorkShape /\ RecordShape /\ now \in Nat /\ Family \subseteq Process /\ Closer \in Process
  BY CallsAssumption DEF Shape, TimeShape, Process
<1> DEFINE Sound(w) ==
             /\ w \in Work \cup {Idle}
             /\ w.at \in {"check", "reserve", "call"} => w.step \in 1..Len(Calls[w.event])
             /\ w.at = "announce" => w.reason \in Reason
<1>1. \A p \in Process : Sound(work[p])
  BY <1>0 DEF WorkShape, At
<1>2. ASSUME NEW p \in Process, NEW w, Sound(w), work' = [work EXCEPT ![p] = w]
      PROVE  WorkShape'
  BY <1>0, <1>1, <1>2 DEF WorkShape, At
<1>3. Sound(Idle)
  BY DEF Idle
<1>4. ASSUME NEW e \in Event PROVE Sound(Begin(e))
  BY <1>0, BeginIs
<1>5. ASSUME NEW p \in Process, Working(p) PROVE \E w : Sound(w) /\ work' = [work EXCEPT ![p] = w]
  <2>1. ~At(p, "idle") /\ work[p] \in Work /\ Sound(work[p])
    BY <1>0, <1>1, <1>5, IdleIs, WorkingIs
  <2>2. work \in [Process -> Work \cup {Idle}]
    BY <1>0 DEF WorkShape
  <2>3. ASSUME NEW why \in Reason, Refuse(p, why)
        PROVE  \E w : Sound(w) /\ work' = [work EXCEPT ![p] = w]
    <3> DEFINE w == [work[p] EXCEPT !.at = "announce", !.reason = why, !.time = now]
    <3>1. work' = [work EXCEPT ![p] = w]
      BY <2>2, <2>3 DEF Refuse
    <3>2. Sound(w)
      BY <1>0, <2>1 DEF Work, Places
    <3> HIDE DEF w
    <3> QED
      BY <3>1, <3>2
  <2>4. ASSUME NEW where \in {"reserve", "call"}, Goto(p, where),
               work[p].at \in {"check", "reserve"}
        PROVE  \E w : Sound(w) /\ work' = [work EXCEPT ![p] = w]
    <3> DEFINE w == [work[p] EXCEPT !.at = where]
    <3>1. work' = [work EXCEPT ![p] = w]
      BY <2>2, <2>4 DEF Goto
    <3>2. Sound(w)
      BY <2>1, <2>4 DEF Work, Places
    <3> HIDE DEF w
    <3> QED
      BY <3>1, <3>2
  <2>5. ASSUME At(p, "call"), Proceed(p)
        PROVE  \E w : Sound(w) /\ work' = [work EXCEPT ![p] = w]
    <3> DEFINE where == IF work[p].step < Len(Calls[work[p].event]) THEN "check" ELSE "save"
               w == [work[p] EXCEPT !.step = @ + 1, !.at = where]
    <3>1. work' = [work EXCEPT ![p] = w]
      BY <2>2, <2>5 DEF Proceed
    <3>2. work[p].event \in Event /\ work[p].step \in Nat
      BY <2>1 DEF Work
    <3>3. Len(Calls[work[p].event]) \in Nat
      BY <3>2, CallsAssumption
    <3>4. where \in {"check", "save"}
          /\ (where = "check" => work[p].step + 1 \in 1..Len(Calls[work[p].event]))
      BY <3>2, <3>3
    <3> HIDE DEF where
    <3>5. work[p].step + 1 \in Nat
      BY <3>2
    <3>6. w \in Work /\ w.event = work[p].event /\ w.step = work[p].step + 1 /\ w.at = where
      BY <2>1, <3>4, <3>5 DEF Work, Places
    <3>7. Sound(w)
      BY <3>4, <3>6
    <3> HIDE DEF w
    <3> QED
      BY <3>1, <3>7
  <2> HIDE DEF Sound
  <2> QED
    BY <1>5, <2>3, <2>4, <2>5, WorkingIs DEF Check, Reserve, At
<1> HIDE DEF Sound
<1>6. CASE UNCHANGED work
  BY <1>0, <1>6 DEF WorkShape, At
<1> QED
  BY <1>0, <1>2, <1>3, <1>4, <1>5, <1>6, WorkMoves, CallsAssumption

LEMMA NoticeKeyIs ==
    ASSUME Shape, NEW p \in Process, At(p, "announce")
    PROVE  NoticeKey(p) \in Family \X Reason \X Days
<1>1. FamilyAt(p) \in Family /\ work[p].reason \in Reason /\ Day(now) \in Days
  BY FamilyIs, DayIs DEF Shape, TimeShape, WorkShape, At
<1> QED
  BY <1>1 DEF NoticeKey

LEMMA NoticeShapeStep == Shape /\ [Next]_vars => NoticeShape'
<1> SUFFICES ASSUME Shape, [Next]_vars PROVE NoticeShape'
  OBVIOUS
<1> DEFINE Notice == [state : {"none", "receipted", "unsent"}, told : Nat]
           Keys == Family \X Reason \X Days
<1>1. notice \in [Keys -> Notice]
  BY DEF Shape, NoticeShape
<1>2. ASSUME NEW p \in Process, Announce(p) \/ AnnounceFails(p)
      PROVE  notice' \in [Keys -> Notice]
  <2>1. PICK k \in Keys : k = NoticeKey(p)
    BY <1>2, NoticeKeyIs DEF Announce, AnnounceFails
  <2>2. notice[k] \in Notice
    BY <1>1, <2>1
  <2>3. PICK n \in {"receipted", "unsent"}, t \in {notice[k].told, notice[k].told + 1} :
          notice' = notice \/ notice' = [notice EXCEPT ![k] = [state |-> n, told |-> t]]
    BY <1>1, <1>2, <2>1 DEF Announce, AnnounceFails
  <2>4. [state |-> n, told |-> t] \in Notice
    BY <2>2, <2>3
  <2> QED
    BY <1>1, <2>1, <2>3, <2>4
<1>3. notice' \in [Keys -> Notice]
  BY <1>1, <1>2, Writers
<1> QED
  BY <1>3 DEF NoticeShape

\* What a step does to the records and to the close.
LEMMA CloseMoves ==
    ASSUME Shape, [Next]_vars
    PROVE  \/ UNCHANGED close
           \/ StartClose \/ NextFamily \/ Attempt
           \/ /\ Ending(Closer) /\ ~At(Closer, "idle")
              /\ \/ close' = [close EXCEPT !.on = FALSE, !.day = @ - 1] /\ Crash(Closer)
                 \/ close' = [close EXCEPT !.list = Broken(@)]
                 \/ Save(Closer) /\ close' = [close EXCEPT !.list = @ \ {work[Closer].event}]
<1>1. ASSUME NEW p \in Process, Ending(p), ~UNCHANGED close
      PROVE  /\ p = Closer /\ ~At(Closer, "idle")
             /\ \/ close' = [close EXCEPT !.on = FALSE, !.day = @ - 1] /\ Crash(Closer)
                \/ close' = [close EXCEPT !.list = Broken(@)]
                \/ Save(Closer) /\ close' = [close EXCEPT !.list = @ \ {work[Closer].event}]
  BY <1>1 DEF Ending, Announce, AnnounceFails, Save, Crash, Conclude, At
<1> QED
  BY <1>1, Writers

LEMMA RecordShapeStep == Shape /\ [Next]_vars => RecordShape'
<1> SUFFICES ASSUME Shape, [Next]_vars PROVE RecordShape'
  OBVIOUS
<1>0. WorkShape /\ RecordShape /\ now \in Nat /\ Day(now) \in Int /\ Families \in Nat \ {0}
  BY DayIs, CallsAssumption DEF Shape, TimeShape, Days
<1>1. /\ pending' \subseteq Event
      /\ created' \in [at : [Event -> Nat], latest : Nat]
      /\ done' \subseteq Event
  <2>1. ASSUME NEW e \in Event, Receive(e), UNCHANGED <<done, close>>
        PROVE  /\ pending' \subseteq Event
               /\ created' \in [at : [Event -> Nat], latest : Nat]
    <3>1. CASE Preserved(e)
      BY <1>0, <3>1 DEF Preserved, RecordShape
    <3>2. CASE UNCHANGED created /\ pending' \in {pending, pending \ {e}}
      BY <1>0, <3>2 DEF RecordShape
    <3> QED
      BY <2>1, <3>1, <3>2 DEF Receive
  <2>2. ASSUME Attempt PROVE pending' \subseteq Event
    BY <1>0, <2>2 DEF Attempt, RecordShape
  <2>3. ASSUME NEW p \in Process, Save(p)
        PROVE  pending' \subseteq Event /\ done' \subseteq Event
    BY <1>0, <2>3, FamilyIs DEF Save, RecordShape, At
  <2> QED
    BY <1>0, <2>1, <2>2, <2>3, Writers DEF RecordShape
<1>2. kept' \in [Event -> Nat]
  <2>1. ASSUME NEW p \in Process, Answer(p) PROVE kept' \in [Event -> Nat]
    BY <1>0, <2>1, FamilyIs DEF Answer, Keep, RecordShape, At
  <2> QED
    BY <1>0, <2>1, Writers DEF RecordShape
<1> DEFINE Closes == [family : Family \cup {0}, list : SUBSET Event, attempted : Nat,
                       on : BOOLEAN, day : Int]
<1>3. close' \in Closes /\ (close'.on => close'.family \in Family)
  <2>0. /\ close \in Closes /\ (close.on => close.family \in Family)
        /\ close.attempted + 1 \in Nat /\ close.day - 1 \in Int
    BY <1>0 DEF RecordShape
  <2> DEFINE Sound == close' \in Closes /\ (close'.on => close'.family \in Family)
  <2>1. CASE StartClose
    BY <1>0, <2>1 DEF StartClose, PendingOf, Family, RecordShape
  <2>2. ASSUME NEW list \in SUBSET Event, close' = [close EXCEPT !.list = list] PROVE Sound
    BY <2>0, <2>2
  <2>3. ASSUME NEW list \in SUBSET Event,
               close' = [close EXCEPT !.attempted = @ + 1, !.list = list]
        PROVE  Sound
    BY <2>0, <2>3
  <2>4. ASSUME NEW list \in SUBSET Event, close' = [close EXCEPT !.on = FALSE, !.list = list]
        PROVE  Sound
    BY <2>0, <2>4
  <2>5. ASSUME close' = [close EXCEPT !.on = FALSE, !.day = @ - 1] PROVE Sound
    BY <2>0, <2>5
  <2>6. CASE NextFamily
    <3>1. CASE close.family = Families
      BY <2>0, <2>6, <3>1 DEF NextFamily
    <3>2. CASE close.family # Families
      <4>1. close.family + 1 \in Family
        BY <1>0, <2>0, <2>6, <3>2 DEF NextFamily, Family
      <4>2. PendingOf(close.family + 1) \in SUBSET Event
        BY <1>0 DEF PendingOf, RecordShape
      <4>3. close' = [close EXCEPT !.family = @ + 1, !.list = PendingOf(close.family + 1)]
        BY <2>6, <3>2 DEF NextFamily
      <4> HIDE DEF Closes
      <4>4. PICK f \in Family, list \in SUBSET Event :
              close' = [close EXCEPT !.family = f, !.list = list]
        BY <4>1, <4>2, <4>3
      <4> QED
        BY <2>0, <4>4 DEF Closes
    <3> QED
      BY <3>1, <3>2
  <2>7. CASE Attempt
    <3>1. \/ close' = [close EXCEPT !.on = FALSE, !.list = {}]
          \/ \E list \in SUBSET Event : close' = [close EXCEPT !.attempted = @ + 1, !.list = list]
      BY <2>0, <2>7 DEF Attempt, Broken
    <3> QED
      BY <2>3, <2>4, <3>1
  <2>8. close.list \ {work[Closer].event} \in SUBSET Event /\ Broken(close.list) \in SUBSET Event
    BY <2>0 DEF Broken
  <2> HIDE DEF Sound
  <2>9. CASE UNCHANGED close
    BY <2>0, <2>9 DEF Sound
  <2>10. Sound
    BY <2>1, <2>2, <2>5, <2>6, <2>7, <2>8, <2>9, CloseMoves DEF Sound
  <2> QED
    BY <2>10 DEF Sound
<1> QED
  BY <1>1, <1>2, <1>3 DEF RecordShape

LEMMA ShapeStep == Shape /\ [Next]_vars => Shape'
  BY TimeShapeStep, MoneyShapeStep, HealthShapeStep, WorkShapeStep, NoticeShapeStep,
     RecordShapeStep DEF Shape

-----------------------------------------------------------------------------
(***************************************************************************)
(* Who works for a family, and what it spends.                             *)
(***************************************************************************)
LEMMA OneAtAFamilyStep == Shape /\ OneAtAFamily /\ [Next]_vars => OneAtAFamily'
<1> SUFFICES ASSUME Shape, OneAtAFamily, [Next]_vars PROVE OneAtAFamily'
  OBVIOUS
<1>0. /\ work \in [Process -> Work \cup {Idle}] /\ Family \subseteq Process
      /\ Closer \in Process \ Family /\ Idle.at = "idle" /\ FamilyOf \in [Event -> Family]
  BY IdleIs, CallsAssumption DEF Shape, WorkShape, Process, Family, Closer
<1> USE DEF OneAtAFamily, At, FamilyAt
<1>1. CASE UNCHANGED work
  BY <1>1
<1>2. ASSUME NEW p \in Process, ~At(p, "idle"), NEW w \in Work,
             work' = [work EXCEPT ![p] = w], w.event = work[p].event
      PROVE  OneAtAFamily'
  BY <1>0, <1>2
<1>3. ASSUME NEW p \in Process, work' = [work EXCEPT ![p] = Idle] PROVE OneAtAFamily'
  BY <1>0, <1>3
<1>4. ASSUME NEW e \in Event, ~Busy(FamilyOf[e]), NEW p \in {FamilyOf[e], Closer},
             work' = [work EXCEPT ![p] = Begin(e)]
      PROVE  OneAtAFamily'
  <2>1. Begin(e).event = e
    BY BeginIs DEF Shape
  <2>2. PICK w : w = Begin(e)
    OBVIOUS
  <2> QED
    BY <1>0, <1>4, <2>1, <2>2 DEF Busy
<1> QED
  BY <1>0, <1>1, <1>2, <1>3, <1>4, WorkMoves

\* The two rows of the day count up together.
LEMMA ReserveCounts ==
    ASSUME Shape, NEW p \in Process, Reserve(p), ~UNCHANGED <<used, asked, askedFor>>
    PROVE  \E d \in Days, f \in Family, e \in Event :
             /\ e = work[p].event /\ f # Everyone
             /\ used[d][f] < FamilyLimit /\ used[d][Everyone] < GlobalLimit
             /\ used' = [used EXCEPT ![d][f] = @ + 1, ![d][Everyone] = @ + 1]
             /\ asked' = [asked EXCEPT ![d][f] = @ + 1, ![d][Everyone] = @ + 1]
             /\ askedFor' = [askedFor EXCEPT ![e] = @ + 1]
             /\ work' = [work EXCEPT ![p].at = "call"]
<1>1. PICK d \in Days, f \in Family, e \in Event :
        d = Day(now) /\ f = FamilyAt(p) /\ e = work[p].event /\ f # Everyone
  BY ReserveIs
<1>2. /\ ~DayIsSpent(f)
      /\ used' = CountUp(used, f) /\ asked' = CountUp(asked, f)
      /\ askedFor' = [askedFor EXCEPT ![e] = @ + 1]
      /\ Goto(p, "call")
  BY <1>1 DEF Reserve
<1>3. used[d][f] \in Nat /\ used[d][Everyone] \in Nat /\ FamilyLimit \in Nat /\ GlobalLimit \in Nat
  BY CallsAssumption DEF Shape, MoneyShape
<1>4. used[d][f] < FamilyLimit /\ used[d][Everyone] < GlobalLimit
  BY <1>1, <1>2, <1>3 DEF DayIsSpent
<1>5. /\ used' = [used EXCEPT ![d][f] = @ + 1, ![d][Everyone] = @ + 1]
      /\ asked' = [asked EXCEPT ![d][f] = @ + 1, ![d][Everyone] = @ + 1]
      /\ work' = [work EXCEPT ![p].at = "call"]
  BY <1>1, <1>2 DEF CountUp, Goto
<1> QED
  BY <1>1, <1>2, <1>4, <1>5

LEMMA DayIsBoundedStep == Shape /\ DayIsBounded /\ [Next]_vars => DayIsBounded'
<1> SUFFICES ASSUME Shape, DayIsBounded, [Next]_vars PROVE DayIsBounded'
  OBVIOUS
<1>1. ASSUME NEW p \in Process, Reserve(p), ~UNCHANGED <<used, asked, askedFor>>
      PROVE  DayIsBounded'
  <2>1. PICK d \in Days, f \in Family :
          /\ f # Everyone
          /\ used[d][f] < FamilyLimit /\ used[d][Everyone] < GlobalLimit
          /\ used' = [used EXCEPT ![d][f] = @ + 1, ![d][Everyone] = @ + 1]
          /\ asked' = [asked EXCEPT ![d][f] = @ + 1, ![d][Everyone] = @ + 1]
    BY <1>1, ReserveCounts
  <2>2. used \in [Days -> [Family \cup {Everyone} -> Nat]] /\ FamilyLimit \in Nat
        /\ GlobalLimit \in Nat
    BY CallsAssumption DEF Shape, MoneyShape
  <2>3. ASSUME NEW n \in Nat, NEW m \in Nat, n < m PROVE n + 1 <= m
    BY <2>3
  <2>4. asked' = used'
    BY <2>1 DEF DayIsBounded
  <2>5. ASSUME NEW c \in Days
        PROVE  used'[c][Everyone] <= GlobalLimit /\ \A g \in Family : used'[c][g] <= FamilyLimit
    BY <2>1, <2>2, <2>3 DEF DayIsBounded
  <2> QED
    BY <2>4, <2>5 DEF DayIsBounded
<1> QED
  BY <1>1, Writers DEF DayIsBounded

\* Of a process that is about to reserve one of the day's calls for an event,
\* there is none other for it; and none before it has checked.
LEMMA OneReserving ==
    ASSUME Shape, OneAtAFamily, NEW p \in Process, ~At(p, "idle")
    PROVE  \A q \in Process : At(q, "reserve") /\ work[q].event = work[p].event => q = p
<1>1. ASSUME NEW q \in Process, At(q, "reserve"), work[q].event = work[p].event PROVE q = p
  BY <1>1 DEF OneAtAFamily, FamilyAt, At
<1> QED
  BY <1>1

\* What Check does to the allowance.
LEMMA CheckIs ==
    ASSUME Shape, NEW p \in Process, Check(p)
    PROVE  \E e \in Event :
             /\ e = work[p].event /\ At(p, "check")
             /\ \/ /\ UNCHANGED quota
                   /\ \E why \in Reason : Refuse(p, why)
                \/ /\ quota[e].used < MessageLimit
                   /\ quota' = [quota EXCEPT ![e] = Drawn(quota[e])]
                   /\ Goto(p, "reserve")
<1>1. PICK e \in Event : e = work[p].event
  BY FamilyIs DEF Shape, Check, At
<1> QED
  BY <1>1 DEF Check, QuotaAllows, Reason

\* Who is about to reserve after a step.
LEMMA ReservingMoves ==
    ASSUME Shape, OneAtAFamily, [Next]_vars, NEW e \in Event, Reserving(e)', ~Reserving(e)
    PROVE  \E p \in Process :
             /\ Check(p) /\ work[p].event = e
             /\ quota[e].used < MessageLimit /\ quota' = [quota EXCEPT ![e] = Drawn(quota[e])]
<1>1. PICK q \in Process : work'[q].at = "reserve" /\ work'[q].event = e
  BY DEF Reserving, At
<1>2. work'[q] # work[q]
  BY <1>1 DEF Reserving, At
<1>3. ASSUME NEW p \in Process, NEW w, work' = [work EXCEPT ![p] = w]
      PROVE  p = q /\ w.at = "reserve" /\ w.event = e
  BY <1>1, <1>2, <1>3 DEF Shape, WorkShape
<1>4. Idle.at # "reserve"
  BY DEF Idle
<1>5. \A x \in Event : Begin(x).at # "reserve"
  BY BeginIs DEF Shape
<1>6. PICK p \in Process : Working(p) /\ work'[p].at = "reserve" /\ work'[p].event = e
  BY <1>1, <1>2, <1>3, <1>4, <1>5, WorkMoves, CallsAssumption DEF Process
<1>7. work \in [Process -> Work \cup {Idle}] /\ work[p] \in Work
  BY <1>6, WorkingIs, IdleIs DEF Shape, WorkShape
<1>8. ~ \E why \in Reason : Refuse(p, why)
  <2>1. ASSUME NEW why \in Reason, Refuse(p, why) PROVE work'[p].at = "announce"
    BY <1>7, <2>1 DEF Refuse, Work
  <2> QED
    BY <1>6, <2>1
<1>9. ~ Proceed(p)
  BY <1>6, <1>7 DEF Proceed, Work
<1>10. ~ Goto(p, "call")
  BY <1>6, <1>7 DEF Goto, Work
<1>11. Check(p) /\ Goto(p, "reserve")
  BY <1>6, <1>8, <1>9, <1>10, WorkingIs
<1>12. work[p].event = e
  BY <1>6, <1>7, <1>11 DEF Goto
<1> QED
  BY <1>8, <1>11, <1>12, CheckIs

LEMMA AllowanceStep ==
    Shape /\ OneAtAFamily /\ AllowanceIsBounded /\ [Next]_vars => AllowanceIsBounded'
<1> SUFFICES ASSUME Shape, OneAtAFamily, AllowanceIsBounded, [Next]_vars,
                    NEW e \in Event
             PROVE  \E k \in Nat : AllowanceAt(e, k)'
  BY DEF AllowanceIsBounded
<1> DEFINE R == IF Reserving(e) THEN 1 ELSE 0
           S == IF Reserving(e)' THEN 1 ELSE 0
           L == MessageLimit
           T == QuotaTTL
           a == askedFor[e]
           q == quota[e]
<1>1. /\ L \in Nat \ {0} /\ T \in Nat \ {0} /\ a \in Nat /\ now \in Nat
      /\ q \in [used : Nat, expires : Nat] /\ R \in {0, 1} /\ S \in {0, 1}
  BY CallsAssumption DEF Shape, TimeShape, MoneyShape
<1>2. now' \in Nat /\ now <= now'
  BY <1>1, Writers DEF Tick
<1>1a. askedFor'[e] \in Nat
  BY MoneyShapeStep DEF MoneyShape
<1>3. PICK k \in Nat : AllowanceAt(e, k)
  BY DEF AllowanceIsBounded
<1>4. /\ a + R <= L * k + q.used /\ q.used <= L
      /\ IF q = NoQuota THEN k * T <= now
         ELSE (k + 1) * T <= q.expires /\ q.expires <= now + T
  BY <1>3 DEF AllowanceAt
\* How it is enough that the new numbers are.
<1>5. ASSUME NEW n \in Nat,
             askedFor'[e] + S <= L * n + quota'[e].used, quota'[e].used <= L,
             IF quota'[e] = NoQuota THEN n * T <= now'
             ELSE (n + 1) * T <= quota'[e].expires /\ quota'[e].expires <= now' + T
      PROVE  AllowanceAt(e, n)'
  BY <1>5 DEF AllowanceAt
<1> HIDE DEF R, S
\* An allowance that is not drawn on: it is as it was, or forgotten.
<1>6. ASSUME quota'[e] = q, askedFor'[e] + S <= a + R PROVE AllowanceAt(e, k)'
  <2>1. askedFor'[e] + S <= L * k + q.used
    <3>1. askedFor'[e] + S \in Nat
      BY <1>1, <1>1a
    <3> QED
      BY <1>1, <1>4, <1>6, <3>1
  <2>2. IF q = NoQuota THEN k * T <= now'
        ELSE (k + 1) * T <= q.expires /\ q.expires <= now' + T
    BY <1>1, <1>2, <1>4
  <2> QED
    BY <1>4, <1>5, <1>6, <2>1, <2>2
<1>7. ASSUME Expire(e), S <= R PROVE AllowanceAt(e, k + 1)'
  <2>1. /\ q # NoQuota /\ q.expires <= now /\ quota'[e] = NoQuota
        /\ askedFor'[e] = a
    BY <1>1, <1>7 DEF Expire, Shape, MoneyShape
  <2>2. L * (k + 1) = L * k + L /\ L * k \in Nat /\ (k + 1) * T \in Nat
    BY <1>1
  <2>3. a + S <= L * (k + 1) + 0
    BY <1>1, <1>4, <1>7, <2>2
  <2>4. (k + 1) * T <= now'
    BY <1>1, <1>2, <1>4, <2>1, <2>2
  <2> QED
    BY <1>1, <1>5, <2>1, <2>3, <2>4 DEF NoQuota
\* One that is drawn on, by the only process that can.
<1>8. ASSUME NEW p \in Process, Check(p), work[p].event = e,
             q.used < L, quota' = [quota EXCEPT ![e] = Drawn(q)]
      PROVE  AllowanceAt(e, k)'
  <2>1. R = 0
    BY <1>8, OneReserving DEF R, Reserving, Check, At
  <2>2. askedFor'[e] = a /\ quota'[e] = Drawn(q)
    BY <1>8 DEF Check, Shape, MoneyShape
  <2>3. /\ Drawn(q).used = q.used + 1 /\ Drawn(q) # NoQuota
        /\ Drawn(q).expires = IF q = NoQuota THEN now + T ELSE q.expires
    BY <1>1 DEF Drawn, NoQuota
  <2>4. L * k \in Nat /\ k * T \in Nat /\ (k + 1) * T = k * T + T
    BY <1>1
  <2>5. a + S <= L * k + Drawn(q).used /\ Drawn(q).used <= L
    BY <1>1, <1>4, <1>8, <2>1, <2>3, <2>4
  <2>6. (k + 1) * T <= Drawn(q).expires /\ Drawn(q).expires <= now' + T
    BY <1>1, <1>2, <1>4, <2>3, <2>4
  <2> QED
    BY <1>5, <2>2, <2>3, <2>5, <2>6
<1>9. ASSUME ~ \E p \in Process : /\ Check(p) /\ work[p].event = e /\ q.used < L
                                  /\ quota' = [quota EXCEPT ![e] = Drawn(q)]
      PROVE  S <= R /\ (Expire(e) \/ quota'[e] = q)
  <2>1. S <= R
    BY <1>9, ReservingMoves DEF R, S
  <2>2. ASSUME NEW x \in Event, Expire(x), x # e PROVE quota'[e] = q
    BY <2>2 DEF Expire, Shape, MoneyShape
  <2>3. ASSUME NEW p \in Process, Check(p) PROVE quota'[e] = q
    <3>1. PICK x \in Event :
            /\ x = work[p].event
            /\ \/ UNCHANGED quota
               \/ /\ quota[x].used < L
                  /\ quota' = [quota EXCEPT ![x] = Drawn(quota[x])]
      BY <2>3, CheckIs
    <3>2. CASE x = e
      BY <1>9, <2>3, <3>1, <3>2
    <3>3. CASE x # e
      BY <3>1, <3>3 DEF Shape, MoneyShape
    <3> QED
      BY <3>2, <3>3
  <2> QED
    BY <2>1, <2>2, <2>3, Writers
<1>10. ASSUME S <= R, quota'[e] = q PROVE askedFor'[e] + S <= a + R
  <2>1. CASE UNCHANGED askedFor
    BY <1>1, <1>10, <2>1
  <2>2. ASSUME NEW p \in Process, Reserve(p), ~UNCHANGED <<used, asked, askedFor>>
        PROVE  askedFor'[e] + S <= a + R
    <3>1. PICK x \in Event : /\ x = work[p].event /\ askedFor' = [askedFor EXCEPT ![x] = @ + 1]
                             /\ work' = [work EXCEPT ![p].at = "call"]
      BY <2>2, ReserveCounts
    <3>2. CASE x # e
      BY <1>1, <1>10, <3>1, <3>2 DEF Shape, MoneyShape
    <3>3. CASE x = e
      <4>1. R = 1
        BY <2>2, <3>1, <3>3 DEF R, Reserving, Reserve
      <4>2. ASSUME NEW r \in Process, At(r, "reserve")', work'[r].event = e PROVE FALSE
        <5>1. r # p /\ work'[r] = work[r]
          BY <3>1, <4>2, ReserveIs, IdleIs, <2>2 DEF At, Shape, WorkShape, Work
        <5> QED
          BY <2>2, <3>1, <3>3, <4>2, <5>1, OneReserving, ReserveIs DEF At
      <4>3. S = 0
        BY <4>2 DEF S, Reserving
      <4>4. askedFor'[e] = a + 1
        BY <3>1, <3>3 DEF Shape, MoneyShape
      <4> QED
        BY <1>1, <4>1, <4>3, <4>4
    <3> QED
      BY <3>2, <3>3
  <2> QED
    BY <2>1, <2>2, Writers
<1> QED
  BY <1>6, <1>7, <1>8, <1>9, <1>10

\* The calls of as many allowances as the time had room for.
LEMMA SpendIsBoundedLemma == Shape /\ DayIsBounded /\ AllowanceIsBounded => SpendIsBounded
<1> SUFFICES ASSUME Shape, DayIsBounded, AllowanceIsBounded PROVE SpendIsBounded
  OBVIOUS
<1>1. /\ MessageLimit \in Nat \ {0} /\ QuotaTTL \in Nat \ {0} /\ now \in Nat
      /\ quota \in [Event -> [used : Nat, expires : Nat]] /\ askedFor \in [Event -> Nat]
  BY CallsAssumption DEF Shape, TimeShape, MoneyShape
<1>2. ASSUME NEW e \in Event
      PROVE  askedFor[e] <= MessageLimit * (1 + now \div QuotaTTL)
  <2> DEFINE L == MessageLimit
             T == QuotaTTL
             D == now \div QuotaTTL
             a == askedFor[e]
  <2>1. PICK k \in Nat : AllowanceAt(e, k)
    BY DEF AllowanceIsBounded
  <2>2. D \in Nat
    BY <1>1
  <2>3. \A n, t, j \in Nat : t # 0 /\ j * t <= n => j <= n \div t
    OBVIOUS
  <2>4. \A j, m, l \in Nat : j <= m => l * j <= l * m
    OBVIOUS
  <2>5. k <= D /\ a <= L * k + L
    <3>1. a <= L * k + quota[e].used /\ quota[e].used <= L /\ L * k \in Nat
          /\ quota[e].used \in Nat /\ a \in Nat
      BY <1>1, <2>1 DEF AllowanceAt
    <3>2. k * T <= now
      <4>1. CASE quota[e] = NoQuota
        BY <2>1, <4>1 DEF AllowanceAt
      <4>2. CASE quota[e] # NoQuota
        <5>1. (k + 1) * T <= quota[e].expires /\ quota[e].expires <= now + T
          BY <2>1, <4>2 DEF AllowanceAt
        <5>2. (k + 1) * T = k * T + T /\ k * T \in Nat /\ quota[e].expires \in Nat
          BY <1>1
        <5> QED
          BY <1>1, <5>1, <5>2
      <4> QED
        BY <4>1, <4>2
    <3>3. k <= D
      BY <1>1, <2>3, <3>2
    <3>4. a <= L * k + L
      BY <1>1, <3>1
    <3> QED
      BY <3>3, <3>4
  <2> HIDE DEF D
  <2>6. L * (1 + D) = L * D + L /\ L * D \in Nat /\ L * k \in Nat /\ L * k <= L * D
    BY <1>1, <2>2, <2>4, <2>5
  <2>7. a <= L * (1 + D)
    BY <1>1, <2>5, <2>6
  <2> QED
    BY <2>7 DEF D
<1> QED
  BY <1>2 DEF SpendIsBounded, DayIsBounded

LEMMA ToldStep == Shape /\ Told /\ [Next]_vars => Told'
<1> SUFFICES ASSUME Shape, Told, [Next]_vars PROVE Told'
  OBVIOUS
<1> DEFINE Keys == Family \X Reason \X Days
           Notice == [state : {"none", "receipted", "unsent"}, told : Nat]
           Few(n, f) == n.told <= IF Delivered(n) THEN 1 + f ELSE f
<1>1. notice \in [Keys -> Notice] /\ faults \in Nat /\ DOMAIN notice = Keys
  BY DEF Shape, NoticeShape, TimeShape
<1>2. notice' \in [Keys -> Notice] /\ faults' \in Nat /\ DOMAIN notice' = Keys
  BY ShapeStep DEF Shape, NoticeShape, TimeShape
<1>3. \A k \in Keys : Few(notice[k], faults)
  BY <1>1 DEF Told
<1>4. faults <= faults'
  <2>1. ASSUME NEW p \in Process, AnnounceFails(p) \/ Crash(p) PROVE Fault
    BY <2>1 DEF AnnounceFails, Crash
  <2> QED
    BY <1>1, <2>1, Writers DEF Fault
<1>5. ASSUME NEW n \in Notice, Few(n, faults) PROVE Few(n, faults')
  BY <1>1, <1>2, <1>4, <1>5 DEF Delivered
<1>6. ASSUME NEW p \in Process, Announce(p), NEW k \in Keys PROVE Few(notice'[k], faults')
  <2>1. PICK key \in Keys : key = NoticeKey(p)
    BY <1>6, NoticeKeyIs DEF Announce
  <2>2. CASE Delivered(notice[key])
    BY <1>1, <1>3, <1>5, <1>6, <2>1, <2>2 DEF Announce
  <2>3. CASE ~Delivered(notice[key])
    <3>1. notice' = [notice EXCEPT ![key] = [state |-> "receipted", told |-> notice[key].told + 1]]
      BY <1>1, <1>6, <2>1, <2>3 DEF Announce
    <3>2. notice[key].told <= faults /\ notice[key].told \in Nat
      BY <1>1, <1>3, <2>1, <2>3
    <3>3. CASE k = key
      BY <1>1, <1>2, <1>4, <3>1, <3>2, <3>3 DEF Delivered
    <3>4. CASE k # key
      BY <1>1, <1>3, <1>5, <3>1, <3>4
    <3> QED
      BY <3>3, <3>4
  <2> QED
    BY <2>2, <2>3
<1>7. ASSUME NEW p \in Process, AnnounceFails(p), NEW k \in Keys PROVE Few(notice'[k], faults')
  <2>1. PICK key \in Keys : key = NoticeKey(p)
    BY <1>7, NoticeKeyIs DEF AnnounceFails
  <2>2. notice[key].told <= faults /\ notice[key].told \in Nat /\ faults' = faults + 1
    BY <1>1, <1>3, <1>7, <2>1 DEF AnnounceFails, Fault
  <2>3. PICK t \in {notice[key].told, notice[key].told + 1} :
          notice' = [notice EXCEPT ![key] = [state |-> "unsent", told |-> t]]
    BY <1>7, <2>1 DEF AnnounceFails
  <2>4. CASE k = key
    BY <1>1, <1>2, <2>2, <2>3, <2>4 DEF Delivered
  <2>5. CASE k # key
    BY <1>1, <1>3, <1>5, <2>3, <2>5
  <2> QED
    BY <2>4, <2>5
<1>8. ASSUME UNCHANGED notice, NEW k \in Keys PROVE Few(notice'[k], faults')
  BY <1>1, <1>3, <1>5, <1>8
<1> HIDE DEF Few
<1>9. \A k \in Keys : Few(notice'[k], faults')
  BY <1>6, <1>7, <1>8, Writers
<1> USE DEF Few
<1> QED
  BY <1>2, <1>9 DEF Told, Delivered

LEMMA ToldOnceADayLemma == Shape /\ Told => ToldOnceADay
<1> SUFFICES ASSUME Shape, Told, NEW k \in DOMAIN notice PROVE notice[k].told <= 1 + faults
  BY DEF ToldOnceADay
<1>1. faults \in Nat /\ notice[k].told \in Nat
  BY DEF Shape, TimeShape, NoticeShape
<1> QED
  BY <1>1 DEF Told

-----------------------------------------------------------------------------
(***************************************************************************)
(* The breakers and the outages.                                           *)
(***************************************************************************)
LEMMA BreakersKnowStep == Shape /\ BreakersKnow /\ Admitted /\ [Next]_vars => BreakersKnow'
<1> SUFFICES ASSUME Shape, BreakersKnow, Admitted, [Next]_vars PROVE BreakersKnow'
  OBVIOUS
<1> DEFINE Knows(b, s, t) ==
             /\ b.state = "closed" => b.failures = s.failures /\ b.failures < Threshold
             /\ b.state = "open" => b.opened = s.last
             /\ b.state = "half_open" => t >= s.last + Recovery
<1>1. /\ breaker \in [Process -> [Role -> Breaker]] /\ streak \in [Process -> [Role -> Streak]]
      /\ WorkShape /\ TimeShape
  BY DEF Shape, HealthShape, Breaker, Streak
<1>2. /\ now \in Nat /\ Threshold \in Nat \ {0} /\ Recovery \in Nat \ {0}
      /\ now' \in Nat /\ now <= now'
  BY TimeShapeStep, Writers, CallsAssumption DEF Shape, TimeShape, Tick
<1>3. \A p \in Process, r \in Role : Knows(breaker[p][r], streak[p][r], now)
  BY DEF BreakersKnow
<1>4. ASSUME NEW b \in Breaker, NEW s \in Streak, Knows(b, s, now) PROVE Knows(b, s, now')
  BY <1>2, <1>4 DEF Breaker, Streak
<1>5. ASSUME NEW b \in Breaker, NEW s \in Streak, Knows(b, s, now)
      PROVE  Knows(Allowed(b), s, now')
  BY <1>2, <1>5 DEF Allowed, Recovered, Breaker, Streak
<1>6. Knows(Healthy, NoStreak, now')
  BY <1>2 DEF Healthy, NoStreak
<1>7. ASSUME NEW b \in Breaker, NEW s \in Streak, Knows(b, s, now), b.state # "open"
      PROVE  /\ Succeeded(b) = Healthy
             /\ Knows(Failed(b),
                      [failures |-> Min({s.failures + 1, Threshold}), last |-> now], now')
  <2>1. Succeeded(b) = Healthy
    BY <1>7 DEF Succeeded
  <2>2. s.failures + 1 \in Nat /\ b.failures + 1 \in Nat
    BY DEF Breaker, Streak
  <2>3. /\ b.state = "closed" => Min({b.failures + 1, Threshold}) = Min({s.failures + 1, Threshold})
        /\ Min({s.failures + 1, Threshold}) \in Nat /\ Min({b.failures + 1, Threshold}) \in Nat
    BY <1>2, <1>7, <2>2, MinIs
  <2>4. b.state \in {"closed", "half_open"}
    BY <1>7 DEF Breaker
  <2>5. Knows(Failed(b), [failures |-> Min({s.failures + 1, Threshold}), last |-> now], now')
    <3> DEFINE n == Min({b.failures + 1, Threshold})
               m == Min({s.failures + 1, Threshold})
    <3>1. n \in Nat /\ m \in Nat /\ (b.state = "closed" => n = m)
      BY <2>3
    <3> HIDE DEF n, m
    <3>2. Failed(b) = IF b.state = "half_open" \/ n >= Threshold
                      THEN [state |-> "open", failures |-> n, opened |-> now]
                      ELSE [b EXCEPT !.failures = n]
      BY DEF Failed, n
    <3>3. Knows(Failed(b), [failures |-> m, last |-> now], now')
      BY <1>2, <2>4, <3>1, <3>2 DEF Breaker
    <3> QED
      BY <3>3 DEF m
  <2> QED
    BY <2>1, <2>5
<1> HIDE DEF Knows
<1> SUFFICES ASSUME NEW q \in Process, NEW r \in Role
             PROVE  Knows(breaker'[q][r], streak'[q][r], now')
  BY DEF BreakersKnow, Knows
<1>8. CASE UNCHANGED <<breaker, streak>>
  BY <1>1, <1>3, <1>4, <1>8
<1>9. ASSUME NEW p \in Process, Check(p), UNCHANGED streak
      PROVE  Knows(breaker'[q][r], streak'[q][r], now')
  <2>1. breaker'[q][r] \in {breaker[q][r], Allowed(breaker[q][r])}
    BY <1>1, <1>9 DEF Check
  <2> QED
    BY <1>1, <1>3, <1>4, <1>5, <1>9, <2>1
<1>10. ASSUME NEW p \in Process, NEW success \in BOOLEAN, At(p, "call"), After(p, success)
       PROVE  Knows(breaker'[q][r], streak'[q][r], now')
  <2>1. CASE q = p /\ r = RoleAt(p)
    <3>1. breaker[q][r].state # "open"
      BY <1>10, <2>1 DEF Admitted, At
    <3>2. CASE success
      BY <1>1, <1>3, <1>6, <1>7, <1>10, <2>1, <3>1, <3>2 DEF After
    <3>3. CASE ~success
      BY <1>1, <1>3, <1>7, <1>10, <2>1, <3>1, <3>3 DEF After
    <3> QED
      BY <3>2, <3>3
  <2>2. CASE ~ (q = p /\ r = RoleAt(p))
    <3>1. breaker'[q][r] = breaker[q][r] /\ streak'[q][r] = streak[q][r]
      BY <1>1, <1>10, <2>2 DEF After
    <3> QED
      BY <1>1, <1>3, <1>4, <3>1
  <2> QED
    BY <2>1, <2>2
<1>11. ASSUME NEW p \in Process, Crash(p)
       PROVE  Knows(breaker'[q][r], streak'[q][r], now')
  <2>1. \/ breaker'[q][r] = Healthy /\ streak'[q][r] = NoStreak
        \/ breaker'[q][r] = breaker[q][r] /\ streak'[q][r] = streak[q][r]
    BY <1>1, <1>11 DEF Crash
  <2> QED
    BY <1>1, <1>3, <1>4, <1>6, <2>1
<1> QED
  BY <1>8, <1>9, <1>10, <1>11, HealthWriters

\* A process that is to make a call was there before, or has asked its breaker.
LEMMA AdmittedMoves ==
    ASSUME Shape, [Next]_vars, NEW q \in Process, work'[q].at \in {"reserve", "call"}
    PROVE  \/ work'[q] = work[q] /\ breaker'[q] = breaker[q]
           \/ Check(q) /\ Goto(q, "reserve")
           \/ Reserve(q) /\ Goto(q, "call")
<1>1. /\ work \in [Process -> Work \cup {Idle}]
      /\ breaker \in [Process -> [Role -> Breaker]]
  BY DEF Shape, WorkShape, HealthShape, Breaker
<1>2. ASSUME NEW p \in Process, Working(p) PROVE work[p] \in Work
  BY <1>2, WorkingIs, IdleIs DEF Shape
<1>3. ASSUME NEW why \in Reason, Refuse(q, why), Working(q) PROVE FALSE
  <2>1. work'[q].at = "announce"
    BY <1>1, <1>2, <1>3 DEF Refuse, Work
  <2> QED
    BY <2>1
<1>4. ASSUME Proceed(q), Working(q) PROVE FALSE
  BY <1>1, <1>2, <1>4 DEF Proceed, Work
<1>5. CASE Working(q)
  BY <1>3, <1>4, <1>5, WorkingIs
<1>6. CASE Ending(q)
  <2>1. work'[q] = Idle
    BY <1>1, <1>6 DEF Ending, Announce, AnnounceFails, Save, Crash, Conclude
  <2> QED
    BY <2>1 DEF Idle
<1>7. CASE ~Working(q) /\ ~Ending(q)
  <2>1. breaker'[q] = breaker[q]
    <3>1. ASSUME NEW p \in Process, Check(p), p # q PROVE breaker'[q] = breaker[q]
      BY <1>1, <3>1 DEF Check
    <3>2. ASSUME NEW p \in Process, Answer(p) \/ AnswerBadly(p) \/ Unavailable(p), p # q
          PROVE  breaker'[q] = breaker[q]
      BY <1>1, <3>2 DEF Answer, AnswerBadly, Unavailable, After
    <3>3. ASSUME NEW p \in Process, Crash(p), p # q PROVE breaker'[q] = breaker[q]
      BY <1>1, <3>3 DEF Crash
    <3> QED
      BY <1>7, <3>1, <3>2, <3>3, Writers DEF Working, Ending
  <2>2. work'[q] = work[q]
    <3>1. ASSUME NEW p \in Process, NEW w, work' = [work EXCEPT ![p] = w], p # q
          PROVE  work'[q] = work[q]
      BY <1>1, <3>1
    <3>2. ASSUME NEW e \in Event, NEW p \in Process, work' = [work EXCEPT ![p] = Begin(e)]
          PROVE  p # q
      BY <1>1, <3>2, BeginIs DEF Shape
    <3> QED
      BY <1>7, <3>1, <3>2, WorkMoves, CallsAssumption DEF Process
  <2> QED
    BY <2>1, <2>2
<1> QED
  BY <1>5, <1>6, <1>7

LEMMA AdmittedStep == Shape /\ Admitted /\ [Next]_vars => Admitted'
<1> SUFFICES ASSUME Shape, Admitted, [Next]_vars,
                    NEW q \in Process, work'[q].at \in {"reserve", "call"}
             PROVE  breaker'[q][RoleAt(q)'].state # "open"
  BY DEF Admitted
<1>1. /\ work \in [Process -> Work \cup {Idle}] /\ WorkShape
      /\ breaker \in [Process -> [Role -> Breaker]]
  BY DEF Shape, WorkShape, HealthShape, Breaker
<1>2. CASE work'[q] = work[q] /\ breaker'[q] = breaker[q]
  BY <1>2 DEF Admitted, RoleAt
<1>3. ASSUME Goto(q, "reserve") \/ Goto(q, "call"), work[q].at \in {"check", "reserve"}
      PROVE  RoleAt(q)' = RoleAt(q)
  <2>1. work[q] \in Work
    BY <1>1, <1>3, IdleIs DEF At
  <2>2. work'[q].event = work[q].event /\ work'[q].step = work[q].step
    BY <1>1, <1>3, <2>1 DEF Goto, Work
  <2> QED
    BY <2>2 DEF RoleAt
<1>4. CASE Check(q) /\ Goto(q, "reserve")
  <2>1. RoleAt(q)' = RoleAt(q) /\ RoleAt(q) \in Role
    BY <1>1, <1>3, <1>4, RoleIs DEF Check, At
  <2>2. Allowed(breaker[q][RoleAt(q)]).state # "open"
    <3>1. ASSUME NEW why \in Reason, Refuse(q, why) PROVE FALSE
      <4>1. work[q] \in Work
        BY <1>1, <1>4, IdleIs DEF Check, At
      <4>2. work'[q].at = "announce"
        BY <1>1, <3>1, <4>1 DEF Refuse, Work
      <4> QED
        BY <4>2
    <3> QED
      BY <1>4, <3>1 DEF Check, Reason
  <2>3. breaker'[q][RoleAt(q)] = Allowed(breaker[q][RoleAt(q)])
    BY <1>1, <1>4, <2>1 DEF Check
  <2> QED
    BY <2>1, <2>2, <2>3
<1>5. CASE Reserve(q) /\ Goto(q, "call")
  <2>1. RoleAt(q)' = RoleAt(q) /\ breaker' = breaker
    BY <1>3, <1>5 DEF Reserve, At, health
  <2> QED
    BY <1>5, <2>1 DEF Admitted, Reserve, At
<1> QED
  BY <1>2, <1>4, <1>5, AdmittedMoves

\* A breaker that is half open waited; one that is closed has seen fewer failures.
LEMMA OutageIsLeftAloneLemma == Shape /\ BreakersKnow /\ Admitted => OutageIsLeftAlone
<1> SUFFICES ASSUME Shape, BreakersKnow, Admitted, NEW p \in Process,
                    work[p].at \in {"reserve", "call"},
                    streak[p][RoleAt(p)].failures = Threshold
             PROVE  now >= streak[p][RoleAt(p)].last + Recovery
  BY DEF OutageIsLeftAlone
<1>1. RoleAt(p) \in Role
  BY RoleIs DEF Shape
<1>2. breaker[p][RoleAt(p)].state \in {"closed", "half_open"}
  BY <1>1 DEF Admitted, Shape, HealthShape
<1>3. breaker[p][RoleAt(p)].state # "closed"
  <2>1. ASSUME NEW n, n = streak[p][RoleAt(p)].failures, n < Threshold PROVE FALSE
    BY <2>1, CallsAssumption
  <2> QED
    BY <1>1, <2>1 DEF BreakersKnow
<1> QED
  BY <1>1, <1>2, <1>3 DEF BreakersKnow

-----------------------------------------------------------------------------
(***************************************************************************)
(* The order of the recovery.                                              *)
(***************************************************************************)
\* What becomes of the pending records.
LEMMA PendingMoves ==
    ASSUME Shape, [Next]_vars
    PROVE  \/ UNCHANGED <<pending, created, done>>
           \/ \E e \in Event :
                /\ Receive(e) /\ UNCHANGED <<done, close>>
                /\ \/ UNCHANGED <<pending, created>>
                   \/ /\ ~Busy(FamilyOf[e]) /\ e \in done
                      /\ pending' = pending \ {e} /\ UNCHANGED created
                   \/ ~Busy(FamilyOf[e]) /\ e \notin done /\ Preserved(e)
           \/ /\ Attempt /\ UNCHANGED <<created, done>>
              /\ \/ UNCHANGED pending
                 \/ \E e \in done : pending' = pending \ {e}
           \/ \E p \in Process :
                /\ Save(p) /\ UNCHANGED created
                /\ done' = done \cup {work[p].event} /\ pending' = pending \ {work[p].event}
<1>1. ASSUME NEW e \in Event, Receive(e)
      PROVE  \/ UNCHANGED <<pending, created>>
             \/ /\ ~Busy(FamilyOf[e]) /\ e \in done
                /\ pending' = pending \ {e} /\ UNCHANGED created
             \/ ~Busy(FamilyOf[e]) /\ e \notin done /\ Preserved(e)
  BY <1>1 DEF Receive
<1>2. ASSUME Attempt
      PROVE  UNCHANGED pending \/ \E e \in done : pending' = pending \ {e}
  BY <1>2 DEF Attempt
<1>3. ASSUME NEW p \in Process, Save(p)
      PROVE  done' = done \cup {work[p].event} /\ pending' = pending \ {work[p].event}
  BY <1>3 DEF Save
<1> QED
  BY <1>1, <1>2, <1>3, Writers

\* A record that is put is younger than every other.
LEMMA PreservedIs ==
    ASSUME Shape, CreatedInOrder, NEW e \in Event, Preserved(e), e \notin pending
    PROVE  /\ pending' = pending \cup {e}
           /\ created'.latest = created.latest + 1 /\ created'.at[e] = created.latest + 1
           /\ \A x \in Event \ {e} : /\ created'.at[x] = created.at[x]
                                     /\ created.at[x] \in Nat /\ created.at[x] <= created.latest
           /\ created.latest \in Nat
  BY DEF Preserved, CreatedInOrder, Shape, RecordShape

LEMMA CreatedInOrderStep == Shape /\ CreatedInOrder /\ [Next]_vars => CreatedInOrder'
<1> SUFFICES ASSUME Shape, CreatedInOrder, [Next]_vars PROVE CreatedInOrder'
  OBVIOUS
<1>1. pending \subseteq Event
  BY DEF Shape, RecordShape
<1>2. ASSUME NEW e \in Event, Preserved(e) PROVE CreatedInOrder'
  <2>1. CASE e \in pending
    BY <1>2, <2>1 DEF Preserved, CreatedInOrder
  <2>2. CASE e \notin pending
    <3>1. \A x \in Event : created'.at[x] <= created'.latest
      BY <1>2, <2>2, PreservedIs
    <3>2. ASSUME NEW x \in pending', NEW y \in pending', created'.at[x] = created'.at[y]
          PROVE  x = y
      <4>1. x \in pending \cup {e} /\ y \in pending \cup {e}
        BY <1>2, <2>2, PreservedIs
      <4>2. CASE x = e /\ y # e
        BY <1>1, <1>2, <2>2, <3>2, <4>1, <4>2, PreservedIs
      <4>3. CASE x # e /\ y = e
        BY <1>1, <1>2, <2>2, <3>2, <4>1, <4>3, PreservedIs
      <4>4. CASE x # e /\ y # e
        BY <1>1, <1>2, <2>2, <3>2, <4>1, <4>4, PreservedIs DEF CreatedInOrder
      <4> QED
        BY <4>2, <4>3, <4>4
    <3> QED
      BY <3>1, <3>2 DEF CreatedInOrder
  <2> QED
    BY <2>1, <2>2
<1>3. ASSUME UNCHANGED created, pending' \subseteq pending PROVE CreatedInOrder'
  BY <1>3 DEF CreatedInOrder
<1> QED
  BY <1>2, <1>3, PendingMoves

LEMMA ListIsOldestStep ==
    Shape /\ CreatedInOrder /\ ListIsOldest /\ [Next]_vars => ListIsOldest'
<1> SUFFICES ASSUME Shape, CreatedInOrder, ListIsOldest, [Next]_vars PROVE ListIsOldest'
  OBVIOUS
<1>0. /\ pending \subseteq Event /\ done \subseteq Event /\ close.list \subseteq Event
      /\ close \in [family : Family \cup {0}, list : SUBSET Event, attempted : Nat,
                    on : BOOLEAN, day : Int]
  BY DEF Shape, RecordShape
\* A list is cut, and what leaves it is not pending any longer.
<1>1. ASSUME close'.family = close.family, close'.list \subseteq close.list,
             close'.list = {} \/ close.list \cap pending' \subseteq close'.list,
             UNCHANGED created, pending' \subseteq pending, pending \subseteq pending' \cup done',
             done \subseteq done'
      PROVE  ListIsOldest'
  BY <1>1 DEF ListIsOldest, PendingOf
\* A list is made of what is pending.
<1>2. ASSUME close'.list = PendingOf(close'.family), UNCHANGED <<created, pending>>
      PROVE  ListIsOldest'
  BY <1>2 DEF ListIsOldest, PendingOf
<1>3. ASSUME NEW e \in Event, Receive(e), UNCHANGED <<done, close>> PROVE ListIsOldest'
  <2>1. CASE UNCHANGED <<pending, created>>
    BY <1>3, <2>1 DEF ListIsOldest, PendingOf
  <2>2. CASE e \in done /\ pending' = pending \ {e} /\ UNCHANGED created
    BY <1>1, <1>3, <2>2
  <2>3. CASE e \notin done /\ Preserved(e)
    <3>1. CASE e \in pending
      <4>1. UNCHANGED <<pending, created>>
        BY <2>3, <3>1 DEF Preserved
      <4> QED
        BY <2>1, <4>1
    <3>2. CASE e \notin pending
      <4>1. e \notin close.list
        BY <2>3, <3>2 DEF ListIsOldest
      <4>2. ASSUME NEW x \in close.list
            PROVE  FamilyOf[x] = close.family /\ x \in pending' \cup done'
        BY <1>3, <2>3, <3>2, PreservedIs DEF ListIsOldest
      <4>3. ASSUME NEW x \in pending', FamilyOf[x] = close.family, NEW y \in close.list,
                   created'.at[x] < created'.at[y]
            PROVE  x \in close.list
        <5>1. y \in Event /\ y # e /\ x \in pending \cup {e}
          BY <1>0, <2>3, <3>2, <4>1, <4>3, PreservedIs
        <5>2. CASE x = e
          BY <2>3, <3>2, <4>3, <5>1, <5>2, PreservedIs
        <5>3. CASE x # e
          <6>1. x \in pending /\ created'.at[x] = created.at[x] /\ created'.at[y] = created.at[y]
            BY <1>0, <2>3, <3>2, <5>1, <5>3, PreservedIs
          <6> QED
            BY <4>3, <6>1 DEF ListIsOldest, PendingOf
        <5> QED
          BY <5>2, <5>3
      <4> QED
        BY <1>3, <4>2, <4>3 DEF ListIsOldest, PendingOf
    <3> QED
      BY <3>1, <3>2
  <2> QED
    BY <1>3, <2>1, <2>2, <2>3 DEF Receive
<1>4. CASE StartClose
  <2>1. close'.family = 1 /\ close'.list = PendingOf(1) /\ UNCHANGED <<created, pending>>
    BY <1>4 DEF StartClose, records
  <2> QED
    BY <1>2, <2>1
<1>5. CASE NextFamily
  <2>1. UNCHANGED <<created, pending, done>>
    BY <1>5 DEF NextFamily, records
  <2>2. CASE close.family = Families
    BY <1>0, <1>1, <1>5, <2>1, <2>2 DEF NextFamily
  <2>3. CASE close.family # Families
    BY <1>0, <1>2, <1>5, <2>1, <2>3 DEF NextFamily
  <2> QED
    BY <2>2, <2>3
<1>6. CASE Attempt
  <2>1. UNCHANGED <<created, done>> /\ close'.family = close.family
    BY <1>0, <1>6 DEF Attempt
  <2>2. \/ close'.list = {} /\ UNCHANGED pending
        \/ close'.list = close.list /\ UNCHANGED pending
        \/ \E e \in done : close'.list = close.list \ {e} /\ pending' = pending \ {e}
    BY <1>0, <1>6 DEF Attempt, Broken
  <2> QED
    BY <1>1, <2>1, <2>2
<1>7. ASSUME NEW p \in Process, Ending(p) PROVE ListIsOldest'
  <2>1. /\ UNCHANGED created
        /\ \/ UNCHANGED <<pending, done>>
           \/ Save(p) /\ pending' = pending \ {work[p].event} /\ done' = done \cup {work[p].event}
    BY <1>7 DEF Ending, Announce, AnnounceFails, Save, Crash, records
  <2>2. \/ close'.list = close.list
        \/ close'.list = {}
        \/ p = Closer /\ Save(p) /\ close'.list = close.list \ {work[p].event}
    BY <1>0, <1>7 DEF Ending, Announce, AnnounceFails, Save, Crash, Conclude, Broken
  <2>3. close'.family = close.family
    BY <1>0, <1>7 DEF Ending, Announce, AnnounceFails, Save, Crash, Conclude
  <2>4. Save(p) => pending' = pending \ {work[p].event}
    BY DEF Save
  <2> QED
    BY <1>1, <2>1, <2>2, <2>3, <2>4
<1>8. CASE UNCHANGED <<pending, created, done, close>>
  BY <1>8 DEF ListIsOldest, PendingOf
<1> QED
  BY <1>3, <1>4, <1>5, <1>6, <1>7, <1>8, Writers DEF Ending

LEMMA CloserIsFirstStep ==
    /\ Shape /\ OneAtAFamily /\ CreatedInOrder /\ ListIsOldest /\ CloserIsFirst
    /\ [Next]_vars
    => CloserIsFirst'
<1> SUFFICES ASSUME Shape, OneAtAFamily, CreatedInOrder, ListIsOldest, CloserIsFirst,
                    [Next]_vars, ~At(Closer, "idle")'
             PROVE  CloserIsFirst'
  BY DEF CloserIsFirst
<1>0. /\ pending \subseteq Event /\ done \subseteq Event /\ close.list \subseteq Event
      /\ close \in [family : Family \cup {0}, list : SUBSET Event, attempted : Nat,
                    on : BOOLEAN, day : Int]
      /\ work \in [Process -> Work \cup {Idle}] /\ Closer \in Process
      /\ FamilyOf \in [Event -> Family]
  BY CallsAssumption DEF Shape, RecordShape, WorkShape, Process
<1>1. \/ /\ ~At(Closer, "idle") /\ work'[Closer].event = work[Closer].event /\ ~Ending(Closer)
      \/ /\ At(Closer, "idle") /\ Attempt /\ close.list # {} /\ UNCHANGED pending
         /\ close' = [close EXCEPT !.attempted = @ + 1]
         /\ work'[Closer].event = Oldest(close.list) /\ Oldest(close.list) \notin done
  <2>1. ~Ending(Closer)
    <3>1. ASSUME Ending(Closer) PROVE work'[Closer] = Idle
      BY <1>0, <3>1 DEF Ending, Announce, AnnounceFails, Save, Crash, Conclude
    <3> QED
      BY <3>1, IdleIs DEF At
  <2>2. ASSUME NEW p \in Process, ~At(p, "idle"), NEW w \in Work,
               work' = [work EXCEPT ![p] = w], w.event = work[p].event
        PROVE  work'[Closer].event = work[Closer].event /\ (At(Closer, "idle") => p # Closer)
    BY <1>0, <2>2
  <2>3. ASSUME NEW p \in Process, p # Closer, NEW w, work' = [work EXCEPT ![p] = w]
        PROVE  work'[Closer] = work[Closer]
    BY <1>0, <2>3
  <2>4. ASSUME NEW x \in Event, ~Busy(FamilyOf[x]), Attempt, x = Oldest(close.list), x \notin done,
               close.list # {}, At(Closer, "idle"), work' = [work EXCEPT ![Closer] = Begin(x)]
        PROVE  /\ UNCHANGED pending /\ close' = [close EXCEPT !.attempted = @ + 1]
               /\ work'[Closer].event = Oldest(close.list)
    <3>1. Begin(x).event = x /\ work'[Closer] = Begin(x)
      BY <1>0, <2>4, BeginIs DEF Shape
    <3>2. ~ UNCHANGED work
      BY <2>4 DEF At
    <3> QED
      BY <2>4, <3>1, <3>2 DEF Attempt
  <2>5. ~At(Closer, "idle") \/ work'[Closer] # work[Closer]
    BY DEF At
  <2>6. CASE \E p \in Process : /\ Working(p) /\ ~At(p, "idle")
                                /\ \E w \in Work : /\ work' = [work EXCEPT ![p] = w]
                                                   /\ w.event = work[p].event
    <3>1. PICK p \in Process, w \in Work :
            ~At(p, "idle") /\ work' = [work EXCEPT ![p] = w] /\ w.event = work[p].event
      BY <2>6
    <3> QED
      BY <2>1, <2>2, <2>3, <2>5, <3>1
  <2>7. CASE \E p \in Process : /\ Ending(p) /\ ~At(p, "idle")
                                /\ work' = [work EXCEPT ![p] = Idle]
    BY <2>1, <2>3, <2>5, <2>7
  <2>8. CASE UNCHANGED work
    BY <2>1, <2>5, <2>8
  <2>9. CASE \E x \in Event :
               /\ ~Busy(FamilyOf[x])
               /\ \/ /\ Receive(x) /\ x \notin done
                     /\ work' = [work EXCEPT ![FamilyOf[x]] = Begin(x)]
                  \/ /\ Attempt /\ x = Oldest(close.list) /\ x \notin done
                     /\ close.list # {} /\ At(Closer, "idle")
                     /\ work' = [work EXCEPT ![Closer] = Begin(x)]
    <3>1. \A x \in Event : FamilyOf[x] \in Process /\ FamilyOf[x] # Closer
      BY CallsAssumption DEF Process, Family, Closer
    <3> QED
      BY <2>1, <2>3, <2>4, <2>5, <2>9, <3>1
  <2> QED
    BY <2>6, <2>7, <2>8, <2>9, WorkMoves
<1>2. CASE /\ At(Closer, "idle") /\ Attempt /\ close.list # {} /\ UNCHANGED pending
           /\ close' = [close EXCEPT !.attempted = @ + 1]
           /\ work'[Closer].event = Oldest(close.list) /\ Oldest(close.list) \notin done
  <2>1. /\ UNCHANGED created /\ close.on /\ close'.on = close.on /\ close'.list = close.list
    BY <1>0, <1>2 DEF Attempt
  <2>2. /\ Oldest(close.list) \in close.list
        /\ \A x \in close.list : created.at[Oldest(close.list)] <= created.at[x]
    BY <1>0, <1>2, OldestIs DEF Shape
  <2>3. Oldest(close.list) \in pending
    BY <1>2, <2>2 DEF ListIsOldest
  <2> QED
    BY <1>2, <2>1, <2>2, <2>3 DEF CloserIsFirst
<1>3. CASE ~At(Closer, "idle") /\ work'[Closer].event = work[Closer].event /\ ~Ending(Closer)
  <2> DEFINE e == work[Closer].event
  <2>1. /\ close.on /\ e \in close.list /\ e \in pending /\ e \in Event
        /\ \A x \in close.list : created.at[e] <= created.at[x]
    BY <1>0, <1>3 DEF CloserIsFirst
  <2>2. UNCHANGED close
    BY <1>3, <2>1, CloseMoves DEF StartClose, NextFamily, Attempt
  <2>3. e \in pending'
    <3>1. ASSUME NEW x \in Event, ~Busy(FamilyOf[x]) PROVE x # e
      BY <1>0, <1>3, <3>1 DEF Busy, FamilyAt
    <3>2. ASSUME NEW p \in Process, Save(p) PROVE work[p].event # e
      BY <1>0, <1>3, <3>2 DEF Save, OneAtAFamily, FamilyAt, At, Ending
    <3>3. ~Attempt
      BY <1>3 DEF Attempt
    <3>4. \A x \in Event : Preserved(x) => pending \subseteq pending'
      BY DEF Preserved
    <3> QED
      BY <2>1, <3>1, <3>2, <3>3, <3>4, PendingMoves
  <2>4. \A x \in close.list : created'.at[x] = created.at[x]
    <3>1. ASSUME NEW x \in Event, x \notin done, Preserved(x), NEW y \in close.list
          PROVE  created'.at[y] = created.at[y]
      <4>1. CASE x \in pending
        BY <3>1, <4>1 DEF Preserved
      <4>2. CASE x \notin pending
        <5>1. y # x /\ y \in Event
          BY <1>0, <3>1, <4>2 DEF ListIsOldest
        <5> QED
          BY <3>1, <4>2, <5>1, PreservedIs
      <4> QED
        BY <4>1, <4>2
    <3> QED
      BY <3>1, PendingMoves
  <2> QED
    BY <1>3, <2>1, <2>2, <2>3, <2>4 DEF CloserIsFirst
<1> QED
  BY <1>1, <1>2, <1>3

LEMMA RecoveryKeepsOrderLemma == Shape /\ OrderInv => RecoveryKeepsOrder
<1> SUFFICES ASSUME Shape, OrderInv, ~At(Closer, "idle")
             PROVE  work[Closer].event = Oldest(PendingOf(FamilyAt(Closer)))
  BY DEF RecoveryKeepsOrder
<1> DEFINE e == work[Closer].event
           f == FamilyAt(Closer)
           o == Oldest(PendingOf(f))
<1>1. /\ e \in close.list /\ e \in pending /\ f = close.family
      /\ \A x \in close.list : created.at[e] <= created.at[x]
  BY DEF OrderInv, CloserIsFirst, ListIsOldest, FamilyAt
<1>2. pending \subseteq Event /\ \A x \in Event : created.at[x] \in Nat
  BY DEF Shape, RecordShape
<1>3. e \in PendingOf(f) /\ PendingOf(f) \subseteq pending
  BY <1>1 DEF PendingOf, FamilyAt
<1>4. o \in PendingOf(f) /\ created.at[o] <= created.at[e]
  BY <1>2, <1>3, OldestIs DEF Shape
<1>5. created.at[e] <= created.at[o]
  <2>1. created.at[o] < created.at[e] => o \in close.list
    BY <1>1, <1>4 DEF OrderInv, ListIsOldest
  <2> QED
    BY <1>1, <1>2, <1>3, <1>4, <2>1
<1>6. created.at[o] = created.at[e]
  BY <1>2, <1>3, <1>4, <1>5
<1> QED
  BY <1>3, <1>4, <1>6 DEF OrderInv, CreatedInOrder

-----------------------------------------------------------------------------
LEMMA InitIInv == Init => IInv
<1> SUFFICES ASSUME Init PROVE IInv
  OBVIOUS
<1>1. Idle.at = "idle" /\ \A p \in Process : work[p] = Idle
  BY DEF Idle, Init
<1>2. \A e \in Event : quota[e] = NoQuota /\ askedFor[e] = 0
  BY DEF Init
<1>3. Shape
  <2>1. TimeShape
    BY CallsAssumption DEF TimeShape, Init
  <2>2. MoneyShape
    BY DEF MoneyShape, Init, NoQuota
  <2>3. HealthShape
    BY CallsAssumption DEF HealthShape, Init, Healthy, NoStreak
  <2>4. WorkShape
    <3>1. work = [p \in Process |-> Idle]
      BY DEF Init
    <3> QED
      BY <1>1, <3>1 DEF WorkShape, At
  <2>5. NoticeShape
    <3>1. NoNotice \in [state : {"none", "receipted", "unsent"}, told : Nat]
      BY DEF NoNotice
    <3> QED
      BY <3>1 DEF NoticeShape, Init
  <2>6. RecordShape
    BY DEF RecordShape, Init, NoClose
  <2> QED
    BY <2>1, <2>2, <2>3, <2>4, <2>5, <2>6 DEF Shape
<1>4. OneAtAFamily
  BY <1>1 DEF OneAtAFamily, At, Process
<1>5. DayIsBounded
  BY CallsAssumption DEF DayIsBounded, Init
<1>6. AllowanceIsBounded
  <2>1. ASSUME NEW e \in Event PROVE AllowanceAt(e, 0)
    <3>1. ~Reserving(e)
      BY <1>1 DEF Reserving, At
    <3>2. MessageLimit \in Nat /\ now = 0 /\ 0 * QuotaTTL = 0 /\ MessageLimit * 0 = 0
      BY CallsAssumption DEF Init
    <3> QED
      BY <1>2, <3>1, <3>2 DEF AllowanceAt, NoQuota
  <2> QED
    BY <2>1 DEF AllowanceIsBounded
<1>7. Told
  <2>1. faults \in Nat
    BY <1>3 DEF Shape, TimeShape
  <2>2. \A k \in DOMAIN notice : notice[k] = NoNotice
    BY DEF Init
  <2> QED
    BY <2>1, <2>2 DEF Told, NoNotice, Delivered
<1>8. BreakersKnow
  BY CallsAssumption DEF BreakersKnow, Init, Healthy, NoStreak
<1>9. Admitted
  BY <1>1 DEF Admitted
<1>10. CreatedInOrder
  BY DEF CreatedInOrder, Init
<1>11. ListIsOldest
  BY DEF ListIsOldest, Init, NoClose, PendingOf
<1>12. CloserIsFirst
  BY <1>1 DEF CloserIsFirst, At, Process
<1> QED
  BY <1>3, <1>4, <1>5, <1>6, <1>7, <1>8, <1>9, <1>10, <1>11, <1>12
     DEF IInv, SpendInv, OrderInv

LEMMA IInvStep == IInv /\ [Next]_vars => IInv'
  BY ShapeStep, OneAtAFamilyStep, DayIsBoundedStep, AllowanceStep, ToldStep,
     BreakersKnowStep, AdmittedStep, CreatedInOrderStep, ListIsOldestStep, CloserIsFirstStep
     DEF IInv, SpendInv, OrderInv

LEMMA IInvHolds == Spec => []IInv
  BY InitIInv, IInvStep, PTL DEF Spec

-----------------------------------------------------------------------------
(***************************************************************************)
(* For every number of families, events and calls, every value of the      *)
(* limits, and every interleaving of the sessions and the close: the day's *)
(* ceilings and the message's allowance, which are reserved in two steps   *)
(* with other sessions between them, bound the calls that are made.        *)
(***************************************************************************)
THEOREM CallsAreBounded == Spec => []SpendIsBounded
<1>1. IInv => SpendIsBounded
  BY SpendIsBoundedLemma DEF IInv, SpendInv
<1> QED
  BY <1>1, IInvHolds, PTL

(***************************************************************************)
(* However many events, receives and recoveries meet a ceiling or an       *)
(* outage, the family is told of it once a day, and again only for a fault *)
(* of the channel.                                                         *)
(***************************************************************************)
THEOREM FamilyIsToldOnce == Spec => []ToldOnceADay
<1>1. IInv => ToldOnceADay
  BY ToldOnceADayLemma DEF IInv, SpendInv
<1> QED
  BY <1>1, IInvHolds, PTL

(***************************************************************************)
(* A process that has seen the threshold of failures in a row calls again  *)
(* only when the recovery time is over, and each failure then starts it    *)
(* anew.                                                                   *)
(***************************************************************************)
THEOREM BreakerHolds == Spec => []OutageIsLeftAlone
<1>1. IInv => OutageIsLeftAlone
  BY OutageIsLeftAloneLemma DEF IInv, SpendInv
<1> QED
  BY <1>1, IInvHolds, PTL

(***************************************************************************)
(* The event the close works for is the oldest its family has pending,     *)
(* whatever the family's session receives, preserves and saves meanwhile,  *)
(* and wherever the close died the days before.                            *)
(***************************************************************************)
THEOREM CloseKeepsOrder == Spec => []RecoveryKeepsOrder
<1>1. IInv => RecoveryKeepsOrder
  BY RecoveryKeepsOrderLemma DEF IInv, SpendInv
<1> QED
  BY <1>1, IInvHolds, PTL
=============================================================================
