----------------------------- MODULE ModelCalls -----------------------------
(***************************************************************************)
(* What a model call costs and who pays: the calls of the invocations that *)
(* run at a time, each admitted by the breaker of its process, by the      *)
(* allowance of its message and by the day's two ceilings, and what becomes *)
(* of the work when a call is refused or the provider is not there.        *)
(*                                                                         *)
(* A family's events run in the runtime session of the family, one at a    *)
(* time for the lease, and the daily close runs them in a session of its   *)
(* own.  Only what decides about calls is kept of an invocation; Invocation *)
(* models its leases and records.  Time goes in steps, TicksPerDay a day.  *)
(***************************************************************************)
EXTENDS Integers, Sequences, FiniteSetsExt

CONSTANTS Families,         \* how many: families 1..Families
          Event,
          FamilyOf,
          Calls,            \* the role of each call the handler of an event makes
          Keeps,            \* events whose handler keeps each answer it was given
          Role,
          MessageLimit,     \* message_llm_budget_calls: 24
          FamilyLimit,      \* daily_llm_budget_calls: 40
          GlobalLimit,      \* global_daily_llm_budget_calls: 400
          Threshold,        \* DEFAULT_FAILURE_THRESHOLD: 3
          Recovery,         \* BREAKER_RECOVERY_SECONDS
          QuotaTTL,         \* MESSAGE_QUOTA_TTL_SECONDS: two days
          TicksPerDay,
          MaxReceives,      \* queue_max_receive: 3
          MaxAttempts,      \* max_attempts of recover_pending: 20
          LastTime,         \* bound on the time
          MaxFaults,        \* bound on crashes and failed sends
          Loads             \* the events of a behaviour, and the faults it may meet

Family == 1..Families
Closer == 0
Process == Family \cup {Closer}

ASSUME CallsAssumption ==
    /\ Families \in Nat \ {0}
    /\ FamilyOf \in [Event -> Family]
    /\ Calls \in [Event -> Seq(Role)]
    /\ Keeps \subseteq Event
    /\ {MessageLimit, FamilyLimit, GlobalLimit, Threshold, Recovery, QuotaTTL,
        TicksPerDay, MaxReceives, MaxAttempts} \subseteq Nat \ {0}
    /\ {LastTime, MaxFaults} \subseteq Nat
    /\ Loads \subseteq [events : SUBSET Event, faults : 0..MaxFaults]

Day(t) == t \div TicksPerDay
Days == 0..Day(LastTime)

VARIABLES now,
          provider,         \* whether the provider is there, for a step of time
          used,             \* calls reserved by day: of each family, and of everyone
          quota,            \* of each event: calls reserved, and when that is forgotten
          breaker,          \* of each process and role
          work,             \* what each process is doing
          queue, receives,  \* the events, seen from the work queue
          pending,          \* events with a pending record
          created,          \* created_at of each such record, and of the latest
          done,             \* events with a result
          kept,             \* how many answers each handler kept
          notice,           \* the outbox record of each notice of a day
          close,            \* the recovery of the daily close
          asked,            \* history: calls made of each family by day, and of everyone
          askedFor,         \* history: calls made for each event
          streak,           \* history: failures in a row, and the last one's time
          faults

money == <<used, quota, asked, askedFor>>
health == <<breaker, streak>>
records == <<pending, created, done, kept>>
vars == <<now, provider, money, health, work, queue, receives, records, notice, close, faults>>

Everyone == 0
NoQuota == [used |-> 0, expires |-> 0]
NoStreak == [failures |-> 0, last |-> 0]
Healthy == [state |-> "closed", failures |-> 0, opened |-> 0]
Idle == [event |-> CHOOSE e \in Event : TRUE, at |-> "idle", step |-> 0, reason |-> "none",
         time |-> 0]
NoClose == [family |-> 0, list |-> {}, attempted |-> 0, on |-> FALSE, day |-> 0]
NoNotice == [state |-> "none", told |-> 0]

Reason == {"breaker_open", "message_ceiling", "daily_ceiling", "provider_unavailable"}
Spent == {"daily_ceiling", "message_ceiling"}

Init ==
    /\ now = 0
    /\ provider \in {"there", "away"}
    /\ used = [d \in Days |-> [k \in Family \cup {Everyone} |-> 0]]
    /\ quota = [e \in Event |-> NoQuota]
    /\ breaker = [p \in Process |-> [r \in Role |-> Healthy]]
    /\ work = [p \in Process |-> Idle]
    /\ \E load \in Loads :
         /\ queue = [e \in Event |-> IF e \in load.events THEN "queued" ELSE "unpublished"]
         /\ faults = MaxFaults - load.faults
    /\ receives = [e \in Event |-> 0]
    /\ pending = {}
    /\ created = [at |-> [e \in Event |-> 0], latest |-> 0]
    /\ done = {}
    /\ kept = [e \in Event |-> 0]
    /\ notice = [k \in Family \X Reason \X Days |-> NoNotice]
    /\ close = NoClose
    /\ asked = used
    /\ askedFor = [e \in Event |-> 0]
    /\ streak = [p \in Process |-> [r \in Role |-> NoStreak]]

-----------------------------------------------------------------------------
At(p, where) == work[p].at = where
Goto(p, where) == work' = [work EXCEPT ![p].at = where]
FamilyAt(p) == FamilyOf[work[p].event]
RoleAt(p) == Calls[work[p].event][work[p].step]
Busy(f) == \E p \in Process : ~At(p, "idle") /\ FamilyAt(p) = f

Fault ==
    /\ faults < MaxFaults
    /\ faults' = faults + 1

\* The handler of an event starts; what it kept, it does not ask again.
Begin(e) ==
    LET first == IF e \in Keeps THEN kept[e] + 1 ELSE 1
    IN  [event |-> e, at |-> IF first > Len(Calls[e]) THEN "save" ELSE "check",
         step |-> first, reason |-> "none", time |-> 0]

\* A pending record is put where there is none, later than those before it.
Preserved(e) ==
    /\ pending' = pending \cup {e}
    /\ created' = IF e \in pending THEN created
                  ELSE [at |-> [created.at EXCEPT ![e] = created.latest + 1],
                        latest |-> created.latest + 1]

\* An event that was not accepted is seen again, but for its last receive.
SentBack(e) ==
    queue' = [queue EXCEPT ![e] = IF receives'[e] < MaxReceives THEN "queued" ELSE "dead"]

\* The family's session takes an event from the queue, if the family is free.
Receive(e) ==
    LET f == FamilyOf[e]
    IN  /\ queue[e] = "queued"
        /\ receives' = [receives EXCEPT ![e] = @ + 1]
        /\ IF Busy(f)
           THEN SentBack(e) /\ UNCHANGED <<work, pending, created>>
           ELSE IF e \in done
           THEN /\ queue' = [queue EXCEPT ![e] = "deleted"]
                /\ pending' = pending \ {e}
                /\ UNCHANGED <<work, created>>
           ELSE /\ queue' = [queue EXCEPT ![e] = "in flight"]
                /\ work' = [work EXCEPT ![f] = Begin(e)]
                /\ Preserved(e)
        /\ UNCHANGED <<now, provider, money, health, done, kept, notice, close, faults>>

-----------------------------------------------------------------------------
(***************************************************************************)
(* CircuitBreaker.                                                         *)
(***************************************************************************)
Recovered(b) == b.state = "open" /\ now >= b.opened + Recovery

\* The breaker as allow leaves it; it admits the call unless it is open.
Allowed(b) == IF Recovered(b) THEN [b EXCEPT !.state = "half_open"] ELSE b

\* Mutant of Failed: a half-open breaker waits for as many failures again.
FailedAgain(b) ==
    LET n == IF b.state = "half_open" THEN 1 ELSE Min({b.failures + 1, Threshold})
    IN  IF n >= Threshold THEN [state |-> "open", failures |-> n, opened |-> now]
        ELSE [b EXCEPT !.failures = n, !.state = "closed"]

\* The count stands still at the threshold: it is only compared with it.
Failed(b) ==
    LET n == Min({b.failures + 1, Threshold})
    IN  IF b.state = "half_open" \/ n >= Threshold
        THEN [state |-> "open", failures |-> n, opened |-> now]
        ELSE [b EXCEPT !.failures = n]

Succeeded(b) == IF b.state = "open" /\ ~Recovered(b) THEN b ELSE Healthy

After(p, success) ==
    LET r == RoleAt(p)
    IN  /\ breaker' = [breaker EXCEPT ![p][r] = IF success THEN Succeeded(@) ELSE Failed(@)]
        /\ streak' = [streak EXCEPT ![p][r] =
               IF success THEN NoStreak
               ELSE [failures |-> Min({@.failures + 1, Threshold}), last |-> now]]

-----------------------------------------------------------------------------
(***************************************************************************)
(* ModelLimits.before: the breaker, the message's allowance, and then the  *)
(* day's, each where the one before it admitted the call.                  *)
(***************************************************************************)
Refuse(p, reason) ==
    work' = [work EXCEPT ![p].at = "announce", ![p].reason = reason, ![p].time = now]

QuotaAllows(e) == quota[e].used < MessageLimit

\* One call more, of an allowance that is forgotten QuotaTTL after its first.
Drawn(q) == [used |-> q.used + 1,
             expires |-> IF q = NoQuota THEN now + QuotaTTL ELSE q.expires]

\* The breaker is asked, and a call of the message's allowance is reserved.
Check(p) ==
    LET e == work[p].event
        b == Allowed(breaker[p][RoleAt(p)])
    IN  /\ At(p, "check")
        /\ breaker' = [breaker EXCEPT ![p][RoleAt(p)] = b]
        /\ IF b.state = "open"
           THEN Refuse(p, "breaker_open") /\ UNCHANGED quota
           ELSE IF ~QuotaAllows(e)
           THEN Refuse(p, "message_ceiling") /\ UNCHANGED quota
           ELSE quota' = [quota EXCEPT ![e] = Drawn(@)] /\ Goto(p, "reserve")
        /\ UNCHANGED <<now, provider, used, asked, askedFor, streak, queue, receives,
                       records, notice, close, faults>>

\* Mutant of DayIsSpent: only the family's own calls are counted.
FamilyIsSpent(f) == used[Day(now)][f] >= FamilyLimit

DayIsSpent(f) ==
    \/ used[Day(now)][f] >= FamilyLimit
    \/ used[Day(now)][Everyone] >= GlobalLimit

CountUp(count, f) == [count EXCEPT ![Day(now)][f] = @ + 1, ![Day(now)][Everyone] = @ + 1]

\* The two rows of the day are counted up in one transaction, or neither.
Reserve(p) ==
    LET f == FamilyAt(p)
    IN  /\ At(p, "reserve")
        /\ IF DayIsSpent(f)
           THEN Refuse(p, "daily_ceiling") /\ UNCHANGED <<used, asked, askedFor>>
           ELSE /\ used' = CountUp(used, f)
                /\ asked' = CountUp(asked, f)
                /\ askedFor' = [askedFor EXCEPT ![work[p].event] = @ + 1]
                /\ Goto(p, "call")
        /\ UNCHANGED <<now, provider, quota, health, queue, receives, records, notice,
                       close, faults>>

\* Two transactions on the row of everyone at a time: the database cancels
\* one, which reserve_budget answers like a ceiling that is reached.
Conflict(p) ==
    /\ At(p, "reserve")
    /\ \E q \in Process \ {p} : At(q, "reserve")
    /\ Refuse(p, "daily_ceiling")
    /\ UNCHANGED <<now, provider, money, health, queue, receives, records, notice,
                   close, faults>>

-----------------------------------------------------------------------------
\* On to the next call, or to the end of the handler.
Proceed(p) ==
    work' = [work EXCEPT ![p].step = @ + 1,
                         ![p].at = IF work[p].step < Len(Calls[work[p].event])
                                   THEN "check" ELSE "save"]

\* An answer is kept if all before it were.
Keep(p) ==
    LET e == work[p].event
    IN  kept' = [kept EXCEPT ![e] = IF e \in Keeps /\ work[p].step = @ + 1 THEN @ + 1 ELSE @]

\* The model answers.
Answer(p) ==
    /\ At(p, "call") /\ provider = "there"
    /\ After(p, TRUE)
    /\ Keep(p)
    /\ Proceed(p)
    /\ UNCHANGED <<now, provider, money, queue, receives, pending, created, done, notice,
                   close, faults>>

\* It answers nothing of use: the agent does without it.
AnswerBadly(p) ==
    /\ At(p, "call") /\ provider = "there"
    /\ After(p, FALSE)
    /\ Proceed(p)
    /\ UNCHANGED <<now, provider, money, queue, receives, records, notice, close, faults>>

\* The provider throttles, times out or is not there.
Unavailable(p) ==
    /\ At(p, "call") /\ provider = "away"
    /\ After(p, FALSE)
    /\ Refuse(p, "provider_unavailable")
    /\ UNCHANGED <<now, provider, money, queue, receives, records, notice, close, faults>>

-----------------------------------------------------------------------------
\* announce delivers under one key per reason and day.
NoticeKey(p) == <<FamilyAt(p), work[p].reason, Day(now)>>

\* Mutant of Delivered: what was said before is not looked for.
DeliveredNever(n) == FALSE

Delivered(n) == n.state = "receipted"

\* Mutant of Broken: one that is refused is passed over.
BrokenNever(list) == list \ {work[Closer].event}

\* What did not end well ends the family's list.
Broken(list) == {}

\* The worker's answer to the queue for an event of it, and the close's list.
Conclude(p, ok, accepted) ==
    LET e == work[p].event
    IN  /\ work' = [work EXCEPT ![p] = Idle]
        /\ IF p = Closer
           THEN /\ close' = [close EXCEPT !.list = IF ok THEN @ \ {e} ELSE Broken(@)]
                /\ UNCHANGED queue
           ELSE /\ queue' = [queue EXCEPT ![e] =
                      IF accepted THEN "deleted"
                      ELSE IF receives[e] < MaxReceives THEN "queued" ELSE "dead"]
                /\ UNCHANGED close

\* The family is told, and a spent ceiling is not tried again by the queue.
Announce(p) ==
    LET k == NoticeKey(p)
    IN  /\ At(p, "announce")
        /\ notice' = IF Delivered(notice[k]) THEN notice
                     ELSE [notice EXCEPT ![k] = [state |-> "receipted", told |-> @.told + 1]]
        /\ Conclude(p, FALSE, work[p].reason \in Spent)
        /\ UNCHANGED <<now, provider, money, health, receives, records, faults>>

\* The channel fails: the send's error takes the place of the refusal.
AnnounceFails(p) ==
    LET k == NoticeKey(p)
    IN  /\ At(p, "announce")
        /\ ~Delivered(notice[k])
        /\ Fault
        /\ \E told \in {notice[k].told, notice[k].told + 1} :
             notice' = [notice EXCEPT ![k] = [state |-> "unsent", told |-> told]]
        /\ Conclude(p, FALSE, FALSE)
        /\ UNCHANGED <<now, provider, money, health, receives, records>>

\* The result is cached, and the pending record completed.
Save(p) ==
    /\ At(p, "save")
    /\ done' = done \cup {work[p].event}
    /\ pending' = pending \ {work[p].event}
    /\ Conclude(p, TRUE, TRUE)
    /\ UNCHANGED <<now, provider, money, health, receives, created, kept, notice, faults>>

\* The process dies, and its breakers with it; the queue brings back its work,
\* the daily close included.
Crash(p) ==
    /\ ~At(p, "idle")
    /\ Fault
    /\ breaker' = [breaker EXCEPT ![p] = [r \in Role |-> Healthy]]
    /\ streak' = [streak EXCEPT ![p] = [r \in Role |-> NoStreak]]
    /\ IF p = Closer
       THEN close' = [close EXCEPT !.on = FALSE, !.day = @ - 1] /\ UNCHANGED queue
       ELSE queue' = [queue EXCEPT ![work[p].event] =
                IF receives[work[p].event] < MaxReceives THEN "queued" ELSE "dead"]
            /\ UNCHANGED close
    /\ work' = [work EXCEPT ![p] = Idle]
    /\ UNCHANGED <<now, provider, money, receives, records, notice>>

-----------------------------------------------------------------------------
(***************************************************************************)
(* recover_pending, once a day.                                            *)
(***************************************************************************)
PendingOf(f) == {e \in pending : FamilyOf[e] = f}

\* The first of a list that is sorted by created_at.
Oldest(list) ==
    CHOOSE e \in list : \A later \in list : created.at[e] <= created.at[later]

StartClose ==
    /\ ~close.on
    /\ close.day < Day(now)
    /\ close' = [family |-> 1, list |-> PendingOf(1), attempted |-> 0, on |-> TRUE,
                 day |-> Day(now)]
    /\ UNCHANGED <<now, provider, money, health, work, queue, receives, records, notice,
                   faults>>

NextFamily ==
    /\ close.on /\ At(Closer, "idle") /\ close.list = {}
    /\ close' = IF close.family = Families THEN [close EXCEPT !.on = FALSE]
                ELSE [close EXCEPT !.family = @ + 1, !.list = PendingOf(close.family + 1)]
    /\ UNCHANGED <<now, provider, money, health, work, queue, receives, records, notice,
                   faults>>

\* The oldest of the list is invoked, if the family is free.
Attempt ==
    LET e == Oldest(close.list)
        tried == [close EXCEPT !.attempted = @ + 1]
    IN  /\ close.on /\ At(Closer, "idle") /\ close.list # {}
        /\ IF close.attempted >= MaxAttempts
           THEN close' = [close EXCEPT !.on = FALSE, !.list = {}]
                /\ UNCHANGED <<work, pending>>
           ELSE IF Busy(FamilyOf[e])
           THEN close' = [tried EXCEPT !.list = Broken(@)] /\ UNCHANGED <<work, pending>>
           ELSE IF e \in done
           THEN /\ close' = [tried EXCEPT !.list = @ \ {e}]
                /\ pending' = pending \ {e}
                /\ UNCHANGED work
           ELSE /\ close' = tried
                /\ work' = [work EXCEPT ![Closer] = Begin(e)]
                /\ UNCHANGED pending
        /\ UNCHANGED <<now, provider, money, health, queue, receives, created, done,
                       kept, notice, faults>>

-----------------------------------------------------------------------------
Tick ==
    /\ now < LastTime
    /\ now' = now + 1
    /\ provider' \in {"there", "away"}
    /\ UNCHANGED <<money, health, work, queue, receives, records, notice, close, faults>>

\* The table deletes an expired row in its own time.
Expire(e) ==
    /\ quota[e] # NoQuota
    /\ now >= quota[e].expires
    /\ quota' = [quota EXCEPT ![e] = NoQuota]
    /\ UNCHANGED <<now, provider, used, asked, askedFor, health, work, queue, receives,
                   records, notice, close,
                   faults>>

Recover == StartClose \/ NextFamily \/ Attempt

Step(p) ==
    \/ Check(p) \/ Reserve(p) \/ Conflict(p)
    \/ Answer(p) \/ AnswerBadly(p) \/ Unavailable(p)
    \/ Announce(p) \/ AnnounceFails(p) \/ Save(p) \/ Crash(p)

Next ==
    \/ \E e \in Event : Receive(e) \/ Expire(e)
    \/ \E p \in Process : Step(p)
    \/ Recover
    \/ Tick

Spec == Init /\ [][Next]_vars

-----------------------------------------------------------------------------
(***************************************************************************)
(* The day's ceilings and the message's allowance bound the calls that are *)
(* really made: by all sessions at once, over every receive and recovery   *)
(* of an event, whatever dies between a reservation and its call, and      *)
(* across midnight.  An event has one allowance for each two days.         *)
(***************************************************************************)
SpendIsBounded ==
    /\ \A d \in Days :
         /\ asked[d][Everyone] <= GlobalLimit
         /\ \A f \in Family : asked[d][f] <= FamilyLimit
    /\ \A e \in Event : askedFor[e] <= MessageLimit * (1 + now \div QuotaTTL)

(***************************************************************************)
(* The notice of a ceiling or an outage goes through the outbox under one  *)
(* key per reason and day: however many events, receives and recoveries    *)
(* meet it, the family is told once, and again only for a fault.           *)
(***************************************************************************)
ToldOnceADay == \A k \in DOMAIN notice : notice[k].told <= 1 + faults

(***************************************************************************)
(* The breaker: after three failures in a row a process does not call the  *)
(* role again for a minute, and one failure of the call it tries then is   *)
(* enough for another minute.                                              *)
(***************************************************************************)
OutageIsLeftAlone ==
    \A p \in Process :
        /\ work[p].at \in {"reserve", "call"}
        /\ streak[p][RoleAt(p)].failures = Threshold
        => now >= streak[p][RoleAt(p)].last + Recovery

(***************************************************************************)
(* "Keep a family's work in order; retry at the next close": while the     *)
(* close runs an event, no work its family left before is still pending,   *)
(* although the family's session takes events from the queue meanwhile.    *)
(***************************************************************************)
RecoveryKeepsOrder ==
    ~At(Closer, "idle") => work[Closer].event = Oldest(PendingOf(FamilyAt(Closer)))
=============================================================================
