----------------------------- MODULE Invocation -----------------------------
(***************************************************************************)
(* One event from the work queue to its result: the worker that receives   *)
(* it, the runtime entrypoint with its leases, its cached result and its   *)
(* pending record, the dead letter queue, and the recovery that the daily  *)
(* close makes of the work that outlived the queue's retries.              *)
(*                                                                         *)
(* What a handler does is modelled by the modules of the handlers; here it *)
(* ends well, fails, refuses what it is given, or meets a spent ceiling,   *)
(* and a channel message may enroll the family.  Every lease a dead        *)
(* invocation leaves behind expires once the invocation is surely over:    *)
(* 1200 s, against the 600 s the worker waits and the 900 s of the queue's *)
(* visibility.                                                             *)
(***************************************************************************)
EXTENDS FamilyWork, Sequences, FiniteSets, SequencesExt

CONSTANTS Invalid,          \* events that do not validate, or name what is not there
          GivenUp,          \* events of earlier days that the queue gave up
          MaxReceives,      \* queue_max_receive: 3
          MaxAttempts,      \* max_attempts of recover_pending: 20
          MaxFaults         \* bound on crashes, failures and spent ceilings

ASSUME InvocationAssumption ==
    /\ Families \in Nat \ {0}
    /\ Worker \cap {"closer", "free", "dead"} = {}
    /\ IsFiniteSet(Event)
    /\ Event # {}
    /\ FamilyOf \in [Event -> Family]
    /\ Channel \subseteq Event
    /\ Invalid \subseteq Event
    /\ GivenUp \subseteq Event \ Channel
    /\ \A d, e \in GivenUp : d # e => FamilyOf[d] # FamilyOf[e]
    /\ MaxReceives \in Nat \ {0}
    /\ MaxAttempts \in Nat \ {0}
    /\ MaxFaults \in Nat

\* A scope of leases and records: of a chat, or of its family.
Scope == {"chat", "family"} \X Family

VARIABLES enrolled,         \* families that exist
          queue,            \* where each event is, seen from the work queue
          receives,         \* ApproximateReceiveCount of each event
          hidden,           \* invocations to be over before an event is visible again
          lease,            \* the holder of each lease
          pending,          \* events of each scope with a pending record, oldest first
          close,            \* the recovery of the daily close
          faults

locals == <<at, event, scope>>
records == <<result, pending>>
work == <<queue, receives, hidden>>
vars == <<enrolled, work, lease, records, locals, close, faults>>

Free == "free"
Dead == "dead"              \* held by an invocation that died
NoEvent == CHOOSE e \in Event : TRUE
NoScope == <<"chat", 1>>
NoClose == [family |-> 0, list |-> <<>>, attempted |-> 0]

Init ==
    /\ enrolled \in {fs \in SUBSET Family : \A e \in GivenUp : FamilyOf[e] \in fs}
    /\ queue = [e \in Event |-> IF e \in GivenUp THEN "dead" ELSE "queued"]
    /\ receives = [e \in Event |-> IF e \in GivenUp THEN MaxReceives ELSE 0]
    /\ hidden = [e \in Event |-> {}]
    /\ lease = [s \in Scope |-> Free]
    /\ result = {}
    /\ pending = [s \in Scope |->
                    IF \E e \in GivenUp : s = <<"family", FamilyOf[e]>>
                    THEN <<CHOOSE e \in GivenUp : s = <<"family", FamilyOf[e]>> >>
                    ELSE <<>>]
    /\ at = [k \in Invoker |-> "idle"]
    /\ event = [k \in Invoker |-> NoEvent]
    /\ scope = [k \in Invoker |-> NoScope]
    /\ close = NoClose
    /\ faults = 0

-----------------------------------------------------------------------------
\* Where the result of an event is cached, and the first lease of it.
CacheScope(e) == <<IF e \in Channel THEN "chat" ELSE "family", FamilyOf[e]>>

\* The scope an event works in: a chat with no family yet stands for itself.
LookedUp(e) ==
    <<IF e \in Channel /\ FamilyOf[e] \notin enrolled THEN "chat" ELSE "family", FamilyOf[e]>>

LeaseScopes(k) == {CacheScope(event[k]), scope[k]}

Goto(k, where) == at' = [at EXCEPT ![k] = where]

\* The leases an invocation holds change hands.
HandOver(k, to) ==
    lease' = [s \in Scope |-> IF lease[s] = k THEN to ELSE lease[s]]

Forgotten(k) ==
    /\ event' = [event EXCEPT ![k] = NoEvent]
    /\ scope' = [scope EXCEPT ![k] = NoScope]

Fault ==
    /\ faults < MaxFaults
    /\ faults' = faults + 1

\* The visibility timeout is longer than an invocation: an event that was
\* sent back is seen again once those that ran at the time are over.
Over(k) == [e \in Event |-> hidden[e] \ {k}]

Running(k) == {j \in Invoker \ {k} : at[j] # "idle"}

\* What the queue makes of an event that was not accepted.
SendBack(k) ==
    IF receives[event[k]] < MaxReceives
    THEN /\ queue' = [queue EXCEPT ![event[k]] = "queued"]
         /\ hidden' = [Over(k) EXCEPT ![event[k]] = Running(k)]
    ELSE /\ queue' = [queue EXCEPT ![event[k]] = "dead"]
         /\ hidden' = Over(k)

-----------------------------------------------------------------------------
\* A worker takes an event; only messages come of families not enrolled yet.
Receive(k, e) ==
    /\ at[k] = "idle"
    /\ e \in Channel \/ FamilyOf[e] \in enrolled
    /\ queue[e] = "queued"
    /\ hidden[e] = {}
    /\ queue' = [queue EXCEPT ![e] = "in flight"]
    /\ receives' = [receives EXCEPT ![e] = @ + 1]
    /\ event' = [event EXCEPT ![k] = e]
    /\ Goto(k, "lookup")
    /\ UNCHANGED <<enrolled, hidden, lease, records, scope, close, faults>>

\* The family is looked up before any lease is held.
Lookup(k) ==
    /\ at[k] = "lookup"
    /\ scope' = [scope EXCEPT ![k] = LookedUp(event[k])]
    /\ Goto(k, "lease")
    /\ UNCHANGED <<enrolled, work, lease, records, event, close, faults>>

\* The leases are taken one by one, the chat's before the family's.
NextLease(k) ==
    {s \in LeaseScopes(k) :
        /\ lease[s] # k
        /\ s = CacheScope(event[k]) \/ lease[CacheScope(event[k])] = k}

Acquire(k) ==
    /\ at[k] = "lease"
    /\ \E s \in NextLease(k) :
         /\ lease[s] = Free
         /\ lease' = [lease EXCEPT ![s] = k]
    /\ Goto(k, IF \A s \in LeaseScopes(k) : lease'[s] = k THEN "cached" ELSE "lease")
    /\ UNCHANGED <<enrolled, work, records, event, scope, close, faults>>

\* Mutant of Refused: the leases acquired before are kept.
RefusedKeeping(k) ==
    /\ at[k] = "lease"
    /\ \E s \in NextLease(k) : lease[s] # Free
    /\ Goto(k, "failed")
    /\ UNCHANGED <<enrolled, work, lease, records, event, scope, close, faults>>

\* "family operation in progress; retry required"
Refused(k) ==
    /\ at[k] = "lease"
    /\ \E s \in NextLease(k) : lease[s] # Free
    /\ HandOver(k, Free)
    /\ Goto(k, "failed")
    /\ UNCHANGED <<enrolled, work, records, event, scope, close, faults>>

\* Mutant of Known: the result is not looked for.
KnownNever(e) == FALSE

Known(e) == e \in result

\* A cached result is answered again, and the pending record completed.
FindResult(k) ==
    /\ at[k] = "cached"
    /\ Known(event[k])
    /\ Goto(k, "complete")
    /\ UNCHANGED <<enrolled, work, lease, records, event, scope, close, faults>>

\* Otherwise the work is recorded as pending, unless it is already.
Preserve(k) ==
    /\ at[k] = "cached"
    /\ ~Known(event[k])
    /\ pending' = [pending EXCEPT ![scope[k]] =
                     IF Contains(@, event[k]) THEN @ ELSE Append(@, event[k])]
    /\ Goto(k, "handle")
    /\ UNCHANGED <<enrolled, work, lease, result, event, scope, close, faults>>

\* What an event asks for validates, and who and what it names is there.
Validates(e) == e \notin Invalid

\* The handler returns; a message of an unknown chat may enroll its family.
Handle(k) ==
    /\ at[k] = "handle"
    /\ Validates(event[k])
    /\ \/ UNCHANGED enrolled
       \/ event[k] \in Channel /\ enrolled' = enrolled \cup {FamilyAt(k)}
    /\ Goto(k, "save")
    /\ UNCHANGED <<work, lease, result, pending, event, scope, close, faults>>

\* The handler raises, or meets a spent ceiling.
HandlerFails(k) ==
    /\ at[k] = "handle"
    /\ HandOver(k, Free)
    /\ Fault
    /\ Goto(k, "failed") \/ Goto(k, "spent")
    /\ UNCHANGED <<enrolled, work, result, pending, event, scope, close>>

\* The handler refuses the event, on each receive and at each close: an error
\* like another, which no worker takes for the end of it.
HandlerRefuses(k) ==
    /\ at[k] = "handle"
    /\ ~Validates(event[k])
    /\ HandOver(k, Free)
    /\ Goto(k, "failed")
    /\ UNCHANGED <<enrolled, work, records, event, scope, close, faults>>

Save(k) ==
    /\ at[k] = "save"
    /\ result' = result \cup {event[k]}
    /\ Goto(k, "complete")
    /\ UNCHANGED <<enrolled, work, lease, pending, event, scope, close, faults>>

\* A list without the record of an event, of which it has one or none.
Without(list, e) ==
    IF Contains(list, e) THEN RemoveAt(list, CHOOSE n \in DOMAIN list : list[n] = e) ELSE list

\* The pending record is completed, and the leases are released.
CompletePending(k) ==
    /\ at[k] = "complete"
    /\ pending' = [pending EXCEPT ![scope[k]] = Without(@, event[k])]
    /\ HandOver(k, Free)
    /\ Goto(k, "ok")
    /\ UNCHANGED <<enrolled, work, result, event, scope, close, faults>>

Accepts(k) == at[k] \in {"ok", "spent"}

\* The worker reports: an accepted event is deleted from the queue.
Report(k) ==
    /\ k \in Worker
    /\ at[k] \in {"ok", "spent", "failed"}
    /\ IF Accepts(k)
       THEN /\ queue' = [queue EXCEPT ![event[k]] = "deleted"]
            /\ hidden' = Over(k)
       ELSE SendBack(k)
    /\ Goto(k, "idle")
    /\ Forgotten(k)
    /\ UNCHANGED <<enrolled, receives, lease, records, close, faults>>

\* An execution dies.  Its leases stay; its event comes back in time.
Crash(k) ==
    /\ at[k] # "idle"
    /\ Fault
    /\ HandOver(k, Dead)
    /\ IF k = Closer
       THEN close' = NoClose /\ hidden' = Over(k) /\ UNCHANGED queue
       ELSE SendBack(k) /\ UNCHANGED close
    /\ Goto(k, "idle")
    /\ Forgotten(k)
    /\ UNCHANGED <<enrolled, receives, records>>

\* Mutant of Expire: a lease is shorter than a handler may run.
ExpireEarly(s) ==
    /\ lease[s] # Free
    /\ lease' = [lease EXCEPT ![s] = Free]
    /\ UNCHANGED <<enrolled, work, records, locals, close, faults>>

Expire(s) ==
    /\ lease[s] = Dead
    /\ lease' = [lease EXCEPT ![s] = Free]
    /\ UNCHANGED <<enrolled, work, records, locals, close, faults>>

-----------------------------------------------------------------------------
\* The families that exist, after the f-th: the order recovery goes in.
FamiliesAfter(f) == {g \in enrolled : g > f}

\* The family whose list comes next.
NextFamily(f) ==
    LET later == FamiliesAfter(close.family) IN f \in later /\ \A g \in later : f <= g

\* A daily close begins, or the list of one family is through: on to the
\* next family, or to the end of the close.
ScanFamily ==
    /\ at[Closer] = "idle"
    /\ close.list = <<>>
    /\ \/ FamiliesAfter(close.family) = {} /\ close' = NoClose
       \/ \E f \in Family :
            /\ NextFamily(f)
            /\ close' = [close EXCEPT !.family = f, !.list = pending[<<"family", f>>]]
    /\ UNCHANGED <<enrolled, work, lease, records, locals, faults>>

\* The oldest of the list is invoked, unless the attempts are spent.
Attempt ==
    /\ at[Closer] = "idle"
    /\ close.list # <<>>
    /\ IF close.attempted >= MaxAttempts
       THEN close' = NoClose /\ UNCHANGED <<at, event>>
       ELSE /\ close' = [close EXCEPT !.attempted = @ + 1]
            /\ event' = [event EXCEPT ![Closer] = Head(close.list)]
            /\ Goto(Closer, "lookup")
    /\ UNCHANGED <<enrolled, work, lease, records, scope, faults>>

\* What did not end well ends the family's list.
Attempted ==
    /\ at[Closer] \in {"ok", "spent", "failed"}
    /\ close' = [close EXCEPT !.list = IF at[Closer] = "ok" THEN Tail(@) ELSE <<>>]
    /\ Goto(Closer, "idle")
    /\ Forgotten(Closer)
    /\ hidden' = Over(Closer)
    /\ UNCHANGED <<enrolled, queue, receives, lease, records, faults>>

Recover == ScanFamily \/ Attempt \/ Attempted

Work(k) ==
    \/ Lookup(k) \/ Acquire(k) \/ Refused(k) \/ FindResult(k) \/ Preserve(k)
    \/ Handle(k) \/ HandlerRefuses(k) \/ Save(k) \/ CompletePending(k) \/ Report(k)

Next ==
    \/ \E k \in Worker, e \in Event : Receive(k, e)
    \/ \E k \in Invoker : Work(k) \/ HandlerFails(k) \/ Crash(k)
    \/ \E s \in Scope : Expire(s)
    \/ Recover

\* What was started goes on, leases expire, and there is a close every day.
Fairness ==
    /\ \A k \in Invoker : WF_vars(Work(k))
    /\ WF_vars(Recover)
    /\ \A s \in Scope : WF_vars(Expire(s))
    /\ \A e \in Event : SF_vars(\E k \in Worker : Receive(k, e))

Safety == Init /\ [][Next]_vars
Spec == Safety /\ Fairness

-----------------------------------------------------------------------------
(***************************************************************************)
(* Recovery at the daily close: while failures are not for ever and the    *)
(* attempts are enough, work recorded under its family ends in a result,   *)
(* also when the queue gave it up, or deleted it for a spent ceiling.  A   *)
(* family may have an event that its handler always refuses, which ends    *)
(* that family's list at every close: not the other families' ones.        *)
(***************************************************************************)
RecordedWorkCompletes ==
    \A e \in Event :
        (\A d \in Invalid : FamilyOf[d] # FamilyOf[e])
        => (Contains(pending[<<"family", FamilyOf[e]>>], e) ~> e \in result)
=============================================================================
