-------------------------- MODULE WebhookAdmission --------------------------
(***************************************************************************)
(* The Telegram webhook as it is deployed: the Lambda handler in front of  *)
(* the FastAPI route, the per-chat throttle, the admission claim, and the  *)
(* publication of the event the runtime will work from.                    *)
(*                                                                         *)
(* Telegram posts an update until it is answered 200, and again when the   *)
(* answer is slow, so two calls may hold one update at a time.  The Lambda *)
(* handler answers 200 to whatever the route answered, errors included.    *)
(***************************************************************************)
EXTENDS Integers, FiniteSets

CONSTANTS Chat,
          Update,
          ChatOf,           \* the chat an update comes from
          Call,             \* webhook executions that may run at once
          MinuteLimit,      \* chat_messages_per_minute: 12 by default
          DayLimit,         \* unknown_chat_daily_messages: 8 by default
          LastMinute,       \* bound on the clock: minutes 0..LastMinute
          MaxFaults         \* bound on crashes and on calls that raise

ASSUME WebhookAssumption ==
    /\ IsFiniteSet(Update)
    /\ Update # {}
    /\ ChatOf \in [Update -> Chat]
    /\ MinuteLimit \in Nat \ {0}
    /\ DayLimit \in Nat \ {0}
    /\ LastMinute \in Nat
    /\ MaxFaults \in Nat

VARIABLES held,             \* updates Telegram will still post
          known,            \* chats with a family or an enrollment
          minute,           \* the clock, in throttle windows
          rate,             \* quota rows rate#<chat>#<minute>
          stranger,         \* quota rows stranger#<chat>#<day>, one day long
          claims,           \* claim rows
          published,        \* events put on the bus, per update
          pc, update, now,  \* where each call is, its update, its clock reading
          refused,          \* history: updates the throttle turned away
          troubled,         \* history: updates one of whose calls met a fault
          doubted,          \* history: updates whose put_events raised after the
                            \* bus had accepted them
          faults

callVars == <<pc, update, now>>
storeVars == <<known, rate, stranger, claims>>
history == <<refused, troubled, doubted>>
vars == <<held, minute, published, faults, callVars, storeVars, history>>

Minute == 0..LastMinute

\* What the locals of an execution hold between two posts.
NoUpdate == CHOOSE u \in Update : TRUE

Init ==
    /\ held = Update
    /\ known \in SUBSET Chat
    /\ minute = 0
    /\ rate = [c \in Chat |-> [m \in Minute |-> 0]]
    /\ stranger = [c \in Chat |-> 0]
    /\ claims = {}
    /\ published = [u \in Update |-> 0]
    /\ pc = [k \in Call |-> "idle"]
    /\ update = [k \in Call |-> NoUpdate]
    /\ now = [k \in Call |-> 0]
    /\ refused = {} /\ troubled = {} /\ doubted = {}
    /\ faults = 0

-----------------------------------------------------------------------------
ChatAt(k) == ChatOf[update[k]]

Goto(k, where) == pc' = [pc EXCEPT ![k] = where]

\* The execution is over, and its locals with it.
Finish(k) ==
    /\ Goto(k, "idle")
    /\ update' = [update EXCEPT ![k] = NoUpdate]
    /\ now' = [now EXCEPT ![k] = 0]

\* The condition of a quota reservation.
WithinLimit(used, limit) == used < limit

\* Mutant of ClaimKey: the claim covers the chat, not the update.
ClaimKeyOfChat(u) == ChatOf[u]

ClaimKey(u) == <<ChatOf[u], u>>

\* Telegram posts an update, possibly while an earlier post is still open.
Post(k, u) ==
    /\ pc[k] = "idle"
    /\ u \in held
    /\ update' = [update EXCEPT ![k] = u]
    /\ now' = [now EXCEPT ![k] = minute]
    /\ Goto(k, "rate")
    /\ UNCHANGED <<held, minute, published, faults, storeVars, history>>

Refuse(k) ==
    /\ refused' = refused \cup {update[k]}
    /\ Goto(k, "respond")
    /\ UNCHANGED <<rate, stranger>>

ReserveRate(k) ==
    /\ pc[k] = "rate"
    /\ IF WithinLimit(rate[ChatAt(k)][now[k]], MinuteLimit)
       THEN /\ rate' = [rate EXCEPT ![ChatAt(k)][now[k]] = @ + 1]
            /\ Goto(k, "known")
            /\ UNCHANGED <<stranger, refused>>
       ELSE Refuse(k)
    /\ UNCHANGED <<held, minute, published, faults, update, now, known, claims,
                   troubled, doubted>>

\* Mutant of CheckKnown: nobody is a stranger.
CheckNobody(k) ==
    /\ pc[k] = "known"
    /\ Goto(k, "claim")
    /\ UNCHANGED <<held, minute, published, faults, update, now, storeVars, history>>

CheckKnown(k) ==
    /\ pc[k] = "known"
    /\ Goto(k, IF ChatAt(k) \in known THEN "claim" ELSE "stranger")
    /\ UNCHANGED <<held, minute, published, faults, update, now, storeVars, history>>

ReserveStranger(k) ==
    /\ pc[k] = "stranger"
    /\ IF WithinLimit(stranger[ChatAt(k)], DayLimit)
       THEN /\ stranger' = [stranger EXCEPT ![ChatAt(k)] = @ + 1]
            /\ Goto(k, "claim")
            /\ UNCHANGED <<rate, refused>>
       ELSE Refuse(k)
    /\ UNCHANGED <<held, minute, published, faults, update, now, known, claims,
                   troubled, doubted>>

\* Mutant of Claim: a look for what is only written after publishing.
ClaimByLooking(k) ==
    /\ pc[k] = "claim"
    /\ IF published[update[k]] > 0
       THEN Goto(k, "respond")
       ELSE Goto(k, "publish")
    /\ claims' = claims \cup {ClaimKey(update[k])}
    /\ UNCHANGED <<held, minute, published, faults, update, now, known, rate,
                   stranger, history>>

Claim(k) ==
    /\ pc[k] = "claim"
    /\ IF ClaimKey(update[k]) \in claims
       THEN /\ Goto(k, "respond")
            /\ UNCHANGED claims
       ELSE /\ claims' = claims \cup {ClaimKey(update[k])}
            /\ Goto(k, "publish")
    /\ UNCHANGED <<held, minute, published, faults, update, now, known, rate,
                   stranger, history>>

\* The record put after a publication is read by nobody: both go in one step.
Publish(k) ==
    /\ pc[k] = "publish"
    /\ published' = [published EXCEPT ![update[k]] = @ + 1]
    /\ Goto(k, "respond")
    /\ UNCHANGED <<held, minute, faults, update, now, storeVars, history>>

ReleaseClaim(k) ==
    /\ pc[k] = "release"
    /\ claims' = claims \ {ClaimKey(update[k])}
    /\ Goto(k, "respond")
    /\ UNCHANGED <<held, minute, published, faults, update, now, known, rate,
                   stranger, history>>

\* Mutant of Respond: an error is answered 503, a duplicate too.
RespondError(k) ==
    /\ pc[k] = "respond"
    /\ held' = IF published[update[k]] > 0 THEN held \ {update[k]} ELSE held
    /\ Finish(k)
    /\ UNCHANGED <<minute, published, faults, storeVars, history>>

\* Whatever happened, the Lambda handler answers 200: Telegram is done.
Respond(k) ==
    /\ pc[k] = "respond"
    /\ held' = held \ {update[k]}
    /\ Finish(k)
    /\ UNCHANGED <<minute, published, faults, storeVars, history>>

Fault(k) ==
    /\ faults < MaxFaults
    /\ faults' = faults + 1
    /\ troubled' = troubled \cup {update[k]}

\* put_events raises, whether or not the bus took the event.
PublishFails(k) ==
    /\ pc[k] = "publish"
    /\ Fault(k)
    /\ \/ UNCHANGED <<published, doubted>>
       \/ /\ published' = [published EXCEPT ![update[k]] = @ + 1]
          /\ doubted' = doubted \cup {update[k]}
    /\ Goto(k, "release")
    /\ UNCHANGED <<held, minute, update, now, storeVars, refused>>

\* A store call raises and writes nothing: the route answers 503.
StoreFails(k) ==
    /\ pc[k] \in {"rate", "known", "stranger", "claim", "release"}
    /\ Fault(k)
    /\ Goto(k, "respond")
    /\ UNCHANGED <<held, minute, published, update, now, storeVars, refused,
                   doubted>>

\* The execution dies or times out: no answer, so Telegram posts again.
Crash(k) ==
    /\ pc[k] # "idle"
    /\ Fault(k)
    /\ Finish(k)
    /\ UNCHANGED <<held, minute, published, storeVars, refused, doubted>>

\* The runtime, working from an event of the chat, starts an enrollment.
BecomeKnown(c) ==
    /\ c \notin known
    /\ \E u \in Update : ChatOf[u] = c /\ published[u] > 0
    /\ known' = known \cup {c}
    /\ UNCHANGED <<held, minute, published, faults, callVars, rate, stranger,
                   claims, history>>

NextMinute ==
    /\ minute < LastMinute
    /\ minute' = minute + 1
    /\ UNCHANGED <<held, published, faults, callVars, storeVars, history>>

Work(k) ==
    \/ ReserveRate(k) \/ CheckKnown(k) \/ ReserveStranger(k) \/ Claim(k)
    \/ Publish(k) \/ ReleaseClaim(k) \/ Respond(k)

Next ==
    \/ \E k \in Call :
         \/ \E u \in Update : Post(k, u)
         \/ Work(k)
         \/ PublishFails(k) \/ StoreFails(k) \/ Crash(k)
    \/ \E c \in Chat : BecomeKnown(c)
    \/ NextMinute

Repost(u) == \E k \in Call : Post(k, u)

\* A started call goes on, and Telegram posts what is not acknowledged.
Fairness ==
    /\ \A k \in Call : WF_vars(Work(k))
    /\ \A u \in Update : SF_vars(Repost(u))

Safety == Init /\ [][Next]_vars
Spec == Safety /\ Fairness

-----------------------------------------------------------------------------
Handling(u) == \E k \in Call : pc[k] # "idle" /\ update[k] = u

(***************************************************************************)
(* claim / release_claim: however many calls hold an update and however    *)
(* often Telegram posts it, one event is published, unless the bus took an *)
(* event while reporting that it had not.                                  *)
(***************************************************************************)
PublishedOnce ==
    \A u \in Update \ doubted : published[u] <= 1

(***************************************************************************)
(* telegram_webhook: an update that Telegram will not post again and that  *)
(* no call holds was published, or refused by the throttle, or met a       *)
(* fault: with two posts of it open, the one answered "duplicate" never    *)
(* acknowledges what the other does not publish.                           *)
(***************************************************************************)
LostOnlyByFault ==
    \A u \in Update \ (held \cup refused \cup troubled) :
        Handling(u) \/ published[u] > 0

\* The events a chat put on the bus: of an update the first, the second, ...
EventsOf(c) == UNION {{u} \X (1..published[u]) : u \in {v \in Update : ChatOf[v] = c}}

(***************************************************************************)
(* admit: the events a chat put on the bus stay within its minute windows, *)
(* and those of a chat nobody knows within its day, retries and duplicates *)
(* included, whatever window a slow call reserved in.                      *)
(***************************************************************************)
PublishedWithinLimits ==
    \A c \in Chat :
        /\ Cardinality(EventsOf(c)) <= MinuteLimit * (minute + 1)
        /\ c \notin known => Cardinality(EventsOf(c)) <= DayLimit

(***************************************************************************)
(* Every update is acknowledged in the end, so Telegram never repeats one  *)
(* for ever: the reason the Lambda handler answers 200 to everything.      *)
(***************************************************************************)
EveryUpdateIsAcknowledged == \A u \in Update : <>(u \notin held)
=============================================================================
