# Repaso in TLA+

Repaso is a tutoring service for primary-school children over Telegram: a family
enrolls, sends photos of school material, and its child practises short daily
capsules and sittings of questions. It runs on AWS: a webhook behind API Gateway,
a work queue, a runtime that handles one event at a time per family, and one
DynamoDB table. A model grades open answers and writes texts; deterministic code
decides what is counted, served and delivered.

These modules model the parts of it where a wrong order of steps would miscount a
child's learning, lose a message, or let two handlers of a family run at once.
Paths below are relative to `src/repaso/`, unless they start with `docs/`,
`tests/` or `infra/`.

## The system's parts

| Part | State it keeps | Operations | What is hard |
|---|---|---|---|
| Webhook admission (`api/webhook.py`, `channel/throttle.py`, `lambdas/webhook.py`) | claims, published records, quota counters | admit, claim, publish, release, answer | concurrent posts of one update, failures on either side of the publish |
| Worker and invocation (`lambdas/worker.py`, `runtime/entrypoint.py`, `runtime/handlers.py`) | leases, cached results, pending records | look up, lease, handle or refuse, save, complete | contention, redelivery, crashes with leases held, dead letters |
| Recovery (`runtime/recovery.py`) | none of its own | retry pending work at the daily close | order in a family, attempts shared by all, an event that always fails, racing the queue |
| Channel routing (`core/orchestration/channel_runner.py`, `turn_router.py`) | `channel#` records | route a message, prepare and finish its reply | replays after a crash, buttons of old questions |
| Turn routing and memory (`turn_router.py`, `study_help.py`, `turn_memory.py`, `turn_target.py`, `turn_replies.py`) | notes of a session, blocked texts, event feed | screen, read, answer, explain, note, close | what a text is about, what an explanation may reveal, words that outlive their sitting |
| Memory page (`api/memory*.py`) | none | totals, evolution, episodes, links | stores read one after another while handlers write; windows and a feed of limited length |
| Daily session (`lambdas/scheduler.py`, `tutor_graph.py`, `runner.py`) | fired records, one session per child and day | tick, plan, compose, deliver, mark delivered | two ticks at once, resumption after each write |
| Capsule answers (`runner.py`, `response_graph.py`, `adaptations.py`, `agents/adaptation_policy.py`) | `answer#` journals, grade rows, quarantine, adaptations, escalations, the session | grade, record, count, advance, decide, adapt, escalate | replay on a later day, model results that differ, an older session put back |
| Study sittings (`study_*.py`, `core/harness/study_session.py`) | one record per sitting | open, switch, serve, answer, close, sweep | a turn cut short between writes, texts out of step, bounds of the day |
| Learning store (`answer_outcome.py`, `tools/state_dynamo.py`) | mastery rows, spacing rows, outcome markers | record an outcome | concurrent recorders, optimistic retries, lost acknowledgements |
| Local store (`tools/state_local.py`, `state_local_io.py`) | JSON tables, a lock, a write-ahead journal | every operation of the store | a process that dies with half of a transaction in the files |
| Outbox (`outbox.py`, `channel/delivery.py`) | messages and receipts of a delivery | deliver, resume | lost acknowledgement of a send, a handler that would say something else |
| Enrollment (`channel_enrollment.py`, `enrollment_journal.py`, `scheduling.py`) | progress, step journals, profile, alarm | advance, apply, commands | replay of a step whose writes were half applied |
| Erasure (`privacy.py`) | none | delete store by store | failure part of the way, events in flight |
| Decisions of adults (`quarantine_resolution.py`, `runner.py`) | the journaled choice, human grades | press, decide, apply | two buttons, crash after the decision |
| Daily close (`quality_graph.py`, `core/cohort/signal.py`) | notices of a week | engagement, cohort, retirement | duplicate notices, a close repeated on a later day |
| Ingest (`ingest_graph.py`, `channel_media.py`, `agents/`) | a memo per page, the bank | fetch, parse, screen, map, generate, validate, put | models that answer differently, pages that must still be answered |
| Model limits (`tools/model_limits.py`, `call_quota.py`, `core/harness/budgets.py`, `runtime/ceilings.py`) | breakers, quotas, budget rows, notices | check, reserve, call, announce | half-open breaker, counters at their limit, announcing a refusal once |

The webhook publishes events; the queue hands them to workers; a worker invokes the
runtime, which takes the leases of the chat and of the family, and calls one handler.
Handlers share the table and the outbox. So within a family handlers are serial as
long as leases work (`Invocation`), and what remains hard inside one handler is that
it is several writes and may die between any two (every other module). The daily
close holds no lease of a family, and is a second process in `DailyRound`. The
learning store and the budgets do not rely on the lease: their writes are conditional
(`LearningStore`, `ModelCalls`).

What makes each part correct:
admission publishes an update once and loses none without a fault; invocations of a
family are serial, never handle again what has a result, and recover what they recorded;
an answer is graded against the question it belongs to, settles it once, with one
verdict in every place that records it, and an adult is asked about a child who struggles;
a sitting keeps the bounds of the day; an outcome is counted exactly once; a page is
answered, and only sound questions enter the bank; a family is whole or gone; a child has
one capsule a day; a first decision stands; a notice is given once a week; calls stay
within their allowances and a refusal is announced once a day; a key is shown only
after its answer, and a sitting's words go with it.

## Modules

**Learning store.** `OutcomeLedger` has the rules that update a mastery row and a spacing
row, and the abstract store: one answer counted in one step, on the rows as they are.
`LearningStore` is `record_answer_outcome` and `apply_outcome`
call by call: `ReadMastery`, `ReadSpaced`, `FindMarker`/`MissMarker`, `Commit` (the
transaction, whose condition `CommitHolds` looks at the marker and the mastery row, and
not at the spacing row), `Cancelled`, `Conflicted`, `Return`, `RaiseBusy`; `Deliver`,
`Duplicate` and `Crash` are the queue and the workers around it. The verdict is chosen at
each delivery, because a regraded answer may come back with another one. `Commit` may
also succeed and lose its reply. `LearningStoreProofs` has the theorems.

**Local store.** `StoreTables` says what each operation of `StateStore` writes.
`AtomicStore` is the abstract store: an operation happens at one moment, as a whole.
`LocalStore` is the JSON files with their lock and write-ahead journal, an action for each
file replaced, with processes that die anywhere and whoever comes next replaying the
journal; the reads of an outcome, which take no lock, are steps of their own. Every call
of the webhook claims and releases under one owner name, so a release frees the row of
whoever has it: `holds` is what each process knows to be its own, which it may release
(`Call`; a call that was refused has nothing to release, `PassOver`). `granted` and
`taken` are history: the claims that were given, until they are released or erased, and
the keys an erasure took from a call. It implements `AtomicStore` (model-checked by
`local_store`, proved in `LocalStoreProofs`).

**Admission.** `WebhookAdmission` is one call per execution of the Lambda: `Post`,
`ReserveRate`, `CheckKnown`, `ReserveStranger`, `Claim`, `Publish`, `ReleaseClaim`,
`Respond`, and the fault actions `PublishFails`, `StoreFails`, `Crash`. `held` is what
Telegram would post again. `refused`, `troubled` and `doubted` are history: they say what
happened to an update and no guard reads them. `WebhookAdmissionProofs` has the theorems.

**Invocation.** `Invocation` has the workers and the daily close as invokers that run the
same steps; `queue`, `receives` and `hidden` are the work queue with its visibility
timeout and its dead letters. The order `recover_pending` lists families in is the order
of their numbers. `Invalid` events are those their handler always refuses, because their
payload does not validate or names what is not there: an error like another for the
worker, so they go to the dead letters and stay pending. `GivenUp` are events that came
to that end on earlier days. `FamilyWork` has what is promised of the invocations that
work for a family at one time. The theorems are in the second half of
`WebhookAdmissionProofs`.

**Sittings.** `StudySitting` is one day of one child. `Take` begins a turn and sweeps the
sittings; the turn then is one of the commands or an answer, in the writes of the code:
`Topic` and `StartTopic` are the two puts of a change of topic, and `Grade`,
`CountOutcome`, `PutAnswered` the three of an answer. A message carries the question it
is about: for a button the one it hangs from, for a text the last one served before it
was received, because that is what comparing `received_at` with `last_event_at` decides.
`StudySittingProofs` has the theorems.

**Capsules.** `CapsuleLog` is what a day's capsule promises: its questions are settled in
order, each once and for good. `CapsuleAnswers` has the daily session, the answer journal
and the response graph, one action per write; `Resume` is where the handling of a message
goes on from its records. A journaled answer is screened again before its journal is
looked for, by a service that fails closed (`runner.py:119-132`): it goes on (`Pass`), or
is blocked and acknowledged with whatever its journal lacks (`Blocked`). The session is
put from the journal (`Advance`), as in the code, which is why the order of replays
matters. `SettledLog` maps it to the log. `ResponsePolicy` has what follows a graded
answer: the moving accuracy in millionths, the struggle trigger, and the action, which a
model may propose (`Proposed`) but not for a child whose triggers fired. `Decide`,
`Compose` and `PutEscalation` leave an escalation behind; a decision is journaled by what
it leaves behind. `ResolveEscalation` is an adult's decision in one step; `AdultDecisions`
has its writes. `CapsuleAnswersProofs` has the theorems.

**Turns and their memory.** `FamilyMemory` has the notes, what an explanation is given to
work with, and what the page computes of the record; `Turns` is a text from its screening
to its note, in a capsule or a sitting, write by write. A note is put and its `turn.saved`
event logged in two steps (`Remember` or `ClearOne`, then `LogSave`); `unlogged` is
history, the messages whose handler died in between. The screen may stop a text in one
handling and pass it in another (`MayBeStopped`), also an answer that is being replayed
(`BlockAnswer`). `TurnMemory` puts the page's reads
beside the handler's writes. The theorems are in the second half of `LearningStoreProofs`.

**The daily round.** `DailyRules` has the pure rules (calendar, capsule, spacing,
psychometrics, triggers), over the sorted lists of `Listing`; `Outbox` the record of a
delivery, which `MaterialIngest` and `Turns` use too; `DailyState` the state the parts
share; `DailySession` the tick, the plan and the capsule; `AdultDecisions` the buttons of
an adult, whose choice is journaled before its effects; `DailyClose` the notices of a
week, kept in a record before the alert is put and the family told, and the retirement of
questions; `DailyRound` composes them. The handler of events and the close are two
processes; an event that dies is handled from the start. `DailyRoundProofs` has the
theorems.

**Families.** `FamilyRows` has what is stored of the families of one chat, and what is
promised of it. `FamilyLifecycle` is the chat: the steps of an enrollment with the journal
of their writes, commands, the alarm, and an erasure store by store, with messages taken
up again after later ones and the family's other events writing meanwhile. The identity
of a family, `uuid4` in the code, is the number of its enrollment, given when its last
step is journaled (`JournalStep`), so that a second enrollment of the chat is another
family. `rewritten`, `displaced`, `strayed`, `erasing` and `erased` are history. The
theorems are in the second half of `LocalStoreProofs`.

**Pages.** `MaterialIngest` is a page from its fetch to the bank: the memo of what models
answered, the holds of unsafe material, drafts generated, criticised and probed, and the
one account given to the family. The family may have no student yet, because its
enrollment died between the two: `Receive` then says nothing, and `Enroll` is the
enrollment that is taken up again. `approved` is history: the drafts the critic was shown
and accepted. `MaterialIngestProofs` has the theorems.

**Model limits.** `ModelCalls` has sessions of families and the close's own session, a
breaker per process and role. `Check` is the breaker and the message's quota; `Reserve`
the day's two rows in one transaction, which `Conflict` may cancel; a notice is kept per
reason and day. The day is a family's local date in the code, and one day for all in the
model; the provider is there or away for a step of time. Pending records are a set with the
order they were created in (`created`), and the close takes the oldest of its list.
`ModelCallsProofs` has the theorems.

The `MC` module of each of these gives the constants their values.

## Runs

| Run | Question | Distinct states |
|---|---|---|
| `learning_store` | is every answer counted exactly once, under two workers with conflicts, copies, lost replies and crashes? | 131 thousand |
| `webhook_admission` | is an update published once, within limits, and lost only by a fault? | 93 thousand |
| `study_sitting` | do a day's sittings keep their bounds and lose or repeat no answer when turns are cut short? | 984 thousand |
| `capsule_answers` | is each question settled once, in order, with one verdict, and an adult asked once about a child who struggles, whatever is replayed and when? | 478 thousand |
| `capsule_adaptation` | is the adaptation decided on an answer saved? (it is not: see below) | stops at the violation |
| `invocation` | are a family's handlers serial, and is recorded work recovered, also behind an event that is always refused? | 106 thousand |
| `material_ingest` | does a page leave a sound bank and one account, whatever the models answer the second time, and is it answered in the end? | 15 thousand |
| `family_lifecycle` | is a family whole after its enrollment, in step with its alarm, and gone after its erasure? | 3.3 million |
| `daily_round` | one sound capsule a day, a first decision that stands, one notice a week? | 626 thousand |
| `model_calls` | do calls stay within every allowance, is a refusal told once a day, is an outage left alone, does recovery keep the order? | 3.0 million |
| `turn_memory` | no key before its answer, no words after a sitting, and a page that agrees with the record? | 548 thousand |
| `local_store` | is the store of files atomic through deaths and replays, with one holder of a claim no erasure took? | 105 thousand |

Bounds. Two workers, calls or messages are enough for each hazard listed: a lost update
takes two writers, a stale replay takes the message that dies and the one that overtakes
it.

- `learning_store` gives both outcomes the same item, so that they contend for both rows;
  with `MaxTries = 2` the busy loop both retries and gives up (8 in the code).
- `webhook_admission` has two minutes and limits of two and one, so that each limit is
  reached and a window can change under a call.
- `study_sitting` takes the limits down to two questions, two sittings and two wrong
  answers, with a bank as large as the day allows: every bound is reached before another
  hides it. It uses symmetry between the two places where a message waits, and a view that
  forgets what no later step or property reads: details of sittings that are over, and
  which older question a stale message is about. The truth of the invariants that do look
  at closed sittings is itself part of the view. That run checks no liveness property.
- `capsule_answers` has a day of two questions of a competency with two earlier answers,
  so that the third attempt may be what fires the trigger (`MinSamples = 3`,
  `Cooldown = 1` of 7 days), and a day of one question of a new competency: the first day
  has a question that is last and one that is not, and the second lets a journal be
  replayed on another day; two crashes, so that a replay can die as well. The model
  proposes only to continue. Three silent days do not fit, so the engagement trigger
  cannot fire. No capsule adaptation is on in that run; `capsule_adaptation` turns it on.
- `invocation` has a message and a session of one family, enrolled at first or not, two
  workers and the close, two receives and one fault; before it in the close's order, a
  family with one event that was given up and is always refused.
- `material_ingest` has a page of each kind the code tells apart, a family with its
  student at first or later, and batches with good drafts, bad ones and two of one stem.
- `family_lifecycle` has three messages of one chat: a text that completes an enrollment
  or answers a step of it, then any command, button or text, then the button of an
  erasure; two families, two faults, and a bound on what other events write. Two faults
  let the message that enrolls die, a command after it die too, and the first come back;
  the inductive invariant of the proofs was checked with three faults and three families.
- `daily_round` has two families of one section and the last day of a week with the first
  of the next. An agenda bounds what happens in one behaviour: its alarms, decisions,
  closes, exams and pauses, chosen to pair what shares a row. Earlier days are in the
  grade log at first. One fault.
- `model_calls` has two loads: a page of two calls and an answer of one family, with one
  fault, or an answer of each of two families, without. The allowances (2 a message, 2 a
  family, 3 a day, a breaker of 2) are as small as lets each be the one that refuses.
- `turn_memory` has agendas of two or three texts with what a model may read in each, a
  capsule of two questions of which a model grades one, a sitting of two, two notes of a
  session for 8, a window of 2 days for 30, a feed of 6 events for 100, and a time by
  which each behaviour ends. One crash at most. A behaviour logs up to ten events, so the
  feed is cut in many of them; the properties also hold with feeds of 4, 8 and 10.
- `local_store` has ten pairs of programs for two processes, which put erasures and
  outcomes beside every other operation; two deaths. One pair claims and releases a key
  of the family that is erased meanwhile. The outcome's loop is retried
  without its bound of eight, and a lease may lapse at any time.

Fairness. `LearningStore`: a worker that started goes on (weak), and an answer that is not
acknowledged is delivered again (strong: a redelivery needs a free worker, which comes and
goes). `WebhookAdmission`: the same for calls and posts, since Telegram repeats what is
not acknowledged. `CapsuleAnswers`: the handler goes on; a message not acknowledged is
taken again, by the queue and afterwards by the daily close. `Invocation`: invocations go
on, leases expire, there is a close every day, and a queued event is received again and
again. `MaterialIngest`: the handler goes on, and what is in the queue is received. Of two
runs the liveness is conditional. `EveryMessageFinishes` says nothing once an unfinished
answer was acknowledged because its replay was blocked; `EveryPageIsAnswered` speaks of
pages that are taken up when the student is there. Faults are bounded in number, so
liveness is claimed for failures that stop. Only an `Invalid` event fails for ever:
`RecordedWorkCompletes` claims nothing of its family, and holds for the others while the
attempts of a close are enough to pass it. `StudySitting`, `FamilyLifecycle`,
`DailyRound`, `ModelCalls`, `TurnMemory` and `LocalStore` state safety only, without
fairness.

`CHECK_DEADLOCK FALSE` stands where everything can have been done: all answers
acknowledged, all messages handled, the agenda through, the last day or moment over.

## What the runs found

`capsule_adaptation` is a run of its own, which TLC violates: the adaptation decided on
the last answer of a capsule is taken for a repetition of the one before, when that one
was of the same competency, and dropped.

Reached by the models, and claimed by no property:

- An answer that died after its journal was opened is screened again when it is taken up.
  If the screener is out of reach then, or thinks otherwise, the message is acknowledged
  and its journal stays unfinished (`core/orchestration/runner.py:119-132`,
  `tools/guardrails.py:184-196`). Every other answer of the child is then refused as
  `"previous answer is awaiting recovery"` (`runner.py:165-166`) until the journal
  expires. `Abandoned` names that answer, and `EveryMessageFinishes` excepts it and is
  violated without the exception (`CapsuleAnswers`).
- Two drafts of a batch with one competency, kind and question have one id
  (`agents/item_draft.py:67-69`), and a verdict is kept under the id
  (`core/orchestration/ingest_graph.py:156-167`): the second is never shown to the critic,
  takes the verdict of the first, and is put over it, active with options and a key nobody
  judged. `docs/product/how-it-works.md:9` says "activate accepted items". `BankIsSound`
  says what the code does: the critic accepted the exercise, or one before it in the batch
  with its id (`Critiqued`); it is violated when it asks for the exercise itself
  (`MaterialIngest`).
- A page whose family has no student when it is taken up is acknowledged in silence
  (`core/orchestration/channel_media.py:19-22`), and is not taken up again once the
  enrollment is repaired (`MaterialIngest`).
- An hour repeated while a completed enrollment is under way enrolls two families of one
  chat; `/forget`, which starts from the chat, erases one of them (`FamilyLifecycle`).
- An erasure that died and is taken up again when the chat leads to another family
  erases that one: `family = family or get_family(...)`
  (`core/orchestration/channel_runner.py:276`). Its receipt is then done, and the family
  it was made for stays (`displaced`).
- A completed enrollment that died after it put the profile, and comes back after the
  family was paused or moved, puts the profile back as it was enrolled (`rewritten`). If
  the pause died between the alarm and its record, the record equals what the profile now
  asks, `sync_schedule` returns early (`core/orchestration/scheduling.py:22-26`), and an
  active family keeps an alarm that is off until its schedule changes again.
  `docs/product/how-it-works.md:26` says: "Enrollment creates a timezone-aware family
  alarm. Schedule changes update it; pause disables it; erase removes it."
- A model call may be refused on the cancellation of a transaction that only met another
  one, as if a ceiling had been reached (`ModelCalls`, `Conflict`).
- A closing turn saves the notes of its session again under its own correlation, without
  their words (`core/orchestration/turn_memory.py:64`). While the feed of a hundred events
  goes back to a note's first save, the page finds that one. Once it is cut off, the page
  links the note to the closing, and shows what the closing said as said to it: so
  `LinksAreTrue` speaks of notes whose saves are all read (`Uncut`), and is violated
  without that (`TurnMemory`).
- A handler that dies between the put of a note and its `turn.saved` event
  (`core/orchestration/turn_memory.py:128-141`) leaves a note without a save of its own.
  The first save the page finds is then that of the closing turn, and the page shows what
  the closing said as said to the note, though no save was cut off.
  `api/memory_episodes.py:19` says "Outgoing text requires a verified turn-to-delivery
  chain"; `LinksAreTrue` excepts such notes (`WasLogged`), and is violated without that
  (`TurnMemory`).
- Two turns of a session that are both handled again may trade places in its memory. The
  page then shows for one what was loaded for the other, if the numbers agree; the second
  part of `LinksAreTrue` is for behaviours with one crash.
- `reserve_budget` and `release_claim` of the local store do not replay an interrupted
  transaction first, and the spacing row of an outcome may be stale when its mastery row
  is not (`LocalStore`).
- All calls of the webhook claim and release under one owner name
  (`api/webhook.py:17`, `:76`, `:81`), and a release deletes the row of that owner
  (`tools/state_local.py:189-194`). The claims of a chat go with its family. So after an
  erasure a call that had its claim before it may release the claim another call made
  since, and a third call is given it too: two have it. `OneClaimant` excepts keys that an
  erasure took from a call (`taken`), and is violated without that (`LocalStore`).
  `WebhookAdmission` has no erasures, and its theorems speak of none.
- `decide` takes a model's own reply to escalate where no trigger fired, so the cooldown
  of seven days binds the trigger and not the model (`ResponsePolicy`).
- An event that is always refused ends its family's list at each close for good, and
  takes one of the attempts that all families share (`Invocation`).

## Proofs

The theorems hold for every value of the constants that meets the assumptions named
below, which TLC evaluates on the instances it checks. Each rests on an inductive
invariant, stated at the head of its module or of its section.

### Learning store

`LearningStoreProofs`, for any workers, outcomes, items, competencies and bounds:

| Theorem | Property |
|---|---|
| `StoreTypeOK` | `TypeOK` |
| `ExactlyOnce` | `AttemptsCountMarkers`: the attempts of a competency are the number of outcomes counted for it |
| `NothingReturnsUncounted` | `ReturnedMeansCounted`: what was acknowledged was counted |
| `SnapshotsGuard` | `SnapshotGuards`: the condition on the mastery row guards the spacing row |
| `StoreImplementsLedger` | `ImplementsLedger`: the store refines the atomic ledger |

They assume what the modules assume: there are finitely many outcomes and at least one,
each has an item and each item a competency, `NoRow` is not a row, and the bounds are
natural numbers.

The inductive invariant is `IInv`: the three properties, with `TypeOK` and
two parts they need. `TriesLeft`: a worker in the loop has a try left, without which the
counter's type is not preserved. `ReturningIsCounted`: a worker about to return has its
marker, the step between commit and acknowledgement. The argument is in
`SnapshotGuards`: a commit adds an attempt to the mastery row, so the row a worker read
is never written again with the value it had; if it is unchanged, no outcome of that
competency was counted since, and no row of its items moved. Hence a commit that passes
its condition writes rows computed from the current ones, which is the ledger's step.
`ExactlyOnce` needs finite cardinalities, cited from `FiniteSetTheorems`.

### Local store

`LocalStoreProofs`, for any processes, tables, programs and deaths:

| Theorem | Property |
|---|---|
| `LocalImplementsAtomicStore` | `ImplementsAtomicStore`: every behaviour of the files is one of the atomic store |
| `ClaimsAreExclusive` | `OneClaimant`: of those who claim a key, one is given it, unless an erasure took it from a call |

For the first: who is inside an operation holds the lock (`Mutex`); an operation
that recovers first acts on tables with an empty journal (`ActsOnWholeTables`); and a
table that a replay is through with is in its file (`Replayed`). The abstract tables are
the files as they will be once the journal is replayed: they change when a file is
replaced outside a transaction or a journal is written, and then as one operation says
(`RefineStep`); a replay, a death and a lock leave them as they are.

The second speaks of the same tables. A claim that was given and not taken by an erasure
is a row of them (`GivenIsThere`), and they hold one row for a key (`KeysAreOnce`), so
nobody else is given it (`GivenOnce`). The owner does not tell one call from another: a
release deletes whatever row the key has. What saves a claim is that only who knows it to
be its own releases it (`ReleasedIsHeld`), and who knows of a claim has it or has lost it
to an erasure (`HeldIsGranted`); a key that was lost so is where the property makes its
exception. What processes ask for is an agenda, and `AgendaAssumption` says of it that an
operation has read nothing before it begins, and that claims are only claimed, released
and erased with their family.

### Admission

`WebhookAdmissionProofs`, for any chats, updates, calls, limits and faults:

| Theorem | Property |
|---|---|
| `PublishedAtMostOnce` | `PublishedOnce`: one event per update |
| `LostOnlyToFaults` | `LostOnlyByFault`: an update nobody holds any more was published, refused or met a fault |
| `PublishedInsideLimits` | `PublishedWithinLimits`: what a chat published stays within its minutes, and its day if nobody knows it |

The first two rest on the claim, and each has its half of `IInv`. `OnceInv`: a call between
its claim and its publication or release has the claim row (`HoldersClaim`), so no other
call of the update is there (`OneHolder`); what it holds is unpublished
(`HeldIsUnpublished`) and what is published stays claimed (`PublishedIsClaimed`), for
updates whose bus call did not take an event while raising. `LostInv`: a claim is released
only after a fault (`ReleaseIsTroubled`), so the claim of an update without one is on its
way to the bus or there (`ClaimsAreKept`); a call that answers has seen it
(`AnsweredIsClaimed`), and so what Telegram has forgotten is claimed
(`ForgottenIsClaimed`).

The third is about counters that run ahead of the events. The reservations of a chat are
counted as a set, window by window; the events it has on the bus and the calls that passed
the minute's limit are together no more than those (`WithinGrants`), in whichever window a
slow call reserved; for a chat nobody knows, the events and the calls that passed both
limits are no more than its counter of the day (`WithinDay`). So the same unit is never
spent twice, also when a publication fails and the update is posted again. Assumed: there
are finitely many updates and at least one, each is of a chat, and the limits are at
least one.

### Invocation

`WebhookAdmissionProofs`, second half, for any families, events, workers and bounds:

| Theorem | Property |
|---|---|
| `HandlersAreSerial` | `FamilyWorkIsSerial`: two handlers of one family never run at once, with the exception the property states |
| `ResultsAreFinal` | `ResultEndsHandling`: no handler runs for an event that has a result |

From its last lease to its release an invocation holds every lease it took
(`HandlingHoldsLeases`); its scope is its chat's or its family's (`ScopeIsItsOwn`), and
the cache's scope is the same for every invocation of an event. Two handlers of a family
with a scope in common would each hold the same lease, and a result is saved only by who
holds the cache's. Assumed: the constants have their types, and no worker is named like
the close or like the values that mark a lease nobody holds. The model has no invocation
that outlives its lease (`PROJECT.json` lists that hazard), and neither have the theorems.

### Capsule answers

`CapsuleAnswersProofs`, for any messages, competencies, days and lengths of a capsule, and
any thresholds of the policy:

| Theorem | Property |
|---|---|
| `EveryAnswerIsRecorded` | `LeftMeansRecorded`: a question the session has left has its grade, in every place that records it |
| `TheStrugglingAreTold` | `StrugglingIsTold`: an answer that fires the triggers leaves an escalation |
| `AnswersImplementLog` | `ImplementsLog`: handlers, crashes and replays implement a log that is only appended to |

`IInv` has two halves. `SettleInv`: one journal record is unfinished at a time
(`OneUnderWay`), and a new one is opened only for the question behind those the session
has left, so a question has one message (`OneAnswer`); the session stands where the
unfinished answer found it or just behind (`Close`), which is why putting the session of
the journal again does no harm. Each place in the handler knows what was written before it
(`InPlace`), also when the screen lets a replay pass, so the row, the count and the move
all repeat the journal's grade, and what the session has left is settled
(`LeftIsSettled`). The log's entries are those settled answers; only the move of the
session appends to it, and every other step stutters. `AskInv`: an answer is decided after
it was counted, and nothing more of its competency is counted before it completes, so what
was due when it was decided is due when it completes (`DueIsDecided`); the escalation kept
in the journal is the one that is put, under an identity of its own (`OneId`,
`EscalationsAreJournaled`), and a completed answer has put it (`CompleteIsTold`). Assumed:
the types of the constants, days with at least one question, and earlier masteries that
are masteries.

### Model limits

`ModelCallsProofs`, for any number of families, events and calls, any limits and times:

| Theorem | Property |
|---|---|
| `CallsAreBounded` | `SpendIsBounded`: the calls made stay within the ceilings of the day and the allowances of each event |
| `FamilyIsToldOnce` | `ToldOnceADay`: a refusal is announced once a day, and again only for a fault |
| `BreakerHolds` | `OutageIsLeftAlone`: after too many failures in a row, no call before the recovery time |
| `CloseKeepsOrder` | `RecoveryKeepsOrder`: the close works for the oldest event its family has pending |

A family is worked for by its session or by the close and never by both (`OneAtAFamily`),
so an event has at most one reservation between its allowance and the day's.
`AllowanceIsBounded` counts the allowances of an event that were forgotten: each had
lasted its time, so there are no more than the clock has room for, and the calls made,
with the one being reserved, fill at most those and the current one. The clock has that
room because time is all that forgets an allowance; a receive or a retry finds the one
that is there. `DayIsBounded` is the condition of the transaction. `Told` tells a notice
that is known to be delivered from one that is not, which only a fault leaves.
`BreakersKnow` relates each breaker to the failures really met in a row, and `Admitted`
says that a process past its check has a breaker that is not open: that is what stands
between the check and the call. For the order, pending records are created one after the
other (`CreatedInOrder`), the close's list holds all that is older than any of it
(`ListIsOldest`), and the first of the list is still pending because nobody else can
finish it (`CloserIsFirst`). Assumed: the types of the constants, and limits and times of
at least one.

### Sittings

`StudySittingProofs`, for any bank, limits and number of wrong answers that end a day:

| Theorem | Property |
|---|---|
| `ShownAnswersAreCounted` | `AnsweredIsCounted`: a sitting shows only what was counted |
| `WrongEndsTheDay` | `WrongAnswersEndTheDay`: once the wrong answers end the day, nothing more is asked |
| `NothingCountedIsAskedAgain` | `CountedItemNotServedAgain`: what a sitting of the day counted is not served again |

The last two are action properties. At most the last sitting is open, and it has asked
something (`LastIsOpen`); none is open between the two puts of a change of topic
(`NoneWhileStarting`), nor once the wrong answers ended the day (`EnoughEndsTheDay`). A
turn that graded an answer holds the question its sitting asked last (`TurnIsCurrent`):
nobody else writes a sitting meanwhile, and the sweep that begins a turn left none open
that idled too long (`Awake`), so the put that follows the count goes into that sitting,
and what it puts was counted (`TurnIsCounted`). What was counted was asked
(`CountedWasAsked`), so a new question is none of those. Assumed: the limits
are at least one, and the capsule's items are of the bank.

### The daily round

`DailyRoundProofs`, for any families, days, banks, held grades and agendas:

| Theorem | Property |
|---|---|
| `OneCapsule` | `OneCapsuleADay`: a child gets the capsule of one session a day |
| `FirstDecision` | `FirstDecisionStands`: every effect of a decision is of the choice journaled first |
| `OneNotice` | `OneNoticeAWeek`: one alert of a kind in a week, and the family is told of that one |
| `SoundCapsules` | `CapsuleIsSound`: a capsule is planned once, within its limits, of the bank, without repetition, with something new when there is any |

Each is decided by a record written before anything follows it: the session of the day,
the journal of the decision, the record of the notice. `HandlerInv` says that the session
of a day is its first and only (`OneSession`), what the handler holds at each place
(`HandlerKnows`), and that all that follows a decision follows the journal (`Decisions`,
`Effects`, `Loads`). `CloseInv` says the same of the close: it holds the alert of the
record as soon as there is one (`CloseKnows`), and an alert that was put is the record's
(`AlertsKept`). `DeliveryInv` carries this through the outbox: what is in a box, what was
told and what a process is about to deliver may be said under its key (`BoxesSay`,
`ToldSay`, `DeliversAs`), and what may be said never ceases to be, because records are only
added. So a handler that dies and comes back to a box with something else to say finds
that it says the same. `CapsuleIsSound` is an action property: only a plan writes the
questions of a session, and only where there was none; what a plan returns is shown by
lemmas about `Listed` (each member at one place, none left out) and about the choices
built of it, for any order the sorts may give. Assumed: there is a day, the families are
numbers, and what is held waits for its first decision (`HeldAssumption`: the grade log of
earlier days has no human grade of it).

### Pages

`MaterialIngestProofs`, for any pages, drafts, curriculum and answers of the models:

| Theorem | Property |
|---|---|
| `SoundBank` | `BankIsSound`: what a material leaves in the bank is well formed, of the child's grade, active only if the critic was shown and accepted it or an earlier draft with its id, and not of a material that is held |
| `OneAccountEach` | `OneAccount`: a family gets one account of a material, and a promise of practice is true |

`IngestInv` says what was remembered when. Nothing is mapped, generated or kept unless the
memo says the material is safe (`SafeFirst`), and whatever is held was remembered as
unsafe (`HeldIsUnsafe`); the memo's screening is written once, so the two exclude each
other although the handler dies and the model would answer differently. The box of the
material holds one message, the one any handler sends (`OneMessage`), and a box that
promises practice was opened when an exercise was active (`ReadyIsActive`), which none
ceases to be: the memo keeps the verdicts, and an exercise put again is put as it was.
`Judged` says which draft a verdict was given to: the first of the batch with its id,
because judging goes through the batch in order and skips an id that has a verdict.
Assumed: the curriculum, rankings and batches are finite lists of their kinds, a draft is
of one of two kinds, and the bounds are numbers.

### Turns and their memory

`LearningStoreProofs`, second half, for any texts, readings, capsules and sittings:

| Theorem | Property |
|---|---|
| `SittingsForgetWords` | `ClosedSittingKeepsNoWords`: a sitting that is over keeps none of the child's words |
| `KeysFollowAnswers` | `KeyAfterAnswer`: a key goes to a model only after an answer of the child to its question |
| `ShownIsCounted` | `AnswersAreShownAsCounted`: the page shows an answer once, with the verdict its totals count |
| `TotalsAreOfTheSameAnswers` | `TotalsAgree`: the totals of the family, its topics and its days count each answer once |
| `TextIsOfItsMessage` | first part of `LinksAreTrue`: what is shown as said to a note was sent for its message, when its saves are all read and the first was logged |

For the first, the window is cleared before a sitting is put as over, and a note is
written into a sitting only while it is open (`WordsInv`). The next two come from the
journal of an answer: a question has one message that answers it, one answer is under way
at a time and is behind all others (`AnswersInv`); its grade is decided once, and the row
of the grade log, what is held for an adult, the episode and the note repeat it
(`GradesInv`, `HeldInv`, `EpisodesRepeat`, `NotesRepeat`), as does the handler, wherever it
is (`PlacesInv`). What the page has read repeated it when it was read, and the journal
only grows (`PageInv`).

The totals are sums over topics and over days. That a set is as large as its parts
together, however many they are, is `PartsAddUp`: a sum and a count that obey the same
equation differ nowhere, because they would differ on a smallest set of keys, which needs
no induction over an operator. What it takes of the state is that the grade log is finite
and every grade has a moment (`DatesInv`).

What was sent is tied to a note by the event log: before any save of a note there is one
in the handling of its own message, unless that handler died before it logged one
(`unlogged`), because a closing turn saves again only what is there, and a delivery is
logged under the message it was sent for (`LogInv`); a note that is there was logged as
saved, is about to be, or lost its event (`SavedInv`). The page takes the first save it
reads, which is the one of the note's own message when none is cut off and that one was
logged.

Assumed: `TurnsAssumption`: a capsule and a sitting have a question and no capsule has one
twice; no message is 0; earlier rows of the grade log are finitely many, of a moment each,
and of other answers; times are numbers; and `MemoryAssumption`: the bounds are numbers
and a family has finitely many questions.

### Families

`LocalStoreProofs`, second half, for any messages of a chat, families, faults and other
events; `LifecycleAssumption`, that the bounds are numbers and there is a list of what each
message may hold, is all they assume:

| Theorem | Property |
|---|---|
| `EnrollmentsAreWhole` | `EnrolledIsWhole`: the family a chat leads to has its student in both places |
| `AlarmsFollow` | `AlarmFollowsFamily`: its alarm is as its profile asks |
| `ForgottenIsGone` | `ErasedMeansGone`: what was forgotten is gone, and an erasure that began ends |

The first two and the end of an erasure are claimed when no message waits, so each half of
`ChatInv` says who is still to finish what is half done: a student that is missing belongs
to a message whose journaled enrollment is not applied, or to an erasure under way
(`WholeInv`); a schedule that is not recorded, to a message that will look at it again
(`RecordInv`); an erasure that began, to the message with the receipt (`OwedInv`). The
alarm is as recorded whenever the record is as the profile asks (`AlarmInv`), because it is
set first; that is what a replayed enrollment breaks, and why `rewritten` is excepted. The
rest says where a handler stands: what it has written by then (`EnrollPlace`,
`FamilyPlace`, `ErasePlace`), and that a lookup leads to a profile or nowhere and a family
without a profile has no schedule and no media (`RowsInv`), since the profile goes last.
Nothing comes back of an erased family (`GoneInv`): no journal names it, because the
journals of the chat go in an erasure and an identity is never given twice.

### Only model-checked

- The liveness properties, which are out of the prover's reach, as is `ENABLED`:
  `EveryAnswerCounts`, `EveryUpdateIsAcknowledged`, `EveryMessageFinishes`,
  `EveryPageIsAnswered` and `RecordedWorkCompletes`.
- The second part of `LinksAreTrue`, on the approaches that the page shows as tried before.
  It compares the window of the notes with what was loaded, and the window is a sorted
  sequence: the library's sort is defined by a permutation that is chosen, and what it
  gives for every set takes an induction over data.
- `DecisionIsSaved`, which the code violates.
- `TypeOK` is checked in `learning_store`, where it is a theorem's property; elsewhere the
  inductive invariants hold the types the proofs need.

## Not modelled, and why

Texts, prompts, formatting and translation, and what a model answers, which may be
anything; the contents of a photo, of which only what decides on it is kept. Telemetry,
the ledger of calls with its usage and cost, and cost reports, which nothing decides on.
The simulator, the demo, its recordings and `RetryingModel`, which only they use; the
judge's pages, authentication and masking of the read-only API; scripts and deployment
code, of which the timeouts and limits are taken. The daily report and the goal verifier
measure and decide nothing. The local adapters of the grade log (where a crash between
attempt and words loses the words), of media and of alarms stand beside the ones of
production, which are what is modelled. Pausing a sitting has no caller. Journals expire
after a retention longer than the days modelled. In the daily round mastery, spacing and
adapted difficulties are constants. `PROJECT.json` lists every part with its status, and
for each hazard the property that covers it or why none does.

## Plan

Done, in the order of what a mistake would cost: the learning store with its proofs,
admission, sittings, capsule answers and invocation; then pages and the outbox, families,
the daily round with decisions and the close, model limits, turns with their memory, the
local store with its refinement proof, the policy after an answer with its escalations,
events that are always refused; and the proofs of every safety property the passing runs
check, but for the part of `LinksAreTrue` named above.

Next, models: `forget:yes` in `Invocation`, which keeps no pending record; the local
adapters; mastery and spacing that move in the daily round.

Next, proofs: the type invariants of what the inductive invariants do not speak about; and
what a handler may count on across modules, such as the serial handlers of a family that
`Invocation` promises and the others assume.
