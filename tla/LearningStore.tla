---------------------------- MODULE LearningStore ----------------------------
(***************************************************************************)
(* record_answer_outcome over the DynamoDB store: workers that record the  *)
(* outcomes of one child, each an optimistic transaction made of separate  *)
(* round trips - read the mastery row, list the spacing rows, look the     *)
(* marker up, then a conditional transaction of three puts - with a        *)
(* bounded number of tries.                                                *)
(*                                                                         *)
(* A message is delivered at least once: a worker may die between any two  *)
(* round trips, after which the queue hands the same outcome to another,   *)
(* and a second copy may be handled while the first still is.  The verdict *)
(* may differ from one delivery to the next: the answer is graded again.   *)
(***************************************************************************)
EXTENDS OutcomeLedger

CONSTANTS Worker,
          MaxTries,         \* tries of one call: 8 in the code
          MaxFaults         \* bound on crashes, duplicates, conflicts

ASSUME StoreAssumption ==
    /\ MaxTries \in Nat \ {0}
    /\ MaxFaults \in Nat

VARIABLES pc,               \* where each worker is
          job,              \* the outcome it records, and the verdict it has
          previous,         \* the mastery row it read
          state,            \* the spacing row it read
          tries,            \* tries of the current call already spent
          acked,            \* outcomes whose call returned to the queue
          faults

workVars == <<pc, job, previous, state, tries>>
vars == <<mastery, spaced, markers, pc, job, previous, state, tries, acked, faults>>

Job == [outcome : Outcome, correct : BOOLEAN]

\* What the locals of a worker hold between two calls.
IdleJob == [outcome |-> CHOOSE o \in Outcome : TRUE, correct |-> FALSE]

CellAt(w) == CellOf(job[w].outcome)
ItemAt(w) == ItemOf[job[w].outcome]

Init ==
    /\ LedgerInit
    /\ pc = [w \in Worker |-> "idle"]
    /\ job = [w \in Worker |-> IdleJob]
    /\ previous = [w \in Worker |-> NoRow]
    /\ state = [w \in Worker |-> NoRow]
    /\ tries = [w \in Worker |-> 0]
    /\ acked = {}
    /\ faults = 0

-----------------------------------------------------------------------------
\* One round of the loop is over, and the rows it read with it.
Leave(w, where) ==
    /\ pc' = [pc EXCEPT ![w] = where]
    /\ previous' = [previous EXCEPT ![w] = NoRow]
    /\ state' = [state EXCEPT ![w] = NoRow]

\* The call is over.
Idle(w) ==
    /\ Leave(w, "idle")
    /\ job' = [job EXCEPT ![w] = IdleJob]
    /\ tries' = [tries EXCEPT ![w] = 0]

Take(w, o) ==
    /\ pc[w] = "idle"
    /\ \E correct \in BOOLEAN :
         job' = [job EXCEPT ![w] = [outcome |-> o, correct |-> correct]]
    /\ pc' = [pc EXCEPT ![w] = "mastery"]
    /\ UNCHANGED <<ledgerVars, previous, state, tries, acked>>

\* The queue hands an unacknowledged outcome to a free worker: for the first
\* time, after a failure, or while another worker is still at it.
Deliver(w, o) ==
    /\ o \notin acked
    /\ Take(w, o)
    /\ UNCHANGED faults

\* A copy of a message that was already acknowledged.
Duplicate(w, o) ==
    /\ o \in acked
    /\ faults < MaxFaults
    /\ faults' = faults + 1
    /\ Take(w, o)

ReadMastery(w) ==
    /\ pc[w] = "mastery"
    /\ previous' = [previous EXCEPT ![w] = mastery[CellAt(w)]]
    /\ pc' = [pc EXCEPT ![w] = "spaced"]
    /\ UNCHANGED <<ledgerVars, job, state, tries, acked, faults>>

ReadSpaced(w) ==
    /\ pc[w] = "spaced"
    /\ state' = [state EXCEPT ![w] = spaced[ItemAt(w)]]
    /\ pc' = [pc EXCEPT ![w] = "marker"]
    /\ UNCHANGED <<ledgerVars, job, previous, tries, acked, faults>>

\* apply_outcome finds the marker of an earlier delivery, or goes on.
FindMarker(w) ==
    /\ pc[w] = "marker"
    /\ job[w].outcome \in markers
    /\ Leave(w, "return")
    /\ UNCHANGED <<ledgerVars, job, tries, acked, faults>>

MissMarker(w) ==
    /\ pc[w] = "marker"
    /\ job[w].outcome \notin markers
    /\ pc' = [pc EXCEPT ![w] = "commit"]
    /\ UNCHANGED <<ledgerVars, job, previous, state, tries, acked, faults>>

\* Mutant of CommitHolds: the mastery row is put without its condition.
CommitUnguarded(w) == job[w].outcome \notin markers

\* The conditions of the transaction: the marker is absent and the mastery
\* row is still the one the new row was computed from.
CommitHolds(w) ==
    /\ job[w].outcome \notin markers
    /\ mastery[CellAt(w)] = previous[w]

\* Mutant of Commit: the spacing row read is not the one reviewed.
CommitFresh(w) ==
    /\ pc[w] = "commit"
    /\ CommitHolds(w)
    /\ markers' = markers \cup {job[w].outcome}
    /\ mastery' = [mastery EXCEPT ![CellAt(w)] =
                     UpdateMastery(OrFirst(previous[w], FirstMastery),
                                   job[w].correct)]
    /\ spaced' = [spaced EXCEPT ![ItemAt(w)] =
                     Review(FirstSpaced, job[w].correct)]
    /\ Leave(w, "return")
    /\ UNCHANGED <<job, tries, acked, faults>>

Commit(w) ==
    /\ pc[w] = "commit"
    /\ CommitHolds(w)
    /\ markers' = markers \cup {job[w].outcome}
    /\ mastery' = [mastery EXCEPT ![CellAt(w)] =
                     UpdateMastery(OrFirst(previous[w], FirstMastery),
                                   job[w].correct)]
    /\ spaced' = [spaced EXCEPT ![ItemAt(w)] =
                     Review(OrFirst(state[w], FirstSpaced), job[w].correct)]
    /\ Leave(w, "return")
    /\ UNCHANGED <<job, tries, acked, faults>>

\* Mutant of Retried: the number of tries is not bounded.
RetriedForever(w) ==
    /\ tries' = [tries EXCEPT ![w] = @ + 1]
    /\ Leave(w, "mastery")

\* The loop goes round after a cancellation, and gives up after MaxTries.
Retried(w) ==
    /\ tries' = [tries EXCEPT ![w] = @ + 1]
    /\ Leave(w, IF tries[w] + 1 < MaxTries THEN "mastery" ELSE "busy")

Cancelled(w) ==
    /\ pc[w] = "commit"
    /\ ~CommitHolds(w)
    /\ Retried(w)
    /\ UNCHANGED <<ledgerVars, job, acked, faults>>

\* DynamoDB also cancels a transaction that merely met another in flight.
Conflicted(w) ==
    /\ pc[w] = "commit"
    /\ faults < MaxFaults
    /\ faults' = faults + 1
    /\ Retried(w)
    /\ UNCHANGED <<ledgerVars, job, acked>>

\* The call returns: the message is deleted from the queue.
Return(w) ==
    /\ pc[w] = "return"
    /\ acked' = acked \cup {job[w].outcome}
    /\ Idle(w)
    /\ UNCHANGED <<ledgerVars, faults>>

\* Mutant of RaiseBusy: the loop ends without raising.
ReturnBusy(w) ==
    /\ pc[w] = "busy"
    /\ acked' = acked \cup {job[w].outcome}
    /\ Idle(w)
    /\ UNCHANGED <<ledgerVars, faults>>

\* "learning state was busy; retry the same outcome": the message stays queued.
RaiseBusy(w) ==
    /\ pc[w] = "busy"
    /\ Idle(w)
    /\ UNCHANGED <<ledgerVars, acked, faults>>

\* Mutant of Crash: the message was deleted before it was handled.
CrashAfterDelete(w) ==
    /\ pc[w] # "idle"
    /\ faults < MaxFaults
    /\ faults' = faults + 1
    /\ acked' = acked \cup {job[w].outcome}
    /\ Idle(w)
    /\ UNCHANGED ledgerVars

\* The worker dies, or the answer to its transaction is lost on the way back.
Crash(w) ==
    /\ pc[w] # "idle"
    /\ faults < MaxFaults
    /\ faults' = faults + 1
    /\ Idle(w)
    /\ UNCHANGED <<ledgerVars, acked>>

Work(w) ==
    \/ ReadMastery(w) \/ ReadSpaced(w) \/ FindMarker(w) \/ MissMarker(w)
    \/ Commit(w) \/ Cancelled(w) \/ Return(w) \/ RaiseBusy(w)

Next ==
    \E w \in Worker :
        \/ \E o \in Outcome : Deliver(w, o) \/ Duplicate(w, o)
        \/ Work(w)
        \/ Conflicted(w)
        \/ Crash(w)

\* A message that was never acknowledged is offered again to a free worker.
Redeliver(o) == \E w \in Worker : Deliver(w, o)

Fairness ==
    /\ \A w \in Worker : WF_vars(Work(w))
    /\ \A o \in Outcome : SF_vars(Redeliver(o))

Safety == Init /\ [][Next]_vars
Spec == Safety /\ Fairness

-----------------------------------------------------------------------------
PC == {"idle", "mastery", "spaced", "marker", "commit", "return", "busy"}

TypeOK ==
    /\ LedgerTypeOK
    /\ pc \in [Worker -> PC]
    /\ job \in [Worker -> Job]
    /\ previous \in [Worker -> Mastery \cup {NoRow}]
    /\ state \in [Worker -> SpacedRow \cup {NoRow}]
    /\ tries \in [Worker -> 0..MaxTries]
    /\ acked \subseteq Outcome
    /\ faults \in 0..MaxFaults

(***************************************************************************)
(* record_answer_outcome returns only for an outcome that was counted: the *)
(* queue never deletes the message of an answer the store did not keep.    *)
(***************************************************************************)
ReturnedMeansCounted == acked \subseteq markers

\* What makes it so: a call that is about to return has its marker.
ReturningIsCounted ==
    \A w \in Worker : pc[w] = "return" => job[w].outcome \in markers

\* Only the round that gives up has spent its last try.
TriesLeft == \A w \in Worker : pc[w] # "busy" => tries[w] < MaxTries

(***************************************************************************)
(* What makes the commit sound: attempts only grow, so a mastery row that  *)
(* is still the one read proves that no outcome of its competency was      *)
(* counted since, and that the spacing row read after it is still current. *)
(* The transaction puts the spacing row with no condition of its own.      *)
(***************************************************************************)
SnapshotGuards ==
    \A w \in Worker :
        /\ pc[w] \in {"spaced", "marker", "commit"}
             => OrFirst(previous[w], FirstMastery).attempts <= Attempts(CellAt(w))
        /\ /\ pc[w] \in {"marker", "commit"}
           /\ previous[w] = mastery[CellAt(w)]
           => state[w] = spaced[ItemAt(w)]

\* The worker loop implements the one-step ledger (every row, every step).
ImplementsLedger == LedgerSpec

(***************************************************************************)
(* Whatever crashes, conflicts and busy loops come in the way, the answer  *)
(* of a message that keeps being offered is counted in the end.            *)
(***************************************************************************)
EveryAnswerCounts == \A o \in Outcome : <>(o \in markers)
=============================================================================
