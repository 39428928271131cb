------------------------------ MODULE LocalStore ------------------------------
(***************************************************************************)
(* LocalStateStore over JsonTables: a file for each table, replaced as a   *)
(* whole; a lock file that every writer takes and that is free again when  *)
(* its holder dies; and, for the two operations that write several tables, *)
(* a journal: the new tables are written in transaction.json first, then   *)
(* one by one in their files, by name, and the journal is removed.         *)
(*                                                                         *)
(* Whoever finds a journal replays it: a process that starts, and most     *)
(* operations once they hold the lock; but not release_claim, acquire_lease,*)
(* release_lease and reserve_budget.  Readers take no lock.                *)
(***************************************************************************)
EXTENDS StoreTables, Sequences

CONSTANTS Process,
          Start,            \* the tables when a behaviour begins
          Agendas,          \* the operations that each process calls, in order
          Limit, GlobalLimit,   \* of the day's calls
          MaxFaults         \* bound on processes that die

ASSUME LocalAssumption ==
    /\ Limit \in Nat /\ GlobalLimit \in Nat /\ MaxFaults \in Nat
    /\ Nobody \notin Process
    /\ \A a \in Agendas : DOMAIN a = Process
    /\ Start = [t \in Table |-> Start[t]]
    /\ \A c, d \in Start["claims"] : c.key = d.key => c = d

\* What is asked for has read nothing yet, and claims are only claimed, released
\* and erased with their family.
ASSUME AgendaAssumption ==
    \A a \in Agendas, p \in Process : \A n \in 1..Len(a[p]) :
        LET asked == a[p][n] IN
        /\ asked = Operation(asked.kind, asked.table, asked.row)
        /\ asked.kind \in {"put", "delete"} => asked.table # "claims"

VARIABLES files,            \* the rows in the file of each table
          journal,          \* transaction.json: tables, or none of them
          lock,             \* who holds the lock
          pc, op,           \* where each process is, and in what operation
          left,             \* tables of the journal it has not replayed
          agenda, next,     \* what it has to do, and how far it is
          granted,          \* claims that calls were given, and neither gave up nor lost
                            \* to an erasure
          holds,            \* the rows of the claims that each process knows to be its own
          taken,            \* keys of claims that an erasure took from who had them
          faults

storage == <<files, journal, lock>>
control == <<pc, op, left, agenda, next>>
claims == <<granted, holds, taken>>
vars == <<storage, control, claims, faults>>

NoJournal == [t \in {} |-> {}]

\* The journal is written with its keys sorted.
ReplayOrder == <<"budgets", "claims", "families", "mastery", "operations", "outcomes",
                 "spaced", "students">>

Opening == Operation("open", "leases", Row("", Nobody, Nobody, 0))

Init ==
    /\ files = Start /\ journal = NoJournal /\ lock = Nobody
    /\ pc = [p \in Process |-> "idle"]
    /\ op = [p \in Process |-> Opening]
    /\ left = [p \in Process |-> {}]
    /\ agenda \in Agendas
    /\ next = [p \in Process |-> 1]
    /\ granted = {} /\ taken = {} /\ holds = [p \in Process |-> {}]
    /\ faults = 0

-----------------------------------------------------------------------------
Goto(p, where) == pc' = [pc EXCEPT ![p] = where]

Asks(p) == agenda[p][next[p]]

\* A claim is released by who was given it.
IsToMake(p) == Asks(p).kind = "release_claim" => Asks(p).row \in holds[p]

\* An operation is called; some read before they ask for the lock.
Call(p) ==
    /\ pc[p] = "idle" /\ next[p] <= Len(agenda[p]) /\ IsToMake(p)
    /\ op' = [op EXCEPT ![p] = Asks(p)]
    /\ Goto(p, CASE Asks(p).kind = "outcome" -> "mastery"
                 [] Asks(p).kind = "forget" -> "students"
                 [] OTHER -> "wait")
    /\ UNCHANGED <<storage, left, agenda, next, claims, faults>>

\* Who was refused the claim has nothing to release.
PassOver(p) ==
    /\ pc[p] = "idle" /\ next[p] <= Len(agenda[p]) /\ ~IsToMake(p)
    /\ next' = [next EXCEPT ![p] = @ + 1]
    /\ UNCHANGED <<storage, pc, op, left, agenda, claims, faults>>

\* record_answer_outcome reads the two rows it is to write, one by one.
ReadMastery(p) ==
    /\ pc[p] = "mastery"
    /\ op' = [op EXCEPT ![p].read.mastery = ValueOf(files["mastery"], op[p].row.student, 0)]
    /\ Goto(p, "spaced")
    /\ UNCHANGED <<storage, left, agenda, next, claims, faults>>

ReadSpaced(p) ==
    /\ pc[p] = "spaced"
    /\ op' = [op EXCEPT ![p].read.spaced = ValueOf(files["spaced"], op[p].row.student, 0)]
    /\ Goto(p, "wait")
    /\ UNCHANGED <<storage, left, agenda, next, claims, faults>>

\* forget_family lists the children it erases.
ReadStudents(p) ==
    /\ pc[p] = "students"
    /\ op' = [op EXCEPT ![p].read.students =
                {r.student : r \in {s \in files["students"] : s.family = op[p].row.family}}]
    /\ Goto(p, "wait")
    /\ UNCHANGED <<storage, left, agenda, next, claims, faults>>

\* exclusive(): who is to recover looks for a journal.
Lock(p) ==
    /\ pc[p] = "wait" /\ lock = Nobody
    /\ lock' = p
    /\ IF op[p].kind \in Recovering /\ journal # NoJournal
       THEN Goto(p, "recover") /\ left' = [left EXCEPT ![p] = DOMAIN journal]
       ELSE Goto(p, "act") /\ UNCHANGED left
    /\ UNCHANGED <<files, journal, op, agenda, next, claims, faults>>

Before(t, u) ==
    \E i, j \in 1..Len(ReplayOrder) : i < j /\ ReplayOrder[i] = t /\ ReplayOrder[j] = u

\* recover(): the tables are replaced one by one.
Replay(p) ==
    /\ pc[p] \in {"recover", "commit"}
    /\ \E t \in left[p] :
         /\ \A u \in left[p] \ {t} : Before(t, u)
         /\ files' = [files EXCEPT ![t] = journal[t]]
         /\ left' = [left EXCEPT ![p] = @ \ {t}]
    /\ UNCHANGED <<journal, lock, pc, op, agenda, next, claims, faults>>

\* The journal is removed; the operation goes on, or is over if it was its own.
Unlink(p) ==
    /\ pc[p] \in {"recover", "commit"} /\ left[p] = {}
    /\ journal' = NoJournal
    /\ Goto(p, IF pc[p] = "recover" THEN "act" ELSE "done")
    /\ UNCHANGED <<files, lock, op, left, agenda, next, claims, faults>>

Accepted(p) == Accepts(op[p], files, Limit, GlobalLimit)

\* The operation, on the tables as they are: one file is replaced at once,
\* and several by way of the journal.
Write(p) ==
    /\ pc[p] = "act" /\ Accepted(p) /\ op[p].kind \notin Journaled
    /\ files' = [t \in Table |->
                   IF t \in Written(op[p]) THEN RowsAfter(op[p], t, files[t]) ELSE files[t]]
    /\ LET isRelease == op[p].kind = "release_claim" IN
         /\ granted' = {c \in granted : ~(isRelease /\ c.by = p /\ c.row = op[p].row)}
         /\ holds' = [holds EXCEPT ![p] = {r \in @ : ~(isRelease /\ r = op[p].row)}]
    /\ Goto(p, "done")
    /\ UNCHANGED <<journal, lock, op, left, agenda, next, taken, faults>>

Transaction(p) ==
    /\ pc[p] = "act" /\ Accepted(p) /\ op[p].kind \in Journaled
    /\ journal' = [t \in Written(op[p]) |-> RowsAfter(op[p], t, files[t])]
    /\ left' = [left EXCEPT ![p] = Written(op[p])]
    /\ LET lost == {c \in granted : op[p].kind = "forget" /\ IsOwned(c.row, op[p])} IN
         /\ granted' = granted \ lost
         /\ taken' = taken \cup {c.row.key : c \in lost}
    /\ Goto(p, "commit")
    /\ UNCHANGED <<files, lock, op, agenda, next, holds, faults>>

\* What was refused: an outcome that was recorded is done, and one whose
\* mastery has changed is read again.
Refuse(p) ==
    /\ pc[p] = "act" /\ ~Accepted(p)
    /\ Goto(p, IF op[p].kind = "outcome" /\ OutcomeIsNew(op[p], files["outcomes"])
               THEN "mastery" ELSE "idle")
    /\ next' = [next EXCEPT ![p] =
                  IF op[p].kind = "outcome" /\ OutcomeIsNew(op[p], files["outcomes"])
                  THEN @ ELSE @ + 1]
    /\ lock' = Nobody
    /\ UNCHANGED <<files, journal, op, left, agenda, claims, faults>>

\* The call returns.
Return(p) ==
    /\ pc[p] = "done"
    /\ lock' = Nobody
    /\ Goto(p, "idle")
    /\ next' = [next EXCEPT ![p] = IF op[p].kind = "open" THEN @ ELSE @ + 1]
    /\ LET given == {r \in {op[p].row} : op[p].kind = "claim"} IN
         /\ granted' = granted \cup {[row |-> r, by |-> p, call |-> next[p]] : r \in given}
         /\ holds' = [holds EXCEPT ![p] = @ \cup given]
    /\ UNCHANGED <<files, journal, op, left, agenda, taken, faults>>

\* A process dies, and the lock with it; another in its place opens the store
\* and calls again what had not returned, but knows of no claim.
Die(p) ==
    /\ pc[p] # "idle" /\ faults < MaxFaults
    /\ faults' = faults + 1
    /\ lock' = IF lock = p THEN Nobody ELSE lock
    /\ op' = [op EXCEPT ![p] = Opening]
    /\ left' = [left EXCEPT ![p] = {}]
    /\ holds' = [holds EXCEPT ![p] = {}]
    /\ Goto(p, "wait")
    /\ UNCHANGED <<files, journal, agenda, next, granted, taken>>

\* The time of a lease runs out; its row counts for nothing from then on.
Lapse ==
    /\ \E lease \in files["leases"] :
         files' = [files EXCEPT !["leases"] = @ \ {lease}]
    /\ UNCHANGED <<journal, lock, control, claims, faults>>

Step(p) ==
    \/ Call(p) \/ PassOver(p) \/ ReadMastery(p) \/ ReadSpaced(p) \/ ReadStudents(p)
    \/ Lock(p) \/ Replay(p) \/ Unlink(p)
    \/ Write(p) \/ Transaction(p) \/ Refuse(p) \/ Return(p) \/ Die(p)

Next == Lapse \/ \E p \in Process : Step(p)

Spec == Init /\ [][Next]_vars

-----------------------------------------------------------------------------
\* The tables once an interrupted transaction is finished.
Recovered == [t \in Guarded |-> IF t \in DOMAIN journal THEN journal[t] ELSE files[t]]

\* An operation is performed when its file is replaced or its journal is there.
Whole == INSTANCE AtomicStore
           WITH tables <- Recovered, asked <- op, Caller <- Process,
                done <- {p \in Process : pc[p] \in {"commit", "done"}}

(***************************************************************************)
(* transaction, recover: an outcome and an erasure change all of their     *)
(* tables or none, and no put is lost to one that was interrupted, wherever*)
(* processes die; of the tables that nobody writes without recovering.     *)
(***************************************************************************)
ImplementsAtomicStore == Whole!StoreSpec

(***************************************************************************)
(* claim, release_claim: of two who claim a key only one is given it, until*)
(* the one that has it releases it or it is erased with its family,        *)
(* whatever an erasure that died has left to be replayed.  Every caller    *)
(* gives the same owner, and a release frees the row whoever has it: so    *)
(* nothing is said of a key that an erasure has taken from a call which    *)
(* may still release it, over the head of the next.                        *)
(***************************************************************************)
OneClaimant ==
    \A c, d \in granted : c.row.key = d.row.key => c = d \/ c.row.key \in taken
=============================================================================
