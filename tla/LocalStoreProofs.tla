-------------------------- MODULE LocalStoreProofs --------------------------
(***************************************************************************)
(* For any processes, tables to begin with, agendas and deaths: the files, *)
(* the lock and the journal together behave as one store whose operations  *)
(* happen at a moment.  Only who holds the lock writes, and nobody who     *)
(* recovers goes on before the journal is empty; so the tables, as they    *)
(* will be once the journal is replayed, change when a file is replaced or *)
(* a journal is written, and at no other time.                             *)
(*                                                                         *)
(* A claim that was given is a row of those tables, and they hold one row  *)
(* for a key; so no two claims of a key are given.                         *)
(*                                                                         *)
(* The second half is about what is stored of one chat's family, in that   *)
(* store or another, for any messages, crashes and replays: the handlers   *)
(* of FamilyLifecycle, an instance here called Chat.                       *)
(***************************************************************************)
EXTENDS LocalStore, FamilyRows, SequenceTheorems, TLAPS

Locked == {"recover", "act", "commit", "done"}
Replaying == {"recover", "commit"}

Shape ==
    /\ files = [t \in Table |-> files[t]]
    /\ op = [p \in Process |-> op[p]]
    /\ pc = [p \in Process |-> pc[p]]
    /\ left = [p \in Process |-> left[p]]
    /\ DOMAIN journal \subseteq Erased

Mutex == \A p \in Process : pc[p] \in Locked => lock = p

ActsOnWholeTables ==
    \A p \in Process :
        pc[p] = "act" /\ op[p].kind \in Recovering => DOMAIN journal = {}

\* What was replayed is in its file.
Replayed ==
    \A p \in Process : pc[p] \in Replaying =>
        /\ left[p] \subseteq DOMAIN journal
        /\ \A t \in DOMAIN journal \ left[p] : files[t] = journal[t]

IInv == Shape /\ Mutex /\ ActsOnWholeTables /\ Replayed

-----------------------------------------------------------------------------
LEMMA InitIInv == Init => IInv
<1> SUFFICES ASSUME Init PROVE IInv
  OBVIOUS
<1>1. Start = [t \in Table |-> Start[t]]
  BY LocalAssumption
<1>2. Shape
  BY <1>1 DEF Init, Shape, NoJournal
<1>3. QED
  BY <1>2 DEF Init, IInv, Mutex, ActsOnWholeTables, Replayed, Locked, Replaying

\* What a transaction writes is among what is erased.
LEMMA JournalDomain ==
    ASSUME NEW o, o.kind \in Journaled
    PROVE  Written(o) \subseteq Erased
  BY DEF Written, Journaled, Erased, Table

\* An operation that does not recover leaves alone what others guard.
LEMMA UnguardedWrites ==
    ASSUME NEW o, o.kind \notin Recovering
    PROVE  Written(o) \cap Guarded = {}
  BY DEF Written, Recovering, Guarded, Table
\* Calls and reads before the lock: one process moves among what is not locked.
LEMMA OutsideStep ==
    ASSUME IInv, NEW p \in Process, pc[p] \notin Locked,
           pc'[p] \notin Locked, pc' = [pc EXCEPT ![p] = pc'[p]],
           op' = [op EXCEPT ![p] = op'[p]], left' = left,
           UNCHANGED storage
    PROVE  IInv'
  BY DEF IInv, Shape, Mutex, ActsOnWholeTables, Replayed, Locked, Replaying, storage

LEMMA StepIInv == IInv /\ [Next]_vars => IInv'
<1> SUFFICES ASSUME IInv, [Next]_vars PROVE IInv'
  OBVIOUS
<1> USE DEF IInv, Shape, Mutex, ActsOnWholeTables, Replayed, Locked, Replaying, Goto
<1>1. ASSUME Lapse PROVE IInv'
  BY <1>1 DEF Lapse, control, Erased, Table
<1>2. ASSUME NEW p \in Process, Call(p) PROVE IInv'
  <2>1. pc'[p] \in {"mastery", "students", "wait"}
    BY <1>2 DEF Call
  <2>2. QED
    BY <1>2, <2>1, OutsideStep DEF Call, storage
<1>3. ASSUME NEW p \in Process, ReadMastery(p) \/ ReadSpaced(p) \/ ReadStudents(p)
      PROVE  IInv'
  BY <1>3, OutsideStep DEF ReadMastery, ReadSpaced, ReadStudents, storage
<1>4. ASSUME NEW p \in Process, Lock(p) PROVE IInv'
  <2>1. \A q \in Process : pc[q] \notin Locked
    BY <1>4, LocalAssumption DEF Lock
  <2>2. CASE op[p].kind \in Recovering /\ journal # NoJournal
    BY <1>4, <2>1, <2>2 DEF Lock
  <2>3. CASE op[p].kind \in Recovering /\ journal = NoJournal
    BY <1>4, <2>1, <2>3 DEF Lock, NoJournal
  <2>4. CASE op[p].kind \notin Recovering
    BY <1>4, <2>1, <2>4 DEF Lock
  <2>5. QED
    BY <2>2, <2>3, <2>4
<1>5. ASSUME NEW p \in Process, Replay(p) PROVE IInv'
  <2>1. PICK t \in left[p] :
           /\ files' = [files EXCEPT ![t] = journal[t]]
           /\ left' = [left EXCEPT ![p] = @ \ {t}]
    BY <1>5 DEF Replay
  <2>2. \A q \in Process \ {p} : pc[q] \notin Locked
    BY <1>5 DEF Replay
  <2>3. t \in Table
    BY <1>5 DEF Replay, Erased
  <2>4. Shape'
    BY <1>5, <2>1 DEF Replay
  <2>5. Replayed'
    BY <1>5, <2>1, <2>2, <2>3 DEF Replay
  <2>6. QED
    BY <1>5, <2>2, <2>4, <2>5 DEF Replay
<1>6. ASSUME NEW p \in Process, Unlink(p) PROVE IInv'
  <2>1. \A q \in Process \ {p} : pc[q] \notin Locked
    BY <1>6 DEF Unlink
  <2>2. DOMAIN journal' = {}
    BY <1>6 DEF Unlink, NoJournal
  <2>3. QED
    BY <1>6, <2>1, <2>2 DEF Unlink
<1>7. ASSUME NEW p \in Process, Write(p) PROVE IInv'
  <2>1. \A q \in Process \ {p} : pc[q] \notin Locked
    BY <1>7 DEF Write
  <2>2. QED
    BY <1>7, <2>1 DEF Write
<1>8. ASSUME NEW p \in Process, Transaction(p) PROVE IInv'
  <2>1. \A q \in Process \ {p} : pc[q] \notin Locked
    BY <1>8 DEF Transaction
  <2>2. DOMAIN journal' = Written(op[p]) /\ Written(op[p]) \subseteq Erased
    BY <1>8, JournalDomain DEF Transaction
  <2>3. left'[p] = DOMAIN journal' /\ pc'[p] = "commit"
    BY <1>8, <2>2 DEF Transaction
  <2>4. QED
    BY <1>8, <2>1, <2>2, <2>3 DEF Transaction
<1>9. ASSUME NEW p \in Process, Refuse(p) \/ Return(p) PROVE IInv'
  <2>1. \A q \in Process \ {p} : pc[q] \notin Locked
    BY <1>9 DEF Refuse, Return
  <2>2. pc'[p] \notin Locked /\ pc' = [pc EXCEPT ![p] = pc'[p]]
    BY <1>9 DEF Refuse, Return
  <2>3. files' = files /\ journal' = journal /\ op' = op /\ left' = left
    BY <1>9 DEF Refuse, Return
  <2>4. QED
    BY <2>1, <2>2, <2>3
<1>10. ASSUME NEW p \in Process, Die(p) PROVE IInv'
  <2>1. \A q \in Process \ {p} : pc[q] \in Locked => lock' = q
    BY <1>10 DEF Die
  <2>2. pc'[p] = "wait"
    BY <1>10 DEF Die
  <2>3. QED
    BY <1>10, <2>1, <2>2 DEF Die
<1>11. CASE UNCHANGED vars
  BY <1>11 DEF vars, storage, control
<1>12. ASSUME NEW p \in Process, PassOver(p) PROVE IInv'
  BY <1>12 DEF PassOver, storage
<1>13. QED
  BY <1>1, <1>2, <1>3, <1>4, <1>5, <1>6, <1>7, <1>8, <1>9, <1>10, <1>11, <1>12 DEF Next, Step
THEOREM LocalInvariant == Spec => []IInv
  BY InitIInv, StepIInv, PTL DEF Spec

-----------------------------------------------------------------------------
\* The abstract store writes in its tables what the local one does.
LEMMA SameGuarded == Whole!Guarded = Guarded
  BY DEF Whole!Guarded, Guarded, Whole!Table, Table

LEMMA SameWritten ==
    ASSUME NEW o
    PROVE  Whole!Written(o) = Written(o)
  BY DEF Whole!Written, Written, Whole!Erased, Erased, Whole!Table, Table

LEMMA SameRows ==
    ASSUME NEW o, NEW t, NEW rows
    PROVE  Whole!RowsAfter(o, t, rows) = RowsAfter(o, t, rows)
<1>1. ASSUME NEW r PROVE Whole!PutRow(rows, r) = PutRow(rows, r)
  BY DEF Whole!PutRow, PutRow
<1>2. QED
  BY Zenon DEF Whole!RowsAfter, RowsAfter, Whole!PutRow, PutRow, Whole!Row, Row,
     Whole!ValueOf, ValueOf, Whole!IsOwned, IsOwned, Whole!Everyone, Everyone,
     Whole!Nobody, Nobody

LEMMA SameGuards ==
    ASSUME NEW o, NEW rows
    PROVE  /\ Whole!OutcomeIsNew(o, rows) <=> OutcomeIsNew(o, rows)
           /\ Whole!Unchanged(o, rows) <=> Unchanged(o, rows)
  BY Zenon DEF Whole!OutcomeIsNew, OutcomeIsNew, Whole!Unchanged, Unchanged,
     Whole!Has, Has, Whole!ValueOf, ValueOf

\* A performed operation, in the terms of this module.
Effect(p) ==
    /\ op[p].kind = "outcome" =>
         /\ OutcomeIsNew(op[p], Recovered["outcomes"])
         /\ Unchanged(op[p], Recovered["mastery"])
    /\ Recovered' = [t \in Guarded |->
                        IF t \in Written(op[p]) THEN RowsAfter(op[p], t, Recovered[t])
                        ELSE Recovered[t]]

Performed == {p \in Process : pc[p] \in {"commit", "done"}}

\* Nothing changes for who is not told of it: an operation is asked for.
LEMMA AskStep ==
    ASSUME Shape, NEW p \in Process, p \notin Performed,
           op' = [op EXCEPT ![p] = op'[p]],
           Performed' = Performed, Recovered' = Recovered
    PROVE  Whole!StoreNext
  BY DEF Whole!StoreNext, Whole!Ask, Shape, Performed

\* A call returns, or who called is no more.
LEMMA LeaveStep ==
    ASSUME Shape, NEW p \in Process, p \in Performed,
           op' = [op EXCEPT ![p] = op'[p]],
           Performed' = Performed \ {p}, Recovered' = Recovered
    PROVE  Whole!StoreNext
  BY DEF Whole!StoreNext, Whole!Leave, Shape, Performed

LEMMA PerformStep ==
    ASSUME NEW p \in Process, p \notin Performed, op' = op,
           Performed' = Performed \cup {p}, Effect(p)
    PROVE  Whole!StoreNext
<1>1. /\ op[p].kind = "outcome" =>
           /\ Whole!OutcomeIsNew(op[p], Recovered["outcomes"])
           /\ Whole!Unchanged(op[p], Recovered["mastery"])
  BY SameGuards DEF Effect
<1>2. Recovered' = [t \in Whole!Guarded |->
                      IF t \in Whole!Written(op[p])
                      THEN Whole!RowsAfter(op[p], t, Recovered[t]) ELSE Recovered[t]]
  BY SameGuarded, SameWritten, SameRows DEF Effect
<1>3. Whole!Perform(p)
  BY <1>1, <1>2 DEF Whole!Perform, Performed
<1>4. QED
  BY <1>3 DEF Whole!StoreNext

\* An outcome that is accepted is new, and the mastery is the one read.
LEMMA AcceptedOutcome ==
    ASSUME NEW p \in Process, Accepted(p), op[p].kind = "outcome",
           DOMAIN journal = {}
    PROVE  /\ OutcomeIsNew(op[p], Recovered["outcomes"])
           /\ Unchanged(op[p], Recovered["mastery"])
<1>1. OutcomeIsNew(op[p], files["outcomes"]) /\ Unchanged(op[p], files["mastery"])
  BY DEF Accepted, Accepts
<1>2. Recovered["outcomes"] = files["outcomes"] /\ Recovered["mastery"] = files["mastery"]
  BY DEF Recovered, Guarded, Table
<1>3. QED
  BY <1>1, <1>2

LEMMA InitStore == Init => Whole!StoreInit
  BY DEF Init, Whole!StoreInit, Recovered, Whole!Guarded, Guarded, Whole!Table, Table

LEMMA RefineStep == IInv /\ [Next]_vars => [Whole!StoreNext]_Whole!storeVars
<1> SUFFICES ASSUME IInv, [Next]_vars
             PROVE  Whole!StoreNext \/ UNCHANGED Whole!storeVars
  BY DEF Whole!storeVars
<1> USE DEF IInv, Shape, Mutex, ActsOnWholeTables, Replayed, Locked, Replaying, Goto, Performed
<1>1. ASSUME Lapse PROVE UNCHANGED Whole!storeVars
  BY <1>1 DEF Lapse, Whole!storeVars, Recovered, Guarded, Table, control
<1>2. ASSUME NEW p \in Process,
             Call(p) \/ ReadMastery(p) \/ ReadSpaced(p) \/ ReadStudents(p)
      PROVE  Whole!StoreNext
  <2>1. UNCHANGED <<files, journal>> /\ op' = [op EXCEPT ![p] = op'[p]]
    BY <1>2 DEF Call, ReadMastery, ReadSpaced, ReadStudents, storage
  <2>2. p \notin Performed /\ Performed' = Performed
    BY <1>2 DEF Call, ReadMastery, ReadSpaced, ReadStudents
  <2>3. QED
    BY <2>1, <2>2, AskStep DEF Recovered
<1>3. ASSUME NEW p \in Process, Lock(p) \/ Refuse(p) PROVE UNCHANGED Whole!storeVars
  <2>1. UNCHANGED <<files, journal, op>>
    BY <1>3 DEF Lock, Refuse
  <2>2. Performed' = Performed
    BY <1>3 DEF Lock, Refuse
  <2>3. QED
    BY <2>1, <2>2 DEF Whole!storeVars, Recovered
<1>4. ASSUME NEW p \in Process, Replay(p) PROVE UNCHANGED Whole!storeVars
  <2>1. PICK t \in DOMAIN journal : files' = [files EXCEPT ![t] = journal[t]]
    BY <1>4 DEF Replay
  <2>2. Recovered' = Recovered
    BY <1>4, <2>1 DEF Replay, Recovered, Guarded
  <2>3. UNCHANGED <<op, pc>>
    BY <1>4 DEF Replay
  <2>4. QED
    BY <2>2, <2>3 DEF Whole!storeVars
<1>5. ASSUME NEW p \in Process, Unlink(p)
      PROVE  Whole!StoreNext \/ UNCHANGED Whole!storeVars
  <2>1. \A t \in DOMAIN journal : files[t] = journal[t]
    BY <1>5 DEF Unlink
  <2>2. Recovered' = Recovered
    BY <1>5, <2>1 DEF Unlink, Recovered, NoJournal
  <2>3. op' = op /\ Performed' = Performed
    BY <1>5 DEF Unlink
  <2>4. QED
    BY <2>2, <2>3 DEF Whole!storeVars
<1>6. ASSUME NEW p \in Process, Write(p) PROVE Whole!StoreNext
  <2>1. Recovered' = [t \in Guarded |->
                        IF t \in Written(op[p]) THEN RowsAfter(op[p], t, Recovered[t])
                        ELSE Recovered[t]]
    <3>1. CASE op[p].kind \in Recovering
      BY <1>6, <3>1 DEF Write, Recovered, Guarded
    <3>2. CASE op[p].kind \notin Recovering
      BY <1>6, <3>2, UnguardedWrites DEF Write, Recovered, Guarded
    <3>3. QED
      BY <3>1, <3>2
  <2>2. op[p].kind # "outcome"
    BY <1>6 DEF Write, Journaled
  <2>3. Performed' = Performed \cup {p} /\ p \notin Performed /\ op' = op
    BY <1>6 DEF Write
  <2>4. QED
    BY <2>1, <2>2, <2>3, PerformStep DEF Effect
<1>7. ASSUME NEW p \in Process, Transaction(p) PROVE Whole!StoreNext
  <2>1. DOMAIN journal = {}
    BY <1>7 DEF Transaction, Journaled, Recovering
  <2>2. Recovered' = [t \in Guarded |->
                        IF t \in Written(op[p]) THEN RowsAfter(op[p], t, Recovered[t])
                        ELSE Recovered[t]]
    BY <1>7, <2>1 DEF Transaction, Recovered
  <2>3. Performed' = Performed \cup {p} /\ p \notin Performed /\ op' = op
    BY <1>7 DEF Transaction
  <2>4. op[p].kind = "outcome" =>
          /\ OutcomeIsNew(op[p], Recovered["outcomes"])
          /\ Unchanged(op[p], Recovered["mastery"])
    BY <1>7, <2>1, AcceptedOutcome DEF Transaction
  <2>5. QED
    BY <2>2, <2>3, <2>4, PerformStep DEF Effect
<1>8. ASSUME NEW p \in Process, Return(p) PROVE Whole!StoreNext
  <2>1. UNCHANGED <<files, journal>> /\ op' = [op EXCEPT ![p] = op'[p]]
    BY <1>8 DEF Return
  <2>2. p \in Performed /\ Performed' = Performed \ {p}
    BY <1>8 DEF Return
  <2>3. QED
    BY <2>1, <2>2, LeaveStep DEF Recovered
<1>9. ASSUME NEW p \in Process, Die(p) PROVE Whole!StoreNext
  <2>1. UNCHANGED <<files, journal>> /\ op' = [op EXCEPT ![p] = op'[p]]
    BY <1>9 DEF Die
  <2>2. Performed' = Performed \ {p}
    BY <1>9 DEF Die
  <2>3. QED
    BY <2>1, <2>2, AskStep, LeaveStep DEF Recovered
<1>10. CASE UNCHANGED vars
  BY <1>10 DEF vars, storage, control, Whole!storeVars, Recovered
<1>11. ASSUME NEW p \in Process, PassOver(p) PROVE UNCHANGED Whole!storeVars
  BY <1>11 DEF PassOver, storage, Whole!storeVars, Recovered
<1>12. QED
  BY <1>1, <1>2, <1>3, <1>4, <1>5, <1>6, <1>7, <1>8, <1>9, <1>10, <1>11 DEF Next, Step

(***************************************************************************)
(* The journal of the local store is worth what it is for: whatever dies,  *)
(* an outcome and an erasure take place in all of their tables or in none, *)
(* and what a call that returned has written stays.                        *)
(***************************************************************************)
THEOREM LocalImplementsAtomicStore == Spec => ImplementsAtomicStore
<1>1. Init => Whole!StoreInit
  BY InitStore
<1>2. IInv /\ [Next]_vars => [Whole!StoreNext]_Whole!storeVars
  BY RefineStep
<1>3. QED
  BY <1>1, <1>2, LocalInvariant, PTL DEF Spec, ImplementsAtomicStore, Whole!StoreSpec

-----------------------------------------------------------------------------
(***************************************************************************)
(* Claims.  Who is given a claim has its row in the file, and in whatever  *)
(* journal is left to be replayed: a claim is made when there is none, and *)
(* an erasure keeps the rows it does not own.  The row is released by who  *)
(* was given the claim, whom no erasure has taken it from: so by nobody    *)
(* else.                                                                   *)
(***************************************************************************)
Asked(p) ==
    /\ op[p] = [kind |-> op[p].kind, table |-> op[p].table, row |-> op[p].row, read |-> op[p].read]
    /\ op[p].kind # "open" =>
         \E n \in 1..Len(agenda[p]) :
            op[p].kind = agenda[p][n].kind /\ op[p].table = agenda[p][n].table

AsAsked ==
    /\ agenda \in Agendas
    /\ next = [p \in Process |-> next[p]] /\ holds = [p \in Process |-> holds[p]]
    /\ \A p \in Process : next[p] \in Nat \ {0} /\ Asked(p)
    /\ \A p \in Process : pc[p] = "commit" => op[p].kind \in Journaled

Claimed(p) == pc[p] = "done" /\ op[p].kind = "claim"

\* The row of a claim that was given, or is about to be.
IsThere(row) ==
    row \in files["claims"] /\ ("claims" \in DOMAIN journal => row \in journal["claims"])

GivenIsThere ==
    /\ \A c \in granted : c.row.key \notin taken => IsThere(c.row)
    /\ \A p \in Process : Claimed(p) => IsThere(op[p].row)

OneRowAKey(rows) == \A c, d \in rows : c.key = d.key => c = d

KeysAreOnce ==
    OneRowAKey(files["claims"]) /\ ("claims" \in DOMAIN journal => OneRowAKey(journal["claims"]))

\* What was given, or is about to be, was given to no other.
GivenOnce ==
    /\ OneClaimant
    /\ \A p \in Process, c \in granted :
         Claimed(p) /\ c.row.key = op[p].row.key => c.row.key \in taken

\* Who knows of a claim has it, or has lost it to an erasure.
HeldIsGranted ==
    \A p \in Process : \A r \in holds[p] :
        r.key \in taken \/ \E c \in granted : c.by = p /\ c.row = r

\* Who is releasing a claim knows of it.
ReleasedIsHeld ==
    \A p \in Process :
        pc[p] \notin {"idle", "done"} /\ op[p].kind = "release_claim" => op[p].row \in holds[p]

Stored == GivenIsThere /\ KeysAreOnce
Known == GivenOnce /\ HeldIsGranted

ClaimsInv == AsAsked /\ Stored /\ Known /\ ReleasedIsHeld

LEMMA OpeningIs == Opening.kind = "open" /\ Opening = [kind |-> Opening.kind, table |-> Opening.table,
                                                       row |-> Opening.row, read |-> Opening.read]
  BY DEF Opening, Operation

\* What a step does with what was asked.
LEMMA AskedStays ==
    ASSUME NEW p \in Process, Asked(p), UNCHANGED agenda,
           op'[p] = op[p] \/ op'[p] = Opening \/ \E r : op'[p] = [op[p] EXCEPT !.read = r]
    PROVE  /\ Asked(p)'
           /\ \/ op'[p].kind = "open"
              \/ op'[p].kind = op[p].kind /\ op'[p].table = op[p].table /\ op'[p].row = op[p].row
<1>1. CASE op'[p] = op[p]
  BY <1>1 DEF Asked
<1>2. CASE op'[p] = Opening
  BY <1>2, OpeningIs DEF Asked
<1>3. ASSUME NEW r, op'[p] = [op[p] EXCEPT !.read = r]
      PROVE  /\ Asked(p)'
             /\ op'[p].kind = op[p].kind /\ op'[p].table = op[p].table /\ op'[p].row = op[p].row
  <2>1. op'[p] = [kind |-> op[p].kind, table |-> op[p].table, row |-> op[p].row, read |-> r]
    BY <1>3 DEF Asked
  <2> QED
    BY <2>1 DEF Asked
<1> QED
  BY <1>1, <1>2, <1>3

\* One process moves, and asks for nothing new.
LEMMA ProcessMoves ==
    ASSUME IInv, ClaimsInv, NEW p \in Process, UNCHANGED agenda,
           op' = [op EXCEPT ![p] = op'[p]], pc' = [pc EXCEPT ![p] = pc'[p]],
           op'[p] = op[p] \/ op'[p] = Opening \/ \E r : op'[p] = [op[p] EXCEPT !.read = r],
           pc'[p] = "commit" => op'[p].kind \in Journaled,
           next' = [next EXCEPT ![p] = next'[p]], next'[p] \in Nat \ {0},
           holds' = [holds EXCEPT ![p] = holds'[p]]
    PROVE  /\ AsAsked'
           /\ \A q \in Process \ {p} :
                op'[q] = op[q] /\ pc'[q] = pc[q] /\ next'[q] = next[q] /\ holds'[q] = holds[q]
           /\ \/ op'[p].kind = "open"
              \/ op'[p].kind = op[p].kind /\ op'[p].table = op[p].table /\ op'[p].row = op[p].row
<1>1. /\ Asked(p)'
      /\ \/ op'[p].kind = "open"
         \/ op'[p].kind = op[p].kind /\ op'[p].table = op[p].table /\ op'[p].row = op[p].row
  BY AskedStays DEF ClaimsInv, AsAsked
<1>2. \A q \in Process \ {p} :
         op'[q] = op[q] /\ pc'[q] = pc[q] /\ next'[q] = next[q] /\ holds'[q] = holds[q]
  BY DEF IInv, Shape, ClaimsInv, AsAsked
<1>3. \A q \in Process : Asked(q)'
  BY <1>1, <1>2, AskedStays DEF ClaimsInv, AsAsked
<1>4. next' = [q \in Process |-> next'[q]] /\ holds' = [q \in Process |-> holds'[q]]
  BY DEF ClaimsInv, AsAsked
<1>5. AsAsked'
  BY <1>2, <1>3, <1>4 DEF ClaimsInv, AsAsked
<1> QED
  BY <1>1, <1>2, <1>5

\* A call is made.
LEMMA CallClaims ==
    ASSUME IInv, ClaimsInv, NEW p \in Process, Call(p) PROVE ClaimsInv'
<1>a. PICK a : a = Asks(p)
  OBVIOUS
<1>b. PICK n \in 1..Len(agenda[p]) : n = next[p] /\ a = agenda[p][n]
  BY <1>a DEF Call, Asks, ClaimsInv, AsAsked
<1>1. a = Operation(a.kind, a.table, a.row)
  BY <1>b, AgendaAssumption DEF ClaimsInv, AsAsked
<1>2. /\ op' = [op EXCEPT ![p] = a] /\ UNCHANGED <<files, journal, agenda, next>>
      /\ UNCHANGED <<granted, holds, taken>>
      /\ a.kind = "release_claim" => a.row \in holds[p]
      /\ \E where \in {"mastery", "students", "wait"} : pc' = [pc EXCEPT ![p] = where]
  BY <1>a DEF Call, IsToMake, Goto, storage, claims
<1>3. /\ op'[p] = a /\ pc'[p] \in {"mastery", "students", "wait"}
      /\ pc' = [pc EXCEPT ![p] = pc'[p]]
      /\ \A q \in Process \ {p} : op'[q] = op[q] /\ pc'[q] = pc[q]
  BY <1>2 DEF IInv, Shape
<1>4. Asked(p)'
  <2>1. a = [kind |-> a.kind, table |-> a.table, row |-> a.row, read |-> a.read]
    BY <1>1 DEF Operation
  <2> QED
    BY <1>2, <1>3, <1>b, <2>1 DEF Asked
<1>5. \A q \in Process \ {p} : Asked(q)'
  BY <1>2, <1>3 DEF Asked, ClaimsInv, AsAsked
<1>6. AsAsked'
  BY <1>2, <1>3, <1>4, <1>5 DEF ClaimsInv, AsAsked
<1>7. ReleasedIsHeld'
  BY <1>2, <1>3 DEF ClaimsInv, ReleasedIsHeld
<1>8. \A q \in Process : Claimed(q)' => Claimed(q) /\ op'[q] = op[q]
  BY <1>3 DEF Claimed
<1>9. Stored' /\ Known'
  BY <1>2, <1>8 DEF ClaimsInv, Stored, Known, GivenIsThere, IsThere, KeysAreOnce, GivenOnce, OneClaimant,
                    HeldIsGranted
<1> QED
  BY <1>6, <1>7, <1>9 DEF ClaimsInv

LEMMA PassOverClaims ==
    ASSUME IInv, ClaimsInv, NEW p \in Process, PassOver(p) PROVE ClaimsInv'
<1>1. /\ UNCHANGED <<files, journal, pc, op, agenda, granted, holds, taken>>
      /\ next' = [next EXCEPT ![p] = @ + 1]
  BY DEF PassOver, storage, claims
<1>2. AsAsked'
  BY <1>1 DEF ClaimsInv, AsAsked, Asked
<1> QED
  BY <1>1, <1>2 DEF ClaimsInv, Stored, Known, GivenIsThere, IsThere, Claimed, KeysAreOnce, GivenOnce,
                    OneClaimant, HeldIsGranted, ReleasedIsHeld, OneRowAKey

\* A call returns: who made a claim has it.
LEMMA ReturnClaims ==
    ASSUME IInv, ClaimsInv, NEW p \in Process, Return(p) PROVE ClaimsInv'
<1>a. PICK given : given = {r \in {op[p].row} : op[p].kind = "claim"}
  OBVIOUS
<1>b. PICK new : new = {[row |-> r, by |-> p, call |-> next[p]] : r \in given}
  OBVIOUS
<1>1. /\ pc[p] = "done" /\ pc' = [pc EXCEPT ![p] = "idle"]
      /\ UNCHANGED <<files, journal, op, agenda, taken>>
      /\ granted' = granted \cup new /\ holds' = [holds EXCEPT ![p] = @ \cup given]
      /\ next' = [next EXCEPT ![p] = IF op[p].kind = "open" THEN @ ELSE @ + 1]
  BY <1>a, <1>b DEF Return, Goto
<1>2. pc'[p] = "idle" /\ pc' = [pc EXCEPT ![p] = pc'[p]]
  BY <1>1 DEF IInv, Shape
<1>3. /\ holds'[p] = holds[p] \cup given /\ holds' = [holds EXCEPT ![p] = holds'[p]]
      /\ next'[p] \in Nat \ {0} /\ next' = [next EXCEPT ![p] = next'[p]]
  BY <1>1 DEF ClaimsInv, AsAsked
<1>4. /\ AsAsked'
      /\ \A q \in Process \ {p} : pc'[q] = pc[q] /\ holds'[q] = holds[q]
  <2>1. op' = [op EXCEPT ![p] = op'[p]] /\ op'[p] = op[p]
    BY <1>1 DEF IInv, Shape
  <2> QED
    BY <1>1, <1>2, <1>3, <2>1, ProcessMoves
<1>5. ReleasedIsHeld'
  BY <1>1, <1>2, <1>4 DEF ClaimsInv, ReleasedIsHeld
<1>6. \A q \in Process : Claimed(q)' => Claimed(q) /\ q # p
  BY <1>1, <1>2, <1>4 DEF Claimed
<1>7. \A c \in new : Claimed(p) /\ c.row = op[p].row /\ c.by = p /\ c.call = next[p]
  BY <1>a, <1>b, <1>1 DEF Claimed
<1>8. GivenIsThere'
  BY <1>1, <1>6, <1>7 DEF ClaimsInv, Stored, GivenIsThere, IsThere
<1>9. GivenOnce'
  <2>1. \A c, d \in new : c = d
    BY <1>a, <1>b
  <2>2. OneClaimant'
    BY <1>1, <1>7, <2>1 DEF ClaimsInv, Known, GivenOnce, OneClaimant
  <2>3. \A q \in Process : ~Claimed(q)'
    BY <1>1, <1>6 DEF IInv, Mutex, Locked, Claimed
  <2> QED
    BY <2>2, <2>3 DEF GivenOnce
<1>10. HeldIsGranted'
  <2> SUFFICES ASSUME NEW q \in Process, NEW r \in holds'[q], r.key \notin taken'
               PROVE  \E c \in granted' : c.by = q /\ c.row = r
    BY DEF HeldIsGranted
  <2>1. CASE r \in holds[q]
    BY <1>1, <2>1 DEF ClaimsInv, Known, HeldIsGranted
  <2>2. CASE q = p /\ r \in given
    <3>1. PICK c \in new : c = [row |-> r, by |-> p, call |-> next[p]]
      BY <1>b, <2>2
    <3> QED
      BY <1>1, <2>2, <3>1
  <2> QED
    BY <1>3, <1>4, <2>1, <2>2
<1> QED
  BY <1>1, <1>4, <1>5, <1>8, <1>9, <1>10 DEF ClaimsInv, Stored, Known, KeysAreOnce

\* The file of claims is written by a claim, which adds a row of its key, and by
\* a release, which takes away the row of who calls it.
LEMMA WriteClaims ==
    ASSUME IInv, ClaimsInv, NEW p \in Process, Write(p) PROVE ClaimsInv'
<1>a. PICK o : o = op[p]
  OBVIOUS
<1>1. /\ pc[p] = "act" /\ o.kind \notin Journaled /\ pc' = [pc EXCEPT ![p] = "done"]
      /\ UNCHANGED <<journal, op, agenda, next, taken>>
      /\ files'["claims"] = IF "claims" \in Written(o)
                            THEN RowsAfter(o, "claims", files["claims"]) ELSE files["claims"]
  BY <1>a DEF Write, Goto, Table
<1>2. /\ granted' = {c \in granted : ~(o.kind = "release_claim" /\ c.by = p /\ c.row = o.row)}
      /\ holds' = [holds EXCEPT ![p] = {r \in @ : ~(o.kind = "release_claim" /\ r = o.row)}]
  BY <1>a DEF Write
<1>3. pc'[p] = "done" /\ pc' = [pc EXCEPT ![p] = pc'[p]]
  BY <1>1 DEF IInv, Shape
<1>4. /\ holds'[p] = {r \in holds[p] : ~(o.kind = "release_claim" /\ r = o.row)}
      /\ holds' = [holds EXCEPT ![p] = holds'[p]]
  BY <1>2 DEF ClaimsInv, AsAsked
<1>5. /\ AsAsked'
      /\ \A q \in Process \ {p} : pc'[q] = pc[q] /\ holds'[q] = holds[q]
  <2>1. op' = [op EXCEPT ![p] = op'[p]] /\ op'[p] = op[p]
    BY <1>1 DEF IInv, Shape
  <2>2. next' = [next EXCEPT ![p] = next'[p]] /\ next'[p] \in Nat \ {0}
    BY <1>1 DEF ClaimsInv, AsAsked
  <2> QED
    BY <1>1, <1>3, <1>4, <2>1, <2>2, ProcessMoves
<1>6. ReleasedIsHeld'
  BY <1>1, <1>3, <1>5 DEF ClaimsInv, ReleasedIsHeld
<1>7. \A q \in Process : ~Claimed(q) /\ (Claimed(q)' <=> q = p /\ o.kind = "claim")
  <2>1. \A q \in Process : pc[q] # "done"
    BY <1>1 DEF IInv, Mutex, Locked
  <2> QED
    BY <1>a, <1>1, <1>3, <1>5, <2>1 DEF Claimed
<1>8. o.kind \in {"put", "delete"} => o.table # "claims"
  <2>1. Asked(p)
    BY DEF ClaimsInv, AsAsked
  <2>2. o.kind \in {"put", "delete"} => \E n \in 1..Len(agenda[p]) :
          o.kind = agenda[p][n].kind /\ o.table = agenda[p][n].table
    BY <1>a, <2>1 DEF Asked
  <2> QED
    BY <2>2, AgendaAssumption DEF ClaimsInv, AsAsked
<1>9. CASE o.kind = "claim"
  <2>1. DOMAIN journal = {}
    BY <1>a, <1>1, <1>9 DEF IInv, ActsOnWholeTables, Recovering
  <2>2. ~Has(files["claims"], o.row.key)
    BY <1>a, <1>9 DEF Write, Accepted, Accepts
  <2>3. files'["claims"] = files["claims"] \cup {o.row}
    BY <1>1, <1>9, <2>2 DEF Written, RowsAfter, PutRow, Has
  <2>4. granted' = granted /\ holds'[p] = holds[p]
    BY <1>2, <1>4, <1>9
  <2>5. GivenIsThere'
    BY <1>a, <1>1, <1>7, <2>1, <2>3, <2>4 DEF ClaimsInv, Stored, GivenIsThere, IsThere
  <2>6. KeysAreOnce'
    BY <1>1, <2>1, <2>2, <2>3 DEF ClaimsInv, Stored, KeysAreOnce, OneRowAKey, Has
  <2>7. GivenOnce'
    <3>1. \A c \in granted : c.row.key = o.row.key => c.row.key \in taken
      BY <2>2 DEF ClaimsInv, Stored, GivenIsThere, IsThere, Has
    <3> QED
      BY <1>a, <1>1, <1>7, <2>4, <3>1 DEF ClaimsInv, Known, GivenOnce, OneClaimant
  <2>8. HeldIsGranted'
    BY <1>1, <1>5, <2>4 DEF ClaimsInv, Known, HeldIsGranted
  <2> QED
    BY <1>5, <1>6, <2>5, <2>6, <2>7, <2>8 DEF ClaimsInv, Stored, Known
<1>10. CASE o.kind = "release_claim"
  <2>1. files'["claims"] = {r \in files["claims"] : r.key # o.row.key \/ r.value # o.row.value}
    BY <1>1, <1>10 DEF Written, RowsAfter
  <2>2. o.row.key \in taken \/ \E c \in granted : c.by = p /\ c.row = o.row
    BY <1>a, <1>1, <1>10 DEF ClaimsInv, ReleasedIsHeld, Known, HeldIsGranted
  <2>3. \A c \in granted' : c \in granted /\ (c.row.key = o.row.key => c.row.key \in taken)
    BY <1>2, <1>10, <2>2 DEF ClaimsInv, Known, GivenOnce, OneClaimant
  <2>4. DOMAIN journal' = DOMAIN journal /\ GivenIsThere'
    BY <1>1, <1>7, <1>10, <2>1, <2>3 DEF ClaimsInv, Stored, GivenIsThere, IsThere
  <2>5. KeysAreOnce'
    BY <1>1, <2>1 DEF ClaimsInv, Stored, KeysAreOnce, OneRowAKey
  <2>6. GivenOnce'
    BY <1>1, <1>7, <1>10, <2>3 DEF ClaimsInv, Known, GivenOnce, OneClaimant
  <2>7. HeldIsGranted'
    <3> SUFFICES ASSUME NEW q \in Process, NEW r \in holds'[q], r.key \notin taken
                 PROVE  \E c \in granted' : c.by = q /\ c.row = r
      BY <1>1 DEF HeldIsGranted
    <3>1. r \in holds[q] /\ (q = p => r # o.row)
      BY <1>4, <1>5, <1>10
    <3>2. PICK c \in granted : c.by = q /\ c.row = r
      BY <3>1 DEF ClaimsInv, Known, HeldIsGranted
    <3> QED
      BY <1>2, <3>1, <3>2
  <2> QED
    BY <1>5, <1>6, <2>4, <2>5, <2>6, <2>7 DEF ClaimsInv, Stored, Known
<1>11. CASE o.kind \notin {"claim", "release_claim"}
  <2>1. "claims" \notin Written(o)
    BY <1>1, <1>8, <1>11 DEF Written, Journaled
  <2>2. granted' = granted /\ holds'[p] = holds[p] /\ files'["claims"] = files["claims"]
    BY <1>1, <1>2, <1>4, <1>11, <2>1
  <2>3. Stored'
    BY <1>1, <1>7, <1>11, <2>2 DEF ClaimsInv, Stored, GivenIsThere, IsThere, KeysAreOnce, OneRowAKey
  <2>4. Known'
    BY <1>1, <1>5, <1>7, <1>11, <2>2 DEF ClaimsInv, Known, GivenOnce, OneClaimant, HeldIsGranted
  <2> QED
    BY <1>5, <1>6, <2>3, <2>4 DEF ClaimsInv
<1> QED
  BY <1>9, <1>10, <1>11

\* An erasure leaves, in the journal, the claims that are not the family's.
LEMMA TransactionClaims ==
    ASSUME IInv, ClaimsInv, NEW p \in Process, Transaction(p) PROVE ClaimsInv'
<1>a. PICK o : o = op[p]
  OBVIOUS
<1>b. PICK lost : lost = {c \in granted : o.kind = "forget" /\ IsOwned(c.row, o)}
  OBVIOUS
<1>1. /\ pc[p] = "act" /\ o.kind \in Journaled /\ pc' = [pc EXCEPT ![p] = "commit"]
      /\ UNCHANGED <<files, op, agenda, next, holds>>
      /\ journal' = [t \in Written(o) |-> RowsAfter(o, t, files[t])]
      /\ granted' = granted \ lost /\ taken' = taken \cup {c.row.key : c \in lost}
  BY <1>a, <1>b DEF Transaction, Goto
<1>2. pc'[p] = "commit" /\ pc' = [pc EXCEPT ![p] = pc'[p]]
  BY <1>1 DEF IInv, Shape
<1>3. AsAsked' /\ \A q \in Process \ {p} : pc'[q] = pc[q]
  <2>1. op' = [op EXCEPT ![p] = op'[p]] /\ op'[p] = op[p]
    BY <1>1 DEF IInv, Shape
  <2>2. /\ next' = [next EXCEPT ![p] = next'[p]] /\ next'[p] \in Nat \ {0}
        /\ holds' = [holds EXCEPT ![p] = holds'[p]]
    BY <1>1 DEF ClaimsInv, AsAsked
  <2> QED
    BY <1>a, <1>1, <1>2, <2>1, <2>2, ProcessMoves
<1>4. ReleasedIsHeld'
  BY <1>1, <1>3 DEF ClaimsInv, ReleasedIsHeld
<1>5. \A q \in Process : ~Claimed(q)'
  <2>1. \A q \in Process \ {p} : pc[q] # "done"
    BY <1>1 DEF IInv, Mutex, Locked
  <2> QED
    BY <1>2, <1>3, <2>1 DEF Claimed
<1>6. Known'
  <2>1. GivenOnce'
    BY <1>1, <1>5 DEF ClaimsInv, Known, GivenOnce, OneClaimant
  <2>2. HeldIsGranted'
    <3> SUFFICES ASSUME NEW q \in Process, NEW r \in holds[q], r.key \notin taken'
                 PROVE  \E c \in granted' : c.by = q /\ c.row = r
      BY <1>1 DEF HeldIsGranted
    <3>1. PICK c \in granted : c.by = q /\ c.row = r
      BY <1>1 DEF ClaimsInv, Known, HeldIsGranted
    <3> QED
      BY <1>1, <3>1
  <2> QED
    BY <2>1, <2>2 DEF Known
<1>7. CASE o.kind = "forget"
  <2>1. Written(o) = Erased /\ "claims" \in Erased
    BY <1>7 DEF Written, Erased, Table
  <2>2. journal'["claims"] = {r \in files["claims"] : ~IsOwned(r, o)}
    BY <1>1, <1>7, <2>1 DEF RowsAfter
  <2>3. \A c \in granted' : c \in granted /\ ~IsOwned(c.row, o)
    BY <1>b, <1>1, <1>7
  <2>4. \A c \in granted' : c.row.key \notin taken' => IsThere(c.row)'
    BY <1>1, <2>2, <2>3 DEF ClaimsInv, Stored, GivenIsThere, IsThere
  <2>5. KeysAreOnce'
    BY <1>1, <2>2 DEF ClaimsInv, Stored, KeysAreOnce, OneRowAKey
  <2> QED
    BY <1>3, <1>4, <1>5, <1>6, <2>4, <2>5 DEF ClaimsInv, Stored, GivenIsThere
<1>8. CASE o.kind = "outcome"
  <2>1. "claims" \notin DOMAIN journal'
    BY <1>1, <1>8 DEF Written
  <2>2. Stored'
    BY <1>1, <1>5, <2>1 DEF ClaimsInv, Stored, GivenIsThere, IsThere, KeysAreOnce, OneRowAKey
  <2> QED
    BY <1>3, <1>4, <1>6, <2>2 DEF ClaimsInv
<1> QED
  BY <1>1, <1>7, <1>8 DEF Journaled

LEMMA ReplayClaims ==
    ASSUME IInv, ClaimsInv, NEW p \in Process, Replay(p) PROVE ClaimsInv'
<1>1. PICK t \in left[p] : files' = [files EXCEPT ![t] = journal[t]]
  BY DEF Replay
<1>2. pc[p] \in Replaying /\ UNCHANGED <<journal, pc, op, agenda, next, granted, holds, taken>>
  BY DEF Replay, Replaying, claims
<1>3. t \in DOMAIN journal
  BY <1>2 DEF IInv, Replayed
<1>4. files'["claims"] = files["claims"]
        \/ ("claims" \in DOMAIN journal /\ files'["claims"] = journal["claims"])
  BY <1>1, <1>3 DEF IInv, Shape, Table
<1>5. Stored'
  BY <1>2, <1>4 DEF ClaimsInv, Stored, GivenIsThere, IsThere, Claimed, KeysAreOnce, OneRowAKey
<1> QED
  BY <1>2, <1>5 DEF ClaimsInv, AsAsked, Asked, Known, GivenOnce, OneClaimant, Claimed, HeldIsGranted,
                    ReleasedIsHeld

\* The steps that move one process and write in no file of claims.
LEMMA MoveClaims ==
    ASSUME IInv, ClaimsInv, NEW p \in Process,
           \/ ReadMastery(p) \/ ReadSpaced(p) \/ ReadStudents(p)
           \/ Lock(p) \/ Unlink(p) \/ Refuse(p) \/ Die(p)
    PROVE  ClaimsInv'
<1>1. UNCHANGED <<files, agenda, granted, taken>> /\ pc[p] \notin {"idle"}
  BY DEF ReadMastery, ReadSpaced, ReadStudents, Lock, Unlink, Refuse, Die, storage, claims
<1>2. UNCHANGED journal \/ journal' = NoJournal
  BY DEF ReadMastery, ReadSpaced, ReadStudents, Lock, Unlink, Refuse, Die, storage
<1>3. /\ op'[p] = op[p] \/ op'[p] = Opening \/ \E r : op'[p] = [op[p] EXCEPT !.read = r]
      /\ op' = [op EXCEPT ![p] = op'[p]]
  <2>1. UNCHANGED op \/ op' = [op EXCEPT ![p] = Opening]
          \/ \E r : op' = [op EXCEPT ![p].read = r]
    BY DEF ReadMastery, ReadSpaced, ReadStudents, Lock, Unlink, Refuse, Die
  <2> QED
    BY <2>1 DEF IInv, Shape
<1>4. PICK where : /\ pc' = [pc EXCEPT ![p] = where] /\ where # "commit"
                   /\ where = "done" => pc[p] = "commit" /\ UNCHANGED op
                   /\ pc[p] = "done" => op'[p] = Opening
  <2>1. CASE Die(p)
    BY <2>1 DEF Die, Goto, IInv, Shape
  <2>2. CASE ~Die(p)
    BY <2>2 DEF ReadMastery, ReadSpaced, ReadStudents, Lock, Unlink, Refuse, Goto
  <2> QED
    BY <2>1, <2>2
<1>5. pc'[p] = where /\ pc' = [pc EXCEPT ![p] = pc'[p]]
  BY <1>4 DEF IInv, Shape
<1>6. next' = [next EXCEPT ![p] = next'[p]] /\ next'[p] \in Nat \ {0}
  <2>1. UNCHANGED next \/ next' = [next EXCEPT ![p] = next[p]]
          \/ next' = [next EXCEPT ![p] = next[p] + 1]
    BY DEF ReadMastery, ReadSpaced, ReadStudents, Lock, Unlink, Refuse, Die
  <2> QED
    BY <2>1 DEF ClaimsInv, AsAsked
<1>7. /\ holds' = [holds EXCEPT ![p] = holds'[p]]
      /\ \/ holds'[p] = holds[p]
         \/ holds'[p] = {} /\ op'[p] = Opening
  <2>1. CASE Die(p)
    BY <2>1 DEF Die, IInv, Shape, ClaimsInv, AsAsked
  <2>2. CASE ~Die(p)
    <3>1. UNCHANGED holds
      BY <2>2 DEF ReadMastery, ReadSpaced, ReadStudents, Lock, Unlink, Refuse, claims
    <3> QED
      BY <3>1 DEF ClaimsInv, AsAsked
  <2> QED
    BY <2>1, <2>2
<1>8. /\ AsAsked'
      /\ \A q \in Process \ {p} :
           op'[q] = op[q] /\ pc'[q] = pc[q] /\ next'[q] = next[q] /\ holds'[q] = holds[q]
      /\ \/ op'[p].kind = "open"
         \/ op'[p].kind = op[p].kind /\ op'[p].table = op[p].table /\ op'[p].row = op[p].row
  BY <1>1, <1>3, <1>4, <1>5, <1>6, <1>7, ProcessMoves
<1>9. ReleasedIsHeld'
  BY <1>1, <1>4, <1>7, <1>8, OpeningIs DEF ClaimsInv, ReleasedIsHeld
<1>10. \A q \in Process : Claimed(q)' => Claimed(q) /\ op'[q] = op[q]
  BY <1>4, <1>5, <1>8 DEF Claimed, ClaimsInv, AsAsked, Journaled
<1>11. Known'
  BY <1>1, <1>7, <1>8, <1>10 DEF ClaimsInv, Known, GivenOnce, OneClaimant, HeldIsGranted
<1>12. Stored'
  BY <1>1, <1>2, <1>10 DEF NoJournal, ClaimsInv, Stored, GivenIsThere, IsThere, KeysAreOnce, OneRowAKey
<1> QED
  BY <1>8, <1>9, <1>11, <1>12 DEF ClaimsInv

LEMMA ClaimsStep == IInv /\ ClaimsInv /\ [Next]_vars => ClaimsInv'
<1> SUFFICES ASSUME IInv, ClaimsInv, [Next]_vars PROVE ClaimsInv'
  OBVIOUS
<1>1. ASSUME UNCHANGED <<journal, pc, op, agenda, next, granted, holds, taken>>,
             files'["claims"] = files["claims"]
      PROVE  ClaimsInv'
  BY <1>1 DEF ClaimsInv, AsAsked, Asked, Stored, Known, ReleasedIsHeld, GivenIsThere, IsThere, Claimed,
              KeysAreOnce, OneRowAKey, GivenOnce, OneClaimant, HeldIsGranted
<1>2. CASE Lapse
  <2>1. /\ files'["claims"] = files["claims"]
        /\ UNCHANGED <<journal, pc, op, agenda, next, granted, holds, taken>>
    BY <1>2 DEF Lapse, control, claims, IInv, Shape, Table
  <2> QED
    BY <1>1, <2>1
<1>3. CASE UNCHANGED vars
  BY <1>1, <1>3 DEF vars, storage, control, claims
<1> QED
  BY <1>2, <1>3, CallClaims, PassOverClaims, ReturnClaims, WriteClaims, TransactionClaims,
     ReplayClaims, MoveClaims
     DEF Next, Step

LEMMA InitClaims == Init => ClaimsInv
<1> SUFFICES ASSUME Init PROVE ClaimsInv
  OBVIOUS
<1>1. \A p \in Process : op[p] = Opening /\ pc[p] = "idle" /\ next[p] = 1 /\ holds[p] = {}
  BY DEF Init
<1>2. AsAsked
  BY <1>1, OpeningIs DEF Init, AsAsked, Asked
<1>3. KeysAreOnce
  BY LocalAssumption DEF Init, KeysAreOnce, OneRowAKey, NoJournal
<1>4. Known /\ GivenIsThere /\ ReleasedIsHeld
  BY <1>1 DEF Init, Known, GivenOnce, OneClaimant, HeldIsGranted, GivenIsThere, Claimed, ReleasedIsHeld
<1> QED
  BY <1>2, <1>3, <1>4 DEF ClaimsInv, Stored

(***************************************************************************)
(* claim, release_claim: of two who claim a key only one is given it, until*)
(* the one that has it releases it or it is erased with its family, whoever*)
(* dies and whatever is left to be replayed; although every caller gives   *)
(* the same owner, but for a key that an erasure has taken from who had it.*)
(***************************************************************************)
THEOREM ClaimsAreExclusive == Spec => []OneClaimant
<1>1. ClaimsInv => OneClaimant
  BY DEF ClaimsInv, Known, GivenOnce
<1> QED
  BY <1>1, InitIInv, StepIInv, InitClaims, ClaimsStep, PTL DEF Spec

-----------------------------------------------------------------------------
(***************************************************************************)
(* A chat and its family.                                                  *)
(*                                                                         *)
(* Whatever is half done belongs to a message that is still to be handled: *)
(* a student that is missing to the one whose enrollment completes it, a   *)
(* schedule that was not recorded to one that will look at it again, an    *)
(* erasure that began to the one with the receipt.  Where a handler stands *)
(* says what it has written, and the rows lead from the chat to a profile  *)
(* or nowhere; so when no message waits, nothing is half done.             *)
(***************************************************************************)
CONSTANTS MaxMessages, Content, MaxFamilies, MaxChatFaults, MaxStrays

VARIABLES sent, progress, families, enrollments, prepared, published, told, receipt, place, run,
          chatFaults

Chat == INSTANCE FamilyLifecycle WITH
            MaxFaults <- MaxChatFaults, journal <- enrollments, pc <- place, faults <- chatFaults

Times == {NoTime} \cup ((0..23) \X (0..59))

Profiles == {NoProfile} \cup [status : {"active", "paused"}, at : Times \ {NoTime}]

Alarms == {NoAlarm} \cup {AlarmSpec(p) : p \in Profiles}

Texts == UNION {Content[m] : m \in 1..MaxMessages}

RowNames == {"grades", "media", "rows", "exams", "records", "saved", "profile", "lookup",
             "enrollment", "index", "student"}

Replies == {None, "consent_declined", "ask_alias", "consent", "alias_warning", "ask_grade",
            "ask_section", "ask_schedule", "enrollment_done", "enrollment_closed",
            "unknown_chat", "paused", "resumed", "exam_ack", "exam_ask_date", "forget_confirm",
            "status_line", "help", "forget_keep", "practice"}

Families == 0..families

Plain == {Chat!PutEnrollment(step) : step \in Chat!Step} \cup {Chat!DeleteEnrollment}

Journals ==
    {Chat!NoJournal}
    \cup [actions : Plain, reply : Replies \ {None}, done : {FALSE}, applied : BOOLEAN,
          family : {NoFamily}]
    \cup [actions : {Chat!Complete(at) : at \in Times \ {NoTime}}, reply : Replies \ {None},
          done : {TRUE}, applied : BOOLEAN, family : Families]

Receipts ==
    {Chat!NoReceipt}
    \cup [family : Families, erased : {FALSE}, ack : {FALSE}]
    \cup [family : {NoFamily}, erased : {TRUE}, ack : BOOLEAN]

Prepareds ==
    [reply : Replies, family : Families \cup {NoFamily}, event : BOOLEAN, published : BOOLEAN]

Runs ==
    [m : Chat!Message \cup {0}, family : Families \cup {NoFamily}, reply : Replies,
     event : BOOLEAN, next : 1..6, then : {None, "route", "deliver"}, deleting : SUBSET RowNames]

ChatShape ==
    /\ Chat!LifecycleAssumption
    /\ sent \in Seq(Texts) /\ Len(sent) <= MaxMessages
    /\ waiting \subseteq 1..Len(sent)
    /\ families \in 0..MaxFamilies
    /\ progress \in Chat!Step \cup {None}
    /\ lookup \in Families \cup {NoFamily}
    /\ profile \in [Chat!FamilyId -> Profiles]
    /\ student \in [Chat!FamilyId -> SUBSET {"index", "student"}]
    /\ private \in [Chat!FamilyId -> SUBSET Chat!PrivateStore]
    /\ saved \in [Chat!FamilyId -> Alarms] /\ alarm \in [Chat!FamilyId -> Alarms]
    /\ enrollments \in [Chat!Message -> Journals]
    /\ prepared \in [Chat!Message -> Prepareds]
    /\ receipt \in [Chat!Message -> Receipts]
    /\ run \in Runs
    /\ erasing \subseteq Families /\ erased \subseteq Families

-----------------------------------------------------------------------------
Forgets(m) == sent[m].callback = "forget:yes"

\* The enrollment that this message completes is not all done.
Pending(m) == enrollments[m].done /\ ~enrollments[m].applied

ErasureOwed == \E m \in waiting : receipt[m].family # NoFamily

Handling == {"enroll", "sync", "save", "route", "prepare", "finish", "deliver", "publish"}
Underway == {"pause", "alarm", "grades", "media", "chat", "scan", "delete"}

Syncing(then) == place \in {"sync", "save"} /\ run.then = then

PlaceInv ==
    /\ place \in {"idle", "erase", "acknowledge"} \cup Handling \cup Underway
    /\ place # "idle" => run.m \in waiting
    /\ place \in Handling => ~Forgets(run.m)
    /\ place \in Handling \ {"enroll"} => ~Pending(run.m)
    /\ place \in {"erase", "acknowledge"} \cup Underway => Forgets(run.m)
    /\ \A m \in Chat!Message :
         /\ receipt[m] # Chat!NoReceipt => m <= Len(sent) /\ Forgets(m)
         /\ prepared[m] # Chat!Unprepared => ~Pending(m)
         /\ Pending(m) => m <= Len(sent) /\ ~Forgets(m)

EnrollPlace ==
    place = "enroll" =>
        /\ prepared[run.m] = Chat!Unprepared
        /\ enrollments[run.m] = Chat!NoJournal => lookup = NoFamily /\ run.next = 1
        /\ Pending(run.m) =>
             LET f == enrollments[run.m].family IN
             /\ run.next > 1 => profile[f].status = "active"
             /\ run.next > 2 => lookup = f
             /\ run.next > 3 => "index" \in student[f]
             /\ run.next > 4 => "student" \in student[f]

FamilyPlace ==
    /\ place \in {"sync", "save"} => run.then # None
    /\ place \in {"sync", "save", "route"} =>
         run.family # NoFamily /\ profile[run.family] # NoProfile
    /\ Syncing("route") \/ place \in {"route", "prepare"} =>
         run.family = lookup /\ prepared[run.m] = Chat!Unprepared
    /\ Syncing("deliver") =>
         prepared[run.m] # Chat!Unprepared /\ prepared[run.m].family = run.family
    /\ place = "prepare" => run.reply # None \/ run.family # NoFamily
    /\ place \in {"finish", "deliver", "publish"} => prepared[run.m] # Chat!Unprepared
    /\ place = "save" => alarm[run.family] = AlarmSpec(profile[run.family])
    /\ place = "route" => saved[run.family] = AlarmSpec(profile[run.family])

\* What other events of a family may have left of it.
Left(f) == IF f \in strayed THEN {"records"} ELSE {}

ErasePlace ==
    /\ place \in Underway => receipt[run.m].family # NoFamily
    /\ place = "acknowledge" => receipt[run.m].erased
    /\ place = "pause" => profile[Chat!Leaving] # NoProfile
    /\ place \in Underway \ {"pause", "delete"} => profile[Chat!Leaving].status # "active"
    /\ place \in {"grades", "media", "chat", "scan"} => alarm[Chat!Leaving] = NoAlarm
    /\ place \in {"chat", "scan"} => "media" \notin private[Chat!Leaving]
    /\ place = "delete" =>
         LET f == run.family IN
         /\ f # NoFamily
         /\ lookup \in {NoFamily, f} /\ (lookup = f => "lookup" \in run.deleting)
         /\ profile[f].status # "active" /\ alarm[f] = NoAlarm
         /\ profile[f] # NoProfile => "profile" \in run.deleting
         /\ saved[f] # NoAlarm => "saved" \in run.deleting
         /\ student[f] \subseteq run.deleting
         /\ "media" \notin private[f] /\ private[f] \subseteq run.deleting \cup Left(f)

-----------------------------------------------------------------------------
RowsInv ==
    /\ \A f \in Chat!FamilyId : profile[f] = NoProfile =>
         /\ lookup # f /\ saved[f] = NoAlarm /\ alarm[f] = NoAlarm
         /\ "media" \notin private[f]

WholeFamily(f) == student[f] = {"index", "student"}

WholeInv ==
    lookup # NoFamily /\ ~WholeFamily(lookup) =>
        \/ ErasureOwed
        \/ \E m \in waiting : Pending(m) /\ enrollments[m].family = lookup

\* This message will look at the schedule of the family again.
WillSync(m, f) ==
    /\ ~Forgets(m)
    /\ prepared[m] = Chat!Unprepared \/ prepared[m].family = f
    /\ ~(m = run.m /\ place \in {"deliver", "publish"})

RecordInv ==
    lookup # NoFamily /\ saved[lookup] # AlarmSpec(profile[lookup]) =>
        \/ ErasureOwed
        \/ \E m \in waiting : WillSync(m, lookup)

AlarmInv ==
    \A f \in Chat!FamilyId \ rewritten :
        /\ saved[f] = AlarmSpec(profile[f])
        /\ profile[f].status = "active" \/ (lookup = f /\ ~ErasureOwed)
        => alarm[f] = saved[f]

Gone(f) ==
    /\ profile[f] = NoProfile /\ student[f] = {} /\ lookup # f
    /\ saved[f] = NoAlarm /\ alarm[f] = NoAlarm
    /\ private[f] \subseteq Left(f)

GoneInv ==
    \A f \in erased : Gone(f) /\ \A m \in Chat!Message : enrollments[m].family # f

OwedInv ==
    \A f \in erasing : f \in erased \cup displaced \/ \E m \in waiting : receipt[m].family = f

ChatInv ==
    /\ ChatShape /\ PlaceInv /\ EnrollPlace /\ FamilyPlace /\ ErasePlace
    /\ RowsInv /\ WholeInv /\ RecordInv /\ AlarmInv /\ GoneInv /\ OwedInv

-----------------------------------------------------------------------------
\* What the instance calls what is stored of the families is what it is here.
LEMMA Same ==
    /\ Chat!None = None /\ Chat!NoFamily = NoFamily /\ Chat!NoTime = NoTime
    /\ Chat!NoProfile = NoProfile /\ Chat!NoAlarm = NoAlarm
    /\ \A p : Chat!AlarmSpec(p) = AlarmSpec(p)
    /\ Chat!Found = Found
  BY DEF Chat!None, None, Chat!NoFamily, NoFamily, Chat!NoTime, NoTime, Chat!NoProfile, NoProfile,
         Chat!NoAlarm, NoAlarm, Chat!AlarmSpec, AlarmSpec, Chat!Found, Found

LEMMA Scalars == None = "none" /\ NoFamily = -1
  BY DEF None, NoFamily

LEMMA SetsKept ==
    families' = families =>
        /\ Families' = Families /\ Journals' = Journals /\ Receipts' = Receipts
        /\ Prepareds' = Prepareds /\ Runs' = Runs
  BY DEF Families, Journals, Receipts, Prepareds, Runs

LEMMA RunFields ==
    ASSUME NEW r \in Runs
    PROVE  /\ r.m \in Chat!Message \cup {0} /\ r.family \in Families \cup {NoFamily}
           /\ r.reply \in Replies /\ r.event \in BOOLEAN /\ r.next \in 1..6
           /\ r.then \in {None, "route", "deliver"} /\ r.deleting \subseteq RowNames
           /\ DOMAIN r = {"m", "family", "reply", "event", "next", "then", "deleting"}
  BY DEF Runs

LEMMA NoRunKind ==
    /\ Chat!NoRun \in Runs /\ Chat!NoRun.m = 0
  <1>1. None \in Replies
    BY DEF Replies
  <1> QED
    BY <1>1, Same DEF Runs, Chat!NoRun

\* The chat leads to a family with a profile, or to none.
LEMMA LeadsToProfile == ChatInv => Found = lookup
  BY Scalars DEF ChatInv, ChatShape, RowsInv, Found, Chat!FamilyId, Families

LEMMA ProfileKinds ==
    /\ NoProfile.status = "none" /\ NoProfile \in Profiles
    /\ \A p \in Profiles \ {NoProfile} :
         p.status \in {"active", "paused"} /\ p.at \in Times \ {NoTime}
         /\ p = [status |-> p.status, at |-> p.at]
  BY Scalars DEF Profiles, NoProfile

LEMMA FamilyBound ==
    ASSUME ChatShape
    PROVE  /\ Families \subseteq Chat!FamilyId /\ NoFamily \notin Chat!FamilyId
           /\ families \in Nat /\ MaxFamilies \in Nat
  BY Scalars DEF ChatShape, Families, Chat!FamilyId, Chat!LifecycleAssumption

LEMMA NoJournalKind == ~Chat!NoJournal.done
  BY DEF Chat!NoJournal

LEMMA RunsAMessage ==
    ASSUME ChatShape, PlaceInv
    PROVE  /\ waiting \subseteq Chat!Message
           /\ \A m \in waiting : m <= Len(sent)
           /\ place # "idle" => run.m \in waiting /\ run.m \in Chat!Message
<1>1. waiting \subseteq 1..Len(sent) /\ Len(sent) <= MaxMessages
      /\ Len(sent) \in Nat /\ MaxMessages \in Nat
  BY LenProperties DEF ChatShape, Chat!LifecycleAssumption
<1> DEFINE n == Len(sent)
<1>2. n \in Nat /\ MaxMessages \in Nat /\ n <= MaxMessages => 1..n \subseteq 1..MaxMessages
  <2> HIDE DEF n
  <2> QED
    OBVIOUS
<1>3. \A m \in waiting : m <= n
  <2>1. n \in Nat => \A m \in 1..n : m <= n
    <3> HIDE DEF n
    <3> QED
      OBVIOUS
  <2> QED
    BY <1>1, <2>1
<1> QED
  BY <1>1, <1>2, <1>3 DEF Chat!Message, PlaceInv

LEMMA UnpreparedKind ==
    /\ Chat!Unprepared.reply = None /\ Chat!Unprepared.family = NoFamily
    /\ Chat!Unprepared.event = FALSE
  BY Same DEF Chat!Unprepared

LEMMA ReceiptKinds ==
    ASSUME ChatShape
    PROVE
    /\ Chat!NoReceipt.family = NoFamily /\ ~Chat!NoReceipt.erased /\ ~Chat!NoReceipt.ack
    /\ \A r \in Receipts :
         /\ r.family \in Families \cup {NoFamily}
         /\ r.erased => r.family = NoFamily
         /\ r # Chat!NoReceipt /\ ~r.erased => r.family # NoFamily
<1>1. Chat!NoReceipt.family = NoFamily /\ ~Chat!NoReceipt.erased /\ ~Chat!NoReceipt.ack
  BY Same DEF Chat!NoReceipt
<1>2. ASSUME NEW r \in [family : Families, erased : {FALSE}, ack : {FALSE}]
      PROVE  r.family \in Families /\ r.family # NoFamily /\ r.erased = FALSE
  <2>1. NoFamily \notin Families
    BY FamilyBound
  <2> QED
    BY <2>1
<1>3. ASSUME NEW r \in [family : {NoFamily}, erased : {TRUE}, ack : BOOLEAN]
      PROVE  r.family = NoFamily /\ r.erased = TRUE
  OBVIOUS
<1> QED
  BY <1>1, <1>2, <1>3 DEF Receipts

\* The family that is erased is one: that of the chat, or else of the receipt.
LEMMA LeavingKind ==
    ASSUME ChatInv
    PROVE  /\ Chat!Leaving = IF lookup # NoFamily THEN lookup ELSE receipt[run.m].family
           /\ place \in Underway => Chat!Leaving \in Families /\ Chat!Leaving \in Chat!FamilyId
<1>1. Chat!Leaving = IF lookup # NoFamily THEN lookup ELSE receipt[run.m].family
  BY Same, LeadsToProfile DEF Chat!Leaving, Chat!Erasing
<1>2. place \in Underway => receipt[run.m] \in Receipts /\ receipt[run.m].family # NoFamily
  BY RunsAMessage DEF ChatInv, ChatShape, ErasePlace, Underway
<1>3. lookup \in Families \cup {NoFamily}
  BY DEF ChatInv, ChatShape
<1> QED
  BY <1>1, <1>2, <1>3, ReceiptKinds, FamilyBound DEF ChatInv

\* What a handler goes on to say, of a family or of none.
LEMMA ReplyRun ==
    ASSUME ChatShape, NEW reply \in Replies, NEW g \in Families \cup {NoFamily},
           NEW event \in BOOLEAN, Chat!Reply(reply, g, event)
    PROVE  /\ place' = "prepare" /\ run' \in Runs /\ run'.m = run.m /\ run'.family = g
           /\ run'.reply = reply
  BY DEF ChatShape, Chat!Reply, Runs

LEMMA PausedKind ==
    ASSUME NEW p \in Profiles \ {NoProfile}, NEW status \in {"active", "paused"}
    PROVE  [p EXCEPT !.status = status] \in Profiles \ {NoProfile}
  BY ProfileKinds DEF Profiles

LEMMA TimeInKind == \A text : Chat!TimeIn(text) \in Times
  BY Same DEF Chat!TimeIn, Chat!PracticeTime, Times

LEMMA TimedKind ==
    ASSUME NEW p \in Profiles \ {NoProfile}, NEW at \in Times \ {NoTime}
    PROVE  [p EXCEPT !.at = at] \in Profiles \ {NoProfile}
  BY ProfileKinds DEF Profiles

\* A message of a family leaves its profile one, and private data of it at most.
LEMMA RouteEffect ==
    ASSUME ChatInv, Chat!RouteFamily
    PROVE  /\ place = "route" /\ place' = "prepare"
           /\ run' \in Runs /\ run'.m = run.m /\ run'.family = run.family
           /\ profile' = profile
              \/ \E p \in Profiles \ {NoProfile} : profile' = [profile EXCEPT ![run.family] = p]
           /\ private' = private
              \/ \E stores \in SUBSET Chat!PrivateStore :
                   private' = [private EXCEPT ![run.family] = stores]
           /\ UNCHANGED <<sent, waiting, lookup, student, saved, alarm, progress, enrollments,
                          families, rewritten, prepared, receipt, erasing, erased, displaced,
                          strayed>>
<1> USE DEF ChatInv
<1> DEFINE f == run.family
<1> DEFINE Said == /\ place' = "prepare" /\ run' \in Runs /\ run'.m = run.m /\ run'.family = f
<1>1. /\ place = "route"
      /\ UNCHANGED <<sent, waiting, lookup, student, saved, alarm, progress, enrollments,
                     families, rewritten, prepared, receipt, erasing, erased, displaced,
                     strayed>>
  BY DEF Chat!RouteFamily, Chat!At, Chat!schedule, Chat!steps, Chat!replies, Chat!erasure
<1>2. /\ f \in Families /\ f \in Chat!FamilyId
      /\ profile[f] \in Profiles \ {NoProfile}
      /\ private[f] \subseteq Chat!PrivateStore
  BY <1>1, FamilyBound, RunFields DEF ChatShape, FamilyPlace
<1>3. \A reply \in Replies : \A event \in BOOLEAN : Chat!Reply(reply, f, event) => Said
  BY <1>2, ReplyRun
<1>4. \A reply \in Replies : Chat!ReplyWith(reply) => Said
  BY <1>3 DEF Chat!ReplyWith
<1> HIDE DEF Said
<1>5. CASE Chat!Command
  <2>1. CASE \E status \in {"active", "paused"}, reply \in {"paused", "resumed"} :
               Chat!SetStatus(status, reply)
    <3>1. PICK status \in {"active", "paused"}, reply \in {"paused", "resumed"} :
               Chat!SetStatus(status, reply)
      BY <2>1
    <3>2. Said
      BY <3>1, <1>4 DEF Chat!SetStatus, Replies
    <3>3. [profile[f] EXCEPT !.status = status] \in Profiles \ {NoProfile}
      BY <1>2, PausedKind
    <3> QED
      BY <1>1, <3>1, <3>2, <3>3 DEF Said, Chat!SetStatus, Chat!PutFamily, Chat!Family
  <2>2. CASE Chat!SetSchedule
    <3>1. Said
      BY <2>2, <1>4 DEF Chat!SetSchedule, Replies
    <3>2. CASE Chat!Untouched
      BY <1>1, <3>1, <3>2 DEF Said, Chat!Untouched
    <3>3. CASE ~Chat!Untouched
      <4> DEFINE at == Chat!TimeIn(Chat!Text)
      <4>1. /\ at # NoTime /\ Chat!PutFamily([Chat!Family EXCEPT !.at = at])
            /\ private' = private
        BY <2>2, <3>3, Same DEF Chat!SetSchedule
      <4>2. [profile[f] EXCEPT !.at = at] \in Profiles \ {NoProfile}
        BY <1>2, <4>1, TimeInKind, TimedKind
      <4> QED
        BY <1>1, <3>1, <4>1, <4>2 DEF Said, Chat!PutFamily, Chat!Family
    <3> QED
      BY <3>2, <3>3
  <2>3. CASE Chat!SetExam
    <3>1. Said
      BY <2>3, <1>3, <1>4 DEF Chat!SetExam, Replies
    <3>2. profile' = profile
      BY <2>3 DEF Chat!SetExam, Chat!Untouched
    <3>3. private[f] \cup {"exams"} \in SUBSET Chat!PrivateStore
      BY <1>2 DEF Chat!PrivateStore
    <3> QED
      BY <1>1, <2>3, <3>1, <3>2, <3>3 DEF Said, Chat!SetExam, Chat!Untouched
  <2>4. CASE \E reply \in Replies : Chat!Untouched /\ Chat!ReplyWith(reply)
    BY <1>1, <1>4, <2>4 DEF Said, Chat!Untouched
  <2> QED
    BY <1>5, <2>1, <2>2, <2>3, <2>4
    DEF Chat!Command, Chat!ForgetPrompt, Chat!Status, Replies
<1>6. CASE Chat!Callback /\ profile' = profile
  <2>1. Said /\ private' = private
    BY <1>3, <1>4, <1>6, Same DEF Chat!Callback, Replies
  <2> QED
    BY <1>1, <1>6, <2>1 DEF Said
<1>7. CASE Chat!Practise /\ profile' = profile
  <2>1. Said
    BY <1>4, <1>7 DEF Chat!Practise, Replies
  <2>2. PICK store \in Chat!PrivateStore : private' = [private EXCEPT ![f] = @ \cup {store}]
    BY <1>7 DEF Chat!Practise
  <2>3. private[f] \cup {store} \in SUBSET Chat!PrivateStore
    BY <1>2
  <2> QED
    BY <1>1, <1>7, <2>1, <2>2, <2>3 DEF Said
<1> QED
  BY <1>5, <1>6, <1>7 DEF Chat!RouteFamily

\* The same schedule is that of the same status.
LEMMA SameStatus ==
    ASSUME NEW p \in Profiles \ {NoProfile}, NEW q \in Profiles \ {NoProfile},
           AlarmSpec(p) = AlarmSpec(q)
    PROVE  p.status = q.status
<1>1. (p.status # "paused") = (q.status # "paused")
  BY DEF AlarmSpec
<1> QED
  BY <1>1, ProfileKinds

LEMMA RouteStep == ChatInv /\ Chat!RouteFamily => ChatInv'
<1> SUFFICES ASSUME ChatInv, Chat!RouteFamily PROVE ChatInv'
  OBVIOUS
<1> USE DEF ChatInv
<1> DEFINE f == run.family
<1>1. /\ place = "route" /\ place' = "prepare"
      /\ run' \in Runs /\ run'.m = run.m /\ run'.family = f
      /\ UNCHANGED <<sent, waiting, lookup, student, saved, alarm, progress, enrollments,
                     families, rewritten, prepared, receipt, erasing, erased, displaced,
                     strayed>>
  BY RouteEffect
<1>2. /\ f \in Chat!FamilyId /\ f # NoFamily /\ profile[f] \in Profiles \ {NoProfile}
      /\ f = lookup /\ prepared[run.m] = Chat!Unprepared
      /\ saved[f] = AlarmSpec(profile[f])
  BY <1>1, FamilyBound, RunFields DEF ChatShape, FamilyPlace
<1>3. /\ profile' \in [Chat!FamilyId -> Profiles] /\ profile'[f] # NoProfile
      /\ \A g \in Chat!FamilyId \ {f} : profile'[g] = profile[g]
  BY <1>2, RouteEffect DEF ChatShape
<1>4. /\ private' \in [Chat!FamilyId -> SUBSET Chat!PrivateStore]
      /\ \A g \in Chat!FamilyId \ {f} : private'[g] = private[g]
  BY <1>2, RouteEffect DEF ChatShape
<1>5. ChatShape'
  BY <1>1, <1>3, <1>4, SetsKept DEF ChatShape
<1>6. PlaceInv'
  BY <1>1 DEF PlaceInv, Handling, Underway, Pending, Forgets
<1>7. EnrollPlace' /\ ErasePlace'
  BY <1>1 DEF EnrollPlace, ErasePlace, Underway
<1>8. FamilyPlace'
  BY <1>1, <1>2 DEF FamilyPlace, Syncing
<1>9. RowsInv'
  BY <1>1, <1>3, <1>4 DEF RowsInv
<1>10. WholeInv' /\ OwedInv'
  BY <1>1 DEF WholeInv, OwedInv, ErasureOwed, WholeFamily, Pending
<1>11. RecordInv'
  BY <1>1, <1>2 DEF RecordInv, WillSync, Forgets, PlaceInv, Handling
<1>12. AlarmInv'
  <2>1. saved[f] = AlarmSpec(profile'[f]) => profile'[f].status = profile[f].status
    BY <1>2, <1>3, SameStatus
  <2> QED
    BY <1>1, <1>2, <1>3, <2>1 DEF AlarmInv, ErasureOwed
<1>13. GoneInv'
  BY <1>1, <1>2, <1>3, <1>4, FamilyBound DEF GoneInv, Gone, Left, ChatShape
<1> QED
  BY <1>5, <1>6, <1>7, <1>8, <1>9, <1>10, <1>11, <1>12, <1>13

\* What is journaled of a step is one write or the five that complete it.
LEMMA JournalKinds ==
    ASSUME ChatShape, NEW j \in Journals
    PROVE  /\ j # Chat!NoJournal => j.reply \in Replies \ {None}
           /\ j.done => j \in [actions : {Chat!Complete(at) : at \in Times \ {NoTime}},
                               reply : Replies \ {None}, done : {TRUE}, applied : BOOLEAN,
                               family : Families]
           /\ j # Chat!NoJournal /\ ~j.done => j.actions \in Plain /\ j.family = NoFamily
           /\ j = Chat!NoJournal => j.family = NoFamily /\ ~j.done
           /\ [j EXCEPT !.applied = TRUE].done = j.done
           /\ [j EXCEPT !.applied = TRUE].family = j.family
           /\ [j EXCEPT !.applied = TRUE].applied = TRUE
           /\ j # Chat!NoJournal => [j EXCEPT !.applied = TRUE] \in Journals
<1>1. CASE j = Chat!NoJournal
  BY <1>1, Same DEF Chat!NoJournal
<1>2. CASE j \in [actions : Plain, reply : Replies \ {None}, done : {FALSE}, applied : BOOLEAN,
                  family : {NoFamily}]
  <2>1. j.done = FALSE
    BY <1>2
  <2>2. [j EXCEPT !.applied = TRUE] \in
          [actions : Plain, reply : Replies \ {None}, done : {FALSE}, applied : BOOLEAN,
           family : {NoFamily}]
    BY <1>2
  <2> QED
    BY <1>2, <2>1, <2>2, NoJournalKind, Same DEF Journals, Chat!NoJournal
<1>3. CASE j \in [actions : {Chat!Complete(at) : at \in Times \ {NoTime}},
                  reply : Replies \ {None}, done : {TRUE}, applied : BOOLEAN, family : Families]
  <2>1. j.done = TRUE
    BY <1>3
  <2>2. [j EXCEPT !.applied = TRUE] \in
          [actions : {Chat!Complete(at) : at \in Times \ {NoTime}},
           reply : Replies \ {None}, done : {TRUE}, applied : BOOLEAN, family : Families]
    BY <1>3
  <2> QED
    BY <1>3, <2>1, <2>2, NoJournalKind DEF Journals
<1> QED
  BY <1>1, <1>2, <1>3 DEF Journals

LEMMA CompleteSteps ==
    ASSUME NEW at
    PROVE  /\ Len(Chat!Complete(at)) = 5
           /\ Chat!Complete(at)[1] = [row |-> "profile", at |-> at]
           /\ Chat!Complete(at)[2] = [row |-> "lookup"]
           /\ Chat!Complete(at)[3] = [row |-> "index"]
           /\ Chat!Complete(at)[4] = [row |-> "student"]
           /\ Chat!Complete(at)[5] = [row |-> "enrollment", step |-> None]
  BY Same DEF Chat!Complete

LEMMA PlainSteps ==
    ASSUME NEW actions \in Plain
    PROVE  /\ Len(actions) = 1 /\ actions[1].row = "enrollment"
           /\ actions[1].step \in Chat!Step \cup {None}
  BY Same DEF Plain, Chat!PutEnrollment, Chat!DeleteEnrollment

\* Done is the step that completes an enrollment, and no other.
LEMMA AdvanceKind ==
    ASSUME NEW step \in Chat!Step, NEW text
    PROVE  \/ \E actions \in Plain, reply \in Replies \ {None, "enrollment_done"} :
                Chat!Advance(step, text) = Chat!Outcome(actions, reply)
           \/ \E at \in Times \ {NoTime} :
                Chat!Advance(step, text) = Chat!Outcome(Chat!Complete(at), "enrollment_done")
<1>1. \A s \in Chat!Step : Chat!PutEnrollment(s) \in Plain
  BY DEF Plain
<1>2. Chat!DeleteEnrollment \in Plain
  BY DEF Plain
<1>3. /\ {"consent", "alias", "grade", "section", "schedule"} = Chat!Step
      /\ {"consent_declined", "ask_alias", "consent", "alias_warning", "ask_grade",
          "ask_section", "ask_schedule"} \subseteq Replies \ {None, "enrollment_done"}
  BY Scalars DEF Chat!Step, Replies
<1>4. CASE step = "consent"
  <2>1. Chat!Advance(step, text) = Chat!ConsentStep(text)
    BY <1>4 DEF Chat!Advance
  <2> QED
    BY <1>1, <1>2, <1>3, <2>1 DEF Chat!ConsentStep
<1>5. CASE step = "alias"
  <2>1. Chat!Advance(step, text) = Chat!AliasStep(text)
    BY <1>5 DEF Chat!Advance
  <2> QED
    BY <1>1, <1>3, <2>1 DEF Chat!AliasStep
<1>6. CASE step = "grade"
  <2>1. Chat!Advance(step, text) = Chat!GradeStep(text)
    BY <1>6 DEF Chat!Advance
  <2> QED
    BY <1>1, <1>3, <2>1 DEF Chat!GradeStep
<1>7. CASE step = "section"
  <2>1. Chat!Advance(step, text) = Chat!SectionStep(text)
    BY <1>7 DEF Chat!Advance
  <2> QED
    BY <1>1, <1>3, <2>1 DEF Chat!SectionStep
<1>8. CASE step = "schedule"
  <2>1. Chat!Advance(step, text) = Chat!ScheduleStep(text)
    BY <1>8 DEF Chat!Advance
  <2> QED
    BY <1>1, <1>3, <2>1, Same, TimeInKind DEF Chat!ScheduleStep
<1> QED
  BY <1>4, <1>5, <1>6, <1>7, <1>8 DEF Chat!Step

\* An identity that is given to a family is one that no family had.
LEMMA JournalStepKind ==
    ASSUME ChatShape, PlaceInv, place = "enroll", NEW step \in Chat!Step, NEW text,
           Chat!JournalStep(Chat!Advance(step, text))
    PROVE  \E j :
             /\ j # Chat!NoJournal /\ j \in Journals'
             /\ enrollments' = [enrollments EXCEPT ![run.m] = j]
             /\ \/ families' = families /\ j.family = NoFamily /\ ~j.done
                \/ families' = families + 1 /\ families < MaxFamilies /\ j.family = families + 1
<1> DEFINE outcome == Chat!Advance(step, text)
<1>1. CASE \E actions \in Plain, reply \in Replies \ {None, "enrollment_done"} :
             outcome = Chat!Outcome(actions, reply)
  <2>1. PICK actions \in Plain, reply \in Replies \ {None, "enrollment_done"} :
             outcome = Chat!Outcome(actions, reply)
    BY <1>1
  <2>2. outcome = [actions |-> actions, reply |-> reply, done |-> FALSE, applied |-> FALSE,
                   family |-> NoFamily]
    BY <2>1, Same DEF Chat!Outcome
  <2>3. /\ enrollments' = [enrollments EXCEPT ![run.m] = outcome] /\ families' = families
    BY <2>2 DEF Chat!JournalStep
  <2>4. outcome \in [actions : Plain, reply : Replies \ {None}, done : {FALSE},
                     applied : BOOLEAN, family : {NoFamily}]
    BY <2>2
  <2>5. outcome \in Journals'
    BY <2>4 DEF Journals
  <2>7. outcome.reply # None /\ Chat!NoJournal.reply = None
    BY <2>2, Same DEF Chat!NoJournal
  <2>6. outcome.family = NoFamily /\ ~outcome.done
    BY <2>2
  <2> QED
    BY <2>3, <2>5, <2>6, <2>7
<1>2. CASE \E at \in Times \ {NoTime} :
             outcome = Chat!Outcome(Chat!Complete(at), "enrollment_done")
  <2>1. PICK at \in Times \ {NoTime} :
             outcome = Chat!Outcome(Chat!Complete(at), "enrollment_done")
    BY <1>2
  <2>2. outcome = [actions |-> Chat!Complete(at), reply |-> "enrollment_done", done |-> TRUE,
                   applied |-> FALSE, family |-> NoFamily]
    BY <2>1, Same DEF Chat!Outcome
  <2>3. PICK j : j = [outcome EXCEPT !.family = families']
    OBVIOUS
  <2>4. /\ enrollments' = [enrollments EXCEPT ![run.m] = j]
        /\ families < MaxFamilies /\ families' = families + 1
    BY <2>2, <2>3 DEF Chat!JournalStep
  <2>5. j = [actions |-> Chat!Complete(at), reply |-> "enrollment_done", done |-> TRUE,
             applied |-> FALSE, family |-> families']
    <3> HIDE DEF outcome
    <3> QED
      BY <2>2, <2>3
  <2>6. "enrollment_done" \in Replies \ {None} /\ families' \in Families'
    BY <2>4, Scalars, FamilyBound DEF Replies, Families
  <2>7. j \in [actions : {Chat!Complete(t) : t \in Times \ {NoTime}}, reply : Replies \ {None},
               done : {TRUE}, applied : BOOLEAN, family : Families']
    BY <2>5, <2>6
  <2>8. j \in Journals' /\ j # Chat!NoJournal
    BY <2>5, <2>7, Same DEF Journals, Chat!NoJournal
  <2>9. j.family = families'
    BY <2>5
  <2> QED
    BY <2>4, <2>8, <2>9
<1> QED
  BY <1>1, <1>2, AdvanceKind

LEMMA SetsGrow ==
    families \in Nat /\ families' = families + 1 =>
        /\ Families \subseteq Families' /\ Journals \subseteq Journals'
        /\ Receipts \subseteq Receipts' /\ Runs \subseteq Runs' /\ Prepareds \subseteq Prepareds'
<1> SUFFICES ASSUME families \in Nat, families' = families + 1
             PROVE  /\ Families \subseteq Families' /\ Journals \subseteq Journals'
                    /\ Receipts \subseteq Receipts' /\ Runs \subseteq Runs'
                    /\ Prepareds \subseteq Prepareds'
  OBVIOUS
<1>1. Families \subseteq Families'
  BY DEF Families
<1> QED
  BY <1>1 DEF Journals, Receipts, Runs, Prepareds

LEMMA EnrollStep == ChatInv /\ Chat!Enroll => ChatInv'
<1> SUFFICES ASSUME ChatInv, Chat!Enroll PROVE ChatInv'
  OBVIOUS
<1> USE DEF ChatInv
<1> DEFINE m == run.m
<1>1. /\ place = "enroll" /\ enrollments[m] = Chat!NoJournal
      /\ UNCHANGED <<sent, waiting, profile, lookup, student, private, saved, alarm, progress,
                     rewritten, prepared, receipt, erasing, erased, displaced, strayed>>
  BY DEF Chat!Enroll, Chat!At, Chat!rows, Chat!schedule, Chat!replies, Chat!erasure
<1>2. /\ m \in Chat!Message /\ lookup = NoFamily /\ run.next = 1
      /\ prepared[m] = Chat!Unprepared /\ ~Pending(m)
  BY <1>1, RunsAMessage, NoJournalKind DEF EnrollPlace, Pending
<1>3. ASSUME NEW reply \in {"enrollment_closed", "unknown_chat"},
             Chat!Reply(reply, NoFamily, FALSE), UNCHANGED <<enrollments, families>>
      PROVE  ChatInv'
  <2>1. /\ place' = "prepare" /\ run' \in Runs /\ run'.m = m /\ run'.family = NoFamily
        /\ run'.reply # None
    <3>1. reply \in Replies /\ reply # None
      BY Scalars DEF Replies
    <3> QED
      BY <1>3, <3>1, ReplyRun
  <2>2. ChatShape'
    BY <1>1, <1>3, <2>1, SetsKept DEF ChatShape
  <2>3. PlaceInv'
    BY <1>1, <1>2, <1>3, <2>1 DEF PlaceInv, Handling, Underway, Pending, Forgets
  <2>4. EnrollPlace' /\ ErasePlace'
    BY <2>1 DEF EnrollPlace, ErasePlace, Underway
  <2>5. FamilyPlace'
    BY <1>1, <1>2, <2>1 DEF FamilyPlace, Syncing
  <2>6. RowsInv' /\ WholeInv' /\ AlarmInv' /\ RecordInv' /\ GoneInv' /\ OwedInv'
    BY <1>1, <1>2, <1>3 DEF RowsInv, WholeInv, AlarmInv, RecordInv, GoneInv, OwedInv, ErasureOwed,
                              Gone, Left
  <2> QED
    BY <2>2, <2>3, <2>4, <2>5, <2>6
<1>4. ASSUME NEW step \in Chat!Step, NEW text, Chat!JournalStep(Chat!Advance(step, text)),
             place' = "enroll", run' = run
      PROVE  ChatInv'
  <2>1. PICK j :
          /\ j # Chat!NoJournal /\ j \in Journals'
          /\ enrollments' = [enrollments EXCEPT ![m] = j]
          /\ \/ families' = families /\ j.family = NoFamily /\ ~j.done
             \/ families' = families + 1 /\ families < MaxFamilies /\ j.family = families + 1
    BY <1>1, <1>4, JournalStepKind
  <2>2. /\ families \in Nat /\ families' \in 0..MaxFamilies
        /\ Families \subseteq Families' /\ Journals \subseteq Journals'
        /\ Receipts \subseteq Receipts' /\ Runs \subseteq Runs' /\ Prepareds \subseteq Prepareds'
    BY <2>1, FamilyBound, SetsKept, SetsGrow DEF ChatShape
  <2>3. /\ enrollments' \in [Chat!Message -> Journals'] /\ enrollments'[m] = j
        /\ \A n \in Chat!Message \ {m} : enrollments'[n] = enrollments[n]
    BY <1>2, <2>1, <2>2 DEF ChatShape
  <2>4. ChatShape'
    BY <1>1, <1>4, <2>2, <2>3 DEF ChatShape
  <2>5. PlaceInv'
    <3>1. m <= Len(sent) /\ ~Forgets(m)
      BY <1>1, RunsAMessage DEF PlaceInv, Handling
    <3> QED
      BY <1>1, <1>2, <1>4, <2>3, <3>1 DEF PlaceInv, Handling, Underway, Pending, Forgets
  <2>6. EnrollPlace'
    BY <1>1, <1>2, <1>4, <2>3 DEF EnrollPlace, Pending
  <2>7. FamilyPlace' /\ ErasePlace'
    BY <1>4 DEF FamilyPlace, Syncing, ErasePlace, Underway
  <2>8. GoneInv'
    <3>1. j.family \notin erased
      <4>1. families + 1 \notin Families /\ NoFamily \notin Families /\ erased \subseteq Families
        BY <2>2, FamilyBound DEF ChatShape, Families
      <4> QED
        BY <2>1, <4>1
    <3> QED
      BY <1>1, <2>3, <3>1 DEF GoneInv, Gone, Left
  <2>9. RowsInv' /\ WholeInv' /\ AlarmInv' /\ RecordInv' /\ OwedInv'
    BY <1>1, <1>2 DEF RowsInv, WholeInv, AlarmInv, RecordInv, OwedInv, ErasureOwed
  <2> QED
    BY <2>4, <2>5, <2>6, <2>7, <2>8, <2>9
<1>5. PICK codes \in Chat!InviteCodes :
        \/ Chat!Reply("enrollment_closed", NoFamily, FALSE) /\ UNCHANGED <<enrollments, families>>
        \/ Chat!Reply("unknown_chat", NoFamily, FALSE) /\ UNCHANGED <<enrollments, families>>
        \/ /\ Chat!JournalStep(Chat!Advance(
                  IF progress = None THEN "consent" ELSE progress, Chat!Text))
           /\ Chat!Goto("enroll")
  BY Same DEF Chat!Enroll
<1>6. CASE Chat!JournalStep(Chat!Advance(
                IF progress = None THEN "consent" ELSE progress, Chat!Text))
           /\ Chat!Goto("enroll")
  <2>1. PICK step, text : /\ step = (IF progress = None THEN "consent" ELSE progress)
                          /\ text = Chat!Text
    OBVIOUS
  <2>2. step \in Chat!Step
    BY <2>1 DEF ChatShape, Chat!Step
  <2> QED
    BY <1>4, <1>6, <2>1, <2>2 DEF Chat!Goto
<1> QED
  BY <1>3, <1>5, <1>6

(***************************************************************************)
(* What a step of a journal does: it moves the chat on, or it is one of    *)
(* the writes that complete an enrollment, in their order.                 *)
(***************************************************************************)
LEMMA ApplyEffect ==
    ASSUME ChatInv, Chat!ApplyStep
    PROVE  LET m == run.m
               f == enrollments[m].family
           IN
           /\ place = "enroll" /\ place' = "enroll" /\ m \in Chat!Message /\ m \in waiting
           /\ run' \in Runs /\ run'.m = m /\ run'.next = run.next + 1
           /\ enrollments[m] # Chat!NoJournal
           /\ progress' \in Chat!Step \cup {None}
           /\ UNCHANGED <<sent, waiting, private, saved, alarm, enrollments, families, prepared,
                          receipt, erasing, erased, displaced, strayed>>
           /\ \/ ~Pending(m) /\ UNCHANGED <<profile, lookup, student, rewritten>>
              \/ /\ Pending(m) /\ f \in Families /\ f \in Chat!FamilyId
                 /\ \/ /\ run.next = 1 /\ UNCHANGED <<lookup, student>>
                       /\ \E new \in Profiles \ {NoProfile} :
                            /\ new.status = "active" /\ profile' = [profile EXCEPT ![f] = new]
                            /\ rewritten' = rewritten
                                 \cup (IF profile[f] \in {NoProfile, new} THEN {} ELSE {f})
                    \/ run.next = 2 /\ lookup' = f /\ UNCHANGED <<profile, student, rewritten>>
                    \/ /\ run.next \in {3, 4} /\ UNCHANGED <<profile, lookup, rewritten>>
                       /\ student' = [student EXCEPT
                            ![f] = @ \cup {IF run.next = 3 THEN "index" ELSE "student"}]
                    \/ run.next = 5 /\ UNCHANGED <<profile, lookup, student, rewritten>>
<1> USE DEF ChatInv
<1> DEFINE m == run.m
           j == enrollments[m]
           f == j.family
           action == j.actions[run.next]
<1>1. /\ place = "enroll" /\ place' = "enroll" /\ run.next <= Len(j.actions) /\ ~j.applied
      /\ UNCHANGED <<sent, waiting, private, saved, alarm, enrollments, families, prepared,
                     receipt, erasing, erased, displaced, strayed>>
      /\ run' = [run EXCEPT !.next = @ + 1]
  BY DEF Chat!ApplyStep, Chat!At, Chat!Journal, Chat!schedule, Chat!replies, Chat!erasure
<1>2. m \in Chat!Message /\ m \in waiting /\ run.next \in 1..6 /\ j \in Journals
  BY <1>1, RunsAMessage, RunFields DEF ChatShape
<1>3. j # Chat!NoJournal
  <2>1. Len(Chat!NoJournal.actions) = 0
    BY DEF Chat!NoJournal
  <2> QED
    BY <1>1, <1>2, <2>1
<1>4. /\ progress' = IF action.row = "enrollment" THEN action.step ELSE progress
      /\ profile' = IF action.row = "profile"
                    THEN [profile EXCEPT ![f] = [status |-> "active", at |-> action.at]]
                    ELSE profile
      /\ lookup' = IF action.row = "lookup" THEN f ELSE lookup
      /\ student' = IF action.row = "index" \/ action.row = "student"
                    THEN [student EXCEPT ![f] = @ \cup {action.row}] ELSE student
      /\ rewritten' = IF action.row = "profile"
                         /\ profile[f] \notin {NoProfile, [status |-> "active", at |-> action.at]}
                      THEN rewritten \cup {f} ELSE rewritten
  BY Same DEF Chat!ApplyStep, Chat!Journal
<1>5. progress \in Chat!Step \cup {None}
  BY DEF ChatShape
<1>6. CASE ~j.done
  <2>1. run.next = 1 /\ action.row = "enrollment" /\ action.step \in Chat!Step \cup {None}
    <3>1. j.actions \in Plain
      BY <1>2, <1>3, <1>6, JournalKinds
    <3>2. run.next = 1
      <4>1. PICK actions : actions = j.actions
        OBVIOUS
      <4>2. actions \in Plain /\ run.next <= Len(actions)
        BY <1>1, <3>1, <4>1
      <4>3. Len(actions) = 1
        BY <4>2, PlainSteps
      <4> QED
        BY <1>2, <4>2, <4>3
    <3> QED
      BY <3>1, <3>2, PlainSteps
  <2>2. run' \in Runs /\ run'.m = m /\ run'.next = run.next + 1
    <3>1. run.next + 1 \in 1..6 /\ run \in Runs
      BY <2>1 DEF ChatShape
    <3> QED
      BY <1>1, <3>1 DEF Runs
  <2> HIDE DEF action
  <2> QED
    BY <1>1, <1>2, <1>3, <1>4, <1>6, <2>1, <2>2 DEF Pending
<1>7. CASE j.done
  <2>1. PICK at \in Times \ {NoTime} : j.actions = Chat!Complete(at)
    BY <1>2, <1>7, JournalKinds
  <2>2. f \in Families /\ f \in Chat!FamilyId /\ Pending(m)
    BY <1>1, <1>2, <1>7, JournalKinds, FamilyBound DEF Pending
  <2>3. run.next \in 1..5
    <3>1. run.next <= Len(Chat!Complete(at))
      BY <1>1, <2>1
    <3>2. Len(Chat!Complete(at)) = 5
      BY CompleteSteps
    <3> QED
      BY <1>2, <3>1, <3>2
  <2>4. run' \in Runs /\ run'.m = m /\ run'.next = run.next + 1
    <3>1. run.next + 1 \in 1..6 /\ run \in Runs
      BY <2>3 DEF ChatShape
    <3> QED
      BY <1>1, <3>1 DEF Runs
  <2>5. \/ run.next = 1 /\ action = [row |-> "profile", at |-> at]
        \/ run.next = 2 /\ action = [row |-> "lookup"]
        \/ run.next = 3 /\ action = [row |-> "index"]
        \/ run.next = 4 /\ action = [row |-> "student"]
        \/ run.next = 5 /\ action = [row |-> "enrollment", step |-> None]
    BY <2>1, <2>3, CompleteSteps
  <2>6. PICK new : new = [status |-> "active", at |-> at]
    OBVIOUS
  <2>7. new \in Profiles \ {NoProfile} /\ new.status = "active"
    BY <2>6, ProfileKinds DEF Profiles
  <2> HIDE DEF action
  <2>8. CASE run.next = 1
    <3>1. action.row = "profile" /\ [status |-> "active", at |-> action.at] = new
      BY <2>5, <2>6, <2>8
    <3> QED
      BY <1>1, <1>2, <1>3, <1>4, <1>5, <2>2, <2>4, <2>7, <2>8, <3>1
  <2>9. CASE run.next = 2
    <3>1. action.row = "lookup"
      BY <2>5, <2>9
    <3> QED
      BY <1>1, <1>2, <1>3, <1>4, <1>5, <2>2, <2>4, <2>9, <3>1
  <2>10. CASE run.next \in {3, 4}
    <3>1. action.row = IF run.next = 3 THEN "index" ELSE "student"
      BY <2>5, <2>10
    <3> QED
      BY <1>1, <1>2, <1>3, <1>4, <1>5, <2>2, <2>4, <2>10, <3>1
  <2>11. CASE run.next = 5
    <3>1. action.row = "enrollment" /\ action.step = None
      BY <2>5, <2>11
    <3> QED
      BY <1>1, <1>2, <1>3, <1>4, <1>5, <2>2, <2>4, <2>11, <3>1
  <2> QED
    BY <2>3, <2>8, <2>9, <2>10, <2>11
<1> QED
  BY <1>6, <1>7

LEMMA ApplyStep == ChatInv /\ Chat!ApplyStep => ChatInv'
<1> SUFFICES ASSUME ChatInv, Chat!ApplyStep PROVE ChatInv'
  OBVIOUS
<1> USE DEF ChatInv
<1> DEFINE m == run.m
           f == enrollments[m].family
<1>1. /\ place = "enroll" /\ place' = "enroll" /\ m \in Chat!Message /\ m \in waiting
      /\ run' \in Runs /\ run'.m = m /\ run'.next = run.next + 1 /\ run.next \in 1..6
      /\ enrollments[m] # Chat!NoJournal
      /\ progress' \in Chat!Step \cup {None}
      /\ UNCHANGED <<sent, waiting, private, saved, alarm, enrollments, families, prepared,
                     receipt, erasing, erased, displaced, strayed>>
  BY ApplyEffect, RunFields DEF ChatShape
<1>2. ~Forgets(m) /\ prepared[m] = Chat!Unprepared
  BY <1>1 DEF PlaceInv, Handling, EnrollPlace
<1>3. PlaceInv' /\ FamilyPlace' /\ ErasePlace' /\ OwedInv'
  BY <1>1 DEF PlaceInv, Handling, Underway, Pending, Forgets, FamilyPlace, Syncing, ErasePlace,
              OwedInv
<1>4. RecordInv'
  BY <1>1, <1>2 DEF RecordInv, WillSync, Forgets
<1>5. CASE ~Pending(m)
  <2>1. UNCHANGED <<profile, lookup, student, rewritten>>
    BY <1>5, ApplyEffect
  <2>2. ChatShape'
    BY <1>1, <2>1, SetsKept DEF ChatShape
  <2>3. EnrollPlace'
    BY <1>1, <1>2, <1>5 DEF EnrollPlace, Pending
  <2>4. RowsInv' /\ WholeInv' /\ AlarmInv' /\ GoneInv'
    BY <1>1, <2>1
    DEF RowsInv, WholeInv, AlarmInv, GoneInv, ErasureOwed, WholeFamily, Pending, Gone, Left
  <2> QED
    BY <1>3, <1>4, <2>2, <2>3, <2>4
<1>6. CASE Pending(m)
  <2>1. f \in Families /\ f \in Chat!FamilyId /\ f # NoFamily /\ f \notin erased
    BY <1>1, <1>6, ApplyEffect, FamilyBound DEF GoneInv
  <2>2. \/ /\ run.next = 1 /\ UNCHANGED <<lookup, student>>
           /\ \E new \in Profiles \ {NoProfile} :
                /\ new.status = "active" /\ profile' = [profile EXCEPT ![f] = new]
                /\ rewritten' = rewritten
                     \cup (IF profile[f] \in {NoProfile, new} THEN {} ELSE {f})
        \/ run.next = 2 /\ lookup' = f /\ UNCHANGED <<profile, student, rewritten>>
        \/ /\ run.next \in {3, 4} /\ UNCHANGED <<profile, lookup, rewritten>>
           /\ student' = [student EXCEPT
                ![f] = @ \cup {IF run.next = 3 THEN "index" ELSE "student"}]
        \/ run.next = 5 /\ UNCHANGED <<profile, lookup, student, rewritten>>
    BY <1>6, ApplyEffect
  <2>3. /\ profile' \in [Chat!FamilyId -> Profiles]
        /\ student' \in [Chat!FamilyId -> SUBSET {"index", "student"}]
        /\ \A g \in Chat!FamilyId \ {f} : profile'[g] = profile[g] /\ student'[g] = student[g]
        /\ profile'[f] = profile[f] \/ (profile'[f].status = "active" /\ profile'[f] # NoProfile)
    BY <2>1, <2>2 DEF ChatShape
  <2>4. /\ run.next > 1 => profile[f].status = "active" /\ profile[f] # NoProfile
        /\ run.next > 2 => lookup = f
        /\ run.next > 3 => "index" \in student[f]
        /\ run.next > 4 => "student" \in student[f]
    BY <1>1, <1>6, ProfileKinds DEF EnrollPlace
  <2>5. lookup' = lookup \/ (lookup' = f /\ run.next = 2 /\ profile' = profile)
    BY <2>2
  <2>6. ChatShape'
    BY <1>1, <2>1, <2>3, <2>5, SetsKept DEF ChatShape
  <2>7. EnrollPlace'
    <3>1. /\ profile'[f].status = "active"
          /\ run.next > 1 => lookup' = f
          /\ run.next > 2 => "index" \in student'[f]
          /\ run.next > 3 => "student" \in student'[f]
      BY <1>1, <2>1, <2>2, <2>4 DEF ChatShape
    <3> QED
      BY <1>1, <1>2, <3>1 DEF EnrollPlace, Pending
  <2>8. RowsInv'
    BY <1>1, <2>1, <2>3, <2>4, <2>5 DEF RowsInv
  <2>9. WholeInv'
    <3>1. CASE lookup' = f
      BY <1>1, <1>6, <3>1 DEF WholeInv, Pending
    <3>2. CASE lookup' # f
      <4>1. lookup' = lookup /\ (lookup # NoFamily => student'[lookup] = student[lookup])
        BY <2>3, <2>5, <3>2, FamilyBound DEF ChatShape
      <4> QED
        BY <1>1, <4>1 DEF WholeInv, ErasureOwed, WholeFamily, Pending
    <3> QED
      BY <3>1, <3>2
  <2>10. AlarmInv'
    <3>1. ASSUME NEW g \in Chat!FamilyId \ rewritten', g # f,
                 saved[g] = AlarmSpec(profile'[g]),
                 profile'[g].status = "active" \/ (lookup' = g /\ ~ErasureOwed')
          PROVE  alarm[g] = saved[g]
      BY <1>1, <2>2, <2>3, <2>5, <3>1 DEF AlarmInv, ErasureOwed
    <3>2. ASSUME f \notin rewritten', saved[f] = AlarmSpec(profile'[f])
          PROVE  alarm[f] = saved[f]
      <4>1. CASE run.next = 1
        <5>1. PICK new \in Profiles \ {NoProfile} :
                /\ new.status = "active" /\ profile' = [profile EXCEPT ![f] = new]
                /\ rewritten' = rewritten
                     \cup (IF profile[f] \in {NoProfile, new} THEN {} ELSE {f})
          BY <2>2, <4>1
        <5>2. profile'[f] = new /\ profile[f] \in {NoProfile, new} /\ f \notin rewritten
          BY <2>1, <3>2, <5>1 DEF ChatShape
        <5>3. AlarmSpec(new) # NoAlarm
          <6>1. (new.status # "paused") = TRUE
            BY <5>1
          <6> QED
            BY <6>1 DEF AlarmSpec, NoAlarm
        <5>4. profile[f] # NoProfile
          BY <2>1, <3>2, <5>2, <5>3 DEF RowsInv
        <5> QED
          BY <2>1, <3>2, <5>1, <5>2, <5>4 DEF AlarmInv
      <4>2. CASE run.next # 1
        <5>1. profile' = profile /\ rewritten' = rewritten /\ run.next > 1
          BY <1>1, <2>2, <4>2
        <5> QED
          BY <2>1, <2>4, <3>2, <5>1 DEF AlarmInv
      <4> QED
        BY <4>1, <4>2
    <3> QED
      BY <1>1, <3>1, <3>2 DEF AlarmInv
  <2>11. GoneInv'
    BY <1>1, <2>1, <2>3, <2>5, FamilyBound DEF GoneInv, Gone, Left, ChatShape
  <2> QED
    BY <1>3, <1>4, <2>6, <2>7, <2>8, <2>9, <2>10, <2>11
<1> QED
  BY <1>5, <1>6

LEMMA AppliedStep == ChatInv /\ Chat!StepApplied => ChatInv'
<1> SUFFICES ASSUME ChatInv, Chat!StepApplied PROVE ChatInv'
  OBVIOUS
<1> USE DEF ChatInv
<1> DEFINE m == run.m
           j == enrollments[m]
<1>1. /\ place = "enroll" /\ j # Chat!NoJournal /\ (j.applied \/ run.next > Len(j.actions))
      /\ enrollments' = [enrollments EXCEPT ![m] = [@ EXCEPT !.applied = TRUE]]
      /\ Chat!Reply(j.reply, lookup, FALSE)
      /\ UNCHANGED <<sent, waiting, profile, lookup, student, private, saved, alarm, progress,
                     families, rewritten, prepared, receipt, erasing, erased, displaced, strayed>>
  BY Same, LeadsToProfile
  DEF Chat!StepApplied, Chat!At, Chat!Journal, Chat!rows, Chat!schedule, Chat!replies,
      Chat!erasure
<1>2. /\ m \in Chat!Message /\ m \in waiting /\ ~Forgets(m) /\ j \in Journals
      /\ prepared[m] = Chat!Unprepared
  BY <1>1, RunsAMessage DEF PlaceInv, Handling, EnrollPlace, ChatShape
<1>3. /\ place' = "prepare" /\ run' \in Runs /\ run'.m = m /\ run'.family = lookup
      /\ run'.reply # None
  <2>1. j.reply \in Replies \ {None} /\ lookup \in Families \cup {NoFamily}
    BY <1>1, <1>2, JournalKinds DEF ChatShape
  <2> QED
    BY <1>1, <2>1, ReplyRun
<1>4. /\ enrollments' \in [Chat!Message -> Journals]
      /\ enrollments'[m].applied = TRUE /\ enrollments'[m].family = j.family
      /\ \A n \in Chat!Message \ {m} : enrollments'[n] = enrollments[n]
  <2>1. PICK k : k = [j EXCEPT !.applied = TRUE]
    OBVIOUS
  <2>2. k \in Journals /\ k.applied = TRUE /\ k.family = j.family
    BY <1>1, <1>2, <2>1, JournalKinds
  <2>3. enrollments' = [enrollments EXCEPT ![m] = k]
    BY <1>1, <2>1
  <2> QED
    BY <1>2, <2>2, <2>3 DEF ChatShape
<1>5. /\ ~Pending(m)'
      /\ \A n \in Chat!Message \ {m} : Pending(n)' = Pending(n)
  BY <1>3, <1>4 DEF Pending
<1>6. ChatShape'
  BY <1>1, <1>3, <1>4, SetsKept DEF ChatShape
<1>7. PlaceInv'
  BY <1>1, <1>2, <1>3, <1>5 DEF PlaceInv, Handling, Underway, Forgets
<1>8. EnrollPlace' /\ ErasePlace'
  BY <1>3 DEF EnrollPlace, ErasePlace, Underway
<1>9. FamilyPlace'
  BY <1>1, <1>2, <1>3 DEF FamilyPlace, Syncing
<1>10. RowsInv' /\ AlarmInv' /\ OwedInv'
  BY <1>1 DEF RowsInv, AlarmInv, OwedInv, ErasureOwed
<1>11. WholeInv'
  <2>1. Pending(m) /\ j.family = lookup => WholeFamily(lookup) \/ lookup = NoFamily
    <3> SUFFICES ASSUME Pending(m), j.family = lookup, lookup # NoFamily PROVE WholeFamily(lookup)
      OBVIOUS
    <3>1. run.next > 4
      <4>1. PICK at \in Times \ {NoTime} : j.actions = Chat!Complete(at)
        <5>1. j.done
          BY DEF Pending
        <5> QED
          BY <1>2, <5>1, JournalKinds
      <4>2. run.next > Len(Chat!Complete(at))
        BY <1>1, <4>1 DEF Pending
      <4>3. Len(Chat!Complete(at)) = 5 /\ run.next \in 1..6
        BY CompleteSteps, RunFields DEF ChatShape
      <4> QED
        BY <4>2, <4>3
    <3>2. student[lookup] \subseteq {"index", "student"}
      BY FamilyBound DEF ChatShape
    <3>3. run.next \in 1..6
      BY RunFields DEF ChatShape
    <3>4. run.next > 3 /\ run.next > 4
      BY <3>1, <3>3
    <3> QED
      BY <1>1, <3>2, <3>4 DEF EnrollPlace, WholeFamily
  <2>2. \A n \in waiting : Pending(n) /\ n # m =>
          Pending(n)' /\ enrollments'[n].family = enrollments[n].family
    BY <1>4, <1>5, RunsAMessage
  <2> QED
    BY <1>1, <2>1, <2>2 DEF WholeInv, ErasureOwed, WholeFamily
<1>12. RecordInv'
  BY <1>1, <1>2, <1>3 DEF RecordInv, WillSync, Forgets
<1>13. GoneInv'
  BY <1>1, <1>2, <1>4 DEF GoneInv, Gone, Left
<1> QED
  BY <1>6, <1>7, <1>8, <1>9, <1>10, <1>11, <1>12, <1>13

LEMMA SendStep == ChatInv /\ Chat!Send => ChatInv'
<1> SUFFICES ASSUME ChatInv, Chat!Send PROVE ChatInv'
  OBVIOUS
<1> USE DEF ChatInv
<1>1. PICK content \in Content[Len(sent) + 1] : sent' = Append(sent, content)
  BY DEF Chat!Send
<1>2. /\ place = "idle" /\ place' = "idle" /\ Len(sent) < MaxMessages
      /\ waiting' = waiting \cup {Len(sent) + 1}
      /\ UNCHANGED <<profile, lookup, student, private, saved, alarm, progress, enrollments,
                     families, rewritten, prepared, receipt, erasing, erased, displaced, strayed,
                     run>>
  BY DEF Chat!Send, Chat!At, Chat!rows, Chat!schedule, Chat!steps, Chat!replies, Chat!erasure
<1>3. /\ sent' \in Seq(Texts) /\ Len(sent') = Len(sent) + 1 /\ Len(sent) \in Nat
      /\ Len(sent') <= MaxMessages
      /\ \A m \in 1..Len(sent) : sent'[m] = sent[m]
  <2>1. Len(sent) \in Nat /\ Len(sent) + 1 \in 1..MaxMessages
    BY <1>2, LenProperties DEF ChatShape, Chat!LifecycleAssumption
  <2>2. content \in Texts
    BY <2>1 DEF Texts
  <2>3. sent \in Seq(Texts)
    BY DEF ChatShape
  <2> QED
    BY <1>1, <2>1, <2>2, <2>3, AppendProperties
<1>4. \A m \in 1..Len(sent) : Forgets(m)' = Forgets(m)
  BY <1>3 DEF Forgets
<1>5. ChatShape'
  <2>1. waiting \subseteq 1..Len(sent)
    BY DEF ChatShape
  <2>2. waiting' \subseteq 1..Len(sent')
    <3> DEFINE n == Len(sent)
    <3>1. n \in Nat => 1..n \subseteq 1..(n + 1) /\ n + 1 \in 1..(n + 1)
      <4> HIDE DEF n
      <4> QED
        OBVIOUS
    <3> QED
      BY <1>2, <1>3, <2>1, <3>1
  <2> QED
    BY <1>2, <1>3, <2>2, SetsKept DEF ChatShape
<1>6. PlaceInv'
  BY <1>2, <1>3, <1>4 DEF PlaceInv, Handling, Underway, Pending, Chat!Message
<1>7. EnrollPlace' /\ FamilyPlace' /\ ErasePlace'
  BY <1>2 DEF EnrollPlace, FamilyPlace, ErasePlace, Underway, Syncing
<1>8. RowsInv' /\ GoneInv' /\ OwedInv'
  BY <1>2 DEF RowsInv, GoneInv, OwedInv, Gone, Left
<1>9. ErasureOwed => ErasureOwed'
  BY <1>2 DEF ErasureOwed
<1>10. WholeInv' /\ AlarmInv'
  BY <1>2, <1>9 DEF WholeInv, AlarmInv, WholeFamily, Pending
<1>11. RecordInv'
  BY <1>2, <1>4, <1>9 DEF RecordInv, WillSync, ChatShape
<1> QED
  BY <1>5, <1>6, <1>7, <1>8, <1>10, <1>11

\* The alarm that a family ought to have is the alarm of a profile.
LEMMA WantedKind ==
    ASSUME ChatShape, run.family \in Chat!FamilyId
    PROVE  Chat!Wanted = AlarmSpec(profile[run.family]) /\ Chat!Wanted \in Alarms
  BY Same DEF ChatShape, Chat!Wanted, Alarms

LEMMA SyncStep == ChatInv /\ Chat!SyncSchedule => ChatInv'
<1> SUFFICES ASSUME ChatInv, Chat!SyncSchedule PROVE ChatInv'
  OBVIOUS
<1> USE DEF ChatInv
<1> DEFINE f == run.family
<1>1. /\ place = "sync"
      /\ UNCHANGED <<sent, waiting, profile, lookup, student, private, saved, progress,
                     enrollments, families, rewritten, prepared, receipt, erasing, erased,
                     displaced, strayed, run>>
  BY DEF Chat!SyncSchedule, Chat!At, Chat!rows, Chat!steps, Chat!replies, Chat!erasure
<1>2. /\ f \in Chat!FamilyId /\ f # NoFamily /\ profile[f] # NoProfile
      /\ run.then \in {"route", "deliver"}
  BY <1>1, FamilyBound, RunFields DEF ChatShape, FamilyPlace
<1>3. \/ saved[f] = AlarmSpec(profile[f]) /\ place' = run.then /\ alarm' = alarm
      \/ saved[f] # AlarmSpec(profile[f]) /\ place' = "save"
         /\ alarm' = [alarm EXCEPT ![f] = AlarmSpec(profile[f])]
  BY <1>2, WantedKind DEF Chat!SyncSchedule
<1>4. alarm' \in [Chat!FamilyId -> Alarms] /\ \A g \in Chat!FamilyId \ {f} : alarm'[g] = alarm[g]
  BY <1>2, <1>3, WantedKind DEF ChatShape
<1>5. ChatShape'
  BY <1>1, <1>4, SetsKept DEF ChatShape
<1>6. PlaceInv'
  BY <1>1, <1>2, <1>3 DEF PlaceInv, Handling, Underway, Pending, Forgets
<1>7. EnrollPlace' /\ ErasePlace'
  BY <1>1, <1>2, <1>3 DEF EnrollPlace, ErasePlace, Underway
<1>8. FamilyPlace'
  BY <1>1, <1>2, <1>3 DEF FamilyPlace, Syncing, ChatShape
<1>9. RowsInv'
  BY <1>1, <1>2, <1>4 DEF RowsInv
<1>10. WholeInv' /\ OwedInv'
  BY <1>1 DEF WholeInv, OwedInv, ErasureOwed, WholeFamily, Pending
<1>11. RecordInv'
  BY <1>1, <1>2, <1>3, Scalars DEF RecordInv, ErasureOwed, WillSync, Forgets, FamilyPlace, Syncing
<1>12. AlarmInv'
  BY <1>1, <1>2, <1>3, <1>4 DEF AlarmInv, ErasureOwed
<1>13. GoneInv'
  BY <1>1, <1>2, <1>4, FamilyBound DEF GoneInv, Gone, Left, ChatShape
<1> QED
  BY <1>5, <1>6, <1>7, <1>8, <1>9, <1>10, <1>11, <1>12, <1>13

LEMMA SaveStep == ChatInv /\ Chat!SaveSchedule => ChatInv'
<1> SUFFICES ASSUME ChatInv, Chat!SaveSchedule PROVE ChatInv'
  OBVIOUS
<1> USE DEF ChatInv
<1> DEFINE f == run.family
<1>1. /\ place = "save" /\ place' = run.then
      /\ UNCHANGED <<sent, waiting, profile, lookup, student, private, alarm, progress,
                     enrollments, families, rewritten, prepared, receipt, erasing, erased,
                     displaced, strayed, run>>
  BY DEF Chat!SaveSchedule, Chat!At, Chat!rows, Chat!steps, Chat!replies, Chat!erasure
<1>2. /\ f \in Chat!FamilyId /\ f # NoFamily /\ profile[f] # NoProfile
      /\ run.then \in {"route", "deliver"}
  BY <1>1, FamilyBound, RunFields DEF ChatShape, FamilyPlace
<1>3. /\ saved' \in [Chat!FamilyId -> Alarms] /\ saved'[f] = AlarmSpec(profile[f])
      /\ \A g \in Chat!FamilyId \ {f} : saved'[g] = saved[g]
  BY <1>2, WantedKind DEF ChatShape, Chat!SaveSchedule
<1>5. ChatShape'
  BY <1>1, <1>3, SetsKept DEF ChatShape
<1>6. PlaceInv'
  BY <1>1, <1>2 DEF PlaceInv, Handling, Underway, Pending, Forgets
<1>7. EnrollPlace' /\ ErasePlace'
  BY <1>1, <1>2 DEF EnrollPlace, ErasePlace, Underway
<1>8. FamilyPlace'
  BY <1>1, <1>2, <1>3 DEF FamilyPlace, Syncing
<1>9. RowsInv'
  BY <1>1, <1>2, <1>3 DEF RowsInv
<1>10. WholeInv' /\ OwedInv'
  BY <1>1 DEF WholeInv, OwedInv, ErasureOwed, WholeFamily, Pending
<1>11. RecordInv'
  <2>1. lookup \in Chat!FamilyId \cup {NoFamily}
    BY FamilyBound DEF ChatShape
  <2> QED
    BY <1>1, <1>2, <1>3, <2>1, Scalars
    DEF RecordInv, ErasureOwed, WillSync, Forgets, FamilyPlace, Syncing
<1>12. AlarmInv'
  BY <1>1, <1>2, <1>3 DEF AlarmInv, ErasureOwed, FamilyPlace
<1>13. GoneInv'
  BY <1>1, <1>2, <1>3, FamilyBound DEF GoneInv, Gone, Left, ChatShape
<1> QED
  BY <1>5, <1>6, <1>7, <1>8, <1>9, <1>10, <1>11, <1>12, <1>13

LEMMA HandleRun ==
    ASSUME ChatInv, NEW m \in Chat!Message, Chat!Handle(m)
    PROVE  /\ run' \in Runs /\ run'.m = m /\ run'.family = lookup /\ run'.then = "route"
           /\ run'.next = 1
<1> DEFINE r == [m |-> m, family |-> lookup, reply |-> None, event |-> FALSE, next |-> 1,
                 then |-> "route", deleting |-> {}]
<1>1. run' = r
  BY Same, LeadsToProfile DEF Chat!Handle, Chat!NoRun
<1>2. None \in Replies /\ lookup \in Families \cup {NoFamily}
  BY DEF Replies, ChatInv, ChatShape
<1>3. r \in Runs
  BY <1>2 DEF Runs
<1> QED
  BY <1>1, <1>3

LEMMA HandleStep == ChatInv /\ (\E m \in Chat!Message : Chat!Handle(m)) => ChatInv'
<1> SUFFICES ASSUME ChatInv, NEW m \in Chat!Message, Chat!Handle(m) PROVE ChatInv'
  OBVIOUS
<1> USE DEF ChatInv
<1>1. /\ place = "idle" /\ m \in waiting
      /\ run' \in Runs /\ run'.m = m /\ run'.family = lookup /\ run'.then = "route"
      /\ run'.next = 1
      /\ UNCHANGED <<sent, waiting, profile, lookup, student, private, saved, alarm, progress,
                     enrollments, families, rewritten, prepared, receipt, erasing, erased,
                     displaced, strayed>>
  BY HandleRun
  DEF Chat!Handle, Chat!At, Chat!rows, Chat!schedule, Chat!steps, Chat!replies, Chat!erasure
<1>2. \/ place' = "erase" /\ Forgets(m)
      \/ /\ ~Forgets(m)
         /\ \/ place' = "finish" /\ prepared[m] # Chat!Unprepared
            \/ /\ prepared[m] = Chat!Unprepared
               /\ \/ place' = "enroll" /\ (lookup = NoFamily \/ enrollments[m] # Chat!NoJournal)
                  \/ place' = "sync" /\ lookup # NoFamily /\ enrollments[m] = Chat!NoJournal
  BY Same, LeadsToProfile DEF Chat!Handle, Forgets, Chat!Enrolling
<1>3. /\ Pending(m) => place' \in {"enroll", "erase"}
      /\ Forgets(m)' = Forgets(m) /\ Pending(m)' = Pending(m)
  BY <1>1, <1>2, NoJournalKind DEF PlaceInv, Pending, Forgets
<1>4. ChatShape'
  BY <1>1, SetsKept DEF ChatShape
<1>5. PlaceInv'
  <2>1. \A n \in Chat!Message :
          /\ receipt'[n] # Chat!NoReceipt => n <= Len(sent') /\ Forgets(n)'
          /\ prepared'[n] # Chat!Unprepared => ~Pending(n)'
          /\ Pending(n)' => n <= Len(sent') /\ ~Forgets(n)'
    BY <1>1 DEF PlaceInv, Pending, Forgets
  <2> QED
    BY <1>1, <1>2, <1>3, <2>1 DEF PlaceInv, Handling, Underway
<1>6. EnrollPlace'
  BY <1>1, <1>2 DEF EnrollPlace, Pending
<1>7. FamilyPlace'
  BY <1>1, <1>2, Scalars, FamilyBound DEF ChatShape, FamilyPlace, Syncing, RowsInv
<1>8. ErasePlace'
  BY <1>2 DEF ErasePlace, Underway
<1>9. RowsInv' /\ WholeInv' /\ AlarmInv' /\ GoneInv' /\ OwedInv'
  BY <1>1 DEF RowsInv, WholeInv, AlarmInv, GoneInv, OwedInv, ErasureOwed, Pending, WholeFamily,
              Gone, Left
<1>10. RecordInv'
  BY <1>1, <1>2 DEF RecordInv, ErasureOwed, WillSync, Forgets
<1> QED
  BY <1>4, <1>5, <1>6, <1>7, <1>8, <1>9, <1>10

LEMMA PrepareStep == ChatInv /\ Chat!Prepare => ChatInv'
<1> SUFFICES ASSUME ChatInv, Chat!Prepare PROVE ChatInv'
  OBVIOUS
<1> USE DEF ChatInv
<1> DEFINE m == run.m
<1>1. /\ place = "prepare" /\ place' = "finish"
      /\ UNCHANGED <<sent, waiting, profile, lookup, student, private, saved, alarm, progress,
                     enrollments, families, rewritten, receipt, erasing, erased, displaced,
                     strayed, run>>
  BY DEF Chat!Prepare, Chat!At, Chat!Goto, Chat!rows, Chat!schedule, Chat!steps, Chat!erasure
<1>2. /\ m \in waiting /\ m \in Chat!Message /\ ~Forgets(m) /\ ~Pending(m)
      /\ run.family = lookup /\ prepared[m] = Chat!Unprepared
  BY <1>1, RunsAMessage DEF PlaceInv, FamilyPlace, Handling
<1>3. /\ prepared' \in [Chat!Message -> Prepareds] /\ prepared'[m].family = lookup
      /\ \A n \in Chat!Message \ {m} : prepared'[n] = prepared[n]
  <2> DEFINE r == [reply |-> run.reply, family |-> run.family, event |-> run.event,
                   published |-> FALSE]
  <2>1. r \in Prepareds
    BY RunFields DEF ChatShape, Prepareds
  <2> QED
    BY <1>2, <2>1 DEF Chat!Prepare, ChatShape
<1>a. prepared'[m] # Chat!Unprepared
  BY <1>1, <1>2, <1>3, UnpreparedKind DEF Chat!Prepare, ChatShape, FamilyPlace
<1>4. ChatShape'
  BY <1>1, <1>3, SetsKept DEF ChatShape
<1>5. PlaceInv'
  BY <1>1, <1>2, <1>3 DEF PlaceInv, Handling, Underway, Pending, Forgets
<1>6. EnrollPlace' /\ ErasePlace'
  BY <1>1 DEF EnrollPlace, ErasePlace, Underway
<1>7. FamilyPlace'
  BY <1>1, <1>a DEF FamilyPlace, Syncing
<1>8. RowsInv' /\ WholeInv' /\ AlarmInv' /\ GoneInv' /\ OwedInv'
  BY <1>1 DEF RowsInv, WholeInv, AlarmInv, GoneInv, OwedInv, ErasureOwed, Pending, WholeFamily,
              Gone, Left
<1>9. RecordInv'
  BY <1>1, <1>2, <1>3 DEF RecordInv, ErasureOwed, WillSync, Forgets, ChatShape
<1> QED
  BY <1>4, <1>5, <1>6, <1>7, <1>8, <1>9

LEMMA FinishStep == ChatInv /\ Chat!Finish => ChatInv'
<1> SUFFICES ASSUME ChatInv, Chat!Finish PROVE ChatInv'
  OBVIOUS
<1> USE DEF ChatInv
<1> DEFINE m == run.m
           f == prepared[m].family
<1>1. /\ place = "finish"
      /\ UNCHANGED <<sent, waiting, profile, lookup, student, private, saved, alarm, progress,
                     enrollments, families, rewritten, prepared, receipt, erasing, erased,
                     displaced, strayed>>
  BY DEF Chat!Finish, Chat!At, Chat!rows, Chat!schedule, Chat!steps, Chat!replies, Chat!erasure
<1>2. /\ m \in waiting /\ m \in Chat!Message /\ prepared[m] # Chat!Unprepared
      /\ f \in Families \cup {NoFamily}
  BY <1>1, RunsAMessage DEF FamilyPlace, ChatShape, Prepareds
<1>3. /\ \/ f # NoFamily /\ profile[f] # NoProfile /\ place' = "sync" /\ run'.family = f
         \/ (f = NoFamily \/ profile[f] = NoProfile) /\ place' = "deliver"
            /\ run'.family = NoFamily
      /\ run' \in Runs /\ run'.m = m /\ run'.then = "deliver"
  BY <1>2, Same DEF Chat!Finish, ChatShape, Runs
<1>4. ChatShape'
  BY <1>1, <1>3, SetsKept DEF ChatShape
<1>5. PlaceInv'
  BY <1>1, <1>3 DEF PlaceInv, Handling, Underway, Pending, Forgets
<1>6. EnrollPlace' /\ ErasePlace'
  BY <1>1, <1>3 DEF EnrollPlace, ErasePlace, Underway
<1>7. FamilyPlace'
  BY <1>1, <1>2, <1>3, Scalars DEF FamilyPlace, Syncing
<1>8. RowsInv' /\ WholeInv' /\ AlarmInv' /\ GoneInv' /\ OwedInv'
  BY <1>1 DEF RowsInv, WholeInv, AlarmInv, GoneInv, OwedInv, ErasureOwed, Pending, WholeFamily,
              Gone, Left
<1>9. RecordInv'
  <2>1. lookup # NoFamily => profile[lookup] # NoProfile
    BY FamilyBound DEF RowsInv, ChatShape
  <2> QED
    BY <1>1, <1>2, <1>3, <2>1 DEF RecordInv, ErasureOwed, WillSync, Forgets
<1> QED
  BY <1>4, <1>5, <1>6, <1>7, <1>8, <1>9

\* Delivering and publishing leave what is stored of the families alone.
LEMMA DeliverStep == ChatInv /\ Chat!Deliver => ChatInv'
<1> SUFFICES ASSUME ChatInv, Chat!Deliver PROVE ChatInv'
  OBVIOUS
<1> USE DEF ChatInv
<1>1. /\ place = "deliver" /\ place' = "publish"
      /\ UNCHANGED <<sent, waiting, profile, lookup, student, private, saved, alarm, progress,
                     enrollments, families, rewritten, prepared, receipt, erasing, erased,
                     displaced, strayed, run>>
  BY DEF Chat!Deliver, Chat!At, Chat!Goto, Chat!rows, Chat!schedule, Chat!steps, Chat!erasure
<1>2. ChatShape'
  BY <1>1, SetsKept DEF ChatShape
<1>3. PlaceInv'
  BY <1>1 DEF PlaceInv, Handling, Underway, Pending, Forgets
<1>4. EnrollPlace' /\ FamilyPlace' /\ ErasePlace'
  BY <1>1 DEF EnrollPlace, FamilyPlace, ErasePlace, Underway, Syncing
<1>5. RowsInv' /\ WholeInv' /\ AlarmInv' /\ GoneInv' /\ OwedInv'
  BY <1>1 DEF RowsInv, WholeInv, AlarmInv, GoneInv, OwedInv, ErasureOwed, Pending, WholeFamily,
              Gone, Left
<1>6. RecordInv'
  BY <1>1 DEF RecordInv, ErasureOwed, WillSync, Forgets
<1> QED
  BY <1>2, <1>3, <1>4, <1>5, <1>6

LEMMA PublishStep == ChatInv /\ Chat!Publish => ChatInv'
<1> SUFFICES ASSUME ChatInv, Chat!Publish PROVE ChatInv'
  OBVIOUS
<1> USE DEF ChatInv
<1> DEFINE m == run.m
<1>1. /\ place = "publish" /\ place' = "publish"
      /\ UNCHANGED <<sent, waiting, profile, lookup, student, private, saved, alarm, progress,
                     enrollments, families, rewritten, receipt, erasing, erased, displaced,
                     strayed, run>>
  BY DEF Chat!Publish, Chat!At, Chat!rows, Chat!schedule, Chat!steps, Chat!erasure
<1>2. m \in Chat!Message /\ ~Pending(m) /\ prepared[m] \in Prepareds
      /\ prepared[m] # Chat!Unprepared
      /\ prepared[m].event
  BY <1>1, RunsAMessage
  DEF PlaceInv, FamilyPlace, ChatShape, Handling, Chat!Publish, Chat!Owed
<1>3. /\ prepared' \in [Chat!Message -> Prepareds] /\ prepared'[m].event
      /\ prepared'[m].family = prepared[m].family
      /\ \A n \in Chat!Message \ {m} : prepared'[n] = prepared[n]
  <2>1. [prepared[m] EXCEPT !.published = TRUE] \in Prepareds
        /\ [prepared[m] EXCEPT !.published = TRUE].event
        /\ [prepared[m] EXCEPT !.published = TRUE].family = prepared[m].family
    BY <1>2 DEF Prepareds
  <2>2. prepared' = prepared \/ prepared' = [prepared EXCEPT ![m] = [@ EXCEPT !.published = TRUE]]
    BY DEF Chat!Publish
  <2> QED
    BY <1>2, <2>1, <2>2 DEF ChatShape
<1>4. prepared'[m] # Chat!Unprepared
  BY <1>3, UnpreparedKind
<1>5. ChatShape'
  BY <1>1, <1>3, SetsKept DEF ChatShape
<1>6. PlaceInv'
  BY <1>1, <1>2, <1>3 DEF PlaceInv, Handling, Underway, Pending, Forgets
<1>7. EnrollPlace' /\ FamilyPlace' /\ ErasePlace'
  BY <1>1, <1>4 DEF EnrollPlace, FamilyPlace, ErasePlace, Underway, Syncing
<1>8. RowsInv' /\ WholeInv' /\ AlarmInv' /\ GoneInv' /\ OwedInv'
  BY <1>1 DEF RowsInv, WholeInv, AlarmInv, GoneInv, OwedInv, ErasureOwed, Pending, WholeFamily,
              Gone, Left
<1>9. RecordInv'
  BY <1>1, <1>3 DEF RecordInv, ErasureOwed, WillSync, Forgets, ChatShape, Chat!Message
<1> QED
  BY <1>5, <1>6, <1>7, <1>8, <1>9

(***************************************************************************)
(* A handler that ends leaves at most its own message handled: one that    *)
(* owed neither an enrollment nor an erasure, and has seen to the alarm.   *)
(***************************************************************************)
LEMMA BackToIdle ==
    ASSUME ChatInv, place' = "idle", run' = Chat!NoRun, waiting' \subseteq waiting,
           \A m \in waiting \ waiting' :
             /\ m = run.m /\ ~Pending(m) /\ receipt[m].family = NoFamily
             /\ place = "publish" \/ Forgets(m),
           receipt' \in [Chat!Message -> Receipts],
           \A m \in Chat!Message :
             /\ receipt'[m].family = receipt[m].family
             /\ receipt'[m] # Chat!NoReceipt => receipt[m] # Chat!NoReceipt,
           UNCHANGED <<sent, profile, lookup, student, private, saved, alarm, progress,
                       enrollments, families, rewritten, prepared, erasing, erased, displaced,
                       strayed>>
    PROVE  ChatInv'
<1> USE DEF ChatInv
<1>1. ChatShape'
  BY NoRunKind, SetsKept DEF ChatShape
<1>2. PlaceInv'
  BY DEF PlaceInv, Handling, Underway, Pending, Forgets
<1>3. EnrollPlace' /\ FamilyPlace' /\ ErasePlace'
  BY DEF EnrollPlace, FamilyPlace, ErasePlace, Underway, Syncing
<1>4. RowsInv' /\ GoneInv'
  BY DEF RowsInv, GoneInv, Gone, Left
<1>5. \A m \in waiting : receipt[m].family # NoFamily =>
        m \in waiting' /\ receipt'[m].family = receipt[m].family
  BY RunsAMessage
<1>6. ErasureOwed' = ErasureOwed
  BY <1>5, RunsAMessage DEF ErasureOwed
<1>7. OwedInv'
  <2>1. NoFamily \notin erasing
    BY FamilyBound DEF ChatShape
  <2> QED
    BY <1>5, <2>1 DEF OwedInv
<1>8. WholeInv' /\ AlarmInv'
  BY <1>6 DEF WholeInv, AlarmInv, WholeFamily, Pending
<1>9. RecordInv'
  BY <1>6 DEF RecordInv, WillSync, Forgets
<1> QED
  BY <1>1, <1>2, <1>3, <1>4, <1>7, <1>8, <1>9

LEMMA DoneStep == ChatInv /\ Chat!Done => ChatInv'
<1> SUFFICES ASSUME ChatInv, Chat!Done PROVE ChatInv'
  OBVIOUS
<1> USE DEF ChatInv
<1>1. /\ place = "publish" /\ place' = "idle" /\ run' = Chat!NoRun
      /\ waiting' = waiting \ {run.m}
      /\ UNCHANGED <<sent, profile, lookup, student, private, saved, alarm, progress,
                     enrollments, families, rewritten, prepared, receipt, erasing, erased,
                     displaced, strayed>>
  BY DEF Chat!Done, Chat!Acknowledge, Chat!At, Chat!rows, Chat!schedule, Chat!steps,
         Chat!replies, Chat!erasure
<1>2. run.m \in Chat!Message /\ ~Pending(run.m) /\ receipt[run.m].family = NoFamily
  BY <1>1, RunsAMessage, ReceiptKinds DEF PlaceInv, Handling
<1>3. receipt \in [Chat!Message -> Receipts]
  BY DEF ChatShape
<1> QED
  BY <1>1, <1>2, <1>3, BackToIdle

LEMMA CrashStep == ChatInv /\ Chat!Crash => ChatInv'
<1> SUFFICES ASSUME ChatInv, Chat!Crash PROVE ChatInv'
  OBVIOUS
<1>1. /\ place' = "idle" /\ run' = Chat!NoRun
      /\ UNCHANGED <<sent, waiting, profile, lookup, student, private, saved, alarm, progress,
                     enrollments, families, rewritten, prepared, receipt, erasing, erased,
                     displaced, strayed>>
  BY DEF Chat!Crash, Chat!rows, Chat!schedule, Chat!steps, Chat!replies, Chat!erasure
<1>2. receipt \in [Chat!Message -> Receipts]
  BY DEF ChatInv, ChatShape
<1> QED
  BY <1>1, <1>2, BackToIdle

LEMMA StrayStep == ChatInv /\ (\E f \in Chat!FamilyId : Chat!Stray(f)) => ChatInv'
<1> SUFFICES ASSUME ChatInv, NEW f \in Chat!FamilyId, Chat!Stray(f) PROVE ChatInv'
  OBVIOUS
<1> USE DEF ChatInv
<1>1. /\ strayed' = strayed \cup {f}
      /\ UNCHANGED <<sent, waiting, profile, lookup, student, saved, alarm, progress,
                     enrollments, families, rewritten, prepared, receipt, erasing, erased,
                     displaced, place, run>>
  BY DEF Chat!Stray, Chat!schedule, Chat!steps, Chat!replies, Chat!erasure
<1>2. /\ private' \in [Chat!FamilyId -> SUBSET Chat!PrivateStore]
      /\ private'[f] = private[f] \cup {"records"}
      /\ \A g \in Chat!FamilyId \ {f} : private'[g] = private[g]
  BY DEF Chat!Stray, ChatShape, Chat!PrivateStore
<1>3. \A g \in Chat!FamilyId :
        /\ "media" \notin private[g] => "media" \notin private'[g]
        /\ \A rows : private[g] \subseteq rows \cup Left(g)
                     => private'[g] \subseteq rows \cup Left(g)'
        /\ private[g] \subseteq Left(g) => private'[g] \subseteq Left(g)'
  BY <1>1, <1>2 DEF Left
<1>4. ChatShape'
  BY <1>1, <1>2, SetsKept DEF ChatShape
<1>5. PlaceInv' /\ EnrollPlace' /\ FamilyPlace' /\ WholeInv' /\ RecordInv' /\ AlarmInv' /\ OwedInv'
  BY <1>1 DEF PlaceInv, EnrollPlace, FamilyPlace, Syncing, WholeInv, WholeFamily, RecordInv,
              WillSync,
              AlarmInv, OwedInv, ErasureOwed, Pending, Forgets
<1>6. ErasePlace'
  <2>1. Chat!Leaving' = Chat!Leaving /\ (place \in Underway => Chat!Leaving \in Chat!FamilyId)
    BY <1>1, LeavingKind DEF Chat!Leaving, Chat!Erasing, Chat!Found
  <2>2. run.family \in Chat!FamilyId \cup {NoFamily}
    BY RunFields, FamilyBound DEF ChatShape
  <2> QED
    BY <1>1, <1>3, <2>1, <2>2 DEF ErasePlace, Underway
<1>7. RowsInv'
  BY <1>1, <1>2 DEF RowsInv
<1>8. GoneInv'
  BY <1>1, <1>3, FamilyBound DEF GoneInv, Gone, ChatShape
<1> QED
  BY <1>4, <1>5, <1>6, <1>7, <1>8

LEMMA EraseBeginsStep == ChatInv /\ Chat!EraseBegins => ChatInv'
<1> SUFFICES ASSUME ChatInv, Chat!EraseBegins PROVE ChatInv'
  OBVIOUS
<1> USE DEF ChatInv
<1> DEFINE m == run.m
           r == receipt[m]
<1>1. /\ place = "erase"
      /\ UNCHANGED <<sent, profile, lookup, student, private, saved, alarm, progress,
                     enrollments, families, rewritten, prepared, erased, displaced, strayed>>
  BY DEF Chat!EraseBegins, Chat!At, Chat!rows, Chat!schedule, Chat!steps, Chat!replies
<1>2. /\ m \in Chat!Message /\ m \in waiting /\ Forgets(m) /\ ~Pending(m) /\ r \in Receipts
      /\ receipt \in [Chat!Message -> Receipts] /\ lookup \in Families \cup {NoFamily}
  BY <1>1, RunsAMessage DEF PlaceInv, ChatShape
<1>3. CASE r = Chat!NoReceipt /\ lookup = NoFamily
  <2>1. /\ place' = "idle" /\ run' = Chat!NoRun /\ waiting' = waiting \ {m}
        /\ receipt' = receipt /\ erasing' = erasing
    BY <1>3, Same, LeadsToProfile DEF Chat!EraseBegins, Chat!Acknowledge
  <2>2. r.family = NoFamily
    BY <1>3, ReceiptKinds
  <2> QED
    BY <1>1, <1>2, <2>1, <2>2, BackToIdle
<1>4. CASE r = Chat!NoReceipt /\ lookup # NoFamily
  <2>1. /\ receipt' = [receipt EXCEPT ![m] = [r EXCEPT !.family = lookup]]
        /\ erasing' = erasing \cup {lookup}
        /\ place' = "pause" /\ run' = run /\ waiting' = waiting
    BY <1>4, Same, LeadsToProfile DEF Chat!EraseBegins, Chat!Goto
  <2>2. lookup \in Families /\ lookup \in Chat!FamilyId /\ profile[lookup] # NoProfile
    BY <1>2, <1>4, FamilyBound DEF RowsInv
  <2>3. /\ [r EXCEPT !.family = lookup] \in Receipts
        /\ [r EXCEPT !.family = lookup].family = lookup
    <3>1. ASSUME NEW n, n = Chat!NoReceipt, NEW g \in Families
          PROVE  /\ [n EXCEPT !.family = g] \in [family : Families, erased : {FALSE}, ack : {FALSE}]
                 /\ [n EXCEPT !.family = g].family = g
      BY <3>1 DEF Chat!NoReceipt
    <3> QED
      BY <1>4, <2>2, <3>1 DEF Receipts
  <2>4. /\ receipt' \in [Chat!Message -> Receipts] /\ receipt'[m].family = lookup
        /\ \A n \in Chat!Message \ {m} : receipt'[n] = receipt[n]
    BY <1>2, <2>1, <2>3
  <2>5. ChatShape'
    BY <1>1, <2>1, <2>2, <2>4, SetsKept DEF ChatShape
  <2>6. PlaceInv'
    <3>1. m <= Len(sent)
      BY <1>2, RunsAMessage
    <3> QED
      BY <1>1, <1>2, <2>1, <2>4, <3>1 DEF PlaceInv, Handling, Underway, Pending, Forgets
  <2>7. EnrollPlace' /\ FamilyPlace'
    BY <2>1 DEF EnrollPlace, FamilyPlace, Syncing
  <2>8. Chat!Leaving' = lookup
    BY <1>1, <1>4, Same, LeadsToProfile DEF Chat!Leaving, Chat!Found
  <2>9. ErasePlace'
    BY <1>1, <1>4, <2>1, <2>2, <2>4, <2>8 DEF ErasePlace, Underway
  <2>10. ErasureOwed'
    BY <1>2, <1>4, <2>1, <2>4 DEF ErasureOwed
  <2>11. WholeInv' /\ RecordInv'
    BY <2>10 DEF WholeInv, RecordInv
  <2>12. RowsInv' /\ GoneInv'
    BY <1>1 DEF RowsInv, GoneInv, Gone, Left
  <2>13. AlarmInv'
    BY <1>1, <2>10 DEF AlarmInv
  <2>14. OwedInv'
    <3>1. \A n \in waiting : receipt[n].family # NoFamily => receipt'[n] = receipt[n]
      BY <1>4, <2>4, RunsAMessage, ReceiptKinds
    <3>2. NoFamily \notin erasing
      BY FamilyBound DEF ChatShape
    <3>3. SUFFICES ASSUME NEW f \in erasing'
                   PROVE  \/ f \in erased' \cup displaced'
                          \/ \E n \in waiting' : receipt'[n].family = f
      BY DEF OwedInv
    <3>4. CASE f = lookup
      BY <1>2, <2>1, <2>4, <3>4
    <3>5. CASE f \in erasing
      <4>1. CASE f \in erased \cup displaced
        BY <1>1, <4>1
      <4>2. CASE \E n \in waiting : receipt[n].family = f
        BY <2>1, <3>1, <3>2, <3>5, <4>2
      <4> QED
        BY <3>5, <4>1, <4>2 DEF OwedInv
    <3> QED
      BY <2>1, <3>4, <3>5
  <2> QED
    BY <2>5, <2>6, <2>7, <2>9, <2>11, <2>12, <2>13, <2>14
<1>5. CASE r # Chat!NoReceipt
  <2> DEFINE f == r.family
  <2>1. /\ \/ place' = "acknowledge" /\ r.erased
           \/ place' = "pause" /\ ~r.erased /\ (lookup # NoFamily \/ profile[f] # NoProfile)
           \/ place' = "scan" /\ ~r.erased /\ lookup = NoFamily /\ profile[f] = NoProfile
        /\ UNCHANGED <<run, receipt, erasing, waiting>>
    BY <1>5, Same, LeadsToProfile DEF Chat!EraseBegins, Chat!Goto, Chat!Erasing
  <2>2. ~r.erased => f # NoFamily /\ f \in Families /\ f \in Chat!FamilyId
    BY <1>2, <1>5, ReceiptKinds, FamilyBound
  <2>3. Chat!Leaving' = IF lookup # NoFamily THEN lookup ELSE f
    BY <1>1, <2>1, LeavingKind DEF Chat!Leaving, Chat!Found, Chat!Erasing
  <2>4. ChatShape'
    BY <1>1, <2>1, SetsKept DEF ChatShape
  <2>5. PlaceInv'
    BY <1>1, <1>2, <2>1 DEF PlaceInv, Handling, Underway, Pending, Forgets
  <2>6. EnrollPlace' /\ FamilyPlace'
    BY <2>1 DEF EnrollPlace, FamilyPlace, Syncing
  <2>7. ErasePlace'
    <3>1. CASE place' = "acknowledge"
      BY <2>1, <3>1 DEF ErasePlace, Underway
    <3>2. CASE place' = "pause"
      <4>1. lookup # NoFamily => profile[lookup] # NoProfile
        BY <1>2, FamilyBound DEF RowsInv
      <4> QED
        BY <1>1, <2>1, <2>2, <2>3, <3>2, <4>1 DEF ErasePlace, Underway
    <3>3. CASE place' = "scan"
      <4>1. profile[f] = NoProfile /\ profile[f].status # "active"
        BY <2>1, <3>3, ProfileKinds
      <4> QED
        BY <1>1, <2>1, <2>2, <2>3, <3>3, <4>1 DEF ErasePlace, Underway, RowsInv
    <3> QED
      BY <2>1, <3>1, <3>2, <3>3
  <2>8. RowsInv' /\ WholeInv' /\ AlarmInv' /\ GoneInv' /\ OwedInv'
    BY <1>1, <2>1
    DEF RowsInv, WholeInv, AlarmInv, GoneInv, OwedInv, ErasureOwed, Pending, WholeFamily, Gone, Left
  <2>9. RecordInv'
    BY <1>1, <2>1 DEF RecordInv, ErasureOwed, WillSync, Forgets
  <2> QED
    BY <2>4, <2>5, <2>6, <2>7, <2>8, <2>9
<1> QED
  BY <1>3, <1>4, <1>5

\* While a family is erased, its erasure is owed: nothing else is said of it.
LEMMA UnderwayOwed ==
    ASSUME ChatInv, place \in Underway
    PROVE  /\ run.m \in waiting /\ run.m \in Chat!Message /\ receipt[run.m].family # NoFamily
           /\ ErasureOwed
  BY RunsAMessage DEF ChatInv, ErasePlace, Underway, ErasureOwed

LEMMA EraseProfileStep == ChatInv /\ Chat!EraseProfile => ChatInv'
<1> SUFFICES ASSUME ChatInv, Chat!EraseProfile PROVE ChatInv'
  OBVIOUS
<1> USE DEF ChatInv
<1> DEFINE m == run.m
<1>1. PICK f : f = Chat!Leaving
  OBVIOUS
<1>2. /\ place = "pause" /\ place' = "alarm" /\ run' = run
      /\ profile' = [profile EXCEPT ![f] = [@ EXCEPT !.status = "paused"]] /\ lookup' = f
      /\ UNCHANGED <<sent, waiting, student, private, saved, alarm, progress, enrollments,
                     families, rewritten, prepared, receipt, erasing, erased, displaced, strayed>>
  BY <1>1
  DEF Chat!EraseProfile, Chat!At, Chat!Goto, Chat!schedule, Chat!steps, Chat!replies,
      Chat!erasure
<1>3. /\ f \in Families /\ f \in Chat!FamilyId /\ f # NoFamily
      /\ profile[f] \in Profiles \ {NoProfile}
  BY <1>1, <1>2, LeavingKind, FamilyBound DEF ErasePlace, Underway, ChatShape
<1>4. /\ profile' \in [Chat!FamilyId -> Profiles]
      /\ profile'[f] # NoProfile /\ profile'[f].status = "paused"
      /\ \A g \in Chat!FamilyId \ {f} : profile'[g] = profile[g]
  <2>1. PICK p : p = [profile[f] EXCEPT !.status = "paused"]
    OBVIOUS
  <2>2. p \in Profiles \ {NoProfile}
    BY <1>3, <2>1, PausedKind
  <2>3. p.status = "paused"
    BY <1>3, <2>1, ProfileKinds
  <2> QED
    BY <1>2, <1>3, <2>1, <2>2, <2>3 DEF ChatShape
<1>5. m \in waiting /\ receipt[m].family # NoFamily /\ ErasureOwed /\ ErasureOwed'
  BY <1>2, UnderwayOwed DEF Underway, ErasureOwed
<1>6. Chat!Leaving' = f
  <2>1. Chat!Found' = f
    BY <1>2, <1>3, <1>4, Same DEF Chat!Found, Chat!NoFamily, NoFamily, Chat!NoProfile, NoProfile,
      Chat!None, None, Chat!NoTime, NoTime
  <2> QED
    BY <1>3, <2>1, Same DEF Chat!Leaving
<1>7. ChatShape'
  BY <1>2, <1>3, <1>4, SetsKept DEF ChatShape
<1>8. PlaceInv'
  BY <1>2 DEF PlaceInv, Handling, Underway, Pending, Forgets
<1>9. EnrollPlace' /\ FamilyPlace'
  BY <1>2 DEF EnrollPlace, FamilyPlace, Syncing
<1>10. ErasePlace'
  BY <1>2, <1>4, <1>5, <1>6 DEF ErasePlace, Underway
<1>11. RowsInv'
  BY <1>2, <1>3, <1>4 DEF RowsInv
<1>12. WholeInv' /\ RecordInv'
  BY <1>5 DEF WholeInv, RecordInv
<1>13. AlarmInv'
  BY <1>2, <1>4, <1>5 DEF AlarmInv
<1>14. GoneInv'
  BY <1>2, <1>3, <1>4, FamilyBound DEF GoneInv, Gone, Left, ChatShape
<1>15. OwedInv'
  BY <1>2 DEF OwedInv
<1> QED
  BY <1>7, <1>8, <1>9, <1>10, <1>11, <1>12, <1>13, <1>14, <1>15

LEMMA RemoveAlarmStep == ChatInv /\ Chat!RemoveAlarm => ChatInv'
<1> SUFFICES ASSUME ChatInv, Chat!RemoveAlarm PROVE ChatInv'
  OBVIOUS
<1> USE DEF ChatInv
<1>1. PICK f : f = Chat!Leaving
  OBVIOUS
<1>2. /\ place = "alarm" /\ place' = "grades" /\ run' = run
      /\ alarm' = [alarm EXCEPT ![f] = NoAlarm]
      /\ UNCHANGED <<sent, waiting, profile, lookup, student, private, saved, progress,
                     enrollments, families, rewritten, prepared, receipt, erasing, erased,
                     displaced, strayed>>
  BY <1>1, Same
  DEF Chat!RemoveAlarm, Chat!At, Chat!Goto, Chat!rows, Chat!steps, Chat!replies, Chat!erasure
<1>3. f \in Families /\ f \in Chat!FamilyId /\ profile[f].status # "active"
  BY <1>1, <1>2, LeavingKind DEF ErasePlace, Underway
<1>4. /\ alarm' \in [Chat!FamilyId -> Alarms] /\ alarm'[f] = NoAlarm
      /\ \A g \in Chat!FamilyId \ {f} : alarm'[g] = alarm[g]
  BY <1>2, <1>3 DEF ChatShape, Alarms
<1>5. ErasureOwed /\ ErasureOwed'
  BY <1>2, UnderwayOwed DEF Underway, ErasureOwed
<1>6. Chat!Leaving' = f
  BY <1>1, <1>2 DEF Chat!Leaving, Chat!Found, Chat!Erasing
<1>7. ChatShape'
  BY <1>2, <1>4, SetsKept DEF ChatShape
<1>8. PlaceInv'
  BY <1>2 DEF PlaceInv, Handling, Underway, Pending, Forgets
<1>9. EnrollPlace' /\ FamilyPlace'
  BY <1>2 DEF EnrollPlace, FamilyPlace, Syncing
<1>10. ErasePlace'
  BY <1>1, <1>2, <1>4, <1>6 DEF ErasePlace, Underway
<1>11. RowsInv'
  BY <1>2, <1>4 DEF RowsInv
<1>12. WholeInv' /\ RecordInv'
  BY <1>5 DEF WholeInv, RecordInv
<1>13. AlarmInv'
  BY <1>2, <1>3, <1>4, <1>5 DEF AlarmInv
<1>14. GoneInv'
  BY <1>2, <1>4, FamilyBound DEF GoneInv, Gone, Left, ChatShape
<1>15. OwedInv'
  BY <1>2 DEF OwedInv
<1> QED
  BY <1>7, <1>8, <1>9, <1>10, <1>11, <1>12, <1>13, <1>14, <1>15

\* Private data goes from one store after the other.
LEMMA ClearedStep ==
    ASSUME ChatInv, NEW f, f = Chat!Leaving,
           \/ (place = "grades" /\ place' = "media")
           \/ (place = "media" /\ place' = "chat" /\ "media" \notin private'[f]),
           private' \in [Chat!FamilyId -> SUBSET Chat!PrivateStore],
           \A g \in Chat!FamilyId : private'[g] \subseteq private[g],
           UNCHANGED <<sent, waiting, profile, lookup, student, saved, alarm, progress,
                       enrollments, families, rewritten, prepared, receipt, erasing, erased,
                       displaced, strayed, run>>
    PROVE  ChatInv'
<1> USE DEF ChatInv
<1>1. ErasureOwed /\ ErasureOwed'
  BY UnderwayOwed DEF Underway, ErasureOwed
<1>2. Chat!Leaving' = f
  BY DEF Chat!Leaving, Chat!Found, Chat!Erasing
<1>3. ChatShape'
  BY SetsKept DEF ChatShape
<1>4. PlaceInv'
  BY DEF PlaceInv, Handling, Underway, Pending, Forgets
<1>5. EnrollPlace' /\ FamilyPlace'
  BY DEF EnrollPlace, FamilyPlace, Syncing
<1>6. ErasePlace'
  BY <1>2 DEF ErasePlace, Underway
<1>7. RowsInv' /\ OwedInv'
  BY DEF RowsInv, OwedInv
<1>8. WholeInv' /\ RecordInv'
  BY <1>1 DEF WholeInv, RecordInv
<1>9. AlarmInv'
  BY <1>1 DEF AlarmInv
<1>10. GoneInv'
  BY FamilyBound DEF GoneInv, Gone, Left, ChatShape
<1> QED
  BY <1>3, <1>4, <1>5, <1>6, <1>7, <1>8, <1>9, <1>10

LEMMA ForgetStudentsStep == ChatInv /\ Chat!ForgetStudents => ChatInv'
<1> SUFFICES ASSUME ChatInv, Chat!ForgetStudents PROVE ChatInv'
  OBVIOUS
<1>1. PICK f : f = Chat!Leaving
  OBVIOUS
<1>2. /\ place = "grades" /\ place' = "media"
      /\ private' = private \/ private' = [private EXCEPT ![f] = @ \ {"grades"}]
      /\ UNCHANGED <<sent, waiting, profile, lookup, student, saved, alarm, progress,
                     enrollments, families, rewritten, prepared, receipt, erasing, erased,
                     displaced, strayed, run>>
  BY <1>1
  DEF Chat!ForgetStudents, Chat!At, Chat!Goto, Chat!schedule, Chat!steps, Chat!replies,
      Chat!erasure
<1>3. /\ private' \in [Chat!FamilyId -> SUBSET Chat!PrivateStore]
      /\ \A g \in Chat!FamilyId : private'[g] \subseteq private[g]
  BY <1>2 DEF ChatInv, ChatShape
<1> QED
  BY <1>1, <1>2, <1>3, ClearedStep

LEMMA DeleteMediaStep == ChatInv /\ Chat!DeleteMedia => ChatInv'
<1> SUFFICES ASSUME ChatInv, Chat!DeleteMedia PROVE ChatInv'
  OBVIOUS
<1>1. PICK f : f = Chat!Leaving
  OBVIOUS
<1>2. /\ place = "media" /\ place' = "chat"
      /\ private' = [private EXCEPT ![f] = @ \ {"media"}]
      /\ UNCHANGED <<sent, waiting, profile, lookup, student, saved, alarm, progress,
                     enrollments, families, rewritten, prepared, receipt, erasing, erased,
                     displaced, strayed, run>>
  BY <1>1
  DEF Chat!DeleteMedia, Chat!At, Chat!Goto, Chat!schedule, Chat!steps, Chat!replies,
      Chat!erasure
<1>3. f \in Chat!FamilyId
  BY <1>1, <1>2, LeavingKind DEF Underway
<1>4. /\ private' \in [Chat!FamilyId -> SUBSET Chat!PrivateStore]
      /\ \A g \in Chat!FamilyId : private'[g] \subseteq private[g]
      /\ "media" \notin private'[f]
  BY <1>2, <1>3 DEF ChatInv, ChatShape
<1> QED
  BY <1>1, <1>2, <1>4, ClearedStep

\* Without its records, no message of the chat has anything to complete.
LEMMA NoRecords ==
    ASSUME ChatShape, Chat!NoChatRecords
    PROVE  /\ enrollments' \in [Chat!Message -> Journals]
           /\ prepared' \in [Chat!Message -> Prepareds]
           /\ \A m \in Chat!Message :
                ~Pending(m)' /\ prepared'[m] = Chat!Unprepared /\ enrollments'[m].family = NoFamily
<1>1. Chat!Unprepared \in Prepareds
  <2>1. None \in Replies
    BY DEF Replies
  <2> QED
    BY <2>1, Same DEF Chat!Unprepared, Prepareds
<1>2. Chat!NoJournal \in Journals /\ Chat!NoJournal.family = NoFamily
  BY Same DEF Journals, Chat!NoJournal
<1> QED
  BY <1>1, <1>2, NoJournalKind DEF Chat!NoChatRecords, Pending

LEMMA DeleteChatStep == ChatInv /\ Chat!DeleteChatRecords => ChatInv'
<1> SUFFICES ASSUME ChatInv, Chat!DeleteChatRecords PROVE ChatInv'
  OBVIOUS
<1> USE DEF ChatInv
<1>1. /\ place = "chat" /\ place' = "scan" /\ run' = run
      /\ UNCHANGED <<sent, waiting, profile, lookup, student, private, saved, alarm, progress,
                     families, rewritten, receipt, erasing, erased, displaced, strayed>>
  BY DEF Chat!DeleteChatRecords, Chat!At, Chat!Goto, Chat!rows, Chat!schedule, Chat!erasure
<1>2. /\ enrollments' \in [Chat!Message -> Journals]
      /\ prepared' \in [Chat!Message -> Prepareds]
      /\ \A m \in Chat!Message :
           ~Pending(m)' /\ prepared'[m] = Chat!Unprepared /\ enrollments'[m].family = NoFamily
  BY NoRecords DEF Chat!DeleteChatRecords
<1>3. ErasureOwed /\ ErasureOwed'
  BY <1>1, UnderwayOwed DEF Underway, ErasureOwed
<1>4. Chat!Leaving' = Chat!Leaving
  BY <1>1 DEF Chat!Leaving, Chat!Found, Chat!Erasing
<1>5. ChatShape'
  BY <1>1, <1>2, SetsKept DEF ChatShape
<1>6. PlaceInv'
  BY <1>1, <1>2 DEF PlaceInv, Handling, Underway, Forgets
<1>7. EnrollPlace' /\ FamilyPlace'
  BY <1>1 DEF EnrollPlace, FamilyPlace, Syncing
<1>8. ErasePlace'
  BY <1>1, <1>4 DEF ErasePlace, Underway
<1>9. RowsInv' /\ OwedInv'
  BY <1>1 DEF RowsInv, OwedInv
<1>10. WholeInv' /\ RecordInv'
  BY <1>3 DEF WholeInv, RecordInv
<1>11. AlarmInv'
  BY <1>1, <1>3 DEF AlarmInv
<1>12. GoneInv'
  <2>1. NoFamily \notin erased
    BY FamilyBound DEF ChatShape
  <2> QED
    BY <1>1, <1>2, <2>1 DEF GoneInv, Gone, Left
<1> QED
  BY <1>5, <1>6, <1>7, <1>8, <1>9, <1>10, <1>11, <1>12

\* The scan finds all that is left of a family in the table.
LEMMA OwnedKinds ==
    ASSUME ChatShape, NEW f \in Chat!FamilyId
    PROVE  /\ Chat!Owned(f) \subseteq RowNames
           /\ private[f] \ {"media"} \subseteq Chat!Owned(f) /\ student[f] \subseteq Chat!Owned(f)
           /\ saved[f] # NoAlarm => "saved" \in Chat!Owned(f)
           /\ profile[f] # NoProfile => "profile" \in Chat!Owned(f)
           /\ profile[f] # NoProfile /\ lookup = f => "lookup" \in Chat!Owned(f)
<1>1. private[f] \subseteq {"grades", "media", "rows", "exams", "records"}
      /\ student[f] \subseteq {"index", "student"}
  BY DEF ChatShape, Chat!PrivateStore
<1> QED
  BY <1>1, Same DEF Chat!Owned, RowNames

LEMMA ScanStep == ChatInv /\ Chat!Scan => ChatInv'
<1> SUFFICES ASSUME ChatInv, Chat!Scan PROVE ChatInv'
  OBVIOUS
<1> USE DEF ChatInv
<1>1. PICK f : f = Chat!Leaving
  OBVIOUS
<1>2. /\ place = "scan" /\ place' = "delete"
      /\ run' = [run EXCEPT !.deleting = Chat!Owned(f), !.family = f]
      /\ UNCHANGED <<sent, waiting, profile, lookup, student, private, saved, alarm, progress,
                     enrollments, families, rewritten, prepared, receipt, erasing, erased,
                     displaced, strayed>>
  BY <1>1
  DEF Chat!Scan, Chat!At, Chat!rows, Chat!schedule, Chat!steps, Chat!replies, Chat!erasure
<1>3. /\ f \in Families /\ f \in Chat!FamilyId /\ f # NoFamily /\ lookup \in {NoFamily, f}
  BY <1>1, <1>2, LeavingKind, FamilyBound DEF Underway
<1>4. run' \in Runs /\ run'.m = run.m /\ run'.family = f /\ run'.deleting = Chat!Owned(f)
  <2>1. Chat!Owned(f) \subseteq RowNames /\ run \in Runs
    BY <1>3, OwnedKinds DEF ChatShape
  <2> HIDE DEF ChatInv
  <2> QED
    BY <1>2, <1>3, <2>1 DEF Runs
<1>5. ErasureOwed /\ ErasureOwed'
  BY <1>2, UnderwayOwed DEF Underway, ErasureOwed
<1>6. ChatShape'
  BY <1>2, <1>4, SetsKept DEF ChatShape
<1>7. PlaceInv'
  BY <1>2, <1>4 DEF PlaceInv, Handling, Underway, Pending, Forgets
<1>8. EnrollPlace' /\ FamilyPlace'
  BY <1>2 DEF EnrollPlace, FamilyPlace, Syncing
<1>9. ErasePlace'
  <2>1. /\ alarm[f] = NoAlarm /\ "media" \notin private[f] /\ profile[f].status # "active"
        /\ receipt[run.m].family # NoFamily
    BY <1>1, <1>2 DEF ErasePlace, Underway
  <2>2. lookup = f => profile[f] # NoProfile
    BY <1>3 DEF RowsInv
  <2> QED
    BY <1>2, <1>3, <1>4, <2>1, <2>2, OwnedKinds DEF ErasePlace, Underway, Left
<1>10. RowsInv' /\ OwedInv' /\ GoneInv'
  BY <1>2 DEF RowsInv, OwedInv, GoneInv, Gone, Left
<1>11. WholeInv' /\ RecordInv'
  BY <1>5 DEF WholeInv, RecordInv
<1>12. AlarmInv'
  BY <1>2, <1>5 DEF AlarmInv
<1> QED
  BY <1>6, <1>7, <1>8, <1>9, <1>10, <1>11, <1>12

\* What leads to the rest is deleted when nothing else is left.
LEMMA RankKinds ==
    ASSUME NEW rows, "profile" \in rows,
           \A other \in rows : Chat!DeletionRank("profile") <= Chat!DeletionRank(other)
    PROVE  rows \ {"profile"} = {}
  BY DEF Chat!DeletionRank

LEMMA DeleteRowStep == ChatInv /\ Chat!DeleteRow => ChatInv'
<1> SUFFICES ASSUME ChatInv, Chat!DeleteRow PROVE ChatInv'
  OBVIOUS
<1> USE DEF ChatInv
<1>1. PICK f : f = run.family
  OBVIOUS
<1>2. PICK row \in run.deleting :
        /\ \A other \in run.deleting : Chat!DeletionRank(row) <= Chat!DeletionRank(other)
        /\ run' = [run EXCEPT !.deleting = @ \ {row}]
        /\ profile' = IF row = "profile" THEN [profile EXCEPT ![f] = NoProfile] ELSE profile
        /\ lookup' = IF row = "lookup" THEN NoFamily ELSE lookup
        /\ student' = [student EXCEPT ![f] = @ \ {row}]
        /\ private' = [private EXCEPT ![f] = @ \ {row}]
        /\ saved' = IF row = "saved" THEN [saved EXCEPT ![f] = NoAlarm] ELSE saved
        /\ progress' = IF row = "enrollment" THEN None ELSE progress
  BY <1>1, Same DEF Chat!DeleteRow
<1>3. /\ place = "delete" /\ place' = "delete"
      /\ UNCHANGED <<sent, waiting, alarm, enrollments, families, rewritten, prepared, receipt,
                     erasing, erased, displaced, strayed>>
  BY DEF Chat!DeleteRow, Chat!At, Chat!replies, Chat!erasure
<1>4. /\ f \in Chat!FamilyId /\ f # NoFamily
      /\ lookup \in {NoFamily, f} /\ (lookup = f => "lookup" \in run.deleting)
      /\ profile[f].status # "active" /\ alarm[f] = NoAlarm
      /\ profile[f] # NoProfile => "profile" \in run.deleting
      /\ saved[f] # NoAlarm => "saved" \in run.deleting
      /\ student[f] \subseteq run.deleting
      /\ "media" \notin private[f] /\ private[f] \subseteq run.deleting \cup Left(f)
  BY <1>1, <1>3, RunFields, FamilyBound DEF ErasePlace, ChatShape
<1>5. /\ run' \in Runs /\ run'.m = run.m /\ run'.family = f
      /\ run'.deleting = run.deleting \ {row}
  <2>1. run \in Runs
    BY DEF ChatShape
  <2> HIDE DEF ChatInv
  <2> QED
    BY <1>1, <1>2, <2>1 DEF Runs
<1>6. row = "profile" => run'.deleting = {}
  BY <1>2, <1>5, RankKinds
<1>7. /\ profile' \in [Chat!FamilyId -> Profiles] /\ lookup' \in {NoFamily, lookup}
      /\ student' \in [Chat!FamilyId -> SUBSET {"index", "student"}]
      /\ private' \in [Chat!FamilyId -> SUBSET Chat!PrivateStore]
      /\ saved' \in [Chat!FamilyId -> Alarms] /\ progress' \in Chat!Step \cup {None}
  BY <1>2, <1>4, ProfileKinds DEF ChatShape, Alarms
<1>8. /\ \A g \in Chat!FamilyId \ {f} :
           /\ profile'[g] = profile[g] /\ student'[g] = student[g] /\ private'[g] = private[g]
           /\ saved'[g] = saved[g]
      /\ student'[f] = student[f] \ {row} /\ private'[f] = private[f] \ {row}
      /\ profile'[f] = IF row = "profile" THEN NoProfile ELSE profile[f]
      /\ saved'[f] = IF row = "saved" THEN NoAlarm ELSE saved[f]
  BY <1>2, <1>4 DEF ChatShape
<1>9. ErasureOwed /\ ErasureOwed'
  BY <1>3, UnderwayOwed DEF Underway, ErasureOwed
<1>10. ChatShape'
  BY <1>3, <1>5, <1>7, SetsKept DEF ChatShape
<1>11. PlaceInv'
  BY <1>3, <1>5 DEF PlaceInv, Handling, Underway, Pending, Forgets
<1>12. EnrollPlace' /\ FamilyPlace'
  BY <1>3 DEF EnrollPlace, FamilyPlace, Syncing
<1>13. profile'[f].status # "active"
  BY <1>4, <1>8, ProfileKinds
<1>14. ErasePlace'
  <2>1. receipt'[run'.m].family # NoFamily
    BY <1>3, <1>5 DEF ErasePlace, Underway
  <2>2. /\ lookup' \in {NoFamily, f} /\ (lookup' = f => "lookup" \in run'.deleting)
        /\ profile'[f] # NoProfile => "profile" \in run'.deleting
        /\ saved'[f] # NoAlarm => "saved" \in run'.deleting
        /\ student'[f] \subseteq run'.deleting
        /\ "media" \notin private'[f] /\ private'[f] \subseteq run'.deleting \cup Left(f)'
    BY <1>2, <1>3, <1>4, <1>5, <1>8 DEF Left
  <2> QED
    BY <1>3, <1>4, <1>5, <1>13, <2>1, <2>2 DEF ErasePlace, Underway
<1>15. RowsInv'
  <2>1. \A g \in Chat!FamilyId : lookup' = g => lookup = g
    BY <1>7, FamilyBound
  <2>2. row = "profile" => lookup # f /\ saved[f] = NoAlarm
    BY <1>4, <1>5, <1>6
  <2> QED
    BY <1>3, <1>4, <1>8, <2>1, <2>2 DEF RowsInv
<1>16. WholeInv' /\ RecordInv' /\ OwedInv'
  BY <1>3, <1>9 DEF WholeInv, RecordInv, OwedInv
<1>17. AlarmInv'
  BY <1>3, <1>8, <1>9, <1>13 DEF AlarmInv
<1>18. GoneInv'
  <2>1. \A g \in erased : g \in Chat!FamilyId /\ lookup' # g
    BY <1>7, FamilyBound DEF GoneInv, Gone, ChatShape
  <2> QED
    BY <1>3, <1>8, <2>1 DEF GoneInv, Gone, Left
<1> QED
  BY <1>10, <1>11, <1>12, <1>14, <1>15, <1>16, <1>17, <1>18

LEMMA ErasedStep == ChatInv /\ Chat!Erased => ChatInv'
<1> SUFFICES ASSUME ChatInv, Chat!Erased PROVE ChatInv'
  OBVIOUS
<1> USE DEF ChatInv
<1> DEFINE m == run.m
           f == run.family
           r == receipt[m]
<1>1. /\ place = "delete" /\ place' = "acknowledge" /\ run' = run /\ run.deleting = {}
      /\ receipt' = [receipt EXCEPT ![m] = [[r EXCEPT !.erased = TRUE] EXCEPT !.family = NoFamily]]
      /\ erased' = erased \cup {f} /\ displaced' = displaced \cup ({r.family} \ {f})
      /\ UNCHANGED <<sent, waiting, profile, lookup, student, private, saved, alarm, progress,
                     families, rewritten, erasing, strayed>>
  BY Same
  DEF Chat!Erased, Chat!At, Chat!Goto, Chat!Erasing, Chat!rows, Chat!schedule
<1>2. /\ enrollments' \in [Chat!Message -> Journals]
      /\ prepared' \in [Chat!Message -> Prepareds]
      /\ \A n \in Chat!Message :
           ~Pending(n)' /\ prepared'[n] = Chat!Unprepared /\ enrollments'[n].family = NoFamily
  BY NoRecords DEF Chat!Erased
<1>3. /\ m \in Chat!Message /\ m \in waiting /\ Forgets(m)
      /\ r \in Receipts /\ r.family # NoFamily /\ r # Chat!NoReceipt
  BY <1>1, UnderwayOwed, ReceiptKinds DEF Underway, PlaceInv, ChatShape
<1>4. /\ f \in Families /\ f \in Chat!FamilyId /\ f # NoFamily /\ lookup = NoFamily
      /\ profile[f] = NoProfile /\ student[f] = {} /\ saved[f] = NoAlarm /\ alarm[f] = NoAlarm
      /\ private[f] \subseteq Left(f)
  BY <1>1, RunFields, FamilyBound DEF ErasePlace, ChatShape
<1>5. PICK after : after = [[r EXCEPT !.erased = TRUE] EXCEPT !.family = NoFamily]
  OBVIOUS
<1>6. after \in Receipts /\ after.erased /\ after.family = NoFamily
  BY <1>3, <1>5 DEF Receipts, Chat!NoReceipt
<1>7. /\ receipt' \in [Chat!Message -> Receipts]
      /\ receipt'[m].erased /\ receipt'[m].family = NoFamily
      /\ \A n \in Chat!Message \ {m} : receipt'[n] = receipt[n]
  BY <1>1, <1>3, <1>5, <1>6 DEF ChatShape
<1>8. ChatShape'
  BY <1>1, <1>2, <1>4, <1>7, SetsKept DEF ChatShape
<1>9. PlaceInv'
  BY <1>1, <1>2, <1>3, <1>7, RunsAMessage DEF PlaceInv, Handling, Underway, Forgets
<1>10. EnrollPlace' /\ FamilyPlace'
  BY <1>1 DEF EnrollPlace, FamilyPlace, Syncing
<1>11. ErasePlace'
  BY <1>1, <1>7 DEF ErasePlace, Underway
<1>12. RowsInv' /\ WholeInv' /\ RecordInv'
  BY <1>1, <1>4 DEF RowsInv, WholeInv, RecordInv
<1>13. AlarmInv'
  BY <1>1, <1>4, FamilyBound DEF AlarmInv
<1>14. GoneInv'
  BY <1>1, <1>2, <1>4, FamilyBound DEF GoneInv, Gone, Left, ChatShape
<1>15. OwedInv'
  <2>1. SUFFICES ASSUME NEW g \in erasing
                 PROVE  g \in erased' \cup displaced' \/ \E n \in waiting : receipt'[n].family = g
    BY <1>1 DEF OwedInv
  <2>2. CASE r.family = g
    BY <1>1, <2>2
  <2>3. CASE r.family # g
    <3>1. \A n \in waiting : receipt[n].family = g => receipt'[n].family = g
      BY <1>7, <2>3, RunsAMessage
    <3> QED
      BY <1>1, <3>1 DEF OwedInv
  <2> QED
    BY <2>2, <2>3
<1> QED
  BY <1>8, <1>9, <1>10, <1>11, <1>12, <1>13, <1>14, <1>15

LEMMA AcknowledgeErasureStep == ChatInv /\ Chat!AcknowledgeErasure => ChatInv'
<1> SUFFICES ASSUME ChatInv, Chat!AcknowledgeErasure PROVE ChatInv'
  OBVIOUS
<1> USE DEF ChatInv
<1> DEFINE m == run.m
           r == receipt[m]
<1>1. /\ place = "acknowledge"
      /\ UNCHANGED <<sent, profile, lookup, student, private, saved, alarm, progress,
                     enrollments, families, rewritten, prepared, erasing, erased, displaced,
                     strayed>>
  BY DEF Chat!AcknowledgeErasure, Chat!At, Chat!rows, Chat!schedule, Chat!steps
<1>2. /\ m \in Chat!Message /\ m \in waiting /\ Forgets(m) /\ ~Pending(m)
      /\ r \in Receipts /\ r.erased
  BY <1>1, RunsAMessage DEF PlaceInv, ErasePlace, ChatShape
<1>3. CASE UNCHANGED <<receipt, waiting, place, run>>
  <2>1. ChatShape'
    BY <1>1, <1>3, SetsKept DEF ChatShape
  <2>2. PlaceInv'
    BY <1>1, <1>3 DEF PlaceInv, Handling, Underway, Pending, Forgets
  <2>3. EnrollPlace' /\ FamilyPlace' /\ ErasePlace'
    BY <1>1, <1>3 DEF EnrollPlace, FamilyPlace, Syncing, ErasePlace, Underway
  <2>4. RowsInv' /\ WholeInv' /\ AlarmInv' /\ GoneInv' /\ OwedInv'
    BY <1>1, <1>3
    DEF RowsInv, WholeInv, AlarmInv, GoneInv, OwedInv, ErasureOwed, Pending, WholeFamily, Gone, Left
  <2>5. RecordInv'
    BY <1>1, <1>3 DEF RecordInv, ErasureOwed, WillSync, Forgets
  <2> QED
    BY <2>1, <2>2, <2>3, <2>4, <2>5
<1>4. CASE receipt' = [receipt EXCEPT ![m] = [@ EXCEPT !.ack = TRUE]] /\ Chat!Acknowledge
  <2>1. /\ place' = "idle" /\ run' = Chat!NoRun /\ waiting' = waiting \ {m}
    BY <1>4 DEF Chat!Acknowledge
  <2>2. r.family = NoFamily /\ r # Chat!NoReceipt
    BY <1>2, ReceiptKinds
  <2>3. PICK after : after = [r EXCEPT !.ack = TRUE]
    OBVIOUS
  <2>4. after \in Receipts /\ after.family = r.family
    <3>1. r \in [family : {NoFamily}, erased : {TRUE}, ack : BOOLEAN]
      BY <1>2, <2>2 DEF Receipts
    <3> QED
      BY <2>3, <3>1 DEF Receipts
  <2>5. /\ receipt' \in [Chat!Message -> Receipts] /\ receipt'[m].family = r.family
        /\ \A n \in Chat!Message \ {m} : receipt'[n] = receipt[n]
    BY <1>2, <1>4, <2>3, <2>4 DEF ChatShape
  <2> QED
    BY <1>1, <1>2, <2>1, <2>2, <2>5, BackToIdle
<1> QED
  BY <1>3, <1>4 DEF Chat!AcknowledgeErasure

-----------------------------------------------------------------------------
\* The chat as it is found: a family that has practised, an enrollment that is
\* part of the way through, or nobody.
LEMMA ChatInit == Chat!LifecycleAssumption /\ Chat!Init => ChatInv
<1> SUFFICES ASSUME Chat!LifecycleAssumption, Chat!Init PROVE ChatInv
  OBVIOUS
<1> DEFINE E == [status |-> "active", at |-> <<19, 0>>]
<1>1. E \in Profiles /\ E # NoProfile /\ E.status = "active" /\ Chat!Enrolled = E
  <2>1. <<19, 0>> \in Times /\ <<19, 0>> # NoTime
    BY DEF Times, NoTime
  <2>2. E # NoProfile
    BY Scalars DEF NoProfile
  <2>3. E \in [status : {"active", "paused"}, at : Times \ {NoTime}]
    BY <2>1
  <2> QED
    BY <2>2, <2>3 DEF Profiles, Chat!Enrolled
<1>2. AlarmSpec(E) \in Alarms /\ NoAlarm \in Alarms /\ AlarmSpec(E) # NoAlarm
  BY <1>1 DEF Alarms, AlarmSpec, NoAlarm
<1>3. PICK family \in {0, NoFamily} :
        /\ progress \in Chat!Step \cup {None}
        /\ lookup = family
        /\ profile = [g \in Chat!FamilyId |-> IF g = family THEN E ELSE NoProfile]
        /\ student = [g \in Chat!FamilyId |-> IF g = family THEN {"index", "student"} ELSE {}]
        /\ private = [g \in Chat!FamilyId |-> IF g = family THEN Chat!PrivateStore ELSE {}]
        /\ saved = [g \in Chat!FamilyId |-> IF g = family THEN AlarmSpec(E) ELSE NoAlarm]
        /\ alarm = saved
  <2> HIDE DEF E
  <2> QED
    BY <1>1, Same DEF Chat!Init, Chat!For
<1>4. /\ sent = <<>> /\ waiting = {} /\ place = "idle" /\ run = Chat!NoRun
      /\ enrollments = [m \in Chat!Message |-> Chat!NoJournal]
      /\ prepared = [m \in Chat!Message |-> Chat!Unprepared]
      /\ receipt = [m \in Chat!Message |-> Chat!NoReceipt]
      /\ families = 0 /\ erasing = {} /\ erased = {} /\ rewritten = {}
  BY DEF Chat!Init
<1>5. 0 \in Families /\ MaxFamilies \in Nat /\ MaxMessages \in Nat /\ families \in 0..MaxFamilies
      /\ 0 \in Chat!FamilyId
  BY <1>4 DEF Families, Chat!LifecycleAssumption, Chat!FamilyId
<1>6. ChatShape
  <2>1. sent \in Seq(Texts) /\ Len(sent) <= MaxMessages /\ waiting \subseteq 1..Len(sent)
    BY <1>4, <1>5
  <2>2. lookup \in Families \cup {NoFamily}
    BY <1>3, <1>5
  <2>3. profile \in [Chat!FamilyId -> Profiles]
    <3> HIDE DEF E
    <3> QED
      BY <1>1, <1>3, ProfileKinds
  <2>4. /\ student \in [Chat!FamilyId -> SUBSET {"index", "student"}]
        /\ private \in [Chat!FamilyId -> SUBSET Chat!PrivateStore]
    BY <1>3
  <2>5. saved \in [Chat!FamilyId -> Alarms] /\ alarm \in [Chat!FamilyId -> Alarms]
    <3> HIDE DEF E
    <3> QED
      BY <1>2, <1>3
  <2>6. enrollments \in [Chat!Message -> Journals] /\ receipt \in [Chat!Message -> Receipts]
    BY <1>4 DEF Journals, Receipts
  <2>7. prepared \in [Chat!Message -> Prepareds]
    <3>1. Chat!Unprepared \in Prepareds
      <4>1. None \in Replies
        BY DEF Replies
      <4> QED
        BY <4>1, Same DEF Prepareds, Chat!Unprepared
    <3> QED
      BY <1>4, <3>1
  <2>8. run \in Runs /\ erasing \subseteq Families /\ erased \subseteq Families
    BY <1>4, NoRunKind
  <2>9. progress \in Chat!Step \cup {None}
    BY <1>3
  <2> QED
    BY <1>5, <2>1, <2>2, <2>3, <2>4, <2>5, <2>6, <2>7, <2>8, <2>9 DEF ChatShape
<1>7. PlaceInv
  <2>1. \A m \in Chat!Message : receipt[m] = Chat!NoReceipt /\ prepared[m] = Chat!Unprepared
                                /\ ~Pending(m)
    BY <1>4, NoJournalKind DEF Pending
  <2> QED
    BY <1>4, <2>1 DEF PlaceInv, Handling, Underway
<1>8. EnrollPlace /\ FamilyPlace /\ ErasePlace
  BY <1>4 DEF EnrollPlace, FamilyPlace, ErasePlace, Underway, Syncing
<1>9. NoFamily \notin Chat!FamilyId
  BY <1>6, FamilyBound
<1>10. RowsInv /\ WholeInv
  <2> HIDE DEF E
  <2>1. ASSUME NEW f \in Chat!FamilyId, profile[f] = NoProfile
        PROVE  lookup # f /\ saved[f] = NoAlarm /\ alarm[f] = NoAlarm /\ "media" \notin private[f]
    <3>1. f # family
      BY <1>1, <1>3, <2>1
    <3> QED
      BY <1>3, <3>1
  <2>2. lookup # NoFamily => student[lookup] = {"index", "student"}
    BY <1>3, <1>5
  <2> QED
    BY <2>1, <2>2 DEF RowsInv, WholeInv, WholeFamily
<1>11. RecordInv /\ AlarmInv
  <2> HIDE DEF E
  <2>1. lookup # NoFamily => saved[lookup] = AlarmSpec(profile[lookup])
    BY <1>3, <1>5
  <2> QED
    BY <1>3, <2>1 DEF RecordInv, AlarmInv
<1>12. GoneInv /\ OwedInv
  BY <1>4 DEF GoneInv, OwedInv
<1> QED
  BY <1>6, <1>7, <1>8, <1>10, <1>11, <1>12 DEF ChatInv

LEMMA ChatStutter == ChatInv /\ UNCHANGED Chat!vars => ChatInv'
<1> SUFFICES ASSUME ChatInv, UNCHANGED Chat!vars PROVE ChatInv'
  OBVIOUS
<1>1. UNCHANGED <<sent, waiting, profile, lookup, student, private, saved, alarm, progress,
                  enrollments, families, rewritten, prepared, receipt, erasing, erased, displaced,
                  strayed, place, run>>
  BY DEF Chat!vars, Chat!rows, Chat!schedule, Chat!steps, Chat!replies, Chat!erasure
<1>2. ChatShape'
  BY <1>1, SetsKept DEF ChatInv, ChatShape
<1>3. Chat!Leaving' = Chat!Leaving /\ ErasureOwed' = ErasureOwed
  BY <1>1 DEF Chat!Leaving, Chat!Erasing, Chat!Found, ErasureOwed
<1>4. \A m : Pending(m)' = Pending(m) /\ Forgets(m)' = Forgets(m)
  BY <1>1 DEF Pending, Forgets
<1>5. PlaceInv'
  BY <1>1, <1>4 DEF ChatInv, PlaceInv
<1>6. EnrollPlace' /\ FamilyPlace'
  BY <1>1, <1>4 DEF ChatInv, EnrollPlace, FamilyPlace, Syncing
<1>7. ErasePlace'
  BY <1>1, <1>3 DEF ChatInv, ErasePlace, Left
<1>8. RowsInv' /\ WholeInv'
  BY <1>1, <1>3, <1>4 DEF ChatInv, RowsInv, WholeInv, WholeFamily
<1>9. RecordInv' /\ AlarmInv'
  BY <1>1, <1>3, <1>4 DEF ChatInv, RecordInv, AlarmInv, WillSync
<1>10. GoneInv' /\ OwedInv'
  BY <1>1 DEF ChatInv, GoneInv, OwedInv, Gone, Left
<1> QED
  BY <1>2, <1>5, <1>6, <1>7, <1>8, <1>9, <1>10 DEF ChatInv

LEMMA ChatStep == ChatInv /\ [Chat!Next]_Chat!vars => ChatInv'
<1> SUFFICES ASSUME ChatInv, [Chat!Next]_Chat!vars PROVE ChatInv'
  OBVIOUS
<1>1. CASE Chat!Handler
  BY <1>1, EnrollStep, ApplyStep, AppliedStep, SyncStep, SaveStep, RouteStep, PrepareStep,
     FinishStep, DeliverStep, PublishStep, DoneStep, EraseBeginsStep, EraseProfileStep,
     RemoveAlarmStep, ForgetStudentsStep, DeleteMediaStep, DeleteChatStep, ScanStep,
     DeleteRowStep, ErasedStep, AcknowledgeErasureStep DEF Chat!Handler
<1>2. CASE Chat!Send \/ (\E m \in Chat!Message : Chat!Handle(m))
           \/ (\E f \in Chat!FamilyId : Chat!Stray(f)) \/ Chat!Crash
  BY <1>2, SendStep, HandleStep, StrayStep, CrashStep
<1>3. CASE UNCHANGED Chat!vars
  BY <1>3, ChatStutter
<1> QED
  BY <1>1, <1>2, <1>3 DEF Chat!Next

LEMMA ChatPromises == ChatInv => EnrolledIsWhole /\ AlarmFollowsFamily /\ ErasedMeansGone
<1> SUFFICES ASSUME ChatInv PROVE EnrolledIsWhole /\ AlarmFollowsFamily /\ ErasedMeansGone
  OBVIOUS
<1>1. Found = lookup /\ lookup \in Families \cup {NoFamily} /\ Families \subseteq Chat!FamilyId
  BY LeadsToProfile, FamilyBound DEF ChatInv, ChatShape
<1>2. EnrolledIsWhole
  BY <1>1 DEF ChatInv, EnrolledIsWhole, AtRest, WholeInv, WholeFamily, ErasureOwed
<1>3. AlarmFollowsFamily
  <2> SUFFICES ASSUME waiting = {}, lookup \notin {NoFamily} \cup rewritten
               PROVE  alarm[lookup] = AlarmSpec(profile[lookup])
    BY <1>1 DEF AlarmFollowsFamily, AtRest
  <2>1. saved[lookup] = AlarmSpec(profile[lookup]) /\ ~ErasureOwed
    BY DEF ChatInv, RecordInv, ErasureOwed
  <2> QED
    BY <1>1, <2>1 DEF ChatInv, AlarmInv
<1>4. ErasedMeansGone
  BY DEF ChatInv, ErasedMeansGone, AtRest, GoneInv, Gone, Left, OwedInv
<1> QED
  BY <1>2, <1>3, <1>4

-----------------------------------------------------------------------------
(***************************************************************************)
(* A family that its chat leads to has its student in both places, however *)
(* often the completion of its enrollment died and whatever was said to it *)
(* meanwhile: the message that completes it is still there to be handled.  *)
(***************************************************************************)
THEOREM EnrollmentsAreWhole == Chat!LifecycleAssumption /\ Chat!Spec => []EnrolledIsWhole
<1>1. Chat!LifecycleAssumption /\ Chat!Init => ChatInv
  BY ChatInit
<1>2. ChatInv => EnrolledIsWhole
  BY ChatPromises
<1> QED
  BY <1>1, <1>2, ChatStep, PTL DEF Chat!Spec

(***************************************************************************)
(* The alarm rings at the hour the profile of the family says and is off   *)
(* while it is paused, as soon as no message waits: save where a replayed  *)
(* enrollment put the profile of before back.                              *)
(***************************************************************************)
THEOREM AlarmsFollow == Chat!LifecycleAssumption /\ Chat!Spec => []AlarmFollowsFamily
<1>1. Chat!LifecycleAssumption /\ Chat!Init => ChatInv
  BY ChatInit
<1>2. ChatInv => AlarmFollowsFamily
  BY ChatPromises
<1> QED
  BY <1>1, <1>2, ChatStep, PTL DEF Chat!Spec

(***************************************************************************)
(* Nothing comes back of a family that was forgotten, in any store, but    *)
(* the record its other events may leave; and an erasure that began ends,  *)
(* whoever dies on the way, unless the chat led elsewhere by then.         *)
(***************************************************************************)
THEOREM ForgottenIsGone == Chat!LifecycleAssumption /\ Chat!Spec => []ErasedMeansGone
<1>1. Chat!LifecycleAssumption /\ Chat!Init => ChatInv
  BY ChatInit
<1>2. ChatInv => ErasedMeansGone
  BY ChatPromises
<1> QED
  BY <1>1, <1>2, ChatStep, PTL DEF Chat!Spec
=============================================================================
