------------------------- MODULE LearningStoreProofs -------------------------
(***************************************************************************)
(* For any number of workers, outcomes, items, competencies and tries: the *)
(* store counts every outcome once, loses no update, and implements the    *)
(* one-step ledger.  The argument is in SnapshotGuards: attempts only grow, *)
(* so an unchanged mastery row also vouches for the spacing row.           *)
(*                                                                         *)
(* The second half is of TurnMemory: what was counted is what the family   *)
(* is shown.                                                               *)
(***************************************************************************)
EXTENDS LearningStore, FamilyMemory, FiniteSetTheorems, WellFoundedInduction, TLAPS

\* The invariant that is inductive: the checked parts together.
IInv ==
    /\ TypeOK
    /\ TriesLeft
    /\ AttemptsCountMarkers
    /\ ReturningIsCounted
    /\ ReturnedMeansCounted
    /\ SnapshotGuards

-----------------------------------------------------------------------------
\* The rules keep rows in their types, and an update adds one attempt.
LEMMA RowTypes ==
    ASSUME NEW correct \in BOOLEAN
    PROVE  /\ \A row \in Mastery \cup {NoRow} :
                /\ OrFirst(row, FirstMastery) \in Mastery
                /\ UpdateMastery(OrFirst(row, FirstMastery), correct) \in Mastery
                /\ UpdateMastery(OrFirst(row, FirstMastery), correct).attempts
                     = OrFirst(row, FirstMastery).attempts + 1
           /\ \A row \in SpacedRow \cup {NoRow} :
                Review(OrFirst(row, FirstSpaced), correct) \in SpacedRow
<1>1. ASSUME NEW row \in Mastery \cup {NoRow}
      PROVE  OrFirst(row, FirstMastery) \in Mastery
  BY <1>1 DEF OrFirst, FirstMastery, Mastery
<1>2. ASSUME NEW m \in Mastery
      PROVE  /\ UpdateMastery(m, correct) \in Mastery
             /\ UpdateMastery(m, correct).attempts = m.attempts + 1
  BY <1>2 DEF UpdateMastery, Mastery
<1>3. ASSUME NEW row \in SpacedRow \cup {NoRow}
      PROVE  OrFirst(row, FirstSpaced) \in SpacedRow
  BY <1>3 DEF OrFirst, FirstSpaced, SpacedRow
<1>4. ASSUME NEW s \in SpacedRow
      PROVE  Review(s, correct) \in SpacedRow
  BY <1>4 DEF Review, SpacedRow
<1>5. QED
  BY <1>1, <1>2, <1>3, <1>4

\* A stored row, typed, read as the code reads it: NoRow is not a row.
LEMMA NoRowIsNoMastery ==
    ASSUME NEW m \in Mastery
    PROVE  OrFirst(m, FirstMastery) = m
  BY NoRowAssumption DEF OrFirst

LEMMA IdleJobType == IdleJob \in Job
  BY LedgerAssumption DEF IdleJob, Job

LEMMA CellTypes ==
    ASSUME NEW o \in Outcome
    PROVE  ItemOf[o] \in Item /\ CellOf(o) \in Competency
  BY LedgerAssumption DEF CellOf

-----------------------------------------------------------------------------
\* Type correctness, one step per action.
LEMMA TypeStep == TypeOK /\ TriesLeft /\ [Next]_vars => TypeOK'
<1> SUFFICES ASSUME TypeOK, TriesLeft, [Next]_vars
             PROVE  TypeOK'
  OBVIOUS
<1> USE StoreAssumption DEF TypeOK, LedgerTypeOK, ledgerVars, PC
<1>1. ASSUME NEW w \in Worker, NEW o \in Outcome, Deliver(w, o)
      PROVE  TypeOK'
  BY <1>1 DEF Deliver, Take, Job
<1>2. ASSUME NEW w \in Worker, NEW o \in Outcome, Duplicate(w, o)
      PROVE  TypeOK'
  BY <1>2 DEF Duplicate, Take, Job
<1>3. ASSUME NEW w \in Worker, ReadMastery(w)
      PROVE  TypeOK'
  <2>1. job[w].outcome \in Outcome
    BY DEF Job
  <2>2. mastery[CellAt(w)] \in Mastery \cup {NoRow}
    BY <2>1, CellTypes DEF CellAt
  <2>3. QED
    BY <1>3, <2>2 DEF ReadMastery
<1>4. ASSUME NEW w \in Worker, ReadSpaced(w)
      PROVE  TypeOK'
  <2>1. job[w].outcome \in Outcome
    BY DEF Job
  <2>2. spaced[ItemAt(w)] \in SpacedRow \cup {NoRow}
    BY <2>1, CellTypes DEF ItemAt
  <2>3. QED
    BY <1>4, <2>2 DEF ReadSpaced
<1>5. ASSUME NEW w \in Worker, FindMarker(w)
      PROVE  TypeOK'
  BY <1>5 DEF FindMarker, Leave
<1>6. ASSUME NEW w \in Worker, MissMarker(w)
      PROVE  TypeOK'
  BY <1>6 DEF MissMarker
<1>7. ASSUME NEW w \in Worker, Commit(w)
      PROVE  TypeOK'
  <2>1. job[w].outcome \in Outcome /\ job[w].correct \in BOOLEAN
    BY DEF Job
  <2>2. UpdateMastery(OrFirst(previous[w], FirstMastery), job[w].correct) \in Mastery
    BY <2>1, RowTypes
  <2>3. Review(OrFirst(state[w], FirstSpaced), job[w].correct) \in SpacedRow
    BY <2>1, RowTypes
  <2>4. QED
    BY <1>7, <2>1, <2>2, <2>3 DEF Commit, Leave
<1>8. ASSUME NEW w \in Worker, Cancelled(w) \/ Conflicted(w)
      PROVE  TypeOK'
  <2>1. PICK m \in {"mastery", "busy"} :
           Leave(w, m) /\ (tries[w] + 1 < MaxTries <=> m = "mastery")
    BY <1>8 DEF Cancelled, Conflicted, Retried
  <2>2. tries' = [tries EXCEPT ![w] = @ + 1]
    BY <1>8 DEF Cancelled, Conflicted, Retried
  <2>3. tries[w] < MaxTries
    BY <1>8 DEF TriesLeft, Cancelled, Conflicted
  <2>4. QED
    BY <1>8, <2>1, <2>2, <2>3 DEF Cancelled, Conflicted, Leave
<1>9. ASSUME NEW w \in Worker, Return(w) \/ RaiseBusy(w) \/ Crash(w)
      PROVE  TypeOK'
  <2>1. job[w].outcome \in Outcome
    BY DEF Job
  <2>2. Idle(w)
    BY <1>9 DEF Return, RaiseBusy, Crash
  <2>3. /\ pc' \in [Worker -> PC]
        /\ job' \in [Worker -> Job]
        /\ previous' \in [Worker -> Mastery \cup {NoRow}]
        /\ state' \in [Worker -> SpacedRow \cup {NoRow}]
        /\ tries' \in [Worker -> 0..MaxTries]
    BY <2>2, IdleJobType DEF Idle, Leave
  <2>4. QED
    BY <1>9, <2>1, <2>3 DEF Return, RaiseBusy, Crash
<1>10. CASE UNCHANGED vars
  BY <1>10 DEF vars
<1>11. QED
  BY <1>1, <1>2, <1>3, <1>4, <1>5, <1>6, <1>7, <1>8, <1>9, <1>10 DEF Next, Work
-----------------------------------------------------------------------------
\* The other parts of the invariant, each over one step.
LEMMA TriesStep == TypeOK /\ TriesLeft /\ [Next]_vars => TriesLeft'
<1> SUFFICES ASSUME TypeOK, TriesLeft, [Next]_vars
             PROVE  TriesLeft'
  OBVIOUS
<1> USE StoreAssumption DEF TypeOK, TriesLeft
<1>1. ASSUME NEW w \in Worker, NEW o \in Outcome, Deliver(w, o) \/ Duplicate(w, o)
      PROVE  TriesLeft'
  BY <1>1 DEF Deliver, Duplicate, Take
<1>2. ASSUME NEW w \in Worker, ReadMastery(w) \/ ReadSpaced(w) \/ MissMarker(w)
      PROVE  TriesLeft'
  BY <1>2 DEF ReadMastery, ReadSpaced, MissMarker
<1>3. ASSUME NEW w \in Worker, FindMarker(w) \/ Commit(w)
      PROVE  TriesLeft'
  BY <1>3 DEF FindMarker, Commit, Leave
<1>4. ASSUME NEW w \in Worker, Cancelled(w) \/ Conflicted(w)
      PROVE  TriesLeft'
  BY <1>4 DEF Cancelled, Conflicted, Retried, Leave
<1>5. ASSUME NEW w \in Worker, Return(w) \/ RaiseBusy(w) \/ Crash(w)
      PROVE  TriesLeft'
  BY <1>5 DEF Return, RaiseBusy, Crash, Idle, Leave
<1>6. CASE UNCHANGED vars
  BY <1>6 DEF vars
<1>7. QED
  BY <1>1, <1>2, <1>3, <1>4, <1>5, <1>6 DEF Next, Work

\* Only Commit writes rows or markers, and only Return acknowledges.
LEMMA OnlyCommitWrites ==
    [Next]_vars => \/ UNCHANGED ledgerVars
                   \/ \E w \in Worker : Commit(w)
  BY DEF Next, Work, vars, ledgerVars, Deliver, Duplicate, Take, ReadMastery,
         ReadSpaced, FindMarker, MissMarker, Cancelled, Conflicted, Return,
         RaiseBusy, Crash

\* A commit is one step of the ledger, given that its snapshot is current.
LEMMA CommitCounts ==
    ASSUME TypeOK, SnapshotGuards, NEW w \in Worker, Commit(w)
    PROVE  Count(job[w].outcome, job[w].correct)
<1>1. /\ mastery[CellAt(w)] = previous[w]
      /\ job[w].outcome \notin markers
  BY DEF Commit, CommitHolds
<1>2. state[w] = spaced[ItemAt(w)]
  BY <1>1 DEF SnapshotGuards, Commit
<1>3. QED
  BY <1>1, <1>2 DEF Commit, Count, CellAt, ItemAt

\* A step of the ledger adds its outcome to the count of its own cell only.
LEMMA CountKeepsAttempts ==
    ASSUME LedgerTypeOK, AttemptsCountMarkers,
           NEW o \in Outcome, NEW correct \in BOOLEAN, Count(o, correct)
    PROVE  AttemptsCountMarkers'
<1> DEFINE cell == CellOf(o)
<1>1. cell \in Competency
  BY CellTypes
<1>2. \A c \in Competency : IsFiniteSet(CountedFor(c))
  BY LedgerAssumption, FS_Subset DEF LedgerTypeOK, CountedFor
<1>3. CountedFor(cell)' = CountedFor(cell) \cup {o} /\ o \notin CountedFor(cell)
  BY DEF Count, CountedFor, CellOf
<1>4. Cardinality(CountedFor(cell)') = Cardinality(CountedFor(cell)) + 1
  BY <1>1, <1>2, <1>3, FS_AddElement
<1>5. Attempts(cell)' = Attempts(cell) + 1
  <2>1. mastery[cell] \in Mastery \cup {NoRow}
    BY <1>1 DEF LedgerTypeOK
  <2>2. mastery'[cell] = UpdateMastery(OrFirst(mastery[cell], FirstMastery), correct)
    BY <1>1 DEF Count, LedgerTypeOK
  <2>3. mastery'[cell] \in Mastery
    BY <2>1, <2>2, RowTypes
  <2>4. QED
    BY <2>1, <2>2, <2>3, RowTypes, NoRowIsNoMastery DEF Attempts
<1>6. ASSUME NEW c \in Competency, c # cell
      PROVE  Attempts(c)' = Attempts(c) /\ CountedFor(c)' = CountedFor(c)
  BY <1>6 DEF Count, CountedFor, CellOf, Attempts, LedgerTypeOK
<1>7. QED
  BY <1>1, <1>3, <1>4, <1>5, <1>6 DEF AttemptsCountMarkers
-----------------------------------------------------------------------------
\* A commit of any worker leaves the snapshot of every other one guarded: on
\* the same cell the attempts moved past it, on another nothing it read moved.
LEMMA CommitKeepsGuards ==
    ASSUME TypeOK, SnapshotGuards, NEW w \in Worker, Commit(w)
    PROVE  SnapshotGuards'
<1> DEFINE o == job[w].outcome
           correct == job[w].correct
<1>1. o \in Outcome /\ correct \in BOOLEAN
  BY DEF TypeOK, Job
<1>2. Count(o, correct)
  BY CommitCounts
<1>3. /\ mastery' = [mastery EXCEPT ![CellOf(o)] =
                       UpdateMastery(OrFirst(@, FirstMastery), correct)]
      /\ \A i \in Item : i # ItemOf[o] => spaced'[i] = spaced[i]
  BY <1>2 DEF Count, TypeOK, LedgerTypeOK
<1>4. /\ mastery'[CellOf(o)] \in Mastery
      /\ mastery'[CellOf(o)].attempts = Attempts(CellOf(o)) + 1
      /\ Attempts(CellOf(o)) \in Nat
  <2>1. mastery[CellOf(o)] \in Mastery \cup {NoRow}
    BY <1>1, CellTypes DEF TypeOK, LedgerTypeOK
  <2>2. mastery'[CellOf(o)] = UpdateMastery(OrFirst(mastery[CellOf(o)], FirstMastery), correct)
    BY <1>1, <1>3, CellTypes DEF TypeOK, LedgerTypeOK
  <2>3. OrFirst(mastery[CellOf(o)], FirstMastery) \in Mastery
    BY <1>1, <2>1, RowTypes
  <2>4. QED
    BY <1>1, <2>1, <2>2, <2>3, RowTypes DEF Attempts, Mastery
<1>5. OrFirst(mastery'[CellOf(o)], FirstMastery).attempts = Attempts(CellOf(o)) + 1
  BY <1>4, NoRowIsNoMastery
<1> SUFFICES ASSUME NEW v \in Worker
             PROVE  /\ pc'[v] \in {"spaced", "marker", "commit"}
                         => OrFirst(previous'[v], FirstMastery).attempts
                              <= Attempts(CellAt(v))'
                    /\ pc'[v] \in {"marker", "commit"}
                       /\ previous'[v] = mastery'[CellAt(v)']
                         => state'[v] = spaced'[ItemAt(v)']
  BY DEF SnapshotGuards
<1>6. CASE v = w
  BY <1>6 DEF Commit, Leave, TypeOK
<1>7. CASE v # w
  <2>1. /\ pc'[v] = pc[v] /\ previous'[v] = previous[v] /\ state'[v] = state[v]
        /\ CellAt(v)' = CellAt(v) /\ ItemAt(v)' = ItemAt(v)
    BY <1>7 DEF Commit, Leave, TypeOK, CellAt, ItemAt, CellOf
  <2>2. job[v].outcome \in Outcome /\ CellAt(v) \in Competency /\ ItemAt(v) \in Item
    BY CellTypes DEF TypeOK, Job, CellAt, ItemAt
  <2>3. OrFirst(previous[v], FirstMastery).attempts \in Nat
    <3>1. previous[v] \in Mastery \cup {NoRow}
      BY DEF TypeOK
    <3>2. OrFirst(previous[v], FirstMastery) \in Mastery
      BY <1>1, <3>1, RowTypes
    <3>3. QED
      BY <3>2 DEF Mastery
  <2>4. CASE CellAt(v) = CellOf(o)
    <3>1. Attempts(CellAt(v))' = Attempts(CellAt(v)) + 1
      <4>1. Attempts(CellAt(v))' = OrFirst(mastery'[CellAt(v)'], FirstMastery).attempts
        BY DEF Attempts
      <4>2. CellAt(v)' = CellOf(o)
        BY <2>1, <2>4
      <4>3. QED
        BY <4>1, <4>2, <2>4, <1>5
    <3>2. ASSUME pc[v] \in {"spaced", "marker", "commit"}
          PROVE  OrFirst(previous[v], FirstMastery).attempts < Attempts(CellAt(v))'
      <4>1. OrFirst(previous[v], FirstMastery).attempts <= Attempts(CellAt(v))
        BY <3>2 DEF SnapshotGuards
      <4>2. Attempts(CellAt(v)) \in Nat
        BY <1>4, <2>4
      <4>3. QED
        BY <2>3, <3>1, <4>1, <4>2
    <3>3. Attempts(CellAt(v))' = OrFirst(mastery'[CellAt(v)'], FirstMastery).attempts
      BY DEF Attempts
    <3>4. Attempts(CellAt(v))' \in Nat
      BY <1>4, <2>4, <3>1
    <3>5. ASSUME pc[v] \in {"spaced", "marker", "commit"}
          PROVE  previous[v] # mastery'[CellAt(v)']
      BY <3>2, <3>3, <3>4, <3>5, <2>3
    <3>6. QED
      BY <2>1, <2>3, <3>2, <3>4, <3>5
  <2>5. CASE CellAt(v) # CellOf(o)
    <3>1. mastery'[CellAt(v)] = mastery[CellAt(v)]
      BY <1>3, <2>2, <2>5 DEF TypeOK, LedgerTypeOK
    <3>2. Attempts(CellAt(v))' = Attempts(CellAt(v))
      BY <2>1, <3>1 DEF Attempts
    <3>3. spaced'[ItemAt(v)] = spaced[ItemAt(v)]
      BY <1>3, <2>2, <2>5 DEF CellAt, ItemAt, CellOf
    <3>4. QED
      BY <2>1, <3>1, <3>2, <3>3 DEF SnapshotGuards
  <2>6. QED
    BY <2>4, <2>5
<1>8. QED
  BY <1>6, <1>7

LEMMA GuardsStep == TypeOK /\ SnapshotGuards /\ [Next]_vars => SnapshotGuards'
<1> SUFFICES ASSUME TypeOK, SnapshotGuards, [Next]_vars
             PROVE  SnapshotGuards'
  OBVIOUS
<1> USE DEF TypeOK, SnapshotGuards, CellAt, ItemAt, Attempts, CellOf, ledgerVars
<1>1. ASSUME NEW w \in Worker, NEW o \in Outcome, Deliver(w, o) \/ Duplicate(w, o)
      PROVE  SnapshotGuards'
  BY <1>1 DEF Deliver, Duplicate, Take
<1>2. ASSUME NEW w \in Worker, ReadMastery(w)
      PROVE  SnapshotGuards'
  <2>1. OrFirst(mastery[CellAt(w)], FirstMastery).attempts \in Nat
    <3>1. mastery[CellAt(w)] \in Mastery \cup {NoRow}
      BY CellTypes DEF Job, LedgerTypeOK
    <3>2. OrFirst(mastery[CellAt(w)], FirstMastery) \in Mastery
      BY <3>1, RowTypes
    <3>3. QED
      BY <3>2 DEF Mastery
  <2>2. QED
    BY <1>2, <2>1 DEF ReadMastery
<1>3. ASSUME NEW w \in Worker, ReadSpaced(w)
      PROVE  SnapshotGuards'
  BY <1>3 DEF ReadSpaced
<1>4. ASSUME NEW w \in Worker, MissMarker(w)
      PROVE  SnapshotGuards'
  BY <1>4 DEF MissMarker
<1>5. ASSUME NEW w \in Worker, FindMarker(w)
      PROVE  SnapshotGuards'
  BY <1>5 DEF FindMarker, Leave
<1>6. ASSUME NEW w \in Worker, Commit(w)
      PROVE  SnapshotGuards'
  <2> HIDE DEF TypeOK, SnapshotGuards
  <2>1. QED
    BY <1>6, CommitKeepsGuards
<1>7. ASSUME NEW w \in Worker, Cancelled(w) \/ Conflicted(w)
      PROVE  SnapshotGuards'
  <2>1. PICK m \in {"mastery", "busy"} : Leave(w, m)
    BY <1>7 DEF Cancelled, Conflicted, Retried
  <2>2. UNCHANGED <<mastery, spaced, job>>
    BY <1>7 DEF Cancelled, Conflicted
  <2>3. QED
    BY <2>1, <2>2 DEF Leave
<1>8. ASSUME NEW w \in Worker, Return(w) \/ RaiseBusy(w) \/ Crash(w)
      PROVE  SnapshotGuards'
  <2>1. Idle(w) /\ UNCHANGED <<mastery, spaced>>
    BY <1>8 DEF Return, RaiseBusy, Crash
  <2>2. QED
    BY <2>1 DEF Idle, Leave
<1>9. CASE UNCHANGED vars
  BY <1>9 DEF vars
<1>10. QED
  BY <1>1, <1>2, <1>3, <1>4, <1>5, <1>6, <1>7, <1>8, <1>9 DEF Next, Work

\* Nothing returns before its marker is written, and no marker goes away.
LEMMA ReturnStep ==
    TypeOK /\ ReturningIsCounted /\ ReturnedMeansCounted /\ [Next]_vars
      => ReturningIsCounted' /\ ReturnedMeansCounted'
<1> SUFFICES ASSUME TypeOK, ReturningIsCounted, ReturnedMeansCounted, [Next]_vars
             PROVE  ReturningIsCounted' /\ ReturnedMeansCounted'
  OBVIOUS
<1> USE DEF TypeOK, ReturningIsCounted, ReturnedMeansCounted, ledgerVars
<1>1. ASSUME NEW w \in Worker, NEW o \in Outcome, Deliver(w, o) \/ Duplicate(w, o)
      PROVE  ReturningIsCounted' /\ ReturnedMeansCounted'
  BY <1>1 DEF Deliver, Duplicate, Take
<1>2. ASSUME NEW w \in Worker, ReadMastery(w) \/ ReadSpaced(w) \/ MissMarker(w)
      PROVE  ReturningIsCounted' /\ ReturnedMeansCounted'
  BY <1>2 DEF ReadMastery, ReadSpaced, MissMarker
<1>3. ASSUME NEW w \in Worker, FindMarker(w) \/ Commit(w)
      PROVE  ReturningIsCounted' /\ ReturnedMeansCounted'
  BY <1>3 DEF FindMarker, Commit, Leave
<1>4. ASSUME NEW w \in Worker, Cancelled(w) \/ Conflicted(w)
      PROVE  ReturningIsCounted' /\ ReturnedMeansCounted'
  BY <1>4 DEF Cancelled, Conflicted, Retried, Leave
<1>5. ASSUME NEW w \in Worker, Return(w) \/ RaiseBusy(w) \/ Crash(w)
      PROVE  ReturningIsCounted' /\ ReturnedMeansCounted'
  BY <1>5 DEF Return, RaiseBusy, Crash, Idle, Leave
<1>6. CASE UNCHANGED vars
  BY <1>6 DEF vars
<1>7. QED
  BY <1>1, <1>2, <1>3, <1>4, <1>5, <1>6 DEF Next, Work

LEMMA AttemptsStep ==
    TypeOK /\ SnapshotGuards /\ AttemptsCountMarkers /\ [Next]_vars
      => AttemptsCountMarkers'
<1> SUFFICES ASSUME TypeOK, SnapshotGuards, AttemptsCountMarkers, [Next]_vars
             PROVE  AttemptsCountMarkers'
  OBVIOUS
<1>1. CASE UNCHANGED ledgerVars
  BY <1>1 DEF ledgerVars, AttemptsCountMarkers, Attempts, CountedFor, CellOf
<1>2. ASSUME NEW w \in Worker, Commit(w)
      PROVE  AttemptsCountMarkers'
  <2>1. job[w].outcome \in Outcome /\ job[w].correct \in BOOLEAN
    BY DEF TypeOK, Job
  <2>2. Count(job[w].outcome, job[w].correct)
    BY <1>2, CommitCounts
  <2>3. QED
    BY <2>1, <2>2, CountKeepsAttempts DEF TypeOK
<1>3. QED
  BY <1>1, <1>2, OnlyCommitWrites

-----------------------------------------------------------------------------
LEMMA InitIInv == Init => IInv
<1> SUFFICES ASSUME Init
             PROVE  IInv
  OBVIOUS
<1> USE DEF Init, LedgerInit
<1>1. TypeOK
  BY StoreAssumption, IdleJobType DEF TypeOK, LedgerTypeOK, PC
<1>2. TriesLeft /\ ReturningIsCounted /\ ReturnedMeansCounted /\ SnapshotGuards
  BY StoreAssumption DEF TriesLeft, ReturningIsCounted, ReturnedMeansCounted,
                         SnapshotGuards
<1>3. ASSUME NEW c \in Competency
      PROVE  Attempts(c) = Cardinality(CountedFor(c))
  <2>1. CountedFor(c) = {}
    BY DEF CountedFor
  <2>2. Attempts(c) = 0
    BY DEF Attempts, OrFirst, FirstMastery
  <2>3. QED
    BY <2>1, <2>2, FS_EmptySet
<1>4. QED
  BY <1>1, <1>2, <1>3 DEF IInv, AttemptsCountMarkers

LEMMA NextIInv == IInv /\ [Next]_vars => IInv'
  BY TypeStep, TriesStep, GuardsStep, ReturnStep, AttemptsStep DEF IInv

(***************************************************************************)
(* The inductive invariant of the store, and so each part of it.           *)
(***************************************************************************)
THEOREM StoreInvariant == Safety => []IInv
  BY InitIInv, NextIInv, PTL DEF Safety

(***************************************************************************)
(* Type correctness of every row, snapshot and counter.                    *)
(***************************************************************************)
THEOREM StoreTypeOK == Safety => []TypeOK
<1>1. IInv => TypeOK
  BY DEF IInv
<1>2. QED
  BY <1>1, StoreInvariant, PTL

(***************************************************************************)
(* apply_outcome: attempts are exactly the outcomes counted, whatever the  *)
(* number of workers, deliveries, crashes and cancellations.               *)
(***************************************************************************)
THEOREM ExactlyOnce == Safety => []AttemptsCountMarkers
<1>1. IInv => AttemptsCountMarkers
  BY DEF IInv
<1>2. QED
  BY <1>1, StoreInvariant, PTL

(***************************************************************************)
(* record_answer_outcome returns only for an outcome that was counted.     *)
(***************************************************************************)
THEOREM NothingReturnsUncounted == Safety => []ReturnedMeansCounted
<1>1. IInv => ReturnedMeansCounted
  BY DEF IInv
<1>2. QED
  BY <1>1, StoreInvariant, PTL

(***************************************************************************)
(* apply_outcome: whenever the mastery row is still the one read, so is    *)
(* the spacing row, which the transaction puts with no condition on it.    *)
(***************************************************************************)
THEOREM SnapshotsGuard == Safety => []SnapshotGuards
<1>1. IInv => SnapshotGuards
  BY DEF IInv
<1>2. QED
  BY <1>1, StoreInvariant, PTL

(***************************************************************************)
(* The optimistic loop implements the one-step ledger: every commit is one *)
(* Count of the outcome it carries, every other step leaves the rows be.   *)
(***************************************************************************)
THEOREM StoreImplementsLedger == Safety => ImplementsLedger
<1>1. Init => LedgerInit
  BY DEF Init
<1>2. IInv /\ [Next]_vars => [LedgerNext]_ledgerVars
  <2> SUFFICES ASSUME IInv, [Next]_vars, ~UNCHANGED ledgerVars
               PROVE  LedgerNext
    OBVIOUS
  <2>1. PICK w \in Worker : Commit(w)
    BY OnlyCommitWrites
  <2>2. job[w].outcome \in Outcome /\ job[w].correct \in BOOLEAN
    BY DEF IInv, TypeOK, Job
  <2>3. Count(job[w].outcome, job[w].correct)
    BY <2>1, CommitCounts DEF IInv
  <2>4. QED
    BY <2>2, <2>3 DEF LedgerNext
<1>3. QED
  BY <1>1, <1>2, StoreInvariant, PTL DEF Safety, ImplementsLedger, LedgerSpec

-----------------------------------------------------------------------------
(***************************************************************************)
(* What was counted is what the family is shown (TurnMemory).  The         *)
(* theorems hold for any capsule, texts, agendas and faults: a sitting     *)
(* that is over keeps no words, a key is given to the model that explains  *)
(* only after an answer, and a page shows an answer once, with the verdict *)
(* that the grades of the same page count, adds it up once in each of its  *)
(* totals, and shows as said to a note what was sent for its message.      *)
(*                                                                         *)
(* Keys and answers come from the journal: a question has one message that *)
(* answers it, whose grade is decided once, and the grade, the episode and *)
(* the note that are written of it repeat that one.  The totals come from  *)
(* the dates of the grades, and what was sent from the event log.          *)
(***************************************************************************)
CONSTANTS Text, Capsule, Sitting, Open, Approach, Retention, IdleTime, FirstTime, LastTime,
          Agendas, MaxTurnFaults

VARIABLES now, agenda, begun, done, prepared, capsule, journal, episodes, held, blocked, alarms,
          boxes, trace, unlogged, turnFaults

Turn == INSTANCE TurnMemory WITH MaxFaults <- MaxTurnFaults, faults <- turnFaults

WorkField == {"pc", "of", "then", "closing", "again", "sitting", "note", "context", "say"}
NoteField == {"session", "of", "at", "intent", "item", "words", "correct", "explained", "expires"}

SessionRow == [index : DOMAIN Capsule,
               status : {None, "planned", "delivered", "in_progress", "completed"}]

AnswerRow == [index : DOMAIN Capsule, at : Nat, grade : {None, "yes", "no", "held"},
              complete : BOOLEAN]

TurnShape ==
    /\ Turn!TurnsAssumption
    /\ now \in Nat
    /\ agenda \in Agendas
    /\ DOMAIN work = WorkField /\ DOMAIN work.note = NoteField
    /\ \A n \in notes : DOMAIN n = NoteField
    /\ "status" \in DOMAIN sitting /\ "status" \in DOMAIN work.sitting
    /\ capsule \in SessionRow
    /\ journal \in [DOMAIN journal -> AnswerRow]

-----------------------------------------------------------------------------
(* The words of a sitting. *)

Wordless == \A n \in notes : n.session = "sitting" => ~n.words

\* The window is cleared before a sitting is put as over, and a note is
\* written into a sitting only while it is open.
WordsInv ==
    /\ ClosedSittingKeepsNoWords
    /\ work.pc = "put" /\ work.sitting.status \in {"closed", "abandoned"} => Wordless
    /\ work.pc = "remember" /\ work.note.session = "sitting" => sitting.status = "active"
    /\ work.pc \in {"remember", "remembered"} =>
         \/ work.then = "prepare"
         \/ work.then = "clear" /\ work.closing = "capsule"
    /\ (work.pc \in {"clear", "cleared"} /\ work.closing = "sitting") \/ work.pc = "put" =>
         work.then \in {"route", "prepare"}

-----------------------------------------------------------------------------
(* The answers of the capsule. *)

QuestionOf(m) == Capsule[journal[m].index]

\* The session has gone on from the question of an answer.
GoneOn(m) == journal[m].index < capsule.index \/ capsule.status = "completed"

\* One answer is under way at a time, to the question after all others.
AnswersInv ==
    \A m, k \in DOMAIN journal :
        /\ m # k => journal[m].index # journal[k].index
        /\ m # k /\ ~journal[m].complete =>
             journal[k].complete /\ journal[k].index < journal[m].index
        /\ journal[m].complete => journal[m].grade # None /\ GoneOn(m)

\* The row of an answer in the grade log, and that of the adult who decided.
IsGradeOf(g, m) ==
    /\ journal[m].grade # None
    /\ g.id = <<"answer", journal[m].index>> /\ g.item = QuestionOf(m)
    /\ g.correct = journal[m].grade /\ g.supersedes = <<>>

IsDecisionOn(g, m) ==
    /\ journal[m].grade = "held"
    /\ g.id = <<"human", journal[m].index>> /\ g.item = QuestionOf(m)
    /\ g.supersedes = <<"answer", journal[m].index>>

IsOther(g) ==
    /\ g.id[1] \notin {"answer", "human"}
    /\ g.supersedes # <<>> => g.supersedes[1] \notin {"answer", "human"}

IsLogged(m) == \E g \in grades : IsGradeOf(g, m)

IsHeldFor(h, m) == journal[m].grade = "held" /\ h.index = journal[m].index

IsEpisodeOf(e, m) ==
    /\ journal[m].grade # None
    /\ e = [session |-> "capsule", item |-> QuestionOf(m), stamp |-> <<m, 0>>,
            correct |-> journal[m].grade]

IsNoteOf(n, m) ==
    /\ n.session = "capsule" /\ n.intent = "answer" /\ n.of = m
    /\ journal[m].complete
    /\ n.item = QuestionOf(m) /\ n.correct = Turn!Verdict(journal[m].grade)

\* What is written of answers repeats the journal.
GradesInv ==
    \A g \in grades :
        IsOther(g) \/ \E m \in DOMAIN journal : IsGradeOf(g, m) \/ IsDecisionOn(g, m)

HeldInv == \A h \in held : \E m \in DOMAIN journal : IsHeldFor(h, m)

LoggedInv == \A m \in DOMAIN journal : journal[m].complete => IsLogged(m)

EpisodesRepeat(rows) ==
    \A e \in rows : e.session = "capsule" => \E m \in DOMAIN journal : IsEpisodeOf(e, m)

NotesRepeat(rows) ==
    /\ \A n \in rows : n.correct # None => \E m \in DOMAIN journal : IsNoteOf(n, m)
    /\ \A n, o \in rows : n.session = o.session /\ n.of = o.of => n = o

\* What the handler of an answer knows, by how far it is.
PlacesInv ==
    LET m == work.of IN
    /\ work.pc \in {"grade", "log", "episode", "hold", "advance", "complete"} =>
         m \in DOMAIN journal /\ ~journal[m].complete
    /\ work.pc \in {"log", "episode", "hold", "advance", "complete"} => journal[m].grade # None
    /\ work.pc \in {"episode", "hold", "advance", "complete"} => IsLogged(m)
    /\ work.pc = "hold" => journal[m].grade = "held"
    /\ work.pc = "complete" => GoneOn(m)
    /\ work.pc \in {"feedback", "told"} => m \in DOMAIN journal /\ journal[m].complete
    /\ work.pc = "screen" => m \in DOMAIN journal
    /\ work.pc = "route" \/ (work.pc \in {"clear", "cleared", "put"} /\ work.then = "route") =>
         m \notin DOMAIN journal
    /\ work.pc = "remembered" => work.note.of = m
    /\ work.pc = "remember" =>
         /\ work.note.of = m
         /\ work.note.correct # None => m \in DOMAIN journal /\ IsNoteOf(work.note, m)

WasGraded(item) == \E g \in grades : g.id[1] = "answer" /\ g.item = item

KeyInv ==
    /\ KeyAfterAnswer
    /\ capsule.status = "completed" =>
         capsule.index = Len(Capsule) /\ WasGraded(Capsule[Len(Capsule)])

\* The log has finitely many rows, each of a moment, as will those that an
\* adult adds; and a page is of a moment.
GradesAreDated == IsFiniteSet(grades) /\ \A g \in grades : g.at \in Nat

DatesInv ==
    /\ GradesAreDated
    /\ \A h \in held : h.at \in Nat
    /\ page.open => page.at \in Nat

SavesNote(e, n) == e.kind = "saved" /\ e.session = n.session /\ e.note = n.of

IsSaved(n) == \E k \in DOMAIN trace : SavesNote(trace[k], n)

\* A delivery is of the message it was sent for; and before any save of a note
\* there is that of its own message, or it is this one, or that was never logged.
LogInv ==
    /\ \E S : trace \in Seq(S)
    /\ \A k \in DOMAIN trace : trace[k].kind = "delivery" =>
         trace[k].box[2] = trace[k].of /\ trace[k].of # 0
    /\ \A k \in DOMAIN trace : trace[k].kind = "saved" =>
         \/ trace[k].note \in unlogged
         \/ \E j \in 1..k :
              /\ trace[j].kind = "saved" /\ trace[j].session = trace[k].session
              /\ trace[j].note = trace[k].note /\ trace[j].of = trace[j].note

IsSavedOrLost(n) == IsSaved(n) \/ n.of \in unlogged

\* A note that was put and whose event is to be logged next.
IsBeingSaved(n) ==
    work.pc = "remembered" /\ work.of = n.of /\ work.note.session = n.session

\* Whatever is noted is of a message that was begun, and was logged as saved or
\* is about to be, unless its handler died in between.
SavedInv ==
    /\ begun \subseteq Text
    /\ work.pc # "idle" => work.of \in begun
    /\ \A n \in notes : n.of \in begun /\ (IsSavedOrLost(n) \/ IsBeingSaved(n))
    /\ work.pc = "cleared" => IsSavedOrLost(work.note)
    /\ page.open => \A n \in page.notes : n.of \in page.messages

PageInv == page.open => NotesRepeat(page.notes) /\ EpisodesRepeat(page.episodes)

TurnInv ==
    /\ TurnShape /\ WordsInv /\ AnswersInv
    /\ GradesInv /\ HeldInv /\ LoggedInv /\ EpisodesRepeat(episodes) /\ NotesRepeat(notes)
    /\ PlacesInv /\ KeyInv /\ DatesInv /\ LogInv /\ SavedInv /\ PageInv
-----------------------------------------------------------------------------
(* Who writes what. *)

Writers ==
    /\ UNCHANGED agenda
    /\ UNCHANGED journal \/ Turn!OpenJournal \/ Turn!GradeAnswer \/ Turn!Complete
    /\ UNCHANGED capsule \/ Turn!Advance
    /\ UNCHANGED grades \/ Turn!GradeInSitting \/ Turn!LogGrade \/ Turn!Release
    /\ UNCHANGED held \/ Turn!HoldGrade \/ Turn!Release
    /\ UNCHANGED episodes \/ Turn!EpisodeInSitting \/ Turn!LogEpisode
    /\ UNCHANGED notes \/ Turn!ClearOne \/ Turn!Remember
    /\ UNCHANGED sitting \/ Turn!PutSitting
    /\ UNCHANGED now \/ Turn!Tick
    /\ UNCHANGED begun \/ \E m \in Text : Turn!Take(m)
    /\ UNCHANGED trace \/ Turn!LogSave \/ Turn!ExplainInSitting \/ Turn!SendOne
    /\ UNCHANGED unlogged \/ Turn!Crash

LEMMA TurnWriters == ASSUME Turn!TurnsNext PROVE Writers
<1> USE DEF Writers, Turn!inbox, Turn!sessions, Turn!record, Turn!safety, Turn!memory, Turn!reply
<1>1. CASE Turn!Tick
  BY <1>1 DEF Turn!Tick
<1>2. CASE Turn!Sweep
  BY <1>2 DEF Turn!Sweep
<1>3. CASE Turn!ClearOne
  BY <1>3 DEF Turn!ClearOne
<1>4. CASE Turn!Cleared
  BY <1>4 DEF Turn!Cleared
<1>5. CASE Turn!PutSitting
  BY <1>5 DEF Turn!PutSitting
<1>6. CASE Turn!HoldUnsafe
  BY <1>6 DEF Turn!HoldUnsafe
<1>7. CASE Turn!RaiseAlarm
  BY <1>7 DEF Turn!RaiseAlarm
<1>8. CASE Turn!AnswerSitting
  BY <1>8 DEF Turn!AnswerSitting
<1>9. CASE Turn!GradeInSitting
  BY <1>9 DEF Turn!GradeInSitting
<1>10. CASE Turn!EpisodeInSitting
  BY <1>10 DEF Turn!EpisodeInSitting
<1>11. CASE Turn!Serve
  BY <1>11 DEF Turn!Serve
<1>12. CASE Turn!CloseSitting
  BY <1>12 DEF Turn!CloseSitting
<1>13. CASE Turn!UnreadInSitting
  BY <1>13 DEF Turn!UnreadInSitting
<1>14. CASE Turn!ExplainInSitting
  BY <1>14 DEF Turn!ExplainInSitting
<1>15. CASE Turn!TalkInSitting
  BY <1>15 DEF Turn!TalkInSitting
<1>16. CASE Turn!NotUnderstood
  BY <1>16 DEF Turn!NotUnderstood
<1>17. CASE Turn!Explain
  BY <1>17 DEF Turn!Explain
<1>18. CASE Turn!Talk
  BY <1>18 DEF Turn!Talk
<1>19. CASE Turn!Nothing
  BY <1>19 DEF Turn!Nothing
<1>20. CASE Turn!OpenJournal
  BY <1>20 DEF Turn!OpenJournal
<1>21. CASE Turn!Raise
  BY <1>21 DEF Turn!Raise
<1>22. CASE Turn!GradeAnswer
  BY <1>22 DEF Turn!GradeAnswer
<1>23. CASE Turn!LogGrade
  BY <1>23 DEF Turn!LogGrade
<1>24. CASE Turn!LogEpisode
  BY <1>24 DEF Turn!LogEpisode
<1>25. CASE Turn!HoldGrade
  BY <1>25 DEF Turn!HoldGrade
<1>26. CASE Turn!Advance
  BY <1>26 DEF Turn!Advance
<1>27. CASE Turn!Complete
  BY <1>27 DEF Turn!Complete
<1>28. CASE Turn!Release
  BY <1>28 DEF Turn!Release
<1>29. CASE Turn!Remember
  BY <1>29 DEF Turn!Remember
<1>30. CASE Turn!AnswerIsRemembered
  BY <1>30 DEF Turn!AnswerIsRemembered
<1>31. CASE Turn!Prepare
  BY <1>31 DEF Turn!Prepare
<1>32. CASE Turn!OpenBox
  BY <1>32 DEF Turn!OpenBox
<1>33. CASE Turn!SendOne
  BY <1>33 DEF Turn!SendOne
<1>34. CASE Turn!Told
  BY <1>34 DEF Turn!Told
<1>35. CASE Turn!Finish
  BY <1>35 DEF Turn!Finish
<1>36. CASE Turn!Crash
  BY <1>36 DEF Turn!Crash
<1>37. CASE \E m \in Text : Turn!Take(m)
  BY <1>37 DEF Turn!Take
<1>38. CASE Turn!LogSave
  BY <1>38 DEF Turn!LogSave
<1>39. CASE Turn!Pass
  BY <1>39 DEF Turn!Pass
<1>40. CASE Turn!BlockAnswer
  BY <1>40 DEF Turn!BlockAnswer
<1> QED
  BY <1>1, <1>2, <1>3, <1>4, <1>5, <1>6, <1>7, <1>8, <1>9, <1>10, <1>11, <1>12, <1>13,
     <1>14, <1>15, <1>16, <1>17, <1>18, <1>19, <1>20, <1>21, <1>22, <1>23, <1>24, <1>25,
     <1>26, <1>27, <1>28, <1>29, <1>30, <1>31, <1>32, <1>33, <1>34, <1>35, <1>36, <1>37,
     <1>38, <1>39, <1>40 DEF Turn!TurnsNext

-----------------------------------------------------------------------------
(* What the handler holds after it moves. *)

Keeps(fields) == \A f \in fields : work'[f] = work[f]

LEMMA GotoMoves ==
    ASSUME DOMAIN work = WorkField, NEW where, Turn!Goto(where)
    PROVE  DOMAIN work' = WorkField /\ work'.pc = where /\ Keeps(WorkField \ {"pc"})
  BY DEF Turn!Goto, WorkField, Keeps

LEMMA SayMoves ==
    ASSUME DOMAIN work = WorkField, NEW said, Turn!PrepareToSay(said)
    PROVE  DOMAIN work' = WorkField /\ work'.pc = "prepare" /\ Keeps(WorkField \ {"pc", "say"})
  BY DEF Turn!PrepareToSay, WorkField, Keeps

LEMMA CloseMoves ==
    ASSUME DOMAIN work = WorkField, "status" \in DOMAIN sitting,
           NEW status, NEW said, NEW then, Turn!CloseThen(status, said, then)
    PROVE  /\ DOMAIN work' = WorkField /\ work'.pc = "clear" /\ work'.closing = "sitting"
           /\ work'.then = then /\ work'.sitting.status = status
           /\ "status" \in DOMAIN work'.sitting
           /\ Keeps({"of", "again", "note", "context"})
  BY DEF Turn!CloseThen, WorkField, Keeps

LEMMA SayAndRememberMoves ==
    ASSUME DOMAIN work = WorkField, NEW note, NEW context, NEW said,
           Turn!SayAndRemember(note, context, said)
    PROVE  /\ DOMAIN work' = WorkField /\ work'.pc \in {"remember", "prepare"}
           /\ work'.then = "prepare" /\ work'.note = note /\ work'.context = context
           /\ Keeps({"of", "again", "sitting", "closing"})
  BY DEF Turn!SayAndRemember, WorkField, Keeps

\* The note that was put is kept until it is logged.
LEMMA PutMoves ==
    ASSUME TurnShape, Turn!ClearOne \/ Turn!Remember
    PROVE  /\ DOMAIN work' = WorkField /\ DOMAIN work'.note = NoteField
           /\ work'.pc = IF Turn!ClearOne THEN "cleared" ELSE "remembered"
           /\ work'.note \in notes' /\ ~(Turn!ClearOne /\ Turn!Remember)
           /\ Keeps({"of", "then", "closing", "sitting", "context"})
<1>1. DOMAIN work = WorkField /\ DOMAIN work.note = NoteField /\ \A n \in notes : DOMAIN n = NoteField
  BY DEF TurnShape
<1>2. ASSUME NEW where, NEW note, work' = [work EXCEPT !.pc = where, !.note = note]
      PROVE  /\ DOMAIN work' = WorkField /\ work'.pc = where /\ work'.note = note
             /\ Keeps({"of", "then", "closing", "sitting", "context"})
  BY <1>1, <1>2 DEF WorkField, Keeps
<1>3. ~(Turn!ClearOne /\ Turn!Remember)
  BY DEF Turn!ClearOne, Turn!Remember, Turn!At
<1>4. CASE Turn!ClearOne
  <2>1. PICK n, note :
          /\ n \in notes /\ note = [n EXCEPT !.words = FALSE, !.expires = now + Retention]
          /\ note \in notes' /\ work' = [work EXCEPT !.pc = "cleared", !.note = note]
    BY <1>4 DEF Turn!ClearOne, Turn!WordsOf
  <2>2. DOMAIN note = NoteField
    BY <1>1, <2>1 DEF NoteField
  <2> QED
    BY <1>2, <1>3, <1>4, <2>1, <2>2
<1>5. CASE Turn!Remember
  <2>1. PICK note :
          /\ note = [work.note EXCEPT !.at = Turn!Stamp, !.expires = now + Retention]
          /\ note \in notes' /\ work' = [work EXCEPT !.pc = "remembered", !.note = note]
    BY <1>5 DEF Turn!Remember
  <2>2. DOMAIN note = NoteField
    BY <1>1, <2>1 DEF NoteField
  <2> QED
    BY <1>2, <1>3, <1>5, <2>1, <2>2
<1> QED
  BY <1>4, <1>5

LEMMA IdleHolds ==
    /\ DOMAIN Turn!Idle = WorkField /\ DOMAIN Turn!Idle.note = NoteField
    /\ Turn!Idle.pc = "idle" /\ Turn!Idle.sitting.status = None
    /\ "status" \in DOMAIN Turn!Idle.sitting
    /\ Turn!Idle.context.key = FALSE
  BY DEF Turn!Idle, WorkField, NoteField, Turn!NoNote, Turn!Note, Turn!NoContext, Turn!None, None

LEMMA NoteHolds ==
    ASSUME NEW session, NEW intent, NEW item, NEW explained
    PROVE  LET n == Turn!NoteOf(session, intent, item, explained)
           IN  /\ DOMAIN n = NoteField /\ n.session = session /\ n.of = work.of
               /\ n.intent = intent /\ n.item = item /\ n.correct = None
  BY DEF Turn!NoteOf, Turn!Note, NoteField, Turn!M, Turn!None, None

\* Places where nothing of an answer or of a sitting is under way.
Aside == {"idle", "prepare", "finish", "studygrade", "studyepisode", "serve"}

StepsAside ==
    /\ DOMAIN work' = WorkField /\ work'.pc \in Aside
    /\ work' = Turn!Idle \/ Keeps({"of", "note", "sitting", "context"})

BeginsClosing ==
    /\ DOMAIN work' = WorkField /\ work'.pc = "clear" /\ work'.closing = "sitting"
    /\ work'.then = "prepare" \/ (work'.then = "route" /\ work.pc = "route")
    /\ "status" \in DOMAIN work'.sitting
    /\ Keeps({"of", "note", "context"})

\* A note of what was said to a text that is no answer, and its context.
NotesATurn(note, context) ==
    /\ DOMAIN work' = WorkField /\ work'.pc \in {"remember", "prepare"} /\ work'.then = "prepare"
    /\ work'.note = note /\ DOMAIN note = NoteField /\ note.of = work.of /\ note.correct = None
    /\ work'.context = context /\ Keeps({"of", "sitting"})

NotesInCapsule(context) ==
    \E note : note.session = "capsule" /\ NotesATurn(note, context)

NotesInSitting(context) ==
    /\ sitting.status = "active"
    /\ \E note : note.session = "sitting" /\ NotesATurn(note, context)

LEMMA OpenIsActive ==
    ASSUME TurnShape, Turn!SittingIsOpen
    PROVE  sitting.status = "active"
  BY DEF TurnShape, Turn!SittingIsOpen, Turn!Today, Turn!None, None

LEMMA AsideSteps ==
    ASSUME TurnShape,
           \/ Turn!HoldUnsafe \/ Turn!BlockAnswer \/ Turn!GradeInSitting \/ Turn!EpisodeInSitting
           \/ Turn!UnreadInSitting \/ Turn!NotUnderstood \/ Turn!Nothing \/ Turn!Raise
           \/ Turn!Prepare \/ Turn!Finish \/ Turn!Crash
    PROVE  StepsAside
<1> DOMAIN work = WorkField
  BY DEF TurnShape
<1>1. ASSUME NEW where \in Aside, Turn!Goto(where) PROVE StepsAside
  BY <1>1, GotoMoves DEF StepsAside, Keeps, WorkField
<1>2. ASSUME NEW said, Turn!PrepareToSay(said) PROVE StepsAside
  BY <1>2, SayMoves DEF StepsAside, Keeps, WorkField, Aside
<1>3. work' = Turn!Idle => StepsAside
  BY IdleHolds DEF StepsAside, Aside
<1>4. CASE Turn!GradeInSitting
  BY <1>4, <1>1 DEF Turn!GradeInSitting, Aside
<1>5. CASE Turn!EpisodeInSitting
  BY <1>5, <1>1 DEF Turn!EpisodeInSitting, Aside
<1>6. CASE Turn!Prepare
  BY <1>6, <1>1 DEF Turn!Prepare, Aside
<1>7. CASE \/ Turn!HoldUnsafe \/ Turn!BlockAnswer \/ Turn!UnreadInSitting \/ Turn!NotUnderstood
           \/ Turn!Nothing
  BY <1>7, <1>2 DEF Turn!HoldUnsafe, Turn!BlockAnswer, Turn!UnreadInSitting, Turn!NotUnderstood,
     Turn!Nothing
<1>8. CASE Turn!Raise \/ Turn!Finish \/ Turn!Crash
  BY <1>8, <1>3 DEF Turn!Raise, Turn!Finish, Turn!Crash
<1> QED
  BY <1>4, <1>5, <1>6, <1>7, <1>8

LEMMA AnswerSittingSteps ==
    ASSUME TurnShape, Turn!AnswerSitting
    PROVE  StepsAside
<1>1. DOMAIN work = WorkField
  BY DEF TurnShape
<1>2. Turn!PrepareToSay(<<"study_out_of_step", "question">>) \/ Turn!Goto("studygrade")
  BY DEF Turn!AnswerSitting
<1> QED
  BY <1>1, <1>2, GotoMoves, SayMoves DEF StepsAside, Keeps, WorkField, Aside

LEMMA ClosingSteps ==
    ASSUME TurnShape, NEW status, NEW said, NEW then \in {"route", "prepare"},
           then = "route" => work.pc = "route", Turn!CloseThen(status, said, then)
    PROVE  BeginsClosing
<1>1. DOMAIN work = WorkField /\ "status" \in DOMAIN sitting
  BY DEF TurnShape
<1>2. /\ DOMAIN work' = WorkField /\ work'.pc = "clear" /\ work'.closing = "sitting"
      /\ work'.then = then /\ "status" \in DOMAIN work'.sitting
      /\ Keeps({"of", "again", "note", "context"})
  BY <1>1, CloseMoves
<1> QED
  BY <1>2 DEF BeginsClosing, Keeps

LEMMA SweepCloses ==
    ASSUME TurnShape, Turn!Sweep \/ Turn!CloseSitting PROVE BeginsClosing
  BY ClosingSteps DEF Turn!Sweep, Turn!CloseSitting, Turn!At

LEMMA AlarmSteps ==
    ASSUME TurnShape, Turn!RaiseAlarm PROVE BeginsClosing \/ StepsAside
<1>1. DOMAIN work = WorkField
  BY DEF TurnShape
<1>2. \/ Turn!CloseThen("closed", <<"distress_child", "distress_parent">>, "prepare")
      \/ Turn!PrepareToSay(<<"distress_child", "distress_parent">>)
  BY DEF Turn!RaiseAlarm
<1> QED
  BY <1>1, <1>2, ClosingSteps, SayMoves DEF StepsAside, Keeps, WorkField, Aside

LEMMA NotingSteps ==
    ASSUME TurnShape
    PROVE  /\ Turn!Talk => NotesInCapsule(Turn!NoContext)
           /\ Turn!Explain => NotesInCapsule(Turn!ExplainContext(capsule,
                Turn!FocusIndex(capsule, Len(Capsule)), Turn!InFocus, notes, Turn!CapsuleWindow))
           /\ Turn!TalkInSitting => NotesInSitting(work.context)
           /\ Turn!ExplainInSitting =>
                NotesInSitting(Turn!StudyContext(Turn!Question, Turn!SittingWindow))
<1> DOMAIN work = WorkField
  BY DEF TurnShape
<1>1. ASSUME Turn!Talk PROVE NotesInCapsule(Turn!NoContext)
  BY <1>1, SayAndRememberMoves, NoteHolds DEF Turn!Talk, NotesInCapsule, NotesATurn, Keeps
<1>2. ASSUME Turn!Explain
      PROVE  NotesInCapsule(Turn!ExplainContext(capsule,
                Turn!FocusIndex(capsule, Len(Capsule)), Turn!InFocus, notes, Turn!CapsuleWindow))
  BY <1>2, SayAndRememberMoves, NoteHolds DEF Turn!Explain, NotesInCapsule, NotesATurn, Keeps
<1>3. ASSUME Turn!TalkInSitting PROVE NotesInSitting(work.context)
  BY <1>3, OpenIsActive, NoteHolds
     DEF Turn!TalkInSitting, Turn!InSitting, NotesInSitting, NotesATurn, Keeps, WorkField
<1>4. ASSUME Turn!ExplainInSitting
      PROVE  NotesInSitting(Turn!StudyContext(Turn!Question, Turn!SittingWindow))
  BY <1>4, OpenIsActive, NoteHolds
     DEF Turn!ExplainInSitting, Turn!InSitting, NotesInSitting, NotesATurn, Keeps, WorkField
<1> QED
  BY <1>1, <1>2, <1>3, <1>4

LEMMA ServeSteps ==
    ASSUME TurnShape, Turn!Serve
    PROVE  \/ BeginsClosing
           \/ /\ DOMAIN work' = WorkField /\ work'.pc = "put" /\ work'.then = "prepare"
              /\ "status" \in DOMAIN work'.sitting /\ work'.sitting.status = sitting.status
              /\ Keeps({"of", "note", "context"})
<1>1. DOMAIN work = WorkField /\ "status" \in DOMAIN sitting
  BY DEF TurnShape
<1>2. CASE sitting.index = Len(Sitting)
  BY <1>2, ClosingSteps DEF Turn!Serve
<1>3. CASE sitting.index # Len(Sitting)
  <2>1. work' = [work EXCEPT !.pc = "put", !.then = "prepare", !.say = <<"question">>,
                       !.sitting = [sitting EXCEPT !.index = @ + 1, !.last = now]]
    BY <1>3 DEF Turn!Serve
  <2> DEFINE next == [sitting EXCEPT !.index = @ + 1, !.last = now]
  <2>2. "status" \in DOMAIN next /\ next.status = sitting.status
    BY <1>1
  <2> HIDE DEF next
  <2>3. /\ DOMAIN work' = WorkField /\ work'.pc = "put" /\ work'.then = "prepare"
        /\ work'.sitting = next /\ Keeps({"of", "note", "context"})
    BY <1>1, <2>1 DEF WorkField, Keeps, next
  <2> QED
    BY <2>2, <2>3
<1> QED
  BY <1>2, <1>3

LEMMA AnswerNoteSteps ==
    ASSUME TurnShape, Turn!AnswerIsRemembered
    PROVE  \/ StepsAside
           \/ /\ DOMAIN work' = WorkField /\ work'.pc = "remember" /\ work'.closing = "capsule"
              /\ work'.then \in {"clear", "prepare"}
              /\ Keeps({"of", "sitting", "context"})
              /\ DOMAIN work'.note = NoteField
              /\ work'.note.session = "capsule" /\ work'.note.of = work.of
              /\ work'.note.intent = "answer" /\ work'.note.item = QuestionOf(work.of)
              /\ work'.note.correct = Turn!Verdict(journal[work.of].grade)
<1>1. DOMAIN work = WorkField
  BY DEF TurnShape
<1> DEFINE note == Turn!NoteOf("capsule", "answer", Turn!Answered, Turn!NoApproach)
           kept == [note EXCEPT !.correct = Turn!Verdict(Turn!J.grade)]
<1>2. /\ DOMAIN kept = NoteField /\ kept.session = "capsule" /\ kept.of = work.of
      /\ kept.intent = "answer" /\ kept.item = QuestionOf(work.of)
      /\ kept.correct = Turn!Verdict(journal[work.of].grade)
  <2>1. Turn!Answered = QuestionOf(work.of)
    BY DEF Turn!Answered, QuestionOf, Turn!J, Turn!M
  <2>2. /\ DOMAIN note = NoteField /\ note.session = "capsule" /\ note.of = work.of
        /\ note.intent = "answer" /\ note.item = QuestionOf(work.of)
    BY <2>1, NoteHolds
  <2>3. kept.correct = Turn!Verdict(Turn!J.grade)
    BY <2>2 DEF NoteField
  <2> HIDE DEF note
  <2>4. kept.session = "capsule" /\ kept.of = work.of /\ kept.intent = "answer"
        /\ kept.item = QuestionOf(work.of) /\ DOMAIN kept = NoteField
    BY <2>2 DEF NoteField
  <2> QED
    BY <2>3, <2>4 DEF Turn!J, Turn!M
<1>3. CASE work.again
  <2>1. DOMAIN work' = WorkField /\ work'.pc = "prepare" /\ Keeps({"of", "note", "sitting", "context"})
    BY <1>1, <1>3 DEF Turn!AnswerIsRemembered, WorkField, Keeps
  <2> QED
    BY <2>1 DEF StepsAside, Aside
<1>4. CASE ~work.again
  <2>1. \E then \in {"clear", "prepare"} :
          work' = [work EXCEPT !.pc = "remember", !.closing = "capsule", !.then = then,
                               !.note = kept]
    BY <1>4 DEF Turn!AnswerIsRemembered
  <2> HIDE DEF kept
  <2>2. /\ DOMAIN work' = WorkField /\ work'.pc = "remember" /\ work'.closing = "capsule"
        /\ work'.then \in {"clear", "prepare"} /\ work'.note = kept
        /\ Keeps({"of", "sitting", "context"})
    BY <1>1, <2>1 DEF WorkField, Keeps
  <2> QED
    BY <1>2, <2>2
<1> QED
  BY <1>3, <1>4

LEMMA TakeSteps ==
    ASSUME TurnShape, NEW m, Turn!Take(m)
    PROVE  /\ DOMAIN work' = WorkField /\ work'.of = m
           /\ work'.pc \in {"finish", "screen", "route"}
           /\ work'.pc = "screen" => m \in DOMAIN journal
           /\ work'.pc = "route" => m \notin DOMAIN journal
           /\ DOMAIN work'.note = NoteField /\ "status" \in DOMAIN work'.sitting
           /\ work'.context.key = FALSE
<1>1. /\ DOMAIN work' = WorkField /\ work'.of = m /\ work'.pc = Turn!Resume(m)
      /\ work'.note = Turn!Idle.note /\ work'.sitting = Turn!Idle.sitting
      /\ work'.context = Turn!Idle.context
  BY IdleHolds DEF Turn!Take, WorkField
<1>2. CASE m \in DOMAIN prepared
  BY <1>1, <1>2, IdleHolds DEF Turn!Resume
<1>3. CASE m \notin DOMAIN prepared /\ m \in DOMAIN journal
  BY <1>1, <1>3, IdleHolds DEF Turn!Resume
<1>4. CASE m \notin DOMAIN prepared /\ m \notin DOMAIN journal
  BY <1>1, <1>4, IdleHolds DEF Turn!Resume
<1> QED
  BY <1>2, <1>3, <1>4

-----------------------------------------------------------------------------
(* Rows keep their types. *)

WorkIsTyped ==
    DOMAIN work = WorkField /\ DOMAIN work.note = NoteField /\ "status" \in DOMAIN work.sitting

LEMMA WorkStaysTyped ==
    ASSUME TurnShape, Turn!TurnsNext
    PROVE  WorkIsTyped'
<1>1. DOMAIN work = WorkField /\ WorkIsTyped
  BY DEF TurnShape, WorkIsTyped
<1>2. CASE StepsAside
  BY <1>1, <1>2, IdleHolds DEF StepsAside, WorkIsTyped, Keeps
<1>3. CASE BeginsClosing
  BY <1>1, <1>3 DEF BeginsClosing, WorkIsTyped, Keeps
<1>4. CASE \E context : NotesInCapsule(context) \/ NotesInSitting(context)
  BY <1>1, <1>4 DEF NotesInCapsule, NotesInSitting, NotesATurn, WorkIsTyped, Keeps
<1>5. CASE \E where : Turn!Goto(where)
  BY <1>1, <1>5, GotoMoves DEF WorkIsTyped, Keeps, WorkField
<1>6. CASE UNCHANGED work
  BY <1>1, <1>6 DEF WorkIsTyped
<1>7. CASE Turn!Serve
  BY <1>1, <1>3, <1>7, ServeSteps DEF WorkIsTyped, Keeps
<1>8. CASE Turn!AnswerIsRemembered
  BY <1>1, <1>2, <1>8, AnswerNoteSteps DEF WorkIsTyped, Keeps
<1>9. CASE \E m \in Text : Turn!Take(m)
  BY <1>9, TakeSteps DEF WorkIsTyped
<1>10. CASE \/ Turn!Tick \/ Turn!OpenBox \/ Turn!SendOne \/ Turn!Release
  BY <1>6, <1>10 DEF Turn!Tick, Turn!OpenBox, Turn!SendOne, Turn!Release
<1>11. CASE \/ Turn!LogSave \/ Turn!Cleared \/ Turn!PutSitting \/ Turn!OpenJournal \/ Turn!Pass
            \/ Turn!GradeAnswer \/ Turn!LogGrade \/ Turn!LogEpisode \/ Turn!HoldGrade
            \/ Turn!Advance \/ Turn!Complete \/ Turn!Told
  BY <1>5, <1>11 DEF Turn!LogSave, Turn!Cleared, Turn!PutSitting, Turn!OpenJournal, Turn!Pass,
     Turn!GradeAnswer, Turn!LogGrade, Turn!LogEpisode, Turn!HoldGrade, Turn!Advance,
     Turn!Complete, Turn!Told
<1>12. CASE Turn!Talk \/ Turn!Explain \/ Turn!TalkInSitting \/ Turn!ExplainInSitting
  BY <1>4, <1>12, NotingSteps
<1>13. CASE Turn!Sweep \/ Turn!CloseSitting \/ Turn!RaiseAlarm
  BY <1>2, <1>3, <1>13, SweepCloses, AlarmSteps
<1>14. CASE \/ Turn!HoldUnsafe \/ Turn!BlockAnswer \/ Turn!GradeInSitting \/ Turn!EpisodeInSitting
            \/ Turn!UnreadInSitting \/ Turn!NotUnderstood \/ Turn!Nothing \/ Turn!Raise
            \/ Turn!Prepare \/ Turn!Finish \/ Turn!Crash
  BY <1>2, <1>14, AsideSteps
<1>15. CASE Turn!AnswerSitting
  BY <1>2, <1>15, AnswerSittingSteps
<1>16. CASE Turn!ClearOne \/ Turn!Remember
  <2>1. work'.sitting = work.sitting
    BY <1>16, PutMoves DEF Keeps
  <2> QED
    BY <1>1, <1>16, <2>1, PutMoves DEF WorkIsTyped
<1> QED
  BY <1>7, <1>8, <1>9, <1>10, <1>11, <1>12, <1>13, <1>14, <1>15, <1>16 DEF Turn!TurnsNext

LEMMA CapsuleBounds ==
    ASSUME TurnShape
    PROVE  /\ Len(Capsule) \in Nat /\ DOMAIN Capsule = 1..Len(Capsule)
           /\ \A i, j \in DOMAIN Capsule : Capsule[i] = Capsule[j] => i = j
  BY DEF TurnShape, Turn!TurnsAssumption

LEMMA JournalIsTyped ==
    ASSUME TurnShape
    PROVE  \A m \in DOMAIN journal : journal[m] \in AnswerRow
  BY DEF TurnShape

LEMMA JournalStaysTyped ==
    ASSUME TurnShape, PlacesInv, Turn!TurnsNext
    PROVE  journal' \in [DOMAIN journal' -> AnswerRow]
<1>1. CASE UNCHANGED journal
  BY <1>1 DEF TurnShape
<1>2. CASE Turn!OpenJournal
  <2> DEFINE row == [index |-> capsule.index, at |-> now, grade |-> None, complete |-> FALSE]
  <2>1. row \in AnswerRow
    BY DEF TurnShape, SessionRow, AnswerRow
  <2>2. journal' = [k \in DOMAIN journal \cup {work.of} |->
                      IF k = work.of THEN row ELSE journal[k]]
    BY <1>2 DEF Turn!OpenJournal, Turn!Put, Turn!M, Turn!None, None
  <2> HIDE DEF row
  <2> QED
    BY <2>1, <2>2, JournalIsTyped
<1>3. CASE Turn!GradeAnswer
  <2>1. PICK grade \in {"yes", "no", "held"} :
          journal' = [journal EXCEPT ![work.of].grade = IF @ = None THEN grade ELSE @]
    BY <1>3 DEF Turn!GradeAnswer, Turn!Correct, Turn!M, Turn!None, None
  <2>2. work.of \in DOMAIN journal
    BY <1>3 DEF Turn!GradeAnswer, Turn!At, PlacesInv
  <2>3. [journal[work.of] EXCEPT !.grade = IF @ = None THEN grade ELSE @] \in AnswerRow
    BY <2>2, JournalIsTyped DEF AnswerRow
  <2> QED
    BY <2>1, <2>2, <2>3, JournalIsTyped
<1>4. CASE Turn!Complete
  <2>1. journal' = [journal EXCEPT ![work.of].complete = TRUE]
    BY <1>4 DEF Turn!Complete, Turn!M
  <2>2. work.of \in DOMAIN journal
    BY <1>4 DEF Turn!Complete, Turn!At, PlacesInv
  <2>3. [journal[work.of] EXCEPT !.complete = TRUE] \in AnswerRow
    BY <2>2, JournalIsTyped DEF AnswerRow
  <2> QED
    BY <2>1, <2>2, <2>3, JournalIsTyped
<1> QED
  BY <1>1, <1>2, <1>3, <1>4, TurnWriters DEF Writers

\* Advance moves the session to the question behind, or ends the capsule.
LEMMA AdvanceMoves ==
    ASSUME TurnShape, PlacesInv, Turn!Advance
    PROVE  /\ work.of \in DOMAIN journal
           /\ capsule' \in SessionRow
           /\ \/ /\ capsule'.index = journal[work.of].index + 1
                 /\ capsule'.status = "in_progress"
              \/ /\ journal[work.of].index = Len(Capsule)
                 /\ capsule'.index = Len(Capsule) /\ capsule'.status = "completed"
<1>1. work.of \in DOMAIN journal
  BY DEF Turn!Advance, Turn!At, PlacesInv
<1>2. journal[work.of].index \in 1..Len(Capsule) /\ Len(Capsule) \in Nat
  BY <1>1, JournalIsTyped, CapsuleBounds DEF AnswerRow
<1>3. CASE journal[work.of].index < Len(Capsule)
  <2>1. capsule' = [index |-> journal[work.of].index + 1, status |-> "in_progress"]
    BY <1>3 DEF Turn!Advance, Turn!J, Turn!M
  <2> QED
    BY <1>1, <1>2, <1>3, <2>1, CapsuleBounds DEF SessionRow
<1>4. CASE ~(journal[work.of].index < Len(Capsule))
  <2>1. capsule' = [index |-> journal[work.of].index, status |-> "completed"]
    BY <1>4 DEF Turn!Advance, Turn!J, Turn!M
  <2> QED
    BY <1>1, <1>2, <1>4, <2>1, CapsuleBounds DEF SessionRow
<1> QED
  BY <1>3, <1>4

LEMMA NotesStayTyped ==
    ASSUME TurnShape, Turn!TurnsNext
    PROVE  (\A n \in notes : DOMAIN n = NoteField)'
<1>1. CASE UNCHANGED notes
  BY <1>1 DEF TurnShape
<1>2. CASE Turn!ClearOne
  BY <1>2 DEF Turn!ClearOne, Turn!WordsOf, TurnShape, NoteField
<1>3. CASE Turn!Remember
  BY <1>3 DEF Turn!Remember, TurnShape, NoteField
<1> QED
  BY <1>1, <1>2, <1>3, TurnWriters DEF Writers

LEMMA ShapeStep ==
    ASSUME TurnShape, PlacesInv, Turn!TurnsNext
    PROVE  TurnShape'
<1>1. now' \in Nat /\ agenda' \in Agendas
  BY TurnWriters DEF Writers, Turn!Tick, TurnShape
<1>2. "status" \in DOMAIN sitting'
  BY TurnWriters DEF Writers, Turn!PutSitting, TurnShape
<1>3. capsule' \in SessionRow
  BY TurnWriters, AdvanceMoves DEF Writers, TurnShape
<1>4. Turn!TurnsAssumption
  BY DEF TurnShape
<1> QED
  BY <1>1, <1>2, <1>3, <1>4, WorkStaysTyped, JournalStaysTyped, NotesStayTyped
     DEF TurnShape, WorkIsTyped

-----------------------------------------------------------------------------
(* The journal. *)

LEMMA OpeningAnswers ==
    ASSUME TurnShape, PlacesInv, Turn!OpenJournal
    PROVE  /\ work.of \notin DOMAIN journal
           /\ \A m \in DOMAIN journal : journal[m].complete
           /\ capsule.status # "completed"
           /\ journal' = [k \in DOMAIN journal \cup {work.of} |->
                IF k = work.of THEN [index |-> capsule.index, at |-> now, grade |-> None,
                                     complete |-> FALSE]
                ELSE journal[k]]
<1>1. work.pc = "route"
  BY DEF Turn!OpenJournal, Turn!IsAnswer, Turn!InCapsule, Turn!At
<1>2. capsule.status # "completed"
  <2>1. Turn!PracticeState(Turn!CapsuleToday) = "open"
    BY DEF Turn!OpenJournal, Turn!State
  <2>2. Turn!CapsuleToday.status # "completed"
    BY <2>1 DEF Turn!PracticeState, Turn!None, None
  <2>3. "status" \in DOMAIN capsule
    BY DEF TurnShape, SessionRow
  <2>4. CASE Turn!CapsuleToday = capsule
    BY <2>2, <2>4
  <2>5. CASE Turn!CapsuleToday = [capsule EXCEPT !.status = None]
    BY <2>1, <2>3, <2>5 DEF Turn!PracticeState, Turn!None, None
  <2> QED
    BY <2>4, <2>5 DEF Turn!CapsuleToday, Turn!Today, Turn!None, None
<1> QED
  BY <1>1, <1>2 DEF Turn!OpenJournal, PlacesInv, Turn!Awaiting, Turn!Put, Turn!M, Turn!None, None

LEMMA GradingAnswers ==
    ASSUME TurnShape, PlacesInv, Turn!GradeAnswer
    PROVE  /\ work.of \in DOMAIN journal /\ ~journal[work.of].complete
           /\ DOMAIN journal' = DOMAIN journal
           /\ \A m \in DOMAIN journal \ {work.of} : journal'[m] = journal[m]
           /\ LET row == journal[work.of] IN
              /\ journal'[work.of].index = row.index /\ ~journal'[work.of].complete
              /\ journal'[work.of].grade # None
              /\ row.grade # None => journal'[work.of].grade = row.grade
<1>1. work.of \in DOMAIN journal /\ ~journal[work.of].complete
  BY DEF Turn!GradeAnswer, Turn!At, PlacesInv
<1>2. PICK grade \in {"yes", "no", "held"} :
        journal' = [journal EXCEPT ![work.of].grade = IF @ = None THEN grade ELSE @]
  BY DEF Turn!GradeAnswer, Turn!Correct, Turn!M, Turn!None, None
<1> DEFINE row == journal[work.of]
           graded == [row EXCEPT !.grade = IF @ = None THEN grade ELSE @]
<1>3. row \in AnswerRow
  BY <1>1, JournalIsTyped
<1>4. journal' = [journal EXCEPT ![work.of] = graded]
  BY <1>2
<1>5. /\ graded.index = row.index /\ graded.complete = row.complete
      /\ graded.grade # None /\ (row.grade # None => graded.grade = row.grade)
  BY <1>3 DEF AnswerRow, None
<1> HIDE DEF graded
<1> QED
  BY <1>1, <1>4, <1>5, JournalIsTyped DEF TurnShape

LEMMA CompletingAnswers ==
    ASSUME TurnShape, PlacesInv, Turn!Complete
    PROVE  /\ work.of \in DOMAIN journal /\ ~journal[work.of].complete
           /\ journal[work.of].grade # None /\ IsLogged(work.of) /\ GoneOn(work.of)
           /\ DOMAIN journal' = DOMAIN journal
           /\ \A m \in DOMAIN journal \ {work.of} : journal'[m] = journal[m]
           /\ LET row == journal[work.of] IN
              /\ journal'[work.of].index = row.index /\ journal'[work.of].complete
              /\ journal'[work.of].grade = row.grade
<1>1. /\ work.of \in DOMAIN journal /\ ~journal[work.of].complete
      /\ journal[work.of].grade # None /\ IsLogged(work.of) /\ GoneOn(work.of)
  BY DEF Turn!Complete, Turn!At, PlacesInv
<1> DEFINE row == journal[work.of]
           finished == [row EXCEPT !.complete = TRUE]
<1>2. journal' = [journal EXCEPT ![work.of] = finished]
  BY DEF Turn!Complete, Turn!M
<1>3. row \in AnswerRow
  BY <1>1, JournalIsTyped
<1>4. finished.index = row.index /\ finished.complete /\ finished.grade = row.grade
  BY <1>3 DEF AnswerRow
<1> HIDE DEF finished
<1> QED
  BY <1>1, <1>2, <1>4, JournalIsTyped DEF TurnShape

\* A row of the journal stays where it is, is graded once and completed once.
RowGrows(m) ==
    /\ m \in DOMAIN journal' /\ journal'[m].index = journal[m].index
    /\ journal[m].grade # None => journal'[m].grade = journal[m].grade
    /\ journal[m].complete => journal'[m].complete

LEMMA JournalGrows ==
    ASSUME TurnShape, PlacesInv, Turn!TurnsNext, NEW m \in DOMAIN journal
    PROVE  RowGrows(m)
<1>1. CASE UNCHANGED journal
  BY <1>1 DEF RowGrows
<1>2. CASE Turn!OpenJournal
  BY <1>2, OpeningAnswers DEF RowGrows
<1>3. CASE Turn!GradeAnswer
  BY <1>3, GradingAnswers DEF RowGrows
<1>4. CASE Turn!Complete
  BY <1>4, CompletingAnswers DEF RowGrows
<1> QED
  BY <1>1, <1>2, <1>3, <1>4, TurnWriters DEF Writers

LEMMA AnswersStep ==
    ASSUME TurnShape, PlacesInv, AnswersInv, Turn!TurnsNext
    PROVE  AnswersInv'
<1>1. \A m \in DOMAIN journal : journal[m].index \in 1..Len(Capsule)
  BY JournalIsTyped, CapsuleBounds DEF AnswerRow
<1>2. capsule.index \in 1..Len(Capsule) /\ Len(Capsule) \in Nat
  BY CapsuleBounds DEF TurnShape, SessionRow
<1>3. CASE Turn!OpenJournal
  <2>1. capsule' = capsule
    BY <1>3 DEF Turn!OpenJournal
  <2>2. \A m \in DOMAIN journal : journal[m].complete /\ journal[m].index < capsule.index
    BY <1>3, OpeningAnswers DEF AnswersInv, GoneOn
  <2>3. /\ DOMAIN journal' = DOMAIN journal \cup {work.of} /\ work.of \notin DOMAIN journal
        /\ \A m \in DOMAIN journal : journal'[m] = journal[m]
        /\ journal'[work.of].index = capsule.index /\ ~journal'[work.of].complete
    BY <1>3, OpeningAnswers
  <2>4. SUFFICES ASSUME NEW m \in DOMAIN journal', NEW k \in DOMAIN journal'
                 PROVE  /\ m # k => journal'[m].index # journal'[k].index
                        /\ m # k /\ ~journal'[m].complete =>
                             journal'[k].complete /\ journal'[k].index < journal'[m].index
                        /\ journal'[m].complete => journal'[m].grade # None /\ GoneOn(m)'
    BY DEF AnswersInv
  <2>5. CASE m \in DOMAIN journal /\ k \in DOMAIN journal
    BY <2>1, <2>2, <2>3, <2>5 DEF AnswersInv, GoneOn
  <2>6. CASE m = work.of /\ k \in DOMAIN journal
    BY <1>1, <1>2, <2>1, <2>2, <2>3, <2>6
  <2>7. CASE m \in DOMAIN journal /\ k = work.of
    BY <1>1, <1>2, <2>1, <2>2, <2>3, <2>7 DEF AnswersInv, GoneOn
  <2>8. CASE m = work.of /\ k = work.of
    BY <2>3, <2>8
  <2> QED
    BY <2>3, <2>4, <2>5, <2>6, <2>7, <2>8
<1>4. CASE Turn!GradeAnswer
  <2>1. capsule' = capsule
    BY <1>4 DEF Turn!GradeAnswer
  <2> QED
    BY <2>1, <1>4, GradingAnswers DEF AnswersInv, GoneOn
<1>5. CASE Turn!Complete
  <2>1. capsule' = capsule
    BY <1>5 DEF Turn!Complete
  <2> QED
    BY <2>1, <1>5, CompletingAnswers DEF AnswersInv, GoneOn
<1>6. CASE Turn!Advance
  <2>1. journal' = journal
    BY <1>6 DEF Turn!Advance
  <2>2. work.of \in DOMAIN journal /\ ~journal[work.of].complete
    BY <1>6 DEF Turn!Advance, Turn!At, PlacesInv
  <2>3. \/ capsule'.index = journal[work.of].index + 1
        \/ capsule'.status = "completed"
    BY <1>6, AdvanceMoves
  <2>4. ASSUME NEW m \in DOMAIN journal, journal[m].complete
        PROVE  journal[m].index < capsule'.index \/ capsule'.status = "completed"
    <3>1. journal[m].index < journal[work.of].index
      BY <2>2, <2>4 DEF AnswersInv
    <3> QED
      BY <1>1, <2>2, <2>3, <3>1
  <2> QED
    BY <2>1, <2>4 DEF AnswersInv, GoneOn
<1>7. CASE UNCHANGED <<journal, capsule>>
  BY <1>7 DEF AnswersInv, GoneOn
<1> QED
  <2>1. Turn!OpenJournal \/ Turn!GradeAnswer \/ Turn!Complete => UNCHANGED capsule
    BY DEF Turn!OpenJournal, Turn!GradeAnswer, Turn!Complete
  <2> QED
    BY <2>1, <1>3, <1>4, <1>5, <1>6, <1>7, TurnWriters DEF Writers

-----------------------------------------------------------------------------
(* What is written of answers. *)

LEMMA RowsAreKept ==
    ASSUME TurnShape, PlacesInv, AnswersInv, Turn!TurnsNext, NEW m \in DOMAIN journal
    PROVE  /\ m \in DOMAIN journal'
           /\ \A g : IsGradeOf(g, m) => IsGradeOf(g, m)'
           /\ \A g : IsDecisionOn(g, m) => IsDecisionOn(g, m)'
           /\ \A h : IsHeldFor(h, m) => IsHeldFor(h, m)'
           /\ \A e : IsEpisodeOf(e, m) => IsEpisodeOf(e, m)'
           /\ \A n : IsNoteOf(n, m) => IsNoteOf(n, m)'
<1>1. RowGrows(m)
  BY JournalGrows
<1>2. journal[m].complete => journal[m].complete'
  BY <1>1 DEF RowGrows
<1>3. journal[m].grade \in {None, "yes", "no", "held"}
  BY JournalIsTyped DEF AnswerRow
<1>4. QuestionOf(m)' = QuestionOf(m)
  BY <1>1 DEF RowGrows, QuestionOf
<1>5. ASSUME NEW g, IsGradeOf(g, m) PROVE IsGradeOf(g, m)'
  BY <1>1, <1>4, <1>5 DEF RowGrows, IsGradeOf
<1>6. ASSUME NEW g, IsDecisionOn(g, m) PROVE IsDecisionOn(g, m)'
  BY <1>1, <1>4, <1>6 DEF RowGrows, IsDecisionOn, None
<1>7. ASSUME NEW h, IsHeldFor(h, m) PROVE IsHeldFor(h, m)'
  BY <1>1, <1>7 DEF RowGrows, IsHeldFor, None
<1>8. ASSUME NEW e, IsEpisodeOf(e, m) PROVE IsEpisodeOf(e, m)'
  BY <1>1, <1>4, <1>8 DEF RowGrows, IsEpisodeOf
<1>9. ASSUME NEW n, IsNoteOf(n, m) PROVE IsNoteOf(n, m)'
  <2>1. journal[m].grade # None
    BY <1>9 DEF IsNoteOf, AnswersInv
  <2> QED
    BY <1>1, <1>4, <1>9, <2>1 DEF RowGrows, IsNoteOf
<1> QED
  BY <1>1, <1>5, <1>6, <1>7, <1>8, <1>9 DEF RowGrows

LEMMA LoggingGrades ==
    ASSUME TurnShape, PlacesInv, Turn!LogGrade
    PROVE  LET m == work.of
               g == Turn!Grade(<<"answer", journal[m].index>>, QuestionOf(m), journal[m].grade,
                               Turn!NoGrade, journal[m].at)
           IN  /\ m \in DOMAIN journal /\ IsGradeOf(g, m) /\ UNCHANGED journal
               /\ grades' = Turn!Logged(grades, g)
  BY DEF Turn!LogGrade, Turn!At, PlacesInv, Turn!Grade, Turn!NoGrade, Turn!J, Turn!M,
         Turn!Answered, QuestionOf, IsGradeOf, Turn!sessions

LEMMA ReleasingGrades ==
    ASSUME TurnShape, HeldInv, Turn!Release
    PROVE  /\ UNCHANGED <<journal, work>> /\ work.pc = "idle" /\ held' \subseteq held
           /\ \E m \in DOMAIN journal : \E g : IsDecisionOn(g, m) /\ grades' = Turn!Logged(grades, g)
<1>1. PICK h \in held, correct \in {"yes", "no"} :
        grades' = Turn!Logged(grades, Turn!Grade(<<"human", h.index>>, Capsule[h.index], correct,
                                                 <<"answer", h.index>>, h.at))
        /\ held' = held \ {h}
  BY DEF Turn!Release
<1>2. PICK m \in DOMAIN journal : IsHeldFor(h, m)
  BY DEF HeldInv
<1> DEFINE g == Turn!Grade(<<"human", h.index>>, Capsule[h.index], correct,
                           <<"answer", h.index>>, h.at)
<1>3. IsDecisionOn(g, m)
  BY <1>2 DEF IsHeldFor, IsDecisionOn, Turn!Grade, QuestionOf
<1> HIDE DEF g
<1> QED
  <2>1. grades' = Turn!Logged(grades, g) /\ held' \subseteq held
    BY <1>1 DEF g
  <2>2. UNCHANGED <<journal, work>> /\ work.pc = "idle"
    BY DEF Turn!Release, Turn!At, Turn!sessions
  <2> QED
    BY <1>3, <2>1, <2>2

LEMMA GradesOfSittings ==
    ASSUME Turn!GradeInSitting
    PROVE  /\ UNCHANGED journal
           /\ \E g : /\ IsOther(g) /\ g.id[1] = "study"
                     /\ grades' = Turn!Logged(grades, g)
  BY DEF Turn!GradeInSitting, Turn!Grade, Turn!NoGrade, IsOther, Turn!sessions

LEMMA GradesStep ==
    ASSUME TurnShape, PlacesInv, AnswersInv, GradesInv, HeldInv, Turn!TurnsNext
    PROVE  GradesInv'
<1> DEFINE Told(g) == IsOther(g) \/ \E m \in DOMAIN journal : IsGradeOf(g, m) \/ IsDecisionOn(g, m)
<1>1. ASSUME NEW g, Told(g) PROVE Told(g)'
  <2>1. CASE IsOther(g)
    BY <2>1 DEF IsOther
  <2>2. ASSUME NEW m \in DOMAIN journal, IsGradeOf(g, m) \/ IsDecisionOn(g, m)
        PROVE  Told(g)'
    BY <2>2, RowsAreKept
  <2> QED
    BY <1>1, <2>1, <2>2
<1>2. ASSUME NEW g, Told(g), grades' \subseteq grades \cup {g} PROVE GradesInv'
  BY <1>1, <1>2 DEF GradesInv
<1>3. \A g : Turn!Logged(grades, g) \subseteq grades \cup {g}
  BY DEF Turn!Logged
<1>4. CASE UNCHANGED grades
  BY <1>1, <1>4 DEF GradesInv
<1>5. CASE Turn!GradeInSitting
  BY <1>2, <1>3, <1>5, GradesOfSittings
<1>6. CASE Turn!LogGrade
  BY <1>2, <1>3, <1>6, LoggingGrades
<1>7. CASE Turn!Release
  BY <1>2, <1>3, <1>7, ReleasingGrades
<1> QED
  BY <1>4, <1>5, <1>6, <1>7, TurnWriters DEF Writers

LEMMA HeldStep ==
    ASSUME TurnShape, PlacesInv, AnswersInv, HeldInv, Turn!TurnsNext
    PROVE  HeldInv'
<1>1. ASSUME NEW h, NEW m \in DOMAIN journal, IsHeldFor(h, m)
      PROVE  \E k \in DOMAIN journal' : IsHeldFor(h, k)'
  BY <1>1, RowsAreKept
<1>2. CASE held' \subseteq held
  BY <1>1, <1>2 DEF HeldInv
<1>3. CASE Turn!HoldGrade
  <2> DEFINE h == [of |-> work.of, index |-> journal[work.of].index, at |-> journal[work.of].at]
  <2>1. work.of \in DOMAIN journal /\ IsHeldFor(h, work.of)
    BY <1>3 DEF Turn!HoldGrade, Turn!At, PlacesInv, IsHeldFor
  <2>2. held' = held \cup {h}
    BY <1>3 DEF Turn!HoldGrade, Turn!J, Turn!M
  <2> HIDE DEF h
  <2> QED
    BY <1>1, <2>1, <2>2 DEF HeldInv
<1> QED
  BY <1>2, <1>3, ReleasingGrades, TurnWriters DEF Writers

LEMMA LogsStay ==
    ASSUME TurnShape, PlacesInv, AnswersInv, HeldInv, Turn!TurnsNext,
           NEW m \in DOMAIN journal, IsLogged(m)
    PROVE  IsLogged(m)'
<1>1. PICK g \in grades : IsGradeOf(g, m)
  BY DEF IsLogged
<1>2. m \in DOMAIN journal' /\ IsGradeOf(g, m)'
  BY <1>1, RowsAreKept
<1>3. ASSUME NEW o, grades' = Turn!Logged(grades, o), o.id # g.id PROVE g \in grades'
  BY <1>1, <1>3 DEF Turn!Logged
<1>4. g.id[1] = "answer"
  BY <1>1 DEF IsGradeOf
<1>5. CASE UNCHANGED grades
  BY <1>1, <1>2, <1>5 DEF IsLogged
<1>6. CASE Turn!GradeInSitting
  BY <1>2, <1>3, <1>4, <1>6, GradesOfSittings DEF IsLogged
<1>7. CASE Turn!Release
  <2>1. PICK o : /\ \E k \in DOMAIN journal : IsDecisionOn(o, k)
                 /\ grades' = Turn!Logged(grades, o)
    BY <1>7, ReleasingGrades
  <2>2. o.id[1] = "human"
    BY <2>1 DEF IsDecisionOn
  <2> QED
    BY <1>2, <1>3, <1>4, <2>1, <2>2 DEF IsLogged
<1>8. CASE Turn!LogGrade
  <2>1. PICK o : /\ work.of \in DOMAIN journal /\ IsGradeOf(o, work.of) /\ UNCHANGED journal
                 /\ grades' = Turn!Logged(grades, o)
    BY <1>8, LoggingGrades
  <2>2. CASE m = work.of
    <3>1. o \in grades'
      BY <2>1 DEF Turn!Logged
    <3>2. IsGradeOf(o, m)'
      BY <2>1, <2>2, RowsAreKept
    <3> QED
      BY <3>1, <3>2 DEF IsLogged
  <2>3. CASE m # work.of
    <3>1. journal[m].index # journal[work.of].index
      BY <2>1, <2>3 DEF AnswersInv
    <3>2. o.id # g.id
      BY <1>1, <2>1, <3>1 DEF IsGradeOf
    <3> QED
      BY <1>2, <1>3, <2>1, <3>2 DEF IsLogged
  <2> QED
    BY <2>2, <2>3
<1> QED
  BY <1>5, <1>6, <1>7, <1>8, TurnWriters DEF Writers

LEMMA LoggedStep ==
    ASSUME TurnShape, PlacesInv, AnswersInv, HeldInv, LoggedInv, Turn!TurnsNext
    PROVE  LoggedInv'
<1>1. ASSUME NEW m \in DOMAIN journal', journal'[m].complete PROVE m \in DOMAIN journal /\ IsLogged(m)
  <2>1. CASE UNCHANGED journal
    BY <1>1, <2>1 DEF LoggedInv
  <2>2. CASE Turn!OpenJournal
    BY <1>1, <2>2, OpeningAnswers DEF LoggedInv
  <2>3. CASE Turn!GradeAnswer
    BY <1>1, <2>3, GradingAnswers DEF LoggedInv
  <2>4. CASE Turn!Complete
    BY <1>1, <2>4, CompletingAnswers DEF LoggedInv
  <2> QED
    BY <2>1, <2>2, <2>3, <2>4, TurnWriters DEF Writers
<1> QED
  BY <1>1, LogsStay DEF LoggedInv

LEMMA GradedStays ==
    ASSUME TurnShape, PlacesInv, AnswersInv, GradesInv, HeldInv, Turn!TurnsNext,
           NEW item, WasGraded(item)
    PROVE  WasGraded(item)'
<1>1. PICK g \in grades : g.id[1] = "answer" /\ g.item = item
  BY DEF WasGraded
<1>2. ASSUME NEW o, grades' = Turn!Logged(grades, o), o.id # g.id PROVE WasGraded(item)'
  BY <1>1, <1>2 DEF Turn!Logged, WasGraded
<1>3. CASE UNCHANGED grades
  BY <1>1, <1>3 DEF WasGraded
<1>4. CASE Turn!GradeInSitting
  BY <1>1, <1>2, <1>4, GradesOfSittings
<1>5. CASE Turn!Release
  <2>1. PICK o : /\ \E k \in DOMAIN journal : IsDecisionOn(o, k)
                 /\ grades' = Turn!Logged(grades, o)
    BY <1>5, ReleasingGrades
  <2>2. o.id[1] = "human"
    BY <2>1 DEF IsDecisionOn
  <2> QED
    BY <1>1, <1>2, <2>1, <2>2
<1>6. CASE Turn!LogGrade
  <2>1. PICK o : /\ work.of \in DOMAIN journal /\ IsGradeOf(o, work.of)
                 /\ grades' = Turn!Logged(grades, o)
    BY <1>6, LoggingGrades
  <2>2. CASE o.id = g.id
    <3>1. PICK m \in DOMAIN journal : IsGradeOf(g, m)
      BY <1>1 DEF GradesInv, IsOther, IsDecisionOn
    <3>2. o.item = item /\ o.id[1] = "answer"
      BY <1>1, <2>1, <2>2, <3>1 DEF IsGradeOf, QuestionOf
    <3> QED
      BY <2>1, <3>2 DEF Turn!Logged, WasGraded
  <2> QED
    BY <1>2, <2>1, <2>2
<1> QED
  BY <1>3, <1>4, <1>5, <1>6, TurnWriters DEF Writers

LEMMA EpisodesStayTrue ==
    ASSUME TurnShape, PlacesInv, AnswersInv, Turn!TurnsNext, NEW rows, EpisodesRepeat(rows)
    PROVE  \A e \in rows : e.session = "capsule" => \E m \in DOMAIN journal' : IsEpisodeOf(e, m)'
  BY RowsAreKept DEF EpisodesRepeat

LEMMA EpisodesStep ==
    ASSUME TurnShape, PlacesInv, AnswersInv, EpisodesRepeat(episodes), Turn!TurnsNext
    PROVE  EpisodesRepeat(episodes)'
<1>1. CASE UNCHANGED episodes
  BY <1>1, EpisodesStayTrue DEF EpisodesRepeat
<1>2. CASE Turn!EpisodeInSitting
  <2>1. PICK e : e.session = "sitting" /\ episodes' = episodes \cup {e}
    BY <1>2 DEF Turn!EpisodeInSitting
  <2> QED
    BY <2>1, EpisodesStayTrue DEF EpisodesRepeat
<1>3. CASE Turn!LogEpisode
  <2>1. work.of \in DOMAIN journal /\ journal[work.of].grade # None
    BY <1>3 DEF Turn!LogEpisode, Turn!At, PlacesInv
  <2>2. PICK e : IsEpisodeOf(e, work.of) /\ episodes' = episodes \cup {e}
    BY <1>3, <2>1 DEF Turn!LogEpisode, Turn!J, Turn!M, Turn!Answered, QuestionOf, IsEpisodeOf
  <2>3. \E m \in DOMAIN journal' : IsEpisodeOf(e, m)'
    BY <2>1, <2>2, RowsAreKept
  <2> QED
    BY <2>2, <2>3, EpisodesStayTrue DEF EpisodesRepeat
<1> QED
  BY <1>1, <1>2, <1>3, TurnWriters DEF Writers

LEMMA NotesStayTrue ==
    ASSUME TurnShape, PlacesInv, AnswersInv, Turn!TurnsNext, NEW rows, NotesRepeat(rows)
    PROVE  \A n \in rows : n.correct # None => \E m \in DOMAIN journal' : IsNoteOf(n, m)'
  BY RowsAreKept DEF NotesRepeat

LEMMA NotesStep ==
    ASSUME TurnShape, PlacesInv, AnswersInv, NotesRepeat(notes), Turn!TurnsNext
    PROVE  NotesRepeat(notes)'
<1>1. CASE UNCHANGED notes
  BY <1>1, NotesStayTrue DEF NotesRepeat
<1> DEFINE Same(n, o) == /\ n.session = o.session /\ n.of = o.of /\ n.intent = o.intent
                         /\ n.item = o.item /\ n.correct = o.correct
<1>2. ASSUME NEW n, NEW o, Same(n, o), NEW m, IsNoteOf(n, m)' PROVE IsNoteOf(o, m)'
  BY <1>2 DEF IsNoteOf, QuestionOf
<1>3. CASE Turn!ClearOne
  <2>1. PICK n \in notes : notes' = (notes \ {n}) \cup
                             {[n EXCEPT !.words = FALSE, !.expires = now + Retention]}
    BY <1>3 DEF Turn!ClearOne, Turn!WordsOf
  <2>2. Same(n, [n EXCEPT !.words = FALSE, !.expires = now + Retention])
    BY DEF TurnShape, NoteField
  <2>3. PICK o : notes' = (notes \ {n}) \cup {o} /\ Same(n, o)
    BY <2>1, <2>2
  <2>4. o.correct # None => \E m \in DOMAIN journal' : IsNoteOf(o, m)'
    <3>1. n.correct # None => \E m \in DOMAIN journal' : IsNoteOf(n, m)'
      BY NotesStayTrue
    <3> QED
      BY <1>2, <2>3, <3>1
  <2> QED
    BY <2>3, <2>4, NotesStayTrue DEF NotesRepeat
<1>4. CASE Turn!Remember
  <2> DEFINE kept == [work.note EXCEPT !.at = Turn!Stamp, !.expires = now + Retention]
  <2>1. Same(work.note, kept)
    BY DEF TurnShape, NoteField
  <2>2. notes' = {n \in notes : n.session # kept.session \/ n.of # work.of} \cup {kept}
    BY <1>4 DEF Turn!Remember, Turn!M
  <2> HIDE DEF kept
  <2>3. PICK o : /\ notes' = {n \in notes : n.session # o.session \/ n.of # work.of} \cup {o}
                 /\ Same(work.note, o)
    BY <2>1, <2>2
  <2>4. o.of = work.of
    BY <1>4, <2>3 DEF Turn!Remember, Turn!At, PlacesInv
  <2>5. o.correct # None => \E m \in DOMAIN journal' : IsNoteOf(o, m)'
    <3>1. ASSUME o.correct # None PROVE work.of \in DOMAIN journal /\ IsNoteOf(work.note, work.of)
      BY <1>4, <2>3, <3>1 DEF Turn!Remember, Turn!At, PlacesInv
    <3> QED
      BY <1>2, <2>3, <3>1, RowsAreKept
  <2> QED
    BY <2>3, <2>4, <2>5, NotesStayTrue DEF NotesRepeat
<1> QED
  BY <1>1, <1>3, <1>4, TurnWriters DEF Writers

-----------------------------------------------------------------------------
(* What the handler knows. *)

LEMMA MovesOn ==
    ASSUME TurnShape, NEW where, Turn!Goto(where)
    PROVE  /\ work'.pc = where /\ work'.of = work.of /\ work'.then = work.then
           /\ work'.closing = work.closing /\ work'.note = work.note
           /\ work'.sitting = work.sitting /\ work'.context = work.context
<1>1. DOMAIN work = WorkField
  BY DEF TurnShape
<1> QED
  BY <1>1, GotoMoves DEF Keeps, WorkField

\* Steps of no answer, after which the handler stands elsewhere.
TurnsAside ==
    \/ Turn!HoldUnsafe \/ Turn!BlockAnswer \/ Turn!GradeInSitting \/ Turn!EpisodeInSitting
    \/ Turn!UnreadInSitting \/ Turn!NotUnderstood \/ Turn!Nothing \/ Turn!Raise
    \/ Turn!Prepare \/ Turn!Finish \/ Turn!Crash \/ Turn!AnswerSitting

TurnsToClose == Turn!Sweep \/ Turn!CloseSitting \/ Turn!RaiseAlarm \/ Turn!Serve

TurnsToNote == Turn!Talk \/ Turn!Explain \/ Turn!TalkInSitting \/ Turn!ExplainInSitting

TurnsInAnswer ==
    \/ Turn!OpenJournal \/ Turn!Pass \/ Turn!GradeAnswer \/ Turn!LogGrade \/ Turn!LogEpisode
    \/ Turn!HoldGrade \/ Turn!Advance \/ Turn!Complete \/ Turn!Told

Stands == Turn!Tick \/ Turn!OpenBox \/ Turn!SendOne \/ Turn!Release

LEMMA Kinds ==
    Turn!TurnsNext =>
        \/ TurnsAside \/ TurnsToClose \/ TurnsToNote \/ TurnsInAnswer \/ Stands
        \/ Turn!ClearOne \/ Turn!Cleared \/ Turn!PutSitting
        \/ Turn!Remember \/ Turn!AnswerIsRemembered \/ Turn!LogSave
        \/ \E m \in Text : Turn!Take(m)
  BY DEF Turn!TurnsNext, TurnsAside, TurnsToClose, TurnsToNote, TurnsInAnswer, Stands

PutsAgain ==
    /\ DOMAIN work' = WorkField /\ work'.pc = "put" /\ work'.then = "prepare"
    /\ "status" \in DOMAIN work'.sitting /\ work'.sitting.status = sitting.status
    /\ Keeps({"of", "note", "context"})

LEMMA KindsMove ==
    ASSUME TurnShape
    PROVE  /\ TurnsAside => StepsAside
           /\ TurnsToClose =>
                /\ UNCHANGED <<sitting, notes, journal>>
                /\ StepsAside \/ BeginsClosing \/ PutsAgain
           /\ TurnsToNote =>
                /\ UNCHANGED <<sitting, journal>>
                /\ \E context : NotesInCapsule(context) \/ NotesInSitting(context)
           /\ Stands => UNCHANGED <<work, sitting, notes, journal>>
<1>1. TurnsAside => StepsAside
  BY AsideSteps, AnswerSittingSteps DEF TurnsAside
<1>2. TurnsToClose => UNCHANGED <<sitting, notes, journal>>
  BY DEF TurnsToClose, Turn!Sweep, Turn!CloseSitting, Turn!RaiseAlarm, Turn!Serve,
         Turn!sessions, Turn!memory
<1>3. TurnsToClose => StepsAside \/ BeginsClosing \/ PutsAgain
  BY SweepCloses, AlarmSteps, ServeSteps DEF TurnsToClose, PutsAgain
<1>4. TurnsToNote => UNCHANGED <<sitting, journal>>
  BY DEF TurnsToNote, Turn!Talk, Turn!Explain, Turn!TalkInSitting, Turn!ExplainInSitting,
         Turn!sessions
<1>5. TurnsToNote => \E context : NotesInCapsule(context) \/ NotesInSitting(context)
  BY NotingSteps DEF TurnsToNote
<1>6. Stands => UNCHANGED <<work, sitting, notes, journal>>
  BY DEF Stands, Turn!Tick, Turn!OpenBox, Turn!SendOne, Turn!Release, Turn!sessions, Turn!memory
<1> QED
  BY <1>1, <1>2, <1>3, <1>4, <1>5, <1>6

LEMMA PlacesStep ==
    ASSUME TurnShape, WordsInv, PlacesInv, AnswersInv, HeldInv, Turn!TurnsNext
    PROVE  PlacesInv'
<1>1. CASE StepsAside
  BY <1>1 DEF StepsAside, Aside, PlacesInv
<1>2. CASE TurnsToClose
  <2>1. journal' = journal /\ (StepsAside \/ BeginsClosing \/ PutsAgain)
    BY <1>2, KindsMove
  <2> QED
    BY <1>1, <2>1 DEF BeginsClosing, PutsAgain, PlacesInv, Keeps
<1>3. CASE TurnsToNote
  BY <1>3, KindsMove DEF NotesInCapsule, NotesInSitting, NotesATurn, PlacesInv, Keeps, None
<1>4. CASE Stands
  <2>1. work' = work /\ journal' = journal
    BY <1>4, KindsMove
  <2>2. capsule' = capsule
    BY <1>4 DEF Stands, Turn!Tick, Turn!OpenBox, Turn!SendOne, Turn!Release, Turn!sessions
  <2>3. work.of \in DOMAIN journal /\ IsLogged(work.of) => IsLogged(work.of)'
    BY <2>1, LogsStay
  <2>4. work.of \in DOMAIN journal => (IsNoteOf(work.note, work.of) => IsNoteOf(work.note, work.of)')
    BY <2>1 DEF IsNoteOf, QuestionOf
  <2> QED
    BY <2>1, <2>2, <2>3, <2>4 DEF PlacesInv, GoneOn
<1>5. CASE Turn!Cleared
  BY <1>5, MovesOn DEF Turn!Cleared, Turn!At, PlacesInv, Turn!sessions
<1>6. CASE Turn!PutSitting
  <2>1. work.then \in {"route", "prepare"} /\ journal' = journal /\ work.pc = "put"
    BY <1>6 DEF Turn!PutSitting, WordsInv, Turn!At
  <2>2. work'.pc = work.then /\ work'.of = work.of
    BY <1>6, MovesOn DEF Turn!PutSitting
  <2> QED
    BY <2>1, <2>2 DEF PlacesInv
<1>7. CASE Turn!Remember
  <2>1. work.pc = "remember" /\ work.note.of = work.of
    BY <1>7 DEF Turn!Remember, PlacesInv, Turn!At
  <2>2. work'.pc = "remembered" /\ work'.of = work.of
    BY <1>7, PutMoves DEF Keeps
  <2>3. work'.note.of = work.note.of
    BY <1>7 DEF Turn!Remember, TurnShape, WorkField, NoteField
  <2> QED
    BY <2>1, <2>2, <2>3 DEF PlacesInv
<1>11. CASE Turn!ClearOne
  <2>1. work.pc = "clear" /\ journal' = journal
    BY <1>11 DEF Turn!ClearOne, Turn!At, Turn!sessions
  <2>2. work'.pc = "cleared" /\ work'.of = work.of /\ work'.then = work.then
    BY <1>11, PutMoves DEF Keeps
  <2> QED
    BY <2>1, <2>2 DEF PlacesInv
<1>12. CASE Turn!LogSave
  <2>1. /\ journal' = journal /\ work'.of = work.of /\ work'.then = work.then
        /\ work'.pc = IF work.pc = "cleared" THEN "clear" ELSE work.then
        /\ work.pc \in {"cleared", "remembered"}
    BY <1>12, MovesOn DEF Turn!LogSave, Turn!At, Turn!sessions
  <2>2. work.pc = "remembered" => work.then \in {"clear", "prepare"}
    BY DEF WordsInv
  <2> QED
    BY <2>1, <2>2 DEF PlacesInv
<1>8. CASE Turn!AnswerIsRemembered
  <2>1. journal' = journal /\ work.of \in DOMAIN journal /\ journal[work.of].complete
    BY <1>8 DEF Turn!AnswerIsRemembered, Turn!At, PlacesInv, Turn!sessions
  <2>2. ASSUME /\ work'.pc = "remember" /\ Keeps({"of", "sitting", "context"})
               /\ work'.note.session = "capsule" /\ work'.note.of = work.of
               /\ work'.note.intent = "answer" /\ work'.note.item = QuestionOf(work.of)
               /\ work'.note.correct = Turn!Verdict(journal[work.of].grade)
        PROVE  PlacesInv'
    <3>1. work'.of = work.of
      BY <2>2 DEF Keeps
    <3> QED
      BY <2>1, <2>2, <3>1 DEF PlacesInv, IsNoteOf, QuestionOf
  <2> QED
    BY <1>1, <1>8, <2>2, AnswerNoteSteps
<1>9. CASE \E m \in Text : Turn!Take(m)
  <2>1. journal' = journal
    BY <1>9 DEF Turn!Take, Turn!sessions
  <2> QED
    BY <1>9, <2>1, TakeSteps DEF PlacesInv
<1>10. CASE TurnsInAnswer
  <2>1. CASE Turn!OpenJournal
    <3>1. work'.pc = "grade" /\ work'.of = work.of
      BY <2>1, MovesOn DEF Turn!OpenJournal
    <3> QED
      BY <2>1, <3>1, OpeningAnswers DEF PlacesInv
  <2>2. CASE Turn!GradeAnswer
    <3>1. work'.pc = "log" /\ work'.of = work.of
      BY <2>2, MovesOn DEF Turn!GradeAnswer
    <3> QED
      BY <2>2, <3>1, GradingAnswers DEF PlacesInv
  <2>3. CASE Turn!LogGrade
    <3>1. work'.pc = "episode" /\ work'.of = work.of /\ work.pc = "log" /\ journal' = journal
      BY <2>3, MovesOn DEF Turn!LogGrade, Turn!At, Turn!sessions
    <3>2. PICK g : /\ work.of \in DOMAIN journal /\ IsGradeOf(g, work.of)
                   /\ grades' = Turn!Logged(grades, g)
      BY <2>3, LoggingGrades
    <3>3. g \in grades' /\ IsGradeOf(g, work.of)'
      BY <3>1, <3>2 DEF Turn!Logged, IsGradeOf, QuestionOf
    <3>4. IsLogged(work.of)'
      BY <3>1, <3>3 DEF IsLogged, IsGradeOf, QuestionOf
    <3> QED
      BY <3>1, <3>4 DEF PlacesInv
  <2>4. CASE Turn!LogEpisode
    <3>1. work.pc = "episode" /\ UNCHANGED <<journal, grades>> /\ work'.of = work.of
      BY <2>4, MovesOn DEF Turn!LogEpisode, Turn!At, Turn!sessions
    <3>2. work'.pc = IF journal[work.of].grade = "held" THEN "hold" ELSE "advance"
      BY <2>4, MovesOn DEF Turn!LogEpisode, Turn!J, Turn!M
    <3>3. IsLogged(work.of)'
      BY <3>1, LogsStay DEF PlacesInv
    <3> QED
      BY <3>1, <3>2, <3>3 DEF PlacesInv
  <2>5. CASE Turn!HoldGrade
    <3>1. work.pc = "hold" /\ UNCHANGED <<journal, grades>> /\ work'.of = work.of
          /\ work'.pc = "advance"
      BY <2>5, MovesOn DEF Turn!HoldGrade, Turn!At, Turn!sessions
    <3>2. IsLogged(work.of)'
      BY <3>1, LogsStay DEF PlacesInv
    <3> QED
      BY <3>1, <3>2 DEF PlacesInv
  <2>6. CASE Turn!Advance
    <3>1. work.pc = "advance" /\ UNCHANGED journal /\ work'.of = work.of
          /\ work'.pc = "complete"
      BY <2>6, MovesOn DEF Turn!Advance, Turn!At
    <3>2. work.of \in DOMAIN journal /\ IsLogged(work.of)'
      BY <3>1, LogsStay DEF PlacesInv
    <3>3. GoneOn(work.of)'
      <4>1. journal[work.of].index \in Nat
        BY <3>2, JournalIsTyped, CapsuleBounds DEF AnswerRow
      <4> QED
        BY <2>6, <3>1, <4>1, AdvanceMoves DEF GoneOn
    <3> QED
      BY <3>1, <3>2, <3>3 DEF PlacesInv
  <2>7. CASE Turn!Complete
    <3>1. work'.pc = "feedback" /\ work'.of = work.of
      BY <2>7, MovesOn DEF Turn!Complete
    <3> QED
      BY <2>7, <3>1, CompletingAnswers DEF PlacesInv
  <2>9. CASE Turn!Pass
    <3>1. /\ work.pc = "screen" /\ UNCHANGED journal /\ work'.of = work.of
          /\ work'.pc = IF journal[work.of].complete THEN "feedback" ELSE "grade"
      BY <2>9, MovesOn DEF Turn!Pass, Turn!At, Turn!M, Turn!sessions
    <3> QED
      BY <3>1 DEF PlacesInv
  <2>8. CASE Turn!Told
    <3>1. work.pc = "feedback" /\ UNCHANGED journal /\ work'.of = work.of /\ work'.pc = "told"
      BY <2>8, MovesOn DEF Turn!Told, Turn!At, Turn!sessions
    <3> QED
      BY <3>1 DEF PlacesInv
  <2> QED
    BY <1>10, <2>1, <2>2, <2>3, <2>4, <2>5, <2>6, <2>7, <2>8, <2>9 DEF TurnsInAnswer
<1> QED
  BY <1>1, <1>2, <1>3, <1>4, <1>5, <1>6, <1>7, <1>8, <1>9, <1>10, <1>11, <1>12, Kinds, KindsMove

LEMMA WordsStep ==
    ASSUME TurnShape, WordsInv, PlacesInv, Turn!TurnsNext
    PROVE  WordsInv'
<1>1. ASSUME UNCHANGED <<sitting, notes>> PROVE ClosedSittingKeepsNoWords' /\ (Wordless => Wordless')
  BY <1>1 DEF WordsInv, ClosedSittingKeepsNoWords, Wordless
<1>2. CASE TurnsAside \/ TurnsInAnswer \/ Turn!AnswerIsRemembered \/ \E m \in Text : Turn!Take(m)
  <2>1. UNCHANGED <<sitting, notes>>
    BY <1>2 DEF TurnsAside, TurnsInAnswer, Turn!HoldUnsafe, Turn!BlockAnswer, Turn!Pass, Turn!GradeInSitting,
       Turn!EpisodeInSitting, Turn!UnreadInSitting, Turn!NotUnderstood, Turn!Nothing, Turn!Raise,
       Turn!Prepare, Turn!Finish, Turn!Crash, Turn!AnswerSitting, Turn!OpenJournal,
       Turn!GradeAnswer, Turn!LogGrade, Turn!LogEpisode, Turn!HoldGrade, Turn!Advance,
       Turn!Complete, Turn!Told, Turn!AnswerIsRemembered, Turn!Take, Turn!sessions, Turn!memory
  <2>2. \/ work'.pc \in Aside \cup {"grade", "log", "episode", "hold", "advance", "complete",
                                   "feedback", "told", "screen", "route"}
        \/ /\ work'.pc = "remember" /\ work'.closing = "capsule"
           /\ work'.then \in {"clear", "prepare"} /\ work'.note.session = "capsule"
    <3>1. TurnsAside => work'.pc \in Aside
      BY KindsMove DEF StepsAside
    <3>2. TurnsInAnswer =>
            work'.pc \in {"grade", "log", "episode", "hold", "advance", "complete", "feedback", "told"}
      BY MovesOn DEF TurnsInAnswer, Turn!OpenJournal, Turn!Pass, Turn!GradeAnswer, Turn!LogGrade,
         Turn!LogEpisode, Turn!HoldGrade, Turn!Advance, Turn!Complete, Turn!Told
    <3>3. Turn!AnswerIsRemembered =>
            \/ work'.pc \in Aside
            \/ /\ work'.pc = "remember" /\ work'.closing = "capsule"
               /\ work'.then \in {"clear", "prepare"} /\ work'.note.session = "capsule"
      BY AnswerNoteSteps DEF StepsAside
    <3>4. ASSUME NEW m \in Text, Turn!Take(m)
          PROVE  work'.pc \in {"finish", "screen", "route"}
      BY <3>4, TakeSteps
    <3> QED
      BY <1>2, <3>1, <3>2, <3>3, <3>4 DEF Aside
  <2> QED
    BY <1>1, <2>1, <2>2 DEF WordsInv, Aside
<1>3. CASE TurnsToClose
  <2>1. UNCHANGED <<sitting, notes>> /\ (StepsAside \/ BeginsClosing \/ PutsAgain)
    BY <1>3, KindsMove
  <2>2. CASE StepsAside
    BY <1>1, <2>1, <2>2 DEF StepsAside, Aside, WordsInv
  <2>3. CASE BeginsClosing
    BY <1>1, <2>1, <2>3 DEF BeginsClosing, WordsInv
  <2>4. CASE PutsAgain
    BY <1>1, <2>1, <2>4 DEF PutsAgain, WordsInv, ClosedSittingKeepsNoWords, Wordless
  <2> QED
    BY <2>1, <2>2, <2>3, <2>4
<1>4. CASE TurnsToNote
  <2>1. UNCHANGED <<sitting, notes>>
    BY <1>4 DEF TurnsToNote, Turn!Talk, Turn!Explain, Turn!TalkInSitting, Turn!ExplainInSitting,
                Turn!sessions, Turn!memory
  <2> QED
    BY <1>1, <1>4, <2>1, KindsMove DEF NotesInCapsule, NotesInSitting, NotesATurn, WordsInv
<1>5. CASE Stands
  <2>1. UNCHANGED <<work, sitting, notes>>
    BY <1>5, KindsMove
  <2> QED
    BY <1>1, <2>1 DEF WordsInv
<1>9. CASE Turn!ClearOne
  <2>1. sitting' = sitting /\ work.pc = "clear"
    BY <1>9 DEF Turn!ClearOne, Turn!At, Turn!sessions
  <2>2. work'.pc = "cleared" /\ work'.closing = work.closing /\ work'.then = work.then
    BY <1>9, PutMoves DEF Keeps
  <2>3. PICK n \in notes : notes' = (notes \ {n}) \cup
                             {[n EXCEPT !.words = FALSE, !.expires = now + Retention]}
    BY <1>9 DEF Turn!ClearOne, Turn!WordsOf
  <2>4. ~[n EXCEPT !.words = FALSE, !.expires = now + Retention].words
    BY <2>3 DEF TurnShape, NoteField
  <2>5. ClosedSittingKeepsNoWords'
    BY <2>1, <2>3, <2>4 DEF WordsInv, ClosedSittingKeepsNoWords
  <2> QED
    BY <2>1, <2>2, <2>5 DEF WordsInv
<1>10. CASE Turn!LogSave
  <2>1. /\ UNCHANGED <<sitting, notes>> /\ work'.closing = work.closing /\ work'.then = work.then
        /\ work'.pc = IF work.pc = "cleared" THEN "clear" ELSE work.then
        /\ work.pc \in {"cleared", "remembered"}
    BY <1>10, MovesOn DEF Turn!LogSave, Turn!At, Turn!sessions
  <2> QED
    BY <1>1, <2>1 DEF WordsInv
<1>6. CASE Turn!Cleared
  <2>1. UNCHANGED <<sitting, notes>> /\ work.pc = "clear"
    BY <1>6 DEF Turn!Cleared, Turn!sessions, Turn!memory, Turn!At
  <2>2. CASE work.closing = "sitting"
    <3>1. work'.pc = "put" /\ work'.then = work.then
      BY <1>6, <2>2, MovesOn DEF Turn!Cleared
    <3>2. Wordless
      BY <1>6, <2>2 DEF Turn!Cleared, Turn!WordsOf, Wordless
    <3> QED
      BY <1>1, <2>1, <2>2, <3>1, <3>2 DEF WordsInv
  <2>3. CASE work.closing # "sitting"
    BY <1>1, <1>6, <2>1, <2>3, MovesOn DEF Turn!Cleared, WordsInv
  <2> QED
    BY <2>2, <2>3
<1>7. CASE Turn!PutSitting
  <2>1. work.pc = "put" /\ work.then \in {"route", "prepare"} /\ notes' = notes
    BY <1>7 DEF Turn!PutSitting, Turn!At, WordsInv, Turn!memory
  <2>2. work'.pc = work.then
    BY <1>7, MovesOn DEF Turn!PutSitting
  <2>3. sitting'.status = work.sitting.status
    BY <1>7 DEF Turn!PutSitting, TurnShape
  <2> QED
    BY <2>1, <2>2, <2>3 DEF WordsInv, ClosedSittingKeepsNoWords, Wordless
<1>8. CASE Turn!Remember
  <2>1. work.pc = "remember" /\ sitting' = sitting
    BY <1>8 DEF Turn!Remember, Turn!At, Turn!sessions
  <2>2. work'.pc = "remembered" /\ work'.closing = work.closing /\ work'.then = work.then
    BY <1>8, PutMoves DEF Keeps
  <2>3. ClosedSittingKeepsNoWords'
    <3>1. \A n \in notes' : n \in notes \/ n.session = work.note.session
      BY <1>8 DEF Turn!Remember, TurnShape, NoteField
    <3> QED
      BY <2>1, <3>1 DEF WordsInv, ClosedSittingKeepsNoWords
  <2> QED
    BY <2>1, <2>2, <2>3 DEF WordsInv
<1> QED
  BY <1>2, <1>3, <1>4, <1>5, <1>6, <1>7, <1>8, <1>9, <1>10, Kinds

-----------------------------------------------------------------------------
(* Keys and pages. *)

LEMMA ContextMoves ==
    ASSUME TurnShape, PlacesInv, Turn!TurnsNext
    PROVE  \/ work'.context = work.context \/ ~work'.context.key
           \/ work'.context = Turn!ExplainContext(capsule, Turn!FocusIndex(capsule, Len(Capsule)),
                Turn!InFocus, notes, Turn!CapsuleWindow)
<1> DEFINE Kept == work'.context = work.context \/ ~work'.context.key
<1>1. StepsAside => Kept
  BY IdleHolds DEF StepsAside, Keeps
<1>2. TurnsToClose => Kept
  BY <1>1, KindsMove DEF BeginsClosing, PutsAgain, Keeps
<1>3. Turn!Talk \/ Turn!TalkInSitting \/ Turn!ExplainInSitting => Kept
  BY NotingSteps DEF NotesInCapsule, NotesInSitting, NotesATurn, Turn!NoContext, Turn!StudyContext
<1>4. Turn!Explain => work'.context = Turn!ExplainContext(capsule,
          Turn!FocusIndex(capsule, Len(Capsule)), Turn!InFocus, notes, Turn!CapsuleWindow)
  BY NotingSteps DEF NotesInCapsule, NotesATurn
<1>5. TurnsInAnswer => Kept
  BY MovesOn DEF TurnsInAnswer, Turn!OpenJournal, Turn!Pass, Turn!GradeAnswer, Turn!LogGrade,
     Turn!LogEpisode, Turn!HoldGrade, Turn!Advance, Turn!Complete, Turn!Told
<1>6. Stands => Kept
  BY KindsMove
<1>7. Turn!Cleared \/ Turn!PutSitting \/ Turn!LogSave => Kept
  BY MovesOn DEF Turn!Cleared, Turn!PutSitting, Turn!LogSave
<1>11. Turn!ClearOne \/ Turn!Remember => Kept
  BY PutMoves DEF Keeps
<1>8. Turn!AnswerIsRemembered => Kept
  BY <1>1, AnswerNoteSteps DEF Keeps
<1>9. (\E m \in Text : Turn!Take(m)) => Kept
  BY TakeSteps
<1>10. TurnsAside => Kept
  BY <1>1, KindsMove
<1> QED
  BY <1>2, <1>3, <1>4, <1>5, <1>6, <1>7, <1>8, <1>9, <1>10, <1>11, Kinds DEF TurnsToNote

LEMMA KeysOfContexts ==
    ASSUME NEW session, NEW index, NEW item, NEW remembered, NEW window,
           Turn!ExplainContext(session, index, item, remembered, window).key
    PROVE  index < session.index \/ session.status = "completed"
<1>1. Turn!WasAnswered(session, index)
  BY Zenon DEF Turn!ExplainContext
<1> QED
  BY <1>1 DEF Turn!WasAnswered

LEMMA KeyStep ==
    ASSUME TurnShape, PlacesInv, AnswersInv, GradesInv, HeldInv, KeyInv, Turn!TurnsNext
    PROVE  KeyInv'
<1> USE GradedStays
<1>1. capsule.index \in 1..Len(Capsule) /\ Len(Capsule) \in Nat
  BY CapsuleBounds DEF TurnShape, SessionRow
<1>2. work.context.key => WasGraded(work.context.item)
  BY DEF KeyInv, KeyAfterAnswer, WasGraded
<1>3. ASSUME work'.context = Turn!ExplainContext(capsule,
               Turn!FocusIndex(capsule, Len(Capsule)), Turn!InFocus, notes, Turn!CapsuleWindow),
             work'.context.key
      PROVE  WasGraded(work'.context.item)
  <2>1. Turn!FocusIndex(capsule, Len(Capsule)) = capsule.index
    BY <1>1 DEF Turn!FocusIndex
  <2>2. capsule.index < capsule.index \/ capsule.status = "completed"
    BY <1>3, <2>1, KeysOfContexts
  <2>3. capsule.status = "completed"
    BY <1>1, <2>2
  <2> QED
    BY <1>3, <2>1, <2>3 DEF Turn!ExplainContext, Turn!InFocus, KeyInv
<1>4. ASSUME work'.context.key PROVE WasGraded(work'.context.item)
  BY <1>2, <1>3, <1>4, ContextMoves
<1>5. KeyAfterAnswer'
  <2>1. SUFFICES ASSUME work'.context.key
                 PROVE  \E g \in grades' : g.id[1] = "answer" /\ g.item = work'.context.item
    BY DEF KeyAfterAnswer
  <2>2. PICK item : item = work'.context.item
    OBVIOUS
  <2>3. WasGraded(item)'
    BY <1>4, <2>1, <2>2
  <2> QED
    BY <2>2, <2>3 DEF WasGraded
<1>6. CASE UNCHANGED capsule
  BY <1>5, <1>6 DEF KeyInv
<1>7. CASE Turn!Advance
  <2>1. work.of \in DOMAIN journal /\ IsLogged(work.of) /\ grades' = grades
    BY <1>7 DEF Turn!Advance, Turn!At, PlacesInv, Turn!record
  <2>2. WasGraded(QuestionOf(work.of))
    BY <2>1 DEF IsLogged, IsGradeOf, WasGraded
  <2> QED
    BY <1>5, <1>7, <2>1, <2>2, AdvanceMoves DEF KeyInv, WasGraded, QuestionOf
<1> QED
  BY <1>6, <1>7, TurnWriters DEF Writers

\* A grade has the moment of its sitting or of the answer it is of.
LEMMA DatesStep ==
    ASSUME TurnShape, PlacesInv, DatesInv, Turn!TurnsNext, UNCHANGED page
    PROVE  DatesInv'
<1>1. ASSUME NEW g, g.at \in Nat, grades' = Turn!Logged(grades, g) PROVE GradesAreDated'
  <2>1. grades' \subseteq grades \cup {g}
    BY <1>1 DEF Turn!Logged
  <2>2. IsFiniteSet(grades \cup {g})
    BY FS_AddElement DEF DatesInv, GradesAreDated
  <2>3. IsFiniteSet(grades')
    BY <2>1, <2>2, FS_Subset
  <2> QED
    BY <1>1, <2>1, <2>3 DEF DatesInv, GradesAreDated
<1>2. GradesAreDated'
  <2>1. CASE UNCHANGED grades
    BY <2>1 DEF DatesInv, GradesAreDated
  <2>2. CASE Turn!GradeInSitting
    <3> DEFINE g == Turn!Grade(<<"study", sitting.index>>, Turn!Question, Turn!Correct, Turn!NoGrade, now)
    <3>1. grades' = Turn!Logged(grades, g) /\ g.at \in Nat
      BY <2>2 DEF Turn!GradeInSitting, Turn!Grade, TurnShape
    <3> HIDE DEF g
    <3> QED
      BY <1>1, <3>1
  <2>3. CASE Turn!LogGrade
    <3> DEFINE g == Turn!Grade(<<"answer", Turn!J.index>>, Turn!Answered, Turn!J.grade, Turn!NoGrade, Turn!J.at)
    <3>1. grades' = Turn!Logged(grades, g)
      BY <2>3 DEF Turn!LogGrade
    <3>2. work.of \in DOMAIN journal
      BY <2>3 DEF Turn!LogGrade, Turn!At, PlacesInv
    <3>3. g.at \in Nat
      BY <3>2, JournalIsTyped DEF Turn!Grade, Turn!J, Turn!M, AnswerRow
    <3> HIDE DEF g
    <3> QED
      BY <1>1, <3>1, <3>3
  <2>4. CASE Turn!Release
    <3>1. PICK h \in held, correct \in {"yes", "no"} :
            grades' = Turn!Logged(grades, Turn!Grade(<<"human", h.index>>, Capsule[h.index], correct,
                                                     <<"answer", h.index>>, h.at))
      BY <2>4 DEF Turn!Release
    <3> DEFINE g == Turn!Grade(<<"human", h.index>>, Capsule[h.index], correct,
                               <<"answer", h.index>>, h.at)
    <3>2. g.at \in Nat
      BY DEF Turn!Grade, DatesInv
    <3> HIDE DEF g
    <3>3. grades' = Turn!Logged(grades, g)
      BY <3>1 DEF g
    <3> QED
      BY <1>1, <3>2, <3>3
  <2> QED
    BY <2>1, <2>2, <2>3, <2>4, TurnWriters DEF Writers
<1>3. (\A h \in held : h.at \in Nat)'
  <2>1. CASE held' \subseteq held
    BY <2>1 DEF DatesInv
  <2>2. CASE Turn!HoldGrade
    <3>1. work.of \in DOMAIN journal
      BY <2>2 DEF Turn!HoldGrade, Turn!At, PlacesInv
    <3>2. held' = held \cup {[of |-> work.of, index |-> journal[work.of].index, at |-> journal[work.of].at]}
      BY <2>2 DEF Turn!HoldGrade, Turn!J, Turn!M
    <3> QED
      BY <3>1, <3>2, JournalIsTyped DEF AnswerRow, DatesInv
  <2>3. CASE Turn!Release
    BY <2>1, <2>3 DEF Turn!Release
  <2> QED
    BY <2>1, <2>2, <2>3, TurnWriters DEF Writers
<1> QED
  BY <1>2, <1>3 DEF DatesInv

LEMMA MessageStays ==
    ASSUME TurnShape, Turn!TurnsNext
    PROVE  work'.pc = "idle" \/ work'.of = work.of \/ \E m \in Text : Turn!Take(m)
<1>1. StepsAside => work'.pc = "idle" \/ work'.of = work.of
  BY IdleHolds DEF StepsAside, Keeps
<1>2. BeginsClosing \/ PutsAgain => work'.of = work.of
  BY DEF BeginsClosing, PutsAgain, Keeps
<1>3. (\E context : NotesInCapsule(context) \/ NotesInSitting(context)) => work'.of = work.of
  BY DEF NotesInCapsule, NotesInSitting, NotesATurn, Keeps
<1>4. TurnsInAnswer \/ Turn!Cleared \/ Turn!PutSitting \/ Turn!LogSave => work'.of = work.of
  BY MovesOn DEF TurnsInAnswer, Turn!OpenJournal, Turn!Pass, Turn!GradeAnswer, Turn!LogGrade,
     Turn!LogEpisode, Turn!HoldGrade, Turn!Advance, Turn!Complete, Turn!Told, Turn!Cleared,
     Turn!PutSitting, Turn!LogSave
<1>6. Turn!ClearOne \/ Turn!Remember => work'.of = work.of
  BY PutMoves DEF Keeps
<1>5. Turn!AnswerIsRemembered => work'.pc = "idle" \/ work'.of = work.of
  BY <1>1, AnswerNoteSteps DEF Keeps
<1> QED
  BY <1>1, <1>2, <1>3, <1>4, <1>5, <1>6, Kinds, KindsMove

\* Nobody handles anything until a message is taken.
LEMMA IdleStays ==
    ASSUME work.pc = "idle", Turn!TurnsNext
    PROVE  UNCHANGED work \/ \E m \in Text : Turn!Take(m)
<1>1. ~TurnsToClose
  BY DEF TurnsToClose, Turn!Sweep, Turn!CloseSitting, Turn!RaiseAlarm, Turn!Serve,
         Turn!InSitting, Turn!InCapsule, Turn!At
<1>2. ~TurnsToNote
  BY DEF TurnsToNote, Turn!Talk, Turn!Explain, Turn!TalkInSitting, Turn!ExplainInSitting,
         Turn!InSitting, Turn!InCapsule, Turn!At
<1>3. ~TurnsAside
  BY DEF TurnsAside, Turn!HoldUnsafe, Turn!BlockAnswer, Turn!GradeInSitting, Turn!EpisodeInSitting,
         Turn!UnreadInSitting, Turn!NotUnderstood, Turn!Nothing, Turn!Raise, Turn!IsAnswer,
         Turn!Prepare, Turn!Finish, Turn!Crash, Turn!AnswerSitting,
         Turn!InSitting, Turn!InCapsule, Turn!At
<1>4. ~TurnsInAnswer
  BY DEF TurnsInAnswer, Turn!OpenJournal, Turn!IsAnswer, Turn!InCapsule, Turn!Pass, Turn!GradeAnswer,
         Turn!LogGrade, Turn!LogEpisode, Turn!HoldGrade, Turn!Advance, Turn!Complete, Turn!Told,
         Turn!At
<1>5. /\ ~(Turn!ClearOne \/ Turn!Cleared \/ Turn!PutSitting)
      /\ ~(Turn!Remember \/ Turn!AnswerIsRemembered \/ Turn!LogSave)
  BY DEF Turn!ClearOne, Turn!Cleared, Turn!PutSitting, Turn!Remember, Turn!AnswerIsRemembered,
         Turn!LogSave, Turn!At
<1>6. Stands => UNCHANGED work
  BY DEF Stands, Turn!Tick, Turn!OpenBox, Turn!SendOne, Turn!Release
<1> QED
  BY <1>1, <1>2, <1>3, <1>4, <1>5, <1>6, Kinds

\* What is logged is a delivery of this message, the save of its own note, or
\* that of a note whose own is logged, or never was.
LoggedWell(e) ==
    /\ e.kind = "delivery" => e.box[2] = e.of /\ e.of # 0
    /\ e.kind = "saved" =>
         \/ e.of = e.note \/ e.note \in unlogged
         \/ \E k \in DOMAIN trace :
              trace[k].kind = "saved" /\ trace[k].session = e.session /\ trace[k].note = e.note

LEMMA TraceGrows ==
    ASSUME TurnShape, PlacesInv, SavedInv, Turn!TurnsNext
    PROVE  UNCHANGED trace \/ \E e : LoggedWell(e) /\ trace' = Append(trace, e)
<1>1. CASE Turn!LogSave
  <2>1. trace' = Append(trace, Turn!Saved(work.note, work.of))
    BY <1>1 DEF Turn!LogSave, Turn!Traced, Turn!M
  <2>2. \/ work.pc = "remembered" /\ work.note.of = work.of
        \/ work.pc = "cleared" /\ IsSavedOrLost(work.note)
    BY <1>1 DEF Turn!LogSave, Turn!At, PlacesInv, SavedInv
  <2>3. LoggedWell(Turn!Saved(work.note, work.of))
    BY <2>2 DEF LoggedWell, Turn!Saved, IsSavedOrLost, IsSaved, SavesNote
  <2> QED
    BY <2>1, <2>3
<1>2. CASE Turn!ExplainInSitting
  <2>1. \E context : trace' = Append(trace, Turn!Loaded(context))
    BY <1>2 DEF Turn!ExplainInSitting, Turn!Traced
  <2>2. ASSUME NEW context PROVE LoggedWell(Turn!Loaded(context))
    BY DEF LoggedWell, Turn!Loaded
  <2> QED
    BY <2>1, <2>2
<1>3. CASE Turn!SendOne
  <2> DEFINE e == [kind |-> "delivery", box |-> Turn!BoxKey, of |-> work.of]
  <2>1. trace' = Append(trace, e)
    BY <1>3 DEF Turn!SendOne, Turn!Traced, Turn!M
  <2>2. work.of # 0
    <3>1. work.of \in Text
      BY <1>3 DEF Turn!SendOne, Turn!At, SavedInv
    <3>2. 0 \notin Text
      BY DEF TurnShape, Turn!TurnsAssumption
    <3> QED
      BY <3>1, <3>2
  <2>3. LoggedWell(e)
    BY <2>2 DEF LoggedWell, Turn!BoxKey, Turn!M
  <2> HIDE DEF e
  <2> QED
    BY <2>1, <2>3
<1> QED
  BY <1>1, <1>2, <1>3, TurnWriters DEF Writers

\* What was logged stays where it is.
LEMMA LogKeeps ==
    ASSUME NEW S, trace \in Seq(S), NEW e, trace' = Append(trace, e)
    PROVE  /\ Len(trace) \in Nat /\ DOMAIN trace = 1..Len(trace)
           /\ DOMAIN trace' = 1..(Len(trace) + 1) /\ trace' \in Seq(S \cup {e})
           /\ \A k \in DOMAIN trace : trace'[k] = trace[k]
           /\ trace'[Len(trace) + 1] = e
<1>1. trace \in Seq(S \cup {e})
  OBVIOUS
<1> QED
  BY <1>1

LEMMA SavesStay ==
    ASSUME TurnShape, PlacesInv, LogInv, SavedInv, Turn!TurnsNext, NEW n, IsSaved(n)
    PROVE  IsSaved(n)'
<1>1. CASE UNCHANGED trace
  BY <1>1 DEF IsSaved, SavesNote
<1>2. ASSUME NEW e, trace' = Append(trace, e) PROVE IsSaved(n)'
  BY <1>2, LogKeeps DEF LogInv, IsSaved, SavesNote
<1> QED
  BY <1>1, <1>2, TraceGrows

LEMMA LostStay ==
    ASSUME TurnShape, PlacesInv, LogInv, SavedInv, Turn!TurnsNext
    PROVE  unlogged \subseteq unlogged' /\ \A n : IsSavedOrLost(n) => IsSavedOrLost(n)'
<1>1. unlogged \subseteq unlogged'
  BY TurnWriters DEF Writers, Turn!Crash
<1> QED
  BY <1>1, SavesStay DEF IsSavedOrLost

LEMMA LogStep ==
    ASSUME TurnShape, PlacesInv, LogInv, SavedInv, Turn!TurnsNext
    PROVE  LogInv'
<1>a. unlogged \subseteq unlogged'
  BY LostStay
<1>1. CASE UNCHANGED trace
  BY <1>a, <1>1 DEF LogInv
<1>2. ASSUME NEW e, LoggedWell(e), trace' = Append(trace, e) PROVE LogInv'
  <2>1. PICK S : trace \in Seq(S)
    BY DEF LogInv
  <2> DEFINE last == Len(trace) + 1
  <2>2. /\ Len(trace) \in Nat /\ DOMAIN trace = 1..Len(trace)
        /\ DOMAIN trace' = 1..last /\ trace' \in Seq(S \cup {e})
        /\ \A k \in DOMAIN trace : trace'[k] = trace[k]
        /\ trace'[last] = e
    BY <1>2, <2>1, LogKeeps
  <2>3. ASSUME NEW k \in DOMAIN trace', trace'[k].kind = "delivery"
        PROVE  trace'[k].box[2] = trace'[k].of /\ trace'[k].of # 0
    BY <1>2, <2>2, <2>3 DEF LogInv, LoggedWell
  <2>4. ASSUME NEW k \in DOMAIN trace', trace'[k].kind = "saved", trace'[k].note \notin unlogged
        PROVE  \E j \in 1..k :
                  /\ trace'[j].kind = "saved" /\ trace'[j].session = trace'[k].session
                  /\ trace'[j].note = trace'[k].note /\ trace'[j].of = trace'[j].note
    <3>1. ASSUME NEW i \in DOMAIN trace, i <= k, trace[i].kind = "saved",
                 trace[i].session = trace'[k].session, trace[i].note = trace'[k].note
          PROVE  \E j \in 1..k :
                    /\ trace'[j].kind = "saved" /\ trace'[j].session = trace'[k].session
                    /\ trace'[j].note = trace'[k].note /\ trace'[j].of = trace'[j].note
      <4>1. PICK j \in 1..i :
              /\ trace[j].kind = "saved" /\ trace[j].session = trace[i].session
              /\ trace[j].note = trace[i].note /\ trace[j].of = trace[j].note
        BY <2>4, <3>1 DEF LogInv
      <4>2. j \in DOMAIN trace /\ j \in 1..k
        BY <2>2, <3>1
      <4> QED
        BY <2>2, <3>1, <4>1, <4>2
    <3>2. CASE k \in DOMAIN trace
      BY <2>2, <2>4, <3>1, <3>2
    <3>3. CASE k = last
      <4>1. CASE e.of = e.note
        BY <2>2, <2>4, <3>3, <4>1
      <4>2. ASSUME NEW i \in DOMAIN trace, trace[i].kind = "saved",
                   trace[i].session = e.session, trace[i].note = e.note
            PROVE  \E j \in 1..k :
                      /\ trace'[j].kind = "saved" /\ trace'[j].session = trace'[k].session
                      /\ trace'[j].note = trace'[k].note /\ trace'[j].of = trace'[j].note
        <5>1. i <= k
          BY <2>2, <3>3
        <5> QED
          BY <2>2, <3>1, <3>3, <4>2, <5>1
      <4> QED
        BY <1>2, <2>2, <2>4, <3>3, <4>1, <4>2 DEF LoggedWell
    <3> QED
      BY <2>2, <3>2, <3>3
  <2> QED
    BY <1>a, <2>2, <2>3, <2>4 DEF LogInv
<1> QED
  BY <1>1, <1>2, TraceGrows

\* A note that was put is logged next, or its handler dies.
LEMMA BeingSavedStays ==
    ASSUME TurnShape, PlacesInv, LogInv, Turn!TurnsNext, NEW n, IsBeingSaved(n)
    PROVE  IsSavedOrLost(n)' \/ IsBeingSaved(n)'
<1>1. /\ work.pc = "remembered" /\ work.of = n.of /\ work.note.session = n.session
      /\ work.note.of = n.of
  BY DEF IsBeingSaved, PlacesInv
<1>2. ~TurnsToClose /\ ~TurnsToNote
  BY <1>1 DEF TurnsToClose, TurnsToNote, Turn!Sweep, Turn!CloseSitting, Turn!RaiseAlarm,
     Turn!Serve, Turn!Talk, Turn!Explain, Turn!TalkInSitting, Turn!ExplainInSitting,
     Turn!InSitting, Turn!InCapsule, Turn!At
<1>3. TurnsAside => Turn!Crash
  BY <1>1 DEF TurnsAside, Turn!HoldUnsafe, Turn!BlockAnswer, Turn!GradeInSitting,
     Turn!EpisodeInSitting, Turn!UnreadInSitting, Turn!NotUnderstood, Turn!Nothing, Turn!Raise,
     Turn!IsAnswer, Turn!Prepare, Turn!Finish, Turn!AnswerSitting,
     Turn!InSitting, Turn!InCapsule, Turn!At
<1>4. ~TurnsInAnswer
  BY <1>1 DEF TurnsInAnswer, Turn!OpenJournal, Turn!IsAnswer, Turn!InCapsule, Turn!Pass,
     Turn!GradeAnswer, Turn!LogGrade, Turn!LogEpisode, Turn!HoldGrade, Turn!Advance,
     Turn!Complete, Turn!Told, Turn!At
<1>5. /\ ~(Turn!ClearOne \/ Turn!Cleared \/ Turn!PutSitting)
      /\ ~(Turn!Remember \/ Turn!AnswerIsRemembered \/ \E m \in Text : Turn!Take(m))
  BY <1>1 DEF Turn!ClearOne, Turn!Cleared, Turn!PutSitting, Turn!Remember,
     Turn!AnswerIsRemembered, Turn!Take, Turn!At
<1>6. CASE Turn!LogSave
  <2>1. trace' = Append(trace, Turn!Saved(work.note, work.of))
    BY <1>6 DEF Turn!LogSave, Turn!Traced, Turn!M
  <2>2. SavesNote(Turn!Saved(work.note, work.of), n)
    BY <1>1 DEF SavesNote, Turn!Saved
  <2> QED
    BY <2>1, <2>2, LogKeeps DEF LogInv, IsSavedOrLost, IsSaved, SavesNote
<1>7. CASE Turn!Crash
  BY <1>1, <1>7 DEF Turn!Crash, Turn!At, Turn!M, IsSavedOrLost
<1>8. CASE Stands
  BY <1>8, KindsMove DEF IsBeingSaved
<1> QED
  BY <1>2, <1>3, <1>4, <1>5, <1>6, <1>7, <1>8, Kinds

LEMMA ClearedByClearing ==
    ASSUME TurnShape, WordsInv, Turn!TurnsNext, ~(Turn!ClearOne \/ Turn!Remember),
           work'.pc = "cleared"
    PROVE  UNCHANGED work
<1>1. ~StepsAside /\ ~BeginsClosing /\ ~PutsAgain
  BY DEF StepsAside, Aside, BeginsClosing, PutsAgain
<1>2. \A context : ~(NotesInCapsule(context) \/ NotesInSitting(context))
  BY DEF NotesInCapsule, NotesInSitting, NotesATurn
<1>3. ~TurnsInAnswer
  BY MovesOn DEF TurnsInAnswer, Turn!OpenJournal, Turn!Pass, Turn!GradeAnswer, Turn!LogGrade,
     Turn!LogEpisode, Turn!HoldGrade, Turn!Advance, Turn!Complete, Turn!Told
<1>4. ~Turn!Cleared /\ ~Turn!PutSitting /\ ~Turn!LogSave
  BY MovesOn DEF Turn!Cleared, Turn!PutSitting, Turn!LogSave, Turn!At, WordsInv
<1>5. ~Turn!AnswerIsRemembered
  BY <1>1, AnswerNoteSteps
<1>6. ~\E m \in Text : Turn!Take(m)
  BY TakeSteps
<1> QED
  BY <1>1, <1>2, <1>3, <1>4, <1>5, <1>6, Kinds, KindsMove

LEMMA SavedStep ==
    ASSUME TurnShape, WordsInv, PlacesInv, LogInv, SavedInv, Turn!TurnsNext, UNCHANGED page
    PROVE  SavedInv'
<1>1. begun \subseteq begun' /\ begun' \subseteq Text
  BY TurnWriters DEF Writers, Turn!Take, SavedInv
<1>2. (work.pc # "idle" => work.of \in begun)'
  <2>1. CASE \E m \in Text : Turn!Take(m)
    BY <2>1, TakeSteps DEF Turn!Take
  <2>2. CASE work'.of = work.of /\ work.pc # "idle"
    BY <1>1, <2>2 DEF SavedInv
  <2>3. CASE work.pc = "idle" /\ ~\E m \in Text : Turn!Take(m)
    BY <2>3, IdleStays
  <2> QED
    BY <2>1, <2>2, <2>3, MessageStays
<1>3. ASSUME NEW n \in notes, IsBeingSaved(n) PROVE IsSavedOrLost(n)' \/ IsBeingSaved(n)'
  BY <1>3, BeingSavedStays
<1>4. ASSUME NEW n \in notes PROVE n.of \in begun' /\ (IsSavedOrLost(n)' \/ IsBeingSaved(n)')
  BY <1>1, <1>3, LostStay DEF SavedInv
<1>5. /\ (\A n \in notes : n.of \in begun /\ (IsSavedOrLost(n) \/ IsBeingSaved(n)))'
      /\ (work.pc = "cleared" => IsSavedOrLost(work.note))'
  <2>1. CASE ~(Turn!ClearOne \/ Turn!Remember)
    <3>1. UNCHANGED notes
      BY <2>1, TurnWriters DEF Writers
    <3>2. work'.pc = "cleared" => UNCHANGED work
      BY <2>1, ClearedByClearing
    <3>3. work'.pc = "cleared" => IsSavedOrLost(work.note)'
      BY <3>2, LostStay DEF SavedInv, IsSavedOrLost, IsSaved, SavesNote
    <3> QED
      BY <1>4, <3>1, <3>3
  <2>2. CASE Turn!ClearOne
    <3>1. PICK n, o :
            /\ n \in notes /\ o = [n EXCEPT !.words = FALSE, !.expires = now + Retention]
            /\ notes' = (notes \ {n}) \cup {o}
            /\ work' = [work EXCEPT !.pc = "cleared", !.note = o]
      BY <2>2 DEF Turn!ClearOne, Turn!WordsOf
    <3>2. o.of = n.of /\ o.session = n.session
      BY <3>1 DEF TurnShape, NoteField
    <3>3. IsSavedOrLost(n)
      BY <2>2, <3>1 DEF Turn!ClearOne, Turn!At, SavedInv, IsBeingSaved
    <3>4. o.of \in begun' /\ IsSavedOrLost(o)'
      <4>1. IsSavedOrLost(n)' /\ n.of \in begun'
        BY <1>4, <3>1, <3>3, LostStay
      <4> QED
        BY <3>2, <4>1 DEF IsSavedOrLost, IsSaved, SavesNote
    <3>5. work'.note = o
      BY <3>1 DEF TurnShape, WorkField
    <3>6. IsSavedOrLost(work.note)'
      BY <3>4, <3>5 DEF IsSavedOrLost, IsSaved, SavesNote
    <3> QED
      BY <1>4, <3>1, <3>4, <3>6
  <2>3. CASE Turn!Remember
    <3>1. PICK note :
            /\ note = [work.note EXCEPT !.at = Turn!Stamp, !.expires = now + Retention]
            /\ notes' \subseteq notes \cup {note}
            /\ work' = [work EXCEPT !.pc = "remembered", !.note = note]
      BY <2>3 DEF Turn!Remember
    <3>2. note.of = work.of /\ work.of \in begun
      BY <2>3, <3>1 DEF Turn!Remember, Turn!At, PlacesInv, TurnShape, NoteField, SavedInv
    <3>3. work'.pc = "remembered" /\ work'.of = work.of /\ work'.note = note
      BY <3>1 DEF TurnShape, WorkField
    <3>4. IsBeingSaved(note)'
      BY <3>2, <3>3 DEF IsBeingSaved
    <3> QED
      BY <1>1, <1>4, <3>1, <3>2, <3>3, <3>4
  <2> QED
    BY <2>1, <2>2, <2>3
<1>6. (page.open => \A n \in page.notes : n.of \in page.messages)'
  BY DEF SavedInv
<1> QED
  BY <1>1, <1>2, <1>5, <1>6 DEF SavedInv

LEMMA PageStep ==
    ASSUME TurnShape, PlacesInv, AnswersInv, PageInv, Turn!TurnsNext, UNCHANGED page
    PROVE  PageInv'
<1> SUFFICES ASSUME page.open PROVE NotesRepeat(page.notes)' /\ EpisodesRepeat(page.episodes)'
  BY DEF PageInv
<1>1. NotesRepeat(page.notes) /\ EpisodesRepeat(page.episodes)
  BY DEF PageInv
<1> QED
  BY <1>1, NotesStayTrue, EpisodesStayTrue DEF NotesRepeat, EpisodesRepeat

LEMMA RowsAlike ==
    ASSUME TurnInv,
           UNCHANGED <<now, agenda, sitting, capsule, journal, grades, episodes, held, notes, work>>
    PROVE  /\ TurnShape' /\ WordsInv' /\ AnswersInv' /\ GradesInv' /\ HeldInv' /\ LoggedInv'
           /\ EpisodesRepeat(episodes)' /\ NotesRepeat(notes)' /\ PlacesInv' /\ KeyInv'
<1> USE DEF TurnInv
<1>1. TurnShape' /\ WordsInv'
  BY DEF TurnShape, WordsInv, ClosedSittingKeepsNoWords, Wordless
<1>2. AnswersInv' /\ KeyInv'
  BY DEF AnswersInv, GoneOn, KeyInv, KeyAfterAnswer, WasGraded
<1>3. GradesInv' /\ HeldInv' /\ LoggedInv'
  BY DEF GradesInv, IsGradeOf, IsDecisionOn, IsOther, QuestionOf, HeldInv, IsHeldFor, LoggedInv,
         IsLogged
<1>4. PlacesInv'
  <2>1. \A m : IsLogged(m) => IsLogged(m)'
    BY DEF IsLogged, IsGradeOf, QuestionOf
  <2>2. \A n, m : IsNoteOf(n, m) => IsNoteOf(n, m)'
    BY DEF IsNoteOf, QuestionOf
  <2>3. \A m : GoneOn(m) => GoneOn(m)'
    BY DEF GoneOn
  <2> QED
    BY <2>1, <2>2, <2>3 DEF PlacesInv
<1>5. EpisodesRepeat(episodes)' /\ NotesRepeat(notes)'
  BY DEF EpisodesRepeat, NotesRepeat, IsEpisodeOf, IsNoteOf, QuestionOf
<1> QED
  BY <1>1, <1>2, <1>3, <1>4, <1>5

LEMMA ReadingStep ==
    ASSUME TurnInv, Turn!ReadRecords
    PROVE  TurnInv'
<1>1. UNCHANGED <<now, agenda, sitting, capsule, journal, grades, episodes, held, notes, work>>
  BY DEF Turn!ReadRecords, Turn!turnVars, Turn!inbox, Turn!sessions, Turn!record, Turn!memory
<1>2. PageInv' /\ DatesInv'
  <2>1. page'.notes \subseteq notes /\ page'.episodes = episodes
    BY DEF Turn!ReadRecords, Turn!Unexpired
  <2>2. page'.at = now /\ now \in Nat
    BY DEF Turn!ReadRecords, TurnInv, TurnShape
  <2>3. DatesInv'
    BY <1>1, <2>2 DEF TurnInv, DatesInv, GradesAreDated
  <2> QED
    BY <1>1, <2>1, <2>3 DEF TurnInv, PageInv, NotesRepeat, EpisodesRepeat, IsNoteOf, IsEpisodeOf, QuestionOf
<1>3. LogInv' /\ SavedInv'
  <2>1. UNCHANGED <<trace, begun, unlogged>>
    BY DEF Turn!ReadRecords, Turn!turnVars, Turn!inbox, Turn!memory
  <2>2. page'.notes \subseteq notes /\ page'.messages = begun
    BY DEF Turn!ReadRecords, Turn!Unexpired
  <2>3. \A n : /\ IsSavedOrLost(n)' = IsSavedOrLost(n) /\ IsBeingSaved(n)' = IsBeingSaved(n)
    BY <1>1, <2>1 DEF IsSavedOrLost, IsSaved, SavesNote, IsBeingSaved
  <2>4. IsSavedOrLost(work.note)' = IsSavedOrLost(work.note)
    BY <1>1, <2>1 DEF IsSavedOrLost, IsSaved, SavesNote
  <2> QED
    BY <1>1, <2>1, <2>2, <2>3, <2>4 DEF TurnInv, LogInv, SavedInv
<1> QED
  BY <1>1, <1>2, <1>3, RowsAlike DEF TurnInv

LEMMA StandingStep ==
    ASSUME TurnInv, UNCHANGED Turn!vars
    PROVE  TurnInv'
<1>1. UNCHANGED <<now, agenda, sitting, capsule, journal, grades, episodes, held, notes, work, page>>
  BY DEF Turn!vars, Turn!turnVars, Turn!inbox, Turn!sessions, Turn!record, Turn!memory
<1>2. PageInv' /\ DatesInv'
  BY <1>1 DEF TurnInv, DatesInv, GradesAreDated, PageInv, EpisodesRepeat, NotesRepeat, IsEpisodeOf, IsNoteOf, QuestionOf
<1>3. LogInv' /\ SavedInv'
  <2>1. UNCHANGED <<trace, begun, unlogged>>
    BY DEF Turn!vars, Turn!turnVars, Turn!inbox, Turn!memory
  <2>2. \A n : IsSavedOrLost(n)' = IsSavedOrLost(n) /\ IsBeingSaved(n)' = IsBeingSaved(n)
    BY <1>1, <2>1 DEF IsSavedOrLost, IsSaved, SavesNote, IsBeingSaved
  <2>3. IsSavedOrLost(work.note)' = IsSavedOrLost(work.note)
    BY <1>1, <2>1 DEF IsSavedOrLost, IsSaved, SavesNote
  <2> QED
    BY <1>1, <2>1, <2>2, <2>3 DEF TurnInv, LogInv, SavedInv
<1> QED
  BY <1>1, <1>2, <1>3, RowsAlike DEF TurnInv

-----------------------------------------------------------------------------
LEMMA TurnInvInit ==
    ASSUME Turn!TurnsAssumption, Turn!Init
    PROVE  TurnInv
<1> USE DEF Turn!Init, Turn!TurnsInit
<1>1. journal = <<>> /\ DOMAIN journal = {}
  OBVIOUS
<1>2. /\ work = Turn!Idle /\ notes = {} /\ episodes = {} /\ held = {} /\ page.open = FALSE
  BY DEF Turn!NoPage
<1>3. TurnShape
  <2>1. FirstTime \in Nat /\ Len(Capsule) \in Nat /\ Len(Capsule) > 0
        /\ DOMAIN Capsule = 1..Len(Capsule)
    BY DEF Turn!TurnsAssumption
  <2>2. capsule \in SessionRow
    <3>1. agenda.capsule \in {None, "planned", "delivered"}
      BY DEF Turn!TurnsAssumption, Turn!None, None
    <3>2. 1 \in DOMAIN Capsule
      BY <2>1
    <3> QED
      BY <3>1, <3>2 DEF SessionRow
  <2>3. "status" \in DOMAIN sitting /\ agenda \in Agendas /\ now \in Nat
    BY <2>1
  <2>4. journal \in [DOMAIN journal -> AnswerRow]
    BY <1>1
  <2> QED
    BY <1>2, <2>2, <2>3, <2>4, IdleHolds DEF TurnShape
<1>4. WordsInv
  BY <1>2, IdleHolds DEF WordsInv, ClosedSittingKeepsNoWords
<1>5. AnswersInv /\ HeldInv /\ LoggedInv /\ EpisodesRepeat(episodes) /\ NotesRepeat(notes)
  BY <1>1, <1>2 DEF AnswersInv, HeldInv, LoggedInv, EpisodesRepeat, NotesRepeat
<1>6. GradesInv
  BY DEF GradesInv, IsOther, Turn!TurnsAssumption
<1>7. PlacesInv
  BY <1>2, IdleHolds DEF PlacesInv
<1>8. KeyInv
  <2>1. capsule.status \in {None, "planned", "delivered"}
    BY DEF Turn!TurnsAssumption, Turn!None, None
  <2> QED
    BY <1>2, <2>1, IdleHolds DEF KeyInv, KeyAfterAnswer, None
<1>9. DatesInv
  <2>1. grades = agenda.history /\ agenda \in Agendas
    OBVIOUS
  <2>2. IsFiniteSet(agenda.history) /\ \A g \in agenda.history : g.at \in Nat
    <3>1. Turn!IsFiniteSet(agenda.history) /\ \A g \in agenda.history : g.at \in Nat
      BY <2>1 DEF Turn!TurnsAssumption
    <3> QED
      BY <3>1 DEF Turn!IsFiniteSet, IsFiniteSet
  <2> QED
    BY <1>2, <2>1, <2>2 DEF DatesInv, GradesAreDated
<1>10. LogInv /\ SavedInv
  <2>1. trace \in Seq({}) /\ DOMAIN trace = {}
    OBVIOUS
  <2> QED
    BY <1>2, <2>1, IdleHolds DEF LogInv, SavedInv
<1> QED
  BY <1>2, <1>3, <1>4, <1>5, <1>6, <1>7, <1>8, <1>9, <1>10 DEF TurnInv, PageInv

LEMMA TurnInvStep ==
    TurnInv /\ [Turn!Next]_Turn!vars => TurnInv'
<1>1. ASSUME TurnInv, Turn!TurnsNext, UNCHANGED page PROVE TurnInv'
  BY <1>1, ShapeStep, WordsStep, AnswersStep, GradesStep, HeldStep, LoggedStep, EpisodesStep,
     NotesStep, PlacesStep, KeyStep, DatesStep, LogStep, SavedStep,
     PageStep DEF TurnInv
<1> QED
  BY <1>1, ReadingStep, StandingStep DEF Turn!Next, Turn!Turn

\* The verdict of a grade that counts, of a question that a note answers.
LEMMA VerdictsAgree ==
    ASSUME TurnInv, NEW m \in DOMAIN journal, NEW n, IsNoteOf(n, m), n.correct # None
    PROVE  {g.correct : g \in {h \in Effective(grades) :
                                 h.id[1] \in {"answer", "human"} /\ h.item = n.item}} = {n.correct}
<1>1. /\ journal[m].complete /\ journal[m].grade \in {"yes", "no"}
      /\ n.correct = journal[m].grade /\ n.item = QuestionOf(m)
  <2>1. journal[m].grade \in {None, "yes", "no", "held"}
    BY JournalIsTyped DEF TurnInv, AnswerRow
  <2> QED
    BY <2>1 DEF IsNoteOf, Turn!Verdict, Turn!None, None
<1>2. \A k \in DOMAIN journal : QuestionOf(k) = QuestionOf(m) => k = m
  <2>1. \A k \in DOMAIN journal : journal[k].index \in DOMAIN Capsule
    BY JournalIsTyped DEF TurnInv, AnswerRow
  <2> QED
    BY <2>1, CapsuleBounds DEF TurnInv, QuestionOf, AnswersInv
<1>3. ASSUME NEW g \in grades, g.id[1] \in {"answer", "human"}
      PROVE  \E k \in DOMAIN journal : IsGradeOf(g, k) \/ IsDecisionOn(g, k)
  BY <1>3 DEF TurnInv, GradesInv, IsOther
<1>4. ASSUME NEW g \in grades, g.id[1] \in {"answer", "human"}, g.item = n.item
      PROVE  g.correct = n.correct
  <2>1. PICK k \in DOMAIN journal : IsGradeOf(g, k) \/ IsDecisionOn(g, k)
    BY <1>3, <1>4
  <2>2. k = m
    BY <1>1, <1>2, <1>4, <2>1 DEF IsGradeOf, IsDecisionOn
  <2> QED
    BY <1>1, <2>1, <2>2 DEF IsGradeOf, IsDecisionOn
<1>5. PICK g \in grades : IsGradeOf(g, m)
  BY <1>1 DEF TurnInv, LoggedInv, IsLogged
<1>6. g \in Effective(grades)
  <2>1. ASSUME NEW h \in grades, h.supersedes = g.id PROVE FALSE
    <3>1. h.supersedes = <<"answer", journal[m].index>>
      BY <1>5, <2>1 DEF IsGradeOf
    <3>2. ~IsOther(h)
      BY <3>1 DEF IsOther
    <3>3. PICK k \in DOMAIN journal : IsDecisionOn(h, k)
      <4>1. GradesInv
        BY DEF TurnInv
      <4> QED
        BY <3>1, <3>2, <4>1 DEF GradesInv, IsGradeOf
    <3>4. journal[k].index = journal[m].index /\ journal[k].grade = "held"
      BY <3>1, <3>3 DEF IsDecisionOn
    <3>5. k = m
      BY <3>4 DEF TurnInv, AnswersInv
    <3> QED
      BY <1>1, <3>4, <3>5
  <2> QED
    BY <1>5, <2>1 DEF Effective
<1>7. g.id[1] = "answer" /\ g.item = n.item
  BY <1>1, <1>5 DEF IsGradeOf
<1> QED
  BY <1>4, <1>6, <1>7 DEF Effective

\* An answer that left an episode, on a page with the notes of the same time.
LEMMA ShownOnce ==
    ASSUME TurnInv, page.open, NEW e \in page.episodes, e.session = "capsule", e.item \in Own
    PROVE  Cardinality({n \in page.notes : n.intent = "answer" /\ n.item = e.item
                                           /\ n.correct # None})
             + Cardinality({f \in ShownEpisodes(page.episodes, page.notes) :
                              f.session = e.session /\ f.item = e.item}) = 1
<1>1. NotesRepeat(page.notes) /\ EpisodesRepeat(page.episodes)
  BY DEF TurnInv, PageInv
<1>2. \A m, k \in DOMAIN journal : QuestionOf(k) = QuestionOf(m) => k = m
  <2>1. \A k \in DOMAIN journal : journal[k].index \in DOMAIN Capsule
    BY JournalIsTyped DEF TurnInv, AnswerRow
  <2> QED
    BY <2>1, CapsuleBounds DEF TurnInv, QuestionOf, AnswersInv
<1> DEFINE Telling == {n \in page.notes : n.intent = "answer" /\ n.item = e.item /\ n.correct # None}
           Shown == {f \in ShownEpisodes(page.episodes, page.notes) :
                       f.session = e.session /\ f.item = e.item}
<1>3. PICK m \in DOMAIN journal : IsEpisodeOf(e, m)
  BY <1>1 DEF EpisodesRepeat
<1>4. ASSUME NEW n \in Telling PROVE n.session = "capsule" /\ n.of = m
  <2>1. PICK k \in DOMAIN journal : IsNoteOf(n, k)
    BY <1>1 DEF NotesRepeat
  <2> QED
    BY <1>2, <1>3, <2>1 DEF IsNoteOf, IsEpisodeOf
<1>5. ASSUME NEW f \in page.episodes, f.session = e.session, f.item = e.item PROVE f = e
  <2>1. PICK k \in DOMAIN journal : IsEpisodeOf(f, k)
    BY <1>1, <1>5 DEF EpisodesRepeat
  <2> QED
    BY <1>2, <1>3, <1>5, <2>1 DEF IsEpisodeOf
<1>6. ShownEpisodes(page.episodes, page.notes) \subseteq page.episodes
  BY DEF ShownEpisodes
<1>7. CASE \E n \in Telling : TRUE
  <2>1. PICK n \in Telling : TRUE
    BY <1>7
  <2>2. Telling = {n}
    BY <1>1, <1>4, <2>1 DEF NotesRepeat
  <2>3. <<e.session, e.item>> \in AnsweredIn(page.notes)
    BY <1>4, <2>1 DEF AnsweredIn
  <2>4. Shown = {}
    BY <2>3 DEF ShownEpisodes
  <2> HIDE DEF Telling, Shown
  <2>5. Cardinality(Telling) = 1 /\ Cardinality(Shown) = 0
    BY <2>2, <2>4, FS_EmptySet, FS_Singleton
  <2>6. Cardinality(Telling) + Cardinality(Shown) = 1
    BY <2>5
  <2> QED
    BY <2>6 DEF Telling, Shown
<1>8. CASE ~\E n \in Telling : TRUE
  <2>1. Telling = {}
    BY <1>8
  <2>2. <<e.session, e.item>> \notin AnsweredIn(page.notes)
    BY <1>8 DEF AnsweredIn
  <2>3. Shown = {e}
    BY <1>5, <1>6, <2>2 DEF ShownEpisodes
  <2> HIDE DEF Telling, Shown
  <2>4. Cardinality(Telling) = 0 /\ Cardinality(Shown) = 1
    BY <2>1, <2>3, FS_EmptySet, FS_Singleton
  <2>5. Cardinality(Telling) + Cardinality(Shown) = 1
    BY <2>4
  <2> QED
    BY <2>5 DEF Telling, Shown
<1> QED
  BY <1>7, <1>8

-----------------------------------------------------------------------------
(* The totals of a page. *)

\* Adding up over a set of keys how many things have each of them counts the
\* things that have any: the sum and the count obey the same equation, and the
\* smallest set on which they differed would not.
LEMMA PartsAddUp ==
    ASSUME NEW S, IsFiniteSet(S), NEW key, NEW D, IsFiniteSet(D), NEW f,
           f = [d \in D |-> f[d]], \A d \in D : f[d] = Cardinality({x \in S : key[x] = d})
    PROVE  AddedUp(f) = Cardinality({x \in S : key[x] \in D})
<1> DEFINE With(T) == {x \in S : key[x] \in T}
           Rec(h) == h = [s \in SUBSET D |-> IF s = {} THEN 0
                            ELSE f[CHOOSE x \in s : TRUE] + h[s \ {CHOOSE x \in s : TRUE}]]
           count == [s \in SUBSET D |-> Cardinality(With(s))]
           sum == CHOOSE h : Rec(h)
<1>1. AddedUp(f) = sum[D]
  BY DEF AddedUp, FoldFunction, FoldFunctionOnSet, MapThenFoldSet
<1>2. ASSUME NEW T PROVE IsFiniteSet(With(T)) /\ Cardinality(With(T)) \in Nat
  BY FS_Subset, FS_CardinalityType
<1>3. ASSUME NEW s \in SUBSET D, NEW d \in s
      PROVE  Cardinality(With(s)) = f[d] + Cardinality(With(s \ {d}))
  <2> DEFINE A == {x \in S : key[x] = d}
             B == With(s \ {d})
  <2>1. IsFiniteSet(A) /\ IsFiniteSet(B) /\ Cardinality(A) \in Nat /\ Cardinality(B) \in Nat
    BY <1>2, FS_Subset, FS_CardinalityType
  <2>2. With(s) = A \cup B /\ A \cap B = {}
    OBVIOUS
  <2>3. f[d] = Cardinality(A)
    OBVIOUS
  <2>4. Cardinality(A \cup B) = Cardinality(A) + Cardinality(B)
    <3> HIDE DEF A, B
    <3>1. Cardinality(A \cup B) = Cardinality(A) + Cardinality(B) - Cardinality(A \cap B)
      BY <2>1, FS_Union
    <3>2. Cardinality(A \cap B) = 0
      BY <2>2, FS_EmptySet
    <3> QED
      BY <2>1, <3>1, <3>2
  <2>5. Cardinality(With(s)) = Cardinality(A \cup B)
    <3> HIDE DEF A, B, With
    <3> QED
      BY <2>2
  <2> HIDE DEF A, With
  <2> QED
    BY <2>3, <2>4, <2>5
<1>4. Rec(count)
  <2>1. Cardinality(With({})) = 0
    <3>1. With({}) = {}
      OBVIOUS
    <3> QED
      BY <3>1, FS_EmptySet
  <2>2. ASSUME NEW s \in SUBSET D, s # {}
        PROVE  count[s] = f[CHOOSE x \in s : TRUE] + count[s \ {CHOOSE x \in s : TRUE}]
    <3>1. (CHOOSE x \in s : TRUE) \in s
      BY <2>2
    <3>2. s \ {CHOOSE x \in s : TRUE} \in SUBSET D
      OBVIOUS
    <3> HIDE DEF With
    <3> QED
      BY <3>1, <3>2, <1>3
  <2> HIDE DEF With
  <2> QED
    BY <2>1, <2>2
<1>5. Rec(sum)
  <2> HIDE DEF Rec, count
  <2> QED
    BY <1>4
<1>6. ASSUME NEW s \in SUBSET D PROVE sum[s] = count[s]
  <2> DEFINE Bad == {t \in SUBSET D : sum[t] # count[t]}
  <2> SUFFICES ASSUME Bad # {} PROVE FALSE
    OBVIOUS
  <2>1. Bad \subseteq FiniteSubsetsOf(D)
    BY FS_Subset DEF FiniteSubsetsOf
  <2>2. PICK t \in Bad : \A u \in Bad : <<u, t>> \notin StrictSubsetOrdering(D)
    <3> HIDE DEF Bad
    <3> QED
      BY <2>1, FS_StrictSubsetOrderingWellFounded, WFMin
  <2>3. t # {}
    <3> HIDE DEF With, count, sum
    <3>1. sum[{}] = 0 /\ count[{}] = 0
      BY <1>4, <1>5
    <3> QED
      BY <3>1
  <2> DEFINE d == CHOOSE x \in t : TRUE
  <2>4. d \in t /\ t \ {d} \in SUBSET D /\ t \ {d} # t
    BY <2>3
  <2>5. <<t \ {d}, t>> \in StrictSubsetOrdering(D)
    BY <2>4 DEF StrictSubsetOrdering
  <2>6. sum[t \ {d}] = count[t \ {d}]
    <3> HIDE DEF d, sum, count
    <3> QED
      BY <2>2, <2>4, <2>5
  <2>7. sum[t] = f[d] + sum[t \ {d}] /\ count[t] = f[d] + count[t \ {d}]
    <3> HIDE DEF With, count, sum
    <3> QED
      BY <1>4, <1>5, <2>3
  <2> QED
    BY <2>6, <2>7
<1> QED
  BY <1>1, <1>6

LEMMA TwoParts ==
    ASSUME NEW A, NEW B, IsFiniteSet(A), IsFiniteSet(B), A \cap B = {}
    PROVE  /\ Cardinality(A \cup B) = Cardinality(A) + Cardinality(B)
           /\ Cardinality(A) \in Nat /\ Cardinality(B) \in Nat
<1>1. Cardinality(A \cup B) = Cardinality(A) + Cardinality(B) - Cardinality(A \cap B)
  BY FS_Union
<1>2. Cardinality(A \cap B) = 0
  BY FS_EmptySet
<1> QED
  BY <1>1, <1>2, FS_CardinalityType

LEMMA HeldOrNot ==
    ASSUME NEW S, IsFiniteSet(S)
    PROVE  /\ Cardinality(S) = Cardinality({x \in S : ~IsHeld(x)}) + Cardinality({x \in S : IsHeld(x)})
           /\ Cardinality({x \in S : ~IsHeld(x)}) \in Nat
           /\ Cardinality({x \in S : IsHeld(x)}) \in Nat
<1> DEFINE A == {x \in S : ~IsHeld(x)}
           B == {x \in S : IsHeld(x)}
<1>1. IsFiniteSet(A) /\ IsFiniteSet(B)
  BY FS_Subset
<1>2. S = A \cup B /\ A \cap B = {}
  OBVIOUS
<1> HIDE DEF A, B
<1>3. Cardinality(S) = Cardinality(A) + Cardinality(B) /\ Cardinality(A) \in Nat /\ Cardinality(B) \in Nat
  BY <1>1, <1>2, TwoParts
<1> QED
  BY <1>3 DEF A, B

LEMMA FiniteTopics == MemoryAssumption => IsFiniteSet(Topics)
<1> SUFFICES ASSUME MemoryAssumption PROVE IsFiniteSet(Topics)
  OBVIOUS
<1> DEFINE f == [i \in Own |-> TopicOf[i]]
<1>1. f \in Surjection(Own, Topics)
  BY DEF Surjection, Topics
<1> QED
  BY <1>1, FS_Surjection DEF MemoryAssumption

LEMMA TopicsAddUp ==
    ASSUME MemoryAssumption, NEW S, IsFiniteSet(S), \A g \in S : g.item \in Own
    PROVE  AddedUp([c \in Topics |-> Cardinality({g \in S : TopicOf[g.item] = c})])
             = Cardinality(S)
<1> DEFINE key == [g \in S |-> TopicOf[g.item]]
           f == [c \in Topics |-> Cardinality({g \in S : TopicOf[g.item] = c})]
<1>1. ASSUME NEW c \in Topics PROVE f[c] = Cardinality({g \in S : key[g] = c})
  <2>1. {g \in S : key[g] = c} = {g \in S : TopicOf[g.item] = c}
    OBVIOUS
  <2>2. f[c] = Cardinality({g \in S : TopicOf[g.item] = c})
    OBVIOUS
  <2> HIDE DEF key, f
  <2> QED
    BY <2>1, <2>2
<1>2. {g \in S : key[g] \in Topics} = S
  BY DEF Topics
<1>3. f = [c \in Topics |-> f[c]]
  OBVIOUS
<1>4. AddedUp(f) = Cardinality(S)
  <2> HIDE DEF key, f
  <2> QED
    BY <1>1, <1>2, <1>3, FiniteTopics, PartsAddUp
<1> QED
  BY <1>4

LEMMA DaysAddUp ==
    ASSUME NEW S, IsFiniteSet(S), NEW D, IsFiniteSet(D)
    PROVE  AddedUp([d \in D |-> Cardinality({g \in S : Day(g.at) = d})])
             = Cardinality({g \in S : Day(g.at) \in D})
<1> DEFINE key == [g \in S |-> Day(g.at)]
           f == [d \in D |-> Cardinality({g \in S : Day(g.at) = d})]
<1>1. ASSUME NEW d \in D PROVE f[d] = Cardinality({g \in S : key[g] = d})
  <2>1. {g \in S : key[g] = d} = {g \in S : Day(g.at) = d}
    OBVIOUS
  <2>2. f[d] = Cardinality({g \in S : Day(g.at) = d})
    OBVIOUS
  <2> HIDE DEF key, f
  <2> QED
    BY <2>1, <2>2
<1>2. {g \in S : key[g] \in D} = {g \in S : Day(g.at) \in D}
  OBVIOUS
<1>3. f = [d \in D |-> f[d]]
  OBVIOUS
<1>4. AddedUp(f) = Cardinality({g \in S : key[g] \in D})
  <2> HIDE DEF key, f
  <2> QED
    BY <1>1, <1>3, PartsAddUp
<1> QED
  BY <1>2, <1>4

LEMMA DatedDays ==
    ASSUME MemoryAssumption, NEW t \in Nat
    PROVE  Day(t) \in Nat
BY DEF Day, MemoryAssumption

LEMMA FirstDay ==
    ASSUME MemoryAssumption, NEW end \in Nat
    PROVE  First(end) \in Nat /\ First(end) <= end
BY DEF First, MemoryAssumption

LEMMA CountedAreFinite ==
    ASSUME GradesAreDated
    PROVE  /\ IsFiniteSet(Effective(grades)) /\ IsFiniteSet(OfFamily(grades))
           /\ \A g \in OfFamily(grades) : g.at \in Nat /\ g.item \in Own
<1>1. Effective(grades) \subseteq grades /\ OfFamily(grades) \subseteq grades
  BY DEF Effective, OfFamily
<1> QED
  BY <1>1, FS_Subset DEF OfFamily, GradesAreDated

LEMMA TopicsTotal ==
    ASSUME MemoryAssumption, GradesAreDated
    PROVE  /\ AddedUp([c \in Topics |-> Topic(grades, page.notes, c)["assessed"]])
                = Cardinality({g \in OfFamily(grades) : ~IsHeld(g)})
           /\ AddedUp([c \in Topics |-> Topic(grades, page.notes, c)["held"]])
                = Cardinality({g \in OfFamily(grades) : IsHeld(g)})
<1> DEFINE Free == {g \in OfFamily(grades) : ~IsHeld(g)}
           Waits == {g \in OfFamily(grades) : IsHeld(g)}
<1>1. /\ IsFiniteSet(Free) /\ \A g \in Free : g.item \in Own
      /\ IsFiniteSet(Waits) /\ \A g \in Waits : g.item \in Own
  BY CountedAreFinite, FS_Subset
<1>2. ASSUME NEW c PROVE Topic(grades, page.notes, c)["assessed"] = Cardinality({g \in Free : TopicOf[g.item] = c})
  <2>1. {o \in OfTopic(grades, c) : ~IsHeld(o)} = {g \in Free : TopicOf[g.item] = c}
    BY DEF OfTopic
  <2> HIDE DEF Free
  <2> QED
    BY <2>1 DEF Topic, Totals
<1>3. ASSUME NEW c PROVE Topic(grades, page.notes, c)["held"] = Cardinality({g \in Waits : TopicOf[g.item] = c})
  <2>1. {o \in OfTopic(grades, c) : IsHeld(o)} = {g \in Waits : TopicOf[g.item] = c}
    BY DEF OfTopic
  <2> HIDE DEF Waits
  <2> QED
    BY <2>1 DEF Topic, Totals
<1>4. /\ AddedUp([c \in Topics |-> Cardinality({g \in Free : TopicOf[g.item] = c})]) = Cardinality(Free)
      /\ AddedUp([c \in Topics |-> Cardinality({g \in Waits : TopicOf[g.item] = c})]) = Cardinality(Waits)
  <2> HIDE DEF Free, Waits
  <2> QED
    BY <1>1, TopicsAddUp
<1> HIDE DEF Free, Waits
<1>5. [c \in Topics |-> Topic(grades, page.notes, c)["assessed"]]
        = [c \in Topics |-> Cardinality({g \in Free : TopicOf[g.item] = c})]
  BY <1>2
<1>6. [c \in Topics |-> Topic(grades, page.notes, c)["held"]]
        = [c \in Topics |-> Cardinality({g \in Waits : TopicOf[g.item] = c})]
  BY <1>3
<1> QED
  BY <1>4, <1>5, <1>6 DEF Free, Waits

\* What was observed before the window and on its days is all that was.
LEMMA DaysTotal ==
    ASSUME MemoryAssumption, GradesAreDated, NEW end \in Nat,
           NEW S \in SUBSET Observations(grades, end)
    PROVE  /\ IsFiniteSet(S)
           /\ Cardinality(S) = Cardinality({g \in S : Day(g.at) < First(end)})
                + AddedUp([d \in First(end)..end |-> Cardinality({g \in S : Day(g.at) = d})])
<1>1. IsFiniteSet(S) /\ \A g \in S : Day(g.at) \in Nat /\ Day(g.at) <= end
  BY CountedAreFinite, FS_Subset, DatedDays DEF Observations
<1> DEFINE Before == {g \in S : Day(g.at) < First(end)}
           Shown == {g \in S : Day(g.at) \in First(end)..end}
<1>2. First(end) \in Nat /\ First(end) <= end
  BY FirstDay
<1>3. S = Before \cup Shown /\ Before \cap Shown = {}
  BY <1>1, <1>2
<1>4. IsFiniteSet(Before) /\ IsFiniteSet(Shown)
  BY <1>1, FS_Subset
<1>5. AddedUp([d \in First(end)..end |-> Cardinality({g \in S : Day(g.at) = d})]) = Cardinality(Shown)
  <2>1. IsFiniteSet(First(end)..end)
    BY <1>2, FS_Interval
  <2> QED
    BY <1>1, <2>1, DaysAddUp
<1>6. Cardinality(S) = Cardinality(Before) + Cardinality(Shown)
  <2> HIDE DEF Before, Shown
  <2> QED
    BY <1>3, <1>4, TwoParts
<1> QED
  BY <1>1, <1>5, <1>6

LEMMA LastDayHasAll ==
    ASSUME MemoryAssumption, GradesAreDated, NEW end \in Nat
    PROVE  LET observed == Observations(grades, end)
               last == Evolution(grades, end).cumulative[end]
           IN  /\ last["assessed"] = Totals(observed)["assessed"]
               /\ last["correct"] = Totals(observed)["correct"]
               /\ last["contents"] = Totals(observed)["contents"]
<1> DEFINE observed == Observations(grades, end)
           days == First(end)..end
           Free == {o \in observed : ~IsHeld(o)}
           Right == {o \in observed : o.correct = "yes"}
<1>1. end \in days
  BY FirstDay
<1>2. Evolution(grades, end).cumulative[end] = Cumulative(observed, end, end)
  BY <1>1 DEF Evolution
<1>3. Cumulative(observed, end, end)["assessed"] = Cardinality(Free)
  <2>1. {o \in Baseline(observed, end) : ~IsHeld(o)} = {g \in Free : Day(g.at) < First(end)}
    BY DEF Baseline
  <2>2. ASSUME NEW d PROVE {o \in OnDay(observed, d) : ~IsHeld(o)} = {g \in Free : Day(g.at) = d}
    BY DEF OnDay
  <2> HIDE DEF Free, days, observed
  <2>3. Totals(Baseline(observed, end))["assessed"] = Cardinality({g \in Free : Day(g.at) < First(end)})
    BY <2>1 DEF Totals
  <2>4. ASSUME NEW d PROVE Totals(OnDay(observed, d))["assessed"] = Cardinality({g \in Free : Day(g.at) = d})
    BY <2>2 DEF Totals
  <2>5. [d \in days |-> Totals(OnDay(observed, d))["assessed"]]
          = [d \in days |-> Cardinality({g \in Free : Day(g.at) = d})]
    BY <2>4
  <2>6. Cumulative(observed, end, end)["assessed"]
          = Totals(Baseline(observed, end))["assessed"]
              + AddedUp([d \in days |-> Totals(OnDay(observed, d))["assessed"]])
    BY DEF Cumulative, days
  <2>7. Cardinality(Free) = Cardinality({g \in Free : Day(g.at) < First(end)})
                + AddedUp([d \in days |-> Cardinality({g \in Free : Day(g.at) = d})])
    <3>1. Free \in SUBSET Observations(grades, end)
      BY DEF Free, observed
    <3> QED
      BY <3>1, DaysTotal DEF days
  <2> QED
    BY <2>3, <2>5, <2>6, <2>7
<1>4. Cumulative(observed, end, end)["correct"] = Cardinality(Right)
  <2>1. {o \in Baseline(observed, end) : o.correct = "yes"} = {g \in Right : Day(g.at) < First(end)}
    BY DEF Baseline
  <2>2. ASSUME NEW d PROVE {o \in OnDay(observed, d) : o.correct = "yes"} = {g \in Right : Day(g.at) = d}
    BY DEF OnDay
  <2> HIDE DEF Right, days, observed
  <2>3. Totals(Baseline(observed, end))["correct"] = Cardinality({g \in Right : Day(g.at) < First(end)})
    BY <2>1 DEF Totals
  <2>4. ASSUME NEW d PROVE Totals(OnDay(observed, d))["correct"] = Cardinality({g \in Right : Day(g.at) = d})
    BY <2>2 DEF Totals
  <2>5. [d \in days |-> Totals(OnDay(observed, d))["correct"]]
          = [d \in days |-> Cardinality({g \in Right : Day(g.at) = d})]
    BY <2>4
  <2>6. Cumulative(observed, end, end)["correct"]
          = Totals(Baseline(observed, end))["correct"]
              + AddedUp([d \in days |-> Totals(OnDay(observed, d))["correct"]])
    BY DEF Cumulative, days
  <2>7. Cardinality(Right) = Cardinality({g \in Right : Day(g.at) < First(end)})
                + AddedUp([d \in days |-> Cardinality({g \in Right : Day(g.at) = d})])
    <3>1. Right \in SUBSET Observations(grades, end)
      BY DEF Right, observed
    <3> QED
      BY <3>1, DaysTotal DEF days
  <2> QED
    BY <2>3, <2>5, <2>6, <2>7
<1>5. Cumulative(observed, end, end)["contents"] = Totals(observed)["contents"]
  <2>1. {p \in observed : ~IsHeld(p) /\ (p \in Baseline(observed, end) \/ Day(p.at) \in days)}
          = {p \in observed : ~IsHeld(p)}
    BY CountedAreFinite, DatedDays, FirstDay DEF Baseline, Observations
  <2> HIDE DEF observed
  <2> QED
    BY <2>1 DEF Cumulative, Totals, days
<1> QED
  BY <1>2, <1>3, <1>4, <1>5 DEF Totals

LEMMA DatedTotalsAgree ==
    ASSUME MemoryAssumption, GradesAreDated, page.open => page.at \in Nat
    PROVE  TotalsAgree
<1> SUFFICES ASSUME page.open PROVE TotalsAgree
  BY DEF TotalsAgree
<1>1. End \in Nat
  BY DatedDays DEF End
<1> DEFINE counted == Effective(grades)
           family == OfFamily(grades)
           other == {g \in counted : g.item \notin Own}
           later == {g \in family : Day(g.at) > End}
           observed == Observations(grades, End)
           assessed == AddedUp([c \in Topics |-> Topic(grades, page.notes, c)["assessed"]])
           waiting == AddedUp([c \in Topics |-> Topic(grades, page.notes, c)["held"]])
<1>2. /\ IsFiniteSet(counted) /\ IsFiniteSet(family) /\ IsFiniteSet(other)
      /\ IsFiniteSet(later) /\ IsFiniteSet(observed)
  BY CountedAreFinite, FS_Subset DEF Observations
<1>3. Cardinality(counted) = Cardinality(family) + Cardinality(other) /\ Cardinality(other) \in Nat
  <2>1. counted = family \cup other /\ family \cap other = {}
    BY DEF OfFamily
  <2> HIDE DEF counted, family, other
  <2> QED
    BY <1>2, <2>1, TwoParts
<1>4. Cardinality(family) = Cardinality(observed) + Cardinality(later) /\ Cardinality(later) \in Nat
  <2>1. family = observed \cup later /\ observed \cap later = {}
    BY <1>1, CountedAreFinite, DatedDays DEF Observations
  <2> HIDE DEF family, observed, later
  <2> QED
    BY <1>2, <2>1, TwoParts
<1>5. Cardinality(family) = assessed + waiting
  BY <1>2, TopicsTotal, HeldOrNot
<1>6. Cardinality(observed) = Totals(observed)["assessed"] + Totals(observed)["held"]
  BY <1>2, HeldOrNot DEF Totals
<1>7. Cardinality(family) \in Nat /\ Cardinality(observed) \in Nat
  BY <1>2, FS_CardinalityType
<1>8. Counts(grades).assessed = Cardinality(counted)
  BY DEF Counts
<1>9. Evolution(grades, End).summary = Totals(observed)
  BY DEF Evolution
<1>10. \A field \in {"assessed", "correct", "contents"} :
         Evolution(grades, End).cumulative[End][field] = Totals(observed)[field]
  BY <1>1, LastDayHasAll
<1> HIDE DEF counted, family, other, later, observed, assessed, waiting
<1>11. Counts(grades).assessed = assessed + waiting + Cardinality(other)
  BY <1>3, <1>5, <1>7, <1>8
<1>12. assessed + waiting = Totals(observed).assessed + Totals(observed).held + Cardinality(later)
  BY <1>4, <1>5, <1>6, <1>7
<1> QED
  BY <1>9, <1>10, <1>11, <1>12 DEF TotalsAgree, other, later, assessed, waiting, family, counted

\* The first save that is read of a note is its own message's.
LEMMA LinksHold ==
    ASSUME TurnInv
    PROVE  Turn!TextIsLinked
<1> SUFFICES ASSUME page.open, NEW n \in page.notes, Turn!Uncut(n), n.of \notin unlogged,
                    NEW b \in Turn!ShownBoxes(trace, Turn!Events, page.boxes, n)
             PROVE  b[2] = n.of
  BY DEF Turn!TextIsLinked, Turn!TextOf, Turn!WasLogged
<1> DEFINE owned == Turn!Owned(trace, page.messages, page.boxes)
           saves == Turn!SavesOf(trace, Turn!Events, n)
<1>1. LogInv /\ SavedInv
  BY DEF TurnInv
<1>2. Turn!Events \subseteq owned /\ owned \subseteq DOMAIN trace /\ DOMAIN trace \subseteq Nat \ {0}
  <2>1. PICK S : trace \in Seq(S)
    BY <1>1 DEF LogInv
  <2>2. DOMAIN trace \subseteq Nat \ {0}
    BY <2>1
  <2> QED
    BY <2>2 DEF Turn!Events, Turn!OwnedEvents, Turn!Owned
<1>3. \A k \in saves : k \in DOMAIN trace /\ SavesNote(trace[k], n)
  BY <1>2 DEF Turn!SavesOf, SavesNote
<1>4. ASSUME NEW k \in saves
      PROVE  \E j \in saves : j <= k /\ trace[j].of = n.of
  <2>0. k \in DOMAIN trace /\ SavesNote(trace[k], n)
    BY <1>3, <1>4
  <2>1. PICK j \in 1..k :
          /\ trace[j].kind = "saved" /\ trace[j].session = trace[k].session
          /\ trace[j].note = trace[k].note /\ trace[j].of = trace[j].note
    BY <1>1, <2>0 DEF LogInv, SavesNote
  <2>2. SavesNote(trace[j], n) /\ trace[j].of = n.of /\ n.of \in page.messages
    BY <1>1, <2>0, <2>1 DEF SavesNote, SavedInv
  <2>3. j \in DOMAIN trace /\ j <= k
    <3>1. PICK S : trace \in Seq(S)
      BY <1>1 DEF LogInv
    <3> QED
      BY <2>0, <3>1
  <2>4. j \in owned
    BY <2>2, <2>3 DEF Turn!Owned
  <2>5. j \in Turn!SavesOf(trace, owned, n)
    BY <2>2, <2>4 DEF Turn!SavesOf, SavesNote
  <2>6. j \in saves
    BY <2>5 DEF Turn!Uncut, Turn!SavesOf
  <2> QED
    BY <2>2, <2>3, <2>6
<1>5. saves # {}
  <2>1. PICK k \in Turn!Events :
          /\ trace[k].kind = "delivery" /\ trace[k].of = Turn!Correlation(trace, Turn!Events, n)
    BY DEF Turn!ShownBoxes
  <2>2. trace[k].of # 0
    BY <1>1, <1>2, <2>1 DEF LogInv
  <2> QED
    BY <2>1, <2>2 DEF Turn!Correlation
<1> HIDE DEF owned, saves
<1>6. Turn!Min(saves) \in saves /\ \A k \in saves : Turn!Min(saves) <= k
  <2>1. \E x \in saves : \A y \in saves : x <= y
    <3>1. saves \subseteq Nat
      BY <1>2, <1>3
    <3>2. PICK x \in saves : \A y \in saves : <<y, x>> \notin OpToRel(<, Nat)
      BY <1>5, <3>1, NatLessThanWellFounded, WFMin
    <3>3. \A y \in saves : ~(y < x)
      BY <3>1, <3>2 DEF OpToRel
    <3> QED
      BY <3>1, <3>3
  <2> QED
    BY <2>1 DEF Turn!Min
<1>7. trace[Turn!Min(saves)].of = n.of
  <2>1. PICK j \in saves : j <= Turn!Min(saves) /\ trace[j].of = n.of
    BY <1>4, <1>6
  <2>2. j = Turn!Min(saves)
    BY <1>2, <1>3, <1>6, <2>1
  <2> QED
    BY <2>1, <2>2
<1>8. Turn!Correlation(trace, Turn!Events, n) = n.of
  BY <1>5, <1>7 DEF Turn!Correlation, saves
<1>9. PICK k \in Turn!Events : trace[k].kind = "delivery" /\ trace[k].box = b /\ trace[k].of = n.of
  BY <1>8 DEF Turn!ShownBoxes
<1> QED
  BY <1>1, <1>2, <1>9 DEF LogInv

LEMMA TurnInvSuffices ==
    TurnInv => /\ ClosedSittingKeepsNoWords /\ KeyAfterAnswer
               /\ AnswersAreShownAsCounted /\ TotalsAgree /\ Turn!TextIsLinked
<1> SUFFICES ASSUME TurnInv PROVE AnswersAreShownAsCounted
  BY MemoryAssumption, DatedTotalsAgree, LinksHold DEF TurnInv, WordsInv, KeyInv, DatesInv
<1>1. ASSUME page.open, NEW n \in page.notes, n.correct # None
      PROVE  {g.correct : g \in {h \in Effective(grades) :
                h.id[1] \in {"answer", "human"} /\ h.item = n.item}} = {n.correct}
  <2>1. PICK m \in DOMAIN journal : IsNoteOf(n, m)
    BY <1>1 DEF TurnInv, PageInv, NotesRepeat
  <2> QED
    BY <1>1, <2>1, VerdictsAgree
<1> QED
  BY <1>1, ShownOnce DEF AnswersAreShownAsCounted

-----------------------------------------------------------------------------
(***************************************************************************)
(* A sitting that is over keeps none of the child's words, whichever       *)
(* write the handler that closed it died after (study_session.py).         *)
(***************************************************************************)
THEOREM SittingsForgetWords == Turn!TurnsAssumption /\ Turn!Spec => []ClosedSittingKeepsNoWords
<1>1. Turn!TurnsAssumption /\ Turn!Init => TurnInv
  BY TurnInvInit
<1> QED
  BY <1>1, TurnInvStep, TurnInvSuffices, PTL DEF Turn!Spec

(***************************************************************************)
(* The answer of a question goes to the model that explains it only after  *)
(* an answer of the child to it is in the grade log (explain_context).     *)
(***************************************************************************)
THEOREM KeysFollowAnswers == Turn!TurnsAssumption /\ Turn!Spec => []KeyAfterAnswer
<1>1. Turn!TurnsAssumption /\ Turn!Init => TurnInv
  BY TurnInvInit
<1> QED
  BY <1>1, TurnInvStep, TurnInvSuffices, PTL DEF Turn!Spec

(***************************************************************************)
(* The page of the family's memory shows an answer once and with the       *)
(* verdict that its totals count, however many turns were handled, and     *)
(* answers decided, between its reading the notes and the grades.          *)
(***************************************************************************)
THEOREM ShownIsCounted == Turn!TurnsAssumption /\ Turn!Spec => []AnswersAreShownAsCounted
<1>1. Turn!TurnsAssumption /\ Turn!Init => TurnInv
  BY TurnInvInit
<1> QED
  BY <1>1, TurnInvStep, TurnInvSuffices, PTL DEF Turn!Spec

(***************************************************************************)
(* The totals of the family, of its topics and of its days are of the same *)
(* answers, each counted once, whichever grades were written or decided    *)
(* since the page was asked for (learning_topics, learning_evolution).     *)
(***************************************************************************)
THEOREM TotalsAreOfTheSameAnswers == Turn!TurnsAssumption /\ Turn!Spec => []TotalsAgree
<1>1. Turn!TurnsAssumption /\ Turn!Init => TurnInv
  BY TurnInvInit
<1> QED
  BY <1>1, TurnInvStep, TurnInvSuffices, PTL DEF Turn!Spec

(***************************************************************************)
(* What the page shows as said to a note was sent for its message, as long *)
(* as the events that are read go back to the note's first save, and that  *)
(* save was logged when the note was written (learning_episodes).          *)
(***************************************************************************)
THEOREM TextIsOfItsMessage == Turn!TurnsAssumption /\ Turn!Spec => []Turn!TextIsLinked
<1>1. Turn!TurnsAssumption /\ Turn!Init => TurnInv
  BY TurnInvInit
<1> QED
  BY <1>1, TurnInvStep, TurnInvSuffices, PTL DEF Turn!Spec
=============================================================================
