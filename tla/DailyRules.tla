----------------------------- MODULE DailyRules -----------------------------
(***************************************************************************)
(* The rules the daily round decides by: the questions of a capsule, the   *)
(* days that count, who has gone silent, which sections struggle, and      *)
(* which questions have told nothing.                                      *)
(***************************************************************************)
EXTENDS Listing, Integers, FiniteSets, SequencesExt, FiniteSetsExt

CONSTANTS Item,             \* questions, by the number that orders their ids
          ItemOf,           \* competency, kind, difficulty, family, variant, stem
          Curriculum        \* the competencies of the child's grade

Smaller(a, b) == IF a < b THEN a ELSE b
Larger(a, b) == IF a > b THEN a ELSE b
Distance(a, b) == Larger(a - b, b - a)

Taken(s, n) == SubSeq(s, 1, Smaller(n, Len(s)))

\* Keys are sequences of numbers: the first that differ decide.
Before(x, y) == \E n \in DOMAIN x : x[n] < y[n] /\ \A m \in 1..(n - 1) : x[m] = y[m]

InOrder(S, keyOf) == Listed(S, {p \in S \X S : Before(keyOf[p[1]], keyOf[p[2]])})

-----------------------------------------------------------------------------
(***************************************************************************)
(* The questions of a capsule.                                             *)
(***************************************************************************)
Shared == 0

Competency(i) == ItemOf[i].competency

\* The bank of a family: its own questions, and the shared ones.
BankItems(f, retired) ==
    {i \in Item \ retired :
        /\ Competency(i) \in Curriculum
        /\ ItemOf[i].family \in {f, Shared}
        /\ ~ItemOf[i].variant}

\* Where a difficulty was adapted, only the questions nearest to it are left.
SelectAdapted(items, tunings) ==
    {i \in items : \A t \in tunings : t.competency = Competency(i) =>
        \A j \in items : Competency(j) = t.competency =>
            Distance(ItemOf[i].difficulty, t.difficulty)
                <= Distance(ItemOf[j].difficulty, t.difficulty)}

UnknownAccuracy == 50

Accuracy(known, c) == IF c \in DOMAIN known THEN known[c] ELSE UnknownAccuracy

WeakestFirst(items, known) ==
    InOrder(items, [i \in items |-> <<Accuracy(known, Competency(i)), i>>])

DueItems(spaced, today, limit) ==
    LET due == {s \in spaced : s.due <= today}
        keyOf == [s \in due |-> <<s.due, -s.lapses, s.item>>]
        order == InOrder(due, keyOf)
    IN  Taken([n \in DOMAIN order |-> order[n].item], limit)

\* The questions of a competency and kind, the easiest first.
Easiest(items, c, kind) ==
    LET pool == {i \in items : Competency(i) = c /\ ItemOf[i].kind = kind}
    IN  InOrder(pool, [i \in pool |-> <<ItemOf[i].difficulty, ItemOf[i].stem, i>>])

\* Of three or more, one recognises and the others of its competency explain.
Mixed(unseen, known, limit) ==
    LET weakest == Competency(WeakestFirst(unseen, known)[1])
        choosing == Easiest(unseen, weakest, "mcq")
        explaining == Easiest(unseen, weakest, "open")
        mixed == Taken(choosing, 1) \o Taken(explaining, limit - 1)
    IN  IF choosing = <<>> \/ explaining = <<>>
        THEN WeakestFirst(unseen, known)
        ELSE mixed \o WeakestFirst(unseen \ ToSet(mixed), known)

Unseen(spaced, active) == {i \in active : \A s \in spaced : s.item # i}

WeakestUnseen(spaced, known, active, limit) ==
    LET unseen == Unseen(spaced, active)
    IN  Taken(IF limit >= 3 /\ unseen # {}
              THEN Mixed(unseen, known, limit) ELSE WeakestFirst(unseen, known), limit)

NewItemReserve == 1

\* Mutant of PlanItems: what is due is taken up to the limit.
PlanDueFirst(spaced, known, active, today, limit) ==
    LET planned == DueItems(spaced, today, limit)
    IN  planned \o Taken(WeakestUnseen(spaced, known, active, limit), limit - Len(planned))

\* What is due, with a place kept for something new; then what is new.
PlanItems(spaced, known, active, today, limit) ==
    LET unseen == WeakestUnseen(spaced, known, active, limit)
        dueLimit == IF unseen = <<>> THEN limit ELSE Larger(1, limit - NewItemReserve)
        planned == DueItems(spaced, today, dueLimit)
    IN  planned \o Taken(unseen, limit - Len(planned))

\* A recognising question that must be explained becomes a variant of its own.
Variant(i) == -i

OpenVariants(items, forced) ==
    [n \in DOMAIN items |->
        IF Competency(items[n]) \in forced /\ ItemOf[items[n]].kind = "mcq"
        THEN Variant(items[n]) ELSE items[n]]

-----------------------------------------------------------------------------
(***************************************************************************)
(* Grades that count.                                                      *)
(***************************************************************************)
EffectiveGrades(log) == {g \in log : \A h \in log : h.supersedes # g.id}

\* Those that settle something: a held grade has no verdict.
FinalGrades(log) == {g \in EffectiveGrades(log) : g.verdict # "held"}

Count(S) == Cardinality(S)

-----------------------------------------------------------------------------
(***************************************************************************)
(* Silence.  Counts are by day, oldest first.                              *)
(***************************************************************************)
DailyCount(log, d) == Count({g \in log : g.day = d})

OutageCollapse == 10        \* a fifth of the median, against its double

BaselineWindow == 7

MedianTwice(s) ==
    LET sorted == SortSeq(s, <)
        n == Len(s)
    IN  IF n % 2 = 1 THEN 2 * sorted[(n + 1) \div 2] ELSE sorted[n \div 2] + sorted[n \div 2 + 1]

\* Days on which hardly anybody answered: nobody is silent on those.
OutageDays(totalOf, days) ==
    LET latest(s) == SubSeq(s, Larger(1, Len(s) - BaselineWindow + 1), Len(s))
        step(seen, d) ==
            CASE seen.baseline # <<>> /\ totalOf[d] * OutageCollapse < MedianTwice(latest(seen.baseline)) ->
                     [seen EXCEPT !.collapsed = @ \cup {d}]
              [] seen.baseline # <<>> /\ totalOf[d] * OutageCollapse >= MedianTwice(latest(seen.baseline))
                   /\ totalOf[d] > 0 -> [seen EXCEPT !.baseline = Append(@, totalOf[d])]
              [] seen.baseline = <<>> /\ totalOf[d] > 0 ->
                     [seen EXCEPT !.baseline = Append(@, totalOf[d])]
              [] OTHER -> seen
    IN  FoldLeft(step, [collapsed |-> {}, baseline |-> <<>>], days).collapsed

TrailingSilentDays(counts) ==
    Count({n \in DOMAIN counts : \A m \in n..Len(counts) : counts[m] = 0})

EngagementTrigger(counts, minActive, silentDays) ==
    /\ Count({n \in DOMAIN counts : counts[n] > 0}) >= minActive
    /\ TrailingSilentDays(counts) >= silentDays

-----------------------------------------------------------------------------
(***************************************************************************)
(* Questions that have told nothing: nearly everybody knows them or nobody *)
(* does, or who knows them is not who knows the rest.                      *)
(***************************************************************************)
Scale == 12

MinObservations == 5

Right(g) == IF g.verdict = "right" THEN 1 ELSE 0

\* The share a student gets right, of Scale.
StudentTotal(grades, student) ==
    LET own == {g \in grades : g.student = student}
    IN  (Scale * Count({g \in own : g.verdict = "right"})) \div Count(own)

\* n * n times the covariance of two scores over a set of observations.
Covariance(S, x, y) ==
    Count(S) * MapThenSumSet(LAMBDA g : x[g] * y[g], S)
        - MapThenSumSet(LAMBDA g : x[g], S) * MapThenSumSet(LAMBDA g : y[g], S)

\* The correlation is less than 0.15 either way, or there is none to compute.
TellsNothing(observed, right, total) ==
    LET c == Covariance(observed, right, total)
    IN  \/ Count(observed) < MinObservations
        \/ Covariance(observed, right, right) = 0
        \/ Covariance(observed, total, total) = 0
        \/ 400 * c * c < 9 * Covariance(observed, right, right) * Covariance(observed, total, total)

ShouldRetire(i, grades, minAttempts) ==
    LET observed == {g \in grades : g.item = i}
        right == [g \in observed |-> Right(g)]
        total == [g \in observed |-> StudentTotal(grades, g.student)]
        known == 100 * Count({g \in observed : g.verdict = "right"})
    IN  /\ observed # {} /\ Count(observed) >= minAttempts
        /\ \/ known >= 95 * Count(observed) \/ known <= 5 * Count(observed)
           \/ TellsNothing(observed, right, total)

RetirementCandidates(items, retired, grades, minAttempts) ==
    {i \in items \ retired : ShouldRetire(i, grades, minAttempts)}
=============================================================================
