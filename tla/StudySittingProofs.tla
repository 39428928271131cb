------------------------- MODULE StudySittingProofs -------------------------
(***************************************************************************)
(* Why a sitting shows only what was counted, asks nothing twice, and ends *)
(* the day of a child who gets too many wrong.                             *)
(*                                                                         *)
(* At most the last sitting is open, and none once the day was ended.  The *)
(* answer of a turn is put into the sitting it was graded in: the turn     *)
(* holds the question, nobody else writes a sitting meanwhile, and none    *)
(* that idled too long is open while a turn is handled.                    *)
(***************************************************************************)
EXTENDS StudySitting, WellFoundedInduction, FiniteSetTheorems, TLAPS

-----------------------------------------------------------------------------
Sitting ==
    [status : {"active", "closed", "abandoned"}, enough : BOOLEAN, served : Seq(Item),
     answered : SUBSET Nat, wrong : Nat, questions : Int, late : BOOLEAN, stale : BOOLEAN]

Open(i) == sittings[i].status = "active"

Shape ==
    /\ sittings \in Seq(Sitting)
    /\ capsule \in [items : SUBSET Item, index : Nat,
                    status : {"none", "in_progress", "completed"}]
    /\ pc \in {"idle", "turn", "start", "outcome", "answered", "reply"}

\* Of the day's sittings at most the last is open, and it has asked something.
LastIsOpen ==
    \A i \in DOMAIN sittings :
        Open(i) => i = Len(sittings) /\ sittings[i].served # <<>>

\* Between two sittings that a change of topic puts, none is open.
NoneWhileStarting == pc = "start" => \A i \in DOMAIN sittings : ~Open(i)

\* A sitting asks no more than it may.
WithinBudget ==
    \A i \in DOMAIN sittings :
        Len(sittings[i].served) <= sittings[i].questions /\ sittings[i].questions <= ItemLimit

\* A turn begins with the sweep, and time stands still for what it left open.
Awake == pc # "idle" => \A i \in DOMAIN sittings : Open(i) => ~sittings[i].stale

\* Too many wrong answers end the day, and then no sitting is open.
WrongIsEnough ==
    \A i \in DOMAIN sittings : sittings[i].wrong >= WrongStop => sittings[i].enough

EnoughEndsTheDay == StoppedForToday => \A i \in DOMAIN sittings : ~Open(i)

\* What was counted is a question that was asked.
CountedWasAsked == outcomes \subseteq QuestionsServed

\* A graded answer is about the question its sitting asked last, which has no
\* answer yet; and it was counted before it is put.
TurnIsCurrent ==
    pc \in {"outcome", "answered"} =>
        /\ turn = CurrentQuestion(turn[1])
        /\ turn[1] \in DOMAIN sittings /\ Open(turn[1])

TurnIsCounted == pc = "answered" => turn \in outcomes

SittingsInv ==
    /\ LastIsOpen /\ WithinBudget /\ WrongIsEnough /\ EnoughEndsTheDay
    /\ CountedWasAsked /\ AnsweredIsCounted

TurnInv == NoneWhileStarting /\ Awake /\ TurnIsCurrent /\ TurnIsCounted

IInv == Shape /\ SittingsInv /\ TurnInv

-----------------------------------------------------------------------------
(***************************************************************************)
(* Numbers and sets.                                                       *)
(***************************************************************************)
LEMMA Least ==
    ASSUME NEW S, S \subseteq Nat, S # {}
    PROVE  \E n \in S : \A m \in S : n <= m
<1> DEFINE R == OpToRel(<, Nat)
<1>1. \A m, n \in Nat : <<m, n>> \in R <=> m < n
  BY DEF OpToRel
<1>2. IsWellFoundedOn(R, Nat)
  BY NatLessThanWellFounded
<1> HIDE DEF R
<1>3. PICK n \in S : \A m \in S : ~ (<<m, n>> \in R)
  BY <1>2, WFMin
<1>4. ASSUME NEW m \in S PROVE n <= m
  <2>1. m \in Nat /\ n \in Nat
    OBVIOUS
  <2>2. ~ (m < n)
    BY <1>1, <1>3, <2>1, Zenon
  <2> QED
    BY <2>1, <2>2
<1> QED
  BY <1>4

LEMMA FirstItem ==
    ASSUME NEW S, S \subseteq Item, S # {}
    PROVE  Min(S) \in S
<1>1. S \subseteq Nat
  BY SittingAssumption DEF Item
<1>2. \E n \in S : \A m \in S : n <= m
  BY <1>1, Least
<1> QED
  BY <1>2 DEF Min

LEMMA LeastOfTwo ==
    ASSUME NEW a \in Int, NEW b \in Int PROVE Min({a, b}) \in Int
<1>1. \E n \in {a, b} : \A m \in {a, b} : n <= m
  OBVIOUS
<1> QED
  BY <1>1 DEF Min

LEMMA LeastOfThree ==
    ASSUME NEW a \in Int, NEW b \in Int, NEW c \in Int
    PROVE  Min({a, b, c}) \in Int /\ Min({a, b, c}) <= a
<1>1. \E n \in {a, b, c} : \A m \in {a, b, c} : n <= m
  OBVIOUS
<1>2. /\ Min({a, b, c}) \in {a, b, c}
      /\ \A m \in {a, b, c} : Min({a, b, c}) <= m
  BY <1>1 DEF Min
<1> QED
  BY <1>2

LEMMA CountsAreNumbers ==
    ASSUME Shape, WithinBudget
    PROVE  /\ ServedToday \in Int
           /\ \A S \in SUBSET Item : Cardinality(S) \in Int
<1>1. IsFiniteSet(Item) /\ \A S \in SUBSET Item : IsFiniteSet(S) /\ Cardinality(S) \in Int
  <2>1. IsFiniteSet(Item)
    BY SittingAssumption, FS_Interval DEF Item
  <2> QED
    BY <2>1, FS_Subset, FS_CardinalityType
<1>2. Cardinality(QuestionsServed) \in Int
  <2> DEFINE Places == (1..Len(sittings)) \X (1..ItemLimit)
  <2>1. Len(sittings) \in Nat /\ ItemLimit \in Nat
    BY SittingAssumption DEF Shape
  <2>2. IsFiniteSet(Places)
    <3>1. IsFiniteSet(1..Len(sittings)) /\ IsFiniteSet(1..ItemLimit)
      BY <2>1, FS_Interval
    <3> QED
      BY <3>1, FS_Product
  <2>3. ASSUME NEW i \in DOMAIN sittings
        PROVE  {i} \X DOMAIN sittings[i].served \subseteq Places
    <3>1. i \in 1..Len(sittings) /\ sittings[i] \in Sitting
      BY <2>1 DEF Shape
    <3>2. /\ Len(sittings[i].served) \in Nat /\ sittings[i].questions \in Int
          /\ DOMAIN sittings[i].served = 1..Len(sittings[i].served)
      BY <3>1 DEF Sitting
    <3>3. 1..Len(sittings[i].served) \subseteq 1..ItemLimit
      <4>1. Len(sittings[i].served) <= sittings[i].questions /\ sittings[i].questions <= ItemLimit
        BY DEF WithinBudget
      <4> QED
        BY <2>1, <3>2, <4>1
    <3> QED
      BY <3>1, <3>2, <3>3
  <2>4. QuestionsServed \in SUBSET Places
    BY <2>3 DEF QuestionsServed
  <2> QED
    BY <2>2, <2>4, FS_Subset, FS_CardinalityType
<1>3. CapsuleServed \in Int
  BY <1>1, LeastOfTwo DEF CapsuleServed, Shape
<1> QED
  BY <1>1, <1>2, <1>3 DEF ServedToday

-----------------------------------------------------------------------------
(***************************************************************************)
(* What the functions of the harness do to a sitting.                      *)
(***************************************************************************)
\* Closed without a question, or going on with one that is available.
LEMMA ServeNextIs ==
    ASSUME NEW s \in Sitting, s.status = "active", ~s.enough,
           Len(s.served) <= s.questions, s.questions <= ItemLimit
    PROVE  /\ ServeNext(s) \in Sitting
           /\ ServeNext(s).answered = s.answered /\ ServeNext(s).wrong = s.wrong
           /\ ServeNext(s).questions = s.questions
           /\ \/ /\ ServeNext(s).status = "closed" /\ ServeNext(s).served = s.served
                 /\ s.wrong >= WrongStop => ServeNext(s).enough
              \/ /\ ServeNext(s).status = "active" /\ ~ServeNext(s).stale
                 /\ ~ServeNext(s).enough /\ ~(s.wrong >= WrongStop)
                 /\ Len(s.served) < s.questions
                 /\ \E x \in Available(s) : ServeNext(s).served = Append(s.served, x)
<1> DEFINE why == StopReason(s, ServedToday)
           closed(reason) == CloseWith(s, reason)
<1>0. WrongStop \in Nat /\ s.wrong \in Nat /\ s.questions \in Int /\ Len(s.served) \in Nat
  BY SittingAssumption DEF Sitting
<1>1. ASSUME NEW reason
      PROVE  /\ closed(reason) \in Sitting
             /\ closed(reason).answered = s.answered /\ closed(reason).wrong = s.wrong
             /\ closed(reason).questions = s.questions
             /\ closed(reason).status = "closed" /\ closed(reason).served = s.served
             /\ reason = "enough_for_today" => closed(reason).enough
  <2> DEFINE enough == reason = "enough_for_today"
  <2>1. enough \in BOOLEAN
    OBVIOUS
  <2>2. closed(reason) = [s EXCEPT !.status = "closed", !.enough = enough, !.late = FALSE,
                                   !.stale = FALSE]
    BY DEF CloseWith, Over
  <2> HIDE DEF enough
  <2>3. /\ closed(reason) \in Sitting
        /\ closed(reason).answered = s.answered /\ closed(reason).wrong = s.wrong
        /\ closed(reason).questions = s.questions
        /\ closed(reason).status = "closed" /\ closed(reason).served = s.served
        /\ closed(reason).enough = enough
    BY <2>1, <2>2 DEF Sitting
  <2> QED
    BY <2>3 DEF enough
<1>2. s.wrong >= WrongStop => why = "enough_for_today"
  BY DEF StopReason
<1>3. why = "none" => ~(s.wrong >= WrongStop) /\ Len(s.served) < s.questions
  BY <1>0 DEF StopReason, QuestionsLeft
<1>4. ASSUME NEW x \in Available(s), ServeNext(s) = RecordServed(s, x)
      PROVE  /\ ServeNext(s) \in Sitting
             /\ ServeNext(s).answered = s.answered /\ ServeNext(s).wrong = s.wrong
             /\ ServeNext(s).questions = s.questions
             /\ ServeNext(s).status = "active" /\ ~ServeNext(s).stale
             /\ ~ServeNext(s).enough /\ ServeNext(s).served = Append(s.served, x)
  <2>1. x \in Item
    BY DEF Available
  <2>2. Append(s.served, x) \in Seq(Item)
    BY <2>1 DEF Sitting
  <2> QED
    BY <1>4, <2>2 DEF RecordServed, Sitting
<1> HIDE DEF closed
<1>5. CASE why # "none"
  <2>1. ServeNext(s) = closed(why)
    BY <1>5 DEF ServeNext, closed
  <2> HIDE DEF why
  <2> QED
    BY <1>1, <1>2, <2>1
<1>6. CASE why = "none" /\ Available(s) = {}
  <2>1. ServeNext(s) = closed("bank_empty")
    BY <1>6 DEF ServeNext, closed
  <2> HIDE DEF why
  <2> QED
    BY <1>1, <1>3, <1>6, <2>1
<1>7. CASE why = "none" /\ Available(s) # {}
  <2>1. ServeNext(s) = RecordServed(s, Min(Available(s)))
    BY <1>7 DEF ServeNext
  <2>2. Min(Available(s)) \in Available(s)
    BY <1>7, FirstItem DEF Available
  <2> HIDE DEF why
  <2> QED
    BY <1>3, <1>4, <1>7, <2>1, <2>2
<1> QED
  BY <1>5, <1>6, <1>7

LEMMA RecordAnswerIs ==
    ASSUME NEW s \in Sitting, NEW correct
    PROVE  LET t == RecordAnswer(s, correct)
           IN  /\ t \in Sitting
               /\ t.answered = s.answered \cup {Len(s.served)}
               /\ t.served = s.served /\ t.status = s.status /\ t.enough = s.enough
               /\ t.questions = s.questions
<1>1. /\ Len(s.served) \in Nat
      /\ (IF correct THEN 0 ELSE s.wrong + 1) \in Nat
  BY DEF Sitting
<1> QED
  BY <1>1 DEF RecordAnswer, Sitting

LEMMA NewSittingIs ==
    ASSUME NEW n \in Int
    PROVE  LET t == NewSitting(n)
           IN  /\ t \in Sitting /\ t.status = "active" /\ ~t.enough /\ t.served = <<>>
               /\ t.answered = {} /\ t.wrong = 0 /\ t.questions = n
  BY DEF NewSitting, Sitting

LEMMA OpenSittingIs ==
    ASSUME Shape, LastIsOpen, Awake, pc # "idle"
    PROVE  \/ OpenSitting = 0 /\ \A i \in DOMAIN sittings : ~Open(i)
           \/ OpenSitting = Len(sittings) /\ OpenSitting \in DOMAIN sittings /\ Open(OpenSitting)
<1> DEFINE open == {i \in DOMAIN sittings :
                      sittings[i].status \in OpenStatus /\ ~sittings[i].stale}
<1>1. open = {i \in DOMAIN sittings : Open(i)}
  BY DEF OpenStatus, Open, Awake
<1>2. CASE open = {}
  BY <1>1, <1>2 DEF OpenSitting
<1>3. CASE open # {}
  <2>1. open = {Len(sittings)} /\ Len(sittings) \in Nat
    BY <1>1, <1>3 DEF LastIsOpen, Shape
  <2>2. Max(open) = Len(sittings)
    BY <2>1 DEF Max
  <2> QED
    BY <1>1, <1>3, <2>1, <2>2 DEF OpenSitting
<1> QED
  BY <1>2, <1>3

\* A sitting that is opened has its first question, or is closed at once.
LEMMA StartSittingIs ==
    ASSUME Shape, WithinBudget
    PROVE  \/ StartSitting = sittings
           \/ /\ ~StoppedForToday
              /\ \E t \in Sitting :
                   /\ StartSitting = Append(sittings, t)
                   /\ t.answered = {} /\ ~(t.wrong >= WrongStop)
                   /\ Len(t.served) <= t.questions /\ t.questions <= ItemLimit
                   /\ t.status = "active" => t.served # <<>> /\ ~t.stale /\ ~t.enough
                   /\ \A n \in DOMAIN t.served : t.served[n] \notin Reviewed
<1> DEFINE n == Min({ItemLimit, Allowance - ServedToday, Cardinality(Available(NewSitting(0)))})
           s == NewSitting(n)
           t == ServeNext(s)
<1>0. ItemLimit \in Nat \ {0} /\ SittingsPerDay \in Nat /\ WrongStop \in Nat \ {0}
  BY SittingAssumption
<1>1. n \in Int /\ n <= ItemLimit
  <2>1. Allowance - ServedToday \in Int
    BY <1>0, CountsAreNumbers DEF Allowance
  <2>2. Cardinality(Available(NewSitting(0))) \in Int
    BY CountsAreNumbers DEF Available
  <2> QED
    BY <1>0, <2>1, <2>2, LeastOfThree
<1>2. StartSitting = IF StoppedForToday \/ n < 1 THEN sittings ELSE Append(sittings, t)
  BY DEF StartSitting
<1> HIDE DEF n
<1>3. /\ s \in Sitting /\ s.status = "active" /\ ~s.enough /\ s.served = <<>>
      /\ s.answered = {} /\ s.wrong = 0 /\ s.questions = n
  BY <1>1, NewSittingIs
<1> HIDE DEF s
<1>4. ASSUME n >= 1
      PROVE  /\ t \in Sitting /\ t.answered = {} /\ ~(t.wrong >= WrongStop) /\ t.questions = n
             /\ \/ t.status = "closed" /\ t.served = <<>>
                \/ /\ t.status = "active" /\ ~t.stale /\ ~t.enough
                   /\ \E x \in Available(s) : t.served = Append(<<>>, x)
  <2>1. Len(s.served) <= s.questions /\ s.questions <= ItemLimit
    BY <1>1, <1>3, <1>4
  <2>2. ~(s.wrong >= WrongStop)
    BY <1>0, <1>3
  <2> QED
    BY <1>3, <2>1, <2>2, ServeNextIs
<1> HIDE DEF t
<1>5. ASSUME n >= 1
      PROVE  /\ Len(t.served) <= t.questions
             /\ t.status = "active" => t.served # <<>> /\ ~t.stale /\ ~t.enough
             /\ \A k \in DOMAIN t.served : t.served[k] \notin Reviewed
  <2>1. CASE t.status = "closed" /\ t.served = <<>>
    BY <1>1, <1>4, <1>5, <2>1
  <2>2. CASE t.status = "active" /\ ~t.stale /\ ~t.enough
             /\ \E x \in Available(s) : t.served = Append(<<>>, x)
    <3>1. PICK x \in Available(s) : t.served = Append(<<>>, x)
      BY <2>2
    <3>2. t.served = <<x>> /\ Len(t.served) = 1
      BY <3>1
    <3>3. x \notin Reviewed
      BY <3>1 DEF Available
    <3> QED
      BY <1>1, <1>4, <1>5, <2>2, <3>2, <3>3
  <2> QED
    BY <1>4, <1>5, <2>1, <2>2
<1>6. CASE StoppedForToday \/ n < 1
  BY <1>2, <1>6
<1>7. CASE ~StoppedForToday /\ n >= 1
  <2>1. StartSitting = Append(sittings, t)
    BY <1>1, <1>2, <1>7
  <2>2. t \in Sitting /\ t.answered = {} /\ ~(t.wrong >= WrongStop) /\ t.questions <= ItemLimit
    BY <1>1, <1>4, <1>7
  <2> QED
    BY <1>5, <1>7, <2>1, <2>2
<1> QED
  BY <1>1, <1>6, <1>7

LEMMA OverIs ==
    ASSUME NEW s \in Sitting, NEW status \in {"closed", "abandoned"}, NEW reason
    PROVE  LET t == Over(s, status, reason)
           IN  /\ t \in Sitting /\ t.status = status /\ t.served = s.served
               /\ t.answered = s.answered /\ t.wrong = s.wrong /\ t.questions = s.questions
<1> DEFINE enough == reason = "enough_for_today"
<1>1. enough \in BOOLEAN
  OBVIOUS
<1>2. Over(s, status, reason) = [s EXCEPT !.status = status, !.enough = enough, !.late = FALSE,
                                          !.stale = FALSE]
  BY DEF Over
<1> HIDE DEF enough
<1> QED
  BY <1>1, <1>2 DEF Sitting

-----------------------------------------------------------------------------
(***************************************************************************)
(* A change of the day's sittings keeps what holds of them when it touches *)
(* only the open one, or adds one when none is open.                       *)
(***************************************************************************)
\* What a sitting that is put must be.
Proper(t) ==
    /\ t \in Sitting
    /\ Len(t.served) <= t.questions /\ t.questions <= ItemLimit
    /\ t.wrong >= WrongStop => t.enough
    /\ t.status = "active" => t.served # <<>> /\ ~t.enough

\* The i-th sitting, put again as t, asked what it had asked and perhaps a new
\* question, and shows counted answers.
Onwards(i, t) ==
    /\ Open(i) /\ Proper(t)
    /\ DOMAIN sittings[i].served \subseteq DOMAIN t.served
    /\ \A n \in DOMAIN t.served \ DOMAIN sittings[i].served : t.served[n] \notin Reviewed
    /\ {i} \X t.answered \subseteq outcomes
    /\ pc # "idle" /\ t.status = "active" => ~t.stale

\* Nothing changes but open sittings, and those go on or end.
Rewrites(new) ==
    /\ new \in Seq(Sitting) /\ Len(new) = Len(sittings)
    /\ \A j \in DOMAIN sittings : new[j] = sittings[j] \/ Onwards(j, new[j])

LEMMA OpenIsProper ==
    ASSUME Shape, SittingsInv, NEW i \in DOMAIN sittings, Open(i)
    PROVE  Proper(sittings[i]) /\ ~(sittings[i].wrong >= WrongStop) /\ i = Len(sittings)
<1>1. sittings[i] \in Sitting /\ ~sittings[i].enough
  <2>1. sittings[i] \in Sitting
    BY DEF Shape
  <2>2. ~StoppedForToday
    BY DEF SittingsInv, EnoughEndsTheDay
  <2> QED
    BY <2>1, <2>2 DEF StoppedForToday
<1>2. sittings[i].served # <<>> /\ i = Len(sittings)
  BY DEF SittingsInv, LastIsOpen
<1>3. ~(sittings[i].wrong >= WrongStop)
  BY <1>1 DEF SittingsInv, WrongIsEnough
<1>4. Len(sittings[i].served) <= sittings[i].questions /\ sittings[i].questions <= ItemLimit
  BY DEF SittingsInv, WithinBudget
<1> QED
  BY <1>1, <1>2, <1>3, <1>4 DEF Proper

LEMMA Rewritten ==
    ASSUME Shape, SittingsInv, Rewrites(sittings'), UNCHANGED outcomes
    PROVE  SittingsInv' /\ QuestionsServed \subseteq QuestionsServed'
<1>1. /\ DOMAIN sittings' = DOMAIN sittings /\ Len(sittings') = Len(sittings)
      /\ \A j \in DOMAIN sittings : sittings'[j] = sittings[j] \/ Onwards(j, sittings'[j])
  BY DEF Rewrites, Shape
<1>2. \A j \in DOMAIN sittings : Open(j)' => Open(j)
  BY <1>1 DEF Onwards, Open
<1>3. LastIsOpen'
  BY <1>1, <1>2 DEF SittingsInv, LastIsOpen, Onwards, Proper, Open
<1>4. WithinBudget' /\ WrongIsEnough'
  BY <1>1 DEF SittingsInv, WithinBudget, WrongIsEnough, Onwards, Proper
<1>5. EnoughEndsTheDay'
  <2>1. SUFFICES ASSUME NEW i \in DOMAIN sittings, sittings'[i].enough,
                        NEW k \in DOMAIN sittings, Open(k)'
                 PROVE  FALSE
    BY <1>1 DEF EnoughEndsTheDay, StoppedForToday
  <2>2. Open(k)
    BY <1>2, <2>1
  <2>3. ~sittings[i].enough
    BY <2>2 DEF SittingsInv, EnoughEndsTheDay, StoppedForToday
  <2>4. Onwards(i, sittings'[i])
    BY <1>1, <2>1, <2>3
  <2>5. i = k
    BY <2>2, <2>4 DEF SittingsInv, LastIsOpen, Onwards
  <2> QED
    BY <2>1, <2>4, <2>5 DEF Onwards, Proper, Open
<1>6. QuestionsServed \subseteq QuestionsServed'
  <2>1. ASSUME NEW j \in DOMAIN sittings
        PROVE  DOMAIN sittings[j].served \subseteq DOMAIN sittings'[j].served
    BY <1>1 DEF Onwards
  <2>2. ASSUME NEW q \in QuestionsServed PROVE q \in QuestionsServed'
    <3>1. PICK j \in DOMAIN sittings : q \in {j} \X DOMAIN sittings[j].served
      BY <2>2 DEF QuestionsServed
    <3>2. q \in {j} \X DOMAIN sittings'[j].served
      BY <2>1, <3>1
    <3>3. j \in DOMAIN sittings'
      BY <1>1
    <3> QED
      BY <3>2, <3>3 DEF QuestionsServed
  <2> QED
    BY <2>2
<1>7. CountedWasAsked'
  BY <1>6 DEF SittingsInv, CountedWasAsked
<1>8. AnsweredIsCounted'
  <2>1. \A j \in DOMAIN sittings : {j} \X sittings'[j].answered \subseteq outcomes
    BY <1>1 DEF SittingsInv, AnsweredIsCounted, Onwards
  <2> QED
    BY <1>1, <2>1 DEF AnsweredIsCounted
<1> QED
  BY <1>3, <1>4, <1>5, <1>6, <1>7, <1>8 DEF SittingsInv

\* The sitting put again, one of them.
LEMMA PutIsRewrite ==
    ASSUME Shape, NEW i \in DOMAIN sittings, NEW t, Onwards(i, t)
    PROVE  Rewrites([sittings EXCEPT ![i] = t])
  BY DEF Shape, Rewrites, Onwards, Proper

LEMMA Appended ==
    ASSUME Shape, SittingsInv, UNCHANGED outcomes,
           \A i \in DOMAIN sittings : ~Open(i), ~StoppedForToday,
           NEW t, Proper(t), t.answered = {}, sittings' = Append(sittings, t)
    PROVE  SittingsInv' /\ sittings' \in Seq(Sitting)
<1> DEFINE n == Len(sittings)
<1>1. n \in Nat /\ DOMAIN sittings = 1..n /\ t \in Sitting
  BY DEF Shape, Proper
<1>2. /\ sittings' \in Seq(Sitting) /\ Len(sittings') = n + 1
      /\ DOMAIN sittings' = 1..(n + 1) /\ sittings'[n + 1] = t
      /\ \A j \in DOMAIN sittings : sittings'[j] = sittings[j]
  BY <1>1 DEF Shape
<1>3. \A j \in DOMAIN sittings' : j \in DOMAIN sittings \/ (j = n + 1 /\ sittings'[j] = t)
  BY <1>1, <1>2
<1>4. DOMAIN sittings \subseteq DOMAIN sittings'
  BY <1>1, <1>2
<1>5. \A j \in DOMAIN sittings' : Open(j)' => j = n + 1 /\ sittings'[j] = t
  BY <1>2, <1>3 DEF Open
<1>6. LastIsOpen'
  BY <1>2, <1>5 DEF LastIsOpen, Proper, Open
<1>7. WithinBudget' /\ WrongIsEnough'
  <2>1. ASSUME NEW j \in DOMAIN sittings'
        PROVE  /\ Len(sittings'[j].served) <= sittings'[j].questions
               /\ sittings'[j].questions <= ItemLimit
               /\ sittings'[j].wrong >= WrongStop => sittings'[j].enough
    <3>1. CASE j \in DOMAIN sittings
      BY <1>2, <3>1 DEF SittingsInv, WithinBudget, WrongIsEnough
    <3>2. CASE sittings'[j] = t
      BY <3>2 DEF Proper
    <3> QED
      BY <1>3, <3>1, <3>2
  <2> QED
    BY <2>1 DEF WithinBudget, WrongIsEnough
<1>8. EnoughEndsTheDay'
  <2>1. SUFFICES ASSUME NEW i \in DOMAIN sittings', sittings'[i].enough,
                        NEW k \in DOMAIN sittings', Open(k)'
                 PROVE  FALSE
    BY DEF EnoughEndsTheDay, StoppedForToday
  <2>2. sittings'[k] = t /\ ~t.enough
    BY <1>5, <2>1 DEF Open, Proper
  <2>3. i \in DOMAIN sittings
    BY <1>3, <2>1, <2>2
  <2> QED
    BY <1>2, <2>1, <2>3 DEF StoppedForToday
<1>9. CountedWasAsked'
  <2>1. ASSUME NEW q \in QuestionsServed PROVE q \in QuestionsServed'
    <3>1. PICK j \in DOMAIN sittings : q \in {j} \X DOMAIN sittings[j].served
      BY <2>1 DEF QuestionsServed
    <3>2. j \in DOMAIN sittings' /\ q \in {j} \X DOMAIN sittings'[j].served
      BY <1>2, <1>4, <3>1
    <3> QED
      BY <3>2 DEF QuestionsServed
  <2> QED
    BY <2>1 DEF SittingsInv, CountedWasAsked
<1>10. AnsweredIsCounted'
  <2>1. ASSUME NEW j \in DOMAIN sittings'
        PROVE  {j} \X sittings'[j].answered \subseteq outcomes
    <3>1. CASE j \in DOMAIN sittings
      BY <1>2, <3>1 DEF SittingsInv, AnsweredIsCounted
    <3>2. CASE sittings'[j] = t
      BY <3>2
    <3> QED
      BY <1>3, <3>1, <3>2
  <2> QED
    BY <2>1 DEF AnsweredIsCounted
<1> QED
  BY <1>2, <1>6, <1>7, <1>8, <1>9, <1>10 DEF SittingsInv

\* A new sitting, when none is open and the day is not over.
Adds(new) ==
    /\ \A i \in DOMAIN sittings : ~Open(i)
    /\ ~StoppedForToday
    /\ \E t : /\ new = Append(sittings, t) /\ Proper(t) /\ t.answered = {}
              /\ t.status = "active" => ~t.stale
              /\ \A n \in DOMAIN t.served : t.served[n] \notin Reviewed

-----------------------------------------------------------------------------
(***************************************************************************)
(* What each action does to the sittings.                                  *)
(***************************************************************************)
LEMMA ClosingGoesOn ==
    ASSUME Shape, SittingsInv, NEW i \in DOMAIN sittings, Open(i),
           NEW status \in {"closed", "abandoned"}, NEW reason
    PROVE  Onwards(i, Over(sittings[i], status, reason))
<1> DEFINE s == sittings[i]
           t == Over(s, status, reason)
<1>1. Proper(s) /\ ~(s.wrong >= WrongStop)
  BY OpenIsProper
<1>2. /\ t \in Sitting /\ t.status = status /\ t.served = s.served
      /\ t.answered = s.answered /\ t.wrong = s.wrong /\ t.questions = s.questions
  BY <1>1, OverIs DEF Proper
<1> HIDE DEF t
<1>3. Proper(t) /\ t.status # "active"
  BY <1>1, <1>2 DEF Proper
<1>4. {i} \X s.answered \subseteq outcomes
  BY DEF SittingsInv, AnsweredIsCounted
<1> QED
  BY <1>2, <1>3, <1>4 DEF Onwards, t

LEMMA ServingGoesOn ==
    ASSUME Shape, SittingsInv, NEW i \in DOMAIN sittings, Open(i),
           NEW s \in Sitting, s.status = "active", ~s.enough, s.served = sittings[i].served,
           s.questions = sittings[i].questions, {i} \X s.answered \subseteq outcomes
    PROVE  Onwards(i, ServeNext(s))
<1> DEFINE t == ServeNext(s)
<1>1. /\ Proper(sittings[i])
      /\ Len(s.served) <= s.questions /\ s.questions <= ItemLimit /\ s.served # <<>>
  <2>1. Proper(sittings[i])
    BY OpenIsProper
  <2> QED
    BY <2>1 DEF Proper, Open
<1>2. /\ t \in Sitting /\ t.answered = s.answered /\ t.wrong = s.wrong
      /\ t.questions = s.questions
      /\ \/ /\ t.status = "closed" /\ t.served = s.served
            /\ s.wrong >= WrongStop => t.enough
         \/ /\ t.status = "active" /\ ~t.stale
            /\ ~t.enough /\ ~(s.wrong >= WrongStop)
            /\ Len(s.served) < s.questions
            /\ \E x \in Available(s) : t.served = Append(s.served, x)
  BY <1>1, ServeNextIs
<1>3. s.served \in Seq(Item) /\ s.questions \in Int /\ ItemLimit \in Int
  BY SittingAssumption DEF Sitting
<1> HIDE DEF t
<1>4. CASE t.status = "closed" /\ t.served = s.served /\ (s.wrong >= WrongStop => t.enough)
  <2>1. Proper(t)
    BY <1>1, <1>2, <1>4 DEF Proper
  <2> QED
    BY <1>2, <1>4, <2>1 DEF Onwards, t
<1>5. CASE /\ t.status = "active" /\ ~t.stale /\ ~t.enough /\ ~(s.wrong >= WrongStop)
           /\ Len(s.served) < s.questions
           /\ \E x \in Available(s) : t.served = Append(s.served, x)
  <2>1. PICK x \in Available(s) : t.served = Append(s.served, x)
    BY <1>5
  <2>2. x \in Item /\ x \notin Reviewed
    BY DEF Available
  <2>3. /\ Len(t.served) = Len(s.served) + 1 /\ t.served # <<>>
        /\ DOMAIN s.served = 1..Len(s.served) /\ Len(s.served) \in Nat
        /\ DOMAIN t.served = 1..(Len(s.served) + 1)
        /\ t.served[Len(s.served) + 1] = x
    BY <1>3, <2>1, <2>2
  <2>4. Len(t.served) <= t.questions /\ t.questions <= ItemLimit
    BY <1>1, <1>2, <1>3, <1>5, <2>3
  <2>5. Proper(t)
    BY <1>2, <1>5, <2>3, <2>4 DEF Proper
  <2>6. \A n \in DOMAIN t.served \ DOMAIN s.served : t.served[n] \notin Reviewed
    BY <2>2, <2>3
  <2>7. DOMAIN s.served \subseteq DOMAIN t.served
    BY <2>3
  <2> QED
    BY <1>2, <1>5, <2>5, <2>6, <2>7 DEF Onwards, t
<1> QED
  BY <1>2, <1>4, <1>5

LEMMA TakeRewrites ==
    ASSUME Shape, SittingsInv
    PROVE  /\ Rewrites(Swept)
           /\ \A i \in DOMAIN Swept : Swept[i].status = "active" => ~Swept[i].stale
<1>1. ASSUME NEW i \in DOMAIN sittings, Open(i) PROVE Onwards(i, Abandon(sittings[i]))
  BY <1>1, ClosingGoesOn DEF Abandon
<1>2. ASSUME NEW i \in DOMAIN sittings
      PROVE  /\ Swept[i] = sittings[i] \/ Onwards(i, Swept[i])
             /\ Swept[i] \in Sitting
             /\ Swept[i].status = "active" => ~Swept[i].stale
  <2>1. CASE Open(i) /\ sittings[i].stale
    <3>1. Swept[i] = Abandon(sittings[i])
      BY <2>1 DEF Swept, OpenStatus, Open
    <3>2. Abandon(sittings[i]).status = "abandoned"
      <4>1. sittings[i] \in Sitting
        BY DEF Shape
      <4> QED
        BY <4>1, OverIs DEF Abandon
    <3> QED
      BY <1>1, <2>1, <3>1, <3>2 DEF Onwards, Proper
  <2>2. CASE ~(Open(i) /\ sittings[i].stale)
    BY <2>2 DEF Swept, OpenStatus, Open, Shape
  <2> QED
    BY <2>1, <2>2
<1>3. DOMAIN Swept = DOMAIN sittings /\ DOMAIN sittings = 1..Len(sittings)
  BY DEF Swept, Shape
<1>4. Swept \in Seq(Sitting) /\ Len(Swept) = Len(sittings)
  <2> DEFINE n == Len(sittings)
  <2>1. n \in Nat
    BY DEF Shape
  <2>2. Swept = [i \in 1..n |-> Swept[i]]
    BY <1>3 DEF Swept
  <2>3. \A i \in 1..n : Swept[i] \in Sitting
    BY <1>2, <1>3
  <2> HIDE DEF n
  <2>4. Swept \in [1..n -> Sitting]
    BY <2>2, <2>3
  <2>5. Swept \in Seq(Sitting) /\ Len(Swept) = n
    BY <2>1, <2>4
  <2> QED
    BY <2>5 DEF n
<1> QED
  BY <1>2, <1>3, <1>4 DEF Rewrites

LEMMA TimeRewrites ==
    ASSUME Shape, SittingsInv, NEW i \in DOMAIN sittings
    PROVE  /\ MinutesPass(i) /\ Awake => Rewrites(sittings')
           /\ IdlePasses(i) => Rewrites(sittings')
<1> SUFFICES ASSUME Open(i)
             PROVE  /\ MinutesPass(i) /\ Awake => Rewrites(sittings')
                    /\ IdlePasses(i) => Rewrites(sittings')
  BY DEF MinutesPass, IdlePasses, Open, OpenStatus
<1>1. Proper(sittings[i]) /\ sittings[i] \in Sitting
  BY OpenIsProper DEF Proper
<1>2. {i} \X sittings[i].answered \subseteq outcomes
  BY DEF SittingsInv, AnsweredIsCounted
<1>3. ASSUME MinutesPass(i), Awake PROVE Rewrites(sittings')
  <2> DEFINE t == [sittings[i] EXCEPT !.late = TRUE]
  <2>1. sittings' = [sittings EXCEPT ![i] = t]
    BY <1>3 DEF MinutesPass, Shape
  <2>2. /\ t \in Sitting /\ t.status = sittings[i].status /\ t.served = sittings[i].served
        /\ t.answered = sittings[i].answered /\ t.wrong = sittings[i].wrong
        /\ t.questions = sittings[i].questions /\ t.enough = sittings[i].enough
        /\ t.stale = sittings[i].stale
    BY <1>1 DEF Sitting
  <2> HIDE DEF t
  <2>3. Onwards(i, t)
    BY <1>1, <1>2, <1>3, <2>2 DEF Onwards, Proper, Awake
  <2> QED
    BY <2>1, <2>3, PutIsRewrite
<1>4. ASSUME IdlePasses(i) PROVE Rewrites(sittings')
  <2> DEFINE t == [sittings[i] EXCEPT !.stale = TRUE]
  <2>1. sittings' = [sittings EXCEPT ![i] = t] /\ pc = "idle"
    BY <1>4 DEF IdlePasses, Shape
  <2>2. /\ t \in Sitting /\ t.status = sittings[i].status /\ t.served = sittings[i].served
        /\ t.answered = sittings[i].answered /\ t.wrong = sittings[i].wrong
        /\ t.questions = sittings[i].questions /\ t.enough = sittings[i].enough
    BY <1>1 DEF Sitting
  <2> HIDE DEF t
  <2>3. Onwards(i, t)
    BY <1>1, <1>2, <2>1, <2>2 DEF Onwards, Proper
  <2> QED
    BY <2>1, <2>3, PutIsRewrite
<1> QED
  BY <1>3, <1>4

LEMMA ClosingRewrites ==
    ASSUME Shape, SittingsInv, Awake, pc # "idle", OpenSitting # 0, NEW reason,
           sittings' = [sittings EXCEPT ![OpenSitting] = CloseWith(@, reason)]
    PROVE  Rewrites(sittings') /\ \A i \in DOMAIN sittings' : ~Open(i)'
<1> DEFINE t == CloseWith(sittings[OpenSitting], reason)
<1>1. OpenSitting \in DOMAIN sittings /\ Open(OpenSitting) /\ OpenSitting = Len(sittings)
  BY OpenSittingIs DEF SittingsInv
<1>2. Onwards(OpenSitting, t) /\ t.status = "closed"
  <2>1. sittings[OpenSitting] \in Sitting
    BY <1>1 DEF Shape
  <2> QED
    BY <1>1, <2>1, ClosingGoesOn, OverIs DEF CloseWith
<1>3. sittings' = [sittings EXCEPT ![OpenSitting] = t]
  OBVIOUS
<1> HIDE DEF t
<1>4. Rewrites(sittings')
  <2>1. Rewrites([sittings EXCEPT ![OpenSitting] = t])
    BY <1>1, <1>2, PutIsRewrite
  <2> QED
    BY <1>3, <2>1
<1>5. ASSUME NEW i \in DOMAIN sittings', Open(i)' PROVE FALSE
  <2>1. i \in DOMAIN sittings /\ (i # OpenSitting => sittings'[i] = sittings[i])
    BY <1>3, <1>5 DEF Shape
  <2>2. i # OpenSitting
    BY <1>1, <1>2, <1>3, <1>5 DEF Open
  <2>3. Open(i)
    BY <1>5, <2>1, <2>2 DEF Open
  <2> QED
    BY <1>1, <2>1, <2>2, <2>3 DEF SittingsInv, LastIsOpen
<1> QED
  BY <1>4, <1>5

LEMMA StartingAdds ==
    ASSUME Shape, SittingsInv, \A i \in DOMAIN sittings : ~Open(i), sittings' = StartSitting
    PROVE  UNCHANGED sittings \/ Adds(sittings')
<1>1. CASE StartSitting = sittings
  BY <1>1
<1>2. CASE ~StoppedForToday /\ \E t \in Sitting :
                   /\ StartSitting = Append(sittings, t)
                   /\ t.answered = {} /\ ~(t.wrong >= WrongStop)
                   /\ Len(t.served) <= t.questions /\ t.questions <= ItemLimit
                   /\ t.status = "active" => t.served # <<>> /\ ~t.stale /\ ~t.enough
                   /\ \A n \in DOMAIN t.served : t.served[n] \notin Reviewed
  BY <1>2 DEF Adds, Proper
<1> QED
  BY <1>1, <1>2, StartSittingIs DEF SittingsInv

LEMMA PuttingRewrites ==
    ASSUME Shape, SittingsInv, TurnIsCurrent, TurnIsCounted, PutAnswered
    PROVE  Rewrites(sittings')
<1> DEFINE i == turn[1]
           s == RecordAnswer(sittings[i], inbox[slot].correct)
<1>1. i \in DOMAIN sittings /\ Open(i) /\ turn = CurrentQuestion(i) /\ turn \in outcomes
  BY DEF PutAnswered, TurnIsCurrent, TurnIsCounted
<1>2. sittings' = [sittings EXCEPT ![i] = ServeNext(s)]
  BY DEF PutAnswered
<1>3. /\ sittings[i] \in Sitting /\ sittings[i].status = "active" /\ ~sittings[i].enough
  BY <1>1, OpenIsProper DEF Proper, Open
<1>4. /\ s \in Sitting /\ s.answered = sittings[i].answered \cup {Len(sittings[i].served)}
      /\ s.served = sittings[i].served /\ s.status = "active" /\ ~s.enough
      /\ s.questions = sittings[i].questions
  BY <1>3, RecordAnswerIs
<1>5. <<i, Len(sittings[i].served)>> \in outcomes
  <2>1. i \in 1..Len(sittings) /\ Len(sittings) \in Nat
    BY <1>1 DEF Shape
  <2> QED
    BY <1>1, <2>1 DEF CurrentQuestion
<1> HIDE DEF s, i
<1>6. {i} \X s.answered \subseteq outcomes
  <2>1. {i} \X sittings[i].answered \subseteq outcomes
    BY <1>1 DEF SittingsInv, AnsweredIsCounted
  <2> QED
    BY <1>4, <1>5, <2>1
<1>7. Onwards(i, ServeNext(s))
  BY <1>1, <1>4, <1>6, ServingGoesOn
<1> QED
  BY <1>1, <1>2, <1>7, PutIsRewrite

LEMMA SessionRewritesOrAdds ==
    ASSUME Shape, SittingsInv, Awake, Session
    PROVE  UNCHANGED sittings \/ Rewrites(sittings') \/ Adds(sittings')
<1>1. pc # "idle"
  BY DEF Session, Saying
<1>2. CASE OpenSitting = 0
  <2>1. sittings' = StartSitting
    BY <1>2 DEF Session
  <2>2. \A i \in DOMAIN sittings : ~Open(i)
    BY <1>1, <1>2, OpenSittingIs DEF SittingsInv, Shape
  <2> QED
    BY <2>1, <2>2, StartingAdds
<1>3. CASE OpenSitting # 0
  <2>1. OpenSitting \in DOMAIN sittings /\ Open(OpenSitting)
    BY <1>1, <1>3, OpenSittingIs DEF SittingsInv
  <2> DEFINE s == sittings[OpenSitting]
  <2>2. s \in Sitting /\ s.status = "active" /\ ~s.enough
    BY <2>1, OpenIsProper DEF Proper, Open
  <2>3. {OpenSitting} \X s.answered \subseteq outcomes
    BY <2>1 DEF SittingsInv, AnsweredIsCounted
  <2>4. Onwards(OpenSitting, ServeNext(s))
    BY <2>1, <2>2, <2>3, ServingGoesOn
  <2>5. sittings' = [sittings EXCEPT ![OpenSitting] = ServeNext(s)]
    BY <1>3 DEF Session
  <2> HIDE DEF s
  <2>6. Rewrites([sittings EXCEPT ![OpenSitting] = ServeNext(s)])
    BY <2>1, <2>4, PutIsRewrite
  <2> QED
    BY <2>5, <2>6
<1> QED
  BY <1>2, <1>3

\* Every step that changes the sittings rewrites the open one or adds one.
LEMMA SittingsChange ==
    ASSUME IInv, Next
    PROVE  UNCHANGED sittings \/ Rewrites(sittings') \/ Adds(sittings')
<1> USE DEF IInv, TurnInv
<1>1. ASSUME NEW m \in Slot, Take(m) PROVE Rewrites(sittings')
  BY <1>1, TakeRewrites DEF Take
<1>2. ASSUME NEW i \in DOMAIN sittings, MinutesPass(i) \/ IdlePasses(i)
      PROVE  Rewrites(sittings')
  BY <1>2, TimeRewrites
<1>3. CASE Session
  BY <1>3, SessionRewritesOrAdds
<1>4. CASE Topic \/ Done
  <2>1. pc # "idle"
    BY <1>4 DEF Topic, Done, Saying
  <2>2. \/ UNCHANGED sittings
        \/ /\ OpenSitting # 0
           /\ \E reason : sittings' = [sittings EXCEPT ![OpenSitting] = CloseWith(@, reason)]
    BY <1>4 DEF Topic, Done, CloseSitting
  <2> QED
    BY <2>1, <2>2, ClosingRewrites
<1>5. CASE StartTopic
  <2>1. pc = "start" /\ sittings' = StartSitting
    BY <1>5 DEF StartTopic
  <2> QED
    BY <2>1, StartingAdds DEF NoneWhileStarting
<1>6. CASE PutAnswered
  BY <1>6, PuttingRewrites
<1>7. CASE \E m \in Slot :
             \/ \E kind \in Command : SendCommand(m, kind)
             \/ \E correct \in BOOLEAN : SendText(m, correct) \/ SendButton(m, correct)
  BY <1>7 DEF SendCommand, SendText, SendButton, Send, store
<1>8. CASE ReplyOnly \/ Grade \/ CountOutcome \/ Reply \/ Crash \/ ComposeCapsule \/ CapsuleAnswer
  BY <1>8 DEF ReplyOnly, Grade, CountOutcome, Reply, Crash, ComposeCapsule, CapsuleAnswer, store
<1> QED
  BY <1>1, <1>2, <1>3, <1>4, <1>5, <1>6, <1>7, <1>8 DEF Next

\* Outcomes are counted apart from any change of the sittings.
LEMMA OutcomesChange ==
    ASSUME Next
    PROVE  UNCHANGED outcomes \/ CountOutcome
  BY DEF Next, Take, SendCommand, SendText, SendButton, Send, ReplyOnly, Session, Topic,
         StartTopic, Done, CloseSitting, Grade, PutAnswered, Reply, Crash, MinutesPass,
         IdlePasses, ComposeCapsule, CapsuleAnswer, store

LEMMA AddingKeepsSittings ==
    ASSUME Shape, SittingsInv, UNCHANGED outcomes, Adds(sittings')
    PROVE  SittingsInv' /\ sittings' \in Seq(Sitting)
  BY Appended DEF Adds

LEMMA CountingKeepsSittings ==
    ASSUME Shape, SittingsInv, TurnIsCurrent, CountOutcome
    PROVE  SittingsInv'
<1>1. UNCHANGED sittings /\ outcomes' = outcomes \cup {turn}
  BY DEF CountOutcome
<1>2. UNCHANGED <<LastIsOpen, WithinBudget, WrongIsEnough, EnoughEndsTheDay, QuestionsServed>>
  BY <1>1 DEF LastIsOpen, WithinBudget, WrongIsEnough, EnoughEndsTheDay, StoppedForToday, Open,
              QuestionsServed
<1>3. turn \in QuestionsServed
  <2> DEFINE i == turn[1]
             s == sittings[i]
  <2>1. i \in DOMAIN sittings /\ turn = CurrentQuestion(i) /\ Open(i)
    BY DEF CountOutcome, TurnIsCurrent
  <2>2. s \in Sitting /\ s.served # <<>> /\ i # 0
    BY <2>1 DEF SittingsInv, LastIsOpen, Shape
  <2>3. Len(s.served) \in DOMAIN s.served
    BY <2>2 DEF Sitting
  <2>4. turn = <<i, Len(s.served)>>
    BY <2>1, <2>2 DEF CurrentQuestion
  <2> HIDE DEF i
  <2>5. turn \in {i} \X DOMAIN s.served
    BY <2>3, <2>4
  <2> QED
    BY <2>1, <2>5 DEF QuestionsServed
<1>4. CountedWasAsked' /\ AnsweredIsCounted'
  BY <1>1, <1>2, <1>3 DEF SittingsInv, CountedWasAsked, AnsweredIsCounted
<1> QED
  BY <1>2, <1>4 DEF SittingsInv

LEMMA SittingsStep ==
    ASSUME IInv, Next
    PROVE  SittingsInv' /\ sittings' \in Seq(Sitting)
<1> USE DEF IInv, TurnInv
<1>1. CASE CountOutcome
  <2>1. UNCHANGED sittings
    BY <1>1 DEF CountOutcome
  <2> QED
    BY <1>1, <2>1, CountingKeepsSittings DEF Shape
<1>2. CASE UNCHANGED outcomes
  <2>1. CASE UNCHANGED sittings
    BY <1>2, <2>1 DEF SittingsInv, LastIsOpen, WithinBudget, WrongIsEnough, EnoughEndsTheDay,
                      StoppedForToday, Open, CountedWasAsked, QuestionsServed,
                      AnsweredIsCounted, Shape
  <2>2. CASE Rewrites(sittings')
    BY <1>2, <2>2, Rewritten DEF Rewrites
  <2>3. CASE Adds(sittings')
    BY <1>2, <2>3, AddingKeepsSittings
  <2> QED
    BY <2>1, <2>2, <2>3, SittingsChange
<1> QED
  BY <1>1, <1>2, OutcomesChange

-----------------------------------------------------------------------------
(***************************************************************************)
(* The turn, and the rest of the state.                                    *)
(***************************************************************************)
LEMMA CapsuleStep ==
    ASSUME IInv, Next
    PROVE  capsule' \in [items : SUBSET Item, index : Nat,
                         status : {"none", "in_progress", "completed"}]
<1> DEFINE C == [items : SUBSET Item, index : Nat, status : {"none", "in_progress", "completed"}]
<1>0. capsule \in C
  BY DEF IInv, Shape
<1>1. CASE ComposeCapsule
  <2>1. CapsuleItems \ Reviewed \subseteq Item
    BY SittingAssumption DEF Item
  <2> QED
    BY <1>1, <2>1 DEF ComposeCapsule
<1>2. CASE CapsuleAnswer
  <2>1. capsule.index + 1 \in Nat
    BY <1>0
  <2> QED
    BY <1>0, <1>2, <2>1 DEF CapsuleAnswer
<1>3. CASE UNCHANGED capsule
  BY <1>0, <1>3
<1> QED
  BY <1>1, <1>2, <1>3
     DEF Next, Take, SendCommand, SendText, SendButton, Send, ReplyOnly, Session, Topic,
         StartTopic, Done, CloseSitting, Grade, CountOutcome, PutAnswered, Reply, Crash,
         MinutesPass, IdlePasses, store

LEMMA PlacesStep ==
    ASSUME IInv, Next
    PROVE  pc' \in {"idle", "turn", "start", "outcome", "answered", "reply"}
<1>1. pc \in {"idle", "turn", "start", "outcome", "answered", "reply"}
  BY DEF IInv, Shape
<1> QED
  BY <1>1
     DEF Next, Take, SendCommand, SendText, SendButton, Send, ReplyOnly, Session, Topic,
         StartTopic, Done, CloseSitting, Grade, CountOutcome, PutAnswered, Reply, Crash,
         MinutesPass, IdlePasses, ComposeCapsule, CapsuleAnswer, store, handler, Goto, Idle

LEMMA AwakeStep ==
    ASSUME IInv, Next
    PROVE  Awake'
<1> SUFFICES ASSUME pc' # "idle", NEW i \in DOMAIN sittings', Open(i)'
             PROVE  ~sittings'[i].stale
  BY DEF Awake
<1>1. CASE \E m \in Slot : Take(m)
  BY <1>1, TakeRewrites DEF Take, Open, IInv
<1>2. CASE pc # "idle"
  <2>1. CASE UNCHANGED sittings
    BY <1>2, <2>1 DEF IInv, TurnInv, Awake, Open
  <2>2. CASE Rewrites(sittings')
    <3>1. i \in DOMAIN sittings
      BY <2>2 DEF Rewrites, IInv, Shape
    <3> QED
      BY <1>2, <2>2, <3>1 DEF Rewrites, Onwards, IInv, TurnInv, Awake, Open
  <2>3. CASE Adds(sittings')
    <3>1. sittings \in Seq(Sitting) /\ \A j \in DOMAIN sittings : ~Open(j)
      BY <2>3 DEF Adds, IInv, Shape
    <3>2. PICK t : sittings' = Append(sittings, t) /\ (t.status = "active" => ~t.stale)
      BY <2>3 DEF Adds
    <3>3. (i \in DOMAIN sittings /\ sittings'[i] = sittings[i]) \/ sittings'[i] = t
      BY <3>1, <3>2
    <3> QED
      BY <3>1, <3>2, <3>3 DEF Open
  <2> QED
    BY <2>1, <2>2, <2>3, SittingsChange
<1> QED
  BY <1>1, <1>2
     DEF Next, SendCommand, SendText, SendButton, Send, ReplyOnly, Session, Topic, StartTopic,
         Done, CloseSitting, Grade, CountOutcome, PutAnswered, Reply, Crash, MinutesPass,
         IdlePasses, ComposeCapsule, CapsuleAnswer, handler, Saying

\* The minutes of a sitting close nothing and ask nothing.
LEMMA MinutesKeep ==
    ASSUME IInv, NEW i \in DOMAIN sittings, MinutesPass(i)
    PROVE  /\ DOMAIN sittings' = DOMAIN sittings /\ UNCHANGED <<pc, turn, outcomes>>
           /\ \A j \in DOMAIN sittings : (Open(j)' <=> Open(j))
                                         /\ sittings'[j].served = sittings[j].served
<1>1. /\ sittings' = [sittings EXCEPT ![i].late = TRUE] /\ sittings[i].status = "active"
      /\ UNCHANGED <<pc, turn, outcomes>>
  BY DEF MinutesPass, OpenStatus, handler
<1>2. sittings \in Seq(Sitting)
  BY DEF IInv, Shape
<1>3. \A j \in DOMAIN sittings : sittings'[j].status = sittings[j].status
                                 /\ sittings'[j].served = sittings[j].served
  BY <1>1, <1>2 DEF Sitting
<1> QED
  BY <1>1, <1>2, <1>3 DEF Open

LEMMA NoneWhileStartingStep ==
    ASSUME IInv, Next
    PROVE  NoneWhileStarting'
<1> USE DEF IInv, TurnInv
<1> SUFFICES ASSUME pc' = "start" PROVE \A i \in DOMAIN sittings' : ~Open(i)'
  BY DEF NoneWhileStarting
<1>1. CASE Topic
  <2>1. pc # "idle"
    BY <1>1 DEF Topic, Saying
  <2>2. CASE OpenSitting = 0
    <3>1. UNCHANGED sittings
      BY <1>1, <2>2 DEF Topic
    <3>2. \A i \in DOMAIN sittings : ~Open(i)
      BY <2>1, <2>2, OpenSittingIs DEF SittingsInv, Shape
    <3> QED
      BY <3>1, <3>2 DEF Open
  <2>3. CASE OpenSitting # 0
    BY <1>1, <2>1, <2>3, ClosingRewrites DEF Topic
  <2> QED
    BY <2>2, <2>3
<1>2. ASSUME NEW i \in DOMAIN sittings, MinutesPass(i)
      PROVE  \A j \in DOMAIN sittings' : ~Open(j)'
  BY <1>2, MinutesKeep DEF NoneWhileStarting
<1>3. CASE pc = "start" /\ UNCHANGED sittings
  BY <1>3 DEF NoneWhileStarting, Open
<1> QED
  BY <1>1, <1>2, <1>3
     DEF Next, Take, SendCommand, SendText, SendButton, Send, ReplyOnly, Session, StartTopic,
         Done, CloseSitting, Grade, CountOutcome, PutAnswered, Reply, Crash,
         IdlePasses, ComposeCapsule, CapsuleAnswer, store, handler, Goto, Idle

LEMMA TurnStep ==
    ASSUME IInv, Next
    PROVE  TurnIsCurrent' /\ TurnIsCounted'
<1> USE DEF IInv, TurnInv
<1>1. CASE Grade
  <2>1. /\ pc = "turn" /\ OpenSitting # 0 /\ pc' = "outcome" /\ UNCHANGED <<sittings, outcomes>>
        /\ turn' = CurrentQuestion(OpenSitting)
    BY <1>1 DEF Grade, Saying, Goto, store
  <2>2. OpenSitting \in DOMAIN sittings /\ Open(OpenSitting)
    BY <2>1, OpenSittingIs DEF SittingsInv
  <2>3. turn'[1] = OpenSitting
    BY <2>1 DEF CurrentQuestion
  <2>4. (turn = CurrentQuestion(turn[1]))' /\ (turn[1] \in DOMAIN sittings)' /\ Open(turn[1])'
    BY <2>1, <2>2, <2>3 DEF CurrentQuestion, Open
  <2> QED
    BY <2>1, <2>4 DEF TurnIsCurrent, TurnIsCounted
<1>2. CASE CountOutcome
  BY <1>2 DEF CountOutcome, Goto, TurnIsCurrent, TurnIsCounted, CurrentQuestion, Open
<1>3. ASSUME NEW i \in DOMAIN sittings, MinutesPass(i)
      PROVE  TurnIsCurrent' /\ TurnIsCounted'
  <2>1. /\ DOMAIN sittings' = DOMAIN sittings /\ UNCHANGED <<pc, turn, outcomes>>
        /\ \A j \in DOMAIN sittings : (Open(j)' <=> Open(j))
                                      /\ sittings'[j].served = sittings[j].served
    BY <1>3, MinutesKeep
  <2>2. TurnIsCounted'
    BY <2>1 DEF TurnIsCounted
  <2>3. ASSUME pc \in {"outcome", "answered"}
        PROVE  /\ (turn = CurrentQuestion(turn[1]))'
               /\ (turn[1] \in DOMAIN sittings)' /\ Open(turn[1])'
    <3>1. turn = CurrentQuestion(turn[1]) /\ turn[1] \in DOMAIN sittings /\ Open(turn[1])
      BY <2>3 DEF TurnIsCurrent
    <3>2. Open(turn[1])'
      BY <2>1, <3>1 DEF Open
    <3> QED
      BY <2>1, <3>1, <3>2 DEF CurrentQuestion
  <2> QED
    BY <2>1, <2>2, <2>3 DEF TurnIsCurrent
<1>4. CASE UNCHANGED <<store, handler>>
  BY <1>4 DEF store, handler, TurnIsCurrent, TurnIsCounted, CurrentQuestion, Open
<1>5. CASE pc' \notin {"outcome", "answered"}
  BY <1>5 DEF TurnIsCurrent, TurnIsCounted
<1> QED
  BY <1>1, <1>2, <1>3, <1>4, <1>5
     DEF Next, Take, SendCommand, SendText, SendButton, Send, ReplyOnly, Session, Topic,
         StartTopic, Done, CloseSitting, PutAnswered, Reply, Crash,
         IdlePasses, ComposeCapsule, CapsuleAnswer, store, handler, Goto, Idle

-----------------------------------------------------------------------------
LEMMA Initially ==
    ASSUME Init PROVE IInv
<1> USE DEF Init
<1>1. Shape
  BY DEF Shape, Sitting
<1>2. SittingsInv
  BY DEF SittingsInv, LastIsOpen, WithinBudget, WrongIsEnough, EnoughEndsTheDay,
         CountedWasAsked, AnsweredIsCounted
<1>3. TurnInv
  BY DEF TurnInv, NoneWhileStarting, Awake, TurnIsCurrent, TurnIsCounted
<1> QED
  BY <1>1, <1>2, <1>3 DEF IInv

LEMMA InvIsInductive ==
    ASSUME IInv, [Next]_vars PROVE IInv'
<1>1. CASE Next
  <2>1. Shape'
    BY <1>1, SittingsStep, CapsuleStep, PlacesStep DEF Shape
  <2>2. TurnInv'
    BY <1>1, NoneWhileStartingStep, AwakeStep, TurnStep DEF TurnInv
  <2> QED
    BY <1>1, <2>1, <2>2, SittingsStep DEF IInv
<1>2. CASE UNCHANGED vars
  <2>1. UNCHANGED <<sittings, capsule, outcomes, pc, turn>>
    BY <1>2 DEF vars, store, handler
  <2>2. Shape'
    BY <2>1 DEF IInv, Shape
  <2>3. SittingsInv'
    BY <2>1 DEF IInv, SittingsInv, LastIsOpen, WithinBudget, WrongIsEnough, EnoughEndsTheDay,
                StoppedForToday, Open, CountedWasAsked, QuestionsServed, AnsweredIsCounted
  <2>4. TurnInv'
    BY <2>1 DEF IInv, TurnInv, NoneWhileStarting, Awake, TurnIsCurrent, TurnIsCounted,
                CurrentQuestion, Open
  <2> QED
    BY <2>2, <2>3, <2>4 DEF IInv
<1> QED
  BY <1>1, <1>2

LEMMA InvHolds == Spec => []IInv
  BY Initially, InvIsInductive, PTL DEF Spec

-----------------------------------------------------------------------------
(***************************************************************************)
(* answer_sitting: what a sitting shows as answered, the learning state    *)
(* has counted, whatever turns were cut short or handled twice.            *)
(***************************************************************************)
THEOREM ShownAnswersAreCounted == Spec => []AnsweredIsCounted
<1>1. IInv => AnsweredIsCounted
  BY DEF IInv, SittingsInv
<1> QED
  BY <1>1, InvHolds, PTL

\* No sitting that is open was answered wrong too often.
LEMMA WrongStopsQuestions ==
    ASSUME IInv, Next, \E i \in DOMAIN sittings : sittings[i].wrong >= WrongStop
    PROVE  QuestionsServed' = QuestionsServed
<1>1. StoppedForToday
  BY DEF IInv, SittingsInv, WrongIsEnough, StoppedForToday
<1>2. \A i \in DOMAIN sittings : ~Open(i)
  BY <1>1 DEF IInv, SittingsInv, EnoughEndsTheDay
<1>3. ~Adds(sittings')
  BY <1>1 DEF Adds
<1>4. Rewrites(sittings') => UNCHANGED sittings
  <2> SUFFICES ASSUME Rewrites(sittings') PROVE UNCHANGED sittings
    OBVIOUS
  <2>1. sittings \in Seq(Sitting) /\ sittings' \in Seq(Sitting) /\ Len(sittings') = Len(sittings)
    BY DEF IInv, Shape, Rewrites
  <2>2. \A j \in DOMAIN sittings : sittings'[j] = sittings[j]
    BY <1>2 DEF Rewrites, Onwards
  <2> QED
    BY <2>1, <2>2
<1> QED
  BY <1>3, <1>4, SittingsChange DEF QuestionsServed

(***************************************************************************)
(* Three wrong in a row end the day: from then on no sitting of the day    *)
(* asks anything, whatever command, topic or message handled again.        *)
(***************************************************************************)
THEOREM WrongEndsTheDay == Spec => WrongAnswersEndTheDay
<1> DEFINE Act == (\E i \in DOMAIN sittings : sittings[i].wrong >= WrongStop)
                    => QuestionsServed' = QuestionsServed
<1>1. IInv /\ [Next]_vars => [Act]_vars
  <2> SUFFICES ASSUME IInv, Next PROVE Act
    OBVIOUS
  <2> QED
    BY WrongStopsQuestions
<1> HIDE DEF Act
<1>2. Spec => [][Act]_vars
  BY <1>1, InvHolds, PTL DEF Spec
<1> QED
  BY <1>2 DEF WrongAnswersEndTheDay, Act

\* A step asks only what the learning state had not counted.
LEMMA NewQuestionsAreNotReviewed ==
    ASSUME IInv, Next, NEW i \in DOMAIN sittings'
    PROVE  LET before == IF i \in DOMAIN sittings THEN Len(sittings[i].served) ELSE 0
           IN  \A n \in before + 1 .. Len(sittings'[i].served) :
                 sittings'[i].served[n] \notin Reviewed
<1> DEFINE before == IF i \in DOMAIN sittings THEN Len(sittings[i].served) ELSE 0
           t == sittings'[i]
<1>1. sittings \in Seq(Sitting) /\ sittings' \in Seq(Sitting)
  BY SittingsStep DEF IInv, Shape
<1>2. t.served \in Seq(Item)
  <2>1. sittings'[i] \in Sitting
    BY <1>1
  <2> QED
    BY <2>1 DEF Sitting
<1>3. i \in DOMAIN sittings => sittings[i].served \in Seq(Item)
  <2>1. i \in DOMAIN sittings => sittings[i] \in Sitting
    BY <1>1
  <2> QED
    BY <2>1 DEF Sitting
<1> SUFFICES ASSUME NEW n \in before + 1 .. Len(t.served)
             PROVE  t.served[n] \notin Reviewed
  OBVIOUS
<1>4. before \in Nat /\ n \in DOMAIN t.served
  BY <1>2, <1>3
<1>5. i \in DOMAIN sittings => n \notin DOMAIN sittings[i].served
  BY <1>2, <1>3
<1> HIDE DEF before
<1>6. CASE UNCHANGED sittings
  BY <1>4, <1>5, <1>6
<1>7. CASE Rewrites(sittings')
  <2>1. i \in DOMAIN sittings
    BY <1>1, <1>7 DEF Rewrites
  <2> QED
    BY <1>4, <1>5, <1>7, <2>1 DEF Rewrites, Onwards
<1>8. CASE Adds(sittings')
  <2>1. PICK u : sittings' = Append(sittings, u)
                 /\ \A k \in DOMAIN u.served : u.served[k] \notin Reviewed
    BY <1>8 DEF Adds
  <2>2. (i \in DOMAIN sittings /\ t = sittings[i]) \/ t = u
    BY <1>1, <2>1
  <2> QED
    BY <1>4, <1>5, <2>1, <2>2
<1> QED
  BY <1>6, <1>7, <1>8, SittingsChange

(***************************************************************************)
(* already_practised: no sitting asks again what one of the day's sittings *)
(* counted, even if the turn that counted it died before the put.          *)
(***************************************************************************)
THEOREM NothingCountedIsAskedAgain == Spec => CountedItemNotServedAgain
<1> DEFINE Act == \A i \in DOMAIN sittings' :
                    LET before == IF i \in DOMAIN sittings THEN Len(sittings[i].served) ELSE 0
                    IN  \A n \in before + 1 .. Len(sittings'[i].served) :
                          sittings'[i].served[n] \notin Reviewed
<1>1. IInv /\ [Next]_vars => [Act]_vars
  <2> SUFFICES ASSUME IInv, Next PROVE Act
    OBVIOUS
  <2> QED
    BY NewQuestionsAreNotReviewed
<1> HIDE DEF Act
<1>2. Spec => [][Act]_vars
  BY <1>1, InvHolds, PTL DEF Spec
<1> QED
  BY <1>2 DEF CountedItemNotServedAgain, Act
=============================================================================
